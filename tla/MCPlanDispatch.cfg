SPECIFICATION Spec
CONSTANTS
  T1 = T1
  T2 = T2
  T3 = T3
  PlanTask <- ThreeTasks
  Ghost = Ghost
  NoTask = NoTask
  Plans <- ThreeTaskPlans
  Session = {o1, o2}
  Us = Us
  Peers = {}
  Nobody = Nobody
  Ambiguous = {T2}
  MaxPeers = 0
  MaxBase = 3
  MaxCommits = 0
  MaxCrashes = 1
  MaxBumps = 1
INVARIANTS OneWorker DependenciesMerged
PROPERTIES CompleteStays PlanEnds
CHECK_DEADLOCK FALSE
