SPECIFICATION Spec
CONSTANTS
  T1 = T1
  T2 = T2
  T3 = T3
  PlanTask <- TwoTasks
  Ghost = Ghost
  NoTask = NoTask
  Plans <- TwoTaskPlans
  Session = {o1, o2}
  Us = Us
  Peers = {Us, Them}
  Nobody = Nobody
  Ambiguous = {}
  MaxPeers = 1
  MaxBase = 2
  MaxCommits = 1
  MaxCrashes = 1
  MaxBumps = 0
INVARIANT NoSecondPr
PROPERTY PlanEnds

CHECK_DEADLOCK FALSE
