SPECIFICATION Spec
CONSTANTS
  None = None
  Unbounded = Unbounded
  Caller = {p1, p2}
  Head = {h1, h2}
  MaxPolls = 1
INVARIANTS
  MarkedMeansDone
  NoOverlap
  AckedSurvivesPowerLoss
PROPERTIES
  NoRepeat
  BoundedWaitEnds
