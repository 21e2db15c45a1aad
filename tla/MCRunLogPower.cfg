SPECIFICATION Spec
CONSTANTS
  None = None
  Torn = Torn
  Session = {s1}
  Writer = {w1, w2}
  Skew = 1
  Forged = 1
  Earlier = 2
  MaxCalls = 2
  MaxClock = 0
  MaxUpsets = 3
SYMMETRY Symmetric
INVARIANT AckedSurvivesPowerLoss
CHECK_DEADLOCK FALSE
