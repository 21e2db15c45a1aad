SPECIFICATION Spec
CONSTANTS
  None = None
  Torn = Torn
  Session = {s1}
  Writer = {w1, w2}
  Skew = 1
  Forged = 2
  Earlier = 2
  MaxCalls = 2
  MaxClock = 2
  MaxUpsets = 3
SYMMETRY Symmetric
INVARIANT SafeToRepeat
