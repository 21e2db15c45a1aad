SPECIFICATION Spec
CONSTANTS
  None = None
  Torn = Torn
  Session = {s1, s2}
  Writer = {w1, w2}
  Skew = 1
  Forged = 1
  Earlier = 2
  MaxCalls = 2
  MaxClock = 2
  MaxUpsets = 2
CONSTRAINT FewUpsets
SYMMETRY Symmetric
INVARIANTS
  VerifyAccepts
  AckedStays
  LoggedOnce
  NeverAccused
CHECK_DEADLOCK FALSE
