SPECIFICATION RunSpec
CONSTANTS
  Run = {r1, r2}
  Other = Other
  Free = Free
SYMMETRY Symmetric
INVARIANTS
  NothingLeftRunning
PROPERTY
  SmokeIsOwn
