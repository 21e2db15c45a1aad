SPECIFICATION Spec
CONSTANTS
  None = None
  Proc = {p1, p2}
  MaxDirs = 4
  MaxLitter = 4
  Faults = {{"meddling"}}
SYMMETRY Symmetric
INVARIANT
  OldCopyKept
