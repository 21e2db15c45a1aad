SPECIFICATION Spec
CONSTANTS
  None = None
  Proc = {p1, p2}
  MaxDirs = 6
  MaxLitter = 6
  Faults = {{"rmtree", "rename"}}
SYMMETRY Symmetric
INVARIANT
  NoRollback
