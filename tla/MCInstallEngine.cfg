SPECIFICATION Spec
CONSTANTS
  None = None
  Proc = {p1, p2}
  MaxDirs = 8
  MaxLitter = 5
  Faults = {{"rename"}, {"rmtree"}}
SYMMETRY Symmetric
INVARIANTS
  InstallSurvives
  DestIsWhole
  OutcomeHonest
