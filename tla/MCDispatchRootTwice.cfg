SPECIFICATION Spec
CONSTANTS
  None = None
  Root = Root
  Torn = Torn
  Session = Session
  Cleaner = {c1}
  Exporter = {e1, e2}
  Dirs = {1, 2}
  Claims = {1, 2}
  Late = 0
SYMMETRY Symmetric
PROPERTY FailedExportRemovesOnlyItsOwn
