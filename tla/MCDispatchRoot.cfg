SPECIFICATION Spec
CONSTANTS
  None = None
  Root = Root
  Torn = Torn
  Session = Session
  Cleaner = {c1, c2}
  Exporter = {e1}
  Dirs = {1}
  Claims = {1, 2}
  Late = 1
SYMMETRY Symmetric
INVARIANTS
  OwnershipRule
  ContentsKeepMarker
PROPERTIES
  AbsentIsTrue
  LiveOwnerKept
