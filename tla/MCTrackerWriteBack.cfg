SPECIFICATION Spec
CONSTANTS
  Loop = {o1, o2}
  MaxRetries = 1
  PageSize = 2
  MaxCalls = 2
  MaxOthers = 1
SYMMETRY Symmetric
INVARIANTS
  OneCommentUnlessBlind
  OutcomeTrue
  ReadyOnlyIfOpen
CHECK_DEADLOCK FALSE
