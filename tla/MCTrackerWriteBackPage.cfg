SPECIFICATION Spec
CONSTANTS
  Loop = {o1}
  MaxRetries = 1
  PageSize = 1
  MaxCalls = 2
  MaxOthers = 1
SYMMETRY Symmetric
PROPERTY ReadSearchFindsMarker
CHECK_DEADLOCK FALSE
