CONSTANTS
  Katran = {TRUE, FALSE}
  Sizes = {0, 1, 2, 3}
  MAX_CODE_SIZE = 2
SPECIFICATION Spec
INVARIANTS ReturnsClean PumpHasAll
CHECK_DEADLOCK FALSE
