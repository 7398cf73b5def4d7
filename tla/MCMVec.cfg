\* Two blocks beyond the first, and so two items with an MItemRef
SPECIFICATION Spec
CONSTANTS
  BASE_BLOCK_SIZE = 1
  MaxItems = 4
INVARIANTS
  ItemsExact
CHECK_DEADLOCK FALSE
