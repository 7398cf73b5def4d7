\* Two pushers on one slot: when it is taken one fails, and the other comes
\* before its increment has been taken back.  The list stays small: this run is
\* about the vector
SPECIFICATION MCSpec
CONSTANTS
  Pushers = {p1, p2}
  Readers = {r1}
  Capacity = 1
  MaxLen = 3
  MaxNodes = 1
INVARIANTS
  NoOverrun
CHECK_DEADLOCK FALSE
