\* Three pushers and a reader.  On two slots two pushes can fail at once, and
\* one of them overrun; on the list a push can return behind two that have not
\* linked their nodes, while the reader iterates again and again
SPECIFICATION MCSpec
CONSTANTS
  Pushers = {p1, p2, p3}
  Readers = {r1}
  Capacity = 2
  MaxLen = 5
  MaxNodes = 5
INVARIANTS
  VecTypeOK
  LenExact
  ReadSound
  TypeOK
  ChainExact
  LenCovers
  IterSound
PROPERTIES
  PushedIsFound
CHECK_DEADLOCK FALSE
