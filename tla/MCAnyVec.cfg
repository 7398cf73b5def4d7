\* Two pushers of distinct values and a reader; two resizes are needed, and both
\* threads may do each
SPECIFICATION FairSpec
CONSTANTS
  Pushers = {p1, p2}
  Readers = {r1}
  Values = {a, b}
  Empty = Empty
  FirstBlock = 1
  MaxLen = 4
INVARIANTS
  TypeOK
  PublishedInitialised
  TicketsExact
  WriteInBounds
  StartIndexExact
  IterSound
PROPERTIES
  RefinesConcurrentVec
  PushReturns
