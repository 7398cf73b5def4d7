\* The first resize moves the block list under a thread that is walking it
SPECIFICATION Spec
CONSTANTS
  Pushers = {p1, p2}
  Readers = {r1}
  Values = {a}
  Empty = Empty
  FirstBlock = 2
  MaxLen = 3
SYMMETRY Symmetry
INVARIANTS
  NoFreedListRead
