\* Three blocks of 2, 4 and 8 elements of 3 bytes; one thread removes, as
\* process_queues does, any elements in any order
SPECIFICATION Spec
CONSTANTS
  Removers = {t1}
  Values = {a, b}
  Dead = Dead
  FirstBlock = 2
  Size = 3
  MaxLen = 7
INVARIANTS
  TypeOK
  IterExact
  PairsExact
  DropExact
PROPERTIES
  StepsExact
