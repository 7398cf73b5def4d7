\* Two threads remove different elements
SPECIFICATION Spec
CONSTANTS
  Removers = {t1, t2}
  Values = {a, b}
  Dead = Dead
  FirstBlock = 2
  Size = 3
  MaxLen = 3
INVARIANTS
  SurvivorsExact
