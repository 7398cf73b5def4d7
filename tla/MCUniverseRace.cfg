\* Two threads add the first entity of the same type
SPECIFICATION Spec
CONSTANTS
  t1 = t1
  t2 = t2
  c1 = c1
  c2 = c2
  Threads = {t1, t2}
  Types = {c1}
  Creators <- AnyCreator
  MaxEntities = 2
  IdSpace = 4
  PoolSize = 1
  MaxRemovals = 1
  MaxModifiers = 1
INVARIANTS
  NoEntityLost
