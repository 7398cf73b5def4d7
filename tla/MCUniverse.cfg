\* Two threads, each the first to add one of the two types, and an id counter
\* that wraps at the third entity
SPECIFICATION FairSpec
CONSTANTS
  t1 = t1
  t2 = t2
  c1 = c1
  c2 = c2
  Threads = {t1, t2}
  Types = {c1, c2}
  Creators <- OneCreatorEach
  MaxEntities = 3
  IdSpace = 2
  PoolSize = 1
  MaxRemovals = 2
  MaxModifiers = 1
INVARIANTS
  TypeOK
  NoFault
  BackPointersExact
  EntityMapExact
  ModifierTargetsStable
  NoEntityLost
PROPERTIES
  RefinesEntityStore
  AddReturns
