\* Two threads load, reload, unload and iterate while calls run.
CONSTANTS
  Names = {n1, n2}
  MaxObjects = 2
  Programs = {p1, p2}
  Loaders = {p2}
  Iterators = {p2}
  Workers = {w1}
  MaxState = 1
SPECIFICATION FairSpec
INVARIANTS TypeOK NoneForgotten DeinitOnce StateDumped
PROPERTIES StateNeverBack UnloadEnds
CHECK_DEADLOCK FALSE
