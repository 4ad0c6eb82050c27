SPECIFICATION Spec
CONSTANTS
  Addr = {p1, p2, p3}
  NULL = NULL
  CAPACITY = 2
  MaxDepth = 2
INVARIANTS TypeOK FoundAsConstructed FillRestored
PROPERTY RefinesCoinSet
