SPECIFICATION Spec
CONSTANTS
  Thread = {t1, t2}
  NULL = NULL
  Impl = {v1, v2}
  Exe = Exe
  MaxSites = 1
SYMMETRY Symmetry
INVARIANTS
  TypeOK
  ReadyWhenReachable
  LateHooksNeedOverlap
  StartedGameIsPatched
CHECK_DEADLOCK FALSE
