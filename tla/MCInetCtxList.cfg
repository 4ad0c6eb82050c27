SPECIFICATION Spec
CONSTANTS
  Thread = {t1, t2}
  Ctx = {c1, c2, c3}
  NULL = NULL
  Root = Root
  Lost = Lost
INVARIANTS
  TypeOK
  HarmNeedsOverlap
PROPERTIES
  RefinesCtxList
CONSTRAINT Unharmed
CHECK_DEADLOCK FALSE
