SPECIFICATION Spec
CONSTANTS
  Thread = {t1, t2}
  Handle = {1, 2, 3, 4, 5, 6, 7}
  Ctx = {c1, c2}
  NULL = NULL
  MAX_HTTP_HEADER = 1
  HeaderBound = 0
  MaxHops = 1
  ReopenConnect = FALSE
  Alloc <- LowestFree
CONSTRAINT FewUndisturbed
SYMMETRY SymmetryThread
VIEW UpToNames
INVARIANTS NoUseAfterFree ContextPerConnect
CHECK_DEADLOCK FALSE
