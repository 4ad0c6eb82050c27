SPECIFICATION Spec
CONSTANTS
  Thread = {t1}
  Handle = {1, 2, 3, 4, 5, 6, 7, 8}
  Ctx = {c1, c2}
  NULL = NULL
  MAX_HTTP_HEADER = 1
  HeaderBound = 0
  MaxHops = 2
  ReopenConnect = TRUE
  Alloc <- LowestFree
SYMMETRY SymmetryThread
VIEW UpToNames
INVARIANT RouteOwn
CHECK_DEADLOCK FALSE
