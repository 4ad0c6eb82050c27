SPECIFICATION Spec
CONSTANTS
  Thread = {t1}
  Handle = {1, 2, 3, 4, 5, 6, 7}
  Ctx = {c1, c2}
  NULL = NULL
  MAX_HTTP_HEADER = 1
  HeaderBound = 2
  MaxHops = 2
  ReopenConnect = FALSE
  Alloc <- LowestFree
CONSTRAINT FewLater
SYMMETRY SymmetryThread
VIEW UpToNames
INVARIANTS TypeOK OwnedLive RouteOwn NoLeak HeadersReplayed
PROPERTY AnswerIsReadable
CHECK_DEADLOCK FALSE
