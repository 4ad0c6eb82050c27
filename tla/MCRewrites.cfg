SPECIFICATION Spec
CONSTANTS
  t1 = t1
  t2 = t2
  NULL = NULL
  Thread = {t1, t2}
  Char <- Chars
  Beyond = Beyond
  Ip = {near, other}
  MAXRECAPTURE = 3
  Setups <- AllSetups
INVARIANTS
  RewritesByFirstRule
  CopyFillsRoom
  DiesOnlyOfBadRules
  ConnectsByFirstResolved
CHECK_DEADLOCK FALSE
