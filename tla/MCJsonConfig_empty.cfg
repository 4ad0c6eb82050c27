SPECIFICATION Spec
CONSTANTS
  MAXURLREWRITES = 3
  MAXPORTREWRITES = 1
  MAXPATCHADDRESS = 1
  StrayCounts <- MCStrayCounts
  MaxTokens = 20
INVARIANT
  EmptyListsAccepted
