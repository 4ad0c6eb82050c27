SPECIFICATION Spec
CONSTANTS
  MAXURLREWRITES = 3
  MAXPORTREWRITES = 1
  MAXPATCHADDRESS = 1
  StrayCounts <- MCStrayCounts
  MaxTokens = 26
INVARIANTS
  TypeOK
  RefusesOnlyBadFiles
  StartsOnlyWithWholeFile
