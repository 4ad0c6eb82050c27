SPECIFICATION Spec
CONSTANTS
  NCode = 1
  NChecks = 2
  MaxPieces = 2
INVARIANTS TypeOK EchoesInOrder
PROPERTIES CodeAlterationReported AllClearReported RepliesReport Reconnects
