CONSTANTS
  ann = ann
  bob = bob
  m1 = m1
  m2 = m2
  Pair <- MCPair
  Messages <- MCMessages
  sender <- MCsender
  Runs <- MCRuns
SPECIFICATION ReceiptsSpec
INVARIANTS
  ReadWasShown
  ShownIsRead
PROPERTY MeetsInbox
