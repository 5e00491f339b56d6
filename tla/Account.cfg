CONSTANTS
  ann = ann
  bob = bob
  d1 = d1
  d2 = d2
  Clients <- MCClients
  Users = {ann, bob}
  Google = {bob}
  Devices = {d1, d2}
  Names = {n1}
  Empty = Empty
  NoDocument = NoDocument
  Nobody = Nobody
  MaxPending = 0
SPECIFICATION Spec
INVARIANTS
  UndocumentedIsUnderWay
  SharedNameNeedsRace
PROPERTY NameKept
