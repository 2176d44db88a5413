SPECIFICATION FairSpec
CONSTANTS
  host = host
  NoAddress = NoAddress
  Clients = {c1}
  Assists = {1, 2}
  Address <- OneAddress
  SeqSpace = 3
  MaxPings = 2
  MaxAsks = 2
  MaxSeq = 3
INVARIANTS
  TypeOK
  HooksReady
  OwnAnswer
  ListedOpen
PROPERTIES
  DiscoveryEnds
  RelayEnds
CHECK_DEADLOCK FALSE
