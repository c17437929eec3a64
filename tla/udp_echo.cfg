SPECIFICATION FairUdpSpec
CONSTANTS
  c1 = c1
  c2 = c2
  Clients <- MCClients
  MaxTries = 3
  QueueMax = 2
\* the servers wait for datagrams forever
CHECK_DEADLOCK FALSE
INVARIANTS
  NoDatagramStranded
  OwnWord
  GivesUpAfterMaxTries
PROPERTIES
  ClientEnds
