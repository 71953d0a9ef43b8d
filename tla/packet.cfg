\* Three clients that eventually close, one packet each way per session, all failures possible.
CONSTANTS
  c1 = c1
  c2 = c2
  c3 = c3
  none = none
  Clients <- MC_Clients
  NoClient <- none
  MaxPkts = 1
  Faults = TRUE
SPECIFICATION ClosingClientsSpec
INVARIANT TypeOK
PROPERTIES
  ClosedClientReleased
  QueuedClientServed
