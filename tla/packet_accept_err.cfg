\* Three clients that eventually close, with failures: an accept error.
CONSTANTS
  c1 = c1
  c2 = c2
  c3 = c3
  none = none
  Clients <- MC_Clients
  NoClient <- none
  MaxPkts = 1
  Faults = TRUE
SPECIFICATION ClosingClientsSpec
PROPERTY EveryClientServed
