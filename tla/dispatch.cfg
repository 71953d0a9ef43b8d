\* Two concurrent TCP or UDP flows, two tags, every manager configuration.
CONSTANTS
  f1 = f1
  f2 = f2
  t1 = t1
  t2 = t2
  NoTag = NoTag
  Flows <- MC_Flows
  Tags <- MC_Tags
  Networks = {"tcp", "udp"}
SYMMETRY MC_Symmetry
SPECIFICATION Spec
INVARIANTS
  TypeOK
  TcpAccessLog
