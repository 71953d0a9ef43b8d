\* UDP flows: a dial failure and the access log.
CONSTANTS
  f1 = f1
  f2 = f2
  t1 = t1
  t2 = t2
  NoTag = NoTag
  Flows <- MC_Flows
  Tags <- MC_Tags
  Networks = {"udp"}
SYMMETRY MC_Symmetry
SPECIFICATION Spec
INVARIANTS
  UdpAccessLog
