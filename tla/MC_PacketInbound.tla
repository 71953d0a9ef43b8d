--------------------------- MODULE MC_PacketInbound ---------------------------
EXTENDS PacketInbound, TLC

CONSTANTS c1, c2, c3, none

MC_Clients == {c1, c2, c3}

MC_Symmetry == Permutations(MC_Clients)
=============================================================================
