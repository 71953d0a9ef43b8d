\* A round-robin outbound configured with no actors.
CONSTANTS
  c1 = c1
  c2 = c2
  Calls <- MC_Calls
  N = 0
  MaxPicks = 2
SYMMETRY MC_Symmetry
SPECIFICATION Spec
INVARIANTS
  HandleNeverPanics
