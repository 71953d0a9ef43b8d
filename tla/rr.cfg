\* Three actors, two concurrent calls, seven invocations.
CONSTANTS
  c1 = c1
  c2 = c2
  Calls <- MC_Calls
  N = 3
  MaxPicks = 7
SYMMETRY MC_Symmetry
SPECIFICATION Spec
INVARIANTS
  TypeOK
  CursorInRange
  RotationWhenSerial
