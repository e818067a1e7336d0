SPECIFICATION Spec
CONSTANTS
  MaxByte = 6
  MaxLength = 3
  Cap4 = 2
  Cap16 = 3
  Cap48 = 4
  Values <- Mixed
  Removable <- Mixed
INVARIANTS
  ValuesInOrder
  CountExact
  ShapeIsCanonical
