SPECIFICATION Spec
CONSTANTS
  MaxByte = 6
  MaxLength = 3
  Cap4 = 2
  Cap16 = 3
  Cap48 = 5
  Values <- AllSingles
  Removable <- NoValues
INVARIANTS
  ValuesInOrder
CHECK_DEADLOCK FALSE
