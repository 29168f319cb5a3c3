\* A struct of more than 2^16 bytes is copied.
SPECIFICATION Spec
CONSTANTS
  Name = {"A", "B", "C", "D", "S"}
  Programs <- LargeStruct
CHECK_DEADLOCK FALSE
INVARIANTS
  CopiesWhole
