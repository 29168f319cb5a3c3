\* All small texts of struct declarations.
SPECIFICATION Spec
CONSTANTS
  Name = {"A", "B", "bool"}
  Programs <- Texts
CHECK_DEADLOCK FALSE
INVARIANTS
  TypeOK
  PrimitivesStay
  NoPlaceholderUsed
  FieldsDisjoint
  RegisteredPointers
  PlacesInBounds
