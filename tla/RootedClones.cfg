\* The interface used the way test_runtime_gc uses it.
SPECIFICATION CloningSpec
CONSTANTS
  Addr = {a1, a2, a3, a4}
  Null = Null
  Wild = Wild
  None = None
  List = List
  next = next
  RtType = {List}
  Field = {next}
  FieldType <- ListFields
  NestedFields <- NoNesting
  Var = {v1, v2, v3, v4}
SYMMETRY Symm
INVARIANTS
  TypeOK
  HeapWellFormed
  RootedCounted
PROPERTIES
  FreesExactlyGarbage
