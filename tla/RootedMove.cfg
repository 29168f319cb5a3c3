\* Moving the only Rooted of an object into a new object.
SPECIFICATION Spec
CONSTANTS
  Addr = {a1, a2, a3}
  Null = Null
  Wild = Wild
  None = None
  List = List
  next = next
  RtType = {List}
  Field = {next}
  FieldType <- ListFields
  NestedFields <- NoNesting
  Var = {v1, v2}
SYMMETRY Symm
INVARIANTS
  HeapWellFormed
