\* Any program: a sweep reads pointer fields nobody has written.
SPECIFICATION Spec
CONSTANTS
  Addr = {a1, a2, a3}
  Null = Null
  Wild = Wild
  None = None
  Node = Node
  Leaf = Leaf
  next = next
  item = item
  work = work
  make = make
  w = w
  x = x
  y = y
  z = z
  RtType = {Node, Leaf}
  Field = {next, item}
  FieldType <- MCFieldType
  NestedFields <- NoNesting
  Func = {work, make}
  Local = {w, x, y, z}
  LocalType <- MCLocalType
  FuncLocals <- MCFuncLocals
  Untracked = {}
  Assignable <- SameType
  Param <- MCParam
  Handle = {h1}
  MaxDepth = 2
SYMMETRY Symm
INVARIANTS
  NeverPanics
