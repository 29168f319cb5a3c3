\* All graphs of up to three blocks with two written pointers, and all lists of
\* up to three with one pointer that may be unwritten.
SPECIFICATION MCSpec
CONSTANTS
  a1 = a1
  a2 = a2
  a3 = a3
  Pair = Pair
  Node = Node
  left = left
  right = right
  Addr = {a1, a2, a3}
  Null = Null
  Wild = Wild
  RtType = {Pair, Node}
  Field = {left, right}
  FieldType <- FieldTypes
  NestedFields <- NoNesting
  Contents <- Ptr
  MaxRoots = 1
CHECK_DEADLOCK FALSE
INVARIANTS
  TypeOK
  NothingForgotten
  ComputesSweep
PROPERTIES
  Terminates
