\* Root addresses against slot addresses.
SPECIFICATION Spec
CONSTANTS
  work = work
  make = make
  Func = {work, make}
  GcLocal <- MCGcLocal
  Saved = 0
  StackTop = 40
  MaxDepth = 2
INVARIANTS
  RootsAreSlots
