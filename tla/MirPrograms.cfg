\* mir_fib.txt and every small text, compiled and run.
SPECIFICATION Spec
CONSTANTS
  None = None
  Undef = Undef
  IntMax = 127
  Texts <- AllTexts
  Actuals = {0, 1, 5}
  MaxDepth = 5
CHECK_DEADLOCK FALSE
INVARIANTS
  TypeOK
  FramesRegistered
  AcceptsWellFormed
PROPERTIES
  ImplementsText
  FibonacciAnswers
