SPECIFICATION SetupSpec
CONSTANTS
  Names = {a, b, c}
  None = None
  MaxSections = 3
  MaxReads = 1
  MaxTriggers = 1
  MainThread = main
  InputThreads = {input}
  CounterThread = counter
  EvalThread = eval
  NoOne = NoOne
  NumValues = 3
  Outside = {x}
  x = x
  NumEvals = 4
SYMMETRY NameSymmetry
CHECK_DEADLOCK FALSE
INVARIANTS SourcesAreSound SlotsFilled NoCircularWait ClosureExact CyclesRefused
