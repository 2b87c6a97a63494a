SPECIFICATION Spec
CONSTANTS
  NumConns = 2
  HasLogger = TRUE
  NoCall = NoCall
  MaxCalls = 3
INVARIANTS NoUseAfterDestroy
