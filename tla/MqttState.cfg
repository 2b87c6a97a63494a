SPECIFICATION ConnSpec
CONSTANTS
  KeepsId = TRUE
  MaxLosses = 1
INVARIANT StoppedIsOff
