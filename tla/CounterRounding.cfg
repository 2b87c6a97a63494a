SPECIFICATION Spec
CONSTANTS
  Configs <- OnlyFine
  Grain = 3
  TickPeriod = 1
  SaveInterval = 2
  Missing = Missing
  Invalid = Invalid
  Nothing = Nothing
INVARIANTS NeverOvercounts
