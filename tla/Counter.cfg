SPECIFICATION FairSpec
CONSTANTS
  Configs <- AllConfigs
  Grain = 1
  TickPeriod = 1
  SaveInterval = 2
  Missing = Missing
  Invalid = Invalid
  Nothing = Nothing
INVARIANTS CleanIsSaved NeverOvercounts GlitchesAreBounded
PROPERTIES TotalNeverDecreases BrokenFileIsKept ChangesAreSaved
