SPECIFICATION PollersSpec
CONSTANTS
  v1 = v1
  v2 = v2
  NumSlaves = 2
  NumBlocks <- PairNumBlocks
  Register <- PairRegister
  Outs <- PairOuts
  ReadOutcomes <- PairReadOutcomes
  WriteOutcomes <- PairWriteOutcomes
  Tcp = FALSE
  NoValue = NoValue
  Interval = 2
  Separation = 1
  Timeout = 1
  ReconnectDelay = 2
  MaxVersion = 2
  NumJson = 2
  PollInterval = 3
  GetTimeout = 2
  JsonStale = 4
  CheckPeriod = 3
  LookPeriod = 2
  Gated = TRUE
  NoJson = NoJson
  NotObject = NotObject
INVARIANTS NoWriteLost AgeIsBounded PollIsComplete
PROPERTIES DeviceNeverGoesBack BlocksAreServed AcceptedIsWritten
