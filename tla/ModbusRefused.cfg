SPECIFICATION FairSpec
CONSTANTS
  v1 = v1
  v2 = v2
  NumSlaves = 1
  NumBlocks <- RefuseNumBlocks
  Register <- RefuseRegister
  Outs <- RefuseOuts
  ReadOutcomes <- RefuseReadOutcomes
  WriteOutcomes <- RefuseWriteOutcomes
  Tcp = TRUE
  NoValue = NoValue
  Interval = 2
  Separation = 1
  Timeout = 1
  ReconnectDelay = 2
  MaxVersion = 1
PROPERTIES AcceptedIsWritten
