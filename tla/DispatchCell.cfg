SPECIFICATION FairSpec
CONSTANTS
  NumNames = 1
  mqtt = mqtt
  eval = eval
  reader = reader
  out1 = out1
  out2 = out2
  in1 = in1
  ev1 = ev1
  Watchdog = Watchdog
  Producers = {mqtt}
  EarlyThreads = {mqtt}
  Readers = {reader}
  Finite = {0, 1}
  NonFinite = NonFinite
  Computed = {}
  Writers <- CellWriters
  Cbs <- CellCbs
  ProducerVal <- CellProducerVal
  InitValue <- CellInitValue
  StaleTimeout <- CellStaleTimeout
  CheckPeriod = 1
  NoOne = NoOne
  None = None
  DataHorizon = 2
  MaxTime = 2
PROPERTIES SilenceIsNoticed ImplementsFairCell
