SPECIFICATION Spec
CONSTANTS
  NumNames = 2
  mqtt = mqtt
  eval = eval
  reader = reader
  out1 = out1
  out2 = out2
  in1 = in1
  ev1 = ev1
  Watchdog = Watchdog
  Producers = {mqtt, eval}
  EarlyThreads = {mqtt}
  Readers = {}
  Finite = {0, 1}
  NonFinite = NonFinite
  Computed = {1}
  Writers <- ListWriters
  Cbs <- ListCbs
  ProducerVal <- ListProducerVal
  InitValue <- ListInitValue
  StaleTimeout <- ListStaleTimeout
  CheckPeriod = 1
  NoOne = NoOne
  None = None
  DataHorizon = 1
  MaxTime = 2
INVARIANTS OutputsFollowStore DeadlineFitsValue
PROPERTIES NoPrematureReset
