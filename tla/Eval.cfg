SPECIFICATION FairSpec
CONSTANTS
  NumEvals = 3
  a = a
  b = b
  diff = diff
  pump = pump
  runtime = runtime
  Inputs = {a, b}
  Pub <- ChainPub
  Reads <- ChainReads
  Triggers <- ChainTriggers
  Period <- ChainPeriod
  Numbers = {1, 2}
  Broken = 2
  Thread = Thread
  NoOne = NoOne
  MaxUpdates = 2
  MaxTime = 2
INVARIANTS NoTriggerLost ScheduleKept
PROPERTIES ValuesSettle DueEvalRuns ShutdownCompletes
