SPECIFICATION OutputsSpec
CONSTANTS
  NumFrames = 2
  s1 = s1
  t1 = t1
  Slots = {s1}
  Threads = {t1}
  Timings <- TxTimings
  Updates <- TxUpdates
  TxSleep = 1
  MaxLag = 1
  Idle = Idle
  ByteBits = 2
  DataLen = 5
  Layouts <- PairLayouts
  CanNumbers <- PairNumbers
  NoReading = NoReading
  WordBits = 2
  Blocks <- TypeBlocks
  MbNumbers <- EdgeNumbers
  MaxExp = 0
  MaxFloat = 1500
  NoNumber = NoNumber
  NumPhases = 2
  HasTotal = FALSE
  Powers = {1, 2}
  Invalid = Invalid
  Interval = 3
  MaxClock = 8
  MaxSets = 2
INVARIANTS NoUpdateForgotten FrameRoundTrip WrittenReadsBack AnswerIsCurrent NextIsNear
PROPERTIES ArmedIsSent SlotsIncrease
