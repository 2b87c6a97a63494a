SPECIFICATION ProgramSpec
CONSTANTS
  NumConns = 2
  HasLogger = TRUE
  NoCall = NoCall
  MaxCalls = 3
  KeepsId = TRUE
  MaxLosses = 2
  c1 = c1
  c2 = c2
  c3 = c3
  ServerConns = {c1, c2, c3}
  MaxClients = 1
  NoFd = NoFd
INVARIANTS StoppedBeforeDestroyed SavedAfterLastValue NothingLeft
PROPERTIES SignalEndsProgram PresenceSettles ClientsAreServed
