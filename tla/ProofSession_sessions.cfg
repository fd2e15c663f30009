SPECIFICATION MCSpec
CONSTANTS
  c1 = c1
  c2 = c2
  s1 = s1
  s2 = s2
  Nobody = nobody
  Clients <- MCClients
  Sessions <- MCSessions
  Starters = {c1}
  Shares = FALSE
  Interrupters = {c2}
  Quitters = {c1, c2}
  MaxCalls = 2
  MaxInterrupts = 1
INVARIANTS
  TypeOK
  NoStaleAnswer
  QuitAllLeavesNone
  RecordIsTrue
PROPERTIES
  ImplementsProofService
  QuitAllReturns
CHECK_DEADLOCK FALSE
