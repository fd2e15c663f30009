SPECIFICATION FairSpec
CONSTANTS
  c1 = c1
  c2 = c2
  s1 = s1
  s2 = s2
  Nobody = nobody
  Clients <- MCClients
  Sessions = {s1}
  Starters = {c1}
  Shares = FALSE
  Interrupters = {c2}
  Quitters = {}
  MaxCalls = 1
  MaxInterrupts = 1
PROPERTY EveryCallAnswered
CHECK_DEADLOCK FALSE
