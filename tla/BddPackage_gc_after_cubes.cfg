CONSTANTS
  MaxRef = 4
  GcItems = 3
  LoadFactor = 1
  CacheLog = 2
  DynaThreshold = 4
  SopSize = 3
  SmoothSize = 2
  UseSopCache = TRUE
  Slots = {1, 2, 3, 4}
  MaxVars = 3
  Starts = {3}
  MaxOps = 5
  Calls = {"xor", "apply"}
SPECIFICATION Spec
INVARIANT CacheSound
CHECK_DEADLOCK FALSE
