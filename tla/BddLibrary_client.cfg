CONSTANTS
  MaxRef = 4
  GcItems = 3
  LoadFactor = 1
  CacheLog = 2
  DynaThreshold = 4
  SopSize = 3
  SmoothSize = 2
  UseSopCache = FALSE
  Slots = {1, 2, 3, 4}
  MaxVars = 3
  Starts = {0, 3}
  MaxOps = 3
  Calls = {"xor", "apply"}
SPECIFICATION LibSpec
INVARIANTS
  TypeOK HeldKeepMeaning RefsKept DeadCounted Canonical CacheSound
  OrderConsistent AnswersTrue WalkRestoresLinks CubesExplain
CHECK_DEADLOCK FALSE
