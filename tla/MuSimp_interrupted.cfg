CONSTANTS
  MaxRef = 1000
  GcItems = 40
  LoadFactor = 4
  CacheLog = 5
  DynaThreshold = 1000
  SopSize = 3
  SmoothSize = 5
  UseSopCache = FALSE
  Sizes = {}
  Goals <- MCGoals
  FormulaOf <- Formula
  UserVars <- VarsOf
SPECIFICATION Spec
INVARIANT InterruptLeavesGoal
CHECK_DEADLOCK FALSE
