CONSTANTS
  Strategy <- MCStrategy
  Def <- MCDef
  LogicRule <- MCLogicRule
  Outcomes <- MCOutcomes
  Command <- MCNoFail
  Decl <- MCDecl
  RootKind <- AtTop
  ProvingTcc <- Attended
  Scripts <- Interactive
  Interrupts = TRUE
  MaxNodes = 5
SPECIFICATION FairSpec
INVARIANT NoGoalLost
PROPERTIES ClosedStaysClosed EveryGoalComesUp
