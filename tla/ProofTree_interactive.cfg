CONSTANTS
  Strategy <- MCStrategy
  Def <- MCDef
  LogicRule <- MCLogicRule
  Outcomes <- MCOutcomes
  Command <- MCCommand
  Decl <- MCDecl
  RootKind <- AtTop
  ProvingTcc <- Attended
  Scripts <- Interactive
  Interrupts = TRUE
  MaxNodes = 6
SPECIFICATION Spec
INVARIANTS TypeOK NoGoalLost QedClosesEveryGoal PathIntact QedRefersToAllUses
PROPERTY ImplementsProofSearch
