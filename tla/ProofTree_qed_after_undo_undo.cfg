CONSTANTS
  Strategy <- MCStrategy
  Def <- MCDef
  LogicRule <- MCLogicRule
  Outcomes <- MCOutcomes
  Command <- Undoable
  Decl <- MCDecl
  RootKind <- AtTop
  ProvingTcc <- Attended
  Scripts <- Interactive
  Interrupts = TRUE
  MaxNodes = 5
SPECIFICATION Spec
INVARIANT QedClosesEveryGoal
