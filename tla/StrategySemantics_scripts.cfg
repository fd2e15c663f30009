CONSTANTS
  Strategy <- MCStrategy
  Def <- MCDef
  LogicRule <- MCLogicRule
  Outcomes <- MCOutcomes
  Command <- MCCommand
  Decl <- MCDecl
  RootKind <- MCRootKind
  ProvingTcc <- MCProvingTcc
  Scripts <- MCScripts
  Interrupts = FALSE
  MaxNodes = 20
SPECIFICATION FairSpec
INVARIANTS ResultIsCompositional ApplyReturnsOpenGoals FailDecides
PROPERTY Terminates
