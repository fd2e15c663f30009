CONSTANTS
  Strategy <- MCStrategy
  Def <- MCDef
  LogicRule <- MCLogicRule
  Outcomes <- MCOutcomes
  Command <- MCCommand
  Decl <- MCDecl
  RootKind <- GuideRootKind
  ProvingTcc <- GuideProvingTcc
  Scripts <- GuideScripts
  Interrupts = FALSE
  MaxNodes = 20
SPECIFICATION Spec
INVARIANT NestedTryRecovers
