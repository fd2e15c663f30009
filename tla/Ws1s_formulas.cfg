CONSTANTS
  Booleans = {"b"}
  Numbers = {"x", "y", "z"}
  Sets = {"S", "T", "U"}
  Binders = {"b", "x", "y", "S"}
  Atoms <- MCAtoms
  MaxSize = 4
  Horizon = 3
SPECIFICATION Spec
INVARIANTS LanguageIsMeaning StatusIsVerdict ExampleIsNearest Minimal ExportRoundTrips
CHECK_DEADLOCK FALSE
