SPECIFICATION FairSpec
CONSTANTS
  RealLiteral = {"1.0"}
  IntegerLiteral = {"1i"}
  BooleanLiteral = {"true"}
  Mangled <- MangleTree
  Build <- BuildTree
  Programs <- MCPrograms
  SmallNames = {"f", "x"}
INVARIANTS TypeOK ContextIsComplete WellTyped EqualIsSame RecursionIsDeclared HarmlessIsSafe
PROPERTIES GlobalsStable Terminates
CHECK_DEADLOCK FALSE
