SPECIFICATION FairSpec
CONSTANTS
  RealLiteral = {"1.0"}
  IntegerLiteral = {"1i"}
  BooleanLiteral = {"true"}
  Mangled <- MangleTree
  Build <- BuildTree
  Programs <- AssertPrograms
  SmallNames = {"f", "x"}
INVARIANTS AssertionsHold
CHECK_DEADLOCK FALSE
