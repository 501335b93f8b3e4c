SPECIFICATION FairSpec
CONSTANTS
  RealLiteral = {"1.0"}
  IntegerLiteral = {"1i"}
  BooleanLiteral = {"true"}
  Ident <- MCIdent
  Inputs <- MCInputs
  AllLength = 2
  OperatorLength = 2
  BracketLength = 2
  PrototypeLength = 2
INVARIANTS AcceptedIsNullFree
CHECK_DEADLOCK FALSE
