SPECIFICATION FairSpec
CONSTANTS
  RealLiteral = {"1.0"}
  IntegerLiteral = {"1i"}
  BooleanLiteral = {"true"}
  Ident <- MCIdent
  Inputs <- MCInputs
  AllLength = 3
  OperatorLength = 5
  BracketLength = 5
  PrototypeLength = 5
INVARIANTS TypeOK InBounds SingleOwner AcceptedIsDerivable DerivableIsAccepted PostOrderIds ParsedInPostOrder
PROPERTIES Terminates
CHECK_DEADLOCK FALSE
