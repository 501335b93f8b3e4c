SPECIFICATION FairConflakeSpec
CONSTANTS
  RealLiteral <- MCReal
  IntegerLiteral <- MCInteger
  BooleanLiteral = {"false", "true"}
  Ident <- MCIdent
  Inputs <- TwoExpressions
  NumberOf <- MCNumberOf
  Subscript <- MCNumberOf
  Renamed <- MCRenamed
  Mangled <- MangleTree
  LlvmType <- LlvmTree
  Build <- BuildTree
  Programs <- NoPrograms
  ProcessSymbols = {"cos", "malloc"}
  Width = 6
  Depth = 10
  FileLength = 4
  BodyLength = 3
PROPERTIES ReusedIsDeclaration
CHECK_DEADLOCK FALSE
