SPECIFICATION FairConflakeSpec
CONSTANTS
  RealLiteral <- MCReal
  IntegerLiteral <- MCInteger
  BooleanLiteral = {"false", "true"}
  Ident <- MCIdent
  Inputs <- OwnName
  NumberOf <- MCNumberOf
  Subscript <- MCNumberOf
  Renamed <- MCRenamed
  Mangled <- MangleTree
  LlvmType <- LlvmTree
  Build <- BuildTree
  Programs <- NoPrograms
  ProcessSymbols = {"cos", "malloc"}
  Width = 6
  Depth = 10
  FileLength = 4
  BodyLength = 3
INVARIANTS GeneratedIsValid
CHECK_DEADLOCK FALSE
