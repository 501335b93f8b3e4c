SPECIFICATION FairCompilerSpec
CONSTANTS
  RealLiteral = {"0.0", "1.0", "2.0"}
  IntegerLiteral = {"0i", "1i", "2i"}
  BooleanLiteral = {"false", "true"}
  NumberOf <- MCNumberOf
  Subscript <- MCNumberOf
  Renamed <- MCRenamed
  Mangled <- MangleTree
  LlvmType <- LlvmTree
  Build <- BuildTree
  Programs <- AllPrograms
  SmallNames = {"f", "x"}
  ProcessSymbols = {"cos", "malloc"}
  Width = 4
  Depth = 4
INVARIANTS CompilerTypeOK GeneratedIsStructured LookupsSucceed ValuesHaveTheirTypes TameIsTranslated
PROPERTIES FirstDefinitionCounts CompilerTerminates
CHECK_DEADLOCK FALSE
