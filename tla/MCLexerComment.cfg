SPECIFICATION FairSpec
CONSTANTS
  Letter = {"d", "i"}
  SuffixI = "i"
  Digit = {"0", "1"}
  DigitValue <- MCDigitValue
  Radix = 2
  MaxInt = 2
  Space = {" ", "n"}
  LineEnd = {"n"}
  Nul = "z"
  EofChar = "eof"
  Keyword <- MCKeyword
  Inputs <- MCInputs
  Alphabet = {"d", "i", "1", ".", "#", "n", "z", "+"}
  MaxLength = 3
PROPERTIES Terminates
CHECK_DEADLOCK FALSE
