CONSTANTS
  Models = {"nmos", "nes", "wdc"}
  Operands <- EdgeBytes
  Instructions <- AllInstructions
SPECIFICATION Spec
INVARIANTS
  SignedArithmetic
  DecimalArithmetic
  DecimalSumOfAnyBytes
  DecimalDifferenceOfAnyBytes
  ArrUsesTheAdder
PROPERTIES
  DecimalAnswer
