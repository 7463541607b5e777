CONSTANTS
  Models = {"nmos", "wdc"}
  Opcodes <- AllOpcodes
  MaxCredit = 1
  ReleaseInWindow = TRUE
  GotoInWindow = FALSE
SPECIFICATION Running
PROPERTIES
  NmiAnswered
  IrqAnswered
