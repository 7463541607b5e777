CONSTANTS
  Models = {"nmos"}
  Opcodes <- AllOpcodes
  MaxCredit = 2
  ReleaseInWindow = FALSE
  GotoInWindow = FALSE
SPECIFICATION Spec
PROPERTIES
  NmiKept
