CONSTANTS
  Models = {"nmos"}
  Opcodes <- AllOpcodes
  MaxCredit = 2
  ReleaseInWindow = TRUE
  GotoInWindow = FALSE
SPECIFICATION Spec
INVARIANTS
  NmiEdgeSeen
