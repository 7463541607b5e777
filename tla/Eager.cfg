CONSTANTS
  Models = {"nmos", "wdc"}
  Opcodes <- AllOpcodes
  MaxCredit = 2
  ReleaseInWindow = FALSE
  GotoInWindow = FALSE
SPECIFICATION Spec
INVARIANTS
  NmiEdgeSeen
  NeverDeaf
PROPERTIES
  EagerSpec
