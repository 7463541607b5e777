CONSTANTS
  Models = {"wdc"}
  Opcodes <- SingleSampling
  MaxCredit = 2
  ReleaseInWindow = FALSE
  GotoInWindow = FALSE
SPECIFICATION Spec
PROPERTIES
  NmiKept
