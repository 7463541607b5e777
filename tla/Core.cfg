CONSTANTS
  Models <- AllModels
  Opcodes <- AllOpcodes
  MaxCredit = 2
  ReleaseInWindow = TRUE
  GotoInWindow = TRUE
SPECIFICATION Spec
INVARIANTS
  FastPathSound
  NoStaleSampling
  NoSpuriousNmi
  FrameComplete
  NoTakenAfterFetch
PROPERTIES
  IrqExactlyWhenGranted
  NmiDroppedOnly
  DeafOnlyByGoto
  JamHolds
  SequenceUninterrupted
