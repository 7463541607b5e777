CONSTANTS
  B = 8
  Alu <- MCAlu
  Models = {"nmos", "nes", "wdc", "rw", "st"}
  Opcodes <- OpcodesOf
  Switches = {{"nmos", "wdc"}, {"nes", "rw", "st"}}
  Cases <- MCCases
  GotoTargets = {14, 63}
SPECIFICATION Spec
INVARIANTS
  TypeOK
  NeverOffTheRow
  EndsInTime
  CmosReadsStayHome
PROPERTIES
  IsaSpec
  AssembledAsExecuted
