CONSTANTS
  MaxLen = 3
  FetchSteps = 12
  BootSteps = 8
  RestartSteps = 8
  Tests <- MCTests
SPECIFICATION Spec
INVARIANTS
  SetUpSucceeds
  SetUpClean
  BootstrapUndisturbed
  MemoryInOrder
