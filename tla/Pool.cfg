CONSTANTS
  Capacity = 3
  Cpus = {c1, c2}
  States = {s0, s1}
  Ticks = {0, 1}
  SetupState = s0
SPECIFICATION Spec
INVARIANTS
  OneOwner
  NothingLost
PROPERTIES
  PrivateSpec
