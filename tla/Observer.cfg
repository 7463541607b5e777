CONSTANTS
  Fill = 234
  pretest_cycle_limit = 100
  Options <- MCOptions
SPECIFICATION Spec
CHECK_DEADLOCK FALSE
INVARIANTS
  RunsAsDeclared
  RecognisedInTime
  PathsCovered
