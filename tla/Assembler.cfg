CONSTANTS
  Page = 4
  Names = {first, second, third}
  NoName = none
  first = first
  second = second
  third = third
  MaxCalls = 4
  Programs <- MCPrograms
SPECIFICATION Spec
INVARIANTS
  LayoutCorrect
  FailureJustified
PROPERTIES
  Ends
CHECK_DEADLOCK FALSE
