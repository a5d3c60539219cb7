SPECIFICATION Spec
CONSTANTS
  Setups <- OneAtATime
  MaxCalls = 1
CHECK_DEADLOCK FALSE
INVARIANTS
  AddedHasTables
