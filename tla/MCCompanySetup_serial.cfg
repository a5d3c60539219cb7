SPECIFICATION Spec
CONSTANTS
  Setups <- OneAtATime
  MaxCalls = 4
CHECK_DEADLOCK FALSE
INVARIANTS
  TypeOK
  SecondRunCompletes
  NewcomersGetATeam
PROPERTIES
  SetupKeepsRecords
