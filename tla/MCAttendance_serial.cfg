SPECIFICATION Spec
CONSTANTS
  worker = worker
  boss = boss
  NoHead = NoHead
  Employees <- MCEmployees
  HeadOf <- MCHeadOf
  HeadChoices = {}
  Judges = {boss}
  Careful = TRUE
  RequestTypes = {"vacation"}
  Instants <- MCInstants
  Handlers = {h1}
  MaxActions = 4
  MaxNotices = 3
  Windows <- MCWindows
CHECK_DEADLOCK FALSE
INVARIANTS
  OneAttendancePerDay
  SplitKeepsDays
PROPERTIES
  ApprovalToldIsTrue
  EveryColleagueListed
