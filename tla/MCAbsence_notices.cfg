SPECIFICATION Spec
CONSTANTS
  worker = worker
  boss = boss
  NoHead = NoHead
  Employees <- MCEmployees
  HeadOf <- MCHeadOf
  HeadChoices = {}
  Judges = {boss}
  Careful = TRUE
  RequestTypes = {"vacation"}
  Instants <- OneDay
  Handlers = {h1}
  MaxActions = 3
  MaxNotices = 3
CHECK_DEADLOCK FALSE
INVARIANTS
  NotificationsAnswer
