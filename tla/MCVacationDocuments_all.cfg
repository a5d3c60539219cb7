SPECIFICATION SpecAll
CONSTANTS
  worker = worker
  boss = boss
  NoHead = NoHead
  Employees <- MCEmployees
  HeadOf <- MCHeadOf
  HeadChoices = {}
  Judges = {boss}
  Careful = TRUE
  RequestTypes = {"vacation"}
  Instants <- OneDay
  Handlers = {h1}
  MaxActions = 1
  MaxNotices = 3
  Company = "esv"
  NoCompany = ""
  Templates <- MCTemplates
  Leavers = {boss}
  MaxExports = 1
CHECK_DEADLOCK FALSE
PROPERTIES
  JobsEnd
  ApprovalIsFollowedUp
INVARIANTS
  JobsTypeOK
  VerdictDocumentsAreGranted
  DocumentsHaveFiles
  DoneMeansDelivered
  RunningTasksAreQueued
