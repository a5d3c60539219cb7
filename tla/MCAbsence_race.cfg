SPECIFICATION Spec
CONSTANTS
  worker = worker
  boss = boss
  NoHead = NoHead
  Employees <- MCEmployees
  HeadOf <- MCOwnHead
  HeadChoices = {boss}
  Judges = {boss}
  Careful = TRUE
  RequestTypes = {"vacation"}
  Instants <- OneDay
  Handlers = {h1, h2}
  MaxActions = 3
  MaxNotices = 3
SYMMETRY HandlerSymmetry
CHECK_DEADLOCK FALSE
INVARIANTS
  TypeOK
  ApprovalProvenance
  DenialIsFinal
  CarvingLinks
  OnlyAbsencesAreJudged
  PendingIsAnnounced
PROPERTIES
  ImplementsLifecycle
