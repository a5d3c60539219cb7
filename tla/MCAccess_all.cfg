SPECIFICATION Spec
CONSTANTS
  Companies = {"first", "second"}
  Ids = {"first_id"}
  Roles = {"manager", "robot"}
  Routes <- MCRoutes
  BadHeader = BadHeader
  Handlers = {h1, h2}
  MaxLogins = 2
CHECK_DEADLOCK FALSE
INVARIANTS
  TypeOK
  AnsweredLoginsWork
  ServedAsLoggedIn
PROPERTIES
  CacheCatchesUp
