SPECIFICATION FairSpec
CONSTANTS
  Hires <- MCOneHire
  NameOf <- MCOneName
  BaseLogin <- MCOneLogin
  Values <- MCValues
  Lower <- MCLower
  Fields = {"phones"}
  Edits <- MCOnePhone
  Calls = {"add", "edit", "remove", "clear"}
  Handlers = {h1, h2}
  NoOne = NoOne
  Faults = TRUE
  MaxCalls = 3
CHECK_DEADLOCK FALSE
INVARIANTS
  TypeOK
  OneOwnerPerLogin
PROPERTIES
  CallsReturn
