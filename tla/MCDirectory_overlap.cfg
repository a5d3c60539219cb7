SPECIFICATION Spec
CONSTANTS
  Hires <- MCOneHire
  NameOf <- MCOneName
  BaseLogin <- MCOneLogin
  Values <- MCValues
  Lower <- MCLower
  Fields = {"phones"}
  Edits <- MCTwoPhones
  Calls = {"add", "edit"}
  Handlers = {h1}
  NoOne = NoOne
  Faults = FALSE
  MaxCalls = 3
CHECK_DEADLOCK FALSE
INVARIANTS
  SearchFollowsEdits
