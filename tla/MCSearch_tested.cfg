SPECIFICATION SpecTested
CONSTANTS
  Hires <- MCHires
  NameOf <- MCNameOf
  BaseLogin <- MCBaseLogin
  Values <- MCValues
  Lower <- MCLower
  Fields = {"phones"}
  Edits <- MCPhoneEdits
  Calls = {"add", "edit", "clear"}
  Handlers = {h1}
  NoOne = NoOne
  Faults = FALSE
  MaxCalls = 5
  Queries <- MCQueries
  Beginnings <- MCBeginnings
  StartsWith <- MCStartsWith
  Similarity <- MCSimilarity
  Limits <- MCLimits
CHECK_DEADLOCK FALSE
INVARIANTS
  SearchFollowsEdits
  SuggestFollowsEdits
  FullSearchFindsBest
