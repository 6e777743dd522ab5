SPECIFICATION OfflineSpec
CONSTANTS
  v1 = v1
  v2 = v2
  Validator = {v1, v2}
  Proposal <- MCProposal
  ValidatorLists <- OneList
  WindowSize = 0
  SkipsAllowed = 1
  SkipsOutOf = 2
  MaxReports = 1
INVARIANT NeverFails
