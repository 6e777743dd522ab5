SPECIFICATION OfflineSpec
CONSTANTS
  v1 = v1
  v2 = v2
  Validator = {v1, v2}
  Proposal <- MCProposal
  ValidatorLists <- ChangingLists
  WindowSize = 3
  SkipsAllowed = 2
  MaxReports = 1
  SkipsOutOf = 3
INVARIANTS
  OfflineTypeOK
  IntervalsAreWindow
  OfflineTimeIsSum
  UnreportedWithinRate
  ReportStands
  ReportsJustified
  NeverFails
