SPECIFICATION WholeFairSpec
CONSTANTS
  a0 = a0
  a1 = a1
  a2 = a2
  a3 = a3
  b2 = b2
  b3 = b3
  None = None
  Block <- MCBlock
  parent <- MCparent
  number <- MCnumber
  chainTo <- MCchainTo
  step <- MCstep
  proposer <- MCproposer
  GracePeriod = 1
  ReorgBound = 1
  NodeMayReset = TRUE
  MaxReorgDepth = 1
  MaxBlocks = 2
  SyncFrom <- FromAnywhere
  Validator <- MCValidator
  ValidatorLists <- OneList
  WindowSize = 3
  SkipsAllowed = 2
  SkipsOutOf = 3
  MaxReports = 1
INVARIANTS
  EquivocationsOnFile
  ReportsProve
  ReportersFailByResetOnly
  ReportsBacked
PROPERTY MissesReported
