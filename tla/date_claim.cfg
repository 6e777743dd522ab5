SPECIFICATION AppSpec
CONSTANTS
  a0 = a0
  a1 = a1
  a2 = a2
  a3 = a3
  a4 = a4
  b3 = b3
  b4 = b4
  None = None
  Block <- MCBlock
  parent <- MCparent
  number <- MCnumber
  chainTo <- MCchainTo
  timestamp <- MCtimestamp
  Selectors <- DateSelector
  ReorgBound = 0
  NodeMayReset = FALSE
  NodeKind = "full"
  Spec = {"spec"}
  watch_chain_spec = TRUE
  MaxStale = 2
INVARIANTS
  DateIsFirstAfter
