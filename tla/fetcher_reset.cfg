SPECIFICATION Spec
CONSTANTS
  a0 = a0
  a1 = a1
  a2 = a2
  a3 = a3
  b2 = b2
  b3 = b3
  b4 = b4
  a4 = a4
  b5 = b5
  b6 = b6
  c4 = c4
  None = None
  Block <- SmallTree
  parent <- MCparent
  number <- MCnumber
  chainTo <- MCchainTo
  ReorgBound = 1
  NodeMayReset = TRUE
  MaxReorgDepth = 1
  MaxBlocks = 2
  SyncFrom <- FromAnywhere
INVARIANTS
  OneTree
  BranchResumable
  DeliveredIsStored
PROPERTIES
  ImplementsFeed
