SPECIFICATION SkipSpec
CONSTANTS
  g = g
  a1 = a1
  a2 = a2
  a3 = a3
  b1 = b1
  b2 = b2
  c3 = c3
  None = None
  Block <- MCBlock
  parent <- MCparent
  number <- MCnumber
  step <- MCstep
  GracePeriod = 1
INVARIANTS
  SkipTypeOK
  SkipsInOrder
  OpenIsUnseen
  StepsAccounted
  GraceKept
  SkipFitsAFork
  SkipFileComplete
PROPERTY ImplementsSkipFeed
