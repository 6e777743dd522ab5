SPECIFICATION EpochSpec
CONSTANTS
  Height = {0, 1, 2, 3, 4}
  DefinitionIndex = {0, 1, 2}
  w1 = w1
  ValidatorList = {w1, w2}
  Contract = Contract
  EnterHeight <- MCEnterHeight
  RangeValidators <- MCRangeValidators
  ReorgBound = 0
  EarlyChanges = TRUE
  MaxChanges = 2
INVARIANT KnownUntilMaxHeight
