SPECIFICATION EpochFairSpec
CONSTANTS
  Height = {0, 1, 2, 3, 4}
  DefinitionIndex = {0, 1, 2}
  w1 = w1
  ValidatorList = {w1}
  Contract = Contract
  EnterHeight <- MCEnterHeight
  RangeValidators <- MCRangeValidators
  ReorgBound = 2
  EarlyChanges = FALSE
  MaxChanges = 2
INVARIANTS
  EpochTypeOK
  RestartHeals
  FailsByReorgOnly
  KeepsRelevant
  AnswersGovern
PROPERTIES
  OracleCatchesUp
