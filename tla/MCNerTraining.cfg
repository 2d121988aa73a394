SPECIFICATION Spec
CONSTANTS
  x = x
  y = y
  Instances = {x, y}
  NumTokens <- MCNumTokens
  Labels = {PER, LOC}
  MaxEntities = 2
  MaxAdds = 2
INVARIANTS
  TypeOK
  SamplesTellTheTruth
  TrainingSucceeds
  TagsKeepTheirIds
