SPECIFICATION Spec
CONSTANTS
  Bytes <- MCBytes
  Corpora <- MCCorpora
  MaxPasses = 2
INVARIANTS
  TypeOK
  OffsetsAreRight
  PassesAreAlike
  NothingIsLost
