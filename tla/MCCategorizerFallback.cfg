SPECIFICATION CategorizerSpec
CONSTANTS
  Handles = {h1}
  Paths = {p1}
  Fes = {f1, f2}
  Corpora = {c1}
  LegacyCorpora = {}
  TrainedVersion = 0
  Default = Default
  Junk = Junk
  Null = Null
SYMMETRY Symmetry
INVARIANTS
  FallsBackToBagOfWords
