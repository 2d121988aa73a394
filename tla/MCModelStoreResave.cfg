SPECIFICATION Spec
CONSTANTS
  Handles = {h1}
  Paths = {p1}
  Fes = {f1, f2}
  Corpora = {c1}
  LegacyCorpora = {}
  TrainedVersion = 1
  Default = Default
  Junk = Junk
  Null = Null
SYMMETRY Symmetry
INVARIANT SavedModelsLoad
