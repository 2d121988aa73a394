SPECIFICATION Spec
CONSTANTS
  Handles = {h1, h2}
  Paths = {p1}
  Fes = {f1, f2}
  Corpora = {c1}
  LegacyCorpora = {c2}
  TrainedVersion = 1
  Default = Default
  Junk = Junk
  Null = Null
SYMMETRY Symmetry
INVARIANTS
  VersionedObjectCarriesItsExtractor
  PredictionUsesTrainingExtractor
  FingerprintSurvivesFiles
  TrainingExtractorAccepted
PROPERTY ImplementsCatalog
