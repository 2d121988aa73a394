SPECIFICATION RelationsSpec
CONSTANTS
  Handles = {h1}
  Paths = {p1}
  Fes = {f1, f2}
  Corpora = {c1}
  LegacyCorpora = {}
  TrainedVersion = 1
  Default = Default
  Junk = Junk
  Null = Null
  Relations = {r1}
  Trainers = {t1}
  Detectors = {d1}
  DetectorPaths = {b1}
  Sizes <- MCSizes
  NoFeatures = NoFeatures
SYMMETRY Symmetry
INVARIANTS
  ScoreFromMatchingFeatures
  CompatibleModelsClassify
  CroppingChangesNoFeature
  ArgumentsSurviveCropping
CHECK_DEADLOCK FALSE
