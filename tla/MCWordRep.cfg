SPECIFICATION WordRepSpec
CONSTANTS
  Items <- MCWords
  Rows <- MCRows
  Columns <- MCColumns
  Hashes <- MCHashes
  Sketches = {wordCounts}
  WordCounts = wordCounts
  Amounts = {1}
  Corpora <- MCCorpora
  MaxTopWords = 2
  Letters = {"a", "b", "#", "*"}
  Star = "*"
  MaxPart = 3
  MaxChars = 4
  Buckets <- MCBuckets
  Crcs <- MCCrcs
  BucketOf <- MCBucketOf
  IdOf <- MCIdOf
  Spelling <- MCSpelling
  PartSpelling <- MCPartSpelling
  PartHashes <- MCPartHashes
  MaxParts = 3
  HalfWindow = 1
  Digit = "#"
  Digits = {"7"}
  Queries <- MCQueries
INVARIANTS
  NeverUnderestimates
  ExactWithoutCollision
  QueueMatchesCurWords
  BestSoFar
  TopWordsAreTheMostFrequent
  SelectedPatternsAreFound
  FrequentPatternsSurvive
  FeaturesAreLearned
CHECK_DEADLOCK FALSE
