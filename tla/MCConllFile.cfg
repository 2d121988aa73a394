SPECIFICATION FileSpec
CONSTANTS
  Kinds = {PER, LOC}
  NotEntity = NotEntity
  Sizes <- MCSizes
  Files <- MCFiles
  MaxReads = 2
INVARIANTS
  ChunksSurvive
  BILOUShowsChunks
  PrintedFileReadsBack
CHECK_DEADLOCK FALSE
