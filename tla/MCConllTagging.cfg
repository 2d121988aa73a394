SPECIFICATION TagSpec
CONSTANTS
  Kinds = {PER, LOC}
  NotEntity = NotEntity
  Sizes <- MCSizes
INVARIANT TaggedCopyShowsRanges
CHECK_DEADLOCK FALSE
