SPECIFICATION Spec
CONSTANTS
  Backend = "s3"
  Length = 10
  StartOffset = 2
  Chunk = 3
  RetryLimit = 4
  HalfReads = TRUE
CHECK_DEADLOCK FALSE
INVARIANT NoGaps
