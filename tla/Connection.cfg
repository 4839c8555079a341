SPECIFICATION FairConnSpec
CONSTANTS
  Backend = "s3"
  Length = 10
  StartOffset = 2
  Chunk = 3
  RetryLimit = 4
  HalfReads = FALSE
  Messages = 4
  Sz = 2
  HasCrypter = TRUE
  Limiter = FALSE
  Burst = 1
  File = {f1, f2}
  Live = {f1}
  Concurrency = 2
  MaxRetry = 2
  ServerSide = TRUE
  Optimize = FALSE
  Requests = 2
CHECK_DEADLOCK FALSE
INVARIANT CopyAccounted
PROPERTIES ImplementsReliableRead CatEnds ImplementsAtomicPut PutEnds CopyEnds
