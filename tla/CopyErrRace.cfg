SPECIFICATION CopySpec
CONSTANTS
  File = {f1, f2}
  Live = {f1, f2}
  Concurrency = 2
  MaxRetry = 2
  ServerSide = TRUE
  Optimize = TRUE
  Requests = 1
CHECK_DEADLOCK FALSE
INVARIANT CopyComplete
