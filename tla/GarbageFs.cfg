SPECIFICATION SysFairSpec
CONSTANTS
  File = {f1}
  Backend = "fs"
  Gran = 1
  WriteTime = 1
  InitBackups = {0}
  MaxTime = 3
  MaxLsn = 2
  CheckBackup = TRUE
  ProtectionWindow = 2
  HasHint = TRUE
  Workers = 1
  MaxRetry = 2
  Disturb = {}
  Retention = 1
  TrashMaxRetry = 2
  Overlap = {{"untrashify", "delete2"}}
INVARIANT LiveFilesKept
PROPERTIES LostOnlyOnPurpose EveryRequestEnds TrashRequestsEnd
