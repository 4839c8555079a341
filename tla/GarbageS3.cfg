SPECIFICATION SysSpec
CONSTANTS
  File = {f1}
  Backend = "s3"
  Gran = 1
  WriteTime = 1
  InitBackups = {0}
  MaxTime = 4
  MaxLsn = 3
  CheckBackup = TRUE
  ProtectionWindow = 2
  HasHint = TRUE
  Workers = 1
  MaxRetry = 2
  Disturb = {}
  Retention = 1
  TrashMaxRetry = 2
  Overlap = {{"untrashify", "delete2"}}
INVARIANT UntrashifyRestores
PROPERTIES LostOnlyOnPurpose RetentionHonoured
