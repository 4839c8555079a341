SPECIFICATION Spec
CONSTANTS
  File = {f1}
  Backend = "s3"
  Gran = 2
  WriteTime = 1
  InitBackups = {0}
  MaxTime = 3
  MaxLsn = 3
  CheckBackup = TRUE
  ProtectionWindow = 3
  HasHint = TRUE
  Workers = 1
  MaxRetry = 2
  Disturb = {"drop"}
INVARIANT PitrFilesKept
