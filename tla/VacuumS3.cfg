SPECIFICATION Spec
CONSTANTS
  File = {f1, f2}
  Backend = "s3"
  Gran = 2
  WriteTime = 1
  InitBackups = {0}
  MaxTime = 3
  MaxLsn = 3
  CheckBackup = TRUE
  ProtectionWindow = 3
  HasHint = TRUE
  Workers = 2
  MaxRetry = 2
  Disturb = {}
SYMMETRY Files
INVARIANTS TypeOK LiveFilesKept PitrFilesKept HonestReply GarbageCollected
PROPERTY NothingLost
