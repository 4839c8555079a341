SPECIFICATION ObsSpec
CONSTANTS
  File = {f1}
  Backend = "s3"
  Gran = 1
  WriteTime = 1
  InitBackups = {0}
  MaxTime = 0
  MaxLsn = 5
  WritersOverlap = FALSE
  Disturb = {}
INVARIANT UsefulFilesStay
PROPERTY ObsoleteNotLost
