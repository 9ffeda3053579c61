\* A job whose WebDAV address may change.
INIT Init
NEXT Next
CONSTANTS
  Users = {u1}
  MaxProcs = 1
  MaxExtras = 0
  WireCap = 1
  Dests = {d1, d2}
  Excludes = {x1}
  Schedule = {1}
  Horizon = 3
  Retention = 1
  BackupWorkers = {w1, w2}
  MaxTime = 1
  MaxEdits = 2
  MaxJobObjects = 2
  MaxBackupFaults = 0
CONSTRAINT FewOddities
INVARIANT SkippedIsBackedUp
CHECK_DEADLOCK FALSE
