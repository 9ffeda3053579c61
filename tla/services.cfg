\* Two requests and two processes of one session; one job whose schedule matches once.
INIT Init
NEXT Next
CONSTANTS
  Users = {u1, u2}
  MaxProcs = 2
  MaxExtras = 2
  WireCap = 1
  Dests = {d1}
  Excludes = {x1}
  Schedule = {1}
  Horizon = 3
  Retention = 1
  BackupWorkers = {w1, w2}
  MaxTime = 1
  MaxEdits = 2
  MaxJobObjects = 2
  MaxBackupFaults = 1
SYMMETRY Symmetry
CONSTRAINT FewOddities
INVARIANTS
  
  RowTellsLife
  
  WholeSnapshotsUnlessReplaced
  SkippedIsBackedUpUnlessMoved
  
\* Everything stops when the bounds are reached.
CHECK_DEADLOCK FALSE
