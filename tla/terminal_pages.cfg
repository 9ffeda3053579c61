\* Two connections, one session that is killed or closed by its alarm.
SPECIFICATION FairSpec
CONSTANTS
  Sessions = {s1}
  Clients = {c1, c2}
  None = None
  BufCap = 2
  QueueCap = 2
  Alarms = {TRUE}
  MaxOut = 0
  MaxAsk = 3
  MaxBreaks = 1
INVARIANTS
  EndedForEveryone
PROPERTY KilledSessionEnds
CHECK_DEADLOCK FALSE
