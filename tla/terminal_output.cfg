\* One connection, two sessions and their output.
SPECIFICATION Spec
CONSTANTS
  Sessions = {s1, s2}
  Clients = {c1}
  None = None
  BufCap = 2
  QueueCap = 2
  Alarms = {FALSE}
  MaxOut = 3
  MaxAsk = 3
  MaxBreaks = 0
INVARIANTS
  NothingMissing
SYMMETRY Symmetry
CHECK_DEADLOCK FALSE
