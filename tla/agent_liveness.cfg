\* Every request is answered and the queue drains.
SPECIFICATION FairSpec
CONSTANTS
  Msgs = {m1, m2}
  Releasers = {r1, r2}
  Subs = {}
  Setters = {x1}
  None = None
  LiveApply = TRUE
  EvCap = 8
  MaxGen = 3
  MaxTurns = 0
  MaxCrashes = 1
  MaxRestarts = 0
  MaxFaults = 0
 
PROPERTY QueueDrains
CHECK_DEADLOCK FALSE
