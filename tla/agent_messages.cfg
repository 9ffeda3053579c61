\* Messages sent, queued, released and cancelled through a crash, a server restart and a failure.
SPECIFICATION Spec
CONSTANTS
  Msgs = {m1, m2}
  Releasers = {r1, r2}
  Subs = {}
  Setters = {}
  None = None
  LiveApply = FALSE
  EvCap = 8
  MaxGen = 3
  MaxTurns = 1
  MaxCrashes = 1
  MaxRestarts = 1
  MaxFaults = 1
SYMMETRY Symmetry
INVARIANT AtMostOnce
 
INVARIANT SlotNotLeaked
INVARIANT StrandedOnlyIfLate
CHECK_DEADLOCK FALSE
