\* A queue id is used again: cancelling by it hits the wrong message.
SPECIFICATION Spec
CONSTANTS
  Msgs = {m1, m2}
  Releasers = {r1, r2}
  Subs = {}
  Setters = {}
  None = None
  LiveApply = FALSE
  EvCap = 8
  MaxGen = 2
  MaxTurns = 1
  MaxCrashes = 0
  MaxRestarts = 0
  MaxFaults = 0
SYMMETRY Symmetry
INVARIANT CancelledByOwner
CHECK_DEADLOCK FALSE
