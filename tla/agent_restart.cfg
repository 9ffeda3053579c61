\* Settings that only a new process takes: concurrent restarts, a subscriber.
SPECIFICATION Spec
CONSTANTS
  Msgs = {m1, m2}
  Releasers = {r1, r2}
  Subs = {s1}
  Setters = {x1, x2}
  None = None
  LiveApply = FALSE
  EvCap = 8
  MaxGen = 3
  MaxTurns = 0
  MaxCrashes = 0
  MaxRestarts = 0
  MaxFaults = 0
SYMMETRY Symmetry
INVARIANT SupersededUnmapped
INVARIANT OrphanNeedsCrash
 
INVARIANT SubscribersFollowUnlessOvertaken
CHECK_DEADLOCK FALSE
