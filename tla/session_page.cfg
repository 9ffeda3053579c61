\* Rows: one browser, two processes, three rows; a lost connection, a failed GET or a
\* restart.  Text: one browser that opens the session twice, three deltas, two events.
INIT PageInit
NEXT PageNext
CONSTANTS
  Readers = {r1}
  QCap = 1
  OpenPage = 1
  CatchUpPage = 1
  MaxGen = 2
  MaxRows = 3
  MaxPosts = 1
  MaxOpens = 1
  MaxTroubles = 1
  Browsers = {b1}
  StreamCap = 3
  MaxDeltas = 3
  MaxEvents = 2
  MaxStreamOpens = 2
  MaxStreamTroubles = 1
INVARIANT ViewIsTimeline
INVARIANT CollisionNeedsRestart
 
INVARIANT CatchUpComplete
PROPERTY FollowsLive
CHECK_DEADLOCK FALSE
