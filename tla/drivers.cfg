\* Two open requests, two goroutines that may answer them; a stream of two lines
\* with two notices; two turns of codex with three requests; two
\* prompts of pi; three tool calls, some of a task; two settings requests.
INIT Init
NEXT Next
CONSTANTS
  Requests = {r1, r2}
  Callers = {c1, c2}
  EventCap = 1
  MaxCalls = 2
  Notices = {n1, n2}
  NoticeCap = 1
  StreamCap = 1
  MaxLines = 2
  MaxTurns = 2
  MaxSends = 3
  MaxLag = 2
  Prompts = {p1, p2}
  MaxMessages = 2
  MaxPieces = 2
  MaxFailures = 2
  Calls = {k1, k2, k3}
  Tasks = {t1}
  MaxBatch = 3
  Settings = {s1, s2}
SYMMETRY Symmetry
INVARIANTS
  RecordedAsTold
  CardsAndWaitersAgree
  StatusTrueUnlessCrossed
  ToldOnce
  
  
  PiToldAsItIs
  CardsTellCalls
  NothingLeftBehind
  ModelAsCliUnlessCrossed
\* The drivers stop when the bounds are reached.
CHECK_DEADLOCK FALSE
