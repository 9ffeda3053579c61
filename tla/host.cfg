\* Two profiles, commands, files or limited sessions; two users, pages or viewers; two patterns.
INIT Init
NEXT Next
CONSTANTS
  Segments <- MCSegments
  Files <- MCFiles
  MaxPatterns = 2
  Profiles = {x1, x2}
  ProfileUsers = {u1, u2}
  Absent = Absent
  Blank = Blank
  Hand = Hand
  Broken = Broken
  MaxRequests = 3
  MaxHandEdits = 1
  MaxMishaps = 1
  GitCommands = {x1, x2}
  Pages = {u1, u2}
  MaxTyped = 2
  MaxConnects = 2
  MaxHalfOpen = 1
  Paths = {x1, x2}
  FsUsers = {u1, u2}
  MaxOps = 3
  MaxFsFaults = 1
  Terms = {x1, x2}
  MaxStarts = 1
  MaxForks = 1
  MaxReleaseTries = 2
  Pids = {pid}
  ProcNames = {"node", "sh"}
  Viewers = {u1, u2}
  MaxBirths = 2
  MaxClock = 3
  MinWindow = 1
  MaxAge = 1
SYMMETRY Symmetry
CONSTRAINT OneTrouble
INVARIANTS
  ExcludesKept
  
  CredentialsSound
  
  LimitsHold
  MonitorTrue
\* Everything stops when the bounds are reached.
CHECK_DEADLOCK FALSE
