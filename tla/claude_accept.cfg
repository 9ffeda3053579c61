\* One change of the mode, a permission and a question.
INIT Init
NEXT Next
CONSTANTS
  Requests = {r1, r2}
  Callers = {c1}
  EventCap = 1
  MaxCalls = 1
  Notices = {n1}
  NoticeCap = 1
  StreamCap = 1
  MaxLines = 1
  MaxTurns = 1
  MaxSends = 1
  MaxLag = 1
  Prompts = {p1}
  MaxMessages = 1
  MaxPieces = 1
  MaxFailures = 1
  Calls = {k1}
  Tasks = {t1}
  MaxBatch = 1
  Settings = {s1}
INVARIANT OnlyUsersAnswerQuestions
CHECK_DEADLOCK FALSE
