------------------------------ MODULE CliCalls ------------------------------
(***************************************************************************)
(* internal/agent/codex.go and pi.go: the calls a driver makes of its CLI, *)
(* from Start with its handshake to the exit of the process.               *)
(*                                                                         *)
(* A call registers a channel under a new id, writes the request, both     *)
(* under d.mu, and waits for the answer, for its time to run out or for    *)
(* the end of the process, whichever the select takes.  The reader hands   *)
(* an answer to the call its id names.  The CLI answers in the order of    *)
(* the requests, when it likes, or never.                                  *)
(***************************************************************************)
EXTENDS Naturals, Sequences, FiniteSets

CONSTANTS
  Settings  \* settings requests under way at once (pi), interrupts (codex)

Starter == "start"
Goroutines == Settings \cup {Starter}
NoModel == "no model"  \* what a call asks that is about no model
\* A request asks for a model of its own.
ASSUME SettingsAssumption == {Starter, NoModel} \cap Settings = {}
Model0 == "m0"

VARIABLES
  serves,   \* the driver: "codex" or "pi"
  life,      \* the process: "none", "up", "reaped" (d.stdin = nil), "done"
  killed,    \* Close has been called
  gate,      \* pi's gate file exists
  start,     \* Start: "launch", "calling", "ok", "failed"
  shaken,    \* calls of the handshake that are behind it
  nextID,    \* d.nextID
  table,     \* d.pending: the ids of calls
  waits,     \* the call a goroutine waits for, 0 if none
  answer,    \* what is in its channel: "none", "ok", "error"
  unanswered, \* what the CLI has not answered: ids and what they ask
  setting,   \* a settings request: "new", "calling", "confirmed", "done"
  cliModel,  \* the model the CLI uses
  ownModel,  \* d.model
  modelCrossed   \* ghost: two changes of the model overlapped, or one's answer
             \* did not arrive

callVars == <<serves, life, killed, gate, start, shaken, nextID, table, waits, answer,
              unanswered, setting, cliModel, ownModel, modelCrossed>>

CallsInit ==
  /\ serves \in {"codex", "pi"}
  /\ life = "none" /\ killed = FALSE /\ gate = FALSE
  /\ start = "launch" /\ shaken = 0 /\ nextID = 0 /\ table = {}
  /\ waits = [w \in Goroutines |-> 0] /\ answer = [w \in Goroutines |-> "none"]
  /\ unanswered = <<>>
  /\ setting = [s \in Settings |-> "new"]
  /\ cliModel = Model0 /\ ownModel = Model0 /\ modelCrossed = FALSE
-----------------------------------------------------------------------------
(***************************************************************************)
(* A call.                                                                 *)
(***************************************************************************)
\* call, sendLocked: nothing is registered if nothing can be written.
Posts(w, what) ==
  /\ nextID' = nextID + 1
  /\ table' = table \cup {nextID + 1}
  /\ waits' = [waits EXCEPT ![w] = nextID + 1]
  /\ answer' = [answer EXCEPT ![w] = "none"]
  /\ unanswered' = Append(unanswered, [id |-> nextID + 1, asks |-> what])

\* The CLI answers its oldest request; the answer of a call that has given up
\* finds nobody (handleRPCResponse, handleResponse).
Answers(result) ==
  LET r == Head(unanswered) IN
  /\ life = "up" /\ unanswered # <<>>
  /\ unanswered' = Tail(unanswered)
  /\ table' = table \ {r.id}
  /\ answer' = [w \in Goroutines |-> IF waits[w] = r.id /\ r.id \in table THEN result ELSE answer[w]]
  /\ cliModel' = IF r.asks # NoModel /\ result = "ok" THEN r.asks ELSE cliModel
  /\ UNCHANGED <<serves, life, killed, gate, start, shaken, nextID, waits, setting, ownModel, modelCrossed>>

\* The select takes any of what is ready.  Only the answer and the time out
\* leave nothing in the table.
KeepEntry(w) == table
DropEntry(w) == table \ {waits[w]}
Returns(w, result) ==
  \/ waits[w] # 0 /\ answer[w] = result /\ result # "none" /\ UNCHANGED table
  \/ waits[w] # 0 /\ result = "late" /\ table' = DropEntry(w)
  \/ waits[w] # 0 /\ life = "done" /\ result = "gone" /\ UNCHANGED table
Back(w) == waits' = [waits EXCEPT ![w] = 0] /\ UNCHANGED <<nextID, answer, unanswered>>
-----------------------------------------------------------------------------
(***************************************************************************)
(* Start.                                                                  *)
(***************************************************************************)
notStart == <<serves, setting, cliModel, ownModel, modelCrossed>>

\* The gate file is written first, if it can be; then the process is started,
\* if it can be.
Launch(written, launched) ==
  /\ start = "launch"
  /\ written => serves = "pi"
  /\ gate' = written
  /\ life' = IF launched THEN "up" ELSE "none"
  /\ start' = IF launched THEN "calling" ELSE "failed"
  /\ UNCHANGED <<notStart, killed, shaken, nextID, table, waits, answer, unanswered>>

\* The next call of the handshake: codex makes two, pi three (the thinking
\* level is one like the commands).
Steps == IF serves = "codex" THEN 2 ELSE 3
Fatal(n) == serves = "codex" \/ n = 0
CloseProcess == killed' = TRUE /\ gate' = FALSE
GiveUp == start' = "failed" /\ CloseProcess

HandshakeCall ==
  /\ start = "calling" /\ waits[Starter] = 0 /\ shaken < Steps
  /\ IF life = "up"
     THEN /\ Posts(Starter, NoModel)
          /\ UNCHANGED <<start, killed, gate, shaken>>
     ELSE /\ IF Fatal(shaken) THEN GiveUp /\ UNCHANGED shaken
             ELSE shaken' = shaken + 1 /\ UNCHANGED <<start, killed, gate>>
          /\ UNCHANGED <<nextID, table, waits, answer, unanswered>>
  /\ UNCHANGED <<notStart, life>>
\* A step that fails is fatal or passed over.
HandshakeStep(result) ==
  /\ start = "calling" /\ Returns(Starter, result) /\ Back(Starter)
  /\ IF result # "ok" /\ Fatal(shaken) THEN GiveUp /\ UNCHANGED shaken
     ELSE shaken' = shaken + 1 /\ UNCHANGED <<start, killed, gate>>
  /\ UNCHANGED <<notStart, life>>
StartOk ==
  /\ start = "calling" /\ shaken = Steps
  /\ start' = "ok"
  /\ UNCHANGED <<notStart, life, killed, gate, shaken, nextID, table, waits, answer, unanswered>>
-----------------------------------------------------------------------------
(***************************************************************************)
(* Requests of users while the process runs.                               *)
(***************************************************************************)
processRest == <<serves, life, start, shaken, killed, gate>>
Changing == \E s \in Settings : setting[s] \in {"calling", "confirmed"}

\* ApplySettings of pi asks for a model of its own, Interrupt of codex for the
\* end of a turn.
Ask(s) ==
  /\ start = "ok" /\ setting[s] = "new" /\ life = "up"
  /\ Posts(s, IF serves = "pi" THEN s ELSE NoModel)
  /\ setting' = [setting EXCEPT ![s] = "calling"]
  /\ modelCrossed' = (modelCrossed \/ Changing)
  /\ UNCHANGED <<processRest, cliModel, ownModel>>
AskDone(s, result) ==
  /\ setting[s] = "calling" /\ Returns(s, result) /\ Back(s)
  /\ setting' = [setting EXCEPT ![s] = IF result = "ok" /\ serves = "pi" THEN "confirmed" ELSE "done"]
  /\ modelCrossed' = (modelCrossed \/ result \in {"late", "gone"})
  /\ UNCHANGED <<processRest, cliModel, ownModel>>
\* The model the CLI has confirmed is recorded in a critical section of its own.
NotRecorded(s) == ownModel
Recorded(s) == s
Record(s) ==
  /\ setting[s] = "confirmed"
  /\ setting' = [setting EXCEPT ![s] = "done"]
  /\ ownModel' = Recorded(s)
  /\ UNCHANGED <<processRest, nextID, table, waits, answer, unanswered, cliModel, modelCrossed>>

\* Kill, restart and Delete: Close.
Kill ==
  /\ start = "ok" /\ ~killed
  /\ CloseProcess
  /\ UNCHANGED <<serves, life, start, shaken, nextID, table, waits, answer, unanswered, setting, cliModel, ownModel, modelCrossed>>
-----------------------------------------------------------------------------
\* waitExit: the table is emptied, those who wait are answered (pi) or hear it
\* by done; a process may end by itself at any time.
Reap ==
  /\ life = "up" /\ life' = "reaped"
  /\ table' = {}
  /\ answer' = [w \in Goroutines |-> IF serves = "pi" /\ waits[w] \in table THEN "error" ELSE answer[w]]
  /\ UNCHANGED <<serves, killed, gate, start, shaken, nextID, waits, unanswered, setting, cliModel, ownModel, modelCrossed>>
CloseDone ==
  /\ life = "reaped" /\ life' = "done"
  /\ UNCHANGED <<serves, killed, gate, start, shaken, nextID, table, waits, answer, unanswered, setting, cliModel, ownModel, modelCrossed>>

Outcomes == {"ok", "error", "late", "gone"}
CallsNext ==
  \/ \E b, l \in BOOLEAN : Launch(b, l)
  \/ HandshakeCall \/ StartOk \/ Kill \/ Reap \/ CloseDone
  \/ \E result \in Outcomes : HandshakeStep(result)
  \/ \E result \in {"ok", "error"} : Answers(result)
  \/ \E s \in Settings : \/ Ask(s) \/ Record(s)
                         \/ \E result \in Outcomes : AskDone(s, result)

CallsSpec == CallsInit /\ [][CallsNext]_callVars
-----------------------------------------------------------------------------
(***************************************************************************)
(* Properties.                                                             *)
(***************************************************************************)
\* The model the driver reports is the one the CLI uses, once no change of it
\* is under way, unless two of them overlapped (the answers come in order, but
\* each is recorded by a goroutine of its own) or an answer did not arrive
\* (ApplySettings).
ModelAsCliUnlessCrossed == life = "up" /\ ~Changing /\ ~modelCrossed => ownModel = cliModel

\* Nothing is left behind: an id in the table is one somebody still waits for
\* (call, handleResponse, waitExit); a Start that failed has killed what it has
\* started and removed what it has written, unless it did not come to start a
\* process (Start).
NothingLeftBehind ==
  /\ \A i \in table : \E w \in Goroutines : waits[w] = i
  /\ start = "failed" /\ life # "none" => killed /\ ~gate
  /\ killed => ~gate
=============================================================================
