------------------------------ MODULE PiTurns ------------------------------
(***************************************************************************)
(* internal/agent/pi.go: the runs of pi as the session shows them.         *)
(*                                                                         *)
(* A prompt starts a run, or follows one.  A run is made of turns, a turn  *)
(* of messages that come in pieces; runs, turns and messages tell their    *)
(* ends, some of them twice and some not at all.  The reader handles line  *)
(* after line, Send runs in goroutines of requests; a step is a critical   *)
(* section of d.mu, and what is emitted behind it is a step of its own     *)
(* wherever the other may come in between.                                 *)
(***************************************************************************)
EXTENDS Naturals, Sequences, FiniteSets

CONSTANTS
  Prompts,     \* requests that send a prompt
  MaxMessages, \* bound: messages pi writes
  MaxPieces,   \* bound: pieces of a message
  MaxFailures  \* bound: turns that fail

VARIABLES
  piUp,       \* d.stdin # nil
  piRunning,  \* d.running
  piShown,    \* the status last emitted
  sendAt,     \* Send of a prompt: "new", "unlocked", "done"
  readerAt,   \* "lines"; "begun", "settled": unlocked, the status not emitted
  waiting,    \* pi: prompts it has read and not begun
  at,         \* pi: "idle", "run", "turn", "message", "ended"
  message,    \* pi: messages begun
  pieces,     \* pi: pieces of the current message
  failedWith, \* pi: the current turn has failed and said so
  segments,   \* d.textSeg: the pieces gathered, each by its message and number
  stored,     \* emitted texts
  lastError,  \* d.lastErrorMsg # ""
  failures,   \* ghost: turns that failed
  errorCards, \* emitted errors
  odd         \* ghost: the status may be wrong until the next run has settled

piVars == <<piUp, piRunning, piShown, sendAt, readerAt, waiting, at, message, pieces,
            failedWith, segments, stored, lastError, failures, errorCards, odd>>
texts == <<message, pieces, segments, stored>>
errs == <<failedWith, lastError, failures, errorCards>>

PiInit ==
  /\ piUp = TRUE /\ piRunning = FALSE /\ piShown = "idle"
  /\ sendAt = [p \in Prompts |-> "new"] /\ readerAt = "lines"
  /\ waiting = 0 /\ at = "idle" /\ message = 0 /\ pieces = 0 /\ failedWith = FALSE
  /\ segments = <<>> /\ stored = <<>>
  /\ lastError = FALSE /\ failures = 0 /\ errorCards = 0 /\ odd = FALSE

Sending == \E p \in Prompts : sendAt[p] = "unlocked"
-----------------------------------------------------------------------------
\* Send: marks the driver as running and writes the prompt under the lock ...
SendPrompt(p) ==
  /\ piUp /\ sendAt[p] = "new"
  /\ sendAt' = [sendAt EXCEPT ![p] = "unlocked"]
  /\ piRunning' = TRUE
  /\ waiting' = waiting + 1
  /\ odd' = (odd \/ readerAt # "lines")
  /\ UNCHANGED <<piUp, piShown, readerAt, at, texts, errs>>
\* ... and tells it afterwards.
SendTells(p) ==
  /\ sendAt[p] = "unlocked"
  /\ sendAt' = [sendAt EXCEPT ![p] = "done"]
  /\ piShown' = "running"
  /\ UNCHANGED <<piUp, piRunning, readerAt, waiting, at, texts, errs, odd>>

\* A prompt pi refuses is answered by a response without an id, which
\* handleResponse does not read: no run will ever end it.
Refused ==
  /\ piUp /\ waiting > 0
  /\ waiting' = waiting - 1 /\ odd' = TRUE
  /\ UNCHANGED <<piUp, piRunning, piShown, sendAt, readerAt, at, texts, errs>>
-----------------------------------------------------------------------------
(***************************************************************************)
(* A line of pi and what handleEvent makes of it.                          *)
(***************************************************************************)
Line(from) == piUp /\ readerAt = "lines" /\ at \in from

\* agent_start: a run of a prompt, or the repetition of a failed one.
AgentStart ==
  /\ Line({"idle", "ended"}) /\ (at = "idle" => waiting > 0)
  /\ waiting' = IF at = "idle" THEN waiting - 1 ELSE waiting
  /\ at' = "run"
  /\ piRunning' = TRUE /\ lastError' = FALSE
  /\ readerAt' = IF piRunning THEN "lines" ELSE "begun"
  /\ UNCHANGED <<piUp, piShown, sendAt, texts, failedWith, failures, errorCards, odd>>
TellBegun ==
  /\ readerAt = "begun" /\ readerAt' = "lines" /\ piShown' = "running"
  /\ UNCHANGED <<piUp, piRunning, sendAt, waiting, at, texts, errs, odd>>

\* turn_start, with a prompt that followed if there is one.
TurnStart ==
  /\ Line({"run"})
  /\ at' = "turn" /\ failedWith' = FALSE /\ lastError' = FALSE
  /\ waiting' \in {waiting, IF waiting > 0 THEN waiting - 1 ELSE 0}
  /\ UNCHANGED <<piUp, piRunning, piShown, sendAt, readerAt, texts, failures, errorCards, odd>>

\* flushMessage: what has been gathered is stored, and gathered no more.
Flushed == IF segments = <<>> THEN stored ELSE Append(stored, segments)
Kept == segments
Cleared == <<>>
Flush == stored' = Flushed /\ segments' = Cleared

\* message_start, also if the last message has not been ended.
MessageStart ==
  /\ Line({"turn", "message"}) /\ message < MaxMessages
  /\ at' = "message" /\ message' = message + 1 /\ pieces' = 0
  /\ Flush
  /\ UNCHANGED <<piUp, piRunning, piShown, sendAt, readerAt, waiting, errs, odd>>

\* message_update
MessageUpdate ==
  /\ Line({"message"}) /\ pieces < MaxPieces
  /\ pieces' = pieces + 1
  /\ segments' = Append(segments, <<message, pieces + 1>>)
  /\ UNCHANGED <<piUp, piRunning, piShown, sendAt, readerAt, waiting, at, message, stored, errs, odd>>

\* checkTurnError: message_end and turn_end bring the same error.
TellsError == IF lastError THEN errorCards ELSE errorCards + 1
Fails(fails) ==
  /\ fails /\ ~failedWith => failures < MaxFailures
  /\ failedWith' = (failedWith \/ fails)
  /\ failures' = IF fails /\ ~failedWith THEN failures + 1 ELSE failures
  /\ lastError' = (lastError \/ failedWith')
  /\ errorCards' = IF failedWith' THEN TellsError ELSE errorCards

MessageEnd(fails) ==
  /\ Line({"message"})
  /\ at' = "turn" /\ Flush /\ Fails(fails)
  /\ UNCHANGED <<piUp, piRunning, piShown, sendAt, readerAt, waiting, message, pieces, odd>>

\* turn_end, also of a turn whose last message was cut off (Interrupt).
TurnEnd(fails) ==
  /\ Line({"turn", "message"})
  /\ at' = "run" /\ Flush /\ Fails(fails)
  /\ UNCHANGED <<piUp, piRunning, piShown, sendAt, readerAt, waiting, message, pieces, odd>>

\* settle: whoever comes first ends the run.
Settle == /\ piRunning' = FALSE
          /\ readerAt' = IF piRunning THEN "settled" ELSE "lines"
          /\ odd' = (odd \/ Sending)

\* agent_end, which may announce a repetition, and agent_settled behind it.
AgentEnd(willRetry) ==
  /\ Line({"run", "turn", "message"})
  /\ at' = IF willRetry THEN "ended" ELSE "idle"
  /\ Flush /\ failedWith' = FALSE
  /\ IF willRetry THEN UNCHANGED <<piRunning, readerAt, odd>> ELSE Settle
  /\ UNCHANGED <<piUp, piShown, sendAt, waiting, message, pieces, lastError, failures, errorCards>>
AgentSettled ==
  /\ Line({"idle", "ended"})
  /\ at' = "idle" /\ Settle
  /\ UNCHANGED <<piUp, piShown, sendAt, waiting, texts, errs>>
\* The idle of a run; with nobody in between the status is right again.
TellSettled ==
  /\ readerAt = "settled" /\ readerAt' = "lines" /\ piShown' = "idle"
  /\ odd' = (piRunning \/ Sending)
  /\ UNCHANGED <<piUp, piRunning, sendAt, waiting, at, texts, errs>>

\* waitExit: stdin is gone; the pump will say that the session is dead.
PiExit ==
  /\ piUp /\ piUp' = FALSE
  /\ UNCHANGED <<piRunning, piShown, sendAt, readerAt, waiting, at, texts, errs, odd>>
-----------------------------------------------------------------------------
PiNext ==
  \/ \E p \in Prompts : SendPrompt(p) \/ SendTells(p)
  \/ Refused \/ AgentStart \/ TellBegun \/ TurnStart \/ MessageStart \/ MessageUpdate
  \/ \E b \in BOOLEAN : MessageEnd(b) \/ TurnEnd(b) \/ AgentEnd(b)
  \/ AgentSettled \/ TellSettled \/ PiExit

PiSpec == PiInit /\ [][PiNext]_piVars
-----------------------------------------------------------------------------
(***************************************************************************)
(* Properties.                                                             *)
(***************************************************************************)
\* What the session says of pi is what pi does, whatever is told twice or not
\* at all: it is shown as running while a run is under way and as idle when
\* none is and no prompt waits, unless a Send and the end of a run met between
\* lock and event, or a prompt was refused (Send, settle); a text that is
\* stored is one message, whole so far and stored once (flushMessage); a
\* failed turn has one error card (checkTurnError).
Quiet == piUp /\ readerAt = "lines" /\ ~Sending
PiToldAsItIs ==
  /\ Quiet /\ ~odd /\ at \in {"run", "turn", "message"} => piShown = "running"
  /\ Quiet /\ ~odd /\ at = "idle" /\ waiting = 0 => piShown = "idle"
  /\ \A i \in DOMAIN stored :
       /\ \A j \in DOMAIN stored[i] : stored[i][j] = <<stored[i][1][1], j>>
       /\ \A k \in 1 .. (i - 1) : stored[k][1][1] < stored[i][1][1]
  /\ errorCards = failures
=============================================================================
