----------------------------- MODULE CodexTurns -----------------------------
(***************************************************************************)
(* internal/agent/codex.go and codex_retry.go: which turn is running, as   *)
(* the driver of codex learns it from its own requests, from two protocols *)
(* that both report the beginning and the end of every turn, from errors   *)
(* of either, and from compactions, which are no turns.                    *)
(*                                                                         *)
(* The app-server is modelled by what the driver expects of it: it begins  *)
(* the turns 1, 2, ..., and each protocol it speaks reports begin and end  *)
(* of each in order.  A line is handled when it is reported.  One step is  *)
(* one critical section of d.mu, or what readStdout does with one line.    *)
(***************************************************************************)
EXTENDS Naturals, Sequences, FiniteSets

CONSTANTS
  MaxTurns,  \* bound: turns
  MaxSends,  \* bound: messages of users
  MaxLag     \* reports one protocol may be ahead of the other

\* The driver remembers one turn that has ended: it counts on the protocols not
\* to be further apart.
ASSUME CodexAssumption ==
  MaxTurns \in Nat /\ MaxSends \in Nat /\ MaxLag \in 0..2

Protocols == {"turn", "task"}  \* turn/started ... and codex/event/task_started ...

VARIABLES
  speaks,     \* protocols of this server
  begun,      \* turns the server has begun
  ended,      \* turns it has ended
  bad,        \* turns that failed
  reports,    \* reports each protocol has made: begin, end, begin, end ...
  inbox,      \* ids of turn/start requests it has not looked at
  compaction, \* thread/compact/start: "none", "asked", "refused" or "running"
  notices,    \* protocols that have to report its end
  requests,   \* d.nextID
  turnActive, \* d.turnActive
  turnID,     \* d.turnID, 0 if empty
  lastFinishedTurn, lastTurnRequest,                \* as in codexDriver
  lastErrorReported, lastFinishedErrorReported,
  compactIdle, \* emitCompactIdle has found no turn and is about to say "idle"
  reported,    \* the status said last
  cards,       \* error cards of each turn
  idleCrossed      \* ghost: that status is an "idle" said across a running turn

serverVars == <<speaks, begun, ended, bad, inbox>>
errorVars == <<lastErrorReported, lastFinishedErrorReported, cards>>
turnVars == <<turnActive, turnID, lastFinishedTurn>>
compactVars == <<compaction, notices, compactIdle>>
codexVars == <<serverVars, reports, compactVars, requests, turnVars, lastTurnRequest,
               errorVars, reported, idleCrossed>>

CodexInit ==
  /\ speaks \in (SUBSET Protocols) \ {{}}
  /\ begun = 0 /\ ended = 0 /\ bad = {} /\ reports = [p \in Protocols |-> 0]
  /\ inbox = <<>> /\ compaction = "none" /\ notices = {} /\ requests = 0
  /\ turnActive = FALSE /\ turnID = 0 /\ lastFinishedTurn = 0 /\ lastTurnRequest = 0
  /\ lastErrorReported = FALSE /\ lastFinishedErrorReported = FALSE
  /\ compactIdle = FALSE /\ reported = "idle" /\ idleCrossed = FALSE
  /\ cards = [t \in 1..MaxTurns |-> 0]

Says(status) == reported' = status /\ idleCrossed' = FALSE
\* "idle" that nothing under d.mu has made sure of.
SaysIdleUnlocked == reported' = "idle" /\ idleCrossed' = (turnActive \/ turnID # 0)
SaysNothing == UNCHANGED <<reported, idleCrossed>>
Free == ~compactIdle  \* readStdout is between two lines
-----------------------------------------------------------------------------
(***************************************************************************)
(* Requests of the manager.                                                *)
(***************************************************************************)
SendTurn ==
  /\ requests < MaxSends
  /\ requests' = requests + 1 /\ lastTurnRequest' = requests'
  /\ inbox' = Append(inbox, requests')
  /\ turnActive' = TRUE /\ Says("running")
  /\ lastErrorReported' = (lastErrorReported /\ turnActive)
  /\ UNCHANGED <<speaks, begun, ended, bad, reports, compactVars, turnID, lastFinishedTurn,
                 lastFinishedErrorReported, cards>>

\* It could not be written: a turn that ran before goes on.
SendFails ==
  /\ requests < MaxSends /\ requests' = requests + 1
  /\ Says(IF turnActive THEN "running" ELSE "idle")
  /\ lastErrorReported' = (lastErrorReported /\ turnActive)
  /\ UNCHANGED <<serverVars, reports, compactVars, turnVars, lastTurnRequest,
                 lastFinishedErrorReported, cards>>

\* /compact: sendCompactLocked.
SendCompact ==
  /\ requests < MaxSends /\ compaction = "none" /\ notices = {}
  /\ requests' = requests + 1
  /\ compaction' = "asked" /\ Says("running")
  /\ UNCHANGED <<serverVars, reports, notices, compactIdle, turnVars, lastTurnRequest, errorVars>>

\* Its goroutine: the request was refused, or 180 seconds are over.
CompactGivesUp ==
  /\ compaction \in {"asked", "refused"}
  /\ compaction' = "none" /\ SaysIdleUnlocked
  /\ UNCHANGED <<serverVars, reports, notices, compactIdle, requests, turnVars,
                 lastTurnRequest, errorVars>>
-----------------------------------------------------------------------------
(***************************************************************************)
(* The server.                                                             *)
(***************************************************************************)
\* It takes a message: for a new turn, or into the one that runs.
Take ==
  /\ inbox # <<>> /\ inbox' = Tail(inbox)
  /\ IF begun = ended THEN begun < MaxTurns /\ begun' = begun + 1 ELSE UNCHANGED begun
  /\ UNCHANGED <<speaks, ended, bad, reports, compactVars, requests, turnVars,
                 lastTurnRequest, errorVars, reported, idleCrossed>>

EndTurn(failed) ==
  /\ begun > ended
  /\ ended' = begun
  /\ bad' = IF failed THEN bad \cup {begun} ELSE bad
  /\ UNCHANGED <<speaks, begun, inbox, reports, compactVars, requests, turnVars,
                 lastTurnRequest, errorVars, reported, idleCrossed>>

\* It refuses a message; handleRPCResponse: the session goes idle if the
\* message was the last one sent and no turn is known to run.
RefusalEndsAny(id) == id = lastTurnRequest
RefusalEnds(id) == id = lastTurnRequest /\ turnID = 0
Refuse ==
  /\ Free /\ inbox # <<>> /\ inbox' = Tail(inbox)
  /\ IF RefusalEnds(Head(inbox))
     THEN turnActive' = FALSE /\ Says("idle")
     ELSE SaysNothing /\ UNCHANGED turnActive
  /\ UNCHANGED <<speaks, begun, ended, bad, reports, compactVars, requests, turnID,
                 lastFinishedTurn, lastTurnRequest, errorVars>>

AnswerCompact ==
  /\ Free /\ compaction = "asked"
  /\ \/ compaction' = "refused" /\ UNCHANGED notices
     \/ compaction' = "none" /\ notices' = speaks
  /\ UNCHANGED <<serverVars, reports, compactIdle, requests, turnVars, lastTurnRequest,
                 errorVars, reported, idleCrossed>>

\* The end of a compaction, asked for or automatic in a turn.  emitCompactIdle
\* looks for a turn, and says "idle" after it has given the lock back.
NoTurn == turnID = 0 /\ ~turnActive
Compacted(p) ==
  /\ Free
  /\ \/ p \in notices /\ notices' = notices \ {p}
     \/ p \in speaks /\ begun > ended /\ UNCHANGED notices
  /\ compactIdle' = NoTurn
  /\ UNCHANGED <<serverVars, reports, compaction, requests, turnVars, lastTurnRequest,
                 errorVars, reported, idleCrossed>>
EmitCompactIdle ==
  /\ compactIdle /\ compactIdle' = FALSE
  /\ SaysIdleUnlocked
  /\ UNCHANGED <<serverVars, reports, compaction, notices, requests, turnVars,
                 lastTurnRequest, errorVars>>
-----------------------------------------------------------------------------
(***************************************************************************)
(* Reports of turns.                                                       *)
(***************************************************************************)
Turn(p) == reports[p] \div 2 + 1  \* the turn of p's next report
Reports(p) ==
  /\ Free /\ p \in speaks
  /\ reports' = [reports EXCEPT ![p] = @ + 1]
  /\ \A q \in speaks : reports'[p] <= reports[q] + MaxLag
  /\ UNCHANGED <<serverVars, compactVars, requests, lastTurnRequest>>

\* turn/started, task_started: of a turn that is over they say nothing.
NeverStale(t) == FALSE
IsStale(t) == t = lastFinishedTurn
Started(p) ==
  /\ reports[p] % 2 = 0 /\ Turn(p) <= begun
  /\ Reports(p)
  /\ IF IsStale(Turn(p)) THEN UNCHANGED turnVars /\ SaysNothing
     ELSE /\ turnID' = Turn(p) /\ turnActive' = TRUE /\ Says("running")
          /\ UNCHANGED lastFinishedTurn
  /\ UNCHANGED errorVars

ErrorCard(t) == cards' = [cards EXCEPT ![t] = @ + 1]

LateErrorAgain(failed) ==
  IF failed
  THEN ErrorCard(lastFinishedTurn) /\ lastFinishedErrorReported' = TRUE
  ELSE UNCHANGED <<cards, lastFinishedErrorReported>>

\* An error of the turn that ended last.
LateError(failed) ==
  IF failed /\ ~lastFinishedErrorReported
  THEN ErrorCard(lastFinishedTurn) /\ lastFinishedErrorReported' = TRUE
  ELSE UNCHANGED <<cards, lastFinishedErrorReported>>

\* finishCodexTurn: only the first end of a turn counts, but for an error that
\* was not known then.  The old protocol may call a failed turn complete.
Finish(t, failed) ==
  \/ /\ t = lastFinishedTurn
     /\ LateError(failed)
     /\ SaysNothing
     /\ UNCHANGED <<turnVars, lastErrorReported>>
  \/ /\ t # lastFinishedTurn /\ turnID \notin {0, t}
     /\ SaysNothing
     /\ UNCHANGED <<turnVars, errorVars>>
  \/ /\ t # lastFinishedTurn /\ turnID \in {0, t}
     /\ lastFinishedTurn' = t /\ turnID' = 0 /\ turnActive' = FALSE
     /\ IF failed /\ ~lastErrorReported THEN ErrorCard(t) ELSE UNCHANGED cards
     /\ lastFinishedErrorReported' = (lastErrorReported \/ failed)
     /\ lastErrorReported' = FALSE
     /\ Says("idle")
Ended(p) ==
  /\ reports[p] % 2 = 1 /\ Turn(p) <= ended
  /\ Reports(p)
  /\ \E failed \in BOOLEAN :
       /\ failed => Turn(p) \in bad
       /\ ~failed /\ Turn(p) \in bad => p = "task" /\ "turn" \in speaks
       /\ Finish(Turn(p), failed)

\* handleCodexError, for a turn p has not ended yet: an attempt that is
\* repeated keeps the turn running, another error is shown once.
Error(p, retry) ==
  /\ Free /\ p \in speaks /\ reports[p] % 2 = 1
  /\ retry \/ Turn(p) \in bad
  /\ LET t == Turn(p) IN
     \/ /\ t = lastFinishedTurn
        /\ LateError(~retry)
        /\ SaysNothing /\ UNCHANGED lastErrorReported
     \/ /\ t # lastFinishedTurn /\ turnID \notin {0, t}
        /\ SaysNothing /\ UNCHANGED errorVars
     \/ /\ t # lastFinishedTurn /\ turnID \in {0, t}
        /\ IF retry THEN Says("running") ELSE SaysNothing
        /\ IF ~retry /\ ~lastErrorReported
           THEN ErrorCard(t) /\ lastErrorReported' = TRUE
           ELSE UNCHANGED <<cards, lastErrorReported>>
        /\ UNCHANGED lastFinishedErrorReported
  /\ UNCHANGED <<serverVars, reports, compactVars, requests, turnVars, lastTurnRequest>>
-----------------------------------------------------------------------------
CodexNext ==
  \/ SendTurn \/ SendFails \/ SendCompact \/ CompactGivesUp \/ Take \/ Refuse
  \/ AnswerCompact \/ EmitCompactIdle
  \/ \E failed \in BOOLEAN : EndTurn(failed)
  \/ \E p \in Protocols : \/ Compacted(p) \/ Started(p) \/ Ended(p)
                          \/ \E retry \in BOOLEAN : Error(p, retry)

CodexSpec == CodexInit /\ [][CodexNext]_codexVars
-----------------------------------------------------------------------------
(***************************************************************************)
(* Properties.                                                             *)
(***************************************************************************)
\* Everything that has happened was reported and handled.
Settled ==
  /\ inbox = <<>> /\ compaction = "none" /\ notices = {} /\ Free
  /\ \A p \in speaks : reports[p] = begun + ended

\* The session is shown running as long as a turn runs, and idle otherwise,
\* in whatever order the protocols, refusals and errors report; the exception
\* is a compaction that ends, fails or times out while a message is sent or a
\* turn runs (SendTurn, handleRPCResponse, finishCodexTurn, emitCompactIdle).
ShownAsRunsUnlessCrossed ==
  Settled /\ ~idleCrossed => reported = IF begun > ended THEN "running" ELSE "idle"

\* A turn that fails gets one error card, though either protocol may report
\* the failure, twice and after the turn is over, and the other may take it for
\* complete; a turn that does not fail gets none (codex_retry.go).
OneErrorPerTurn ==
  Settled => \A t \in 1..ended : cards[t] = IF t \in bad THEN 1 ELSE 0

=============================================================================
