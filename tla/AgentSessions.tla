---------------------------- MODULE AgentSessions ----------------------------
(***************************************************************************)
(* internal/agent/manager.go, store.go and handler.go: the life of one     *)
(* session.  Its row in agent_sessions with the status written there, the  *)
(* process and pump that serve it, the requests that create, revive,       *)
(* restart, kill, delete and clean it up, and the list of sessions of a    *)
(* page, fed by the answers of GET and by the frames of a watcher.         *)
(*                                                                         *)
(* AgentManager has the messages and the queue of a living session; here   *)
(* only whether rows of messages exist.  A step is one statement, one      *)
(* critical section of m.mu, or what one goroutine does between two.       *)
(***************************************************************************)
EXTENDS Naturals, Sequences, FiniteSets

CONSTANTS
  Users,       \* requests under way at a time
  MaxProcs,    \* bound: processes
  MaxExtras,   \* bound: status events besides those due, GETs of the list, breaks
  WireCap      \* frames a connection holds; the code has 256

\* There is no bound on the requests, only on what they start.
ASSUME SessionsAssumption == MaxProcs \in Nat

Procs == 1..MaxProcs
Gone == {"unborn", "deleted"}

VARIABLES
  row,       \* status in agent_sessions; "unborn" before, "deleted" after
  aged,      \* updated_at is before the cutoff of a cleanup
  messages,  \* agent_messages has rows of the session
  mapped,    \* m.sessions: a process, or 0
  proc,      \* "none", "alive", "closing" (killed) or "dead" (its events are read)
  pump,      \* "none", "reading", "leaving" (not superseded), "marked", "left"
  superseded,
  due,       \* processes whose driver has the "running" of a Send in its channel
  user,      \* requests: [pc, proc]
  list,      \* status the page shows, "none" if it has no such session
  open,      \* a session is open on the page
  watching,  \* the connection is up
  wire,      \* frames to the page
  get,       \* GET of the list: "none", "asked" or what it answers
  used,      \* how many of MaxExtras
  odd        \* ghost: what the properties make exceptions of

dbVars == <<row, aged, messages>>
procVars == <<mapped, proc, pump, superseded, due>>
pageVars == <<list, open, watching, wire, get>>
sessionVars == <<dbVars, procVars, user, pageVars, used, odd>>

NoUser == [pc |-> "idle", proc |-> 0]

SessionsInit ==
  /\ row = "unborn" /\ aged = FALSE /\ messages = FALSE
  /\ mapped = 0 /\ proc = [p \in Procs |-> "none"] /\ pump = [p \in Procs |-> "none"]
  /\ superseded = {} /\ due = {} /\ user = [u \in Users |-> NoUser]
  /\ list = "none" /\ open \in BOOLEAN /\ watching = TRUE /\ wire = <<>> /\ get = "none"
  /\ used = 0
  /\ odd = {}

Odd(what, happens) == odd' = IF happens THEN odd \cup {what} ELSE odd
Use == used < MaxExtras /\ used' = used + 1
At(u, pc) == user[u].pc = pc
Goto(u, pc, p) == user' = [user EXCEPT ![u] = IF pc = "idle" THEN NoUser ELSE [pc |-> pc, proc |-> p]]

\* UPDATE agent_sessions: nothing happens to a row that is not there.
SetStatus(status) ==
  IF row \in Gone THEN UNCHANGED <<row, aged>> ELSE row' = status /\ aged' = FALSE
Touch == UNCHANGED row /\ aged' = FALSE

\* notifyWatchers: a session without a row is not announced; a full or broken
\* connection loses the frame.
DeathUnannounced(status) == row \notin Gone /\ watching /\ status # "dead"
Announced(status) == row \notin Gone /\ watching
Announce(status, also) ==
  /\ wire' = IF Announced(status) /\ Len(wire) < WireCap THEN Append(wire, status) ELSE wire
  /\ odd' = odd \cup also
       \cup {w \in {"missed"} : row \notin Gone /\ ~(watching /\ Len(wire) < WireCap)}
  /\ UNCHANGED <<list, open, watching, get>>

Unused == {p \in Procs : proc[p] = "none"}
Spawn == CHOOSE p \in Unused : \A q \in Unused : p <= q
-----------------------------------------------------------------------------
(***************************************************************************)
(* Create, Send, and what brings a process to a session.                   *)
(***************************************************************************)
Create(u) ==
  /\ At(u, "idle") /\ row = "unborn" /\ Unused # {}
  /\ row' = "idle" /\ aged' = FALSE
  /\ proc' = [proc EXCEPT ![Spawn] = "alive"]
  /\ Goto(u, "created", Spawn)
  /\ UNCHANGED <<messages, mapped, pump, superseded, due, pageVars, used, odd>>
MapCreated(u) ==
  /\ At(u, "created") /\ Goto(u, "idle", 0)
  /\ mapped' = user[u].proc /\ pump' = [pump EXCEPT ![user[u].proc] = "reading"]
  /\ Announce("idle", {})
  /\ UNCHANGED <<dbVars, proc, superseded, due, used>>

\* Send to a session: mapped, or to be revived, or marked stale by Settings.
SendMapped(u) ==
  /\ At(u, "idle") /\ mapped # 0
  /\ Goto(u, "append", mapped)
  /\ UNCHANGED <<dbVars, procVars, pageVars, used, odd>>
SendRevives(u) ==
  /\ At(u, "idle") /\ mapped = 0 /\ row \notin Gone
  /\ Goto(u, "start", 0)
  /\ Odd("early", \E v \in Users : At(v, "created"))
  /\ UNCHANGED <<dbVars, procVars, pageVars, used>>
SendRestarts(u) ==
  /\ At(u, "idle") /\ mapped # 0
  /\ mapped' = 0 /\ superseded' = superseded \cup {mapped}
  /\ proc' = [proc EXCEPT ![mapped] = IF @ = "alive" THEN "closing" ELSE @]
  /\ Goto(u, IF row \in Gone THEN "idle" ELSE "start", 0)
  /\ Odd("overtaken", pump[mapped] # "reading")
  /\ UNCHANGED <<dbVars, pump, due, pageVars, used>>

\* spawn may fail; register: who comes second closes the process it has started.
Register(u) ==
  /\ At(u, "start")
  /\ \/ Goto(u, "idle", 0) /\ UNCHANGED <<mapped, proc>> /\ Odd("unstarted", row # "dead")
     \/ mapped # 0 /\ Goto(u, "append", mapped) /\ UNCHANGED <<mapped, proc, odd>>
     \/ /\ mapped = 0 /\ Unused # {}
        /\ proc' = [proc EXCEPT ![Spawn] = "alive"] /\ mapped' = Spawn
        /\ Goto(u, "registered", Spawn) /\ UNCHANGED odd
  /\ UNCHANGED <<dbVars, pump, superseded, due, pageVars, used>>
MarkIdle(u) ==
  /\ At(u, "registered")
  /\ SetStatus("idle")
  /\ pump' = [pump EXCEPT ![user[u].proc] = "reading"]
  /\ Goto(u, "append", user[u].proc)
  /\ UNCHANGED <<messages, mapped, proc, superseded, due, pageVars, used, odd>>

\* The message is stored, whether or not the session still has a row, and
\* written to the process, which makes the driver report a turn, or fails.
Crossed == {w \in {"sending"} : \E v \in Users : At(v, "delete") \/ At(v, "deleting")}
AppendUser(u) ==
  /\ At(u, "append") /\ Goto(u, "idle", 0)
  /\ messages' = TRUE /\ Touch
  /\ \/ due' = due \cup {p \in {user[u].proc} : proc[p] \in {"alive", "closing"}}
        /\ odd' = odd \cup Crossed
     \/ UNCHANGED due /\ odd' = odd \cup Crossed \cup {"unsent"}
  /\ UNCHANGED <<mapped, proc, pump, superseded, pageVars, used>>
-----------------------------------------------------------------------------
(***************************************************************************)
(* Kill, Delete and the cleanup of old sessions.                           *)
(***************************************************************************)
Closing == proc' = IF mapped = 0 THEN proc
                   ELSE [proc EXCEPT ![mapped] = IF @ = "alive" THEN "closing" ELSE @]
\* A Send that has found the session and is not done with it.
Sending == \E u \in Users : user[u].pc \in {"created", "start", "registered", "append"}
Serving == mapped # 0 \/ \E p \in Procs : proc[p] = "alive" \/ pump[p] = "reading"

\* The page that kills shows the session dead at once.
Kill(u) ==
  /\ At(u, "idle") /\ mapped # 0 /\ Closing
  /\ list' = IF list = "none" THEN "none" ELSE "dead"
  /\ UNCHANGED <<dbVars, mapped, pump, superseded, due, user, open, watching, wire, get, used, odd>>

Delete(u) ==
  /\ At(u, "idle") /\ row \notin Gone
  /\ Closing /\ Goto(u, "delete", 0)
  /\ odd' = odd \cup {w \in {"sending"} : Sending} \cup {w \in {"served"} : Serving}
  /\ UNCHANGED <<dbVars, mapped, pump, superseded, due, pageVars, used>>

AnyOld == row \notin Gone /\ aged
Deletable == row = "dead" /\ aged
Cleanup(u) ==
  /\ At(u, "idle") /\ Deletable
  /\ Goto(u, "delete", 0)
  /\ Odd("sending", Sending)
  /\ UNCHANGED <<dbVars, procVars, pageVars, used>>

Wiped == FALSE
\* DeleteSession: the messages and the queue, then the row.
DeleteMessages(u) ==
  /\ At(u, "delete") /\ messages' = Wiped /\ Goto(u, "deleting", 0)
  /\ odd' = odd \cup {w \in {"sending"} : Sending} \cup {w \in {"served"} : Serving}
  /\ UNCHANGED <<row, aged, procVars, pageVars, used>>
DeleteRow(u) ==
  /\ At(u, "deleting") /\ row' = "deleted" /\ aged' = FALSE /\ Goto(u, "idle", 0)
  /\ odd' = odd \cup {w \in {"sending"} : Sending} \cup {w \in {"served"} : Serving}
  /\ UNCHANGED <<messages, procVars, pageVars, used>>

\* Days pass while nobody uses the session.
Age ==
  /\ row \notin Gone /\ \A u \in Users : At(u, "idle")
  /\ aged' = TRUE
  /\ UNCHANGED <<row, messages, procVars, user, pageVars, used, odd>>
-----------------------------------------------------------------------------
(***************************************************************************)
(* The process and its pump.                                               *)
(***************************************************************************)
\* A status event: stored, written to the row, announced.
Report(p, status) ==
  /\ pump[p] = "reading"
  /\ IF p \in due
     THEN status = "running" /\ due' = due \ {p} /\ UNCHANGED used
     ELSE proc[p] \in {"alive", "closing"} /\ Use /\ UNCHANGED due
  /\ messages' = TRUE /\ SetStatus(status)
  /\ Announce(status, {w \in {"overtaken"} : p \in superseded})
  /\ UNCHANGED <<mapped, proc, pump, superseded, user>>

Die(p) ==
  /\ proc[p] \in {"alive", "closing"} /\ proc' = [proc EXCEPT ![p] = "dead"]
  /\ UNCHANGED <<dbVars, mapped, pump, superseded, due, user, pageVars, used, odd>>

\* After the last event: a superseded pump leaves; another may store an error.
Replaced(p) == p \in superseded
PumpLeaves(p) ==
  /\ pump[p] = "reading" /\ proc[p] = "dead" /\ p \notin due
  /\ pump' = [pump EXCEPT ![p] = IF Replaced(p) THEN "left" ELSE "leaving"]
  /\ \/ UNCHANGED <<messages, aged>>
     \/ ~Replaced(p) /\ messages' = TRUE /\ aged' = FALSE
  /\ UNCHANGED <<row, mapped, proc, superseded, due, user, pageVars, used, odd>>
MarkDead(p) ==
  /\ pump[p] = "leaving" /\ pump' = [pump EXCEPT ![p] = "marked"]
  /\ SetStatus("dead") /\ Announce("dead", {})
  /\ UNCHANGED <<messages, mapped, proc, superseded, due, user, used>>
Unmap(p) ==
  /\ pump[p] = "marked" /\ pump' = [pump EXCEPT ![p] = "left"]
  /\ mapped' = 0
  /\ UNCHANGED <<dbVars, proc, superseded, due, user, pageVars, used, odd>>
-----------------------------------------------------------------------------
(***************************************************************************)
(* The list of the page, and failures.                                     *)
(***************************************************************************)
\* toSessionJSON: a mapped session is shown idle, or running as its row says.
Shown ==
  IF row \in Gone THEN "none"
  ELSE IF mapped # 0 /\ row # "running" THEN "idle" ELSE row

AskList ==
  /\ get = "none" /\ Use /\ get' = "asked"
  /\ UNCHANGED <<dbVars, procVars, user, list, open, watching, wire, odd>>
\* A GET that is answered while a pump leaves, or whose answer is overtaken by
\* frames, or that overtakes frames, may show an older state.
Leaving == \E p \in Procs : pump[p] \in {"leaving", "marked"}
Starting == \E u \in Users : user[u].pc \in {"created", "registered"}
AnswerList ==
  /\ get = "asked" /\ get' = Shown
  /\ Odd("crossed", Leaving \/ Starting)
  /\ UNCHANGED <<dbVars, procVars, user, list, open, watching, wire, used>>
ReceiveList ==
  /\ get \notin {"none", "asked"} /\ list' = get /\ get' = "none"
  /\ Odd("crossed", get # Shown)
  /\ UNCHANGED <<dbVars, procVars, user, open, watching, wire, used>>
ReceiveFrame ==
  /\ wire # <<>> /\ wire' = Tail(wire)
  /\ list' = IF list = "none" THEN "none" ELSE Head(wire)
  /\ Odd("crossed", get # "none")
  /\ UNCHANGED <<dbVars, procVars, user, open, watching, get, used>>

\* The connection breaks; when it is back, a page with an open session asks for
\* the list again (catchUp).
Disconnect ==
  /\ watching /\ watching' = FALSE /\ Use
  /\ wire' = <<>> /\ Odd("missed", wire # <<>>)
  /\ UNCHANGED <<dbVars, procVars, user, list, open, get>>
Reconnect ==
  /\ ~watching /\ watching' = TRUE
  /\ IF open /\ get = "none" THEN get' = "asked" /\ odd' = odd \ {"missed"} ELSE UNCHANGED <<get, odd>>
  /\ UNCHANGED <<dbVars, procVars, user, list, open, wire, used>>

\* The server stops and starts again: NewManager marks all sessions dead.
RestartedAsIs == row
Restarted == IF row \in Gone THEN row ELSE "dead"
RestartServer ==
  /\ Use
  /\ row' = Restarted /\ mapped' = 0 /\ due' = {} /\ user' = [u \in Users |-> NoUser]
  /\ proc' = [p \in Procs |-> IF proc[p] = "none" THEN "none" ELSE "dead"]
  /\ pump' = [p \in Procs |-> IF pump[p] = "none" THEN "none" ELSE "left"]
  /\ watching' = FALSE /\ wire' = <<>> /\ get' = "none"
  /\ odd' = odd \cup {"missed"}
  /\ UNCHANGED <<aged, messages, superseded, list, open>>

SessionsNext ==
  \/ \E u \in Users :
       \/ Create(u) \/ MapCreated(u) \/ SendMapped(u) \/ SendRevives(u) \/ SendRestarts(u)
       \/ Register(u) \/ MarkIdle(u) \/ AppendUser(u)
       \/ Kill(u) \/ Delete(u) \/ Cleanup(u) \/ DeleteMessages(u) \/ DeleteRow(u)
  \/ \E p \in Procs : \/ Die(p) \/ PumpLeaves(p) \/ MarkDead(p) \/ Unmap(p)
                      \/ \E status \in {"running", "idle"} : Report(p, status)
  \/ Age \/ AskList \/ AnswerList \/ ReceiveList \/ ReceiveFrame
  \/ Disconnect \/ Reconnect \/ RestartServer

SessionsSpec == SessionsInit /\ [][SessionsNext]_sessionVars
-----------------------------------------------------------------------------
(***************************************************************************)
(* Properties.                                                             *)
(***************************************************************************)
\* No request, dying process or leaving pump is under way.
AtRest ==
  /\ due = {} /\ \A u \in Users : At(u, "idle")
  /\ \A p \in Procs : proc[p] # "closing" /\ pump[p] \notin {"leaving", "marked"}
                      /\ ~(pump[p] = "reading" /\ proc[p] = "dead")

\* A session that has a process has a row, so that it can be seen and stopped;
\* unless a Send found it before it was deleted (Delete, CleanupOlderThan) or before
\* Create had mapped it.
LiveHasRowUnlessSending ==
  AtRest /\ mapped # 0 /\ odd \cap {"sending", "early"} = {} => row \notin Gone

\* Deleting a session that no process serves leaves no messages behind; one that
\* is served goes on storing what it says (Delete, Close, pump).
DeletedLeavesNothingUnlessServed ==
  row = "deleted" /\ odd \cap {"sending", "served"} = {} => ~messages

\* Both: a deletion takes all of a session, its process and its messages too.
DeletionsWhole == LiveHasRowUnlessSending /\ DeletedLeavesNothingUnlessServed

\* At rest the row says dead exactly if there is no process, on which the cleanup
\* relies; unless a restart failed, the pump of the old process went on after it, or a
\* Send overtook Create.
RowTellsLife ==
  AtRest /\ row \notin Gone /\ odd \cap {"overtaken", "early", "unstarted", "sending"} = {} =>
    (row = "dead" <=> mapped = 0)

\* At rest, with nothing on the way, the list shows what the session does, unless
\* frames were lost and not asked for again, or a GET crossed a change.
ListTrueUnlessMissed ==
  AtRest /\ wire = <<>> /\ get = "none" /\ watching /\ list # "none" /\ row \notin Gone
    /\ odd \cap {"missed", "crossed", "overtaken", "early", "unstarted", "unsent", "sending"} = {} =>
      list = Shown

=============================================================================
