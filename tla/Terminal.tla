------------------------------ MODULE Terminal ------------------------------
(***************************************************************************)
(* internal/terminal: shells that outlive the connections watching them.   *)
(* A session is a shell on a PTY with a ring buffer of its output, the     *)
(* connections attached to it, an optional alarm that closes it and a      *)
(* handle on its resource limits.  A connection has a bounded queue of     *)
(* output frames; text frames are written past that queue.                 *)
(*                                                                         *)
(* A session's output is the chunks 1, 2, ... in the order readLoop        *)
(* publishes them.  One step is one critical section (m.mu or s.mu) or one *)
(* frame written to a connection.                                          *)
(***************************************************************************)
EXTENDS Naturals, FiniteSets, SequencesExt

CONSTANTS
  Sessions,   \* ids of sessions, each created at most once (newID)
  Clients,    \* WebSocket connections; a browser that reconnects is a new one
  None,       \* no session
  BufCap,     \* chunks the ring buffer holds (1 MB in the code)
  QueueCap,   \* frames the send queue holds (256 in the code)
  Alarms,     \* what users ask of autoclose: TRUE sets the alarm, FALSE stops it
  MaxOut,     \* bound: chunks all shells together print
  MaxAsk,     \* bound: requests of all users together
  MaxBreaks   \* bound: connections that break

ASSUME TerminalAssumption ==
  /\ IsFiniteSet(Sessions) /\ None \notin Sessions /\ Sessions \cap Clients = {}
  /\ BufCap \in Nat \ {0} /\ QueueCap \in Nat /\ BufCap <= QueueCap
  /\ MaxOut \in Nat /\ MaxAsk \in Nat /\ MaxBreaks \in Nat
  /\ Alarms \subseteq BOOLEAN /\ Alarms # {}

VARIABLES
  \* --- Manager
  sessions,   \* m.sessions
  clients,    \* m.clients
  \* --- Session
  proc,       \* the shell: "none", "up" or "gone"
  out,        \* chunks published so far
  reader,     \* readLoop: "read" or "end"
  buf,        \* s.buf
  attached,   \* s.clients: the request id of each client, 0 if it has none
  exit,       \* waitExit: "wait", "close" (s.dead is set), "closed" (exitCh)
  alarm,      \* s.autoCloseTimer is running
  grace,      \* a goroutine of kill waits to strike harder
  released,   \* times limiter.release was called
  \* --- goroutines: watchExit of a session, readLoop of a connection
  pc,         \* next step
  todo,       \* connections still to be written to
  list,       \* broadcastSessionList's local list
  target,     \* session a create or attach is about
  creating,   \* it is a create (or the last request was one, and failed)
  cur,        \* curID
  req,        \* request id of the latest create or attach
  queue,      \* Client.send: frames [req, chunk]
  conn,       \* "new", "open", "broken" (writes are lost) or "gone"
  \* --- what the browser got
  seen,       \* chunks written for its latest attachment, in order
  base,       \* ghost: chunks that had left the ring buffer when it attached
  lost,       \* ghost: a full queue dropped a frame of that attachment
  listed,     \* the last session list written, and whether it was current
  active,     \* the session on the screen
  early,      \* ghost: exit was written before the session frame of a create
  \* --- spent bounds
  asked, breaks

manager == <<sessions, clients>>
shells  == <<proc, out, reader, buf, attached>>
ending  == <<exit, alarm, grace, released>>
actors  == <<pc, todo, list, target, creating, cur, req>>
wire    == <<queue, seen, base, lost>>
browser == <<listed, active, early>>
bounds  == <<asked, breaks>>
vars    == <<manager, shells, ending, actors, wire, conn, browser, bounds>>

Actors == Sessions \cup Clients

Init ==
  /\ sessions = {} /\ clients = {}
  /\ proc = [s \in Sessions |-> "none"] /\ out = [s \in Sessions |-> 0]
  /\ reader = [s \in Sessions |-> "end"] /\ buf = [s \in Sessions |-> <<>>]
  /\ attached = [s \in Sessions |-> [c \in Clients |-> 0]]
  /\ exit = [s \in Sessions |-> "wait"] /\ alarm = [s \in Sessions |-> FALSE]
  /\ grace = [s \in Sessions |-> FALSE]
  /\ released = [s \in Sessions |-> 0]
  /\ pc = [a \in Actors |-> IF a \in Clients THEN "read" ELSE "none"]
  /\ todo = [a \in Actors |-> {}] /\ list = [a \in Actors |-> {}]
  /\ target = [c \in Clients |-> None] /\ creating = [c \in Clients |-> FALSE]
  /\ cur = [c \in Clients |-> None] /\ req = [c \in Clients |-> 0]
  /\ queue = [c \in Clients |-> <<>>] /\ conn = [c \in Clients |-> "new"]
  /\ seen = [c \in Clients |-> <<>>] /\ base = [c \in Clients |-> 0]
  /\ lost = [c \in Clients |-> FALSE]
  /\ listed = [c \in Clients |-> [ids |-> {}, current |-> FALSE]]
  /\ active = [c \in Clients |-> None] /\ early = {}
  /\ asked = 0 /\ breaks = 0

Dead(s) == exit[s] # "wait"
Goto(a, step) == pc' = [pc EXCEPT ![a] = step]

\* The handler of a create or attach is done with its target.
Done(c, step) == /\ Goto(c, step) /\ target' = [target EXCEPT ![c] = None]
                 /\ creating' = [creating EXCEPT ![c] = FALSE]

(***************************************************************************)
(* The send queue and the ring buffer.                                     *)
(***************************************************************************)
\* push: a full queue loses its oldest frame.  (s.mu is held; the only other
\* goroutine that can push to this client is the reader of a removed session.)
Push(q, frame) ==
  Append(IF Len(q) < QueueCap THEN q ELSE Tail(q), frame)

Overflows(q, r) == Len(q) = QueueCap /\ Head(q).req = r

\* RingBuffer.Write: the oldest chunks leave.
RingWriteUntilFull(b, chunk) == IF Len(b) = BufCap THEN b ELSE Append(b, chunk)
RingWrite(b, chunk) == Append(IF Len(b) < BufCap THEN b ELSE Tail(b), chunk)

\* The replay is pushed frame by frame, in front of everything published later:
\* the newest frames stay (MCTerminal checks this against Push).
Newest(q) ==
  IF Len(q) <= QueueCap THEN q ELSE SubSeq(q, Len(q) - QueueCap + 1, Len(q))
Frames(b, r) == [i \in DOMAIN b |-> [req |-> r, chunk |-> b[i]]]
Replay(q, b, r) == Newest(q \o Frames(b, r))

(***************************************************************************)
(* The shell and its two goroutines.                                       *)
(***************************************************************************)
\* publishOutput: the chunk is saved and pushed to every attached client.  Once
\* the PTY is closed only a chunk read before is left to publish, and readLoop
\* ends (unobserved, if there is none).
Publish(s) ==
  LET n == out[s] + 1
      on == {c \in Clients : attached[s][c] # 0}
  IN  /\ reader[s] = "read" /\ FoldFunction(+, 0, out) < MaxOut
      /\ reader' = [reader EXCEPT ![s] = IF exit[s] = "closed" THEN "end" ELSE "read"]
      /\ out' = [out EXCEPT ![s] = n]
      /\ buf' = [buf EXCEPT ![s] = RingWrite(@, n)]
      /\ queue' = [c \in Clients |->
           IF c \in on
           THEN Push(queue[c], [req |-> attached[s][c], chunk |-> n])
           ELSE queue[c]]
      /\ lost' = [c \in Clients |-> lost[c] \/ (c \in on /\ Overflows(queue[c], req[c]))]
      /\ UNCHANGED <<manager, proc, attached, ending, actors, seen, base, conn,
                     browser, bounds>>

\* The shell ends by itself, or because of the first signal of kill.
ShellExits(s) ==
  /\ proc[s] = "up"
  /\ proc' = [proc EXCEPT ![s] = "gone"]
  /\ UNCHANGED <<manager, out, reader, buf, attached, ending, actors, wire,
                 conn, browser, bounds>>

\* waitExit: dead is set and the alarm stopped under s.mu ...
WaitExit(s) ==
  /\ proc[s] = "gone" /\ exit[s] = "wait"
  /\ exit' = [exit EXCEPT ![s] = "close"]
  /\ alarm' = [alarm EXCEPT ![s] = FALSE]
  /\ UNCHANGED <<manager, shells, grace, released, actors, wire, conn, browser,
                 bounds>>

\* ... then the PTY is closed, and exitCh, for which kill's goroutine waits too.
ClosePty(s) ==
  /\ exit[s] = "close"
  /\ exit' = [exit EXCEPT ![s] = "closed"] /\ grace' = [grace EXCEPT ![s] = FALSE]
  /\ UNCHANGED <<manager, shells, alarm, released, actors, wire, conn,
                 browser, bounds>>

(***************************************************************************)
(* kill, and the alarm that calls it.                                      *)
(***************************************************************************)
KillShell(s) == grace' = [grace EXCEPT ![s] = @ \/ ~Dead(s)]

AlarmRings(s) ==
  /\ alarm[s]
  /\ alarm' = [alarm EXCEPT ![s] = FALSE]
  /\ KillShell(s)
  /\ UNCHANGED <<manager, shells, exit, released, actors, wire, conn, browser,
                 bounds>>

GraceForgotten(s) ==
  /\ grace[s]
  /\ grace' = [grace EXCEPT ![s] = FALSE]
  /\ UNCHANGED <<manager, shells, exit, alarm, released, actors, wire, conn,
                 browser, bounds>>

\* killGrace is over and exitCh still open: the second signal.
GraceOver(s) ==
  /\ grace[s]
  /\ grace' = [grace EXCEPT ![s] = FALSE]
  /\ proc' = [proc EXCEPT ![s] = "gone"]
  /\ UNCHANGED <<manager, out, reader, buf, attached, exit, alarm, released,
                 actors, wire, conn, browser, bounds>>

(***************************************************************************)
(* Writing to connections.                                                 *)
(***************************************************************************)
WriteFrame(c) ==
  /\ conn[c] \in {"open", "broken"} /\ queue[c] # <<>>
  /\ queue' = [queue EXCEPT ![c] = Tail(@)]
  /\ seen' = IF conn[c] = "open" /\ Head(queue[c]).req = req[c]
             THEN [seen EXCEPT ![c] = Append(@, Head(queue[c]).chunk)] ELSE seen
  /\ UNCHANGED <<manager, shells, ending, actors, base, lost, conn, browser,
                 bounds>>

\* sendText of an exit frame, a session list or a session frame: what the
\* page makes of it.  A connection that is broken costs a time-out.
SendExit(c, s) ==
  IF conn[c] # "open" THEN UNCHANGED browser
  ELSE /\ active' = IF active[c] = s THEN [active EXCEPT ![c] = None] ELSE active
       /\ early' = IF creating[c] /\ target[c] = s /\ pc[c] \in {"detach", "attach", "greet"}
                   THEN early \cup {c} ELSE early
       /\ UNCHANGED listed

SendList(c, ids) ==
  IF conn[c] # "open" THEN UNCHANGED browser
  ELSE /\ listed' = [listed EXCEPT ![c] = [ids |-> ids, current |-> ids = sessions]]
       /\ UNCHANGED <<active, early>>

SendSession(c, s) ==
  IF conn[c] # "open" THEN UNCHANGED browser
  ELSE active' = [active EXCEPT ![c] = s] /\ UNCHANGED <<listed, early>>

(***************************************************************************)
(* broadcastSessionList, called by watchExit and by the handlers: the list *)
(* is taken, then the connections, then they are written to one by one.    *)
(***************************************************************************)
AfterList(a) == IF a \in Sessions THEN "release" ELSE "read"

TakeList(a) ==
  /\ pc[a] = "list" /\ Goto(a, "clients")
  /\ list' = [list EXCEPT ![a] = sessions]
  /\ UNCHANGED <<manager, shells, ending, todo, target, creating, cur, req,
                 wire, conn, browser, bounds>>

TakeClients(a) ==
  /\ pc[a] = "clients" /\ Goto(a, IF clients = {} THEN AfterList(a) ELSE "send")
  /\ todo' = [todo EXCEPT ![a] = clients]
  /\ UNCHANGED <<manager, shells, ending, list, target, creating, cur, req,
                 wire, conn, browser, bounds>>

SendToOne(a) ==
  /\ pc[a] = "send"
  /\ \E c \in todo[a] :
       todo' = [todo EXCEPT ![a] = @ \ {c}] /\ SendList(c, list[a])
  /\ IF todo'[a] = {}
     THEN Goto(a, AfterList(a)) /\ list' = [list EXCEPT ![a] = {}]
     ELSE UNCHANGED <<pc, list>>
  /\ UNCHANGED <<manager, shells, ending, target, creating, cur, req,
                 wire, conn, bounds>>

Broadcast(a) == TakeList(a) \/ TakeClients(a) \/ SendToOne(a)

(***************************************************************************)
(* watchExit.                                                              *)
(***************************************************************************)
RemoveDead(s) == sessions' = IF Dead(s) THEN sessions \ {s} ELSE sessions

WatchRemove(s) ==
  /\ pc[s] = "watch" /\ exit[s] = "closed"
  /\ RemoveDead(s) /\ Goto(s, "audience")
  /\ UNCHANGED <<clients, shells, ending, todo, list, target, creating, cur,
                 req, wire, conn, browser, bounds>>

\* What follows the exit frames: the list, then the limits.
AfterExit(s) == "list"

WatchAudience(s) ==
  /\ pc[s] = "audience" /\ Goto(s, IF clients = {} THEN AfterExit(s) ELSE "exit")
  /\ todo' = [todo EXCEPT ![s] = clients]
  /\ UNCHANGED <<manager, shells, ending, list, target, creating, cur, req,
                 wire, conn, browser, bounds>>

WatchTell(s) ==
  /\ pc[s] = "exit"
  /\ \E c \in todo[s] : todo' = [todo EXCEPT ![s] = @ \ {c}] /\ SendExit(c, s)
  /\ IF todo'[s] = {} THEN Goto(s, AfterExit(s)) ELSE UNCHANGED pc
  /\ UNCHANGED <<manager, shells, ending, list, target, creating, cur, req,
                 wire, conn, bounds>>

Release(s) == released' = [released EXCEPT ![s] = @ + 1]

WatchRelease(s) ==
  /\ pc[s] = "release" /\ Goto(s, "done") /\ Release(s)
  /\ UNCHANGED <<manager, shells, exit, alarm, grace, todo, list, target,
                 creating, cur, req, wire, conn, browser, bounds>>

Watch(s) == \/ WatchRemove(s) \/ WatchAudience(s) \/ WatchTell(s)
            \/ WatchRelease(s) \/ Broadcast(s)

(***************************************************************************)
(* A connection, and the frames its readLoop handles.                      *)
(***************************************************************************)
Connect(c) ==
  /\ conn[c] = "new"
  /\ conn' = [conn EXCEPT ![c] = "open"] /\ clients' = clients \cup {c}
  /\ UNCHANGED <<sessions, shells, ending, actors, wire, browser, bounds>>

\* The other end is gone: a write, a read or the ping notices it.
Break(c) ==
  /\ conn[c] = "open" /\ breaks < MaxBreaks /\ breaks' = breaks + 1
  /\ conn' = [conn EXCEPT ![c] = "broken"] /\ UNCHANGED asked
  /\ UNCHANGED <<manager, shells, ending, actors, wire, browser>>

\* One more frame of a user is read.
Reads(c) == /\ pc[c] = "read" /\ conn[c] = "open"
            /\ asked < MaxAsk /\ asked' = asked + 1 /\ UNCHANGED breaks

\* create: the shell is started, or could not be and its limits go back.
Create(c, s) ==
  /\ Reads(c) /\ pc[s] = "none"
  /\ req' = [req EXCEPT ![c] = @ + 1]
  /\ target' = [target EXCEPT ![c] = s] /\ creating' = [creating EXCEPT ![c] = TRUE]
  /\ proc' = [proc EXCEPT ![s] = "up"]
  /\ reader' = [reader EXCEPT ![s] = "read"]
  /\ pc' = [pc EXCEPT ![c] = "map", ![s] = "started"]
  /\ UNCHANGED <<manager, out, buf, attached, ending, todo, list, cur, wire,
                 conn, browser>>

CreateFails(c, s) ==
  /\ Reads(c) /\ pc[s] = "none"
  /\ req' = [req EXCEPT ![c] = @ + 1]
  /\ Release(s) /\ Goto(s, "done")
  /\ creating' = [creating EXCEPT ![c] = TRUE]
  /\ UNCHANGED <<manager, shells, exit, alarm, grace, todo, list, target,
                 cur, wire, conn, browser>>

\* setAutoClose changes nothing in a dead session.
SetAutoClose(s, on) == alarm' = [alarm EXCEPT ![s] = IF Dead(s) THEN @ ELSE on]

\* The session is mapped and its alarm set, if one was asked for.
CreateMap(c) ==
  /\ pc[c] = "map"
  /\ sessions' = sessions \cup {target[c]}
  /\ pc' = [pc EXCEPT ![c] = "detach", ![target[c]] = "watch"]
  /\ \E on \in Alarms : SetAutoClose(target[c], on)
  /\ UNCHANGED <<clients, shells, exit, grace, released, todo, list, target,
                 creating, cur, req, wire, conn, browser, bounds>>

\* attach: the target is looked up before the old session is left.
AttachGet(c, s) ==
  /\ Reads(c) /\ s \in sessions
  /\ req' = [req EXCEPT ![c] = @ + 1]
  /\ target' = [target EXCEPT ![c] = s] /\ creating' = [creating EXCEPT ![c] = FALSE]
  /\ Goto(c, "detach")
  /\ UNCHANGED <<manager, shells, ending, todo, list, cur, wire, conn,
                 browser>>

\* An attach to a session that is not there: the subscription is kept, but the
\* page has taken a new request id.
AttachUnknown(c, s) ==
  /\ Reads(c) /\ s \notin sessions /\ pc[s] = "done"
  /\ req' = [req EXCEPT ![c] = @ + 1]
  /\ creating' = [creating EXCEPT ![c] = FALSE]
  /\ UNCHANGED <<manager, shells, ending, pc, todo, list, target, cur, wire, conn, browser>>

\* Detach finds only sessions that are still mapped.
Leave(c) ==
  attached' = [s \in Sessions |-> IF s = cur[c] /\ s \in sessions
                                  THEN [attached[s] EXCEPT ![c] = 0]
                                  ELSE attached[s]]

DetachOld(c) ==
  /\ pc[c] = "detach" /\ Goto(c, "attach")
  /\ Leave(c) /\ cur' = [cur EXCEPT ![c] = None]
  /\ UNCHANGED <<manager, proc, out, reader, buf, ending, todo, list, target,
                 creating, req, wire, conn, browser, bounds>>

\* Attach: the replay is queued and the client registered under s.mu.
Attach(c) ==
  LET s == target[c]
      q == Replay(queue[c], buf[s], req[c])
  IN  /\ pc[c] = "attach" /\ s \in sessions
      /\ attached' = [attached EXCEPT ![s][c] = req[c]]
      /\ queue' = [queue EXCEPT ![c] = q]
      /\ seen' = [seen EXCEPT ![c] = <<>>]
      /\ base' = [base EXCEPT ![c] = out[s] - Len(buf[s])]
      /\ lost' = [lost EXCEPT ![c] = FALSE]
      /\ cur' = [cur EXCEPT ![c] = s]
      /\ Goto(c, "greet")
      /\ UNCHANGED <<manager, proc, out, reader, buf, ending, todo, list,
                     target, creating, req, conn, browser, bounds>>

\* The session was removed between the two look-ups: an error frame.
AttachLate(c) ==
  /\ pc[c] = "attach" /\ target[c] \notin sessions
  /\ Done(c, "read")
  /\ UNCHANGED <<manager, shells, ending, todo, list, cur, req, wire, conn,
                 browser, bounds>>

Greet(c) ==
  /\ pc[c] = "greet"
  /\ SendSession(c, target[c])
  /\ IF creating[c] THEN Done(c, "list")
     ELSE Goto(c, "dead?") /\ UNCHANGED <<target, creating>>
  /\ UNCHANGED <<manager, shells, ending, todo, list, cur, req, wire, conn,
                 bounds>>

\* attach sends the exit frame that watchExit may have sent too early.
TellNothing(c) == UNCHANGED browser
TellIfDead(c) ==
  IF Dead(target[c]) THEN SendExit(c, target[c]) ELSE UNCHANGED browser

\* ... and the second look at the session, after its frame.
AttachDead(c) ==
  /\ pc[c] = "dead?" /\ Done(c, "read")
  /\ TellIfDead(c)
  /\ UNCHANGED <<manager, shells, ending, todo, list, cur, req, wire, conn,
                 bounds>>

AskList(c) ==
  /\ Reads(c) /\ SendList(c, sessions)
  /\ UNCHANGED <<manager, shells, ending, actors, wire, conn>>

\* input to a dead session is answered with an exit frame.
Input(c, s) ==
  /\ Reads(c) /\ s \in sessions /\ Dead(s) /\ SendExit(c, s)
  /\ UNCHANGED <<manager, shells, ending, actors, wire, conn>>

Kill(c, s) ==
  /\ Reads(c) /\ s \in sessions /\ KillShell(s)
  /\ UNCHANGED <<manager, shells, exit, alarm, released, actors, wire, conn,
                 browser>>

\* autoclose: an error if the session is dead, else everybody gets the list.
AutoClose(c, s, on) ==
  /\ Reads(c) /\ s \in sessions /\ alarm[s] # on
  /\ SetAutoClose(s, on)
  /\ Goto(c, IF Dead(s) THEN "read" ELSE "list")
  /\ UNCHANGED <<manager, shells, exit, grace, released, todo, list, target,
                 creating, cur, req, wire, conn, browser>>

DetachRequest(c) ==
  /\ Reads(c) /\ cur[c] # None
  /\ Leave(c) /\ cur' = [cur EXCEPT ![c] = None]
  /\ req' = [req EXCEPT ![c] = @ + 1]
  /\ UNCHANGED <<manager, proc, out, reader, buf, ending, pc, todo, list,
                 target, creating, wire, conn, browser>>

\* readLoop returns: ServeWS detaches, then forgets the client.
Disconnect(c) ==
  /\ pc[c] = "read" /\ conn[c] = "broken"
  /\ Leave(c) /\ Goto(c, "forget")
  /\ conn' = [conn EXCEPT ![c] = "gone"]
  /\ UNCHANGED <<manager, proc, out, reader, buf, ending, todo, list, target,
                 creating, cur, req, wire, browser, bounds>>

Forget(c) ==
  /\ pc[c] = "forget" /\ Goto(c, "done")
  /\ clients' = clients \ {c} /\ queue' = [queue EXCEPT ![c] = <<>>]
  /\ UNCHANGED <<sessions, shells, ending, todo, list, target, creating, cur,
                 req, seen, base, lost, conn, browser, bounds>>

-----------------------------------------------------------------------------
Shell(s) == WaitExit(s) \/ ClosePty(s)
Ask(c, s) == \/ Create(c, s) \/ CreateFails(c, s) \/ AttachGet(c, s)
             \/ AttachUnknown(c, s) \/ Input(c, s) \/ Kill(c, s)
             \/ \E on \in Alarms : AutoClose(c, s, on)
Handle(c) == \/ CreateMap(c) \/ DetachOld(c) \/ Attach(c)
             \/ AttachLate(c) \/ Greet(c) \/ AttachDead(c) \/ Broadcast(c)
             \/ Disconnect(c) \/ Forget(c) \/ WriteFrame(c)

Next ==
  \/ \E s \in Sessions : Shell(s) \/ Publish(s) \/ ShellExits(s) \/ AlarmRings(s) \/ GraceOver(s) \/ Watch(s)
  \/ \E c \in Clients : Connect(c) \/ Break(c) \/ AskList(c) \/ DetachRequest(c) \/ Handle(c)
  \/ \E c \in Clients, s \in Sessions : Ask(c, s)

Spec == Init /\ [][Next]_vars

\* Goroutines run, a time-out of kill passes, the hard signal ends a process.
\* Shells, alarms and users owe nothing.
FairSpec ==
  /\ Spec
  /\ \A s \in Sessions : WF_vars(Shell(s)) /\ WF_vars(GraceOver(s)) /\ WF_vars(Watch(s))
  /\ \A c \in Clients : WF_vars(Handle(c))
-----------------------------------------------------------------------------
(***************************************************************************)
(* Properties.                                                             *)
(***************************************************************************)
\* What a page has of its attachment r, and will have once the queue is written.
Mine(q, r) == {i \in DOMAIN q : q[i].req = r}
Coming(got, q, r) == Range(got) \cup {q[i].chunk : i \in Mine(q, r)}
InOrder(got, q, r) ==
  /\ \A i, j \in DOMAIN got : i < j => got[i] < got[j]
  /\ \A i \in DOMAIN got, j \in Mine(q, r) : got[i] < q[j].chunk
  /\ \A i, j \in Mine(q, r) : i < j => q[i].chunk < q[j].chunk

\* Sessions that ended while c was attached, and that it could not leave.
Leftovers(c, s) == {t \in Sessions \ {s} : attached[t][c] # 0}
Watching(c, s) == conn[c] = "open" /\ req[c] # 0 /\ attached[s][c] = req[c]

\* Replay and live output meet without a seam: as long as the queue of 256 was
\* not full, an attached page has, or is about to get, every chunk from the
\* oldest one in the ring buffer to the latest published, each once and in
\* order.  A connection too slow for its output loses old chunks, but what
\* comes through is in order and ends with the chunk published last: the
\* screen settles on the present, unless a queue's length of ended sessions
\* push their last chunks between it (session.go: attachClient and
\* publishOutput under s.mu; client.go: push).
Seamless ==
  \A c \in Clients, s \in Sessions : Watching(c, s) =>
    LET chunks == Coming(seen[c], queue[c], req[c])
    IN  /\ InOrder(seen[c], queue[c], req[c]) /\ chunks \subseteq 1..out[s]
        /\ ~lost[c] => chunks = (base[c] + 1)..out[s]
        /\ out[s] > 0 /\ Cardinality(Leftovers(c, s)) < QueueCap => out[s] \in chunks

\* Between two requests a connection is registered with the session curID
\* names, and with no other that is still mapped; a connection that is gone
\* with none (handler.go: create, attach, detach and the end of ServeWS).
OneSession ==
  \A c \in Clients, s \in sessions :
    pc[c] \in {"read", "forget", "done"} =>
      (attached[s][c] # 0 <=> cur[c] = s /\ pc[c] = "read")

\* Both: a page has all the output of the session it shows, and of no other.
NothingMissing == Seamless /\ OneSession

\* The limits of a session go back once, and never while its shell can run or
\* a page may still be waiting for its exit frame (manager.go, watchExit).
LimitsReleasedLast ==
  \A s \in Sessions :
    /\ released[s] <= 1
    /\ released[s] = 1 => proc[s] # "up" /\ s \notin sessions /\ pc[s] = "done"

AtRest ==
  /\ \A s \in Sessions : pc[s] \in {"none", "done"} \/ (pc[s] = "watch" /\ proc[s] = "up")
  /\ \A c \in Clients : pc[c] \in {"read", "done"}

\* At rest no page shows a session that is gone, but for one case: the shell
\* it created ended, and its exit frame was written before the session frame
\* of the create (manager.go, Create and watchExit; attach looks once more).
NoDeadScreen ==
  AtRest => \A c \in Clients :
    conn[c] = "open" /\ active[c] # None => active[c] \in sessions \/ c \in early

\* At rest a page's list of sessions is the list there is, unless the last one
\* written to it was out of date when it was written: two broadcasts crossed
\* (manager.go and handler.go: whoever changes m.sessions broadcasts).
ListTrueUnlessCrossed ==
  AtRest => \A c \in Clients :
    conn[c] = "open" /\ listed[c].current => listed[c].ids = sessions

\* What the end of a session leaves behind: its limits go back after everything
\* else, and once nothing moves what the pages say of the sessions is true.
EndedForEveryone == LimitsReleasedLast /\ NoDeadScreen /\ ListTrueUnlessCrossed

\* A session that was told to end does: its shell goes, everybody is told and
\* the limits go back, though the shell may ignore the first signal and a
\* connection may have broken without a word (session.go, kill).
KilledSessionEnds == \A s \in Sessions : grace[s] ~> pc[s] = "done"

=============================================================================
