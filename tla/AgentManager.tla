---------------------------- MODULE AgentManager ----------------------------
(***************************************************************************)
(* The life of one agent session in internal/agent/manager.go: the user    *)
(* messages sent to it or queued behind a running turn, the goroutines     *)
(* that release the queue, the chain of processes (a liveSession each)     *)
(* that serve it, and the subscribers of its events.                       *)
(*                                                                         *)
(* One step is one critical section (m.mu, ls.mu, queueMu, one SQL         *)
(* statement or transaction) or one call into the driver: between two of   *)
(* them any other goroutine may run.  A liveSession is named by its        *)
(* generation, a number in 1..MaxGen; 0 stands for nil.                    *)
(***************************************************************************)
EXTENDS AgentStore, Sequences

CONSTANTS
  Msgs,        \* texts users send, one HTTP request each (never sent twice)
  Releasers,   \* slots for the releaseQueued goroutines alive at one time
  Subs,        \* WebSocket subscribers
  Setters,     \* POST /settings requests, each with one change to save
  None,        \* no message
  LiveApply,   \* TRUE: ApplySettings works on a running process (codex)
  EvCap,       \* capacity of a driver's events channel (128 in the code)
  MaxGen,      \* bound: processes ever started
  MaxTurns,    \* bound: turns a process starts by itself (background tasks)
  MaxCrashes,  \* bound: deaths of processes (crash or POST /kill)
  MaxRestarts, \* bound: restarts of the whole server
  MaxFaults    \* bound: failures of spawn, INSERT or PopQueued

ASSUME ManagerAssumption ==
  /\ None \notin Msgs
  /\ Msgs \cap Releasers = {}
  /\ LiveApply \in BOOLEAN
  /\ EvCap \in Nat \ {0}
  /\ MaxGen \in Nat \ {0}
  /\ MaxTurns \in Nat /\ MaxCrashes \in Nat
  /\ MaxRestarts \in Nat /\ MaxFaults \in Nat

Gens    == 1..MaxGen
Threads == Msgs \cup Releasers

VARIABLES
  \* --- the database
  queue,       \* agent_queue: rows [id, msg]
  timeline,    \* agent_messages: the user messages, in seq order
  status,      \* agent_sessions.status
  saved,       \* agent_sessions settings: number of the latest change saved
  \* --- Manager and its liveSessions
  sess,        \* m.sessions[id]
  slot,        \* ls.state, the slot that Enqueue and releaseQueued claim
  stale,       \* ls.stale
  superseded,  \* ls.superseded
  subs,        \* ls.subscribers
  pump,        \* where the pump goroutine of ls stands
  event,       \* the status event that pump is handling
  \* --- the drivers (one process each)
  used,        \* processes started so far
  proc,        \* "none", "up", "dying" (killed, not reaped), "down" (reaped)
  turn,        \* driver.running: a turn is in progress
  evq,         \* driver.events: status events not yet read by pump
  applied,     \* settings the process runs with
  \* --- goroutines of requests and releases
  pc,          \* next step of a thread
  ls,          \* Send's local ls
  carry,       \* the message a thread has in its hands, not yet stored
  owner,       \* releaseQueued's parameter ls
  sent,        \* releaseQueued's local sent
  spc,         \* next step of a subscriber's Subscribe call
  sls,         \* its local ls
  tpc,         \* next step of a settings request
  tls,         \* its local ls
  moved,       \* restart's local subs, per thread
  \* --- what users were told
  ticket,      \* the queue id the answer to Enqueue gave for a message
  cancelled,   \* messages CancelQueued deleted
  cancels,     \* messages whose sender asked to cancel them
  refused,     \* messages whose request failed before they were stored
  dropped,     \* queued messages whose release failed before they were stored
  late,        \* messages queued while no turn held the slot
  gone,        \* subscribers that were sent an exit event
  overtaken,   \* subscribers added to a liveSession no longer mapped
  crossed,     \* settings requests applied to one no longer mapped, or while
               \* a new process was being started
  \* --- spent bounds
  turns, crashes, restarts, faults

db      == <<queue, timeline, status, saved>>
live    == <<sess, slot, stale, superseded, subs, pump, event>>
drivers == <<used, proc, turn, evq, applied>>
threads == <<pc, ls, carry, owner, sent, moved>>
clients == <<spc, sls, tpc, tls>>
told    == <<ticket, cancelled, cancels, refused, dropped, late, gone,
             overtaken, crossed>>
bounds  == <<turns, crashes, restarts, faults>>
vars    == <<db, live, drivers, threads, clients, told, bounds>>

(***************************************************************************)
(* The session right after Create, or after a server start that found it   *)
(* in the database (MarkDead) with nothing running.                        *)
(***************************************************************************)
InitWith(up) ==
  /\ queue = {} /\ timeline = <<>> /\ saved = 0
  /\ status = IF up THEN "idle" ELSE "dead"
  /\ sess = IF up THEN 1 ELSE 0
  /\ slot = [g \in Gens |-> "idle"]
  /\ stale = [g \in Gens |-> FALSE]
  /\ superseded = [g \in Gens |-> FALSE]
  /\ subs = [g \in Gens |-> {}]
  /\ pump = [g \in Gens |-> IF up /\ g = 1 THEN "read" ELSE "none"]
  /\ event = [g \in Gens |-> "idle"]
  /\ used = IF up THEN 1 ELSE 0
  /\ proc = [g \in Gens |-> IF up /\ g = 1 THEN "up" ELSE "none"]
  /\ turn = [g \in Gens |-> FALSE]
  /\ evq = [g \in Gens |-> <<>>]
  /\ applied = [g \in Gens |-> 0]
  /\ pc = [t \in Threads |-> "free"]
  /\ ls = [t \in Threads |-> 0]
  /\ carry = [t \in Threads |-> None]
  /\ owner = [r \in Releasers |-> 0]
  /\ sent = [r \in Releasers |-> FALSE]
  /\ moved = [t \in Threads |-> {}]
  /\ spc = [s \in Subs |-> "free"] /\ sls = [s \in Subs |-> 0]
  /\ tpc = [x \in Setters |-> "free"] /\ tls = [x \in Setters |-> 0]
  /\ ticket = [m \in Msgs |-> 0]
  /\ cancelled = {} /\ cancels = {} /\ refused = {} /\ dropped = {}
  /\ late = {} /\ gone = {} /\ overtaken = {} /\ crossed = {}
  /\ turns = 0 /\ crashes = 0 /\ restarts = 0 /\ faults = 0

Init == InitWith(TRUE) \/ InitWith(FALSE)

(***************************************************************************)
(* The driver, as the Driver interface promises it.  emit drops an event   *)
(* when the channel is full.                                               *)
(***************************************************************************)
Emit(g, state) ==
  evq' = IF Len(evq[g]) < EvCap THEN [evq EXCEPT ![g] = Append(@, state)]
                                ELSE evq

\* markRunning: one running event per turn.
BeginTurn(g) ==
  IF turn[g] THEN UNCHANGED <<turn, evq>>
             ELSE turn' = [turn EXCEPT ![g] = TRUE] /\ Emit(g, "running")

\* Close (and Kill) of a process: it is killed, WaitExit follows.
CloseForgotten(g) == UNCHANGED proc
Close(g) == proc' = [proc EXCEPT ![g] = IF @ = "up" THEN "dying" ELSE @]

\* Send of the driver answers: a live process takes the text, a reaped one is
\* an error, and a dying one may be either.
AnswersOnlyIfUp(g, ok) == ok /\ proc[g] = "up"
Answers(g, ok) == /\ ok => proc[g] \in {"up", "dying"}
                  /\ ~ok => proc[g] \in {"dying", "down"}

\* ApplySettings: codex takes new settings, the others make the session stale.
AppliesNothing(g) == UNCHANGED <<applied, stale>>
ApplySettings(g) ==
  IF LiveApply
  THEN applied' = [applied EXCEPT ![g] = saved] /\ UNCHANGED stale
  ELSE stale' = [stale EXCEPT ![g] = TRUE] /\ UNCHANGED applied

\* The turn ends: the result line of the process has been read.
TurnEnd(g) ==
  /\ proc[g] \in {"up", "dying"} /\ turn[g]
  /\ turn' = [turn EXCEPT ![g] = FALSE] /\ Emit(g, "idle")
  /\ UNCHANGED <<db, live, used, proc, applied, threads, clients, told, bounds>>

\* The process starts a turn nobody asked for (a background task ended).
SelfTurn(g) ==
  /\ proc[g] = "up" /\ ~turn[g] /\ turns < MaxTurns
  /\ BeginTurn(g) /\ turns' = turns + 1
  /\ UNCHANGED <<db, live, used, proc, applied, threads, clients, told,
                 crashes, restarts, faults>>

\* The process dies: a crash, or Kill (driver.Close of the mapped session).
Crash(g) ==
  /\ proc[g] = "up" /\ crashes < MaxCrashes
  /\ Close(g) /\ crashes' = crashes + 1
  /\ UNCHANGED <<db, live, used, turn, evq, applied, threads, clients, told,
                 turns, restarts, faults>>

\* waitExit: stdin becomes nil and the events channel is closed.
WaitExit(g) ==
  /\ proc[g] = "dying"
  /\ proc' = [proc EXCEPT ![g] = "down"]
  /\ UNCHANGED <<db, live, used, turn, evq, applied, threads, clients, told,
                 bounds>>

(***************************************************************************)
(* What the Manager does to a liveSession in several places.  The operator *)
(* before each is that definition with a fault the checks must notice.     *)
(***************************************************************************)
Goto(t, step) == pc' = [pc EXCEPT ![t] = step]
Hold(t, g)    == ls'  = [ls EXCEPT ![t] = g]

\* go m.releaseQueued(ls)
ReleaseNever(g) == UNCHANGED <<pc, owner, sent>>
StartRelease(g) ==
  \E r \in Releasers :
    /\ pc[r] = "free"
    /\ Goto(r, "claim")
    /\ owner' = [owner EXCEPT ![r] = g]
    /\ sent' = [sent EXCEPT ![r] = FALSE]

\* ls.state = StatusIdle, if it is running: it is whenever this is called.
KeepSlot(g) == UNCHANGED slot
FreeSlot(g) == slot' = [slot EXCEPT ![g] = "idle"]

\* delete(m.sessions, ls.id), whichever liveSession is mapped.
StayMapped == UNCHANGED sess
Unmap      == sess' = 0

\* ls.subscribers[s] for every s in S, under ls.mu.
AddNobody(g, S)      == UNCHANGED subs
AddSubscribers(g, S) == subs' = [subs EXCEPT ![g] = @ \cup S]

\* PopQueued: the row is deleted in the transaction that selected it.
PopWithoutDelete(row) == UNCHANGED queue
PopRow(row)           == queue' = queue \ {row}

\* What a restart of the server finds in the database.
QueueInMemory == queue' = {} /\ UNCHANGED <<timeline, saved>>
DatabaseKept  == UNCHANGED <<queue, timeline, saved>>

(***************************************************************************)
(* The event pump of generation g.                                         *)
(***************************************************************************)
PumpRead(g) ==
  /\ pump[g] = "read" /\ evq[g] # <<>>
  /\ evq' = [evq EXCEPT ![g] = Tail(@)]
  /\ event' = [event EXCEPT ![g] = Head(evq[g])]
  /\ slot' = [slot EXCEPT ![g] = Head(evq[g])]
  /\ pump' = [pump EXCEPT ![g] = "store"]
  /\ UNCHANGED <<db, sess, stale, superseded, subs, used, proc, turn, applied,
                 threads, clients, told, bounds>>

\* append of the status event and, when it says idle, go releaseQueued(ls).
PumpStore(g) ==
  /\ pump[g] = "store"
  /\ pump' = [pump EXCEPT ![g] = "read"]
  /\ status' = event[g]
  /\ IF event[g] = "idle"
     THEN StartRelease(g)
     ELSE UNCHANGED <<pc, owner, sent>>
  /\ UNCHANGED <<queue, timeline, saved, sess, slot, stale, superseded, subs,
                 event, drivers, ls, carry, moved, clients, told, bounds>>

\* append failed: the event is skipped, and with it the release.
PumpStoreFails(g) ==
  /\ pump[g] = "store" /\ faults < MaxFaults
  /\ faults' = faults + 1
  /\ pump' = [pump EXCEPT ![g] = "read"]
  /\ UNCHANGED <<db, sess, slot, stale, superseded, subs, event, drivers,
                 threads, clients, told, turns, crashes, restarts>>

\* The channel is closed and drained: superseded is read under ls.mu.
PumpClosed(g) ==
  /\ pump[g] = "read" /\ evq[g] = <<>> /\ proc[g] = "down"
  /\ pump' = [pump EXCEPT ![g] = IF superseded[g] THEN "done" ELSE "mark"]
  /\ UNCHANGED <<db, sess, slot, stale, superseded, subs, event, drivers,
                 threads, clients, told, bounds>>

PumpMarkDead(g) ==
  /\ pump[g] = "mark"
  /\ pump' = [pump EXCEPT ![g] = "unmap"]
  /\ status' = "dead"
  /\ UNCHANGED <<queue, timeline, saved, sess, slot, stale, superseded, subs,
                 event, drivers, threads, clients, told, bounds>>

\* The session is unmapped, and the subscribers of this liveSession are sent
\* the exit event.
PumpUnmap(g) ==
  /\ pump[g] = "unmap"
  /\ pump' = [pump EXCEPT ![g] = "done"]
  /\ Unmap
  /\ gone' = gone \cup subs[g]
  /\ UNCHANGED <<db, slot, stale, superseded, subs, event, drivers, threads,
                 clients, ticket, cancelled, cancels, refused, dropped, late,
                 overtaken, crossed, bounds>>

(***************************************************************************)
(* Send, for a request thread or a releaser t that carries a message.      *)
(***************************************************************************)
\* Send returns an error before the message is stored.
SendFails(t) ==
  /\ Goto(t, IF t \in Releasers THEN "free" ELSE "done")
  /\ carry' = [carry EXCEPT ![t] = None]
  /\ moved' = [moved EXCEPT ![t] = {}]
  /\ IF t \in Releasers
     THEN dropped' = dropped \cup {carry[t]} /\ UNCHANGED refused
     ELSE refused' = refused \cup {carry[t]} /\ UNCHANGED dropped
  /\ UNCHANGED <<ls, owner, sent, ticket, cancelled, cancels, late, gone,
                 overtaken, crossed>>


SendGet(t) ==
  /\ pc[t] = "send"
  /\ Goto(t, IF sess = 0 THEN "revive" ELSE "stale?") /\ Hold(t, sess)
  /\ UNCHANGED <<db, live, drivers, carry, owner, sent, moved, clients, told,
                 bounds>>

SendCheckStale(t) ==
  /\ pc[t] = "stale?"
  /\ Goto(t, IF stale[ls[t]] THEN "restart" ELSE "append")
  /\ UNCHANGED <<db, live, drivers, ls, carry, owner, sent, moved, clients,
                 told, bounds>>

\* restart: the old liveSession is taken out under m.mu, or another request
\* has done so already.
Restart(t) ==
  /\ pc[t] = "restart"
  /\ IF sess = ls[t]
     THEN /\ superseded' = [superseded EXCEPT ![sess] = TRUE]
          /\ moved' = [moved EXCEPT ![t] = subs[sess]]
          /\ subs' = [subs EXCEPT ![sess] = {}]
          /\ Close(sess) /\ Unmap
          /\ Goto(t, "spawn") /\ UNCHANGED ls
     ELSE /\ Goto(t, IF sess = 0 THEN "revive" ELSE "append") /\ Hold(t, sess)
          /\ UNCHANGED <<superseded, moved, subs, proc, sess>>
  /\ UNCHANGED <<db, slot, stale, pump, event, used, turn, evq, applied, carry,
                 owner, sent, clients, told, bounds>>

Revive(t) ==
  /\ pc[t] = "revive"
  /\ Goto(t, IF sess = 0 THEN "spawn" ELSE "append") /\ Hold(t, sess)
  /\ UNCHANGED <<db, live, drivers, carry, owner, sent, moved, clients, told,
                 bounds>>

\* spawn: the settings are read from the database, then the process starts.
Spawn(t) ==
  /\ pc[t] = "spawn" /\ used < MaxGen
  /\ used' = used + 1
  /\ proc' = [proc EXCEPT ![used'] = "up"]
  /\ applied' = [applied EXCEPT ![used'] = saved]
  /\ Goto(t, "register") /\ Hold(t, used')
  /\ UNCHANGED <<db, live, turn, evq, carry, owner, sent, moved, clients, told,
                 bounds>>

SpawnFails(t) ==
  /\ pc[t] = "spawn" /\ faults < MaxFaults
  /\ faults' = faults + 1
  /\ SendFails(t)
  /\ UNCHANGED <<db, live, drivers, clients, turns, crashes, restarts>>

\* register: the first of two concurrent spawns is mapped, the later one is
\* closed and the mapped one is used in its place.
Register(t) ==
  /\ pc[t] = "register"
  /\ IF sess = 0
     THEN /\ sess' = ls[t] /\ Goto(t, "start") /\ UNCHANGED <<ls, proc>>
     ELSE /\ Close(ls[t])
          /\ Hold(t, sess) /\ Goto(t, "attach") /\ UNCHANGED sess
  /\ UNCHANGED <<db, slot, stale, superseded, subs, pump, event, used, turn,
                 evq, applied, carry, owner, sent, moved, clients, told, bounds>>

\* SetStatus(idle), reconcilePending, go pump.
StartPump(t) ==
  /\ pc[t] = "start"
  /\ status' = "idle"
  /\ pump' = [pump EXCEPT ![ls[t]] = "read"]
  /\ Goto(t, "attach")
  /\ UNCHANGED <<queue, timeline, saved, sess, slot, stale, superseded, subs,
                 event, drivers, ls, carry, owner, sent, moved, clients, told,
                 bounds>>

\* restart hands the subscribers of the old liveSession to the new one.
Attach(t) ==
  /\ pc[t] = "attach"
  /\ AddSubscribers(ls[t], moved[t])
  /\ moved' = [moved EXCEPT ![t] = {}]
  /\ overtaken' = IF sess = ls[t] THEN overtaken ELSE overtaken \cup moved[t]
  /\ Goto(t, "append")
  /\ UNCHANGED <<db, sess, slot, stale, superseded, pump, event, drivers, ls,
                 carry, owner, sent, clients, ticket, cancelled, cancels,
                 refused, dropped, late, gone, crossed, bounds>>

AppendUser(t) ==
  /\ pc[t] = "append"
  /\ timeline' = Append(timeline, carry[t])
  /\ carry' = [carry EXCEPT ![t] = None]
  /\ Goto(t, "write")
  /\ UNCHANGED <<queue, status, saved, live, drivers, ls, owner, sent, moved,
                 clients, told, bounds>>

AppendUserFails(t) ==
  /\ pc[t] = "append" /\ faults < MaxFaults
  /\ faults' = faults + 1
  /\ SendFails(t)
  /\ UNCHANGED <<db, live, drivers, clients, turns, crashes, restarts>>

\* driver.Send: the turn is marked running, unless the process is reaped, before
\* the text is written.
WriteDriver(t) ==
  /\ pc[t] = "write"
  /\ \E ok \in BOOLEAN :
       /\ Answers(ls[t], ok)
       /\ IF proc[ls[t]] = "down" THEN UNCHANGED <<turn, evq>>
                                  ELSE BeginTurn(ls[t])
       /\ IF t \in Releasers
          THEN /\ Goto(t, IF ok THEN "pop" ELSE "free")
               /\ sent' = [sent EXCEPT ![t] = TRUE]
          ELSE Goto(t, "done") /\ UNCHANGED sent
  /\ UNCHANGED <<db, live, used, proc, applied, ls, carry, owner, moved,
                 clients, told, bounds>>

Send(t) ==
  \/ SendGet(t) \/ SendCheckStale(t) \/ Restart(t) \/ Revive(t)
  \/ Spawn(t) \/ SpawnFails(t) \/ Register(t) \/ StartPump(t) \/ Attach(t)
  \/ AppendUser(t) \/ AppendUserFails(t) \/ WriteDriver(t)

(***************************************************************************)
(* The requests of users: POST /messages, POST /queue, DELETE /queue/{id}. *)
(***************************************************************************)
RequestSend(m) ==
  /\ pc[m] = "free"
  /\ Goto(m, "send")
  /\ carry' = [carry EXCEPT ![m] = m]
  /\ UNCHANGED <<db, live, drivers, ls, owner, sent, moved, clients, told,
                 bounds>>

\* Enqueue: the first m.get.
RequestEnqueue(m) ==
  /\ pc[m] = "free"
  /\ Goto(m, IF sess = 0 THEN "insert" ELSE "claim") /\ Hold(m, sess)
  /\ carry' = [carry EXCEPT ![m] = m]
  /\ UNCHANGED <<db, live, drivers, owner, sent, moved, clients, told, bounds>>

\* An idle slot is claimed and the message sent directly.
EnqueueClaim(m) ==
  /\ pc[m] = "claim"
  /\ slot' = [slot EXCEPT ![ls[m]] = "running"]
  /\ Goto(m, IF slot[ls[m]] = "idle" THEN "send" ELSE "insert")
  /\ UNCHANGED <<db, sess, stale, superseded, subs, pump, event, drivers, ls,
                 carry, owner, sent, moved, clients, told, bounds>>

EnqueueInsert(m) ==
  /\ pc[m] = "insert"
  /\ queue' = queue \cup {[id |-> NextQueueId(queue), msg |-> m]}
  /\ ticket' = [ticket EXCEPT ![m] = NextQueueId(queue)]
  /\ late' = IF sess # 0 /\ slot[sess] = "running" /\ turn[sess]
             THEN late ELSE late \cup {m}
  /\ carry' = [carry EXCEPT ![m] = None]
  /\ Goto(m, "done")
  /\ UNCHANGED <<timeline, status, saved, live, drivers, ls, owner, sent,
                 moved, clients, cancelled, cancels, refused, dropped, gone,
                 overtaken, crossed, bounds>>

EnqueueFails(m) ==
  /\ pc[m] = "insert" /\ faults < MaxFaults
  /\ faults' = faults + 1
  /\ SendFails(m)
  /\ UNCHANGED <<db, live, drivers, clients, turns, crashes, restarts>>

\* A client cancels the message it queued, by the id it was given.
CancelQueued(m) ==
  /\ ticket[m] # 0 /\ m \notin cancels
  /\ cancels' = cancels \cup {m}
  /\ queue' = queue \ RowsWithId(queue, ticket[m])
  /\ cancelled' = cancelled \cup {row.msg : row \in RowsWithId(queue, ticket[m])}
  /\ UNCHANGED <<timeline, status, saved, live, drivers, threads, clients,
                 ticket, refused, dropped, late, gone, overtaken, crossed, bounds>>

(***************************************************************************)
(* releaseQueued(owner[r]).                                                *)
(***************************************************************************)
ReleaseClaim(r) ==
  /\ pc[r] = "claim"
  /\ slot' = [slot EXCEPT ![owner[r]] = "running"]
  /\ Goto(r, IF slot[owner[r]] = "idle" THEN "look" ELSE "free")
  /\ UNCHANGED <<db, sess, stale, superseded, subs, pump, event, drivers, ls,
                 carry, owner, sent, moved, clients, told, bounds>>

ReleaseLook(r) ==
  /\ pc[r] = "look"
  /\ Goto(r, IF sess = 0 THEN "giveback" ELSE "pop")
  /\ UNCHANGED <<db, live, drivers, ls, carry, owner, sent, moved, clients,
                 told, bounds>>

ReleaseGiveBack(r) ==
  /\ pc[r] = "giveback"
  /\ FreeSlot(owner[r])
  /\ Goto(r, "free")
  /\ UNCHANGED <<db, sess, stale, superseded, subs, pump, event, drivers, ls,
                 carry, owner, sent, moved, clients, told, bounds>>

\* PopQueued takes the oldest row and deletes it in one transaction.
ReleasePop(r) ==
  /\ pc[r] = "pop"
  /\ \E row \in OldestRows(queue) :
       /\ PopRow(row)
       /\ carry' = [carry EXCEPT ![r] = row.msg]
  /\ Goto(r, "send")
  /\ UNCHANGED <<timeline, status, saved, live, drivers, ls, owner, sent,
                 moved, clients, told, bounds>>

\* The queue is empty: the slot is given back if nothing was sent.
ReleaseEmpty(r) ==
  /\ pc[r] = "pop" /\ queue = {}
  /\ Goto(r, IF sent[r] THEN "free" ELSE "giveback")
  /\ UNCHANGED <<db, live, drivers, ls, carry, owner, sent, moved, clients,
                 told, bounds>>

\* PopQueued failed: treated as an empty queue.
ReleasePopFails(r) ==
  /\ pc[r] = "pop" /\ faults < MaxFaults
  /\ faults' = faults + 1
  /\ Goto(r, IF sent[r] THEN "free" ELSE "giveback")
  /\ UNCHANGED <<db, live, drivers, ls, carry, owner, sent, moved, clients,
                 told, turns, crashes, restarts>>

Release(r) ==
  \/ ReleaseClaim(r) \/ ReleaseLook(r) \/ ReleaseGiveBack(r)
  \/ ReleasePop(r) \/ ReleaseEmpty(r) \/ ReleasePopFails(r)

(***************************************************************************)
(* Subscribe: m.get, then the set of the liveSession under ls.mu.          *)
(***************************************************************************)
SubscribeGet(s) ==
  /\ spc[s] = "free" /\ sess # 0
  /\ spc' = [spc EXCEPT ![s] = "add"] /\ sls' = [sls EXCEPT ![s] = sess]
  /\ UNCHANGED <<db, live, drivers, threads, tpc, tls, told, bounds>>

SubscribeAdd(s) ==
  /\ spc[s] = "add"
  /\ AddSubscribers(sls[s], {s})
  /\ spc' = [spc EXCEPT ![s] = "on"]
  /\ overtaken' = IF sess = sls[s] THEN overtaken ELSE overtaken \cup {s}
  /\ UNCHANGED <<db, sess, slot, stale, superseded, pump, event, drivers,
                 threads, sls, tpc, tls, ticket, cancelled, cancels, refused,
                 dropped, late, gone, crossed, bounds>>

(***************************************************************************)
(* Settings: m.get, SetSettings, ApplySettings and, when the process       *)
(* cannot take them while it runs, ls.stale.                               *)
(***************************************************************************)
SettingsGet(x) ==
  /\ tpc[x] = "free" /\ sess # 0
  /\ tpc' = [tpc EXCEPT ![x] = "save"] /\ tls' = [tls EXCEPT ![x] = sess]
  /\ UNCHANGED <<db, live, drivers, threads, spc, sls, told, bounds>>

SettingsSave(x) ==
  /\ tpc[x] = "save"
  /\ saved' = saved + 1
  /\ tpc' = [tpc EXCEPT ![x] = "apply"]
  /\ UNCHANGED <<queue, timeline, status, live, drivers, threads, spc, sls,
                 tls, told, bounds>>

SettingsApply(x) ==
  /\ tpc[x] = "apply"
  /\ ApplySettings(tls[x])
  /\ tpc' = [tpc EXCEPT ![x] = "done"]
  /\ crossed' = IF sess = tls[x] /\ \A t \in Threads : pc[t] # "register"
                THEN crossed ELSE crossed \cup {x}
  /\ UNCHANGED <<db, sess, slot, superseded, subs, pump, event, used, proc,
                 turn, evq, threads, spc, sls, tls, ticket, cancelled, cancels,
                 refused, dropped, late, gone, overtaken, bounds>>

(***************************************************************************)
(* The server stops and starts again: memory and processes are gone, the   *)
(* database stays, NewManager calls MarkDead.  The clients of requests in  *)
(* flight get a connection error.                                          *)
(***************************************************************************)
ServerRestart ==
  /\ restarts < MaxRestarts /\ restarts' = restarts + 1
  /\ DatabaseKept /\ status' = "dead" /\ sess' = 0
  /\ pump' = [g \in Gens |-> IF pump[g] = "none" THEN "none" ELSE "done"]
  /\ proc' = [g \in Gens |-> IF proc[g] = "none" THEN "none" ELSE "down"]
  /\ turn' = [g \in Gens |-> FALSE] /\ evq' = [g \in Gens |-> <<>>]
  /\ slot' = [g \in Gens |-> "idle"] /\ stale' = [g \in Gens |-> FALSE]
  /\ subs' = [g \in Gens |-> {}] /\ gone' = gone \cup {s \in Subs : spc[s] # "free"}
  /\ pc' = [t \in Threads |-> IF t \in Msgs /\ pc[t] # "free" THEN "done" ELSE "free"]
  /\ carry' = [t \in Threads |-> None]
  /\ moved' = [t \in Threads |-> {}]
  /\ spc' = [s \in Subs |-> IF spc[s] = "free" THEN "free" ELSE "on"]
  /\ tpc' = [x \in Setters |-> IF tpc[x] = "free" THEN "free" ELSE "done"]
  /\ refused' = refused \cup ({carry[m] : m \in Msgs} \ {None})
  /\ dropped' = dropped \cup ({carry[r] : r \in Releasers} \ {None})
  /\ UNCHANGED <<superseded, event, used, applied, ls,
                 owner, sent, sls, tls, ticket, cancelled, cancels, late,
                 overtaken, crossed, turns, crashes, faults>>

-----------------------------------------------------------------------------
Driver(g)  == TurnEnd(g) \/ SelfTurn(g) \/ Crash(g) \/ WaitExit(g)
Pump(g)    == \/ PumpRead(g) \/ PumpStore(g) \/ PumpStoreFails(g)
              \/ PumpClosed(g) \/ PumpMarkDead(g) \/ PumpUnmap(g)
Request(m) == \/ RequestSend(m) \/ RequestEnqueue(m) \/ EnqueueClaim(m)
              \/ EnqueueInsert(m) \/ EnqueueFails(m) \/ CancelQueued(m)
Subscribe(s) == SubscribeGet(s) \/ SubscribeAdd(s)
Settings(x)  == SettingsGet(x) \/ SettingsSave(x) \/ SettingsApply(x)

Next ==
  \/ \E g \in Gens : Driver(g) \/ Pump(g)
  \/ \E m \in Msgs : Request(m)
  \/ \E r \in Releasers : Release(r)
  \/ \E t \in Threads : Send(t)
  \/ \E s \in Subs : Subscribe(s)
  \/ \E x \in Setters : Settings(x)
  \/ ServerRestart

Spec == Init /\ [][Next]_vars

(***************************************************************************)
(* The Go scheduler runs every goroutine that can run, a turn of the CLI   *)
(* ends and a killed process is reaped.  Users, crashes and failures owe   *)
(* nothing.                                                                *)
(***************************************************************************)
FairSpec ==
  /\ Spec
  /\ \A g \in Gens : WF_vars(Pump(g)) /\ WF_vars(TurnEnd(g)) /\ WF_vars(WaitExit(g))
  /\ \A t \in Threads : WF_vars(Send(t))
  /\ \A m \in Msgs : WF_vars(EnqueueClaim(m) \/ EnqueueInsert(m))
  /\ \A r \in Releasers : WF_vars(Release(r))
-----------------------------------------------------------------------------
(***************************************************************************)
(* Properties.                                                             *)
(***************************************************************************)
Steps == {"free", "send", "stale?", "restart", "revive", "spawn", "register",
          "start", "attach", "append", "write", "claim", "insert", "look",
          "pop", "giveback", "done"}
Rows  == [id : Nat \ {0}, msg : Msgs]

DbOK ==
  /\ queue \subseteq Rows /\ timeline \in Seq(Msgs) /\ saved \in Nat
  /\ status \in {"idle", "running", "dead"}

LiveOK ==
  /\ sess \in 0..MaxGen
  /\ slot \in [Gens -> {"idle", "running"}]
  /\ stale \in [Gens -> BOOLEAN] /\ superseded \in [Gens -> BOOLEAN]
  /\ subs \in [Gens -> SUBSET Subs]
  /\ pump \in [Gens -> {"none", "read", "store", "mark", "unmap", "done"}]
  /\ event \in [Gens -> {"idle", "running"}]

DriversOK ==
  /\ used \in 0..MaxGen
  /\ proc \in [Gens -> {"none", "up", "dying", "down"}]
  /\ turn \in [Gens -> BOOLEAN]
  /\ evq \in [Gens -> Seq({"idle", "running"})]
  /\ applied \in [Gens -> Nat]

ThreadsOK ==
  /\ pc \in [Threads -> Steps] /\ ls \in [Threads -> 0..MaxGen]
  /\ carry \in [Threads -> Msgs \cup {None}]
  /\ owner \in [Releasers -> 0..MaxGen] /\ sent \in [Releasers -> BOOLEAN]
  /\ moved \in [Threads -> SUBSET Subs]

ClientsOK ==
  /\ spc \in [Subs -> {"free", "add", "on"}] /\ sls \in [Subs -> 0..MaxGen]
  /\ tpc \in [Setters -> {"free", "save", "apply", "done"}]
  /\ tls \in [Setters -> 0..MaxGen]

ToldOK ==
  /\ ticket \in [Msgs -> Nat]
  /\ cancelled \subseteq Msgs /\ cancels \subseteq Msgs /\ late \subseteq Msgs
  /\ refused \subseteq Msgs /\ dropped \subseteq Msgs
  /\ gone \subseteq Subs /\ overtaken \subseteq Subs /\ crossed \subseteq Setters

BoundsOK ==
  /\ turns \in 0..MaxTurns /\ crashes \in 0..MaxCrashes
  /\ restarts \in 0..MaxRestarts /\ faults \in 0..MaxFaults

\* Every variable has its type: above all every key of the queue is a
\* positive number (store.go, Enqueue), and what goroutines carry are messages.
TypeOK ==
  /\ DbOK /\ LiveOK /\ DriversOK /\ ThreadsOK /\ ClientsOK /\ ToldOK /\ BoundsOK

Stored  == {timeline[i] : i \in DOMAIN timeline}
Queued  == {row.msg : row \in queue}
Carried == {carry[t] : t \in Threads} \ {None}
Settled == cancelled \cup refused \cup dropped

\* No message is delivered twice: none is twice in the timeline, in the
\* queue or in the hands of two goroutines, and none is in two of these
\* places, or still in one after its sender was told it is not (manager.go:
\* Send, Enqueue and releaseQueued against each other and CancelQueued).
AtMostOnce ==
  /\ \A i, j \in DOMAIN timeline : timeline[i] = timeline[j] => i = j
  /\ \A a, b \in queue : a.msg = b.msg => a = b
  /\ \A t, u \in Threads : carry[t] = carry[u] /\ carry[t] # None => t = u
  /\ Stored \cap Queued = {} /\ Stored \cap Carried = {}
  /\ Queued \cap Carried = {} /\ Settled \cap (Stored \cup Queued \cup Carried) = {}

\* Two rows of the queue never have the same id, its primary key (store.go,
\* Enqueue: MAX(id)+1 under queueMu, with rows deleted all the time).
QueueIdsUnique == \A a, b \in queue : a.id = b.id => a = b

\* No message vanishes: once its request is answered it is stored, queued, on
\* its way to the timeline, or its sender was told that it is not.
Accounted ==
  \A m \in Msgs : pc[m] = "done" =>
    m \in Stored \cup Queued \cup Carried \cup Settled


\* A liveSession that restart has replaced is not mapped again.
SupersededUnmapped == sess # 0 => ~superseded[sess]

\* No goroutine is in the middle of anything and nothing waits in a channel.
AtRest ==
  /\ \A t \in Threads : pc[t] \in {"free", "done"}
  /\ \A s \in Subs : spc[s] # "add"
  /\ \A x \in Setters : tpc[x] \in {"free", "done"}
  /\ \A g \in Gens : /\ pump[g] \in {"none", "read", "done"}
                     /\ proc[g] # "dying"
                     /\ pump[g] = "read" => evq[g] = <<>> /\ proc[g] = "up"

\* A slot nobody gave back: at rest the mapped session says running and no
\* turn is in progress, so that everything queued from now on would wait.
SlotNotLeaked ==
  AtRest /\ sess # 0 /\ faults = 0 => (slot[sess] = "running" => turn[sess])

\* At rest, with an idle process, the queue holds only messages that were
\* inserted while the slot was not held by a turn.
StrandedOnlyIfLate ==
  AtRest /\ sess # 0 /\ faults = 0 /\ ~turn[sess] => Queued \subseteq late

\* Every request is answered, whatever the other goroutines do.
EveryRequestAnswered == \A m \in Msgs : pc[m] # "free" ~> pc[m] = "done"

\* A message queued behind a turn leaves the queue, if the session lives on.
QueueDrains ==
  \A m \in Msgs : m \in Queued /\ m \notin late ~> m \notin Queued \/ sess = 0

\* At rest every process that runs is the one the session is mapped to, as
\* long as none has died: of two spawned at once the later one was closed
\* (register), and the one a restart replaces was closed too.
OrphanNeedsCrash ==
  AtRest /\ crashes = 0 => \A g \in Gens : proc[g] = "up" => sess = g

\* At rest the mapped process runs with the settings saved last or is stale,
\* unless a settings request was applied to a liveSession already replaced or
\* while a process that had read the settings before was starting.
SettingsLostOnlyIfCrossed ==
  AtRest /\ sess # 0 /\ crossed = {} => applied[sess] = saved \/ stale[sess]

\* At rest whoever subscribed is subscribed to the mapped liveSession, unless
\* it was told exit or was added, by Subscribe or by restart, to a liveSession
\* already replaced (no process died and no spawn failed).
SubscribersFollowUnlessOvertaken ==
  AtRest /\ sess # 0 /\ crashes = 0 /\ faults = 0 =>
    \A s \in Subs : spc[s] = "on" => s \in subs[sess] \cup gone \cup overtaken

(***************************************************************************)
(* What comments of the code say and the code does not keep.               *)
(***************************************************************************)
\* manager.go and store.go, CancelQueued: an id that is no longer in the queue
\* (released or cancelled) is an error.  Nobody else's message is cancelled.
CancelledByOwner == cancelled \subseteq cancels
=============================================================================
