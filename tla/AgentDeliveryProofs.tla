------------------------- MODULE AgentDeliveryProofs -------------------------
(***************************************************************************)
(* No user message is delivered twice and none vanishes (AtMostOnce,       *)
(* QueueIdsUnique and Accounted of AgentManager), and the slot of the      *)
(* session is given back and its queue drained (SlotNotLeaked and          *)
(* StrandedOnlyIfLate), for any number of messages, goroutines, processes  *)
(* and failures.                                                           *)
(***************************************************************************)
EXTENDS AgentManagerProofs, SequenceTheorems

\* A message is in one of the four places exactly when its request has been
\* made.
Somewhere == Stored \cup Queued \cup Carried \cup Settled
Known == \A m \in Msgs : pc[m] = "free" <=> m \notin Somewhere

\* The inductive invariant: TypeInv says which steps have a message in hand,
\* Known that a request not yet made has left no trace to collide with.
Placed      == AtMostOnce /\ QueueIdsUnique /\ Known
DeliveryInv == TypeInv /\ Placed

\* A step that moves no message.
Still == /\ UNCHANGED <<queue, timeline, carry, cancelled, refused, dropped>>
         /\ \A m \in Msgs : pc'[m] = "free" <=> pc[m] = "free"

-----------------------------------------------------------------------------
\* A step that moves no message keeps the invariant.
LEMMA StillStep ==
  ASSUME DeliveryInv, Still
  PROVE  Placed'
<1>1. Stored' = Stored /\ Queued' = Queued /\ Carried' = Carried /\ Settled' = Settled
  BY DEF Stored, Queued, Carried, Settled, Still
<1> QED
  BY <1>1 DEF Placed, Still, DeliveryInv, AtMostOnce, QueueIdsUnique, Known, Somewhere

\* The sets of a thread's message: who carries it is the only one to do so.
LEMMA PutDown ==
  ASSUME DeliveryInv, NEW t \in Threads, carry[t] # None,
         carry' = [carry EXCEPT ![t] = None]
  PROVE  /\ carry[t] \in Carried /\ Carried' = Carried \ {carry[t]}
         /\ \A u, v \in Threads : carry'[u] = carry'[v] /\ carry'[u] # None => u = v
<1> USE DEF Placed, DeliveryInv, TypeInv, TypeOK, ThreadsOK, AtMostOnce
<1>1. carry[t] \in Carried
  BY DEF Carried
<1>2. \A u \in Threads : carry'[u] = IF u = t THEN None ELSE carry[u]
  OBVIOUS
<1>3. Carried' = Carried \ {carry[t]}
  BY <1>2 DEF Carried
<1> QED
  BY <1>1, <1>2, <1>3

\* Who takes a message that nobody carried is the only one to carry it.
LEMMA PickUp ==
  ASSUME DeliveryInv, NEW t \in Threads, NEW m \in Msgs, carry[t] = None,
         m \notin Carried, carry' = [carry EXCEPT ![t] = m]
  PROVE  /\ Carried' = Carried \cup {m}
         /\ \A u, v \in Threads : carry'[u] = carry'[v] /\ carry'[u] # None => u = v
<1> USE ManagerAssumption DEF Placed, DeliveryInv, TypeInv, TypeOK, ThreadsOK, AtMostOnce
<1>1. \A u \in Threads : carry'[u] = IF u = t THEN m ELSE carry[u]
  OBVIOUS
<1>2. m # None /\ \A u \in Threads : carry[u] # m
  BY DEF Carried
<1>3. Carried' = Carried \cup {m}
  BY <1>1, <1>2 DEF Carried
<1> QED
  BY <1>1, <1>2, <1>3

\* A message whose request is in progress is no longer free, before or after
\* a step of its own thread or of a releaser.
LEMMA FreeKept ==
  ASSUME TypeInv, NEW t \in Threads, NEW step \in Steps \ {"free"}, pc[t] # "free",
         Goto(t, IF t \in Releasers THEN "free" ELSE step) \/ Goto(t, step)
  PROVE  \A m \in Msgs : pc'[m] = "free" <=> pc[m] = "free"
BY ManagerAssumption DEF TypeInv, TypeOK, ThreadsOK, Threads, Goto

\* A thread about to store or to give up a message has one in hand.
LEMMA HeldMessage ==
  ASSUME TypeInv, NEW t \in Threads,
         pc[t] \in SendSteps
  PROVE  carry[t] \in Msgs /\ carry[t] # None
BY ManagerAssumption DEF TypeInv, TypeOK, ThreadsOK, HandsOK, Threads

-----------------------------------------------------------------------------
\* Send stores the message it carries.
LEMMA AppendDelivers ==
  ASSUME DeliveryInv, NEW t \in Threads, AppendUser(t)
  PROVE  Placed'
<1> DEFINE c == carry[t]
<1> USE DEF AppendUser
<1>1. c \in Msgs /\ c # None
  <2>1. TypeInv /\ pc[t] \in SendSteps
    BY DEF DeliveryInv, SendSteps
  <2> QED
    BY <2>1, HeldMessage
<1>2. /\ c \in Carried /\ Carried' = Carried \ {c}
      /\ \A u, v \in Threads : carry'[u] = carry'[v] /\ carry'[u] # None => u = v
  BY <1>1, PutDown
<1>3. timeline \in Seq(Msgs)
  BY DEF DeliveryInv, TypeInv, TypeOK, DbOK
<1>4. Stored' = Stored \cup {c}
  BY <1>1, <1>3 DEF Stored
<1>5. Queued' = Queued /\ Settled' = Settled
  BY DEF Queued, Settled, told
<1>6. c \notin Stored
  BY <1>2 DEF Placed, DeliveryInv, AtMostOnce
<1>7. \A i, j \in DOMAIN timeline' : timeline'[i] = timeline'[j] => i = j
  BY <1>1, <1>3, <1>6 DEF Placed, DeliveryInv, AtMostOnce, Stored
<1>8. \A m \in Msgs : pc'[m] = "free" <=> pc[m] = "free"
  BY FreeKept DEF Steps, DeliveryInv
<1> QED
  BY <1>2, <1>4, <1>5, <1>7, <1>8
  DEF Placed, DeliveryInv, AtMostOnce, QueueIdsUnique, Known, Somewhere

\* A request or a release that fails tells the user so.
LEMMA FailureSettles ==
  ASSUME DeliveryInv, NEW t \in Threads, carry[t] # None, pc[t] # "free",
         SendFails(t), UNCHANGED db
  PROVE  Placed'
<1> DEFINE c == carry[t]
<1>1. /\ c \in Carried /\ Carried' = Carried \ {c}
      /\ \A u, v \in Threads : carry'[u] = carry'[v] /\ carry'[u] # None => u = v
  BY PutDown DEF SendFails
<1>2. Stored' = Stored /\ Queued' = Queued /\ UNCHANGED <<timeline, queue>>
  BY DEF Stored, Queued, db
<1>3. Settled' = Settled \cup {c}
  BY DEF SendFails, Settled
<1>4. \A m \in Msgs : pc'[m] = "free" <=> pc[m] = "free"
  BY FreeKept DEF SendFails, Steps, DeliveryInv
<1> QED
  BY <1>1, <1>2, <1>3, <1>4
  DEF Placed, DeliveryInv, AtMostOnce, QueueIdsUnique, Known, Somewhere

\* A new request takes its message in hand.
LEMMA RequestTakes ==
  ASSUME DeliveryInv, NEW m \in Msgs, RequestSend(m) \/ RequestEnqueue(m)
  PROVE  Placed'
<1>1. /\ pc[m] = "free" /\ carry' = [carry EXCEPT ![m] = m]
      /\ UNCHANGED <<queue, timeline, cancelled, refused, dropped>>
  BY DEF RequestSend, RequestEnqueue, db, told
<1>2. m \in Threads /\ m \notin Somewhere
  BY <1>1 DEF Placed, DeliveryInv, Known, Threads
<1>3. carry[m] = None
  BY <1>1 DEF DeliveryInv, TypeInv, HandsOK, SendSteps
<1>4. /\ Carried' = Carried \cup {m}
      /\ \A u, v \in Threads : carry'[u] = carry'[v] /\ carry'[u] # None => u = v
  BY <1>1, <1>2, <1>3, PickUp DEF Somewhere
<1>5. Stored' = Stored /\ Queued' = Queued /\ Settled' = Settled
  BY <1>1 DEF Stored, Queued, Settled
<1>6. pc' = [pc EXCEPT ![m] = pc'[m]] /\ pc'[m] # "free"
  BY <1>2 DEF RequestSend, RequestEnqueue, Goto, DeliveryInv, TypeInv, TypeOK, ThreadsOK
<1>7. \A other \in Msgs : pc'[other] = "free" <=> pc[other] = "free" /\ other # m
  BY <1>2, <1>6 DEF DeliveryInv, TypeInv, TypeOK, ThreadsOK, Threads
<1> QED
  BY <1>1, <1>2, <1>4, <1>5, <1>7
  DEF Placed, DeliveryInv, AtMostOnce, QueueIdsUnique, Known, Somewhere

\* Enqueue stores the message in the queue, under a key of its own.
LEMMA InsertQueues ==
  ASSUME DeliveryInv, NEW m \in Msgs, EnqueueInsert(m)
  PROVE  Placed'
<1> DEFINE row == [id |-> NextQueueId(queue), msg |-> m]
<1>1. /\ pc[m] = "insert" /\ queue' = queue \cup {row}
      /\ carry' = [carry EXCEPT ![m] = None]
      /\ UNCHANGED <<timeline, cancelled, refused, dropped>>
  BY DEF EnqueueInsert
<1>2. carry[m] = m /\ m # None /\ m \in Threads
  BY <1>1, ManagerAssumption DEF DeliveryInv, TypeInv, HandsOK, Threads
<1>3. /\ m \in Carried /\ Carried' = Carried \ {m}
      /\ \A u, v \in Threads : carry'[u] = carry'[v] /\ carry'[u] # None => u = v
  BY <1>1, <1>2, PutDown
<1>4. Stored' = Stored /\ Settled' = Settled
  BY <1>1 DEF Stored, Settled
<1>5. Queued' = Queued \cup {m}
  <2>1. row.msg = m
    OBVIOUS
  <2> HIDE DEF row
  <2> QED
    BY <1>1, <2>1 DEF Queued
<1>6. \A other \in queue : other.id # row.id /\ other.msg # m
  <2>1. QueueIds(queue) \subseteq Nat
    BY DEF DbOK, Rows, QueueIds, DeliveryInv, TypeInv, TypeOK
  <2>2. \A other \in queue : other.id < NextQueueId(queue)
    BY <2>1, NextKeyAbove DEF DeliveryInv, TypeInv, KeysOK, NextQueueId, QueueIds
  <2>3. \A other \in queue : other.id \in Nat
    BY <2>1 DEF QueueIds
  <2>4. NextQueueId(queue) \in Nat
    BY <2>1, NextKeyAbove DEF DeliveryInv, TypeInv, KeysOK, NextQueueId
  <2>5. m \notin Queued
    BY <1>3 DEF Placed, DeliveryInv, AtMostOnce
  <2> QED
    BY <2>2, <2>3, <2>4, <2>5 DEF Queued
<1>7. \A a, b \in queue' : (a.msg = b.msg => a = b) /\ (a.id = b.id => a = b)
  BY <1>1, <1>6 DEF Placed, DeliveryInv, AtMostOnce, QueueIdsUnique
<1>8. \A other \in Msgs : pc'[other] = "free" <=> pc[other] = "free"
  BY <1>1, <1>2 DEF EnqueueInsert, Goto, DeliveryInv, TypeInv, TypeOK, ThreadsOK, Threads
<1> QED
  BY <1>1, <1>3, <1>4, <1>5, <1>7, <1>8
  DEF Placed, DeliveryInv, AtMostOnce, QueueIdsUnique, Known, Somewhere

\* PopQueued hands the message of a row over to the releaser.
LEMMA PopTakes ==
  ASSUME DeliveryInv, NEW r \in Releasers, ReleasePop(r)
  PROVE  Placed'
<1>1. PICK row \in queue : /\ queue' = queue \ {row}
                           /\ carry' = [carry EXCEPT ![r] = row.msg]
  BY DEF ReleasePop, OldestRows, PopRow
<1>2. /\ pc[r] = "pop" /\ r \in Threads
      /\ UNCHANGED <<timeline, cancelled, refused, dropped>>
  BY DEF ReleasePop, told, Threads, PopRow
<1>3. row.msg \in Msgs /\ row.msg \in Queued
  BY DEF DeliveryInv, TypeInv, TypeOK, DbOK, Rows, Queued
<1>4. carry[r] = None /\ row.msg \notin Carried
  BY <1>2, <1>3 DEF Placed, DeliveryInv, TypeInv, HandsOK, SendSteps, AtMostOnce
<1>5. /\ Carried' = Carried \cup {row.msg}
      /\ \A u, v \in Threads : carry'[u] = carry'[v] /\ carry'[u] # None => u = v
  BY <1>1, <1>2, <1>3, <1>4, PickUp
<1>6. Queued' = Queued \ {row.msg}
  BY <1>1 DEF Placed, Queued, DeliveryInv, AtMostOnce
<1>7. Stored' = Stored /\ Settled' = Settled
  BY <1>2 DEF Stored, Settled
<1>8. \A m \in Msgs : pc'[m] = "free" <=> pc[m] = "free"
  BY <1>2, ManagerAssumption
  DEF ReleasePop, Goto, DeliveryInv, TypeInv, TypeOK, ThreadsOK, Threads, PopRow
<1> QED
  BY <1>1, <1>2, <1>3, <1>5, <1>6, <1>7, <1>8
  DEF Placed, DeliveryInv, AtMostOnce, QueueIdsUnique, Known, Somewhere

\* CancelQueued deletes rows and tells the users of their messages.
LEMMA CancelSettles ==
  ASSUME DeliveryInv, NEW m \in Msgs, CancelQueued(m)
  PROVE  Placed'
<1> DEFINE Gone == RowsWithId(queue, ticket[m])
<1>1. /\ queue' = queue \ Gone /\ Gone \subseteq queue
      /\ cancelled' = cancelled \cup {row.msg : row \in Gone}
      /\ UNCHANGED <<timeline, pc, carry, refused, dropped>>
  BY DEF CancelQueued, RowsWithId, threads
<1>2. /\ Queued' = Queued \ {row.msg : row \in Gone}
      /\ {row.msg : row \in Gone} \subseteq Queued
  BY <1>1 DEF Placed, Queued, DeliveryInv, AtMostOnce
<1>3. Settled' = Settled \cup {row.msg : row \in Gone}
  BY <1>1 DEF Settled
<1>4. Stored' = Stored /\ Carried' = Carried
  BY <1>1 DEF Stored, Carried
<1> HIDE DEF Gone
<1> QED
  BY <1>1, <1>2, <1>3, <1>4
  DEF Placed, DeliveryInv, AtMostOnce, QueueIdsUnique, Known, Somewhere

\* A server restart settles what was in hand and keeps what was stored.
LEMMA RestartSettles ==
  ASSUME DeliveryInv, ServerRestart
  PROVE  Placed'
<1> USE DEF ServerRestart, DatabaseKept
<1>1. Carried' = {} /\ \A t \in Threads : carry'[t] = None
  BY DEF Carried
<1>2. Stored' = Stored /\ Queued' = Queued
  BY DEF Stored, Queued
<1>3. Settled' = Settled \cup Carried
  BY DEF Settled, Carried, Threads
<1>4. \A m \in Msgs : pc'[m] = "free" <=> pc[m] = "free"
  BY DEF Threads
<1> QED
  BY <1>1, <1>2, <1>3, <1>4
  DEF Placed, DeliveryInv, AtMostOnce, QueueIdsUnique, Known, Somewhere

-----------------------------------------------------------------------------
\* Every step of the specification keeps the invariant, action by action.
LEMMA DeliveryStep == DeliveryInv /\ [Next]_vars => DeliveryInv'
<1> SUFFICES ASSUME DeliveryInv, [Next]_vars
             PROVE  Placed'
  BY TypeStep, KeysStep, HandsStep DEF DeliveryInv, TypeInv
<1>1. ASSUME NEW g \in Gens, Driver(g) \/ Pump(g) PROVE Still
  <2>1. CASE PumpStore(g)
    BY <2>1, ManagerAssumption
    DEF Still, PumpStore, told, DeliveryInv, TypeInv, TypeOK, ThreadsOK, Threads,
    StartRelease, Goto
  <2>2. CASE ~PumpStore(g)
    BY <1>1, <2>2
    DEF Still, Driver, TurnEnd, SelfTurn, Crash, WaitExit, Pump, PumpRead, PumpStoreFails,
        PumpClosed, PumpMarkDead, PumpUnmap, db, threads, told, Close, Unmap
  <2> QED
    BY <2>1, <2>2
<1>2. ASSUME NEW m \in Msgs, Request(m) PROVE Placed'
  <2>1. CASE EnqueueClaim(m)
    <3>1. Still
      BY <2>1 DEF Still, EnqueueClaim, Goto, db, told, DeliveryInv, TypeInv, TypeOK,
         ThreadsOK
    <3> QED
      BY <3>1, StillStep
  <2>2. CASE EnqueueFails(m)
    <3>1. m \in Threads /\ carry[m] # None /\ pc[m] # "free"
      BY <2>2, ManagerAssumption
      DEF EnqueueFails, Threads, DeliveryInv, TypeInv, HandsOK
    <3> QED
      BY <2>2, <3>1, FailureSettles DEF EnqueueFails
  <2> QED
    BY <1>2, <2>1, <2>2, RequestTakes, InsertQueues, CancelSettles DEF Request
<1>3. ASSUME NEW r \in Releasers, Release(r) PROVE Placed'
  <2>1. CASE ReleasePop(r)
    BY <2>1, PopTakes
  <2>2. CASE ~ReleasePop(r)
    <3>1. Still
      BY <1>3, <2>2, ManagerAssumption
      DEF Still, Release, ReleaseClaim, ReleaseLook, ReleaseGiveBack, ReleaseEmpty,
          ReleasePopFails, Goto, db, told, DeliveryInv, TypeInv, TypeOK, ThreadsOK,
          Threads, FreeSlot
    <3> QED
      BY <3>1, StillStep
  <2> QED
    BY <2>1, <2>2
<1>4. ASSUME NEW t \in Threads, Send(t) PROVE Placed'
  <2>1. CASE AppendUser(t)
    BY <2>1, AppendDelivers
  <2>2. CASE SpawnFails(t) \/ AppendUserFails(t)
    <3>1. pc[t] \in SendSteps /\ pc[t] # "free" /\ UNCHANGED db /\ SendFails(t)
      BY <2>2 DEF SpawnFails, AppendUserFails, SendSteps
    <3>2. carry[t] # None
      BY <3>1, HeldMessage DEF DeliveryInv
    <3> QED
      BY <3>1, <3>2, FailureSettles
  <2>3. CASE ~AppendUser(t) /\ ~SpawnFails(t) /\ ~AppendUserFails(t)
    <3>1. Still
      BY <1>4, <2>3, ManagerAssumption
      DEF Still, Send, SendGet, SendCheckStale, Restart, Revive, Spawn, Register,
      StartPump,
          Attach, WriteDriver, Goto, db, told, DeliveryInv, TypeInv, TypeOK, ThreadsOK,
          Threads, Close, Unmap, AddSubscribers
    <3> QED
      BY <3>1, StillStep
  <2> QED
    BY <2>1, <2>2, <2>3
<1>5. ASSUME NEW s \in Subs, Subscribe(s) PROVE Still
  BY <1>5 DEF Still, Subscribe, SubscribeGet, SubscribeAdd, db, threads, told,
     AddSubscribers
<1>6. ASSUME NEW x \in Setters, Settings(x) PROVE Still
  BY <1>6 DEF Still, Settings, SettingsGet, SettingsSave, SettingsApply, db, threads,
     told, ApplySettings
<1>7. CASE ServerRestart
  BY <1>7, RestartSettles
<1>8. CASE UNCHANGED vars
  <2>1. Still
    BY <1>8 DEF Still, vars, db, threads, told
  <2> QED
    BY <2>1, StillStep
<1>9. Still => Placed'
  BY StillStep
<1> QED
  BY <1>1, <1>2, <1>3, <1>4, <1>5, <1>6, <1>7, <1>8, <1>9 DEF Next

\* The initial states: nothing stored, queued, carried or settled.
LEMMA DeliveryInit == Init => DeliveryInv
<1> SUFFICES ASSUME Init PROVE DeliveryInv
  OBVIOUS
<1>1. TypeInv
  BY TypeInvInit
<1>2. /\ queue = {} /\ timeline = <<>> /\ Settled = {}
      /\ \A t \in Threads : carry[t] = None /\ pc[t] = "free"
  BY DEF Init, InitWith, Settled
<1>3. Stored = {} /\ Queued = {} /\ Carried = {}
  BY <1>2 DEF Stored, Queued, Carried
<1>4. AtMostOnce /\ QueueIdsUnique
  BY <1>2, <1>3 DEF Placed, AtMostOnce, QueueIdsUnique
<1>5. Known
  BY <1>2, <1>3 DEF Placed, Known, Somewhere, Threads
<1> QED
  BY <1>1, <1>4, <1>5 DEF DeliveryInv, Placed

\* The invariant from which delivery follows holds in every reachable state:
\* types, no message in two places, unique keys, and every request under way or
\* answered accounts for its message (manager.go: Send, Enqueue, releaseQueued).
THEOREM DeliveryInvariant == Spec => []DeliveryInv
BY DeliveryInit, DeliveryStep, PTL DEF Spec

\* No message is delivered twice, whatever Send, Enqueue, releaseQueued and
\* CancelQueued (manager.go) do to each other.
THEOREM DeliveredAtMostOnce == Spec => []AtMostOnce
<1>1. DeliveryInv => AtMostOnce
  BY DEF DeliveryInv, Placed
<1> QED
  BY <1>1, DeliveryInvariant, PTL

\* The primary key of agent_queue is never violated (store.go, Enqueue).
THEOREM QueueKeysUnique == Spec => []QueueIdsUnique
<1>1. DeliveryInv => QueueIdsUnique
  BY DEF DeliveryInv, Placed
<1> QED
  BY <1>1, DeliveryInvariant, PTL

\* A message whose request was answered has been stored, is in the queue, is
\* on its way, or its user was told that it is not (manager.go).
THEOREM NoMessageVanishes == Spec => []Accounted
<1>1. DeliveryInv => Accounted
  BY DEF Placed, DeliveryInv, Known, Somewhere, Accounted
<1> QED
  BY <1>1, DeliveryInvariant, PTL

-----------------------------------------------------------------------------
(***************************************************************************)
(* The slot of the session is given back, and the queue behind it drained. *)
(***************************************************************************)
\* No status event is dropped: no driver's events channel is full.
NeverFull == \A g \in Gens : Len(evq[g]) < EvCap

Last(s) == s[Len(s)]

LEMMA AppendLast ==
  ASSUME NEW S, NEW s \in Seq(S), NEW e \in S
  PROVE  Append(s, e) \in Seq(S) /\ Append(s, e) # <<>> /\ Last(Append(s, e)) = e
<1>1. /\ Append(s, e) \in Seq(S) /\ Len(Append(s, e)) = Len(s) + 1 /\ Len(s) \in Nat
      /\ Append(s, e)[Len(s) + 1] = e
  OBVIOUS
<1>2. Append(s, e) # <<>>
  BY <1>1
<1> QED
  BY <1>1, <1>2 DEF Last

LEMMA TailLast ==
  ASSUME NEW S, NEW s \in Seq(S), s # <<>>
  PROVE  /\ Tail(s) \in Seq(S) /\ Head(s) \in S
         /\ Tail(s) = <<>> => Last(s) = Head(s)
         /\ Tail(s) # <<>> => Last(Tail(s)) = Last(s)
<1>1. Len(s) \in Nat \ {0} /\ Tail(s) \in Seq(S) /\ Head(s) \in S /\ Head(s) = s[1]
  OBVIOUS
<1>2. Len(Tail(s)) = Len(s) - 1
  BY <1>1
<1>3. \A i \in 1..Len(s) - 1 : Tail(s)[i] = s[i + 1]
  BY <1>1
<1>4. Tail(s) = <<>> => Len(s) = 1
  BY <1>1, <1>2
<1>5. ASSUME Tail(s) # <<>> PROVE Tail(s)[Len(s) - 1] = s[Len(s)]
  <2>1. Len(Tail(s)) # 0
    BY <1>1, <1>5, EmptySeq
  <2>2. Len(s) - 1 \in 1..Len(s) - 1 /\ (Len(s) - 1) + 1 = Len(s)
    BY <1>1, <1>2, <2>1
  <2> QED
    BY <1>3, <2>2
<1> QED
  BY <1>1, <1>2, <1>4, <1>5 DEF Last

\* The mapped liveSession has a pump, or a thread is about to start it.
Pumped ==
  sess # 0 => \/ pump[sess] \in {"read", "store", "mark", "unmap"}
              \/ \E t \in Threads : pc[t] = "start" /\ ls[t] = sess

\* A running event that is the last in the channel tells of a turn in progress.
LastTold == \A g \in Gens : evq[g] # <<>> /\ Last(evq[g]) = "running" => turn[g]

\* A releaser has sent nothing before it has looked into the queue.
NotYetSent == \A r \in Releasers : pc[r] \in {"claim", "look"} => ~sent[r]

Waiting == Queued \ late

\* Something is still to come from the process of g.
Busy(g) == turn[g] \/ evq[g] # <<>> \/ proc[g] # "up"
Sending(t, g) ==
  pc[t] \in {"stale?", "restart", "start", "attach", "append", "write"} /\ ls[t] = g

\* Thread t holds the slot of g; it will look into the queue of the session.
Holds(t, g) ==
  \/ Sending(t, g)
  \/ t \in Msgs /\ pc[t] = "send" /\ ls[t] = g
  \/ /\ t \in Releasers /\ owner[t] = g
     /\ \/ pc[t] \in {"look", "send"}
        \/ pc[t] = "pop" /\ ~sent[t]
        \/ pc[t] = "giveback" /\ Waiting = {}
Drains(t, g) ==
  \/ Sending(t, g)
  \/ pc[t] \in {"send", "pop"}
  \/ t \in Releasers /\ pc[t] \in {"claim", "look"} /\ owner[t] = g

Released(g) == pump[g] = "store" /\ event[g] = "idle"
Held(g)   == Busy(g) \/ \E t \in Threads : Holds(t, g)
Drained(g) == Busy(g) \/ Released(g) \/ \E t \in Threads : Drains(t, g)

\* A slot that says running is held, and somebody will look into the queue.
SlotOK ==
  sess # 0 /\ faults = 0 => /\ slot[sess] = "running" => Held(sess)
                            /\ Waiting # {} => Drained(sess)
SlotInv == MappedInv /\ Pumped /\ LastTold /\ NotYetSent /\ SlotOK

\* Who holds the slot while messages wait will look into the queue.
LEMMA HolderDrains ==
  ASSUME NEW t \in Threads, NEW g, Holds(t, g), Waiting # {}
  PROVE  Drains(t, g)
BY DEF Holds, Drains

\* What a step does not do to the threads outside of M.
Stay(M) ==
  \A u \in Threads \ M :
    /\ pc'[u] = pc[u] /\ ls'[u] = ls[u]
    /\ u \in Releasers => owner'[u] = owner[u] /\ (sent'[u] <=> sent[u])

LEMMA StayHolds ==
  ASSUME NEW M \in SUBSET Threads, Stay(M), Waiting' \subseteq Waiting,
         NEW u \in Threads \ M, UNCHANGED sess
  PROVE  /\ Holds(u, sess) => Holds(u, sess)'
         /\ Drains(u, sess) => Drains(u, sess)'
<1>1. /\ pc'[u] = pc[u] /\ ls'[u] = ls[u]
      /\ u \in Releasers => owner'[u] = owner[u] /\ (sent'[u] <=> sent[u])
  BY DEF Stay
<1>2. Waiting = {} => Waiting' = {}
  OBVIOUS
<1>3. Sending(u, sess) => Sending(u, sess)'
  BY <1>1 DEF Sending
<1>4. Holds(u, sess) => Holds(u, sess)'
  BY <1>1, <1>2, <1>3 DEF Holds
<1>5. Drains(u, sess) => Drains(u, sess)'
  BY <1>1, <1>3 DEF Drains
<1> QED
  BY <1>4, <1>5

\* A step of the threads in M that maps nothing.
LEMMA ThreadsStep ==
  ASSUME SlotOK, NEW M \in SUBSET Threads, Stay(M), Waiting' \subseteq Waiting,
         UNCHANGED sess, faults' = 0 => faults = 0,
         sess # 0 /\ faults' = 0 =>
           /\ Busy(sess) => Busy(sess)'
           /\ Released(sess) /\ Waiting' # {} => Drained(sess)'
           /\ slot'[sess] = "running" => slot[sess] = "running" \/ Held(sess)'
           /\ \A t \in M : /\ Holds(t, sess) /\ slot'[sess] = "running" => Held(sess)'
                           /\ Drains(t, sess) /\ Waiting' # {} => Drained(sess)'
  PROVE  SlotOK'
<1> SUFFICES ASSUME sess # 0, faults' = 0
             PROVE  /\ slot'[sess] = "running" => Held(sess)'
                    /\ Waiting' # {} => Drained(sess)'
  BY DEF SlotOK
<1>1. /\ slot[sess] = "running" => Held(sess)
      /\ Waiting' # {} => Drained(sess)
  BY DEF SlotOK
<1>2. \A u \in Threads \ M : /\ Holds(u, sess) => Holds(u, sess)'
                             /\ Drains(u, sess) => Drains(u, sess)'
  BY StayHolds
<1>3. ASSUME slot'[sess] = "running" PROVE Held(sess)'
  <2>1. Held(sess) \/ Held(sess)'
    BY <1>1, <1>3
  <2>2. ASSUME NEW t \in Threads, Holds(t, sess) PROVE Held(sess)'
    <3>1. CASE t \in M
      BY <1>3, <2>2, <3>1
    <3>2. CASE t \notin M
      BY <1>2, <2>2, <3>2 DEF Held
    <3> QED
      BY <3>1, <3>2
  <2>3. Busy(sess) => Held(sess)'
    BY DEF Held
  <2> QED
    BY <2>1, <2>2, <2>3 DEF Held
<1>4. ASSUME Waiting' # {} PROVE Drained(sess)'
  <2>1. Drained(sess)
    BY <1>1, <1>4
  <2>2. ASSUME NEW t \in Threads, Drains(t, sess) PROVE Drained(sess)'
    <3>1. CASE t \in M
      BY <1>4, <2>2, <3>1
    <3>2. CASE t \notin M
      BY <1>2, <2>2, <3>2 DEF Drained
    <3> QED
      BY <3>1, <3>2
  <2>3. Busy(sess) => Drained(sess)'
    BY DEF Drained
  <2>4. Released(sess) => Drained(sess)'
    BY <1>4
  <2> QED
    BY <2>1, <2>2, <2>3, <2>4 DEF Drained
<1> QED
  BY <1>3, <1>4

\* What the messages that wait depend on.
LEMMA SameWaiting == UNCHANGED <<queue, late>> => Waiting' = Waiting
BY DEF Waiting, Queued

\* The steps of the processes: an end of a turn is told, as long as the channel
\* has room.
LEMMA DriverSlot ==
  ASSUME SlotInv, NeverFull, NEW g \in Gens, Driver(g)
  PROVE  SlotOK'
<1>t. DriversOK /\ LiveOK
  BY DEF SlotInv, MappedInv, TypeInv, TypeOK
<1>1. /\ UNCHANGED <<sess, faults, slot, pump, event, pc, ls, owner, sent, queue, late>>
  BY DEF Driver, TurnEnd, SelfTurn, Crash, WaitExit, db, live, threads, told, bounds
<1>2. \A h \in Gens : Busy(h) => Busy(h)'
  <2>1. CASE TurnEnd(g)
    <3>1. /\ turn' = [turn EXCEPT ![g] = FALSE] /\ proc' = proc
          /\ evq' = [evq EXCEPT ![g] = Append(@, "idle")]
      BY <2>1 DEF TurnEnd, Emit, NeverFull
    <3>2. evq'[g] # <<>> /\ \A h \in Gens \ {g} : evq'[h] = evq[h]
      <4>1. evq[g] \in Seq({"idle", "running"})
        BY <1>t DEF DriversOK
      <4>2. Append(evq[g], "idle") # <<>>
        BY <4>1, AppendLast
      <4> QED
        BY <3>1, <4>2, <1>t DEF DriversOK
    <3>3. \A h \in Gens \ {g} : turn[h] => turn'[h]
      BY <3>1, <1>t DEF DriversOK
    <3> QED
      BY <3>1, <3>2, <3>3 DEF Busy
  <2>2. CASE SelfTurn(g)
    <3>1. /\ turn' = [turn EXCEPT ![g] = TRUE] /\ proc' = proc
          /\ evq' = [evq EXCEPT ![g] = Append(@, "running")]
      BY <2>2 DEF SelfTurn, BeginTurn, Emit, NeverFull
    <3>2. turn'[g] /\ \A h \in Gens \ {g} : (turn[h] => turn'[h]) /\ evq'[h] = evq[h]
      BY <3>1, <1>t DEF DriversOK
    <3> QED
      BY <3>1, <3>2 DEF Busy
  <2>3. CASE Crash(g)
    BY <2>3, <1>t DEF Crash, Close, Busy, DriversOK
  <2>4. CASE WaitExit(g)
    BY <2>4, <1>t DEF WaitExit, Busy, DriversOK
  <2> QED
    BY <2>1, <2>2, <2>3, <2>4 DEF Driver
<1>3. Stay({}) /\ Waiting' = Waiting
  BY <1>1, SameWaiting DEF Stay
<1>4. sess # 0 => sess \in Gens
  BY <1>t DEF LiveOK, Gens
<1>5. sess # 0 => (Released(sess) => Drained(sess)')
  BY <1>1 DEF Released, Drained
<1>6. SlotOK
  BY DEF SlotInv
<1> QED
  BY <1>1, <1>2, <1>3, <1>4, <1>5, <1>6, ThreadsStep

\* The pump's steps: reading idle frees the slot, and storing it starts a
\* releaser.
LEMMA PumpSlot ==
  ASSUME SlotInv, NEW g \in Gens, Pump(g)
  PROVE  SlotOK'
<1>t. DriversOK /\ LiveOK /\ ThreadsOK /\ BoundsOK
  BY DEF SlotInv, MappedInv, TypeInv, TypeOK
<1>s. SlotOK /\ LastTold
  BY DEF SlotInv
<1>g. sess # 0 => sess \in Gens
  BY <1>t DEF LiveOK, Gens
<1>1. CASE PumpRead(g)
  <2>1. /\ UNCHANGED <<sess, faults, pc, ls, owner, sent, queue, late, turn, proc>>
        /\ pump[g] = "read" /\ evq[g] # <<>>
        /\ evq' = [evq EXCEPT ![g] = Tail(@)] /\ event' = [event EXCEPT ![g] = Head(evq[g])]
        /\ slot' = [slot EXCEPT ![g] = Head(evq[g])] /\ pump' = [pump EXCEPT ![g] = "store"]
    BY <1>1 DEF PumpRead, db, threads, told, bounds
  <2>2. /\ evq'[g] = Tail(evq[g]) /\ event'[g] = Head(evq[g]) /\ slot'[g] = Head(evq[g])
        /\ pump'[g] = "store"
        /\ \A h \in Gens \ {g} : /\ evq'[h] = evq[h] /\ event'[h] = event[h]
                                 /\ slot'[h] = slot[h] /\ pump'[h] = pump[h]
    BY <2>1, <1>t DEF DriversOK, LiveOK
  <2>3. Waiting' = Waiting
    BY <2>1, SameWaiting
  <2>4. CASE sess = g
    <3>1. evq'[g] = <<>> /\ Head(evq[g]) = "running" => turn'[g]
      <4>1. evq[g] \in Seq({"idle", "running"})
        BY <1>t DEF DriversOK
      <4>2. Tail(evq[g]) = <<>> => Last(evq[g]) = Head(evq[g])
        BY <2>1, <4>1, TailLast
      <4>3. evq'[g] = <<>> /\ Head(evq[g]) = "running" => turn[g]
        BY <2>1, <2>2, <4>2, <1>s DEF LastTold
      <4> QED
        BY <2>1, <4>3
    <3>2. evq[g] \in Seq({"idle", "running"}) /\ Head(evq[g]) \in {"idle", "running"}
      BY <2>1, <1>t DEF DriversOK
    <3>3. slot'[g] = "running" => Busy(g)'
      BY <2>2, <3>1 DEF Busy
    <3>4. Busy(g)' \/ Released(g)'
      BY <2>2, <3>1, <3>2 DEF Busy, Released
    <3> QED
      BY <2>1, <2>4, <3>3, <3>4 DEF SlotOK, Held, Drained
  <2>5. CASE sess # g
    <3>1. Stay({}) /\ Waiting' \subseteq Waiting
      BY <2>1, <2>3 DEF Stay
    <3>2. sess # 0 => /\ Busy(sess) => Busy(sess)'
                      /\ Released(sess) => Drained(sess)'
                      /\ slot'[sess] = slot[sess]
      BY <2>1, <2>2, <2>5, <1>g DEF Busy, Released, Drained
    <3> QED
      BY <2>1, <3>1, <3>2, <1>s, ThreadsStep
  <2> QED
    BY <2>4, <2>5
<1>2. CASE PumpStore(g)
  <2>1. /\ UNCHANGED <<sess, faults, slot, event, ls, queue, late, turn, proc, evq>>
        /\ pump[g] = "store" /\ pump' = [pump EXCEPT ![g] = "read"]
        /\ IF event[g] = "idle" THEN StartRelease(g) ELSE UNCHANGED <<pc, owner, sent>>
    BY <1>2 DEF PumpStore, drivers, told, bounds
  <2>2. \A h \in Gens \ {g} : pump'[h] = pump[h]
    BY <2>1, <1>t DEF LiveOK
  <2>3. Waiting' = Waiting
    BY <2>1, SameWaiting
  <2>4. Busy(sess) => Busy(sess)'
    BY <2>1 DEF Busy
  <2>5. sess # 0 /\ sess # g => (Released(sess) => Drained(sess)')
    BY <2>1, <2>2, <1>g DEF Released, Drained
  <2>6. CASE event[g] = "idle"
    <3>1. PICK r \in Releasers :
            /\ pc[r] = "free" /\ pc' = [pc EXCEPT ![r] = "claim"]
            /\ owner' = [owner EXCEPT ![r] = g] /\ sent' = [sent EXCEPT ![r] = FALSE]
      BY <2>1, <2>6 DEF StartRelease, Goto
    <3>2. /\ pc'[r] = "claim" /\ owner'[r] = g /\ r \in Threads
          /\ \A u \in Threads \ {r} : pc'[u] = pc[u]
          /\ \A u \in Releasers \ {r} : owner'[u] = owner[u] /\ (sent'[u] <=> sent[u])
      BY <3>1, <1>t DEF ThreadsOK, Threads
    <3>3. Stay({r}) /\ {r} \in SUBSET Threads
      BY <2>1, <3>2 DEF Stay
    <3>4. Drains(r, g)'
      BY <3>2 DEF Drains
    <3>5. sess = g => (Released(sess) => Drained(sess)')
      BY <2>1, <3>2, <3>4 DEF Drained
    <3>6. ~Holds(r, sess) /\ ~Drains(r, sess)
      BY <3>1 DEF Holds, Drains, Sending
    <3> QED
      BY <2>1, <2>3, <2>4, <2>5, <3>3, <3>5, <3>6, <1>s, ThreadsStep
  <2>7. CASE event[g] # "idle"
    <3>1. Stay({})
      BY <2>1, <2>7 DEF Stay
    <3>2. sess = g => ~Released(sess)
      BY <2>7 DEF Released
    <3> QED
      BY <2>1, <2>3, <2>4, <2>5, <3>1, <3>2, <1>s, ThreadsStep
  <2> QED
    BY <2>6, <2>7
<1>3. CASE PumpStoreFails(g)
  <2>1. faults' # 0
    BY <1>3, <1>t, ManagerAssumption DEF PumpStoreFails, BoundsOK
  <2> QED
    BY <2>1 DEF SlotOK
<1>4. CASE PumpUnmap(g)
  BY <1>4 DEF PumpUnmap, Unmap, SlotOK
<1>5. CASE PumpClosed(g) \/ PumpMarkDead(g)
  <2>1. /\ UNCHANGED <<sess, faults, slot, event, pc, ls, owner, sent, queue, late, turn, proc, evq>>
        /\ pump[g] # "store" /\ \A h \in Gens \ {g} : pump'[h] = pump[h]
    BY <1>5, <1>t DEF PumpClosed, PumpMarkDead, db, drivers, threads, told, bounds, LiveOK
  <2>2. Stay({}) /\ Waiting' = Waiting
    BY <2>1, SameWaiting DEF Stay
  <2>3. sess # 0 => /\ Busy(sess) => Busy(sess)'
                    /\ Released(sess) => Drained(sess)'
    BY <2>1, <1>g DEF Busy, Released, Drained
  <2> QED
    BY <2>1, <2>2, <2>3, <1>s, ThreadsStep
<1> QED
  BY <1>1, <1>2, <1>3, <1>4, <1>5 DEF Pump

\* A message is inserted behind a turn, or it is late.
LEMMA InsertWaits ==
  ASSUME NEW m \in Msgs, EnqueueInsert(m), sess # 0, ~turn[sess]
  PROVE  Waiting' \subseteq Waiting
<1>1. /\ queue' = queue \cup {[id |-> NextQueueId(queue), msg |-> m]} /\ late' = late \cup {m}
  BY DEF EnqueueInsert
<1>2. Queued' \subseteq Queued \cup {m}
  <2>1. ASSUME NEW row \in queue' PROVE row.msg \in Queued \cup {m}
    <3>1. row \in queue \/ row.msg = m
      BY <1>1, <2>1
    <3> QED
      BY <3>1 DEF Queued
  <2> QED
    BY <2>1 DEF Queued
<1> QED
  BY <1>1, <1>2 DEF Waiting

\* The requests: who claims the slot holds it, who does not looks into nothing.
LEMMA RequestSlot ==
  ASSUME SlotInv, NEW m \in Msgs, Request(m)
  PROVE  SlotOK'
<1>t. DriversOK /\ LiveOK /\ ThreadsOK /\ BoundsOK
  BY DEF SlotInv, MappedInv, TypeInv, TypeOK
<1>s. SlotOK
  BY DEF SlotInv
<1>m. m \in Threads /\ m \notin Releasers /\ {m} \in SUBSET Threads
  BY ManagerAssumption DEF Threads
<1>g. sess # 0 => sess \in Gens
  BY <1>t DEF LiveOK, Gens
<1>1. CASE EnqueueFails(m)
  <2>1. faults' # 0
    BY <1>1, <1>t, ManagerAssumption DEF EnqueueFails, BoundsOK
  <2> QED
    BY <2>1 DEF SlotOK
<1>2. CASE CancelQueued(m)
  <2>1. /\ UNCHANGED <<sess, faults, slot, pump, event, pc, ls, owner, sent, late, turn, proc, evq>>
        /\ queue' \subseteq queue
    BY <1>2 DEF CancelQueued, live, drivers, threads, bounds
  <2>2. Stay({}) /\ Waiting' \subseteq Waiting
    BY <2>1 DEF Stay, Waiting, Queued
  <2>3. sess # 0 => /\ Busy(sess) => Busy(sess)'
                    /\ Released(sess) => Drained(sess)'
    BY <2>1 DEF Busy, Released, Drained
  <2> QED
    BY <2>1, <2>2, <2>3, <1>s, ThreadsStep
<1>3. CASE RequestSend(m) \/ RequestEnqueue(m)
  <2>1. /\ UNCHANGED <<sess, faults, slot, pump, event, owner, sent, queue, late, turn, proc, evq>>
        /\ pc[m] = "free"
        /\ \A u \in Threads \ {m} : pc'[u] = pc[u] /\ ls'[u] = ls[u]
    BY <1>3, <1>t DEF RequestSend, RequestEnqueue, db, live, drivers, told, bounds, Goto, Hold,
       ThreadsOK
  <2>2. Stay({m}) /\ Waiting' = Waiting
    BY <2>1, SameWaiting DEF Stay
  <2>3. sess # 0 => /\ Busy(sess) => Busy(sess)'
                    /\ Released(sess) => Drained(sess)'
                    /\ ~Holds(m, sess) /\ ~Drains(m, sess)
    BY <2>1, <1>m DEF Busy, Released, Drained, Holds, Drains, Sending
  <2> QED
    BY <2>1, <2>2, <2>3, <1>s, <1>m, ThreadsStep
<1>4. CASE EnqueueClaim(m)
  <2>1. /\ UNCHANGED <<sess, faults, pump, event, ls, owner, sent, queue, late, turn, proc, evq>>
        /\ pc[m] = "claim" /\ slot' = [slot EXCEPT ![ls[m]] = "running"]
        /\ pc' = [pc EXCEPT ![m] = IF slot[ls[m]] = "idle" THEN "send" ELSE "insert"]
    BY <1>4 DEF EnqueueClaim, db, drivers, told, bounds, Goto
  <2>2. Stay({m}) /\ Waiting' = Waiting
    BY <2>1, SameWaiting, <1>t DEF Stay, ThreadsOK
  <2>3. sess # 0 => /\ Busy(sess) => Busy(sess)'
                    /\ Released(sess) => Drained(sess)'
                    /\ ~Holds(m, sess) /\ ~Drains(m, sess)
    BY <2>1, <1>m DEF Busy, Released, Drained, Holds, Drains, Sending
  <2>4. ASSUME sess # 0, slot'[sess] = "running" PROVE slot[sess] = "running" \/ Held(sess)'
    <3>1. CASE ls[m] = sess
      <4>1. slot[sess] \in {"idle", "running"}
        BY <1>g, <1>t, <2>4 DEF LiveOK
      <4>2. slot[sess] = "idle" => pc'[m] = "send" /\ ls'[m] = sess
        BY <2>1, <3>1, <1>t, <1>m DEF ThreadsOK
      <4>3. slot[sess] = "idle" => Holds(m, sess)'
        BY <2>1, <4>2 DEF Holds
      <4> QED
        BY <4>1, <4>3, <1>m DEF Held
    <3>2. CASE ls[m] # sess
      BY <2>1, <2>4, <3>2, <1>g, <1>t DEF LiveOK
    <3> QED
      BY <3>1, <3>2
  <2> QED
    BY <2>1, <2>2, <2>3, <2>4, <1>s, <1>m, ThreadsStep
<1>5. CASE EnqueueInsert(m)
  <2>1. /\ UNCHANGED <<sess, faults, slot, pump, event, ls, owner, sent, turn, proc, evq>>
        /\ pc[m] = "insert" /\ pc' = [pc EXCEPT ![m] = "done"]
    BY <1>5 DEF EnqueueInsert, live, drivers, bounds, Goto
  <2>2. CASE sess = 0
    BY <2>1, <2>2 DEF SlotOK
  <2>3. CASE sess # 0 /\ turn[sess]
    BY <2>1, <2>3 DEF SlotOK, Held, Drained, Busy
  <2>4. CASE sess # 0 /\ ~turn[sess]
    <3>1. Stay({m}) /\ Waiting' \subseteq Waiting
      BY <1>5, <2>1, <2>4, InsertWaits, <1>t DEF Stay, ThreadsOK
    <3>2. /\ Busy(sess) => Busy(sess)'
          /\ Released(sess) => Drained(sess)'
          /\ ~Holds(m, sess) /\ ~Drains(m, sess)
      BY <2>1, <1>m DEF Busy, Released, Drained, Holds, Drains, Sending
    <3> QED
      BY <2>1, <3>1, <3>2, <1>s, <1>m, ThreadsStep
  <2> QED
    BY <2>2, <2>3, <2>4
<1> QED
  BY <1>1, <1>2, <1>3, <1>4, <1>5 DEF Request

\* A releaser: it gives the slot back only when nothing waits.
LEMMA ReleaseSlot ==
  ASSUME SlotInv, NEW r \in Releasers, Release(r)
  PROVE  SlotOK'
<1>t. DriversOK /\ LiveOK /\ ThreadsOK /\ BoundsOK
  BY DEF SlotInv, MappedInv, TypeInv, TypeOK
<1>s. SlotOK /\ NotYetSent
  BY DEF SlotInv
<1>m. r \in Threads /\ r \notin Msgs /\ {r} \in SUBSET Threads
  BY ManagerAssumption DEF Threads
<1>g. sess # 0 => sess \in Gens
  BY <1>t DEF LiveOK, Gens
<1>1. CASE ReleasePopFails(r)
  <2>1. faults' # 0
    BY <1>1, <1>t, ManagerAssumption DEF ReleasePopFails, BoundsOK
  <2> QED
    BY <2>1 DEF SlotOK
<1>a. ASSUME ~ReleasePopFails(r)
      PROVE  /\ UNCHANGED <<sess, faults, pump, event, ls, owner, sent, late, turn, proc, evq>>
             /\ queue' \subseteq queue /\ \A u \in Threads \ {r} : pc'[u] = pc[u]
  BY <1>a, <1>t DEF Release, ReleaseClaim, ReleaseLook, ReleaseGiveBack, ReleasePop,
     ReleaseEmpty, db, live, drivers, told, bounds, Goto, ThreadsOK, FreeSlot, PopRow
<1>b. ASSUME ~ReleasePopFails(r)
      PROVE  /\ Stay({r}) /\ Waiting' \subseteq Waiting
             /\ Busy(sess) => Busy(sess)'
             /\ Released(sess) => Drained(sess)'
  BY <1>a, <1>b DEF Stay, Waiting, Queued, Busy, Released, Drained
<1>2. CASE ReleaseClaim(r)
  <2>0. ~ReleasePopFails(r)
    BY <1>2 DEF ReleaseClaim, ReleasePopFails
  <2>1. /\ pc[r] = "claim" /\ slot' = [slot EXCEPT ![owner[r]] = "running"]
        /\ pc'[r] = IF slot[owner[r]] = "idle" THEN "look" ELSE "free"
        /\ owner' = owner /\ Waiting' = Waiting
    BY <1>2, <1>t, <1>m, SameWaiting DEF ReleaseClaim, db, told, Goto, ThreadsOK
  <2>2. ~Holds(r, sess)
    BY <2>1, <1>m DEF Holds, Sending
  <2>3. ASSUME sess # 0, slot'[sess] = "running" PROVE slot[sess] = "running" \/ Held(sess)'
    <3>1. slot[sess] \in {"idle", "running"}
      BY <1>g, <1>t, <2>3 DEF LiveOK
    <3>2. CASE owner[r] = sess
      <4>1. slot[sess] = "idle" => Holds(r, sess)'
        BY <1>a, <2>0, <2>1, <3>2 DEF Holds
      <4> QED
        BY <3>1, <4>1, <1>m DEF Held
    <3>3. CASE owner[r] # sess
      BY <2>1, <2>3, <3>3, <1>g, <1>t DEF LiveOK
    <3> QED
      BY <3>2, <3>3
  <2>4. ASSUME sess # 0, faults' = 0, Drains(r, sess), Waiting' # {} PROVE Drained(sess)'
    <3>1. owner[r] = sess
      BY <2>1, <2>4 DEF Drains, Sending
    <3>2. CASE slot[sess] = "idle"
      <4>1. Drains(r, sess)'
        BY <1>a, <2>0, <2>1, <3>1, <3>2 DEF Drains
      <4> QED
        BY <4>1, <1>m DEF Drained
    <3>3. CASE slot[sess] # "idle"
      <4>1. Held(sess)
        BY <3>3, <1>a, <2>0, <2>4, <1>g, <1>s, <1>t DEF SlotOK, LiveOK
      <4>2. CASE Busy(sess)
        BY <1>b, <2>0, <4>2 DEF Drained
      <4>3. ASSUME NEW u \in Threads, Holds(u, sess) PROVE Drained(sess)'
        <5>1. Drains(u, sess) /\ u # r
          BY <2>1, <2>2, <2>4, <4>3, HolderDrains
        <5>2. Drains(u, sess)'
          BY <1>a, <1>b, <2>0, <5>1, <1>m, StayHolds
        <5> QED
          BY <5>2 DEF Drained
      <4> QED
        BY <4>1, <4>2, <4>3 DEF Held
    <3> QED
      BY <3>2, <3>3
  <2> QED
    BY <1>a, <1>b, <2>0, <2>2, <2>3, <2>4, <1>s, <1>m, ThreadsStep
<1>3. CASE ReleaseLook(r)
  <2>0. ~ReleasePopFails(r)
    BY <1>3 DEF ReleaseLook, ReleasePopFails
  <2>1. /\ pc[r] = "look" /\ pc'[r] = IF sess = 0 THEN "giveback" ELSE "pop"
        /\ slot' = slot /\ ~sent[r] /\ owner' = owner /\ sent' = sent
    BY <1>3, <1>t, <1>m, <1>s DEF ReleaseLook, live, Goto, ThreadsOK, NotYetSent
  <2>2. ASSUME sess # 0
        PROVE  /\ Holds(r, sess) => Held(sess)'
               /\ Drains(r, sess) => Drained(sess)'
    <3>1. Holds(r, sess) => Holds(r, sess)'
      BY <2>1, <2>2, <1>a, <2>0, <1>m DEF Holds, Sending
    <3>2. Drains(r, sess)'
      BY <2>1, <2>2 DEF Drains
    <3> QED
      BY <3>1, <3>2, <1>m DEF Held, Drained
  <2> QED
    BY <1>a, <1>b, <2>0, <2>1, <2>2, <1>s, <1>m, ThreadsStep
<1>4. CASE ReleaseGiveBack(r)
  <2>0. ~ReleasePopFails(r)
    BY <1>4 DEF ReleaseGiveBack, ReleasePopFails
  <2>1. /\ pc[r] = "giveback" /\ slot' = [slot EXCEPT ![owner[r]] = "idle"]
    BY <1>4 DEF ReleaseGiveBack, FreeSlot
  <2>2. ASSUME sess # 0
        PROVE  /\ slot'[sess] = "running" => slot[sess] = "running" /\ owner[r] # sess
               /\ ~Drains(r, sess) /\ (Holds(r, sess) => owner[r] = sess)
    BY <2>1, <2>2, <1>g, <1>t, <1>m DEF LiveOK, Drains, Holds, Sending
  <2> QED
    BY <1>a, <1>b, <2>0, <2>2, <1>s, <1>m, ThreadsStep
<1>5. CASE ReleasePop(r)
  <2>0. ~ReleasePopFails(r)
    <3>1. pc'[r] = "send"
      BY <1>5, <1>t, <1>m DEF ReleasePop, Goto, ThreadsOK
    <3>2. ReleasePopFails(r) => pc'[r] \in {"free", "giveback"}
      BY <1>t, <1>m DEF ReleasePopFails, Goto, ThreadsOK
    <3> QED
      BY <3>1, <3>2
  <2>1. /\ pc[r] = "pop" /\ pc'[r] = "send" /\ slot' = slot /\ owner' = owner
    BY <1>5, <1>t, <1>m DEF ReleasePop, live, Goto, ThreadsOK
  <2>2. /\ Holds(r, sess) => Held(sess)'
        /\ Drains(r, sess) => Drained(sess)'
    <3>1. Holds(r, sess) => Holds(r, sess)'
      BY <2>1, <1>a, <2>0, <1>m DEF Holds, Sending
    <3>2. Drains(r, sess)'
      BY <2>1 DEF Drains
    <3> QED
      BY <3>1, <3>2, <1>m DEF Held, Drained
  <2> QED
    BY <1>a, <1>b, <2>0, <2>1, <2>2, <1>s, <1>m, ThreadsStep
<1>6. CASE ReleaseEmpty(r) /\ ~ReleasePopFails(r)
  <2>1. /\ pc[r] = "pop" /\ slot' = slot /\ owner' = owner /\ queue = {} /\ Waiting' = {}
        /\ ~sent[r] => pc'[r] = "giveback"
    BY <1>6, <1>t, <1>m DEF ReleaseEmpty, db, live, told, Goto, ThreadsOK, Waiting, Queued
  <2>2. Holds(r, sess) => Held(sess)'
    <3>1. Holds(r, sess) => Holds(r, sess)'
      BY <2>1, <1>6, <1>a, <1>m DEF Holds, Sending
    <3> QED
      BY <3>1, <1>m DEF Held
  <2> QED
    BY <1>6, <1>a, <1>b, <2>1, <2>2, <1>s, <1>m, ThreadsStep
<1> QED
  BY <1>1, <1>2, <1>3, <1>4, <1>5, <1>6 DEF Release

\* The text reaches the process, or finds it dead.
LEMMA WriteBusy ==
  ASSUME DriversOK, NEW t \in Threads, WriteDriver(t), NeverFull
  PROVE  /\ \A g \in Gens : Busy(g) => Busy(g)'
         /\ ls[t] \in Gens => Busy(ls[t])'
<1>1. /\ proc' = proc /\ ls' = ls
      /\ IF proc[ls[t]] = "down" THEN UNCHANGED <<turn, evq>> ELSE BeginTurn(ls[t])
  BY DEF WriteDriver
<1>2. CASE proc[ls[t]] = "down" \/ turn[ls[t]]
  <2>1. turn' = turn /\ evq' = evq
    BY <1>1, <1>2 DEF BeginTurn
  <2> QED
    BY <1>1, <1>2, <2>1 DEF Busy
<1>3. CASE proc[ls[t]] # "down" /\ ~turn[ls[t]]
  <2>1. turn' = [turn EXCEPT ![ls[t]] = TRUE]
    BY <1>1, <1>3 DEF BeginTurn
  <2>2. evq' = evq \/ evq' = [evq EXCEPT ![ls[t]] = Append(@, "running")]
    BY <1>1, <1>3 DEF BeginTurn, Emit
  <2>3. ASSUME NEW g \in Gens PROVE evq[g] # <<>> => evq'[g] # <<>>
    <3>1. evq[g] \in Seq({"idle", "running"})
      BY DEF DriversOK
    <3>2. Append(evq[g], "running") # <<>>
      BY <3>1, AppendLast
    <3> QED
      BY <2>2, <3>2 DEF DriversOK
  <2>4. \A g \in Gens : (turn[g] => turn'[g]) /\ (g = ls[t] => turn'[g])
    BY <2>1 DEF DriversOK
  <2> QED
    BY <1>1, <2>3, <2>4 DEF Busy
<1> QED
  BY <1>2, <1>3

\* Send: the slot stays held until the turn is running.
LEMMA SendSlot ==
  ASSUME SlotInv, NeverFull, NEW t \in Threads, Send(t)
  PROVE  SlotOK'
<1>t. DriversOK /\ LiveOK /\ ThreadsOK /\ BoundsOK /\ DbOK
  BY DEF SlotInv, MappedInv, TypeInv, TypeOK
<1>s. SlotOK /\ Private
  BY DEF SlotInv, MappedInv, Mapped
<1>m. {t} \in SUBSET Threads
  OBVIOUS
<1>g. sess # 0 => sess \in Gens
  BY <1>t DEF LiveOK, Gens
<1>1. CASE SpawnFails(t) \/ AppendUserFails(t)
  <2>1. faults' # 0
    BY <1>1, <1>t, ManagerAssumption DEF SpawnFails, AppendUserFails, BoundsOK
  <2> QED
    BY <2>1 DEF SlotOK
<1>2. CASE SendGet(t) \/ SendCheckStale(t) \/ Revive(t) \/ Attach(t) \/ AppendUser(t)
  <2>1. /\ UNCHANGED <<sess, faults, slot, pump, event, queue, owner, sent, turn, proc, evq>>
        /\ late' = late
        /\ \A u \in Threads \ {t} : pc'[u] = pc[u] /\ ls'[u] = ls[u]
    BY <1>2, <1>t DEF SendGet, SendCheckStale, Revive, Attach, AppendUser, db, live, drivers,
       told, bounds, Goto, Hold, ThreadsOK, AddSubscribers
  <2>2. Stay({t}) /\ Waiting' = Waiting
    BY <2>1, SameWaiting DEF Stay
  <2>3. Sending(t, sess) => Sending(t, sess)'
    <3>1. CASE SendCheckStale(t) \/ Attach(t) \/ AppendUser(t)
      BY <2>1, <3>1, <1>t DEF SendCheckStale, Attach, AppendUser, Goto, Sending, ThreadsOK
    <3>2. CASE SendGet(t) \/ Revive(t)
      BY <3>2 DEF SendGet, Revive, Sending
    <3> QED
      BY <1>2, <3>1, <3>2
  <2>4. sess # 0 /\ pc[t] = "send" => Sending(t, sess)'
    <3>1. pc[t] = "send" => SendGet(t)
      BY <1>2 DEF SendCheckStale, Revive, Attach, AppendUser
    <3>2. SendGet(t) /\ sess # 0 => pc'[t] = "stale?" /\ ls'[t] = sess /\ sess' = sess
      BY <1>t DEF SendGet, Goto, Hold, ThreadsOK, live
    <3> QED
      BY <3>1, <3>2 DEF Sending
  <2>5. pc[t] \in {"send", "stale?", "revive", "attach", "append"}
    BY <1>2 DEF SendGet, SendCheckStale, Revive, Attach, AppendUser
  <2>6. sess # 0 => /\ Holds(t, sess) => Held(sess)'
                    /\ Drains(t, sess) => Drained(sess)'
    <3>1. sess # 0 /\ (Holds(t, sess) \/ Drains(t, sess)) => Sending(t, sess)'
      BY <2>3, <2>4, <2>5 DEF Holds, Drains
    <3>2. Sending(t, sess)' => Held(sess)' /\ Drained(sess)'
      BY DEF Held, Drained, Holds, Drains
    <3> QED
      BY <3>1, <3>2
  <2>7. /\ Busy(sess) => Busy(sess)'
        /\ Released(sess) => Drained(sess)'
    BY <2>1 DEF Busy, Released, Drained
  <2> QED
    BY <2>1, <2>2, <2>6, <2>7, <1>s, <1>m, ThreadsStep
<1>3. CASE Restart(t)
  <2>1. CASE sess = ls[t]
    BY <1>3, <2>1 DEF Restart, Close, Unmap, SlotOK
  <2>2. CASE sess # ls[t]
    <3>1. /\ UNCHANGED <<sess, faults, slot, pump, event, queue, late, owner, sent, turn, proc, evq>>
          /\ pc[t] = "restart"
          /\ \A u \in Threads \ {t} : pc'[u] = pc[u] /\ ls'[u] = ls[u]
      BY <1>3, <2>2, <1>t DEF Restart, db, told, bounds, Goto, Hold, ThreadsOK
    <3>2. Stay({t}) /\ Waiting' = Waiting
      BY <3>1, SameWaiting DEF Stay
    <3>3. ~Holds(t, sess) /\ ~Drains(t, sess)
      BY <2>2, <3>1 DEF Holds, Drains, Sending
    <3>4. /\ Busy(sess) => Busy(sess)'
          /\ Released(sess) => Drained(sess)'
      BY <3>1 DEF Busy, Released, Drained
    <3> QED
      BY <3>1, <3>2, <3>3, <3>4, <1>s, <1>m, ThreadsStep
  <2> QED
    BY <2>1, <2>2
<1>4. CASE Spawn(t)
  <2>1. /\ UNCHANGED <<sess, faults, slot, pump, event, queue, late, owner, sent, turn, evq>>
        /\ pc[t] = "spawn" /\ proc' = [proc EXCEPT ![used + 1] = "up"]
        /\ \A u \in Threads \ {t} : pc'[u] = pc[u] /\ ls'[u] = ls[u]
    BY <1>4, <1>t DEF Spawn, db, live, told, bounds, Goto, Hold, ThreadsOK
  <2>2. Stay({t}) /\ Waiting' = Waiting
    BY <2>1, SameWaiting DEF Stay
  <2>3. sess # 0 => proc'[sess] = proc[sess]
    <3>1. sess # used + 1
      BY <1>s, <1>t DEF Private, LiveOK, DriversOK
    <3> QED
      BY <2>1, <3>1, <1>g, <1>t DEF DriversOK
  <2>4. ~Holds(t, sess) /\ ~Drains(t, sess)
    BY <2>1 DEF Holds, Drains, Sending
  <2>5. sess # 0 => /\ Busy(sess) => Busy(sess)'
                    /\ Released(sess) => Drained(sess)'
    BY <2>1, <2>3 DEF Busy, Released, Drained
  <2> QED
    BY <2>1, <2>2, <2>4, <2>5, <1>s, <1>m, ThreadsStep
<1>5. CASE Register(t)
  <2>1. CASE sess = 0
    <3>1. pc'[t] = "start" /\ sess' = ls'[t]
      BY <1>5, <2>1, <1>t DEF Register, Goto, ThreadsOK
    <3>2. Sending(t, ls[t])' /\ Held(sess)' /\ Drained(sess)'
      BY <3>1 DEF Sending, Held, Drained, Holds, Drains
    <3> QED
      BY <3>2 DEF SlotOK
  <2>2. CASE sess # 0
    <3>1. /\ UNCHANGED <<sess, faults, slot, pump, event, queue, late, owner, sent, turn, evq>>
          /\ pc[t] = "register" /\ proc' = [proc EXCEPT ![ls[t]] = IF @ = "up" THEN "dying" ELSE @]
          /\ \A u \in Threads \ {t} : pc'[u] = pc[u] /\ ls'[u] = ls[u]
      BY <1>5, <2>2, <1>t DEF Register, db, told, bounds, Goto, Hold, Close, ThreadsOK
    <3>2. Stay({t}) /\ Waiting' = Waiting
      BY <3>1, SameWaiting DEF Stay
    <3>3. proc[sess] # "up" => proc'[sess] # "up"
      BY <2>2, <3>1, <1>g, <1>t DEF DriversOK
    <3>4. /\ ~Holds(t, sess) /\ ~Drains(t, sess)
          /\ Busy(sess) => Busy(sess)'
          /\ Released(sess) => Drained(sess)'
      BY <3>1, <3>3 DEF Holds, Drains, Sending, Busy, Released, Drained
    <3> QED
      BY <3>1, <3>2, <3>4, <1>s, <1>m, ThreadsStep
  <2> QED
    BY <2>1, <2>2
<1>6. CASE StartPump(t)
  <2>1. /\ UNCHANGED <<sess, faults, slot, event, ls, queue, late, owner, sent, turn, proc, evq>>
        /\ pc[t] = "start" /\ pc'[t] = "attach"
        /\ pump' = [pump EXCEPT ![ls[t]] = "read"]
        /\ \A u \in Threads \ {t} : pc'[u] = pc[u]
    BY <1>6, <1>t DEF StartPump, drivers, told, bounds, Goto, ThreadsOK
  <2>2. Stay({t}) /\ Waiting' = Waiting
    BY <2>1, SameWaiting DEF Stay
  <2>3. Sending(t, ls[t])'
    BY <2>1 DEF Sending
  <2>4. ASSUME ls[t] = sess PROVE Held(sess)' /\ Drained(sess)'
    BY <2>1, <2>3, <2>4 DEF Held, Drained, Holds, Drains
  <2>5. ASSUME ls[t] # sess, sess # 0
        PROVE  /\ ~Holds(t, sess) /\ ~Drains(t, sess)
               /\ Released(sess) => Drained(sess)'
    <3>1. pump'[sess] = pump[sess]
      BY <2>1, <2>5, <1>g, <1>t DEF LiveOK
    <3> QED
      BY <2>1, <2>5, <3>1 DEF Holds, Drains, Sending, Released, Drained
  <2>6. Busy(sess) => Busy(sess)'
    BY <2>1 DEF Busy
  <2> QED
    BY <2>1, <2>2, <2>4, <2>5, <2>6, <1>s, <1>m, ThreadsStep
<1>7. CASE WriteDriver(t)
  <2>1. /\ UNCHANGED <<sess, faults, slot, pump, event, ls, queue, late, owner>>
        /\ pc[t] = "write"
    BY <1>7 DEF WriteDriver, db, live, told, bounds
  <2>2. \A u \in Threads \ {t} : /\ pc'[u] = pc[u]
                                 /\ u \in Releasers => (sent'[u] <=> sent[u])
    BY <1>7, <1>t DEF WriteDriver, Goto, ThreadsOK
  <2>3. Stay({t}) /\ Waiting' = Waiting
    BY <2>1, <2>2, SameWaiting DEF Stay
  <2>4. sess # 0 => /\ Busy(sess) => Busy(sess)'
                    /\ Holds(t, sess) \/ Drains(t, sess) => Busy(sess)'
    <3>1. Holds(t, sess) \/ Drains(t, sess) => ls[t] = sess
      BY <2>1 DEF Holds, Drains, Sending
    <3>2. /\ \A g \in Gens : Busy(g) => Busy(g)'
          /\ ls[t] \in Gens => Busy(ls[t])'
      BY <1>7, <1>t, WriteBusy
    <3> QED
      BY <2>1, <3>1, <3>2, <1>g DEF Busy
  <2>5. /\ Busy(sess)' => Held(sess)' /\ Drained(sess)'
        /\ Released(sess) => Drained(sess)'
    BY <2>1 DEF Held, Drained, Released
  <2> QED
    BY <2>1, <2>3, <2>4, <2>5, <1>s, <1>m, ThreadsStep
<1> QED
  BY <1>1, <1>2, <1>3, <1>4, <1>5, <1>6, <1>7 DEF Send

\* A step that starts no thread's pump and ends none of the mapped session.
KeepsPump ==
  /\ sess' \in {sess, 0}
  /\ sess' # 0 => (pump[sess] \in {"read", "store", "mark", "unmap"}
                     => pump'[sess] \in {"read", "store", "mark", "unmap"})
  /\ \A t \in Threads : pc[t] = "start" => pc'[t] = "start" /\ ls'[t] = ls[t]

LEMMA KeepsPumpStep == Pumped /\ KeepsPump => Pumped'
BY DEF Pumped, KeepsPump

LEMMA PumpedStep ==
  ASSUME MappedInv, Pumped, [Next]_vars
  PROVE  Pumped'
<1>t. LiveOK /\ ThreadsOK
  BY DEF MappedInv, TypeInv, TypeOK
<1>g. sess # 0 => sess \in Gens
  BY <1>t DEF LiveOK, Gens
<1>1. ASSUME NEW g \in Gens, Driver(g) PROVE KeepsPump
  BY <1>1 DEF Driver, TurnEnd, SelfTurn, Crash, WaitExit, live, threads, KeepsPump
<1>2. ASSUME NEW g \in Gens, Pump(g) PROVE KeepsPump
  <2>1. CASE PumpUnmap(g)
    BY <2>1 DEF PumpUnmap, Unmap, KeepsPump, threads
  <2>2. CASE PumpStore(g)
    <3>1. sess' = sess /\ ls' = ls /\ pump' = [pump EXCEPT ![g] = "read"]
      BY <2>2 DEF PumpStore
    <3>2. \A t \in Threads : pc[t] = "start" => pc'[t] = "start"
      BY <2>2, <1>t DEF PumpStore, StartRelease, Goto, ThreadsOK
    <3> QED
      BY <3>1, <3>2, <1>t, <1>g DEF KeepsPump, LiveOK
  <2>3. CASE PumpClosed(g)
    <3>1. /\ sess' = sess /\ ls' = ls /\ pc' = pc
          /\ pump' = [pump EXCEPT ![g] = IF superseded[g] THEN "done" ELSE "mark"]
      BY <2>3 DEF PumpClosed, threads
    <3>2. sess # 0 => ~superseded[sess]
      BY DEF MappedInv, Mapped, SupersededUnmapped
    <3> QED
      BY <3>1, <3>2, <1>t, <1>g DEF KeepsPump, LiveOK
  <2>4. CASE PumpRead(g) \/ PumpStoreFails(g) \/ PumpMarkDead(g)
    <3>1. /\ sess' = sess /\ ls' = ls /\ pc' = pc
          /\ \E v \in {"read", "store", "unmap"} : pump' = [pump EXCEPT ![g] = v]
      BY <2>4 DEF PumpRead, PumpStoreFails, PumpMarkDead, threads
    <3> QED
      BY <3>1, <1>t, <1>g DEF KeepsPump, LiveOK
  <2> QED
    BY <1>2, <2>1, <2>2, <2>3, <2>4 DEF Pump
<1>3. ASSUME NEW m \in Msgs, Request(m) PROVE KeepsPump
  BY <1>3, <1>t DEF Request, RequestSend, RequestEnqueue, EnqueueClaim, EnqueueInsert,
     EnqueueFails, CancelQueued, SendFails, Goto, Hold, KeepsPump, live, threads, ThreadsOK
<1>4. ASSUME NEW r \in Releasers, Release(r) PROVE KeepsPump
  BY <1>4, <1>t DEF Release, ReleaseClaim, ReleaseLook, ReleaseGiveBack, ReleasePop,
     ReleaseEmpty, ReleasePopFails, Goto, KeepsPump, live, ThreadsOK
<1>5. ASSUME NEW t \in Threads, Send(t) PROVE Pumped'
  <2>1. CASE Register(t)
    <3>1. CASE sess = 0
      <4>1. sess' = ls[t] /\ ls' = ls /\ pc'[t] = "start"
        BY <2>1, <3>1, <1>t DEF Register, Goto, ThreadsOK
      <4> QED
        BY <4>1 DEF Pumped
    <3>2. CASE sess # 0
      <4>1. KeepsPump
        BY <2>1, <3>2, <1>t DEF Register, Goto, Hold, ThreadsOK, KeepsPump
      <4> QED
        BY <4>1, KeepsPumpStep
    <3> QED
      BY <3>1, <3>2
  <2>2. CASE StartPump(t)
    <3>1. /\ sess' = sess /\ ls' = ls /\ pump' = [pump EXCEPT ![ls[t]] = "read"]
          /\ \A u \in Threads \ {t} : pc'[u] = pc[u]
      BY <2>2, <1>t DEF StartPump, Goto, ThreadsOK
    <3>2. CASE sess # 0 /\ ls[t] = sess
      BY <3>1, <3>2, <1>t, <1>g DEF Pumped, LiveOK
    <3>3. CASE sess # 0 /\ ls[t] # sess
      <4>1. pump'[sess] = pump[sess]
        BY <3>1, <3>3, <1>t, <1>g DEF LiveOK
      <4> QED
        BY <3>1, <3>3, <4>1 DEF Pumped
    <3> QED
      BY <3>1, <3>2, <3>3 DEF Pumped
  <2>3. CASE ~Register(t) /\ ~StartPump(t)
    <3>1. KeepsPump
      BY <1>5, <2>3, <1>t DEF Send, SendGet, SendCheckStale, Restart, Revive, Spawn,
         SpawnFails, Attach, AppendUser, AppendUserFails, WriteDriver, SendFails, Goto,
         Hold, Unmap, KeepsPump, live, ThreadsOK
    <3> QED
      BY <3>1, KeepsPumpStep
  <2> QED
    BY <2>1, <2>2, <2>3
<1>6. ASSUME NEW s \in Subs, Subscribe(s) PROVE KeepsPump
  BY <1>6 DEF Subscribe, SubscribeGet, SubscribeAdd, KeepsPump, live, threads
<1>7. ASSUME NEW x \in Setters, Settings(x) PROVE KeepsPump
  BY <1>7 DEF Settings, SettingsGet, SettingsSave, SettingsApply, KeepsPump, live, threads
<1>8. CASE ServerRestart
  BY <1>8 DEF ServerRestart, Pumped
<1>9. CASE UNCHANGED vars
  <2>1. UNCHANGED <<sess, pump, pc, ls>>
    BY <1>9 DEF vars, live, threads
  <2> QED
    BY <2>1, KeepsPumpStep DEF KeepsPump
<1> QED
  BY <1>1, <1>2, <1>3, <1>4, <1>5, <1>6, <1>7, <1>8, <1>9, KeepsPumpStep DEF Next

\* The channels of the drivers, and the turns they tell of.
LEMMA LastToldStep ==
  ASSUME MappedInv, LastTold, NeverFull, [Next]_vars
  PROVE  LastTold'
<1>t. DriversOK
  BY DEF MappedInv, TypeInv, TypeOK
<1>e. /\ "idle" \in {"idle", "running"} /\ "running" \in {"idle", "running"}
      /\ \A g \in Gens : evq[g] \in Seq({"idle", "running"})
  BY <1>t DEF DriversOK
<1>u. UNCHANGED <<turn, evq>> => LastTold'
  BY DEF LastTold
<1>b. ASSUME NEW g \in Gens, BeginTurn(g) PROVE LastTold'
  <2>1. CASE turn[g]
    BY <1>b, <2>1, <1>u DEF BeginTurn
  <2>2. CASE ~turn[g]
    <3>1. /\ turn' = [turn EXCEPT ![g] = TRUE]
          /\ evq' = [evq EXCEPT ![g] = Append(@, "running")]
      BY <1>b, <2>2 DEF BeginTurn, Emit, NeverFull
    <3>2. /\ turn'[g] /\ \A h \in Gens \ {g} : (turn'[h] <=> turn[h]) /\ evq'[h] = evq[h]
      BY <3>1, <1>t DEF DriversOK
    <3> QED
      BY <3>2 DEF LastTold
  <2> QED
    BY <2>1, <2>2
<1>1. ASSUME NEW g \in Gens, Driver(g) PROVE LastTold'
  <2>1. CASE TurnEnd(g)
    <3>1. /\ turn' = [turn EXCEPT ![g] = FALSE]
          /\ evq' = [evq EXCEPT ![g] = Append(@, "idle")]
      BY <2>1 DEF TurnEnd, Emit, NeverFull
    <3>2. /\ evq'[g] = Append(evq[g], "idle")
          /\ \A h \in Gens \ {g} : (turn'[h] <=> turn[h]) /\ evq'[h] = evq[h]
      BY <3>1, <1>t DEF DriversOK
    <3>3. Last(evq'[g]) = "idle"
      BY <3>2, <1>e, AppendLast
    <3>4. ASSUME NEW h \in Gens, evq'[h] # <<>>, Last(evq'[h]) = "running" PROVE turn'[h]
      <4>1. h # g
        BY <3>3, <3>4
      <4> QED
        BY <3>2, <3>4, <4>1 DEF LastTold
    <3> QED
      BY <3>4 DEF LastTold, Last
  <2>2. CASE SelfTurn(g)
    BY <2>2, <1>b DEF SelfTurn
  <2>3. CASE Crash(g) \/ WaitExit(g)
    BY <2>3, <1>u DEF Crash, WaitExit
  <2> QED
    BY <1>1, <2>1, <2>2, <2>3 DEF Driver
<1>2. ASSUME NEW g \in Gens, Pump(g) PROVE LastTold'
  <2>1. CASE PumpRead(g)
    <3>1. turn' = turn /\ evq[g] # <<>> /\ evq' = [evq EXCEPT ![g] = Tail(@)]
      BY <2>1 DEF PumpRead
    <3>2. evq'[g] = Tail(evq[g]) /\ \A h \in Gens \ {g} : evq'[h] = evq[h]
      BY <3>1, <1>t DEF DriversOK
    <3>3. evq'[g] # <<>> => Last(evq'[g]) = Last(evq[g])
      BY <3>1, <3>2, <1>e, TailLast
    <3>4. ASSUME NEW h \in Gens, evq'[h] # <<>>, Last(evq'[h]) = "running" PROVE turn'[h]
      BY <3>1, <3>2, <3>3, <3>4 DEF LastTold
    <3> QED
      BY <3>4 DEF LastTold, Last
  <2>2. CASE ~PumpRead(g)
    BY <1>2, <2>2, <1>u DEF Pump, PumpStore, PumpStoreFails, PumpClosed, PumpMarkDead,
       PumpUnmap, drivers
  <2> QED
    BY <2>1, <2>2
<1>3. ASSUME NEW m \in Msgs, Request(m) PROVE LastTold'
  BY <1>3, <1>u DEF Request, RequestSend, RequestEnqueue, EnqueueClaim, EnqueueInsert,
     EnqueueFails, CancelQueued, drivers
<1>4. ASSUME NEW r \in Releasers, Release(r) PROVE LastTold'
  BY <1>4, <1>u DEF Release, ReleaseClaim, ReleaseLook, ReleaseGiveBack, ReleasePop,
     ReleaseEmpty, ReleasePopFails, drivers
<1>5. ASSUME NEW t \in Threads, Send(t) PROVE LastTold'
  <2>1. CASE WriteDriver(t)
    <3>1. \/ UNCHANGED <<turn, evq>>
          \/ proc[ls[t]] # "down" /\ ls[t] \in Gens /\ BeginTurn(ls[t])
      <4>1. pc[t] = "write"
        BY <2>1 DEF WriteDriver
      <4>2. ls[t] \in Gens \/ UNCHANGED <<turn, evq>>
        <5>1. ls[t] \in 0..MaxGen
          BY DEF MappedInv, TypeInv, TypeOK, ThreadsOK
        <5>2. CASE ls[t] = 0
          <6>1. CASE proc[0] = "down" \/ turn[0]
            BY <2>1, <5>2, <6>1 DEF WriteDriver, BeginTurn
          <6>2. CASE proc[0] # "down" /\ ~turn[0]
            <7>1. /\ turn' = [turn EXCEPT ![0] = TRUE]
                  /\ evq' = evq \/ evq' = [evq EXCEPT ![0] = Append(@, "running")]
              BY <2>1, <5>2, <6>2 DEF WriteDriver, BeginTurn, Emit
            <7>2. 0 \notin Gens
              BY DEF Gens
            <7>3. turn' = turn
              BY <7>1, <7>2, <1>t DEF DriversOK
            <7>4. evq' = evq
              BY <7>1, <7>2, <1>t DEF DriversOK
            <7> QED
              BY <7>3, <7>4
          <6> QED
            BY <6>1, <6>2
        <5>3. ls[t] # 0 => ls[t] \in Gens
          BY <5>1 DEF Gens
        <5> QED
          BY <5>2, <5>3
      <4> QED
        BY <2>1, <4>2 DEF WriteDriver
    <3> QED
      BY <3>1, <1>u, <1>b
  <2>2. CASE ~WriteDriver(t)
    BY <1>5, <2>2, <1>u DEF Send, SendGet, SendCheckStale, Restart, Revive, Spawn,
       SpawnFails, Register, StartPump, Attach, AppendUser, AppendUserFails, drivers
  <2> QED
    BY <2>1, <2>2
<1>6. ASSUME NEW s \in Subs, Subscribe(s) PROVE LastTold'
  BY <1>6, <1>u DEF Subscribe, SubscribeGet, SubscribeAdd, drivers
<1>7. ASSUME NEW x \in Setters, Settings(x) PROVE LastTold'
  BY <1>7, <1>u DEF Settings, SettingsGet, SettingsSave, SettingsApply, drivers
<1>8. CASE ServerRestart
  BY <1>8 DEF ServerRestart, LastTold
<1>9. CASE UNCHANGED vars
  BY <1>9, <1>u DEF vars, drivers
<1> QED
  BY <1>1, <1>2, <1>3, <1>4, <1>5, <1>6, <1>7, <1>8, <1>9 DEF Next

\* A releaser has sent something only after it has popped.
LEMMA NotYetSentStep ==
  ASSUME MappedInv, NotYetSent, [Next]_vars
  PROVE  NotYetSent'
<1> DEFINE Unsent(r) == pc'[r] \in {"claim", "look"} =>
                         pc[r] \in {"claim", "look"} /\ (sent'[r] <=> sent[r])
<1>t. ThreadsOK
  BY DEF MappedInv, TypeInv, TypeOK
<1>m. \A r \in Releasers : r \in Threads /\ r \notin Msgs
  BY ManagerAssumption DEF Threads
<1>k. (\A r \in Releasers : Unsent(r)) => NotYetSent'
  BY DEF NotYetSent
<1>1. ASSUME NEW g \in Gens, Driver(g) PROVE \A r \in Releasers : Unsent(r)
  <2>1. pc' = pc /\ sent' = sent
    BY <1>1 DEF Driver, TurnEnd, SelfTurn, Crash, WaitExit, threads
  <2> QED
    BY <2>1
<1>2. ASSUME NEW g \in Gens, Pump(g) PROVE NotYetSent'
  <2>1. CASE PumpStore(g) /\ event[g] = "idle"
    <3>1. PICK r \in Releasers :
            pc' = [pc EXCEPT ![r] = "claim"] /\ sent' = [sent EXCEPT ![r] = FALSE]
      BY <2>1 DEF PumpStore, StartRelease, Goto
    <3>2. ~sent'[r] /\ \A u \in Releasers \ {r} : pc'[u] = pc[u] /\ (sent'[u] <=> sent[u])
      BY <3>1, <1>t, <1>m DEF ThreadsOK
    <3> QED
      BY <3>2 DEF NotYetSent
  <2>2. CASE ~(PumpStore(g) /\ event[g] = "idle")
    <3>1. pc' = pc /\ sent' = sent
      BY <1>2, <2>2 DEF Pump, PumpRead, PumpStore, PumpStoreFails, PumpClosed, PumpMarkDead,
         PumpUnmap, threads
    <3> QED
      BY <3>1, <1>k
  <2> QED
    BY <2>1, <2>2
<1>3. ASSUME NEW m \in Msgs, Request(m) PROVE \A r \in Releasers : Unsent(r)
  <2>1. sent' = sent
    BY <1>3 DEF Request, RequestSend, RequestEnqueue, EnqueueClaim, EnqueueInsert,
       EnqueueFails, CancelQueued, SendFails, threads
  <2>2. ASSUME NEW r \in Releasers PROVE pc'[r] = pc[r]
    BY <1>3, <1>t, <1>m DEF Request, RequestSend, RequestEnqueue, EnqueueClaim,
       EnqueueInsert, EnqueueFails, CancelQueued, SendFails, Goto, threads, ThreadsOK
  <2> QED
    BY <2>1, <2>2
<1>4. ASSUME NEW r \in Releasers, Release(r) PROVE \A u \in Releasers : Unsent(u)
  <2>1. sent' = sent
    BY <1>4 DEF Release, ReleaseClaim, ReleaseLook, ReleaseGiveBack, ReleasePop,
       ReleaseEmpty, ReleasePopFails
  <2>2. ASSUME NEW u \in Releasers
        PROVE  pc'[u] \in {"claim", "look"} => pc[u] \in {"claim", "look"}
    BY <1>4, <1>t, <1>m DEF Release, ReleaseClaim, ReleaseLook, ReleaseGiveBack, ReleasePop,
       ReleaseEmpty, ReleasePopFails, Goto, ThreadsOK
  <2> QED
    BY <2>1, <2>2
<1>5. ASSUME NEW t \in Threads, Send(t) PROVE \A u \in Releasers : Unsent(u)
  <2>1. pc'[t] \notin {"claim", "look"} /\ \A u \in Threads \ {t} : pc'[u] = pc[u]
    BY <1>5, <1>t DEF Send, SendGet, SendCheckStale, Restart, Revive, Spawn, SpawnFails,
       Register, StartPump, Attach, AppendUser, AppendUserFails, WriteDriver, SendFails,
       Goto, ThreadsOK
  <2>2. \A u \in Releasers \ {t} : sent'[u] <=> sent[u]
    BY <1>5, <1>t DEF Send, SendGet, SendCheckStale, Restart, Revive, Spawn, SpawnFails,
       Register, StartPump, Attach, AppendUser, AppendUserFails, WriteDriver, SendFails,
       ThreadsOK
  <2> QED
    BY <2>1, <2>2, <1>m
<1>6. ASSUME NEW s \in Subs, Subscribe(s) PROVE \A r \in Releasers : Unsent(r)
  <2>1. pc' = pc /\ sent' = sent
    BY <1>6 DEF Subscribe, SubscribeGet, SubscribeAdd, threads
  <2> QED
    BY <2>1
<1>7. ASSUME NEW x \in Setters, Settings(x) PROVE \A r \in Releasers : Unsent(r)
  <2>1. pc' = pc /\ sent' = sent
    BY <1>7 DEF Settings, SettingsGet, SettingsSave, SettingsApply, threads
  <2> QED
    BY <2>1
<1>8. CASE ServerRestart
  <2>1. \A r \in Releasers : pc'[r] = "free"
    BY <1>8, <1>m DEF ServerRestart
  <2> QED
    BY <2>1 DEF NotYetSent
<1>9. CASE UNCHANGED vars
  <2>1. UNCHANGED <<pc, sent>>
    BY <1>9 DEF vars, threads
  <2> QED
    BY <2>1 DEF NotYetSent
<1> HIDE DEF Unsent
<1> QED
  BY <1>k, <1>1, <1>2, <1>3, <1>4, <1>5, <1>6, <1>7, <1>8, <1>9 DEF Next

\* Every step keeps the slot held and the queue looked at.
LEMMA SlotStep == SlotInv /\ NeverFull /\ [Next]_vars => SlotInv'
<1> SUFFICES ASSUME SlotInv, NeverFull, [Next]_vars PROVE SlotOK'
  BY MappedStep, PumpedStep, LastToldStep, NotYetSentStep DEF SlotInv
<1>q. UNCHANGED <<sess, faults, slot, pump, event, pc, ls, owner, sent, queue, late, turn,
                  proc, evq>> => SlotOK'
  <2> SUFFICES ASSUME UNCHANGED <<sess, faults, slot, pump, event, pc, ls, owner, sent,
                                  queue, late, turn, proc, evq>>
               PROVE  SlotOK'
    OBVIOUS
  <2>1. Stay({}) /\ Waiting' = Waiting
    BY SameWaiting DEF Stay
  <2>2. /\ Busy(sess) => Busy(sess)'
        /\ Released(sess) => Drained(sess)'
    BY DEF Busy, Released, Drained
  <2>3. SlotOK
    BY DEF SlotInv
  <2> QED
    BY <2>1, <2>2, <2>3, ThreadsStep
<1>1. ASSUME NEW s \in Subs, Subscribe(s) PROVE SlotOK'
  BY <1>1, <1>q DEF Subscribe, SubscribeGet, SubscribeAdd, db, live, drivers, threads, told, bounds
<1>2. ASSUME NEW x \in Setters, Settings(x) PROVE SlotOK'
  BY <1>2, <1>q DEF Settings, SettingsGet, SettingsSave, SettingsApply, db, live, drivers,
     threads, told, bounds, ApplySettings
<1>3. CASE ServerRestart
  BY <1>3 DEF ServerRestart, SlotOK
<1>4. CASE UNCHANGED vars
  BY <1>4, <1>q DEF vars, db, live, drivers, threads, told, bounds
<1> QED
  BY <1>1, <1>2, <1>3, <1>4, DriverSlot, PumpSlot, RequestSlot, ReleaseSlot, SendSlot DEF Next

LEMMA SlotInit == Init => SlotInv
<1> SUFFICES ASSUME NEW up \in BOOLEAN, InitWith(up)
             PROVE  Pumped /\ LastTold /\ NotYetSent /\ SlotOK
  BY MappedInit DEF Init, SlotInv
<1>1. sess # 0 => sess \in Gens /\ pump[sess] = "read" /\ slot[sess] = "idle"
  BY ManagerAssumption DEF InitWith, Gens
<1>2. Waiting = {}
  BY DEF InitWith, Waiting, Queued
<1>3. /\ \A g \in Gens : evq[g] = <<>>
      /\ \A r \in Releasers : ~sent[r]
  BY DEF InitWith
<1> QED
  BY <1>1, <1>2, <1>3 DEF Pumped, LastTold, NotYetSent, SlotOK

\* At rest nobody but a turn holds a slot or is to look into the queue.
LEMMA RestHolds ==
  ASSUME SlotInv, AtRest, sess # 0
  PROVE  /\ Held(sess) => turn[sess]
         /\ Drained(sess) => turn[sess]
<1>1. \A t \in Threads : pc[t] \in {"free", "done"}
  BY DEF AtRest
<1>2. \A t \in Threads : ~Holds(t, sess) /\ ~Drains(t, sess)
  BY <1>1 DEF Holds, Drains, Sending
<1>3. sess \in Gens
  BY DEF SlotInv, MappedInv, TypeInv, TypeOK, LiveOK, Gens
<1>4. pump[sess] = "read"
  BY <1>1, <1>3 DEF SlotInv, Pumped, AtRest
<1>5. evq[sess] = <<>> /\ proc[sess] = "up"
  BY <1>3, <1>4 DEF AtRest
<1> QED
  BY <1>2, <1>4, <1>5 DEF Held, Drained, Busy, Released

\* Enqueue, releaseQueued and pump (manager.go): a slot that is taken is given
\* back, as long as no events channel is ever full, so that no event is dropped.
THEOREM SlotGivenBack == Spec /\ []NeverFull => []SlotNotLeaked
<1>1. SlotInv => SlotNotLeaked
  BY RestHolds DEF SlotNotLeaked, SlotInv, SlotOK
<1> QED
  BY <1>1, SlotInit, SlotStep, PTL DEF Spec

\* releaseQueued and Enqueue (manager.go): what is queued behind a turn does not
\* wait for another message to be sent, under the same condition.
THEOREM QueueLooksAgain == Spec /\ []NeverFull => []StrandedOnlyIfLate
<1>1. SlotInv => StrandedOnlyIfLate
  BY RestHolds DEF StrandedOnlyIfLate, SlotInv, SlotOK, Waiting
<1> QED
  BY <1>1, SlotInit, SlotStep, PTL DEF Spec
=============================================================================
