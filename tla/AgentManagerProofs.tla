------------------------- MODULE AgentManagerProofs -------------------------
(***************************************************************************)
(* What holds of AgentManager for every number of messages, processes,     *)
(* goroutines and failures.                                                *)
(***************************************************************************)
EXTENDS AgentManager, TLAPS, WellFoundedInduction

-----------------------------------------------------------------------------
(***************************************************************************)
(* The key an INSERT takes.                                                *)
(***************************************************************************)
KeysBounded(K) == \E n \in Nat : \A k \in K : k <= n

\* A bounded nonempty set of naturals has a greatest element.
LEMMA MaxExists ==
  ASSUME NEW K, K \subseteq Nat, K # {}, KeysBounded(K)
  PROVE  Max(K) \in K /\ \A k \in K : k <= Max(K)
<1> DEFINE Bounds == {n \in Nat : \A k \in K : k <= n}
<1>1. Bounds \subseteq Nat /\ Bounds # {}
  BY DEF KeysBounded
<1>2. PICK top \in Bounds : \A n \in Bounds : ~ (<<n, top>> \in OpToRel(<, Nat))
  BY <1>1, WFMin, NatLessThanWellFounded, Zenon
<1>3. \A n \in Bounds : top <= n
  <2>1. \A n \in Bounds : ~ (n < top)
    BY <1>1, <1>2, Zenon DEF OpToRel
  <2> QED
    BY <2>1
<1>4. top \in K
  <2>1. SUFFICES ASSUME top \notin K PROVE FALSE
    OBVIOUS
  <2>2. \A k \in K : k < top
    BY <2>1
  <2>3. PICK k \in K : TRUE
    OBVIOUS
  <2>4. top # 0
    BY <2>2, <2>3
  <2>5. top - 1 \in Bounds
    BY <2>2, <2>4
  <2> QED
    BY <2>5, <1>3
<1>5. \E x \in K : \A y \in K : x >= y
  BY <1>4
<1>6. Max(K) \in K /\ \A y \in K : Max(K) >= y
  BY <1>5, Zenon DEF Max
<1> QED
  BY <1>6

\* MAX(key)+1 is a positive number above every key in use.
LEMMA NextKeyAbove ==
  ASSUME NEW K, K \subseteq Nat, KeysBounded(K)
  PROVE  NextKey(K) \in Nat \ {0} /\ \A k \in K : k < NextKey(K)
<1>1. CASE K = {}
  BY <1>1 DEF NextKey
<1>2. CASE K # {}
  <2>1. Max(K) \in K /\ \A k \in K : k <= Max(K)
    BY <1>2, MaxExists
  <2>2. NextKey(K) = Max(K) + 1
    BY <1>2, Zenon DEF NextKey
  <2>3. Max(K) \in Nat
    BY <2>1
  <2> QED
    BY <2>1, <2>2, <2>3
<1> QED
  BY <1>1, <1>2

-----------------------------------------------------------------------------
(***************************************************************************)
(* Type correctness.                                                       *)
(***************************************************************************)
\* What a goroutine may do with a message in its hands, and what a request
\* and a releaser never do.
SendSteps == {"send", "stale?", "restart", "revive", "spawn", "register",
              "start", "attach", "append"}
HandsOK ==
  /\ \A m \in Msgs : /\ carry[m] \in {m, None}
                     /\ carry[m] = m <=> pc[m] \in SendSteps \cup {"claim", "insert"}
                     /\ pc[m] \notin {"look", "pop", "giveback"}
  /\ \A r \in Releasers : /\ carry[r] # None <=> pc[r] \in SendSteps
                          /\ pc[r] \notin {"insert", "done"}
  /\ \A t \in Threads : pc[t] \in {"stale?", "restart"} => ls[t] # 0

KeysOK  == KeysBounded(QueueIds(queue))
TypeInv == TypeOK /\ KeysOK /\ HandsOK

\* A group of variables a step leaves alone keeps its type.
LEMMA Untouched ==
  /\ DbOK /\ UNCHANGED db => DbOK'
  /\ LiveOK /\ UNCHANGED live => LiveOK'
  /\ DriversOK /\ UNCHANGED drivers => DriversOK'
  /\ ThreadsOK /\ UNCHANGED threads => ThreadsOK'
  /\ ClientsOK /\ UNCHANGED clients => ClientsOK'
  /\ ToldOK /\ UNCHANGED told => ToldOK'
  /\ BoundsOK /\ UNCHANGED bounds => BoundsOK'
BY DEF db, live, drivers, threads, clients, told, bounds, DbOK, LiveOK,
       DriversOK, ThreadsOK, ClientsOK, ToldOK, BoundsOK

\* emit keeps the type of the events channels.
LEMMA EmitTypes ==
  ASSUME DriversOK, NEW g, NEW state \in {"idle", "running"}, Emit(g, state)
  PROVE  evq' \in [Gens -> Seq({"idle", "running"})]
<1>1. CASE g \in Gens
  <2>1. Append(evq[g], state) \in Seq({"idle", "running"})
    BY <1>1 DEF DriversOK
  <2> QED
    BY <2>1 DEF DriversOK, Emit
<1>2. CASE g \notin Gens
  BY <1>2 DEF DriversOK, Emit
<1> QED
  BY <1>1, <1>2

\* markRunning keeps the types of the drivers' turns and channels.
LEMMA BeginTurnTypes ==
  ASSUME DriversOK, NEW g, BeginTurn(g)
  PROVE  /\ turn' \in [Gens -> BOOLEAN]
         /\ evq' \in [Gens -> Seq({"idle", "running"})]
<1>1. CASE turn[g]
  BY <1>1 DEF DriversOK, BeginTurn
<1>2. CASE ~turn[g]
  BY <1>2, EmitTypes DEF DriversOK, BeginTurn
<1> QED
  BY <1>1, <1>2

\* A failing Send keeps the types of threads and of what users were told.
LEMMA SendFailsTypes ==
  ASSUME ThreadsOK, ToldOK, NEW t \in Threads, carry[t] # None, SendFails(t)
  PROVE  ThreadsOK' /\ ToldOK'
<1>1. carry[t] \in Msgs
  BY DEF ThreadsOK
<1>2. ThreadsOK'
  BY DEF ThreadsOK, SendFails, Goto, Steps, Threads
<1>3. ToldOK'
  BY <1>1 DEF ToldOK, SendFails
<1> QED
  BY <1>2, <1>3

\* Every step keeps the types, action by action, group by group.
LEMMA TypeStep == TypeInv /\ [Next]_vars => TypeOK'
<1> SUFFICES ASSUME TypeInv, [Next]_vars PROVE TypeOK'
  OBVIOUS
<1> USE ManagerAssumption DEF TypeInv, TypeOK
<1>b. \A t \in Threads : pc[t] \in SendSteps => carry[t] \in Msgs /\ carry[t] # None
  BY DEF HandsOK, Threads, ThreadsOK
<1>e. \A m \in Msgs : pc[m] = "insert" => carry[m] \in Msgs /\ carry[m] # None
  BY DEF HandsOK
<1>f. \A t \in Threads : pc[t] = "restart" /\ sess = ls[t] =>
        subs[sess] \in SUBSET Subs
  BY DEF HandsOK, LiveOK, Gens
<1>g. Gens \subseteq 0..MaxGen
  BY DEF Gens
<1>c. \A g \in Gens : evq[g] # <<>> =>
        Head(evq[g]) \in {"idle", "running"} /\ Tail(evq[g]) \in Seq({"idle", "running"})
  BY DEF DriversOK
<1>d. NextQueueId(queue) \in Nat \ {0}
  <2>1. QueueIds(queue) \subseteq Nat
    BY DEF DbOK, Rows, QueueIds
  <2> QED
    BY <2>1, NextKeyAbove DEF KeysOK, NextQueueId
<1>1. ASSUME NEW g \in Gens, TurnEnd(g) PROVE TypeOK'
  <2>1. DriversOK'
    BY <1>1, EmitTypes DEF TurnEnd, DriversOK
  <2> QED
    BY <1>1, <2>1, Untouched DEF TurnEnd, TypeOK
<1>2. ASSUME NEW g \in Gens, SelfTurn(g) PROVE TypeOK'
  <2>1. DriversOK'
    BY <1>2, BeginTurnTypes DEF SelfTurn, DriversOK
  <2>2. BoundsOK'
    BY <1>2 DEF SelfTurn, BoundsOK
  <2> QED
    BY <1>2, <2>1, <2>2, Untouched DEF SelfTurn, TypeOK
<1>3. ASSUME NEW g \in Gens, Crash(g) PROVE TypeOK'
  <2>1. DriversOK'
    BY <1>3 DEF Crash, DriversOK, Close
  <2>2. BoundsOK'
    BY <1>3 DEF Crash, BoundsOK, Close
  <2> QED
    BY <1>3, <2>1, <2>2, Untouched DEF Crash, TypeOK, Close
<1>4. ASSUME NEW g \in Gens, WaitExit(g) PROVE TypeOK'
  <2>1. DriversOK'
    BY <1>4 DEF WaitExit, DriversOK
  <2> QED
    BY <1>4, <2>1, Untouched DEF WaitExit, TypeOK
<1>5. ASSUME NEW g \in Gens, PumpRead(g) PROVE TypeOK'
  <2>1. LiveOK'
    BY <1>5, <1>c DEF PumpRead, LiveOK
  <2>2. DriversOK'
    BY <1>5 DEF PumpRead, DriversOK
  <2> QED
    BY <1>5, <2>1, <2>2, Untouched DEF PumpRead, TypeOK
<1>6. ASSUME NEW g \in Gens, PumpStore(g) PROVE TypeOK'
  <2>1. DbOK'
    BY <1>6 DEF PumpStore, DbOK, LiveOK, StartRelease, Goto
  <2>2. LiveOK'
    BY <1>6 DEF PumpStore, LiveOK, StartRelease, Goto
  <2>3. ThreadsOK'
    BY <1>6, <1>g DEF PumpStore, ThreadsOK, Steps, Threads, StartRelease, Goto
  <2> QED
    BY <1>6, <2>1, <2>2, <2>3, Untouched DEF PumpStore, TypeOK, StartRelease, Goto
<1>7. ASSUME NEW g \in Gens, PumpStoreFails(g) PROVE TypeOK'
  <2>1. LiveOK'
    BY <1>7 DEF PumpStoreFails, LiveOK
  <2>2. BoundsOK'
    BY <1>7 DEF PumpStoreFails, BoundsOK
  <2> QED
    BY <1>7, <2>1, <2>2, Untouched DEF PumpStoreFails, TypeOK
<1>8. ASSUME NEW g \in Gens, PumpClosed(g) PROVE TypeOK'
  <2>1. LiveOK'
    BY <1>8 DEF PumpClosed, LiveOK
  <2> QED
    BY <1>8, <2>1, Untouched DEF PumpClosed, TypeOK
<1>9. ASSUME NEW g \in Gens, PumpMarkDead(g) PROVE TypeOK'
  <2>1. DbOK'
    BY <1>9 DEF PumpMarkDead, DbOK
  <2>2. LiveOK'
    BY <1>9 DEF PumpMarkDead, LiveOK
  <2> QED
    BY <1>9, <2>1, <2>2, Untouched DEF PumpMarkDead, TypeOK
<1>10. ASSUME NEW g \in Gens, PumpUnmap(g) PROVE TypeOK'
  <2>1. LiveOK'
    BY <1>10 DEF PumpUnmap, LiveOK, Unmap
  <2>2. ToldOK'
    BY <1>10 DEF PumpUnmap, ToldOK, LiveOK, Unmap
  <2> QED
    BY <1>10, <2>1, <2>2, Untouched DEF PumpUnmap, TypeOK, Unmap
<1>11. ASSUME NEW m \in Msgs, RequestSend(m) PROVE TypeOK'
  <2>1. ThreadsOK'
    BY <1>11 DEF RequestSend, ThreadsOK, Goto, Steps
  <2> QED
    BY <1>11, <2>1, Untouched DEF RequestSend, TypeOK
<1>12. ASSUME NEW m \in Msgs, RequestEnqueue(m) PROVE TypeOK'
  <2>1. ThreadsOK'
    BY <1>12 DEF RequestEnqueue, ThreadsOK, Goto, Hold, Steps, LiveOK, Threads
  <2> QED
    BY <1>12, <2>1, Untouched DEF RequestEnqueue, TypeOK
<1>13. ASSUME NEW m \in Msgs, EnqueueClaim(m) PROVE TypeOK'
  <2>1. LiveOK'
    BY <1>13 DEF EnqueueClaim, LiveOK
  <2>2. ThreadsOK'
    BY <1>13 DEF EnqueueClaim, ThreadsOK, Goto, Steps
  <2> QED
    BY <1>13, <2>1, <2>2, Untouched DEF EnqueueClaim, TypeOK
<1>14. ASSUME NEW m \in Msgs, EnqueueInsert(m) PROVE TypeOK'
  <2>1. carry[m] \in Msgs /\ carry[m] # None
    BY <1>14, <1>e DEF EnqueueInsert
  <2>2. DbOK'
    BY <1>14, <2>1, <1>d DEF EnqueueInsert, DbOK, ThreadsOK, Rows
  <2>3. ThreadsOK'
    BY <1>14 DEF EnqueueInsert, ThreadsOK, Threads, Goto, Steps
  <2>4. ToldOK'
    BY <1>14, <1>d DEF EnqueueInsert, ToldOK
  <2> QED
    BY <1>14, <2>1, <2>2, <2>3, <2>4, Untouched DEF EnqueueInsert, TypeOK
<1>15. ASSUME NEW m \in Msgs, EnqueueFails(m) PROVE TypeOK'
  <2>1. carry[m] \in Msgs /\ carry[m] # None
    BY <1>15, <1>e DEF EnqueueFails
  <2>2. ThreadsOK'
    BY <1>15, SendFailsTypes, <2>1 DEF EnqueueFails, Threads
  <2>3. ToldOK'
    BY <1>15, SendFailsTypes, <2>1 DEF EnqueueFails, Threads
  <2>4. BoundsOK'
    BY <1>15 DEF EnqueueFails, BoundsOK
  <2> QED
    BY <1>15, <2>1, <2>2, <2>3, <2>4, Untouched DEF EnqueueFails, TypeOK
<1>16. ASSUME NEW m \in Msgs, CancelQueued(m) PROVE TypeOK'
  <2>1. DbOK'
    BY <1>16 DEF CancelQueued, DbOK
  <2>2. ToldOK'
    BY <1>16 DEF CancelQueued, ToldOK, DbOK, Rows, RowsWithId
  <2> QED
    BY <1>16, <2>1, <2>2, Untouched DEF CancelQueued, TypeOK
<1>17. ASSUME NEW r \in Releasers, ReleaseClaim(r) PROVE TypeOK'
  <2>1. LiveOK'
    BY <1>17 DEF ReleaseClaim, LiveOK
  <2>2. ThreadsOK'
    BY <1>17 DEF ReleaseClaim, ThreadsOK, Goto, Steps
  <2> QED
    BY <1>17, <2>1, <2>2, Untouched DEF ReleaseClaim, TypeOK
<1>18. ASSUME NEW r \in Releasers, ReleaseLook(r) PROVE TypeOK'
  <2>1. ThreadsOK'
    BY <1>18 DEF ReleaseLook, ThreadsOK, Goto, Steps
  <2> QED
    BY <1>18, <2>1, Untouched DEF ReleaseLook, TypeOK
<1>19. ASSUME NEW r \in Releasers, ReleaseGiveBack(r) PROVE TypeOK'
  <2>1. LiveOK'
    BY <1>19 DEF ReleaseGiveBack, LiveOK, FreeSlot
  <2>2. ThreadsOK'
    BY <1>19 DEF ReleaseGiveBack, ThreadsOK, Goto, Steps, FreeSlot
  <2> QED
    BY <1>19, <2>1, <2>2, Untouched DEF ReleaseGiveBack, TypeOK, FreeSlot
<1>20. ASSUME NEW r \in Releasers, ReleasePop(r) PROVE TypeOK'
  <2>1. DbOK'
    BY <1>20 DEF ReleasePop, DbOK, PopRow
  <2>2. ThreadsOK'
    BY <1>20 DEF ReleasePop, ThreadsOK, Goto, Steps, DbOK, Rows, OldestRows, Threads,
       PopRow
  <2> QED
    BY <1>20, <2>1, <2>2, Untouched DEF ReleasePop, TypeOK, PopRow
<1>21. ASSUME NEW r \in Releasers, ReleaseEmpty(r) PROVE TypeOK'
  <2>1. ThreadsOK'
    BY <1>21 DEF ReleaseEmpty, ThreadsOK, Goto, Steps
  <2> QED
    BY <1>21, <2>1, Untouched DEF ReleaseEmpty, TypeOK
<1>22. ASSUME NEW r \in Releasers, ReleasePopFails(r) PROVE TypeOK'
  <2>1. ThreadsOK'
    BY <1>22 DEF ReleasePopFails, ThreadsOK, Goto, Steps
  <2>2. BoundsOK'
    BY <1>22 DEF ReleasePopFails, BoundsOK
  <2> QED
    BY <1>22, <2>1, <2>2, Untouched DEF ReleasePopFails, TypeOK
<1>23. ASSUME NEW t \in Threads, SendGet(t) PROVE TypeOK'
  <2>1. ThreadsOK'
    BY <1>23 DEF SendGet, ThreadsOK, Goto, Hold, Steps, LiveOK
  <2> QED
    BY <1>23, <2>1, Untouched DEF SendGet, TypeOK
<1>24. ASSUME NEW t \in Threads, SendCheckStale(t) PROVE TypeOK'
  <2>1. ThreadsOK'
    BY <1>24 DEF SendCheckStale, ThreadsOK, Goto, Steps
  <2> QED
    BY <1>24, <2>1, Untouched DEF SendCheckStale, TypeOK
<1>25. ASSUME NEW t \in Threads, Restart(t) PROVE TypeOK'
  <2>1. CASE sess = ls[t]
    <3>1. LiveOK'
      <4>1. superseded' \in [Gens -> BOOLEAN]
        BY <1>25, <2>1 DEF Restart, LiveOK, Close, Unmap
      <4>2. subs' \in [Gens -> SUBSET Subs]
        BY <1>25, <2>1 DEF Restart, LiveOK, Close, Unmap
      <4>3. sess' \in 0..MaxGen
        BY <1>25, <2>1 DEF Restart, Close, Unmap
      <4> QED
        BY <1>25, <4>1, <4>2, <4>3 DEF Restart, LiveOK, Close, Unmap
    <3>2. ThreadsOK'
      BY <1>25, <2>1, <1>f DEF Restart, ThreadsOK, Goto, Steps, Close, Unmap
    <3>3. DriversOK'
      BY <1>25, <2>1 DEF Restart, DriversOK, Close, Unmap
    <3> QED
      BY <1>25, <3>1, <3>2, <3>3, Untouched DEF Restart, Close, Unmap
  <2>2. CASE sess # ls[t]
    <3>1. LiveOK'
      BY <1>25, <2>2 DEF Restart, LiveOK, Close, Unmap
    <3>2. ThreadsOK'
      BY <1>25, <2>2 DEF Restart, ThreadsOK, LiveOK, Goto, Hold, Steps, Close, Unmap
    <3>3. DriversOK'
      BY <1>25, <2>2 DEF Restart, DriversOK, Close, Unmap
    <3> QED
      BY <1>25, <3>1, <3>2, <3>3, Untouched DEF Restart, Close, Unmap
  <2> QED
    BY <2>1, <2>2
<1>26. ASSUME NEW t \in Threads, Revive(t) PROVE TypeOK'
  <2>1. ThreadsOK'
    BY <1>26 DEF Revive, ThreadsOK, Goto, Hold, Steps, LiveOK
  <2> QED
    BY <1>26, <2>1, Untouched DEF Revive, TypeOK
<1>27. ASSUME NEW t \in Threads, Spawn(t) PROVE TypeOK'
  <2>1. DriversOK'
    BY <1>27 DEF Spawn, DriversOK, DbOK, Gens
  <2>2. ThreadsOK'
    BY <1>27 DEF Spawn, ThreadsOK, Goto, Hold, Steps, DriversOK
  <2> QED
    BY <1>27, <2>1, <2>2, Untouched DEF Spawn, TypeOK
<1>28. ASSUME NEW t \in Threads, SpawnFails(t) PROVE TypeOK'
  <2>1. carry[t] \in Msgs /\ carry[t] # None
    BY <1>28, <1>b DEF SpawnFails, SendSteps
  <2>2. ThreadsOK'
    BY <1>28, SendFailsTypes, <2>1 DEF SpawnFails
  <2>3. ToldOK'
    BY <1>28, SendFailsTypes, <2>1 DEF SpawnFails
  <2>4. BoundsOK'
    BY <1>28 DEF SpawnFails, BoundsOK
  <2> QED
    BY <1>28, <2>1, <2>2, <2>3, <2>4, Untouched DEF SpawnFails, TypeOK
<1>29. ASSUME NEW t \in Threads, Register(t) PROVE TypeOK'
  <2>1. LiveOK'
    BY <1>29 DEF Register, LiveOK, ThreadsOK, Close
  <2>2. DriversOK'
    BY <1>29 DEF Register, DriversOK, Close
  <2>3. ThreadsOK'
    BY <1>29 DEF Register, ThreadsOK, Goto, Hold, Steps, LiveOK, Close
  <2> QED
    BY <1>29, <2>1, <2>2, <2>3, Untouched DEF Register, TypeOK, Close
<1>30. ASSUME NEW t \in Threads, StartPump(t) PROVE TypeOK'
  <2>1. DbOK'
    BY <1>30 DEF StartPump, DbOK
  <2>2. LiveOK'
    BY <1>30 DEF StartPump, LiveOK
  <2>3. ThreadsOK'
    BY <1>30 DEF StartPump, ThreadsOK, Goto, Steps
  <2> QED
    BY <1>30, <2>1, <2>2, <2>3, Untouched DEF StartPump, TypeOK
<1>31. ASSUME NEW t \in Threads, Attach(t) PROVE TypeOK'
  <2>1. LiveOK'
    BY <1>31 DEF Attach, LiveOK, ThreadsOK, AddSubscribers
  <2>2. ThreadsOK'
    BY <1>31 DEF Attach, ThreadsOK, Goto, Steps, AddSubscribers
  <2>3. ToldOK'
    BY <1>31 DEF Attach, ToldOK, ThreadsOK, AddSubscribers
  <2> QED
    BY <1>31, <2>1, <2>2, <2>3, Untouched DEF Attach, TypeOK, AddSubscribers
<1>32. ASSUME NEW t \in Threads, AppendUser(t) PROVE TypeOK'
  <2>1. carry[t] \in Msgs /\ carry[t] # None
    BY <1>32, <1>b DEF AppendUser, SendSteps
  <2>2. DbOK'
    BY <1>32, <2>1 DEF AppendUser, DbOK
  <2>3. ThreadsOK'
    BY <1>32 DEF AppendUser, ThreadsOK, Goto, Steps
  <2> QED
    BY <1>32, <2>1, <2>2, <2>3, Untouched DEF AppendUser, TypeOK
<1>33. ASSUME NEW t \in Threads, AppendUserFails(t) PROVE TypeOK'
  <2>1. carry[t] \in Msgs /\ carry[t] # None
    BY <1>33, <1>b DEF AppendUserFails, SendSteps
  <2>2. ThreadsOK'
    BY <1>33, SendFailsTypes, <2>1 DEF AppendUserFails
  <2>3. ToldOK'
    BY <1>33, SendFailsTypes, <2>1 DEF AppendUserFails
  <2>4. BoundsOK'
    BY <1>33 DEF AppendUserFails, BoundsOK
  <2> QED
    BY <1>33, <2>1, <2>2, <2>3, <2>4, Untouched DEF AppendUserFails, TypeOK
<1>34. ASSUME NEW t \in Threads, WriteDriver(t) PROVE TypeOK'
  <2>1. DriversOK'
    BY <1>34, BeginTurnTypes DEF WriteDriver, DriversOK
  <2>2. ThreadsOK'
    BY <1>34 DEF WriteDriver, ThreadsOK, Goto, Steps
  <2> QED
    BY <1>34, <2>1, <2>2, Untouched DEF WriteDriver, TypeOK
<1>35. ASSUME NEW s \in Subs, SubscribeGet(s) PROVE TypeOK'
  <2>1. ClientsOK'
    BY <1>35 DEF SubscribeGet, ClientsOK, LiveOK
  <2> QED
    BY <1>35, <2>1, Untouched DEF SubscribeGet, TypeOK
<1>36. ASSUME NEW s \in Subs, SubscribeAdd(s) PROVE TypeOK'
  <2>1. LiveOK'
    BY <1>36 DEF SubscribeAdd, LiveOK, AddSubscribers
  <2>2. ClientsOK'
    BY <1>36 DEF SubscribeAdd, ClientsOK, AddSubscribers
  <2>3. ToldOK'
    BY <1>36 DEF SubscribeAdd, ToldOK, AddSubscribers
  <2> QED
    BY <1>36, <2>1, <2>2, <2>3, Untouched DEF SubscribeAdd, TypeOK, AddSubscribers
<1>37. ASSUME NEW x \in Setters, SettingsGet(x) PROVE TypeOK'
  <2>1. ClientsOK'
    BY <1>37 DEF SettingsGet, ClientsOK, LiveOK
  <2> QED
    BY <1>37, <2>1, Untouched DEF SettingsGet, TypeOK
<1>38. ASSUME NEW x \in Setters, SettingsSave(x) PROVE TypeOK'
  <2>1. DbOK'
    BY <1>38 DEF SettingsSave, DbOK
  <2>2. ClientsOK'
    BY <1>38 DEF SettingsSave, ClientsOK
  <2> QED
    BY <1>38, <2>1, <2>2, Untouched DEF SettingsSave, TypeOK
<1>39. ASSUME NEW x \in Setters, SettingsApply(x) PROVE TypeOK'
  <2>1. LiveOK'
    BY <1>39 DEF SettingsApply, LiveOK, ApplySettings
  <2>2. DriversOK'
    BY <1>39 DEF SettingsApply, DriversOK, DbOK, ApplySettings
  <2>3. ClientsOK'
    BY <1>39 DEF SettingsApply, ClientsOK, ApplySettings
  <2>4. ToldOK'
    BY <1>39 DEF SettingsApply, ToldOK, ApplySettings
  <2> QED
    BY <1>39, <2>1, <2>2, <2>3, <2>4, Untouched DEF SettingsApply, TypeOK, ApplySettings
<1>40. ASSUME ServerRestart PROVE TypeOK'
  <2>1. DbOK'
    BY <1>40 DEF ServerRestart, DbOK, DatabaseKept
  <2>2. LiveOK'
    BY <1>40 DEF ServerRestart, LiveOK, DatabaseKept
  <2>3. DriversOK'
    BY <1>40 DEF ServerRestart, DriversOK, DatabaseKept
  <2>4. ThreadsOK'
    BY <1>40 DEF ServerRestart, ThreadsOK, Steps, DatabaseKept
  <2>5. ClientsOK'
    BY <1>40 DEF ServerRestart, ClientsOK, DatabaseKept
  <2>6. ToldOK'
    BY <1>40 DEF ServerRestart, ToldOK, ThreadsOK, Threads, DatabaseKept
  <2>7. BoundsOK'
    BY <1>40 DEF ServerRestart, BoundsOK, DatabaseKept
  <2> QED
    BY <1>40, <2>1, <2>2, <2>3, <2>4, <2>5, <2>6, <2>7 DEF ServerRestart, TypeOK,
       DatabaseKept
<1>41. CASE UNCHANGED vars
  BY <1>41, Untouched DEF vars, TypeOK
<1> QED
  BY <1>1, <1>2, <1>3, <1>4, <1>5, <1>6, <1>7, <1>8, <1>9, <1>10, <1>11, <1>12, <1>13,
     <1>14, <1>15, <1>16, <1>17, <1>18, <1>19, <1>20, <1>21, <1>22, <1>23, <1>24, <1>25,
     <1>26, <1>27, <1>28, <1>29, <1>30, <1>31, <1>32, <1>33, <1>34, <1>35, <1>36, <1>37,
     <1>38, <1>39, <1>40, <1>41
  DEF Next, Driver, Pump, Request, Release, Send, Subscribe, Settings

\* Only Enqueue adds a row to the queue.
LEMMA QueueStep ==
  [Next]_vars => queue' \subseteq queue \/ \E m \in Msgs : EnqueueInsert(m)
<1> SUFFICES ASSUME [Next]_vars PROVE queue' \subseteq queue \/ \E m \in Msgs : EnqueueInsert(m)
  OBVIOUS
<1> USE DEF db
<1>1. ASSUME NEW g \in Gens, Driver(g) \/ Pump(g) PROVE queue' = queue
  BY <1>1 DEF Driver, TurnEnd, SelfTurn, Crash, WaitExit, Pump, PumpRead, PumpStore,
     PumpStoreFails, PumpClosed, PumpMarkDead, PumpUnmap, Close, StartRelease, Goto, Unmap
<1>2. ASSUME NEW m \in Msgs, Request(m) PROVE queue' \subseteq queue \/ EnqueueInsert(m)
  BY <1>2 DEF Request, RequestSend, RequestEnqueue, EnqueueClaim, EnqueueFails,
     CancelQueued
<1>3. ASSUME NEW r \in Releasers, Release(r) PROVE queue' \subseteq queue
  BY <1>3 DEF Release, ReleaseClaim, ReleaseLook, ReleaseGiveBack, ReleasePop,
     ReleaseEmpty, ReleasePopFails, FreeSlot, PopRow
<1>4. ASSUME NEW t \in Threads, Send(t) PROVE queue' = queue
  BY <1>4 DEF Send, SendGet, SendCheckStale, Restart, Revive, Spawn, SpawnFails, Register,
     StartPump, Attach, AppendUser, AppendUserFails, WriteDriver, Close, Unmap,
     AddSubscribers
<1>5. ASSUME NEW s \in Subs, Subscribe(s) PROVE queue' = queue
  BY <1>5 DEF Subscribe, SubscribeGet, SubscribeAdd, AddSubscribers
<1>6. ASSUME NEW x \in Setters, Settings(x) PROVE queue' = queue
  BY <1>6 DEF Settings, SettingsGet, SettingsSave, SettingsApply, ApplySettings
<1>7. CASE ServerRestart
  BY <1>7 DEF ServerRestart, DatabaseKept
<1>8. CASE UNCHANGED vars
  BY <1>8 DEF vars
<1> QED
  BY <1>1, <1>2, <1>3, <1>4, <1>5, <1>6, <1>7, <1>8 DEF Next

\* The keys of the queue stay bounded: only Enqueue adds one, above the others.
LEMMA KeysStep == TypeInv /\ [Next]_vars => KeysOK'
<1> SUFFICES ASSUME TypeInv, [Next]_vars PROVE KeysOK'
  OBVIOUS
<1> USE DEF TypeInv, TypeOK
<1>1. PICK n \in Nat : \A row \in queue : row.id <= n
  BY DEF KeysOK, KeysBounded, QueueIds
<1>2. CASE queue' \subseteq queue
  BY <1>1, <1>2 DEF KeysOK, KeysBounded, QueueIds
<1>3. ASSUME NEW m \in Msgs, EnqueueInsert(m) PROVE KeysOK'
  <2>1. QueueIds(queue) \subseteq Nat
    BY DEF DbOK, Rows, QueueIds
  <2>2. NextQueueId(queue) \in Nat /\ \A row \in queue : row.id < NextQueueId(queue)
    BY <2>1, NextKeyAbove DEF KeysOK, NextQueueId, QueueIds
  <2>3. \A row \in queue' : row.id <= NextQueueId(queue)
    BY <1>3, <2>2 DEF EnqueueInsert, DbOK, Rows
  <2> QED
    BY <2>2, <2>3 DEF KeysOK, KeysBounded, QueueIds
<1> QED
  BY <1>2, <1>3, QueueStep

\* What a thread that is sending has in hand stays a message.
LEMMA HandsStep == TypeInv /\ [Next]_vars => HandsOK'
<1> SUFFICES ASSUME TypeInv, [Next]_vars PROVE HandsOK'
  OBVIOUS
<1> USE ManagerAssumption DEF TypeInv, TypeOK, Threads, ThreadsOK, HandsOK
<1>1. CASE UNCHANGED <<pc, ls, carry>>
  BY <1>1
<1>2. ASSUME NEW g \in Gens, PumpStore(g) PROVE HandsOK'
  BY <1>2 DEF PumpStore, SendSteps, StartRelease, Goto
<1>3. ASSUME NEW m \in Msgs, RequestSend(m) PROVE HandsOK'
  BY <1>3 DEF RequestSend, SendSteps, Goto, Hold
<1>4. ASSUME NEW m \in Msgs, RequestEnqueue(m) PROVE HandsOK'
  BY <1>4 DEF RequestEnqueue, SendSteps, Goto, Hold
<1>5. ASSUME NEW m \in Msgs, EnqueueClaim(m) PROVE HandsOK'
  BY <1>5 DEF EnqueueClaim, SendSteps, Goto, Hold
<1>6. ASSUME NEW m \in Msgs, EnqueueInsert(m) PROVE HandsOK'
  BY <1>6 DEF EnqueueInsert, SendSteps, Goto, Hold
<1>7. ASSUME NEW m \in Msgs, EnqueueFails(m) PROVE HandsOK'
  BY <1>7 DEF EnqueueFails, SendFails, SendSteps, Goto, Hold
<1>8. ASSUME NEW r \in Releasers, ReleaseClaim(r) PROVE HandsOK'
  BY <1>8 DEF ReleaseClaim, SendSteps, Goto, Hold
<1>9. ASSUME NEW r \in Releasers, ReleaseLook(r) PROVE HandsOK'
  BY <1>9 DEF ReleaseLook, SendSteps, Goto, Hold
<1>10. ASSUME NEW r \in Releasers, ReleaseGiveBack(r) PROVE HandsOK'
  BY <1>10 DEF ReleaseGiveBack, SendSteps, Goto, Hold, FreeSlot
<1>11. ASSUME NEW r \in Releasers, ReleasePop(r) PROVE HandsOK'
  BY <1>11 DEF ReleasePop, OldestRows, DbOK, Rows, SendSteps, Goto, Hold, PopRow
<1>12. ASSUME NEW r \in Releasers, ReleaseEmpty(r) PROVE HandsOK'
  BY <1>12 DEF ReleaseEmpty, SendSteps, Goto, Hold
<1>13. ASSUME NEW r \in Releasers, ReleasePopFails(r) PROVE HandsOK'
  BY <1>13 DEF ReleasePopFails, SendSteps, Goto, Hold
<1>14. ASSUME NEW t \in Threads, SendGet(t) PROVE HandsOK'
  BY <1>14 DEF SendGet, SendSteps, Goto, Hold
<1>15. ASSUME NEW t \in Threads, SendCheckStale(t) PROVE HandsOK'
  BY <1>15 DEF SendCheckStale, SendSteps, Goto, Hold
<1>16. ASSUME NEW t \in Threads, Restart(t) PROVE HandsOK'
  BY <1>16 DEF Restart, SendSteps, Goto, Hold, Close, Unmap
<1>17. ASSUME NEW t \in Threads, Revive(t) PROVE HandsOK'
  BY <1>17 DEF Revive, SendSteps, Goto, Hold
<1>18. ASSUME NEW t \in Threads, Spawn(t) PROVE HandsOK'
  BY <1>18 DEF Spawn, SendSteps, Goto, Hold
<1>19. ASSUME NEW t \in Threads, SpawnFails(t) PROVE HandsOK'
  BY <1>19 DEF SpawnFails, SendFails, SendSteps, Goto, Hold
<1>20. ASSUME NEW t \in Threads, Register(t) PROVE HandsOK'
  BY <1>20 DEF Register, SendSteps, Goto, Hold, Close
<1>21. ASSUME NEW t \in Threads, StartPump(t) PROVE HandsOK'
  BY <1>21 DEF StartPump, SendSteps, Goto, Hold
<1>22. ASSUME NEW t \in Threads, Attach(t) PROVE HandsOK'
  BY <1>22 DEF Attach, SendSteps, Goto, Hold, AddSubscribers
<1>23. ASSUME NEW t \in Threads, AppendUser(t) PROVE HandsOK'
  BY <1>23 DEF AppendUser, SendSteps, Goto, Hold
<1>24. ASSUME NEW t \in Threads, AppendUserFails(t) PROVE HandsOK'
  BY <1>24 DEF AppendUserFails, SendFails, SendSteps, Goto, Hold
<1>25. ASSUME NEW t \in Threads, WriteDriver(t) PROVE HandsOK'
  BY <1>25 DEF WriteDriver, SendSteps, Goto, Hold
<1>26. CASE ServerRestart
  BY <1>26 DEF ServerRestart, SendSteps, DatabaseKept
<1>27. ASSUME NEW g \in Gens, Driver(g) \/ Pump(g) PROVE UNCHANGED <<pc, ls, carry>> \/ PumpStore(g)
  BY <1>27 DEF threads, Driver, TurnEnd, SelfTurn, Crash, WaitExit, Pump, PumpRead,
     PumpStoreFails, PumpClosed, PumpMarkDead, PumpUnmap, Close, Unmap
<1>28. ASSUME NEW m \in Msgs, CancelQueued(m) PROVE UNCHANGED <<pc, ls, carry>>
  BY <1>28 DEF threads, CancelQueued
<1>29. ASSUME NEW s \in Subs, Subscribe(s) PROVE UNCHANGED <<pc, ls, carry>>
  BY <1>29 DEF threads, Subscribe, SubscribeGet, SubscribeAdd, AddSubscribers
<1>30. ASSUME NEW x \in Setters, Settings(x) PROVE UNCHANGED <<pc, ls, carry>>
  BY <1>30 DEF threads, Settings, SettingsGet, SettingsSave, SettingsApply, ApplySettings
<1>31. CASE UNCHANGED vars
  BY <1>31 DEF vars, threads
<1> HIDE DEF TypeInv, TypeOK, Threads, ThreadsOK, HandsOK
<1> QED
  BY <1>1, <1>2, <1>3, <1>4, <1>5, <1>6, <1>7, <1>8, <1>9, <1>10, <1>11, <1>12, <1>13,
     <1>14, <1>15, <1>16, <1>17, <1>18, <1>19, <1>20, <1>21, <1>22, <1>23, <1>24, <1>25,
     <1>26, <1>27, <1>28, <1>29, <1>30, <1>31
  DEF Next, Request, Release, Send

\* The initial states satisfy the inductive invariant.
LEMMA TypeInvInit == Init => TypeInv
<1> SUFFICES ASSUME NEW up \in BOOLEAN, InitWith(up) PROVE TypeInv
  BY DEF Init
<1> USE ManagerAssumption DEF InitWith
<1>1. DbOK
  BY DEF DbOK
<1>2. LiveOK
  BY DEF LiveOK, Gens
<1>3. DriversOK
  BY DEF DriversOK, Gens
<1>4. ThreadsOK
  BY DEF ThreadsOK, Threads, Steps
<1>5. ClientsOK /\ ToldOK /\ BoundsOK
  BY DEF ClientsOK, ToldOK, BoundsOK
<1>6. KeysOK
  BY DEF KeysOK, KeysBounded, QueueIds
<1>7. HandsOK
  BY DEF HandsOK, SendSteps, Threads
<1> QED
  BY <1>1, <1>2, <1>3, <1>4, <1>5, <1>6, <1>7 DEF TypeInv, TypeOK

\* Every variable has its type in every reachable state, and every key of the
\* queue stays a bounded positive number (manager.go and store.go, Enqueue).
THEOREM TypeCorrect == Spec => []TypeInv
<1>1. TypeInv /\ [Next]_vars => TypeInv'
  BY TypeStep, KeysStep, HandsStep DEF TypeInv
<1> QED
  BY <1>1, TypeInvInit, PTL DEF Spec

\* The type invariant the runs check, for every value of the constants
\* (manager.go: all of the state of Manager, its liveSessions and goroutines).
THEOREM TypeOKHolds == Spec => []TypeOK
<1>1. TypeInv => TypeOK
  BY DEF TypeInv
<1> QED
  BY <1>1, TypeCorrect, PTL

-----------------------------------------------------------------------------
(***************************************************************************)
(* The chain of processes that serve a session, for any number of          *)
(* concurrent restarts, revivals, crashes, subscribers and settings        *)
(* requests: a liveSession that restart has replaced never becomes the     *)
(* session's again, one process serves it, and it has the settings saved   *)
(* last and the subscribers of the one before.                             *)
(***************************************************************************)
\* A process between spawn and register belongs to one thread alone, is new,
\* and is neither mapped nor superseded.
Registering(t) == pc[t] = "register"
Private ==
  /\ sess <= used
  /\ \A g \in Gens : superseded[g] => g <= used
  /\ \A t \in Threads : Registering(t) =>
       /\ ls[t] \in Gens /\ ls[t] <= used /\ ls[t] # sess /\ ~superseded[ls[t]]
       /\ \A u \in Threads : Registering(u) /\ ls[u] = ls[t] => u = t

\* SupersededUnmapped is not inductive: register maps whatever ls it was
\* given, so it has to be known that nobody superseded it in between.
Mapped    == Private /\ SupersededUnmapped
MappedInv == TypeInv /\ Mapped

-----------------------------------------------------------------------------
\* A step that maps, starts and supersedes nothing, and brings no thread to
\* register.
Quiet ==
  /\ UNCHANGED <<sess, used, superseded>>
  /\ \A t \in Threads : Registering(t)' => Registering(t) /\ ls'[t] = ls[t]

\* A step that maps, supersedes and registers nothing keeps the invariant.
LEMMA QuietStep == MappedInv /\ Quiet => Mapped'
BY DEF MappedInv, Mapped, Quiet, Private, SupersededUnmapped

\* Every step keeps the invariant, action by action.
LEMMA MappedStep == MappedInv /\ [Next]_vars => MappedInv'
<1> SUFFICES ASSUME MappedInv, [Next]_vars PROVE Mapped'
  BY TypeStep, KeysStep, HandsStep DEF MappedInv, Mapped, TypeInv
<1>t. ThreadsOK /\ LiveOK /\ DriversOK
  BY DEF MappedInv, TypeInv, TypeOK
<1>1. ASSUME NEW g \in Gens, Driver(g) PROVE Quiet
  BY <1>1 DEF Driver, TurnEnd, SelfTurn, Crash, WaitExit, Quiet, Registering, live,
     threads, Close
<1>2. ASSUME NEW g \in Gens, Pump(g) PROVE Mapped'
  <2>1. CASE PumpUnmap(g)
    <3>1. /\ sess' = 0 /\ UNCHANGED <<used, superseded, ls>>
          /\ \A t \in Threads : Registering(t)' <=> Registering(t)
      BY <2>1 DEF PumpUnmap, drivers, threads, Registering, Unmap
    <3> QED
      BY <3>1, <1>t DEF MappedInv, Mapped, Private, SupersededUnmapped, DriversOK, Gens
  <2>2. CASE PumpStore(g)
    <3>1. Quiet
      BY <2>2, <1>t, ManagerAssumption
      DEF PumpStore, Quiet, Registering, drivers, ThreadsOK, Threads, StartRelease, Goto
    <3> QED
      BY <3>1, QuietStep
  <2>3. CASE ~PumpUnmap(g) /\ ~PumpStore(g)
    <3>1. Quiet
      BY <1>2, <2>3 DEF Pump, PumpRead, PumpStoreFails, PumpClosed, PumpMarkDead, Quiet,
         Registering, drivers, threads
    <3> QED
      BY <3>1, QuietStep
  <2> QED
    BY <2>1, <2>2, <2>3
<1>3. ASSUME NEW m \in Msgs, Request(m) PROVE Quiet
  BY <1>3, <1>t DEF Request, RequestSend, RequestEnqueue, EnqueueClaim, EnqueueInsert,
     EnqueueFails, CancelQueued, SendFails, Goto, Hold, Quiet, Registering, live, drivers,
     threads, ThreadsOK
<1>4. ASSUME NEW r \in Releasers, Release(r) PROVE Quiet
  BY <1>4, <1>t DEF Release, ReleaseClaim, ReleaseLook, ReleaseGiveBack, ReleasePop,
     ReleaseEmpty, ReleasePopFails, Goto, Quiet, Registering, live, drivers, ThreadsOK,
     FreeSlot, PopRow
<1>5. ASSUME NEW t \in Threads, Send(t) PROVE Mapped'
  <2>1. CASE Restart(t)
    <3>1. CASE sess = ls[t]
      <4>1. sess # 0
        BY <2>1, <3>1 DEF Restart, MappedInv, TypeInv, HandsOK, Close, Unmap
      <4>2. /\ sess' = 0 /\ used' = used /\ ls' = ls
            /\ \A g \in Gens : superseded'[g] <=> superseded[g] \/ g = sess
            /\ \A u \in Threads : Registering(u)' <=> Registering(u)
        BY <2>1, <3>1, <1>t DEF Restart, Goto, Registering, LiveOK, ThreadsOK, Close,
           Unmap
      <4>3. used \in Nat /\ sess <= used /\ 0 \notin Gens
        BY <1>t DEF DriversOK, MappedInv, Mapped, Private, Gens
      <4> QED
        BY <4>1, <4>2, <4>3 DEF MappedInv, Mapped, Private, SupersededUnmapped
    <3>2. CASE sess # ls[t]
      <4>1. Quiet
        BY <2>1, <3>2, <1>t DEF Restart, Goto, Hold, Quiet, Registering, ThreadsOK,
           Close, Unmap
      <4> QED
        BY <4>1, QuietStep
    <3> QED
      BY <3>1, <3>2
  <2>2. CASE Spawn(t)
    <3>1. used' = used + 1 /\ used' \in Gens /\ UNCHANGED <<sess, superseded>>
      BY <2>2, <1>t, ManagerAssumption DEF Spawn, live, DriversOK, Gens
    <3>2. \A u \in Threads : /\ Registering(u)' <=> Registering(u) \/ u = t
                             /\ ls'[u] = IF u = t THEN used' ELSE ls[u]
      BY <2>2, <1>t DEF Spawn, Goto, Hold, Registering, ThreadsOK
    <3>3. used \in Nat /\ sess \in Nat /\ Gens \subseteq Nat
      BY <1>t DEF DriversOK, LiveOK, Gens
    <3>4. /\ sess < used' /\ ~superseded[used']
          /\ \A u \in Threads : Registering(u) => ls[u] < used'
      <4>1. sess <= used /\ \A g \in Gens : superseded[g] => g <= used
        BY DEF MappedInv, Mapped, Private
      <4>2. \A u \in Threads : Registering(u) => ls[u] \in Gens /\ ls[u] <= used
        BY DEF MappedInv, Mapped, Private
      <4>3. ~(used' <= used) /\ sess < used'
        BY <3>1, <3>3, <4>1
      <4>4. ~superseded[used']
        BY <3>1, <4>1, <4>3, Zenon
      <4>5. ASSUME NEW u \in Threads, Registering(u) PROVE ls[u] < used'
        <5>1. ls[u] \in Nat /\ ls[u] <= used
          BY <3>3, <4>2, <4>5
        <5>2. used' = used + 1 /\ used \in Nat
          BY <3>1, <3>3
        <5> QED
          BY <5>1, <5>2
      <4> QED
        BY <4>3, <4>4, <4>5
    <3>5. sess' <= used' /\ \A g \in Gens : superseded'[g] => g <= used'
      BY <3>1, <3>3, <3>4 DEF MappedInv, Mapped, Private
    <3>6. ASSUME NEW u \in Threads, Registering(u)'
          PROVE  /\ ls'[u] \in Gens /\ ls'[u] <= used' /\ ls'[u] # sess'
                 /\ ~superseded'[ls'[u]]
                 /\ \A v \in Threads : Registering(v)' /\ ls'[v] = ls'[u] => v = u
      <4>1. CASE u = t
        BY <3>1, <3>2, <3>3, <3>4, <4>1
      <4>2. CASE u # t
        <5>1. /\ ls[u] \in Gens /\ ls[u] # sess /\ ~superseded[ls[u]]
              /\ \A v \in Threads : Registering(v) /\ ls[v] = ls[u] => v = u
          BY <3>2, <3>6, <4>2 DEF MappedInv, Mapped, Private
        <5>2. ls'[u] = ls[u] /\ ls[u] < used'
          BY <3>2, <3>4, <3>6, <4>2
        <5>3. \A v \in Threads : Registering(v)' /\ ls'[v] = ls'[u] => v = u
          BY <3>1, <3>2, <3>3, <5>1, <5>2
        <5>4. ~superseded'[ls'[u]]
          BY <3>1, <5>1, <5>2, Zenon
        <5> QED
          <6>1. ls'[u] \in Nat /\ used' \in Nat /\ ls'[u] <= used'
            BY <3>1, <3>3, <5>1, <5>2
          <6> QED
            BY <3>1, <5>1, <5>2, <5>3, <5>4, <6>1
      <4> QED
        BY <4>1, <4>2
    <3> QED
      BY <3>1, <3>5, <3>6 DEF MappedInv, Mapped, Private, SupersededUnmapped
  <2>3. CASE Register(t)
    <3>1. /\ UNCHANGED <<used, superseded>> /\ Registering(t) /\ ~Registering(t)'
          /\ sess' \in {sess, ls[t]}
          /\ \A u \in Threads \ {t} : (Registering(u)' <=> Registering(u)) /\ ls'[u] = ls[u]
      BY <2>3, <1>t DEF Register, Goto, Hold, Registering, ThreadsOK, Close
    <3> QED
      BY <3>1 DEF MappedInv, Mapped, Private, SupersededUnmapped
  <2>4. CASE ~Restart(t) /\ ~Spawn(t) /\ ~Register(t)
    <3>1. Quiet
      BY <1>5, <2>4, <1>t DEF Send, SendGet, SendCheckStale, Revive, SpawnFails,
         StartPump,
         Attach, AppendUser, AppendUserFails, WriteDriver, SendFails, Goto, Hold, Quiet,
         Registering, live, drivers, ThreadsOK, AddSubscribers
    <3> QED
      BY <3>1, QuietStep
  <2> QED
    BY <2>1, <2>2, <2>3, <2>4
<1>6. ASSUME NEW s \in Subs, Subscribe(s) PROVE Quiet
  BY <1>6 DEF Subscribe, SubscribeGet, SubscribeAdd, Quiet, Registering, live, drivers,
     threads, AddSubscribers
<1>7. ASSUME NEW x \in Setters, Settings(x) PROVE Quiet
  BY <1>7 DEF Settings, SettingsGet, SettingsSave, SettingsApply, Quiet, Registering,
     live,
     drivers, threads, ApplySettings
<1>8. CASE ServerRestart
  BY <1>8, <1>t DEF ServerRestart, MappedInv, Mapped, Private, SupersededUnmapped,
     Registering,
     DriversOK, DatabaseKept
<1>9. CASE UNCHANGED vars
  <2>1. Quiet
    BY <1>9 DEF vars, live, drivers, threads, Quiet, Registering
  <2> QED
    BY <2>1, QuietStep
<1> QED
  BY <1>1, <1>2, <1>3, <1>4, <1>5, <1>6, <1>7, <1>8, <1>9, QuietStep DEF Next

\* Initially nothing is superseded and nobody registers.
LEMMA MappedInit == Init => MappedInv
<1> SUFFICES ASSUME NEW up \in BOOLEAN, InitWith(up) PROVE MappedInv
  BY DEF Init
<1>1. TypeInv
  BY TypeInvInit DEF Init
<1>2. Private /\ SupersededUnmapped
  BY ManagerAssumption DEF InitWith, Private, SupersededUnmapped, Registering, Gens
<1> QED
  BY <1>1, <1>2 DEF MappedInv, Mapped

\* restart, register, pump's exit and Settings (manager.go) never bring a
\* replaced liveSession back.
THEOREM SupersededStaysUnmapped == Spec => []SupersededUnmapped
<1>1. MappedInv => SupersededUnmapped
  BY DEF MappedInv, Mapped
<1> QED
  BY <1>1, MappedInit, MappedStep, PTL DEF Spec

-----------------------------------------------------------------------------
(***************************************************************************)
(* One process serves the session.                                         *)
(***************************************************************************)
\* Where a thread has a new process in its hands; what it is to become.
Serving ==
  /\ \A g \in Gens : pump[g] # "none" => g <= used
  /\ \A t \in Threads : pc[t] \in {"start", "attach"} => ls[t] \in Gens /\ ls[t] <= used
  /\ \A t \in Threads : Registering(t) =>
       /\ pump[ls[t]] = "none"
       /\ \A u \in Threads : pc[u] = "start" => ls[u] # ls[t]

\* As long as no process dies by itself, one that is killed has been replaced,
\* no pump reaches the death of its session, and a process that is up is mapped
\* or about to be registered.
Killed(g) == proc[g] \in {"dying", "down"}
Kept ==
  /\ \A g \in Gens : /\ pump[g] \notin {"mark", "unmap"}
                     /\ pump[g] \in {"read", "store"} /\ Killed(g) => superseded[g]
                     /\ proc[g] = "up" =>
                          sess = g \/ \E t \in Threads : Registering(t) /\ ls[t] = g
  /\ \A t \in Threads : /\ pc[t] = "start" /\ Killed(ls[t]) => superseded[ls[t]]
                        /\ Registering(t) => proc[ls[t]] = "up"
Undisturbed == crashes = 0 => Kept
OneServes == Serving /\ Undisturbed
OneServesInv == MappedInv /\ OneServes

\* A step that moves no process to another place.
Steady ==
  /\ UNCHANGED <<sess, used, superseded>>
  /\ crashes' = 0 => crashes = 0
  /\ \A g \in Gens :
       /\ pump'[g] # "none" => pump[g] # "none"
       /\ crashes' = 0 => /\ pump'[g] \in {"mark", "unmap"} => pump[g] \in {"mark", "unmap"}
                          /\ pump'[g] \in {"read", "store"} => pump[g] \in {"read", "store"}
                          /\ proc'[g] \in {"dying", "down"} => Killed(g)
                          /\ proc'[g] = "up" <=> proc[g] = "up"
  /\ \A t \in Threads :
       /\ pc'[t] \in {"register", "start", "attach"} => pc'[t] = pc[t] /\ ls'[t] = ls[t]
       /\ pc[t] = "register" => pc'[t] = "register"

LEMMA SteadyStep ==
  ASSUME OneServesInv, Steady
  PROVE  OneServes'
<1>1. /\ UNCHANGED <<sess, used, superseded>>
      /\ \A t \in Threads : Registering(t)' => Registering(t) /\ ls'[t] = ls[t]
      /\ \A t \in Threads : Registering(t) => Registering(t)' /\ ls'[t] = ls[t]
      /\ \A t \in Threads : Registering(t) => ls[t] \in Gens
  BY DEF Steady, Registering, OneServesInv, MappedInv, Mapped, Private
<1>2. Serving'
  <2>1. \A g \in Gens : pump'[g] # "none" => g <= used'
    BY <1>1 DEF Steady, OneServesInv, OneServes, Serving
  <2>2. \A t \in Threads : pc'[t] \in {"start", "attach"} => ls'[t] \in Gens /\ ls'[t] <= used'
    BY <1>1 DEF Steady, OneServesInv, OneServes, Serving
  <2>3. ASSUME NEW t \in Threads, Registering(t)'
        PROVE  /\ pump'[ls'[t]] = "none"
               /\ \A u \in Threads : pc'[u] = "start" => ls'[u] # ls'[t]
    <3>1. Registering(t) /\ ls'[t] = ls[t] /\ ls[t] \in Gens
      BY <1>1, <2>3
    <3>2. pump[ls[t]] = "none" /\ \A u \in Threads : pc[u] = "start" => ls[u] # ls[t]
      BY <3>1 DEF OneServesInv, OneServes, Serving
    <3> QED
      BY <3>1, <3>2 DEF Steady
  <2> QED
    BY <2>1, <2>2, <2>3 DEF Serving
<1>3. ASSUME crashes' = 0 PROVE Kept'
  <2>1. Kept
    BY <1>3 DEF Steady, OneServesInv, OneServes, Undisturbed
  <2>2. ASSUME NEW g \in Gens
        PROVE  /\ pump'[g] \notin {"mark", "unmap"}
               /\ pump'[g] \in {"read", "store"} /\ Killed(g)' => superseded'[g]
               /\ proc'[g] = "up" =>
                    sess' = g \/ \E t \in Threads : Registering(t)' /\ ls'[t] = g
    <3>1. /\ pump'[g] \notin {"mark", "unmap"}
          /\ pump'[g] \in {"read", "store"} => pump[g] \in {"read", "store"}
          /\ Killed(g)' => Killed(g)
          /\ proc'[g] = "up" => proc[g] = "up"
      BY <1>3, <2>1 DEF Steady, Kept, Killed
    <3>2. pump'[g] \in {"read", "store"} /\ Killed(g)' => superseded'[g]
      BY <1>1, <2>1, <3>1, Zenon DEF Kept
    <3>3. proc'[g] = "up" => sess' = g \/ \E t \in Threads : Registering(t)' /\ ls'[t] = g
      BY <1>1, <2>1, <3>1 DEF Kept
    <3> QED
      BY <3>1, <3>2, <3>3
  <2>3. ASSUME NEW t \in Threads
        PROVE  /\ (pc[t] = "start" /\ Killed(ls[t]) => superseded[ls[t]])'
               /\ (Registering(t) => proc[ls[t]] = "up")'
    <3>1. ASSUME pc'[t] = "start" PROVE (Killed(ls[t]) => superseded[ls[t]])'
      <4>1. pc[t] = "start" /\ ls'[t] = ls[t] /\ ls[t] \in Gens
        BY <3>1 DEF Steady, OneServesInv, OneServes, Serving
      <4>2. Killed(ls[t])' => Killed(ls[t])
        BY <1>3, <4>1 DEF Steady, Killed
      <4>3. Killed(ls[t]) => superseded[ls[t]]
        BY <2>1, <4>1 DEF Kept
      <4> QED
        BY <1>1, <4>1, <4>2, <4>3, Zenon
    <3>2. ASSUME Registering(t)' PROVE (proc[ls[t]] = "up")'
      BY <1>1, <1>3, <2>1, <3>2 DEF Steady, Kept
    <3> QED
      BY <3>1, <3>2
  <2> QED
    BY <2>2, <2>3 DEF Kept
<1> QED
  BY <1>2, <1>3 DEF OneServes, Undisturbed

\* Every step keeps it, action by action.
LEMMA OneServesStep == OneServesInv /\ [Next]_vars => OneServesInv'
<1> SUFFICES ASSUME OneServesInv, [Next]_vars PROVE OneServes'
  BY MappedStep DEF OneServesInv
<1>t. ThreadsOK /\ LiveOK /\ DriversOK /\ BoundsOK /\ HandsOK
  BY DEF OneServesInv, MappedInv, TypeInv, TypeOK
<1>m. MappedInv' /\ TypeInv' /\ Private'
  BY MappedStep DEF OneServesInv, MappedInv, Mapped
<1>n. crashes \in Nat /\ used \in Nat /\ sess \in Nat /\ Gens \subseteq Nat /\ 0 \notin Gens
  BY <1>t, ManagerAssumption DEF BoundsOK, DriversOK, LiveOK, Gens
<1>p. Private /\ Serving /\ Undisturbed
  BY DEF OneServesInv, MappedInv, Mapped, OneServes
<1>1. ASSUME NEW g \in Gens, Driver(g) PROVE Steady
  BY <1>1, <1>t, <1>n DEF Driver, TurnEnd, SelfTurn, Crash, WaitExit, Steady, live,
     threads, bounds, Close, DriversOK, Killed
<1>2. ASSUME NEW g \in Gens, Pump(g) PROVE OneServes'
  <2>1. CASE PumpRead(g)
    BY <2>1, <1>t, SteadyStep DEF PumpRead, Steady, threads, bounds, LiveOK, Killed
  <2>2. CASE PumpStore(g)
    <3>1. /\ UNCHANGED <<sess, used, superseded, crashes, proc, ls>>
          /\ pump[g] = "store" /\ pump' = [pump EXCEPT ![g] = "read"]
          /\ \A t \in Threads : pc'[t] = pc[t] \/ (pc[t] = "free" /\ pc'[t] = "claim")
      BY <2>2, <1>t, ManagerAssumption
      DEF PumpStore, drivers, bounds, ThreadsOK, Threads, StartRelease, Goto
    <3>2. Steady
      BY <3>1, <1>t DEF Steady, LiveOK, Killed
    <3> QED
      BY <3>2, SteadyStep
  <2>3. CASE PumpStoreFails(g)
    BY <2>3, <1>t, SteadyStep DEF PumpStoreFails, Steady, threads, drivers, LiveOK, Killed
  <2>4. CASE PumpClosed(g)
    <3>1. /\ UNCHANGED <<sess, used, superseded, crashes, proc, ls, pc>>
          /\ pump[g] = "read" /\ proc[g] = "down"
          /\ pump' = [pump EXCEPT ![g] = IF superseded[g] THEN "done" ELSE "mark"]
      BY <2>4 DEF PumpClosed, drivers, bounds, threads
    <3>2. crashes = 0 => superseded[g]
      BY <3>1, <1>p DEF Undisturbed, Kept, Killed
    <3>3. Steady
      BY <3>1, <3>2, <1>t DEF Steady, LiveOK, Killed
    <3> QED
      BY <3>3, SteadyStep
  <2>5. CASE PumpMarkDead(g) \/ PumpUnmap(g)
    <3>1. crashes # 0 /\ crashes' = crashes
      BY <2>5, <1>p DEF PumpMarkDead, PumpUnmap, bounds, Undisturbed, Kept
    <3>2. /\ pump[g] # "none" /\ \A h \in Gens : pump'[h] # "none" => pump[h] # "none"
          /\ UNCHANGED <<used, ls, pc>>
      BY <2>5, <1>t DEF PumpMarkDead, PumpUnmap, drivers, threads, LiveOK
    <3>3. Serving'
      <4>1. \A h \in Gens : pump'[h] # "none" => h <= used'
        BY <3>2, <1>p DEF Serving
      <4>2. \A t \in Threads : pc'[t] \in {"start", "attach"} => ls'[t] \in Gens /\ ls'[t] <= used'
        BY <3>2, <1>p DEF Serving
      <4>3. \A t \in Threads : Registering(t)' => Registering(t) /\ ls[t] \in Gens
        BY <3>2, <1>p DEF Private, Registering
      <4>4. \A t \in Threads : Registering(t)' =>
              pump'[ls'[t]] = "none" /\ \A u \in Threads : pc'[u] = "start" => ls'[u] # ls'[t]
        BY <3>2, <4>3, <1>p DEF Serving
      <4> QED
        BY <4>1, <4>2, <4>4 DEF Serving
    <3> QED
      BY <3>1, <3>3 DEF OneServes, Undisturbed
  <2> QED
    BY <1>2, <2>1, <2>2, <2>3, <2>4, <2>5 DEF Pump
<1>3. ASSUME NEW m \in Msgs, Request(m) PROVE Steady
  <2>1. /\ UNCHANGED <<sess, used, superseded, crashes, proc, pump>>
        /\ \A t \in Threads : pc[t] = "register" => pc'[t] = "register"
        /\ \A t \in Threads : pc'[t] \in {"register", "start", "attach"} =>
             pc'[t] = pc[t] /\ ls'[t] = ls[t]
    BY <1>3, <1>t DEF Request, RequestSend, RequestEnqueue, EnqueueClaim, EnqueueInsert,
       EnqueueFails, CancelQueued, SendFails, Goto, Hold, live, drivers, threads, bounds,
       ThreadsOK
  <2> QED
    BY <2>1 DEF Steady, Killed
<1>4. ASSUME NEW r \in Releasers, Release(r) PROVE Steady
  <2>1. /\ UNCHANGED <<sess, used, superseded, crashes, proc, pump, ls>>
        /\ \A t \in Threads : pc[t] = "register" => pc'[t] = "register"
        /\ \A t \in Threads : pc'[t] \in {"register", "start", "attach"} => pc'[t] = pc[t]
    BY <1>4, <1>t DEF Release, ReleaseClaim, ReleaseLook, ReleaseGiveBack, ReleasePop,
       ReleaseEmpty, ReleasePopFails, Goto, live, drivers, bounds, ThreadsOK, FreeSlot,
       PopRow
  <2> QED
    BY <2>1 DEF Steady, Killed
<1>5. ASSUME NEW t \in Threads, Send(t) PROVE OneServes'
  <2>1. CASE Restart(t)
    <3>1. CASE sess = ls[t]
      <4>1. sess \in Gens
        BY <2>1, <3>1, <1>t DEF Restart, HandsOK, LiveOK, Gens, Close, Unmap
      <4>2. /\ sess' = 0 /\ UNCHANGED <<used, pump, crashes, ls>>
            /\ superseded' = [superseded EXCEPT ![sess] = TRUE]
            /\ proc' = [proc EXCEPT ![sess] = IF @ = "up" THEN "dying" ELSE @]
            /\ pc' = [pc EXCEPT ![t] = "spawn"]
        BY <2>1, <3>1 DEF Restart, Goto, Close, Unmap, bounds
      <4>3. /\ superseded'[sess]
            /\ \A g \in Gens : superseded[g] => superseded'[g]
            /\ \A g \in Gens \ {sess} : proc'[g] = proc[g]
            /\ proc'[sess] # "up"
            /\ \A u \in Threads : /\ u # t => pc'[u] = pc[u]
                                  /\ pc'[t] = "spawn" /\ pc[t] = "restart"
        BY <4>1, <4>2, <1>t, <2>1 DEF LiveOK, DriversOK, ThreadsOK, Restart
      <4>4. Serving'
        BY <4>2, <4>3, <1>p DEF Serving, Registering
      <4>5. ASSUME crashes = 0 PROVE Kept'
        <5>1. Kept
          BY <4>5, <1>p DEF Undisturbed
        <5>2. ASSUME NEW g \in Gens
              PROVE  /\ pump'[g] \notin {"mark", "unmap"}
                     /\ pump'[g] \in {"read", "store"} /\ Killed(g)' => superseded'[g]
                     /\ proc'[g] = "up" =>
                          sess' = g \/ \E u \in Threads : Registering(u)' /\ ls'[u] = g
          <6>1. CASE g = sess
            BY <4>2, <4>3, <5>1, <6>1 DEF Kept
          <6>2. CASE g # sess
            <7>1. Killed(g)' => Killed(g)
              BY <4>3, <6>2 DEF Killed
            <7>2. \A u \in Threads : Registering(u) => Registering(u)' /\ ls'[u] = ls[u]
              BY <4>2, <4>3 DEF Registering
            <7> QED
              BY <4>2, <4>3, <5>1, <6>2, <7>1, <7>2 DEF Kept
          <6> QED
            BY <6>1, <6>2
        <5>3. ASSUME NEW u \in Threads, pc'[u] = "start"
              PROVE  (Killed(ls[u]) => superseded[ls[u]])'
          <6>1. pc[u] = "start" /\ ls'[u] = ls[u] /\ ls[u] \in Gens
            BY <4>2, <4>3, <5>3, <1>p DEF Serving
          <6>2. ls[u] # sess => (Killed(ls[u])' => Killed(ls[u]))
            BY <4>3, <6>1 DEF Killed
          <6> QED
            BY <4>3, <5>1, <6>1, <6>2 DEF Kept
        <5>4. ASSUME NEW u \in Threads, Registering(u)' PROVE (proc[ls[u]] = "up")'
          <6>1. Registering(u) /\ ls'[u] = ls[u] /\ ls[u] \in Gens /\ ls[u] # sess
            BY <4>2, <4>3, <5>4, <1>p DEF Private, Registering
          <6> QED
            BY <4>3, <5>1, <6>1 DEF Kept
        <5> QED
          BY <5>2, <5>3, <5>4 DEF Kept
      <4> QED
        BY <4>2, <4>4, <4>5 DEF OneServes, Undisturbed
    <3>2. CASE sess # ls[t]
      <4>1. Steady
        BY <2>1, <3>2, <1>t DEF Restart, Goto, Hold, Steady, ThreadsOK, Close, Unmap, bounds,
           Killed
      <4> QED
        BY <4>1, SteadyStep
    <3> QED
      BY <3>1, <3>2
  <2>2. CASE Spawn(t)
    <3> DEFINE new == used + 1
    <3>1. /\ used' = new /\ new \in Gens
          /\ UNCHANGED <<sess, superseded, pump, crashes>>
          /\ proc' = [proc EXCEPT ![new] = "up"]
          /\ pc' = [pc EXCEPT ![t] = "register"] /\ ls' = [ls EXCEPT ![t] = new]
      BY <2>2, <1>t, ManagerAssumption DEF Spawn, live, bounds, DriversOK, Gens, Goto, Hold
    <3>2. /\ pump[new] = "none"
          /\ \A u \in Threads : pc[u] \in {"register", "start", "attach"} => ls[u] # new
          /\ sess # new /\ pc[t] = "spawn"
      <4>1. ~(new <= used) /\ new # 0
        BY <1>n
      <4>2. pump[new] = "none"
        BY <3>1, <4>1, <1>p DEF Serving
      <4>3. \A u \in Threads : pc[u] \in {"register", "start", "attach"} => ls[u] <= used
        BY <1>p DEF Serving, Private, Registering
      <4>4. sess <= used
        BY <1>p DEF Private
      <4> QED
        BY <2>2, <4>1, <4>2, <4>3, <4>4 DEF Spawn
    <3> HIDE DEF new
    <3>3. /\ \A u \in Threads \ {t} : pc'[u] = pc[u] /\ ls'[u] = ls[u]
          /\ pc'[t] = "register" /\ ls'[t] = new
          /\ \A g \in Gens \ {new} : proc'[g] = proc[g]
          /\ proc'[new] = "up"
      BY <3>1, <1>t DEF ThreadsOK, DriversOK
    <3>4. Serving'
      <4>1. \A g \in Gens : pump'[g] # "none" => g <= used'
        BY <3>1, <1>p, <1>n DEF Serving, new
      <4>2. \A u \in Threads : pc'[u] \in {"start", "attach"} => ls'[u] \in Gens /\ ls'[u] <= used'
        <5>1. ASSUME NEW u \in Threads, pc'[u] \in {"start", "attach"}
              PROVE  ls'[u] \in Gens /\ ls'[u] <= used'
          <6>1. ls'[u] = ls[u] /\ ls[u] \in Gens /\ ls[u] <= used
            BY <3>3, <5>1, <1>p DEF Serving
          <6>2. ls[u] \in Nat /\ used' = used + 1
            BY <6>1, <3>1, <1>n DEF new
          <6> QED
            BY <6>1, <6>2, <1>n
        <5> QED
          BY <5>1
      <4>3. ASSUME NEW u \in Threads, Registering(u)'
            PROVE  /\ pump'[ls'[u]] = "none"
                   /\ \A v \in Threads : pc'[v] = "start" => ls'[v] # ls'[u]
        <5>1. CASE u = t
          BY <3>1, <3>2, <3>3, <5>1
        <5>2. CASE u # t
          <6>1. Registering(u) /\ ls'[u] = ls[u]
            BY <3>3, <4>3, <5>2 DEF Registering
          <6> QED
            BY <3>1, <3>3, <6>1, <1>p DEF Serving
        <5> QED
          BY <5>1, <5>2
      <4> QED
        BY <4>1, <4>2, <4>3 DEF Serving
    <3>5. ASSUME crashes = 0 PROVE Kept'
      <4>1. Kept
        BY <3>5, <1>p DEF Undisturbed
      <4>2. ASSUME NEW g \in Gens
            PROVE  /\ pump'[g] \notin {"mark", "unmap"}
                   /\ pump'[g] \in {"read", "store"} /\ Killed(g)' => superseded'[g]
                   /\ proc'[g] = "up" =>
                        sess' = g \/ \E u \in Threads : Registering(u)' /\ ls'[u] = g
        <5>1. CASE g = new
          BY <3>1, <3>2, <3>3, <5>1 DEF Registering
        <5>2. CASE g # new
          <6>1. Killed(g)' => Killed(g)
            BY <3>3, <5>2 DEF Killed
          <6>2. \A u \in Threads : Registering(u) => Registering(u)' /\ ls'[u] = ls[u]
            BY <3>2, <3>3 DEF Registering
          <6> QED
            BY <3>1, <3>3, <4>1, <5>2, <6>1, <6>2 DEF Kept
        <5> QED
          BY <5>1, <5>2
      <4>3. ASSUME NEW u \in Threads, pc'[u] = "start"
            PROVE  (Killed(ls[u]) => superseded[ls[u]])'
        <5>1. pc[u] = "start" /\ ls'[u] = ls[u] /\ ls[u] \in Gens /\ ls[u] # new
          BY <3>2, <3>3, <4>3, <1>p DEF Serving
        <5>2. Killed(ls[u])' => Killed(ls[u])
          BY <3>3, <5>1 DEF Killed
        <5> QED
          BY <3>1, <4>1, <5>1, <5>2, Zenon DEF Kept
      <4>4. ASSUME NEW u \in Threads, Registering(u)' PROVE (proc[ls[u]] = "up")'
        <5>1. CASE u = t
          BY <3>3, <5>1
        <5>2. CASE u # t
          <6>1. Registering(u) /\ ls'[u] = ls[u] /\ ls[u] \in Gens /\ ls[u] # new
            BY <3>2, <3>3, <4>4, <5>2, <1>p DEF Private, Registering
          <6> QED
            BY <3>3, <4>1, <6>1 DEF Kept
        <5> QED
          BY <5>1, <5>2
      <4> QED
        BY <4>2, <4>3, <4>4 DEF Kept
    <3> QED
      BY <3>1, <3>4, <3>5 DEF OneServes, Undisturbed
  <2>3. CASE Register(t)
    <3>1. /\ UNCHANGED <<used, superseded, pump, crashes>> /\ pc[t] = "register"
          /\ ls[t] \in Gens /\ ls[t] <= used
          /\ \A u \in Threads \ {t} : pc'[u] = pc[u] /\ ls'[u] = ls[u]
      BY <2>3, <1>t, <1>p DEF Register, bounds, Goto, Hold, ThreadsOK, Private, Registering
    <3>2. \A u \in Threads \ {t} : Registering(u) => ls[u] # ls[t]
      BY <3>1, <1>p DEF Private, Registering
    <3>3. \A u \in Threads : pc[u] = "start" => ls[u] # ls[t]
      BY <3>1, <1>p DEF Serving, Registering
    <3>4. pump[ls[t]] = "none"
      BY <3>1, <1>p DEF Serving, Registering
    <3>a. \/ sess = 0 /\ sess' = ls[t] /\ pc'[t] = "start" /\ ls'[t] = ls[t] /\ proc' = proc
          \/ /\ sess \in Gens /\ sess <= used /\ sess' = sess /\ pc'[t] = "attach" /\ ls'[t] = sess
             /\ proc'[ls[t]] # "up" /\ \A g \in Gens \ {ls[t]} : proc'[g] = proc[g]
      <4>1. CASE sess = 0
        BY <2>3, <4>1, <1>t DEF Register, Goto, ThreadsOK
      <4>2. CASE sess # 0
        <5>1. /\ sess' = sess /\ pc' = [pc EXCEPT ![t] = "attach"] /\ ls' = [ls EXCEPT ![t] = sess]
              /\ proc' = [proc EXCEPT ![ls[t]] = IF @ = "up" THEN "dying" ELSE @]
          BY <2>3, <4>2 DEF Register, Goto, Hold, Close
        <5>2. sess \in Gens /\ sess <= used
          BY <4>2, <1>t, <1>p, ManagerAssumption DEF LiveOK, Gens, Private
        <5>3. pc'[t] = "attach" /\ ls'[t] = sess
          BY <5>1, <1>t DEF ThreadsOK
        <5>4. proc'[ls[t]] # "up" /\ \A g \in Gens \ {ls[t]} : proc'[g] = proc[g]
          BY <5>1, <3>1, <1>t DEF DriversOK
        <5> QED
          BY <5>1, <5>2, <5>3, <5>4
      <4> QED
        BY <4>1, <4>2
    <3>5. Serving'
      <4>1. \A g \in Gens : pump'[g] # "none" => g <= used'
        BY <3>1, <1>p DEF Serving
      <4>2. \A u \in Threads : pc'[u] \in {"start", "attach"} => ls'[u] \in Gens /\ ls'[u] <= used'
        BY <3>1, <3>a, <1>p DEF Serving
      <4>3. ASSUME NEW u \in Threads, Registering(u)'
            PROVE  /\ pump'[ls'[u]] = "none"
                   /\ \A v \in Threads : pc'[v] = "start" => ls'[v] # ls'[u]
        <5>1. u # t /\ Registering(u) /\ ls'[u] = ls[u]
          BY <3>1, <3>a, <4>3 DEF Registering
        <5> QED
          BY <3>1, <3>a, <3>2, <5>1, <1>p DEF Serving
      <4> QED
        BY <4>1, <4>2, <4>3 DEF Serving
    <3>6. ASSUME crashes = 0 PROVE Kept'
      <4>1. Kept /\ proc[ls[t]] = "up"
        BY <3>6, <3>1, <1>p DEF Undisturbed, Kept, Registering
      <4>2. ASSUME NEW g \in Gens
            PROVE  /\ pump'[g] \notin {"mark", "unmap"}
                   /\ pump'[g] \in {"read", "store"} /\ Killed(g)' => superseded'[g]
                   /\ proc'[g] = "up" =>
                        sess' = g \/ \E u \in Threads : Registering(u)' /\ ls'[u] = g
        <5>1. CASE g = ls[t]
          BY <3>1, <3>4, <3>a, <4>1, <5>1 DEF Kept
        <5>2. CASE g # ls[t]
          <6>1. proc'[g] = proc[g]
            BY <3>a, <5>2
          <6>2. Killed(g)' => Killed(g)
            BY <6>1 DEF Killed
          <6>3. sess = g => sess' = g
            BY <3>a, <1>n
          <6>4. \A u \in Threads : Registering(u) /\ ls[u] = g => Registering(u)' /\ ls'[u] = g
            BY <3>1, <5>2 DEF Registering
          <6> QED
            BY <3>1, <4>1, <6>1, <6>2, <6>3, <6>4 DEF Kept
        <5> QED
          BY <5>1, <5>2
      <4>3. ASSUME NEW u \in Threads, pc'[u] = "start"
            PROVE  (Killed(ls[u]) => superseded[ls[u]])'
        <5>1. CASE u = t
          BY <3>a, <4>1, <4>3, <5>1 DEF Killed
        <5>2. CASE u # t
          <6>1. pc[u] = "start" /\ ls'[u] = ls[u] /\ ls[u] \in Gens /\ ls[u] # ls[t]
            BY <3>1, <3>3, <4>3, <5>2, <1>p DEF Serving
          <6>2. proc'[ls[u]] = proc[ls[u]]
            BY <3>a, <6>1
          <6>3. Killed(ls[u])' => Killed(ls[u])
            BY <6>1, <6>2 DEF Killed
          <6> QED
            BY <3>1, <4>1, <6>1, <6>3, Zenon DEF Kept
        <5> QED
          BY <5>1, <5>2
      <4>4. ASSUME NEW u \in Threads, Registering(u)' PROVE (proc[ls[u]] = "up")'
        <5>1. u # t /\ Registering(u) /\ ls'[u] = ls[u] /\ ls[u] \in Gens /\ ls[u] # ls[t]
          BY <3>1, <3>a, <3>2, <4>4, <1>p DEF Private, Registering
        <5> QED
          BY <3>a, <4>1, <5>1 DEF Kept
      <4> QED
        BY <4>2, <4>3, <4>4 DEF Kept
    <3> QED
      BY <3>1, <3>5, <3>6 DEF OneServes, Undisturbed
  <2>4. CASE StartPump(t)
    <3>1. /\ UNCHANGED <<sess, used, superseded, crashes, proc, ls>> /\ pc[t] = "start"
          /\ ls[t] \in Gens /\ ls[t] <= used
          /\ pump'[ls[t]] = "read" /\ \A g \in Gens \ {ls[t]} : pump'[g] = pump[g]
          /\ pc'[t] = "attach" /\ \A u \in Threads \ {t} : pc'[u] = pc[u]
      BY <2>4, <1>t, <1>p DEF StartPump, drivers, bounds, Goto, ThreadsOK, LiveOK, Serving
    <3>2. Serving'
      <4>1. \A g \in Gens : pump'[g] # "none" => g <= used'
        BY <3>1, <1>p DEF Serving
      <4>2. \A u \in Threads : pc'[u] \in {"start", "attach"} => ls'[u] \in Gens /\ ls'[u] <= used'
        BY <3>1, <1>p DEF Serving
      <4>3. ASSUME NEW u \in Threads, Registering(u)'
            PROVE  /\ pump'[ls'[u]] = "none"
                   /\ \A v \in Threads : pc'[v] = "start" => ls'[v] # ls'[u]
        <5>1. u # t /\ Registering(u) /\ ls[u] # ls[t] /\ ls[u] \in Gens
          BY <3>1, <4>3, <1>p DEF Registering, Serving, Private
        <5> QED
          BY <3>1, <5>1, <1>p DEF Serving
      <4> QED
        BY <4>1, <4>2, <4>3 DEF Serving
    <3>3. ASSUME crashes = 0 PROVE Kept'
      <4>1. Kept
        BY <3>3, <1>p DEF Undisturbed
      <4>2. Killed(ls[t]) => superseded[ls[t]]
        BY <3>1, <4>1 DEF Kept
      <4>3. \A g \in Gens : (Killed(g)' => Killed(g)) /\ proc'[g] = proc[g]
        BY <3>1 DEF Killed
      <4>4. ASSUME NEW g \in Gens
            PROVE  /\ pump'[g] \notin {"mark", "unmap"}
                   /\ pump'[g] \in {"read", "store"} /\ Killed(g)' => superseded'[g]
                   /\ proc'[g] = "up" =>
                        sess' = g \/ \E u \in Threads : Registering(u)' /\ ls'[u] = g
        <5>1. pump'[g] \notin {"mark", "unmap"}
          BY <3>1, <4>1 DEF Kept
        <5>2. pump'[g] \in {"read", "store"} /\ Killed(g)' => superseded'[g]
          BY <3>1, <4>1, <4>2, <4>3 DEF Kept
        <5>3. \A u \in Threads : Registering(u) => Registering(u)' /\ ls'[u] = ls[u]
          BY <3>1 DEF Registering
        <5> QED
          BY <3>1, <4>1, <4>3, <5>1, <5>2, <5>3 DEF Kept
      <4>5. ASSUME NEW u \in Threads
            PROVE  /\ (pc[u] = "start" /\ Killed(ls[u]) => superseded[ls[u]])'
                   /\ (Registering(u) => proc[ls[u]] = "up")'
        BY <3>1, <4>1 DEF Kept, Registering, Killed
      <4> QED
        BY <4>4, <4>5 DEF Kept
    <3> QED
      BY <3>1, <3>2, <3>3 DEF OneServes, Undisturbed
  <2>5. CASE ~Restart(t) /\ ~Spawn(t) /\ ~Register(t) /\ ~StartPump(t)
    <3>1. /\ UNCHANGED <<sess, used, superseded, crashes, proc, pump>>
          /\ \A u \in Threads : pc[u] = "register" => pc'[u] = "register"
          /\ \A u \in Threads : pc'[u] \in {"register", "start", "attach"} =>
               pc'[u] = pc[u] /\ ls'[u] = ls[u]
      BY <1>5, <2>5, <1>t DEF Send, SendGet, SendCheckStale, Revive, SpawnFails, Attach,
         AppendUser, AppendUserFails, WriteDriver, SendFails, Goto, Hold, live, drivers, bounds,
         ThreadsOK, AddSubscribers
    <3>2. Steady
      BY <3>1 DEF Steady, Killed
    <3> QED
      BY <3>2, SteadyStep
  <2> QED
    BY <2>1, <2>2, <2>3, <2>4, <2>5
<1>6. ASSUME NEW s \in Subs, Subscribe(s) PROVE Steady
  BY <1>6 DEF Subscribe, SubscribeGet, SubscribeAdd, Steady, live, drivers, threads, bounds,
     AddSubscribers, Killed
<1>7. ASSUME NEW x \in Setters, Settings(x) PROVE Steady
  BY <1>7 DEF Settings, SettingsGet, SettingsSave, SettingsApply, Steady, live, drivers,
     threads, bounds, ApplySettings, Killed
<1>8. CASE ServerRestart
  <2>1. /\ sess' = 0 /\ UNCHANGED <<used, ls, superseded>>
        /\ \A g \in Gens : /\ pump'[g] \in {"none", "done"}
                           /\ pump'[g] = "none" <=> pump[g] = "none"
                           /\ proc'[g] # "up"
        /\ \A t \in Threads : pc'[t] \in {"free", "done"}
    BY <1>8 DEF ServerRestart, DatabaseKept
  <2> QED
    BY <2>1, <1>p DEF OneServes, Serving, Undisturbed, Kept, Registering
<1>9. CASE UNCHANGED vars
  <2>1. UNCHANGED <<sess, used, superseded, crashes, proc, pump, ls, pc>>
    BY <1>9 DEF vars, live, drivers, threads, bounds
  <2>2. Steady
    BY <2>1 DEF Steady, Killed
  <2> QED
    BY <2>2, SteadyStep
<1> QED
  BY <1>1, <1>2, <1>3, <1>4, <1>5, <1>6, <1>7, <1>8, <1>9, SteadyStep DEF Next

LEMMA OneServesInit == Init => OneServesInv
<1> SUFFICES ASSUME NEW up \in BOOLEAN, InitWith(up) PROVE OneServesInv
  BY DEF Init
<1>1. MappedInv
  BY MappedInit DEF Init
<1>2. Serving
  BY ManagerAssumption DEF InitWith, Serving, Registering, Gens
<1>3. Kept
  BY ManagerAssumption DEF InitWith, Kept, Killed, Registering, Gens
<1> QED
  BY <1>1, <1>2, <1>3 DEF OneServesInv, OneServes, Undisturbed

\* Of the processes that Send, restart and revive start at the same time one is
\* left, the mapped one (manager.go: spawn, register, restart).
THEOREM OneProcessServes == Spec => []OrphanNeedsCrash
<1>1. OneServesInv => OrphanNeedsCrash
  <2> SUFFICES ASSUME OneServesInv, AtRest, crashes = 0, NEW g \in Gens, proc[g] = "up"
               PROVE  sess = g
    BY DEF OrphanNeedsCrash
  <2>1. sess = g \/ \E t \in Threads : Registering(t)
    BY DEF OneServesInv, OneServes, Undisturbed, Kept
  <2> QED
    BY <2>1 DEF AtRest, Registering
<1> QED
  BY <1>1, OneServesInit, OneServesStep, PTL DEF Spec

-----------------------------------------------------------------------------
(***************************************************************************)
(* Settings reach the process.                                             *)
(***************************************************************************)
\* A settings request that has saved its change has not applied it yet.
UpToDate(g) == applied[g] = saved \/ stale[g] \/ \E x \in Setters : tpc[x] = "apply"
SettingsKept ==
  crossed = {} => /\ sess # 0 => UpToDate(sess)
                  /\ \A t \in Threads : Registering(t) => UpToDate(ls[t])
SettingsInv == MappedInv /\ SettingsKept

\* A step that maps and starts nothing and leaves the settings alone.
SameSettings ==
  /\ sess' \in {0, sess}
  /\ UNCHANGED <<applied, stale, saved, tpc, crossed>>
  /\ \A t \in Threads : Registering(t)' => Registering(t) /\ ls'[t] = ls[t]

LEMMA SameSettingsStep == SettingsInv /\ SameSettings => SettingsKept'
BY DEF SettingsInv, SettingsKept, SameSettings, UpToDate

\* Every step keeps it, action by action.
LEMMA SettingsStep == SettingsInv /\ [Next]_vars => SettingsInv'
<1> SUFFICES ASSUME SettingsInv, [Next]_vars PROVE SettingsKept'
  BY MappedStep DEF SettingsInv
<1>t. ThreadsOK /\ LiveOK /\ DriversOK /\ HandsOK /\ ClientsOK /\ DbOK /\ ToldOK
  BY DEF SettingsInv, MappedInv, TypeInv, TypeOK
<1>p. Private /\ SettingsKept
  BY DEF SettingsInv, MappedInv, Mapped
<1>1. ASSUME NEW g \in Gens, Driver(g) PROVE SameSettings
  BY <1>1 DEF Driver, TurnEnd, SelfTurn, Crash, WaitExit, SameSettings, Registering, live, db,
     threads, clients, told, Close
<1>2. ASSUME NEW g \in Gens, Pump(g) PROVE SameSettings
  <2>1. CASE PumpStore(g)
    BY <2>1, <1>t, ManagerAssumption
    DEF PumpStore, SameSettings, Registering, drivers, clients, told, ThreadsOK, Threads,
        StartRelease, Goto
  <2>2. CASE ~PumpStore(g)
    BY <1>2, <2>2 DEF Pump, PumpRead, PumpStoreFails, PumpClosed, PumpMarkDead, PumpUnmap,
       SameSettings, Registering, db, drivers, threads, clients, told, Unmap
  <2> QED
    BY <2>1, <2>2
<1>3. ASSUME NEW m \in Msgs, Request(m) PROVE SameSettings
  BY <1>3, <1>t DEF Request, RequestSend, RequestEnqueue, EnqueueClaim, EnqueueInsert,
     EnqueueFails, CancelQueued, SendFails, Goto, Hold, SameSettings, Registering, live, db,
     drivers, threads, clients, told, ThreadsOK
<1>4. ASSUME NEW r \in Releasers, Release(r) PROVE SameSettings
  BY <1>4, <1>t DEF Release, ReleaseClaim, ReleaseLook, ReleaseGiveBack, ReleasePop,
     ReleaseEmpty, ReleasePopFails, Goto, SameSettings, Registering, live, db, drivers,
     clients, told, ThreadsOK, FreeSlot, PopRow
<1>5. ASSUME NEW t \in Threads, Send(t) PROVE SettingsKept'
  <2>1. CASE Spawn(t)
    <3> DEFINE new == used + 1
    <3>1. /\ UNCHANGED <<sess, stale, saved, tpc, crossed>> /\ used' = new /\ new \in Gens
          /\ applied' = [applied EXCEPT ![new] = saved]
          /\ pc' = [pc EXCEPT ![t] = "register"] /\ ls' = [ls EXCEPT ![t] = new]
      BY <2>1, <1>t, ManagerAssumption
      DEF Spawn, db, live, clients, told, DriversOK, Gens, Goto, Hold
    <3>2. sess # new /\ \A u \in Threads : Registering(u) => ls[u] # new /\ ls[u] \in Gens
      BY <1>t, <1>p DEF Private, DriversOK, LiveOK
    <3> HIDE DEF new
    <3>3. /\ applied'[new] = saved /\ \A g \in Gens \ {new} : applied'[g] = applied[g]
          /\ ls'[t] = new /\ \A u \in Threads \ {t} : pc'[u] = pc[u] /\ ls'[u] = ls[u]
      BY <3>1, <1>t DEF DriversOK, ThreadsOK
    <3>4. ASSUME crossed' = {}, sess' # 0 PROVE UpToDate(sess)'
      <4>1. UpToDate(sess) /\ sess \in Gens /\ sess' = sess
        BY <3>1, <3>4, <1>t, <1>p DEF SettingsKept, LiveOK, Gens
      <4>2. applied'[sess] = applied[sess]
        BY <3>2, <3>3, <4>1
      <4> QED
        BY <3>1, <4>1, <4>2 DEF UpToDate
    <3>5. ASSUME crossed' = {}, NEW u \in Threads, Registering(u)' PROVE UpToDate(ls[u])'
      <4>1. CASE u = t
        BY <3>1, <3>3, <4>1 DEF UpToDate
      <4>2. CASE u # t
        <5>1. Registering(u) /\ ls'[u] = ls[u] /\ ls[u] \in Gens /\ ls[u] # new
          BY <3>2, <3>3, <3>5, <4>2 DEF Registering
        <5>2. UpToDate(ls[u]) /\ applied'[ls[u]] = applied[ls[u]]
          BY <3>1, <3>3, <3>5, <5>1, <1>p DEF SettingsKept
        <5> QED
          BY <3>1, <5>1, <5>2 DEF UpToDate
      <4> QED
        BY <4>1, <4>2
    <3> QED
      BY <3>4, <3>5 DEF SettingsKept
  <2>2. CASE Register(t)
    <3>1. /\ UNCHANGED <<applied, stale, saved, tpc, crossed>> /\ Registering(t)
          /\ ~Registering(t)' /\ sess' \in {sess, ls[t]}
          /\ \A u \in Threads \ {t} : (Registering(u)' <=> Registering(u)) /\ ls'[u] = ls[u]
      BY <2>2, <1>t DEF Register, db, clients, told, Goto, Hold, Registering, ThreadsOK, Close
    <3> QED
      BY <3>1, <1>p DEF SettingsKept, UpToDate
  <2>3. CASE Restart(t)
    BY <2>3, <1>t, SameSettingsStep DEF Restart, SameSettings, Registering, db, clients, told,
       Goto, Hold, ThreadsOK, Close, Unmap
  <2>4. CASE ~Spawn(t) /\ ~Register(t) /\ ~Restart(t)
    <3>1. SameSettings
      BY <1>5, <2>4, <1>t DEF Send, SendGet, SendCheckStale, Revive, SpawnFails, StartPump,
         Attach, AppendUser, AppendUserFails, WriteDriver, SendFails, Goto, Hold, SameSettings,
         Registering, db, live, drivers, clients, told, ThreadsOK, AddSubscribers
    <3> QED
      BY <3>1, SameSettingsStep
  <2> QED
    BY <2>1, <2>2, <2>3, <2>4
<1>6. ASSUME NEW s \in Subs, Subscribe(s) PROVE SameSettings
  BY <1>6 DEF Subscribe, SubscribeGet, SubscribeAdd, SameSettings, Registering, db, live, drivers,
     threads, told, AddSubscribers
<1>7. ASSUME NEW x \in Setters, Settings(x) PROVE SettingsKept'
  <2>1. CASE SettingsGet(x)
    <3>1. \A y \in Setters : tpc[y] = "apply" => tpc'[y] = "apply"
      BY <2>1, <1>t DEF SettingsGet, ClientsOK
    <3> QED
      BY <2>1, <3>1, <1>p
      DEF SettingsGet, db, live, drivers, threads, told, SettingsKept, UpToDate, Registering
  <2>2. CASE SettingsSave(x)
    <3>1. tpc'[x] = "apply"
      BY <2>2, <1>t DEF SettingsSave, ClientsOK
    <3> QED
      BY <3>1 DEF SettingsKept, UpToDate
  <2>3. CASE SettingsApply(x)
    <3>1. CASE crossed' = {}
      <4>1. sess = tls[x] /\ UNCHANGED <<sess, saved>> /\ \A t \in Threads : ~Registering(t)'
        BY <2>3, <3>1 DEF SettingsApply, db, threads, Registering
      <4>2. sess # 0 => applied'[sess] = saved \/ stale'[sess]
        <5>1. sess # 0 => sess \in Gens
          BY <1>t DEF LiveOK, Gens
        <5>2. LiveApply => applied' = [applied EXCEPT ![tls[x]] = saved]
          BY <2>3 DEF SettingsApply, ApplySettings
        <5>3. ~LiveApply => stale' = [stale EXCEPT ![tls[x]] = TRUE]
          BY <2>3 DEF SettingsApply, ApplySettings
        <5>4. sess # 0 /\ ~LiveApply => stale'[sess]
          BY <4>1, <5>1, <5>3, <1>t, Zenon DEF LiveOK
        <5>5. sess # 0 /\ LiveApply => applied'[sess] = saved
          BY <4>1, <5>1, <5>2, <1>t DEF DriversOK
        <5> QED
          BY <5>4, <5>5
      <4> QED
        BY <4>1, <4>2 DEF SettingsKept, UpToDate
    <3>2. CASE crossed' # {}
      BY <3>2 DEF SettingsKept
    <3> QED
      BY <3>1, <3>2
  <2> QED
    BY <1>7, <2>1, <2>2, <2>3 DEF Settings
<1>8. CASE ServerRestart
  BY <1>8 DEF ServerRestart, SettingsKept, Registering
<1>9. CASE UNCHANGED vars
  <2>1. UNCHANGED <<sess, applied, stale, saved, tpc, crossed, pc, ls>>
    BY <1>9 DEF vars, db, live, drivers, threads, clients, told
  <2> QED
    BY <2>1, SameSettingsStep DEF SameSettings, Registering
<1> QED
  BY <1>1, <1>2, <1>3, <1>4, <1>5, <1>6, <1>7, <1>8, <1>9, SameSettingsStep DEF Next

LEMMA SettingsInit == Init => SettingsInv
<1> SUFFICES ASSUME NEW up \in BOOLEAN, InitWith(up) PROVE SettingsKept
  BY MappedInit DEF Init, SettingsInv
<1> QED
  BY ManagerAssumption DEF InitWith, SettingsKept, UpToDate, Registering, Gens

\* Settings, Manager.spawn and restart (manager.go): a change that was answered
\* is in force or waits for the restart that brings it.
THEOREM SettingsReachTheProcess == Spec => []SettingsLostOnlyIfCrossed
<1>1. SettingsInv => SettingsLostOnlyIfCrossed
  BY DEF SettingsInv, SettingsKept, UpToDate, SettingsLostOnlyIfCrossed, AtRest
<1> QED
  BY <1>1, SettingsInit, SettingsStep, PTL DEF Spec

-----------------------------------------------------------------------------
(***************************************************************************)
(* Subscribers follow the session from process to process.                 *)
(***************************************************************************)
\* Who is told of the session's events, or is in the hands of a restart.
Follows(s) ==
  \/ s \in gone \cup overtaken
  \/ sess # 0 /\ s \in subs[sess]
  \/ \E t \in Threads : s \in moved[t]
HandsEmpty ==
  \A t \in Threads : moved[t] # {} => pc[t] \in {"spawn", "register", "start", "attach"}
AllFollow == crashes = 0 /\ faults = 0 => \A s \in Subs : spc[s] = "on" => Follows(s)
Adding == \A s \in Subs : spc[s] = "add" => sls[s] # 0
HandedOver == HandsEmpty /\ AllFollow /\ Adding
FollowInv == OneServesInv /\ HandedOver

\* Only Subscribe and a start of the server move a subscriber.
LEMMA AddingStep == FollowInv /\ [Next]_vars => Adding'
<1> SUFFICES ASSUME FollowInv, [Next]_vars PROVE Adding'
  OBVIOUS
<1>t. ClientsOK /\ Adding
  BY DEF FollowInv, OneServesInv, MappedInv, TypeInv, TypeOK, HandedOver
<1>1. ASSUME NEW s \in Subs, Subscribe(s) PROVE Adding'
  BY <1>1, <1>t DEF Subscribe, SubscribeGet, SubscribeAdd, Adding, ClientsOK
<1>2. CASE ServerRestart
  BY <1>2 DEF ServerRestart, Adding
<1>3. ASSUME UNCHANGED <<spc, sls>> PROVE Adding'
  BY <1>3, <1>t DEF Adding
<1>4. ASSUME NEW g \in Gens, Driver(g) \/ Pump(g) PROVE UNCHANGED <<spc, sls>>
  BY <1>4 DEF Driver, TurnEnd, SelfTurn, Crash, WaitExit, Pump, PumpRead, PumpStore,
     PumpStoreFails, PumpClosed, PumpMarkDead, PumpUnmap, clients
<1>5. ASSUME NEW m \in Msgs, Request(m) PROVE UNCHANGED <<spc, sls>>
  BY <1>5 DEF Request, RequestSend, RequestEnqueue, EnqueueClaim, EnqueueInsert,
     EnqueueFails, CancelQueued, clients
<1>6. ASSUME NEW r \in Releasers, Release(r) PROVE UNCHANGED <<spc, sls>>
  BY <1>6 DEF Release, ReleaseClaim, ReleaseLook, ReleaseGiveBack, ReleasePop,
     ReleaseEmpty, ReleasePopFails, clients
<1>7. ASSUME NEW t \in Threads, Send(t) PROVE UNCHANGED <<spc, sls>>
  BY <1>7 DEF Send, SendGet, SendCheckStale, Restart, Revive, Spawn, SpawnFails, Register,
     StartPump, Attach, AppendUser, AppendUserFails, WriteDriver, clients
<1>8. ASSUME NEW x \in Setters, Settings(x) PROVE UNCHANGED <<spc, sls>>
  BY <1>8 DEF Settings, SettingsGet, SettingsSave, SettingsApply
<1>9. UNCHANGED vars => UNCHANGED <<spc, sls>>
  BY DEF vars, clients
<1> QED
  BY <1>1, <1>2, <1>3, <1>4, <1>5, <1>6, <1>7, <1>8, <1>9 DEF Next

\* A step that maps nothing and takes nobody from a set of subscribers.
NobodyLost ==
  /\ UNCHANGED <<sess, moved>>
  /\ gone \subseteq gone' /\ overtaken \subseteq overtaken'
  /\ \A g \in Gens : subs[g] \subseteq subs'[g]
  /\ \A s \in Subs : spc'[s] = "on" => spc[s] = "on"
  /\ crashes' = 0 => crashes = 0
  /\ faults' = 0 => faults = 0
  /\ \A t \in Threads : pc[t] \in {"spawn", "register", "start", "attach"} =>
                          pc'[t] \in {"spawn", "register", "start", "attach"}

LEMMA NobodyLostStep ==
  ASSUME FollowInv, NobodyLost
  PROVE  HandsEmpty' /\ AllFollow'
<1>1. HandsEmpty'
  BY DEF FollowInv, HandedOver, HandsEmpty, NobodyLost
<1>2. ASSUME crashes' = 0, faults' = 0, NEW s \in Subs, spc'[s] = "on"
      PROVE  Follows(s)'
  <2>1. Follows(s)
    BY <1>2 DEF FollowInv, HandedOver, AllFollow, NobodyLost
  <2>2. sess # 0 => sess \in Gens
    BY DEF FollowInv, OneServesInv, MappedInv, TypeInv, TypeOK, LiveOK, Gens
  <2> QED
    BY <2>1, <2>2 DEF Follows, NobodyLost
<1> QED
  BY <1>1, <1>2 DEF HandedOver, AllFollow

\* Every step keeps it, action by action.
LEMMA FollowStep == FollowInv /\ [Next]_vars => FollowInv'
<1> SUFFICES ASSUME FollowInv, [Next]_vars PROVE HandsEmpty' /\ AllFollow'
  BY OneServesStep, AddingStep DEF FollowInv, HandedOver
<1>t. ThreadsOK /\ LiveOK /\ DriversOK /\ HandsOK /\ ClientsOK /\ BoundsOK /\ ToldOK
  BY DEF FollowInv, OneServesInv, MappedInv, TypeInv, TypeOK
<1>n. crashes \in Nat /\ faults \in Nat
  BY <1>t, ManagerAssumption DEF BoundsOK
<1>p. Private /\ Serving /\ Undisturbed /\ HandsEmpty /\ AllFollow /\ Adding
  BY DEF FollowInv, OneServesInv, MappedInv, Mapped, OneServes, HandedOver
<1>1. ASSUME NEW g \in Gens, Driver(g) PROVE NobodyLost
  <2>1. UNCHANGED <<sess, moved, gone, overtaken, subs, spc, faults, pc>>
    BY <1>1 DEF Driver, TurnEnd, SelfTurn, Crash, WaitExit, live, threads, clients, told, bounds
  <2>2. crashes' = 0 => crashes = 0
    BY <1>1, <1>n DEF Driver, TurnEnd, SelfTurn, Crash, WaitExit, bounds
  <2> QED
    BY <2>1, <2>2 DEF NobodyLost
<1>2. ASSUME NEW g \in Gens, Pump(g) PROVE HandsEmpty' /\ AllFollow'
  <2>1. CASE PumpStore(g)
    <3>1. UNCHANGED <<sess, moved, gone, overtaken, subs, spc, faults, crashes>>
      BY <2>1 DEF PumpStore, clients, told, bounds
    <3>2. \A t \in Threads : pc'[t] = pc[t] \/ (pc[t] = "free" /\ pc'[t] = "claim")
      BY <2>1, <1>t, ManagerAssumption DEF PumpStore, ThreadsOK, Threads, StartRelease, Goto
    <3>3. NobodyLost
      BY <3>1, <3>2 DEF NobodyLost
    <3> QED
      BY <3>3, NobodyLostStep
  <2>2. CASE PumpUnmap(g)
    <3>1. crashes' # 0 /\ UNCHANGED <<moved, pc>>
      BY <2>2, <1>p DEF PumpUnmap, bounds, threads, Undisturbed, Kept
    <3> QED
      BY <3>1, <1>p DEF HandedOver, HandsEmpty, AllFollow
  <2>3. CASE ~PumpStore(g) /\ ~PumpUnmap(g)
    <3>1. UNCHANGED <<sess, moved, gone, overtaken, subs, spc, crashes, pc>>
      BY <1>2, <2>3 DEF Pump, PumpRead, PumpStoreFails, PumpClosed, PumpMarkDead, threads,
         clients, told, bounds
    <3>2. faults' = 0 => faults = 0
      BY <1>2, <2>3, <1>n DEF Pump, PumpRead, PumpStoreFails, PumpClosed, PumpMarkDead, bounds
    <3>3. NobodyLost
      BY <3>1, <3>2 DEF NobodyLost
    <3> QED
      BY <3>3, NobodyLostStep
  <2> QED
    BY <2>1, <2>2, <2>3
<1>3. ASSUME NEW m \in Msgs, Request(m) PROVE HandsEmpty' /\ AllFollow'
  <2>1. CASE EnqueueFails(m)
    <3>1. /\ faults' # 0 /\ moved' = [moved EXCEPT ![m] = {}] /\ pc[m] = "insert"
          /\ pc' = [pc EXCEPT ![m] = IF m \in Releasers THEN "free" ELSE "done"]
      BY <2>1, <1>n DEF EnqueueFails, SendFails, Goto
    <3> QED
      BY <3>1, <1>t, <1>p DEF HandedOver, HandsEmpty, AllFollow, ThreadsOK, Threads
  <2>2. CASE ~EnqueueFails(m)
    <3>1. UNCHANGED <<sess, moved, gone, overtaken, subs, spc, crashes, faults>>
      BY <1>3, <2>2 DEF Request, RequestSend, RequestEnqueue, EnqueueClaim, EnqueueInsert,
         CancelQueued, live, threads, clients, told, bounds
    <3>2. \A t \in Threads : pc[t] \in {"spawn", "register", "start", "attach"} => pc'[t] = pc[t]
      BY <1>3, <2>2, <1>t DEF Request, RequestSend, RequestEnqueue, EnqueueClaim, EnqueueInsert,
         CancelQueued, Goto, threads, ThreadsOK
    <3>3. NobodyLost
      BY <3>1, <3>2 DEF NobodyLost
    <3> QED
      BY <3>3, NobodyLostStep
  <2> QED
    BY <2>1, <2>2
<1>4. ASSUME NEW r \in Releasers, Release(r) PROVE NobodyLost
  <2>1. UNCHANGED <<sess, moved, gone, overtaken, subs, spc, crashes>>
    BY <1>4 DEF Release, ReleaseClaim, ReleaseLook, ReleaseGiveBack, ReleasePop,
       ReleaseEmpty, ReleasePopFails, live, clients, told, bounds
  <2>2. faults' = 0 => faults = 0
    BY <1>4, <1>n DEF Release, ReleaseClaim, ReleaseLook, ReleaseGiveBack, ReleasePop,
       ReleaseEmpty, ReleasePopFails, bounds
  <2>3. \A t \in Threads : pc[t] \in {"spawn", "register", "start", "attach"} => pc'[t] = pc[t]
    BY <1>4, <1>t DEF Release, ReleaseClaim, ReleaseLook, ReleaseGiveBack, ReleasePop,
       ReleaseEmpty, ReleasePopFails, Goto, ThreadsOK
  <2> QED
    BY <2>1, <2>2, <2>3 DEF NobodyLost
<1>5. ASSUME NEW t \in Threads, Send(t) PROVE HandsEmpty' /\ AllFollow'
  <2>1. CASE Restart(t)
    <3>1. CASE sess = ls[t]
      <4>1. sess \in Gens /\ pc[t] = "restart"
        BY <2>1, <3>1, <1>t DEF Restart, HandsOK, LiveOK, Gens, Close, Unmap
      <4>2. /\ UNCHANGED <<gone, overtaken, spc, crashes, faults>>
            /\ moved' = [moved EXCEPT ![t] = subs[sess]]
            /\ pc' = [pc EXCEPT ![t] = "spawn"]
        BY <2>1, <3>1 DEF Restart, Goto, Close, Unmap, clients, told, bounds
      <4>3. /\ moved'[t] = subs[sess] /\ \A u \in Threads \ {t} : moved'[u] = moved[u]
            /\ pc'[t] = "spawn" /\ \A u \in Threads \ {t} : pc'[u] = pc[u]
        BY <4>2, <1>t DEF ThreadsOK
      <4>4. moved[t] = {}
        BY <4>1, <1>p DEF HandsEmpty
      <4>5. HandsEmpty'
        BY <4>3, <1>p DEF HandsEmpty
      <4>6. ASSUME crashes' = 0, faults' = 0, NEW s \in Subs, spc'[s] = "on" PROVE Follows(s)'
        <5>1. Follows(s)
          BY <4>2, <4>6, <1>p DEF AllFollow
        <5> QED
          BY <4>2, <4>3, <4>4, <5>1 DEF Follows
      <4> QED
        BY <4>5, <4>6 DEF HandedOver, AllFollow
    <3>2. CASE sess # ls[t]
      <4>1. UNCHANGED <<sess, moved, gone, overtaken, subs, spc, crashes, faults>> /\ pc[t] = "restart"
        BY <2>1, <3>2 DEF Restart, clients, told, bounds
      <4>2. \A u \in Threads \ {t} : pc'[u] = pc[u]
        BY <2>1, <3>2, <1>t DEF Restart, Goto, ThreadsOK
      <4>3. NobodyLost
        BY <4>1, <4>2 DEF NobodyLost
      <4> QED
        BY <4>3, NobodyLostStep
    <3> QED
      BY <3>1, <3>2
  <2>2. CASE SpawnFails(t) \/ AppendUserFails(t)
    <3>1. faults' # 0 /\ moved' = [moved EXCEPT ![t] = {}]
      BY <2>2, <1>n DEF SpawnFails, AppendUserFails, SendFails
    <3>2. \A u \in Threads \ {t} : pc'[u] = pc[u]
      BY <2>2, <1>t DEF SpawnFails, AppendUserFails, SendFails, Goto, ThreadsOK
    <3>3. moved'[t] = {} /\ \A u \in Threads \ {t} : moved'[u] = moved[u]
      BY <3>1, <1>t DEF ThreadsOK
    <3> QED
      BY <3>1, <3>2, <3>3, <1>p DEF HandedOver, HandsEmpty, AllFollow
  <2>3. CASE Register(t)
    <3>1. /\ UNCHANGED <<moved, gone, overtaken, subs, spc, crashes, faults>>
          /\ sess # 0 => sess' = sess
      BY <2>3 DEF Register, clients, told, bounds
    <3>2. /\ pc'[t] \in {"start", "attach"} /\ \A u \in Threads \ {t} : pc'[u] = pc[u]
      BY <2>3, <1>t DEF Register, Goto, ThreadsOK
    <3>3. HandsEmpty'
      BY <3>1, <3>2, <1>p DEF HandsEmpty
    <3>4. AllFollow'
      BY <3>1, <1>p DEF AllFollow, Follows
    <3> QED
      BY <3>3, <3>4 DEF HandedOver
  <2>4. CASE Attach(t)
    <3>1. /\ UNCHANGED <<sess, gone, spc, crashes, faults, ls>>
          /\ pc[t] = "attach" /\ pc' = [pc EXCEPT ![t] = "append"]
          /\ moved' = [moved EXCEPT ![t] = {}]
          /\ subs' = [subs EXCEPT ![ls[t]] = @ \cup moved[t]]
          /\ overtaken' = IF sess = ls[t] THEN overtaken ELSE overtaken \cup moved[t]
      BY <2>4 DEF Attach, Goto, AddSubscribers, clients, bounds
    <3>2. ls[t] \in Gens
      BY <3>1, <1>p DEF Serving
    <3>3. /\ subs'[ls[t]] = subs[ls[t]] \cup moved[t]
          /\ \A g \in Gens : subs[g] \subseteq subs'[g]
      BY <3>1, <3>2, <1>t DEF LiveOK
    <3>4. /\ moved'[t] = {} /\ \A u \in Threads \ {t} : moved'[u] = moved[u]
          /\ \A u \in Threads \ {t} : pc'[u] = pc[u]
      BY <3>1, <1>t DEF ThreadsOK
    <3>5. HandsEmpty'
      BY <3>4, <1>p DEF HandsEmpty
    <3>6. ASSUME crashes' = 0, faults' = 0, NEW s \in Subs, spc'[s] = "on" PROVE Follows(s)'
      <4>1. Follows(s) /\ sess' = sess
        BY <3>1, <3>6, <1>p DEF AllFollow
      <4>2. sess # 0 => sess \in Gens
        BY <1>t DEF LiveOK, Gens
      <4>3. 0 \notin Gens
        BY DEF Gens
      <4>4. CASE s \in moved[t]
        BY <3>1, <3>2, <3>3, <4>1, <4>3, <4>4 DEF Follows
      <4>5. CASE s \notin moved[t]
        BY <3>1, <3>3, <3>4, <4>1, <4>2, <4>5 DEF Follows
      <4> QED
        BY <4>4, <4>5
    <3> QED
      BY <3>5, <3>6 DEF HandedOver, AllFollow
  <2>5. CASE ~Restart(t) /\ ~SpawnFails(t) /\ ~AppendUserFails(t) /\ ~Register(t) /\ ~Attach(t)
    <3>1. UNCHANGED <<sess, moved, gone, overtaken, subs, spc, crashes, faults>>
      BY <1>5, <2>5 DEF Send, SendGet, SendCheckStale, Revive, Spawn, StartPump,
         AppendUser, WriteDriver, live, clients, told, bounds
    <3>2. \A u \in Threads : pc[u] \in {"spawn", "register", "start", "attach"} =>
                               pc'[u] \in {"spawn", "register", "start", "attach"}
      BY <1>5, <2>5, <1>t DEF Send, SendGet, SendCheckStale, Revive, Spawn, StartPump,
         AppendUser, WriteDriver, Goto, ThreadsOK
    <3>3. NobodyLost
      BY <3>1, <3>2 DEF NobodyLost
    <3> QED
      BY <3>3, NobodyLostStep
  <2> QED
    BY <2>1, <2>2, <2>3, <2>4, <2>5
<1>6. ASSUME NEW s \in Subs, Subscribe(s) PROVE HandsEmpty' /\ AllFollow'
  <2>1. CASE SubscribeGet(s)
    <3>1. UNCHANGED <<sess, moved, gone, overtaken, subs, crashes, faults, pc>>
          /\ \A v \in Subs : spc'[v] = "on" => spc[v] = "on"
      BY <2>1, <1>t DEF SubscribeGet, live, threads, told, bounds, ClientsOK
    <3>2. NobodyLost
      BY <3>1 DEF NobodyLost
    <3> QED
      BY <3>2, NobodyLostStep
  <2>2. CASE SubscribeAdd(s)
    <3>1. /\ UNCHANGED <<sess, moved, gone, crashes, faults, pc>>
          /\ spc' = [spc EXCEPT ![s] = "on"]
          /\ subs' = [subs EXCEPT ![sls[s]] = @ \cup {s}]
          /\ overtaken' = IF sess = sls[s] THEN overtaken ELSE overtaken \cup {s}
      BY <2>2 DEF SubscribeAdd, AddSubscribers, threads, bounds
    <3>2. sess # 0 => sess \in Gens
      BY <1>t DEF LiveOK, Gens
    <3>3. /\ \A g \in Gens : subs[g] \subseteq subs'[g]
          /\ sess \in Gens /\ sess = sls[s] => s \in subs'[sess]
          /\ \A v \in Subs \ {s} : spc'[v] = spc[v]
      BY <3>1, <1>t DEF LiveOK, ClientsOK
    <3>4. HandsEmpty'
      BY <3>1, <1>p DEF HandsEmpty
    <3>5. ASSUME crashes' = 0, faults' = 0, NEW v \in Subs, spc'[v] = "on" PROVE Follows(v)'
      <4>1. CASE v = s /\ (sess # sls[s] \/ sess # 0)
        BY <3>1, <3>2, <3>3, <4>1 DEF Follows
      <4>3. sls[s] # 0
        BY <2>2, <1>p DEF SubscribeAdd, Adding
      <4>2. CASE v # s
        <5>1. Follows(v)
          BY <3>1, <3>3, <3>5, <4>2, <1>p DEF AllFollow
        <5> QED
          BY <3>1, <3>2, <3>3, <5>1 DEF Follows
      <4> QED
        BY <4>1, <4>2, <4>3
    <3> QED
      BY <3>4, <3>5 DEF HandedOver, AllFollow
  <2> QED
    BY <1>6, <2>1, <2>2 DEF Subscribe
<1>7. ASSUME NEW x \in Setters, Settings(x) PROVE NobodyLost
  <2>1. UNCHANGED <<sess, moved, gone, overtaken, subs, spc, crashes, faults, pc>>
    BY <1>7 DEF Settings, SettingsGet, SettingsSave, SettingsApply, live, drivers,
       threads, told, bounds
  <2> QED
    BY <2>1 DEF NobodyLost
<1>8. CASE ServerRestart
  <2>1. /\ \A t \in Threads : moved'[t] = {}
        /\ \A s \in Subs : spc'[s] = "on" => s \in gone'
    BY <1>8, <1>t DEF ServerRestart, ClientsOK
  <2> QED
    BY <2>1 DEF HandedOver, HandsEmpty, AllFollow, Follows
<1>9. CASE UNCHANGED vars
  <2>1. UNCHANGED <<sess, moved, gone, overtaken, subs, spc, crashes, faults, pc>>
    BY <1>9 DEF vars, live, threads, clients, told, bounds
  <2> QED
    BY <2>1, NobodyLostStep DEF NobodyLost
<1> QED
  BY <1>1, <1>2, <1>3, <1>4, <1>5, <1>6, <1>7, <1>8, <1>9, NobodyLostStep DEF Next

LEMMA FollowInit == Init => FollowInv
<1> SUFFICES ASSUME NEW up \in BOOLEAN, InitWith(up) PROVE HandedOver
  BY OneServesInit DEF Init, FollowInv
<1> QED
  BY DEF InitWith, HandedOver, HandsEmpty, AllFollow, Adding

\* restart, Attach and Subscribe (manager.go): who subscribed hears of every
\* process that serves the session.
THEOREM SubscribersFollow == Spec => []SubscribersFollowUnlessOvertaken
<1>1. FollowInv => SubscribersFollowUnlessOvertaken
  <2> SUFFICES ASSUME FollowInv, AtRest, sess # 0, crashes = 0, faults = 0,
                      NEW s \in Subs, spc[s] = "on"
               PROVE  s \in subs[sess] \cup gone \cup overtaken
    BY DEF SubscribersFollowUnlessOvertaken
  <2>1. Follows(s) /\ \A t \in Threads : moved[t] = {}
    BY DEF FollowInv, HandedOver, HandsEmpty, AllFollow, AtRest
  <2> QED
    BY <2>1 DEF Follows
<1> QED
  BY <1>1, FollowInit, FollowStep, PTL DEF Spec
=============================================================================
