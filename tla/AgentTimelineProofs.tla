------------------------ MODULE AgentTimelineProofs ------------------------
(***************************************************************************)
(* What holds of AgentTimeline for every number of browsers, rows,         *)
(* restarts and requests, and every size of queues and pages.              *)
(***************************************************************************)
EXTENDS AgentTimeline, TLAPS

-----------------------------------------------------------------------------
(***************************************************************************)
(* Type correctness.                                                       *)
(***************************************************************************)
\* A restart has a process to start; a writer at work has a liveSession, and
\* from SELECT on a seq; once inserted the row is in the table.
HeldOK ==
  /\ mapped <= used /\ (swap = "detached" => used < MaxGen)
  /\ \A w \in Writers : wpc[w] # "free" => wls[w] \in Gens /\ wls[w] <= used
  /\ \A w \in Writers : wpc[w] \notin {"free", "append"} => wseq[w] \in 1..(last + 1)
  /\ \A w \in Writers : wpc[w] \in {"broadcast", "send", "answer"} => wseq[w] <= last

TypeInv == TypeOK /\ HeldOK

\* A group of variables a step leaves alone keeps its type.
LEMMA Untouched ==
  /\ ServerOK /\ UNCHANGED server => ServerOK'
  /\ WritersOK /\ UNCHANGED writers => WritersOK'
  /\ WireOK /\ UNCHANGED wire => WireOK'
  /\ PageOK /\ UNCHANGED page => PageOK'
  /\ HistoryOK /\ UNCHANGED history => HistoryOK'
  /\ BoundsOK /\ UNCHANGED bounds => BoundsOK'
BY DEF server, writers, wire, page, history, bounds, ServerOK, WritersOK, WireOK,
       PageOK, HistoryOK, BoundsOK

\* The rows from a to b, as a sequence in ascending order.
LEMMA RowsFromToType ==
  ASSUME NEW a \in Nat \ {0}, NEW b \in Nat, NEW R, a..b \subseteq R
  PROVE  /\ RowsFromTo(a, b) \in Seq(R)
         /\ Len(RowsFromTo(a, b)) = Upper(0, b + 1 - a)
         /\ \A i \in 1..Len(RowsFromTo(a, b)) : RowsFromTo(a, b)[i] = a + i - 1
<1> DEFINE n == Upper(0, b + 1 - a)
<1>1. n \in Nat /\ (n > 0 => n = b + 1 - a)
  BY DEF Upper
<1>2. \A i \in 1..n : a + i - 1 \in R
  <2>1. \A i \in 1..n : a + i - 1 \in a..b
    BY <1>1
  <2> QED
    BY <2>1
<1>3. RowsFromTo(a, b) = [i \in 1..n |-> a + i - 1]
  BY DEF RowsFromTo
<1> QED
  BY <1>1, <1>2, <1>3

\* What the page keeps of a row it is handed.
LEMMA KeepType ==
  ASSUME NEW s \in Seq(Rows), NEW seq \in Rows
  PROVE  Keep(s, seq) \in Seq(Rows)
BY DEF Keep

\* The latest row of a view.
LEMMA MaxSeqType ==
  ASSUME PageOK, TimelineAssumption, NEW r \in Readers
  PROVE  MaxSeq(r) \in 0..MaxRows
<1>1. view[r] \in Seq(Rows) /\ MaxRows \in Nat
  BY DEF PageOK, TimelineAssumption
<1>2. CASE view[r] = <<>>
  BY <1>1, <1>2 DEF MaxSeq
<1>3. CASE view[r] # <<>>
  <2>1. view[r][Len(view[r])] \in Rows
    BY <1>1, <1>3
  <2> QED
    BY <1>1, <1>3, <2>1 DEF MaxSeq, Rows
<1> QED
  BY <1>2, <1>3

\* A GET has an interval of rows for its answer.
LEMMA AnswerTypes ==
  ASSUME TimelineAssumption, NEW size \in Nat \ {0}, NEW after \in 0..MaxRows,
         last \in 0..MaxRows
  PROVE  /\ MessagesTail(size).from \in 1..(MaxRows + 1)
         /\ MessagesTail(size).to \in 0..last
         /\ Messages(after, size).from \in 1..(MaxRows + 1)
         /\ Messages(after, size).to \in 0..last
BY DEF TimelineAssumption, MessagesTail, Messages, Upper, Lower

\* Initial states have the types.
LEMMA TypeInit == Init => TypeOK
<1> SUFFICES ASSUME Init PROVE TypeOK
  OBVIOUS
<1> USE TimelineAssumption
<1>1. ServerOK /\ WritersOK /\ BoundsOK
  BY DEF Init, TimelineAssumption, ServerOK, WritersOK, BoundsOK, Gens, Steps
<1>2. WireOK
  BY DEF Init, TimelineAssumption, WireOK
<1>3. NoCall \in Calls
  BY DEF TimelineAssumption, NoCall, Calls
<1>4. PageOK
  BY <1>3 DEF Init, PageOK
<1>5. HistoryOK
  BY DEF Init, HistoryOK
<1> QED
  BY <1>1, <1>2, <1>4, <1>5 DEF TypeOK

\* Show keeps the types of the view and of raced.
LEMMA ShowTypes ==
  ASSUME PageOK, HistoryOK, NEW r \in Readers, NEW seq \in Rows, Show(r, seq)
  PROVE  view' \in [Readers -> Seq(Rows)] /\ raced' \in [Readers -> BOOLEAN]
<1>1. CASE selected[r]
  <2>1. Keep(view[r], seq) \in Seq(Rows)
    BY KeepType DEF PageOK
  <2>2. view' = [view EXCEPT ![r] = Keep(view[r], seq)] /\ Race(r)
    BY <1>1, Zenon DEF Show
  <2> QED
    BY <2>1, <2>2 DEF PageOK, HistoryOK, Race
<1>2. CASE ~selected[r]
  BY <1>2 DEF Show, PageOK, HistoryOK
<1> QED
  BY <1>1, <1>2

\* Steps of the writers keep the types.
LEMMA WriteTypes ==
  ASSUME TypeInv, NEW w \in Writers, Write(w)
  PROVE  TypeOK'
<1> USE TimelineAssumption DEF TypeOK, TypeInv
<1>1. CASE Insert(w)
  <2>1. ServerOK' /\ WritersOK'
    BY <1>1 DEF Insert, ServerOK, WritersOK, Steps, wire, page
  <2> QED
    BY <1>1, <2>1, Untouched DEF Insert
<1>2. CASE InsertFails(w)
  <2>1. WritersOK'
    BY <1>2 DEF InsertFails, TimelineAssumption, WritersOK, Steps
  <2>2. HistoryOK'
    BY <1>2 DEF InsertFails, HistoryOK
  <2> QED
    BY <1>2, <2>1, <2>2, Untouched DEF InsertFails
<1>3. CASE Broadcast(w)
  <2>1. wpc' \in [Writers -> Steps]
    BY <1>3 DEF Broadcast, WritersOK, Steps, After
  <2>2. wto' \in [Writers -> SUBSET Readers]
    <3>1. subs[wls[w]] \in SUBSET Readers
      BY <1>3 DEF ServerOK, HeldOK, Broadcast
    <3> QED
      BY <1>3, <3>1 DEF Broadcast, WritersOK
  <2> QED
    BY <1>3, <2>1, <2>2, Untouched DEF Broadcast, Forget, WritersOK, TimelineAssumption
<1>4. ASSUME NEW r \in Readers, Deliver(w, r) PROVE TypeOK'
  <2>1. WritersOK'
    <3>1. wpc' \in [Writers -> Steps]
      BY <1>4 DEF Deliver, WritersOK, Steps, After
    <3>2. wto' \in [Writers -> SUBSET Readers]
      BY <1>4 DEF Deliver, WritersOK
    <3>3. wseq' \in [Writers -> 0..MaxRows] /\ wls' = wls
      BY <1>4 DEF Deliver, WritersOK, Forget, TimelineAssumption
    <3> QED
      BY <3>1, <3>2, <3>3 DEF WritersOK
  <2>2. wseq[w] \in Rows
    BY <1>4 DEF Deliver, WritersOK, HeldOK, Rows, TimelineAssumption
  <2>3. WireOK'
    <3>1. Push(queue[r], wseq[w]) \in Seq(Rows)
      <4>1. queue[r] \in Seq(Rows)
        BY DEF WireOK
      <4> QED
        BY <2>2, <4>1 DEF Push
    <3> QED
      BY <1>4, <3>1 DEF Deliver, WireOK
  <2>4. HistoryOK'
    <3>1. NotYetAt(r, wseq[w]) \subseteq Rows
      BY <2>2 DEF NotYetAt, Rows, TimelineAssumption
    <3> QED
      BY <1>4, <3>1 DEF Deliver, HistoryOK
  <2> QED
    BY <1>4, <2>1, <2>3, <2>4, Untouched DEF Deliver
<1> QED
  BY <1>1, <1>2, <1>3, <1>4 DEF Write

\* Steps of a restart, and the first steps of a writer, keep the types.
LEMMA ServeTypes ==
  ASSUME TypeInv
  PROVE  /\ Restart => TypeOK'
         /\ \A g \in Gens : PumpAppend(g) => TypeOK'
         /\ \A r \in Readers : PostGet(r) \/ PostAppend(r) => TypeOK'
<1> USE TimelineAssumption DEF TypeOK, TypeInv
<1>1. ASSUME NEW w \in Writers, NEW g \in Gens, PickSeq(w, g) PROVE TypeOK'
  <2>1. WritersOK'
    BY <1>1 DEF PickSeq, WritersOK, Steps, ServerOK, Gens, TimelineAssumption
  <2> QED
    BY <1>1, <2>1, Untouched DEF PickSeq
<1>2. ASSUME NEW r \in Readers, PostGet(r) PROVE TypeOK'
  <2>1. WritersOK'
    BY <1>2 DEF PostGet, WritersOK, Steps, ServerOK
  <2>2. BoundsOK'
    BY <1>2 DEF PostGet, BoundsOK, TimelineAssumption
  <2> QED
    BY <1>2, <2>1, <2>2, Untouched DEF PostGet
<1>3. ASSUME Restart PROVE TypeOK'
  <2>1. BoundsOK'
    BY <1>3 DEF Restart, Detach, Register, Attach, Trouble, BoundsOK, bounds,
       TimelineAssumption
  <2>2. CASE Detach
    <3>1. ServerOK'
      BY <2>2 DEF Detach, ServerOK, Gens, TimelineAssumption
    <3> QED
      BY <2>1, <2>2, <3>1, Untouched DEF Detach
  <2>3. CASE Register
    <3>1. used + 1 \in Gens
      BY <2>3 DEF Register, ServerOK, HeldOK, Gens, TimelineAssumption
    <3>2. ServerOK'
      BY <2>3, <3>1 DEF Register, ServerOK, Gens, TimelineAssumption
    <3> QED
      BY <2>3, <3>2, Untouched DEF Register
  <2>4. CASE Attach
    <3>1. ServerOK'
      BY <2>4 DEF Attach, ServerOK
    <3> QED
      BY <2>4, <3>1, Untouched DEF Attach
  <2> QED
    BY <1>3, <2>2, <2>3, <2>4 DEF Restart
<1>4. \A g \in Gens : PumpAppend(g) => TypeOK'
  BY <1>1 DEF PumpAppend, Writers
<1>5. ASSUME NEW r \in Readers, PostAppend(r) PROVE TypeOK'
  <2>1. wls[r] \in Gens
    BY <1>5 DEF PostAppend, HeldOK, Writers
  <2> QED
    BY <1>1, <1>5, <2>1 DEF PostAppend, Writers
<1> QED
  BY <1>2, <1>3, <1>4, <1>5

\* A GET of the rows above one that exists.
LEMMA AskedType ==
  ASSUME NEW after \in 0..MaxRows
  PROVE  Asked(after) \in Calls
BY TimelineAssumption DEF TimelineAssumption, Asked, Calls

\* Asking for history keeps the type of the calls.
LEMMA AskType ==
  ASSUME PageOK, NEW r \in Readers, NEW kind \in Kinds, Ask(r, kind)
  PROVE  call' \in [Readers -> [Kinds -> Calls]]
<1> DEFINE after == IF kind = "open" THEN 0 ELSE MaxSeq(r)
<1>1. after \in 0..MaxRows
  BY MaxSeqType, TimelineAssumption DEF TimelineAssumption
<1>2. Asked(after) \in Calls
  BY <1>1, AskedType
<1>3. call' = [call EXCEPT ![r][kind] = Asked(after)]
  BY Zenon DEF Ask
<1> HIDE DEF after
<1> QED
  BY <1>2, <1>3 DEF PageOK

\* Steps of a connection keep the types.
LEMMA ConnectionTypes ==
  ASSUME TypeInv, NEW r \in Readers, Connection(r)
  PROVE  TypeOK'
<1> USE TimelineAssumption DEF TypeOK, TypeInv
<1>1. CASE Connect(r)
  <2>1. WireOK'
    BY <1>1 DEF Connect, WireOK, PageOK
  <2>2. PageOK'
    <3>1. call' \in [Readers -> [Kinds -> Calls]]
      <4>1. CASE selected[r]
        BY <1>1, <4>1, AskType DEF Connect, Kinds
      <4>2. CASE ~selected[r]
        BY <1>1, <4>2 DEF Connect, PageOK
      <4> QED
        BY <4>1, <4>2
    <3> QED
      BY <1>1, <3>1 DEF Connect, PageOK
  <2>3. HistoryOK'
    <3>1. (MaxSeq(r) + 1)..last \subseteq Rows
      BY MaxSeqType DEF ServerOK, Rows, TimelineAssumption
    <3>2. owed' \in [Readers -> SUBSET Rows]
      BY <1>1, <3>1 DEF Connect, HistoryOK
    <3> QED
      BY <1>1, <3>2 DEF Connect, HistoryOK
  <2> QED
    BY <1>1, <2>1, <2>2, <2>3, Untouched DEF Connect
<1>2. CASE Break(r)
  <2>1. ServerOK'
    BY <1>2 DEF Break, ServerOK
  <2>2. WritersOK'
    <3>1. wpc' \in [Writers -> Steps]
      BY <1>2 DEF Break, WritersOK, Steps, After
    <3>2. wto' \in [Writers -> SUBSET Readers]
      BY <1>2 DEF Break, WritersOK
    <3>3. wseq' \in [Writers -> 0..MaxRows] /\ wls' = wls
      BY <1>2 DEF Break, WritersOK, Forget, TimelineAssumption
    <3> QED
      BY <3>1, <3>2, <3>3 DEF WritersOK
  <2>3. WireOK'
    BY <1>2 DEF Break, WireOK, TimelineAssumption
  <2>4. BoundsOK'
    BY <1>2 DEF Break, Trouble, BoundsOK, TimelineAssumption
  <2> QED
    BY <1>2, <2>1, <2>2, <2>3, <2>4, Untouched DEF Break
<1>3. CASE SubscribeGet(r)
  <2>1. WireOK'
    BY <1>3 DEF SubscribeGet, WireOK, ServerOK
  <2> QED
    BY <1>3, <2>1, Untouched DEF SubscribeGet
<1>4. CASE SubscribeAdd(r)
  <2>1. WireOK'
    BY <1>4 DEF SubscribeAdd, WireOK, TimelineAssumption
  <2>2. ServerOK'
    BY <1>4 DEF SubscribeAdd, ServerOK
  <2> QED
    BY <1>4, <2>1, <2>2, Untouched DEF SubscribeAdd
<1> QED
  BY <1>1, <1>2, <1>3, <1>4 DEF Connection

\* Steps that hand the page a row, and the click on a session, keep the types.
LEMMA RowTypes ==
  ASSUME TypeInv, NEW r \in Readers
  PROVE  /\ Receive(r) => TypeOK'
         /\ \A carries \in BOOLEAN : PostAnswer(r, carries) => TypeOK'
         /\ OpenSession(r) => TypeOK'
<1> USE TimelineAssumption DEF TypeOK, TypeInv
<1>1. ASSUME Receive(r) PROVE TypeOK'
  <2>1. queue[r] \in Seq(Rows) /\ queue[r] # <<>>
    BY <1>1 DEF Receive, WireOK
  <2>2. Head(queue[r]) \in Rows /\ Tail(queue[r]) \in Seq(Rows)
    BY <2>1
  <2>3. WireOK'
    BY <1>1, <2>2 DEF Receive, WireOK
  <2>4. view' \in [Readers -> Seq(Rows)] /\ raced' \in [Readers -> BOOLEAN]
    BY <1>1, <2>2, ShowTypes DEF Receive
  <2> QED
    BY <1>1, <2>3, <2>4, Untouched DEF Receive, PageOK, HistoryOK
<1>2. ASSUME NEW carries \in BOOLEAN, PostAnswer(r, carries) PROVE TypeOK'
  <2>1. wseq[r] \in Rows
    BY <1>2 DEF PostAnswer, WritersOK, HeldOK, Rows, Writers, TimelineAssumption
  <2>2. WritersOK'
    BY <1>2 DEF PostAnswer, WritersOK, Writers, Steps, TimelineAssumption
  <2>3. /\ view' \in [Readers -> Seq(Rows)] /\ raced' \in [Readers -> BOOLEAN]
        /\ passedBy' \in [Readers -> SUBSET Rows]
    <3>1. CASE carries /\ selected[r]
      <4>1. (1..(wseq[r] - 1)) \ Elements(view[r]) \subseteq Rows
        BY <2>1 DEF Rows, TimelineAssumption
      <4>2. /\ Show(r, wseq[r])
            /\ passedBy' = [passedBy EXCEPT ![r] =
                              @ \cup ((1..(wseq[r] - 1)) \ Elements(view[r]))]
        BY <1>2, <3>1, Zenon DEF PostAnswer
      <4>3. passedBy' \in [Readers -> SUBSET Rows]
        BY <4>1, <4>2 DEF HistoryOK
      <4> QED
        BY <2>1, <4>2, <4>3, ShowTypes
    <3>2. CASE ~(carries /\ selected[r])
      BY <1>2, <3>2 DEF PostAnswer, PageOK, HistoryOK
    <3> QED
      BY <3>1, <3>2
  <2> QED
    BY <1>2, <2>2, <2>3, Untouched DEF PostAnswer, PageOK, HistoryOK
<1>3. ASSUME OpenSession(r) PROVE TypeOK'
  <2>1. call' \in [Readers -> [Kinds -> Calls]]
    BY <1>3, AskType DEF OpenSession, Kinds
  <2>2. PageOK'
    <3>1. <<>> \in Seq(Rows)
      OBVIOUS
    <3>2. view' \in [Readers -> Seq(Rows)]
      BY <1>3, <3>1 DEF OpenSession, PageOK
    <3>3. selected' \in [Readers -> BOOLEAN]
      BY <1>3 DEF OpenSession, PageOK
    <3> QED
      BY <1>3, <2>1, <3>2, <3>3 DEF OpenSession, PageOK
  <2>3. HistoryOK'
    <3>1. 1..MaxSeq(r) \subseteq Rows
      BY MaxSeqType DEF Rows, TimelineAssumption
    <3>2. passedBy' \in [Readers -> SUBSET Rows]
      BY <1>3, <3>1 DEF OpenSession, HistoryOK
    <3> QED
      BY <1>3, <3>2 DEF OpenSession, HistoryOK
  <2>4. BoundsOK'
    BY <1>3 DEF OpenSession, BoundsOK, TimelineAssumption
  <2> QED
    BY <1>3, <2>2, <2>3, <2>4, Untouched DEF OpenSession
<1> QED
  BY <1>1, <1>2, <1>3

\* Steps of the GETs of history keep the types.
LEMMA HistoryTypes ==
  ASSUME TypeInv, NEW r \in Readers
  PROVE  /\ \A kind \in Kinds : Read(r, kind) => TypeOK'
         /\ OpenApply(r) => TypeOK'
         /\ OpenSubscribe(r) \/ OpenFails(r) => TypeOK'
         /\ CatchUpFails(r) => TypeOK'
<1> USE TimelineAssumption DEF TypeOK, TypeInv
<1>0. /\ "open" \in Kinds /\ "catchUp" \in Kinds /\ NoCall \in Calls
      /\ [NoCall EXCEPT !.step = "shown"] \in Calls
  BY DEF Kinds, NoCall, Calls, TimelineAssumption
<1>1. ASSUME NEW kind \in Kinds, Read(r, kind) PROVE TypeOK'
  <2> DEFINE c == call[r][kind]
             size == IF kind = "open" THEN OpenPage ELSE CatchUpPage
             got == IF c.after = 0 THEN MessagesTail(size) ELSE Messages(c.after, size)
             answered == [step |-> "answered", after |-> c.after,
                          from |-> got.from, to |-> got.to]
  <2>1. c \in Calls /\ size \in Nat \ {0}
    BY DEF PageOK, TimelineAssumption
  <2>2. c.after \in 0..MaxRows
    BY <2>1 DEF Calls
  <2>3. got.from \in 1..(MaxRows + 1) /\ got.to \in 0..last
    BY <2>1, <2>2, AnswerTypes DEF ServerOK
  <2>4. answered \in Calls
    <3>1. got.to \in 0..MaxRows
      BY <2>3 DEF ServerOK, TimelineAssumption
    <3> HIDE DEF got
    <3> QED
      BY <2>2, <2>3, <3>1 DEF Calls
  <2>5. call' = [call EXCEPT ![r][kind] = answered]
    BY <1>1, Zenon DEF Read
  <2> HIDE DEF answered
  <2>6. PageOK'
    BY <1>1, <2>4, <2>5 DEF Read, PageOK
  <2> QED
    BY <1>1, <2>6, Untouched DEF Read, server, writers, wire, history, bounds
<1>2. ASSUME OpenApply(r) PROVE TypeOK'
  <2> DEFINE c == call[r]["open"]
             page_rows == RowsFromTo(c.from, c.to)
  <2>1. c.from \in 1..(MaxRows + 1) /\ c.to \in 0..MaxRows
    <3>1. c \in Calls
      BY <1>0 DEF PageOK
    <3> QED
      BY <3>1 DEF Calls
  <2>2. page_rows \in Seq(Rows)
    <3>1. c.from \in Nat \ {0} /\ c.to \in Nat /\ c.from..c.to \subseteq Rows
      BY <2>1 DEF Rows, TimelineAssumption
    <3> QED
      BY <3>1, RowsFromToType
  <2>3. /\ call' = [call EXCEPT ![r]["open"] = [NoCall EXCEPT !.step = "shown"]]
        /\ view' = [view EXCEPT ![r] = page_rows]
        /\ passedBy' = [passedBy EXCEPT ![r] =
                          (@ \cup 1..MaxSeq(r)) \ Elements(page_rows)]
        /\ owed' = [owed EXCEPT ![r] = {}] /\ Race(r)
        /\ UNCHANGED <<server, writers, wire, selected, listed, collided, bounds>>
    BY <1>2, Zenon DEF OpenApply
  <2> HIDE DEF page_rows
  <2>4. PageOK'
    BY <1>0, <2>2, <2>3 DEF PageOK
  <2>5. 1..MaxSeq(r) \subseteq Rows
    BY MaxSeqType DEF Rows, TimelineAssumption
  <2>6. HistoryOK'
    <3>1. passedBy' \in [Readers -> SUBSET Rows]
      BY <2>3, <2>5 DEF HistoryOK
    <3> QED
      BY <2>3, <3>1 DEF HistoryOK, Race
  <2> QED
    BY <2>3, <2>4, <2>6, Untouched
<1>3. ASSUME OpenSubscribe(r) \/ OpenFails(r) PROVE TypeOK'
  <2>1. WsSubscribe(r)
    BY <1>3 DEF OpenSubscribe, OpenFails
  <2>2. WireOK'
    BY <2>1 DEF WsSubscribe, WireOK
  <2>3. PageOK'
    BY <1>0, <2>1 DEF WsSubscribe, PageOK
  <2>4. BoundsOK'
    BY <1>3, <2>1 DEF WsSubscribe, OpenSubscribe, OpenFails, Trouble, BoundsOK,
                      TimelineAssumption
  <2> QED
    BY <2>1, <2>2, <2>3, <2>4, Untouched DEF WsSubscribe
<1>4. ASSUME CatchUpFails(r) PROVE TypeOK'
  <2>1. PageOK'
    BY <1>0, <1>4 DEF CatchUpFails, PageOK
  <2>2. HistoryOK'
    BY <1>4 DEF CatchUpFails, HistoryOK
  <2>3. BoundsOK'
    BY <1>4 DEF CatchUpFails, Trouble, BoundsOK, TimelineAssumption
  <2> QED
    BY <1>4, <2>1, <2>2, <2>3, Untouched DEF CatchUpFails
<1> QED
  BY <1>1, <1>2, <1>3, <1>4

\* What the catch-up makes of the view.
CaughtUpView(r) ==
  LET c == call[r]["catchUp"]
  IN view[r] \o RowsFromTo(Upper(c.from, MaxSeq(r) + 1), c.to)

\* A page of the catch-up keeps the types.
LEMMA CatchUpTypes ==
  ASSUME TypeInv, NEW r \in Readers, CatchUpApply(r)
  PROVE  TypeOK'
<1> USE TimelineAssumption DEF TypeOK, TypeInv
<1> DEFINE c == call[r]["catchUp"]
           new == CaughtUpView(r)
           top == IF new = <<>> THEN 0 ELSE new[Len(new)]
<1>1. c.from \in 1..(MaxRows + 1) /\ c.to \in 0..MaxRows
  <2>1. c \in Calls
    BY DEF PageOK, Kinds
  <2> QED
    BY <2>1 DEF Calls
<1>2. new \in Seq(Rows)
  <2> DEFINE a == Upper(c.from, MaxSeq(r) + 1)
  <2>1. MaxSeq(r) \in 0..MaxRows /\ view[r] \in Seq(Rows)
    BY MaxSeqType DEF PageOK
  <2>2. a \in Nat \ {0} /\ c.to \in Nat /\ a..c.to \subseteq Rows
    BY <1>1, <2>1, SMTT(20) DEF Upper, Rows, TimelineAssumption
  <2>3. RowsFromTo(a, c.to) \in Seq(Rows)
    BY <2>2, RowsFromToType
  <2> HIDE DEF a
  <2>4. view[r] \o RowsFromTo(a, c.to) \in Seq(Rows)
    BY <2>1, <2>3
  <2> QED
    BY <2>4 DEF CaughtUpView, a
<1>3. top \in 0..MaxRows
  <2> HIDE DEF new
  <2> QED
    BY <1>2 DEF Rows, TimelineAssumption
<1>4. /\ view' = [view EXCEPT ![r] = new]
      /\ call' = [call EXCEPT ![r]["catchUp"] =
                    IF Again(c, top) THEN Asked(top) ELSE NoCall]
      /\ passedBy' = [passedBy EXCEPT ![r] =
                        IF c.after = 0 THEN @ \cup (MaxSeq(r) + 1)..(c.from - 1) ELSE @]
      /\ UNCHANGED <<server, writers, wire, selected, listed, collided, owed,
                     raced, bounds>>
  BY Zenon DEF CatchUpApply, CaughtUpView
<1> HIDE DEF new, top
<1>5. Asked(top) \in Calls /\ NoCall \in Calls /\ "catchUp" \in Kinds
  BY <1>3, AskedType DEF NoCall, Calls, Kinds, TimelineAssumption
<1>6. PageOK'
  <2>1. (IF Again(c, top) THEN Asked(top) ELSE NoCall) \in Calls
    BY <1>5
  <2>2. call' \in [Readers -> [Kinds -> Calls]]
    BY <1>4, <1>5, <2>1 DEF PageOK
  <2>3. view' \in [Readers -> Seq(Rows)]
    BY <1>2, <1>4 DEF PageOK
  <2> QED
    BY <1>4, <2>2, <2>3 DEF PageOK
<1>7. HistoryOK'
  <2>1. (MaxSeq(r) + 1)..(c.from - 1) \subseteq Rows
    BY <1>1, MaxSeqType DEF Rows, TimelineAssumption
  <2>2. passedBy' \in [Readers -> SUBSET Rows]
    BY <1>4, <2>1 DEF HistoryOK
  <2> QED
    BY <1>4, <2>2 DEF HistoryOK
<1> QED
  BY <1>4, <1>6, <1>7, Untouched

\* Every step keeps the types.
LEMMA TypeStep == TypeInv /\ [Next]_vars => TypeOK'
<1> SUFFICES ASSUME TypeInv, [Next]_vars PROVE TypeOK'
  OBVIOUS
<1>1. CASE UNCHANGED vars
  BY <1>1, Untouched DEF vars, TypeInv, TypeOK
<1>2. ASSUME NEW r \in Readers, Page(r) PROVE TypeOK'
  BY <1>2, RowTypes, HistoryTypes, CatchUpTypes DEF Page
<1> QED
  BY <1>1, <1>2, WriteTypes, ServeTypes, ConnectionTypes DEF Next

-----------------------------------------------------------------------------
(***************************************************************************)
(* What the writers hold.                                                  *)
(***************************************************************************)
\* Two writers under the same wmu are the same; with a single liveSession, the
\* seq that was read is still the next one, and no INSERT has failed.
LockOK ==
  /\ \A v, w \in Writers :
       wpc[v] = "insert" /\ wpc[w] = "insert" /\ wls[v] = wls[w] => v = w
  /\ used = 1 => ~collided /\ \A w \in Writers : wpc[w] = "insert" => wseq[w] = last + 1

WriteInv == TypeInv /\ LockOK

\* Steps that change none of this.
LEMMA HeldUntouched ==
  ASSUME WriteInv,
         UNCHANGED <<last, mapped, used, swap, wpc, wls, wseq, collided>>
  PROVE  HeldOK' /\ LockOK'
BY DEF WriteInv, TypeInv, HeldOK, LockOK

\* Taking wmu and reading the next seq.
LEMMA PickHeld ==
  ASSUME WriteInv, NEW w \in Writers, NEW g \in Gens, g <= used, PickSeq(w, g)
  PROVE  HeldOK' /\ LockOK'
<1> USE TimelineAssumption DEF WriteInv, TypeInv, TypeOK, ServerOK, WritersOK
<1>1. /\ last \in Nat /\ used \in Nat /\ \A v \in Writers : wls[v] \in Nat
  BY DEF Gens, TimelineAssumption
<1>2. /\ wpc' = [wpc EXCEPT ![w] = "insert"] /\ wls' = [wls EXCEPT ![w] = g]
      /\ wseq' = [wseq EXCEPT ![w] = last + 1]
      /\ last' = last /\ mapped' = mapped /\ used' = used /\ swap' = swap
      /\ collided' = collided
  BY DEF PickSeq, server, history
<1>3. HeldOK'
  BY <1>1, <1>2 DEF HeldOK
<1>4. LockOK'
  <2>1. \A v \in Writers : wpc[v] = "insert" => wls[v] # g
    BY DEF PickSeq, Unlocked
  <2>2. used = 1 => \A v \in Writers : wpc[v] # "insert"
    BY <1>1, <2>1, SMTT(20) DEF HeldOK, Gens
  <2> QED
    BY <1>1, <1>2, <2>1, <2>2 DEF LockOK
<1> QED
  BY <1>3, <1>4

\* Later steps of a writer.
LEMMA WriteHeld ==
  ASSUME WriteInv, NEW w \in Writers, Write(w)
  PROVE  HeldOK' /\ LockOK'
<1> USE TimelineAssumption DEF WriteInv, TypeInv, TypeOK, ServerOK, WritersOK
<1>0. /\ last \in Nat /\ used \in Nat
      /\ \A v \in Writers : wls[v] \in Nat /\ wseq[v] \in Nat
  BY DEF Gens, TimelineAssumption
<1>1. CASE Insert(w)
  <2>1. /\ wpc[w] = "insert" /\ wseq[w] = last + 1 /\ last' = last + 1
        /\ wpc' = [wpc EXCEPT ![w] = "broadcast"]
        /\ UNCHANGED <<mapped, used, swap, wls, wseq, collided>>
    BY <1>1 DEF Insert, history
  <2>2. HeldOK'
    BY <1>0, <2>1 DEF HeldOK
  <2>3. used = 1 => \A v \in Writers : wpc[v] = "insert" => v = w
    BY <1>0, <2>1 DEF HeldOK, LockOK, Gens
  <2>4. LockOK'
    BY <1>0, <2>1, <2>3 DEF LockOK
  <2> QED
    BY <2>2, <2>4
<1>2. CASE InsertFails(w)
  <2>1. /\ wpc[w] = "insert" /\ wseq[w] <= last
        /\ wpc' = [wpc EXCEPT ![w] = "free"] /\ wseq' = [wseq EXCEPT ![w] = 0]
        /\ UNCHANGED <<last, mapped, used, swap, wls>>
    BY <1>2 DEF InsertFails, server
  <2>2. HeldOK'
    BY <1>0, <2>1 DEF HeldOK
  <2>3. used # 1
    BY <1>0, <2>1 DEF LockOK
  <2> QED
    BY <2>1, <2>2, <2>3 DEF LockOK
<1>3. ASSUME wpc[w] \in {"broadcast", "send"}, NEW rest \in SUBSET Readers,
             wpc' = [wpc EXCEPT ![w] = After(w, rest)], wseq' = Forget(wpc'),
             UNCHANGED <<last, mapped, used, swap, wls, collided>>
      PROVE  HeldOK' /\ LockOK'
  <2>1. After(w, rest) \in {"send", "answer", "free"}
    BY DEF After
  <2>2. \A v \in Writers : wseq'[v] = IF wpc'[v] = "free" THEN 0 ELSE wseq[v]
    BY <1>3 DEF Forget
  <2>3. HeldOK'
    BY <1>0, <1>3, <2>1, <2>2 DEF HeldOK
  <2>4. LockOK'
    BY <1>0, <1>3, <2>1, <2>2 DEF LockOK
  <2> QED
    BY <2>3, <2>4
<1>4. CASE Broadcast(w)
  <2>1. subs[wls[w]] \in SUBSET Readers
    BY <1>4 DEF HeldOK, Broadcast
  <2> QED
    BY <1>3, <1>4, <2>1 DEF Broadcast, server, history
<1>5. ASSUME NEW r \in Readers, Deliver(w, r) PROVE HeldOK' /\ LockOK'
  <2>1. wto[w] \ {r} \in SUBSET Readers
    OBVIOUS
  <2> QED
    BY <1>3, <1>5, <2>1 DEF Deliver, server
<1> QED
  BY <1>1, <1>2, <1>4, <1>5 DEF Write

\* A connection that goes away takes its place in every broadcast with it.
LEMMA BreakHeld ==
  ASSUME WriteInv, NEW r \in Readers, Break(r)
  PROVE  HeldOK' /\ LockOK'
<1> USE DEF WriteInv, TypeInv, TypeOK, ServerOK, WritersOK
<1>1. /\ wseq' = Forget(wpc')
      /\ UNCHANGED <<last, mapped, used, swap, wls, collided>>
      /\ wpc' = [w \in Writers |-> IF wpc[w] = "send" THEN After(w, wto[w] \ {r}) ELSE wpc[w]]
  BY DEF Break, history
<1>2. \A w \in Writers :
        \/ wpc'[w] = wpc[w]
        \/ wpc[w] = "send" /\ wpc'[w] \in {"send", "answer", "free"}
  <2> TAKE w \in Writers
  <2>1. wpc'[w] = IF wpc[w] = "send" THEN After(w, wto[w] \ {r}) ELSE wpc[w]
    BY <1>1, Zenon
  <2>2. After(w, wto[w] \ {r}) \in {"send", "answer", "free"}
    BY DEF After
  <2>3. CASE wpc[w] = "send"
    BY <2>1, <2>2, <2>3
  <2>4. CASE wpc[w] # "send"
    BY <2>1, <2>4
  <2> QED
    BY <2>3, <2>4
<1>3. \A w \in Writers : wseq'[w] = IF wpc'[w] = "free" THEN 0 ELSE wseq[w]
  BY <1>1 DEF Forget
<1>4. HeldOK'
  BY <1>1, <1>2, <1>3 DEF HeldOK
<1>5. LockOK'
  BY <1>1, <1>2, <1>3 DEF LockOK
<1> QED
  BY <1>4, <1>5

\* A restart, and the ends of a request.
LEMMA ServeHeld ==
  ASSUME WriteInv
  PROVE  /\ Restart => HeldOK' /\ LockOK'
         /\ \A r \in Readers : PostGet(r) => HeldOK' /\ LockOK'
         /\ \A r \in Readers, carries \in BOOLEAN :
              PostAnswer(r, carries) => HeldOK' /\ LockOK'
<1> USE TimelineAssumption DEF WriteInv, TypeInv, TypeOK, ServerOK, WritersOK
<1>1. ASSUME Restart PROVE HeldOK' /\ LockOK'
  <2>1. CASE Detach
    BY <2>1 DEF Detach, writers, history, HeldOK, LockOK, Gens, TimelineAssumption
  <2>2. CASE Register
    <3>1. /\ used \in Nat /\ used # 0 /\ used' = used + 1 /\ mapped' = used + 1
          /\ used < MaxGen /\ swap' # "detached"
      BY <2>2 DEF Register, HeldOK, Gens
    <3>2. UNCHANGED <<last, wpc, wls, wseq, collided>>
      BY <2>2 DEF Register, writers, history
    <3>3. HeldOK'
      BY <3>1, <3>2 DEF HeldOK
    <3>4. LockOK'
      BY <3>1, <3>2 DEF LockOK
    <3> QED
      BY <3>3, <3>4
  <2>3. CASE Attach
    BY <2>3 DEF Attach, writers, history, HeldOK, LockOK
  <2> QED
    BY <1>1, <2>1, <2>2, <2>3 DEF Restart
<1>2. ASSUME NEW r \in Readers, PostGet(r) PROVE HeldOK' /\ LockOK'
  <2>1. /\ mapped \in Gens /\ mapped <= used /\ wpc' = [wpc EXCEPT ![r] = "append"]
        /\ wls' = [wls EXCEPT ![r] = mapped]
        /\ UNCHANGED <<last, mapped, used, swap, wseq, collided>>
    BY <1>2 DEF PostGet, server, history, HeldOK, Gens, TimelineAssumption
  <2> QED
    BY <2>1 DEF HeldOK, LockOK
<1>3. ASSUME NEW r \in Readers, NEW carries \in BOOLEAN, PostAnswer(r, carries)
      PROVE  HeldOK' /\ LockOK'
  <2>1. /\ wpc' = [wpc EXCEPT ![r] = "free"]
        /\ wls' = [wls EXCEPT ![r] = 0] /\ wseq' = [wseq EXCEPT ![r] = 0]
        /\ UNCHANGED <<last, mapped, used, swap, collided>>
    BY <1>3 DEF PostAnswer, server
  <2> QED
    BY <2>1 DEF HeldOK, LockOK
<1> QED
  BY <1>1, <1>2, <1>3

\* The invariant of the writers is inductive.
LEMMA WriteStep == WriteInv /\ [Next]_vars => WriteInv'
<1> SUFFICES ASSUME WriteInv, [Next]_vars PROVE WriteInv'
  OBVIOUS
<1>1. TypeOK'
  BY TypeStep DEF WriteInv
<1>2. HeldOK' /\ LockOK'
  <2>1. CASE UNCHANGED vars
    BY <2>1, HeldUntouched DEF vars, server, writers, history
  <2>2. ASSUME NEW g \in Gens, PumpAppend(g) PROVE HeldOK' /\ LockOK'
    BY <2>2, PickHeld DEF PumpAppend, Writers
  <2>3. ASSUME NEW r \in Readers, PostAppend(r) PROVE HeldOK' /\ LockOK'
    <3>1. wls[r] \in Gens /\ wls[r] <= used
      BY <2>3 DEF PostAppend, WriteInv, TypeInv, HeldOK, Writers
    <3> QED
      BY <2>3, <3>1, PickHeld DEF PostAppend, Writers
  <2>4. ASSUME NEW r \in Readers, Connection(r) PROVE HeldOK' /\ LockOK'
    <3>1. CASE Break(r)
      BY <3>1, BreakHeld
    <3>2. CASE Connect(r) \/ SubscribeGet(r) \/ SubscribeAdd(r)
      BY <3>2, HeldUntouched DEF Connect, SubscribeGet, SubscribeAdd, server, writers,
         history
    <3> QED
      BY <2>4, <3>1, <3>2 DEF Connection
  <2>5. ASSUME NEW r \in Readers, Page(r) PROVE HeldOK' /\ LockOK'
    <3>1. ASSUME NEW carries \in BOOLEAN, PostAnswer(r, carries) PROVE HeldOK' /\ LockOK'
      BY <3>1, ServeHeld
    <3>2. CASE Receive(r) \/ OpenSession(r) \/ OpenApply(r) \/ CatchUpFails(r)
      BY <3>2, HeldUntouched DEF Receive, OpenSession, OpenApply, CatchUpFails,
                                 server, writers
    <3>3. CASE OpenSubscribe(r) \/ OpenFails(r)
      BY <3>3, HeldUntouched DEF OpenSubscribe, OpenFails, WsSubscribe, server, writers,
         history
    <3>4. CASE CatchUpApply(r)
      BY <3>4, HeldUntouched DEF CatchUpApply, server, writers
    <3>5. ASSUME NEW kind \in Kinds, Read(r, kind) PROVE HeldOK' /\ LockOK'
      BY <3>5, HeldUntouched DEF Read, server, writers, history
    <3> QED
      BY <2>5, <3>1, <3>2, <3>3, <3>4, <3>5 DEF Page
  <2> QED
    BY <2>1, <2>2, <2>3, <2>4, <2>5, WriteHeld, ServeHeld DEF Next
<1> QED
  BY <1>1, <1>2 DEF WriteInv, TypeInv

\* Initially no writer is at work.
LEMMA WriteInit == Init => WriteInv
<1> SUFFICES ASSUME Init PROVE WriteInv
  OBVIOUS
<1>1. HeldOK /\ LockOK
  BY TimelineAssumption DEF Init, HeldOK, LockOK, TimelineAssumption
<1> QED
  BY <1>1, TypeInit DEF WriteInv, TypeInv

\* The types hold in every state, for every value of the constants.
THEOREM TimelineTypes == Spec => []TypeOK
<1>1. WriteInv => TypeOK
  BY DEF WriteInv, TypeInv
<1> QED
  BY <1>1, WriteInit, WriteStep, PTL DEF Spec

\* While no restart has happened, two writers of a session never take the same
\* seq: wmu covers SELECT and INSERT of both pump and handlers.
THEOREM CollisionOnlyAfterRestart == Spec => []CollisionNeedsRestart
<1>1. WriteInv => CollisionNeedsRestart
  BY DEF WriteInv, TypeInv, TypeOK, ServerOK, LockOK, CollisionNeedsRestart, Gens
<1> QED
  BY <1>1, WriteInit, WriteStep, PTL DEF Spec

-----------------------------------------------------------------------------
(***************************************************************************)
(* The view is the timeline.                                               *)
(***************************************************************************)
\* A sequence of rows that are stored, each later than the one before it.
Timeline(s) ==
  /\ \A i \in DOMAIN s : s[i] <= last
  /\ \A i, j \in DOMAIN s : i < j => s[i] < s[j]

\* What is on its way to the page is stored as well.
QueueOK == \A r \in Readers : \A i \in DOMAIN queue[r] : queue[r][i] <= last
CallOK  == \A r \in Readers : \A k \in Kinds : call[r][k].to <= last
ViewOK  == \A r \in Readers : Timeline(view[r])

ViewInv == WriteInv /\ QueueOK /\ CallOK /\ ViewOK

\* The table only grows.
LEMMA LastGrows ==
  WriteInv /\ [Next]_vars => last \in Nat /\ last' \in Nat /\ last <= last'
<1> SUFFICES ASSUME WriteInv, [Next]_vars
             PROVE  last \in Nat /\ last' \in Nat /\ last <= last'
  OBVIOUS
<1>1. last \in Nat /\ last' \in Nat
  BY WriteStep, TimelineAssumption DEF WriteInv, TypeInv, TypeOK, ServerOK,
     TimelineAssumption
<1>2. CASE \E w \in Writers : Insert(w)
  BY <1>1, <1>2 DEF Insert
<1>3. CASE ~ \E w \in Writers : Insert(w)
  <2>1. CASE UNCHANGED vars
    BY <1>1, <2>1 DEF vars, server
  <2>2. CASE \E g \in Gens : PumpAppend(g)
    BY <1>1, <2>2 DEF PumpAppend, PickSeq, server
  <2>3. CASE \E w \in Writers : Write(w)
    <3>1. PICK w \in Writers : InsertFails(w) \/ Broadcast(w) \/ \E r \in Readers : Deliver(w, r)
      BY <1>3, <2>3 DEF Write
    <3>2. last' = last
      BY <3>1 DEF InsertFails, Broadcast, Deliver, server
    <3> QED
      BY <1>1, <3>2
  <2>4. CASE Restart
    BY <1>1, <2>4 DEF Restart, Detach, Register, Attach
  <2>5. ASSUME NEW r \in Readers, PostGet(r) \/ PostAppend(r) \/ Connection(r) PROVE last' = last
    BY <2>5 DEF PostGet, PostAppend, PickSeq, server, Connection, Connect, Break,
       SubscribeGet, SubscribeAdd
  <2>6. ASSUME NEW r \in Readers, Page(r) PROVE last' = last
    BY <2>6 DEF server, Page, Receive, PostAnswer, OpenSession, OpenApply, OpenSubscribe,
       OpenFails, WsSubscribe, CatchUpApply, CatchUpFails, Read
  <2> QED
    BY <1>1, <2>1, <2>2, <2>3, <2>4, <2>5, <2>6 DEF Next
<1> QED
  BY <1>2, <1>3

\* A row that is stored leaves the view a timeline, whatever its place.
LEMMA KeepTimeline ==
  ASSUME TimelineAssumption, NEW s \in Seq(Rows), Timeline(s), NEW seq \in Rows, seq <= last
  PROVE  Timeline(Keep(s, seq))
<1>1. CASE s = <<>>
  <2>1. Keep(s, seq) = <<seq>>
    BY <1>1 DEF Keep
  <2> QED
    BY <2>1 DEF Timeline
<1>2. CASE s # <<>> /\ seq > s[Len(s)]
  <2>1. Keep(s, seq) = Append(s, seq) /\ Len(s) \in DOMAIN s
    BY <1>2 DEF Keep
  <2>2. \A i \in DOMAIN s : s[i] <= s[Len(s)]
    BY <2>1 DEF Timeline, Rows
  <2>3. \A i \in DOMAIN s : s[i] < seq
    BY <1>2, <2>1, <2>2 DEF Rows
  <2> QED
    BY <2>1, <2>3 DEF Timeline
<1>3. CASE s # <<>> /\ ~(seq > s[Len(s)])
  BY <1>3 DEF Keep, Timeline
<1> QED
  BY <1>1, <1>2, <1>3

\* A page of history is a timeline, and so is a view with the rows of a later
\* page behind it.
LEMMA PageTimeline ==
  ASSUME NEW a \in Nat \ {0}, NEW b \in Nat, b <= last, last \in Nat
  PROVE  Timeline(RowsFromTo(a, b))
<1>1. a..b \subseteq Nat
  OBVIOUS
<1>2. /\ RowsFromTo(a, b) \in Seq(Nat) /\ Len(RowsFromTo(a, b)) = Upper(0, b + 1 - a)
      /\ \A i \in 1..Len(RowsFromTo(a, b)) : RowsFromTo(a, b)[i] = a + i - 1
  BY <1>1, RowsFromToType
<1> QED
  BY <1>2, SMTT(20) DEF Timeline, Upper

LEMMA AppendTimeline ==
  ASSUME last \in Nat, NEW s \in Seq(Rows), Timeline(s), NEW t \in Seq(Rows), Timeline(t),
         \A i \in DOMAIN s, j \in DOMAIN t : s[i] < t[j]
  PROVE  Timeline(s \o t)
<1> DEFINE u == s \o t
<1>1. /\ Len(u) = Len(s) + Len(t) /\ DOMAIN u = 1..(Len(s) + Len(t))
      /\ \A i \in DOMAIN u : u[i] = IF i <= Len(s) THEN s[i] ELSE t[i - Len(s)]
  OBVIOUS
<1>2. \A i \in DOMAIN u :
        \/ i <= Len(s) /\ i \in DOMAIN s
        \/ i > Len(s) /\ i - Len(s) \in DOMAIN t
  BY <1>1
<1> HIDE DEF u
<1>3. \A i \in DOMAIN u : u[i] <= last
  BY <1>1, <1>2 DEF Timeline
<1>4. \A i, j \in DOMAIN u : i < j => u[i] < u[j]
  <2> TAKE i, j \in DOMAIN u
  <2> HAVE i < j
  <2>1. CASE j <= Len(s)
    BY <1>1, <1>2, <2>1 DEF Timeline
  <2>2. CASE i <= Len(s) /\ j > Len(s)
    BY <1>1, <1>2, <2>2
  <2>3. CASE i > Len(s)
    BY <1>1, <1>2, <2>3 DEF Timeline
  <2> QED
    BY <1>1, <2>1, <2>2, <2>3
<1>5. Timeline(u)
  BY <1>3, <1>4 DEF Timeline
<1> QED
  BY <1>5 DEF u

\* Steps that leave the view, what is on its way to it and history alone.
LEMMA ViewUntouched ==
  ASSUME ViewInv, [Next]_vars
  PROVE  /\ UNCHANGED queue => QueueOK'
         /\ UNCHANGED call => CallOK'
         /\ UNCHANGED view => ViewOK'
<1>1. last \in Nat /\ last' \in Nat /\ last <= last'
  BY LastGrows DEF ViewInv
<1>2. TypeOK
  BY DEF ViewInv, WriteInv, TypeInv
<1>3. ASSUME UNCHANGED queue, NEW r \in Readers, NEW i \in DOMAIN queue'[r]
      PROVE  queue'[r][i] <= last'
  <2>1. queue[r][i] \in Rows /\ queue[r][i] <= last
    BY <1>2, <1>3 DEF TypeOK, WireOK, ViewInv, QueueOK
  <2> QED
    BY <1>1, <1>3, <2>1 DEF Rows
<1>4. ASSUME UNCHANGED call, NEW r \in Readers, NEW k \in Kinds
      PROVE  call'[r][k].to <= last'
  <2>1. call[r][k].to \in Nat /\ call[r][k].to <= last
    BY <1>2, TimelineAssumption DEF TypeOK, PageOK, Calls, ViewInv, CallOK,
       TimelineAssumption
  <2> QED
    BY <1>1, <1>4, <2>1
<1>5. ASSUME UNCHANGED view, NEW r \in Readers, NEW i \in DOMAIN view'[r]
      PROVE  view'[r][i] <= last'
  <2>1. view[r][i] \in Rows /\ view[r][i] <= last
    BY <1>2, <1>5 DEF TypeOK, PageOK, ViewInv, ViewOK, Timeline
  <2> QED
    BY <1>1, <1>5, <2>1 DEF Rows
<1> QED
  BY <1>3, <1>4, <1>5 DEF QueueOK, CallOK, ViewOK, Timeline, ViewInv

\* Rows that are handed to the page.
LEMMA ShowView ==
  ASSUME ViewInv, NEW r \in Readers, NEW seq \in Rows, seq <= last, Show(r, seq),
         UNCHANGED last
  PROVE  ViewOK'
<1>1. TypeOK
  BY DEF ViewInv, WriteInv, TypeInv
<1>2. CASE selected[r]
  <2>1. view' = [view EXCEPT ![r] = Keep(view[r], seq)]
    BY <1>2, Zenon DEF Show
  <2>2. Timeline(Keep(view[r], seq))
    BY <1>1, KeepTimeline, TimelineAssumption DEF TypeOK, PageOK, ViewInv, ViewOK
  <2> QED
    BY <1>1, <2>1, <2>2 DEF TypeOK, PageOK, ViewInv, ViewOK, Timeline
<1>3. CASE ~selected[r]
  BY <1>3 DEF Show, ViewInv, ViewOK, Timeline
<1> QED
  BY <1>2, <1>3

\* The catch-up appends rows behind those of the view only.
LEMMA CatchUpView ==
  ASSUME ViewInv, NEW r \in Readers
  PROVE  Timeline(CaughtUpView(r))
<1> DEFINE c == call[r]["catchUp"]
           a == Upper(c.from, MaxSeq(r) + 1)
           t == RowsFromTo(a, c.to)
<1>1. /\ TypeOK /\ last \in Nat /\ MaxSeq(r) \in 0..MaxRows /\ view[r] \in Seq(Rows)
      /\ Timeline(view[r]) /\ c.to <= last
  BY MaxSeqType, TimelineAssumption DEF ViewInv, WriteInv, TypeInv, TypeOK, ServerOK,
     PageOK, ViewOK, CallOK, Kinds, TimelineAssumption
<1>2. c.from \in 1..(MaxRows + 1) /\ c.to \in 0..MaxRows
  <2>1. c \in Calls
    BY <1>1 DEF TypeOK, PageOK, Kinds
  <2> QED
    BY <2>1 DEF Calls
<1>3. /\ a \in Nat \ {0} /\ MaxSeq(r) + 1 <= a /\ c.to \in Nat /\ a..c.to \subseteq Rows
      /\ MaxSeq(r) \in Nat
  BY <1>1, <1>2, TimelineAssumption, SMTT(20) DEF Upper, Rows, TimelineAssumption
<1> HIDE DEF a
<1>4. t \in Seq(Rows) /\ \A i \in 1..Len(t) : t[i] = a + i - 1
  BY <1>3, RowsFromToType
<1>5. Timeline(t)
  BY <1>1, <1>3, PageTimeline
<1> HIDE DEF t
<1>6. \A i \in DOMAIN view[r] : view[r][i] <= MaxSeq(r)
  <2> TAKE i \in DOMAIN view[r]
  <2>1. view[r] # <<>> /\ Len(view[r]) \in DOMAIN view[r] /\ i <= Len(view[r])
    BY <1>1
  <2>2. MaxSeq(r) = view[r][Len(view[r])]
    BY <2>1 DEF MaxSeq
  <2>3. i < Len(view[r]) => view[r][i] < view[r][Len(view[r])]
    BY <1>1, <2>1 DEF Timeline
  <2>4. view[r][i] \in Rows
    BY <1>1
  <2> QED
    BY <1>1, <2>1, <2>2, <2>3, <2>4 DEF Rows
<1>7. \A i \in DOMAIN view[r], j \in DOMAIN t : view[r][i] < t[j]
  <2> TAKE i \in DOMAIN view[r], j \in DOMAIN t
  <2>1. view[r][i] \in Nat /\ view[r][i] <= MaxSeq(r)
    <3>1. view[r][i] \in Rows
      BY <1>1
    <3> QED
      BY <1>6, <3>1 DEF Rows
  <2>2. t[j] = a + j - 1 /\ j \in Nat \ {0}
    BY <1>4
  <2> QED
    BY <1>3, <2>1, <2>2
<1>8. Timeline(view[r] \o t)
  BY <1>1, <1>4, <1>5, <1>7, AppendTimeline
<1> QED
  BY <1>8 DEF CaughtUpView, a, t

\* A GET that has been sent has no answer yet.
LEMMA AskedAbove ==
  ASSUME ViewInv, NEW r \in Readers, NEW kind \in Kinds, Ask(r, kind), UNCHANGED last
  PROVE  CallOK'
<1> DEFINE after == IF kind = "open" THEN 0 ELSE MaxSeq(r)
<1>1. call' = [call EXCEPT ![r][kind] = Asked(after)]
  BY Zenon DEF Ask
<1>2. Asked(after).to = 0
  BY DEF Asked
<1>3. PageOK /\ 0 <= last
  BY TimelineAssumption DEF ViewInv, WriteInv, TypeInv, TypeOK, ServerOK,
     TimelineAssumption
<1> HIDE DEF after
<1> QED
  BY <1>1, <1>2, <1>3 DEF PageOK, ViewInv, CallOK

\* Steps that put a row on its way to a page.
LEMMA QueueStep ==
  ASSUME ViewInv, [Next]_vars, NEW w \in Writers, NEW r \in Readers, Deliver(w, r)
  PROVE  QueueOK'
<1>1. /\ TypeOK /\ last' = last /\ wseq[w] \in Rows /\ wseq[w] <= last
      /\ queue' = [queue EXCEPT ![r] = Push(queue[r], wseq[w])]
  <2>1. TypeOK /\ HeldOK
    BY DEF ViewInv, WriteInv, TypeInv
  <2> QED
    BY <2>1, TimelineAssumption DEF Deliver, server, TypeOK, WritersOK, HeldOK, Rows,
       TimelineAssumption
<1>2. queue[r] \in Seq(Rows) /\ \A i \in DOMAIN queue[r] : queue[r][i] <= last
  BY <1>1 DEF TypeOK, WireOK, ViewInv, QueueOK
<1>3. \A i \in DOMAIN Push(queue[r], wseq[w]) : Push(queue[r], wseq[w])[i] <= last
  BY <1>1, <1>2 DEF Push
<1> QED
  BY <1>1, <1>3 DEF TypeOK, WireOK, ViewInv, QueueOK

\* Steps of a connection.
LEMMA ConnectionStep ==
  ASSUME ViewInv, [Next]_vars, NEW r \in Readers, Connection(r)
  PROVE  QueueOK' /\ CallOK' /\ ViewOK'
<1>1. TypeOK
  BY DEF ViewInv, WriteInv, TypeInv
<1>2. CASE Connect(r)
  <2>1. CallOK'
    <3>1. CASE selected[r]
      <4>1. Ask(r, "catchUp") /\ last' = last
        BY <1>2, <3>1 DEF Connect, server
      <4> QED
        BY <4>1, AskedAbove DEF Kinds
    <3> QED
      BY <1>2, <3>1, ViewUntouched DEF Connect
  <2> QED
    BY <1>2, <2>1, ViewUntouched DEF Connect
<1>3. CASE Break(r)
  <2>1. QueueOK'
    BY <1>1, <1>3 DEF Break, TypeOK, WireOK, ViewInv, QueueOK
  <2> QED
    BY <1>3, <2>1, ViewUntouched DEF Break, page
<1>4. CASE SubscribeGet(r) \/ SubscribeAdd(r)
  BY <1>4, ViewUntouched DEF SubscribeGet, SubscribeAdd, page
<1> QED
  BY <1>2, <1>3, <1>4 DEF Connection

\* Steps that hand the page a row, and the click on a session.
LEMMA RowStep ==
  ASSUME ViewInv, [Next]_vars, NEW r \in Readers
  PROVE  /\ Receive(r) => QueueOK' /\ CallOK' /\ ViewOK'
         /\ \A carries \in BOOLEAN :
              PostAnswer(r, carries) => QueueOK' /\ CallOK' /\ ViewOK'
         /\ OpenSession(r) => QueueOK' /\ CallOK' /\ ViewOK'
<1>1. TypeOK /\ HeldOK
  BY DEF ViewInv, WriteInv, TypeInv
<1>2. ASSUME Receive(r) PROVE QueueOK' /\ CallOK' /\ ViewOK'
  <2>1. /\ queue[r] \in Seq(Rows) /\ queue[r] # <<>> /\ last' = last
        /\ \A i \in DOMAIN queue[r] : queue[r][i] <= last
        /\ queue' = [queue EXCEPT ![r] = Tail(queue[r])]
    BY <1>1, <1>2 DEF Receive, server, TypeOK, WireOK, ViewInv, QueueOK
  <2>2. \A i \in DOMAIN Tail(queue[r]) : Tail(queue[r])[i] <= last
    BY <2>1
  <2>3. QueueOK'
    BY <1>1, <2>1, <2>2 DEF TypeOK, WireOK, ViewInv, QueueOK
  <2>4. Head(queue[r]) \in Rows /\ Head(queue[r]) <= last
    BY <2>1
  <2>5. ViewOK'
    BY <1>2, <2>1, <2>4, ShowView DEF Receive
  <2> QED
    BY <1>2, <2>3, <2>5, ViewUntouched DEF Receive
<1>3. ASSUME NEW carries \in BOOLEAN, PostAnswer(r, carries)
      PROVE  QueueOK' /\ CallOK' /\ ViewOK'
  <2>1. wseq[r] \in Rows /\ wseq[r] <= last /\ last' = last
    BY <1>1, <1>3, TimelineAssumption DEF PostAnswer, server, TypeOK, WritersOK, HeldOK,
       Rows, Writers, TimelineAssumption
  <2>2. ViewOK'
    <3>1. CASE carries /\ selected[r]
      BY <1>3, <2>1, <3>1, ShowView DEF PostAnswer
    <3>2. CASE ~(carries /\ selected[r])
      BY <1>3, <3>2, ViewUntouched DEF PostAnswer
    <3> QED
      BY <3>1, <3>2
  <2> QED
    BY <1>3, <2>2, ViewUntouched DEF PostAnswer, wire
<1>4. ASSUME OpenSession(r) PROVE QueueOK' /\ CallOK' /\ ViewOK'
  <2>1. CallOK'
    <3>1. Ask(r, "open") /\ last' = last
      BY <1>4 DEF OpenSession, server
    <3> QED
      BY <3>1, AskedAbove DEF Kinds
  <2>2. ViewOK'
    <3>1. view' = [view EXCEPT ![r] = <<>>] /\ last' = last
      BY <1>4 DEF OpenSession, server
    <3> QED
      BY <1>1, <3>1 DEF TypeOK, PageOK, ViewInv, ViewOK, Timeline
  <2> QED
    BY <1>4, <2>1, <2>2, ViewUntouched DEF OpenSession, wire
<1> QED
  BY <1>2, <1>3, <1>4

\* Steps of the GETs of history.
LEMMA HistoryStep ==
  ASSUME ViewInv, [Next]_vars, NEW r \in Readers
  PROVE  /\ \A kind \in Kinds : Read(r, kind) => QueueOK' /\ CallOK' /\ ViewOK'
         /\ OpenApply(r) => QueueOK' /\ CallOK' /\ ViewOK'
         /\ OpenSubscribe(r) \/ OpenFails(r) => QueueOK' /\ CallOK' /\ ViewOK'
         /\ CatchUpApply(r) => QueueOK' /\ CallOK' /\ ViewOK'
         /\ CatchUpFails(r) => QueueOK' /\ CallOK' /\ ViewOK'
<1>1. TypeOK /\ last \in 0..MaxRows /\ last \in Nat
  BY TimelineAssumption DEF ViewInv, WriteInv, TypeInv, TypeOK, ServerOK,
     TimelineAssumption
<1>2. ASSUME NEW kind \in Kinds, Read(r, kind) PROVE QueueOK' /\ CallOK' /\ ViewOK'
  <2> DEFINE c == call[r][kind]
             size == IF kind = "open" THEN OpenPage ELSE CatchUpPage
             got == IF c.after = 0 THEN MessagesTail(size) ELSE Messages(c.after, size)
             answered == [step |-> "answered", after |-> c.after,
                          from |-> got.from, to |-> got.to]
  <2>1. got.to <= last
    <3>1. c \in Calls /\ size \in Nat \ {0}
      BY <1>1, TimelineAssumption DEF TypeOK, PageOK, TimelineAssumption
    <3>2. c.after \in 0..MaxRows
      BY <3>1 DEF Calls
    <3> QED
      BY <1>1, <3>1, <3>2, AnswerTypes, TimelineAssumption
  <2>2. answered.to <= last
    BY <2>1
  <2>3. call' = [call EXCEPT ![r][kind] = answered] /\ last' = last
    BY <1>2, Zenon DEF Read, server
  <2> HIDE DEF answered
  <2>4. CallOK'
    BY <1>1, <2>2, <2>3 DEF TypeOK, PageOK, ViewInv, CallOK
  <2> QED
    BY <1>2, <2>4, ViewUntouched DEF Read, wire
<1>3. ASSUME OpenApply(r) PROVE QueueOK' /\ CallOK' /\ ViewOK'
  <2> DEFINE c == call[r]["open"]
  <2>1. c.from \in Nat \ {0} /\ c.to \in Nat /\ c.to <= last
    <3>1. c \in Calls /\ c.to <= last
      BY <1>1 DEF TypeOK, PageOK, Kinds, ViewInv, CallOK
    <3> QED
      BY <3>1, TimelineAssumption DEF Calls, TimelineAssumption
  <2>2. Timeline(RowsFromTo(c.from, c.to))
    BY <1>1, <2>1, PageTimeline
  <2>3. /\ call' = [call EXCEPT ![r]["open"] = [NoCall EXCEPT !.step = "shown"]]
        /\ view' = [view EXCEPT ![r] = RowsFromTo(c.from, c.to)]
        /\ last' = last /\ queue' = queue
    BY <1>3, Zenon DEF OpenApply, server, wire
  <2>4. ViewOK'
    <3> DEFINE rows == RowsFromTo(c.from, c.to)
    <3>1. Timeline(rows) /\ view' = [view EXCEPT ![r] = rows]
      BY <2>2, <2>3
    <3> HIDE DEF rows
    <3> QED
      BY <1>1, <2>3, <3>1 DEF TypeOK, PageOK, ViewInv, ViewOK, Timeline
  <2>5. CallOK'
    BY <1>1, <2>3 DEF TypeOK, PageOK, ViewInv, CallOK, NoCall
  <2> QED
    BY <2>3, <2>4, <2>5, ViewUntouched
<1>4. ASSUME OpenSubscribe(r) \/ OpenFails(r) PROVE QueueOK' /\ CallOK' /\ ViewOK'
  <2>1. WsSubscribe(r)
    BY <1>4 DEF OpenSubscribe, OpenFails
  <2>2. CallOK'
    BY <1>1, <2>1 DEF WsSubscribe, server, TypeOK, PageOK, ViewInv, CallOK, NoCall
  <2> QED
    BY <2>1, <2>2, ViewUntouched DEF WsSubscribe
<1>5. ASSUME CatchUpApply(r) PROVE QueueOK' /\ CallOK' /\ ViewOK'
  <2> DEFINE new == CaughtUpView(r)
             top == IF new = <<>> THEN 0 ELSE new[Len(new)]
  <2>1. /\ view' = [view EXCEPT ![r] = new]
        /\ call' = [call EXCEPT ![r]["catchUp"] =
                      IF Again(call[r]["catchUp"], top) THEN Asked(top) ELSE NoCall]
        /\ last' = last /\ queue' = queue
    BY <1>5, Zenon DEF CatchUpApply, CaughtUpView, server, wire
  <2>2. Timeline(new)
    BY CatchUpView
  <2> HIDE DEF new, top
  <2>3. ViewOK'
    BY <1>1, <2>1, <2>2 DEF TypeOK, PageOK, ViewInv, ViewOK, Timeline
  <2>4. CallOK'
    <3>1. (IF Again(call[r]["catchUp"], top) THEN Asked(top) ELSE NoCall).to = 0
      BY DEF Asked, NoCall
    <3> QED
      BY <1>1, <2>1, <3>1 DEF TypeOK, PageOK, ViewInv, CallOK
  <2> QED
    BY <2>1, <2>3, <2>4, ViewUntouched
<1>6. ASSUME CatchUpFails(r) PROVE QueueOK' /\ CallOK' /\ ViewOK'
  <2>1. CallOK'
    BY <1>1, <1>6 DEF CatchUpFails, server, TypeOK, PageOK, ViewInv, CallOK, NoCall
  <2> QED
    BY <1>6, <2>1, ViewUntouched DEF CatchUpFails, wire
<1> QED
  BY <1>2, <1>3, <1>4, <1>5, <1>6

\* The invariant of the view is inductive.
LEMMA ViewStep == ViewInv /\ [Next]_vars => ViewInv'
<1> SUFFICES ASSUME ViewInv, [Next]_vars PROVE ViewInv'
  OBVIOUS
<1>1. WriteInv'
  BY WriteStep DEF ViewInv
<1>2. QueueOK' /\ CallOK' /\ ViewOK'
  <2>1. CASE UNCHANGED vars
    BY <2>1, ViewUntouched DEF vars, wire, page
  <2>2. ASSUME NEW g \in Gens, PumpAppend(g) PROVE QueueOK' /\ CallOK' /\ ViewOK'
    BY <2>2, ViewUntouched DEF PumpAppend, PickSeq, wire, page
  <2>3. ASSUME NEW w \in Writers, Write(w) PROVE QueueOK' /\ CallOK' /\ ViewOK'
    <3>1. CASE Insert(w) \/ InsertFails(w) \/ Broadcast(w)
      BY <3>1, ViewUntouched DEF Insert, InsertFails, Broadcast, wire, page
    <3>2. ASSUME NEW r \in Readers, Deliver(w, r) PROVE QueueOK' /\ CallOK' /\ ViewOK'
      BY <3>2, QueueStep, ViewUntouched DEF Deliver, page
    <3> QED
      BY <2>3, <3>1, <3>2 DEF Write
  <2>4. CASE Restart
    BY <2>4, ViewUntouched DEF Restart, Detach, Register, Attach, wire, page
  <2>5. ASSUME NEW r \in Readers, PostGet(r) \/ PostAppend(r)
        PROVE  QueueOK' /\ CallOK' /\ ViewOK'
    BY <2>5, ViewUntouched DEF PostGet, PostAppend, PickSeq, wire, page
  <2>6. ASSUME NEW r \in Readers, Page(r) PROVE QueueOK' /\ CallOK' /\ ViewOK'
    BY <2>6, RowStep, HistoryStep DEF Page
  <2> QED
    BY <2>1, <2>2, <2>3, <2>4, <2>5, <2>6, ConnectionStep DEF Next
<1> QED
  BY <1>1, <1>2 DEF ViewInv

\* A page that is closed shows nothing.
LEMMA ViewInit == Init => ViewInv
<1> SUFFICES ASSUME Init PROVE QueueOK /\ CallOK /\ ViewOK
  BY WriteInit DEF ViewInv
<1> QED
  BY DEF Init, QueueOK, CallOK, ViewOK, Timeline, NoCall

\* Every timeline on a screen consists of stored rows, each once and in the
\* order they were stored: for all browsers, queue and page sizes, restarts,
\* collisions, lost connections and interleavings of pushes, answers and GETs.
THEOREM ViewsAreTimelines == Spec => []ViewIsTimeline
<1>2. ViewInv => ViewIsTimeline
  <2> SUFFICES ASSUME ViewInv, NEW r \in Readers
               PROVE  /\ Elements(view[r]) \subseteq 1..last
                      /\ \A i, j \in DOMAIN view[r] : i < j => view[r][i] < view[r][j]
    BY DEF ViewIsTimeline
  <2>1. view[r] \in Seq(Rows) /\ Timeline(view[r])
    BY DEF ViewInv, WriteInv, TypeInv, TypeOK, PageOK, ViewOK
  <2>2. last \in Nat
    BY TimelineAssumption DEF ViewInv, WriteInv, TypeInv, TypeOK, ServerOK,
       TimelineAssumption
  <2>3. \A i \in DOMAIN view[r] : view[r][i] \in 1..last
    <3> TAKE i \in DOMAIN view[r]
    <3>1. view[r][i] \in Rows /\ view[r][i] <= last
      BY <2>1 DEF Timeline
    <3> QED
      BY <2>2, <3>1 DEF Rows
  <2> QED
    BY <2>1, <2>3 DEF Timeline, Elements
<1> QED
  BY <1>2, ViewInit, ViewStep, PTL DEF Spec

-----------------------------------------------------------------------------
(***************************************************************************)
(* A page that has not opened the session hears nothing of it.             *)
(***************************************************************************)
Unopened(r) ==
  /\ ~listed[r] /\ ~frame[r] /\ sls[r] = 0 /\ r \notin moved
  /\ \A g \in Gens : r \notin subs[g]
  /\ \A w \in Writers : r \notin wto[w]
  /\ queue[r] = <<>> /\ view[r] = <<>>
  /\ \A k \in Kinds : call[r][k].step = "no"
UnopenedOK == \A r \in Readers : ~selected[r] => Unopened(r)

\* What a step may do to a page that has not opened the session.
LEMMA UnopenedWrites ==
  ASSUME TypeInv, UnopenedOK, NEW r \in Readers, Unopened(r)
  PROVE  /\ \A w \in Writers, g \in Gens : PickSeq(w, g) => Unopened(r)'
         /\ \A w \in Writers : Write(w) => Unopened(r)'
         /\ \A q \in Readers : PostGet(q) => Unopened(r)'
         /\ Restart => Unopened(r)'
<1> USE DEF TypeInv, TypeOK, ServerOK, WritersOK, WireOK, PageOK
<1>1. ASSUME NEW w \in Writers, NEW g \in Gens, PickSeq(w, g) PROVE Unopened(r)'
  BY <1>1 DEF PickSeq, Unopened, server, wire, page
<1>2. ASSUME NEW w \in Writers, Write(w) PROVE Unopened(r)'
  <2>1. CASE Insert(w) \/ InsertFails(w)
    BY <2>1 DEF Insert, InsertFails, Unopened, server, wire, page
  <2>2. CASE Broadcast(w)
    <3>1. wls[w] \in Gens
      BY <2>2 DEF Broadcast, HeldOK
    <3>2. \A v \in Writers : r \notin wto'[v]
      BY <2>2, <3>1 DEF Broadcast, Unopened
    <3> QED
      BY <2>2, <3>2 DEF Broadcast, Unopened, server, wire, page
  <2>3. ASSUME NEW q \in Readers, Deliver(w, q) PROVE Unopened(r)'
    <3>1. q # r
      BY <2>3 DEF Deliver, Unopened
    <3>2. queue'[r] = queue[r] /\ \A v \in Writers : r \notin wto'[v]
      BY <2>3, <3>1 DEF Deliver, Unopened
    <3> QED
      BY <2>3, <3>2 DEF Deliver, Unopened, server, page
  <2> QED
    BY <1>2, <2>1, <2>2, <2>3 DEF Write
<1>3. ASSUME NEW q \in Readers, PostGet(q) PROVE Unopened(r)'
  BY <1>3 DEF PostGet, Unopened, server, wire, page
<1>4. ASSUME Restart PROVE Unopened(r)'
  <2>1. CASE Detach
    <3>1. mapped \in Gens
      BY <2>1 DEF Detach, Gens
    <3> QED
      BY <2>1, <3>1 DEF Detach, Unopened, writers, wire, page
  <2>2. CASE Register
    BY <2>2 DEF Register, Unopened, writers, wire, page
  <2>3. CASE Attach
    BY <2>3 DEF Attach, Unopened, writers, wire, page
  <2> QED
    BY <1>4, <2>1, <2>2, <2>3 DEF Restart
<1> QED
  BY <1>1, <1>2, <1>3, <1>4

LEMMA UnopenedPages ==
  ASSUME TypeInv, UnopenedOK, NEW r \in Readers, ~selected[r], Unopened(r),
         NEW q \in Readers
  PROVE  /\ Connection(q) => Unopened(r)'
         /\ Page(q) => selected'[r] \/ Unopened(r)'
<1> USE DEF TypeInv, TypeOK, ServerOK, WritersOK, WireOK, PageOK
<1>1. ASSUME Connection(q) PROVE Unopened(r)'
  <2>1. CASE Connect(q)
    <3>1. \A k \in Kinds : call'[r][k] = call[r][k]
      <4>1. CASE q = r
        BY <2>1, <4>1 DEF Connect
      <4>2. CASE q # r
        BY <2>1, <4>2 DEF Connect, Ask
      <4> QED
        BY <4>1, <4>2
    <3>2. ~frame'[r]
      BY <2>1 DEF Connect, Unopened
    <3> QED
      BY <2>1, <3>1, <3>2 DEF Connect, Unopened, server, writers
  <2>2. CASE Break(q)
    BY <2>2 DEF Break, Unopened, page
  <2>3. CASE SubscribeGet(q)
    BY <2>3 DEF SubscribeGet, Unopened, server, writers, page
  <2>4. CASE SubscribeAdd(q)
    BY <2>4 DEF SubscribeAdd, Unopened, writers, page
  <2> QED
    BY <1>1, <2>1, <2>2, <2>3, <2>4 DEF Connection
<1>2. ASSUME Page(q) PROVE selected'[r] \/ Unopened(r)'
  <2>1. CASE Receive(q)
    <3>1. q # r
      BY <2>1 DEF Receive, Unopened
    <3> QED
      BY <2>1, <3>1 DEF Receive, Show, Unopened, server, writers
  <2>2. ASSUME NEW carries \in BOOLEAN, PostAnswer(q, carries) PROVE Unopened(r)'
    <3>1. view'[r] = view[r]
      BY <2>2 DEF PostAnswer, Show
    <3> QED
      BY <2>2, <3>1 DEF PostAnswer, Unopened, server, wire
  <2>3. CASE OpenSession(q)
    <3>1. CASE q = r
      BY <2>3, <3>1 DEF OpenSession
    <3>2. CASE q # r
      BY <2>3, <3>2 DEF OpenSession, Ask, Unopened, server, writers, wire
    <3> QED
      BY <3>1, <3>2
  <2>4. ASSUME NEW kind \in Kinds, Read(q, kind) PROVE Unopened(r)'
    <3>1. q # r
      BY <2>4 DEF Read, Unopened
    <3>2. \A k \in Kinds : call'[r][k] = call[r][k]
      BY <2>4, <3>1 DEF Read
    <3> QED
      BY <2>4, <3>2 DEF Read, Unopened, server, writers, wire
  <2>5. CASE OpenApply(q)
    <3>1. q # r
      BY <2>5 DEF OpenApply, Unopened, Kinds
    <3>2. view'[r] = view[r] /\ \A k \in Kinds : call'[r][k] = call[r][k]
      BY <2>5, <3>1 DEF OpenApply
    <3> QED
      BY <2>5, <3>2 DEF OpenApply, Unopened, server, writers, wire
  <2>6. CASE OpenSubscribe(q) \/ OpenFails(q)
    <3>1. q # r
      BY <2>6 DEF OpenSubscribe, OpenFails, Unopened, Kinds
    <3> QED
      BY <2>6, <3>1 DEF OpenSubscribe, OpenFails, WsSubscribe, Unopened, server, writers
  <2>7. CASE CatchUpApply(q) \/ CatchUpFails(q)
    <3>1. q # r
      BY <2>7 DEF CatchUpApply, CatchUpFails, Unopened, Kinds
    <3>2. view'[r] = view[r] /\ \A k \in Kinds : call'[r][k] = call[r][k]
      BY <2>7, <3>1 DEF CatchUpApply, CatchUpFails
    <3> QED
      BY <2>7, <3>2 DEF CatchUpApply, CatchUpFails, Unopened, server, writers, wire
  <2> QED
    BY <1>2, <2>1, <2>2, <2>3, <2>4, <2>5, <2>6, <2>7 DEF Page
<1> QED
  BY <1>1, <1>2

LEMMA UnopenedStep == TypeInv /\ UnopenedOK /\ [Next]_vars => UnopenedOK'
<1> SUFFICES ASSUME TypeInv, UnopenedOK, [Next]_vars, NEW r \in Readers, ~selected'[r]
             PROVE  Unopened(r)'
  BY DEF UnopenedOK
<1>1. ~selected[r] /\ Unopened(r)
  <2>1. selected' = selected \/ \E q \in Readers : OpenSession(q)
    <3>1. CASE UNCHANGED vars
      BY <3>1 DEF vars, page
    <3>2. CASE \E g \in Gens : PumpAppend(g)
      BY <3>2 DEF PumpAppend, PickSeq, page
    <3>3. CASE \E w \in Writers : Write(w)
      BY <3>3 DEF Write, Insert, InsertFails, Broadcast, Deliver, page
    <3>4. CASE Restart
      BY <3>4 DEF Restart, Detach, Register, Attach, page
    <3>5. ASSUME NEW q \in Readers, PostGet(q) \/ PostAppend(q) \/ Connection(q)
          PROVE selected' = selected
      BY <3>5 DEF PostGet, PostAppend, PickSeq, page, Connection, Connect, Break,
         SubscribeGet, SubscribeAdd
    <3>6. ASSUME NEW q \in Readers, Page(q), ~OpenSession(q) PROVE selected' = selected
      BY <3>6 DEF page, Page, Receive, PostAnswer, OpenApply, OpenSubscribe,
         OpenFails, WsSubscribe, CatchUpApply, CatchUpFails, Read
    <3> QED
      BY <3>1, <3>2, <3>3, <3>4, <3>5, <3>6 DEF Next
  <2>2. ~selected[r]
    BY <2>1 DEF OpenSession, TypeInv, TypeOK, PageOK
  <2> QED
    BY <2>2 DEF UnopenedOK
<1>2. CASE UNCHANGED vars
  BY <1>1, <1>2 DEF vars, server, writers, wire, page, Unopened
<1>3. ASSUME NEW g \in Gens, PumpAppend(g) PROVE Unopened(r)'
  BY <1>1, <1>3, UnopenedWrites DEF PumpAppend, Writers
<1>4. ASSUME NEW q \in Readers, PostAppend(q) PROVE Unopened(r)'
  <2>1. wls[q] \in Gens
    BY <1>4 DEF PostAppend, TypeInv, HeldOK, Writers
  <2> QED
    BY <1>1, <1>4, <2>1, UnopenedWrites DEF PostAppend, Writers
<1>5. ASSUME NEW q \in Readers, Connection(q) \/ Page(q) PROVE Unopened(r)'
  BY <1>1, <1>5, UnopenedPages
<1>6. Restart \/ (\E w \in Writers : Write(w)) \/ (\E q \in Readers : PostGet(q)) => Unopened(r)'
  BY <1>1, UnopenedWrites
<1> QED
  BY <1>2, <1>3, <1>4, <1>5, <1>6 DEF Next

-----------------------------------------------------------------------------
(***************************************************************************)
(* Rows missing from the view.                                             *)
(***************************************************************************)
\* Rows whose absence below the end of view s is explained, or that s has: those in
\* p, those of s, and those before s begins.
CoveredBy(p, s) == p \cup Elements(s) \cup (IF s = <<>> THEN {} ELSE 1..(s[1] - 1))
Top(s) == IF s = <<>> THEN 0 ELSE s[Len(s)]
Ascending(s) == \A i, j \in DOMAIN s : i < j => s[i] < s[j]

\* What view s covers reaches up to its end; what is queued behind it, q, is covered by
\* it or by what is queued before; and catch-up c begins at a row that is covered.
Before(q, n) == {q[i] : i \in {j \in DOMAIN q : j < n}}
Holes(p, s, q, c) ==
  /\ 1..Top(s) \subseteq CoveredBy(p, s)
  /\ \A i \in DOMAIN q : 1..(q[i] - 1) \subseteq CoveredBy(p, s) \cup Before(q, i)
  /\ c.step # "no" /\ c.after # 0 =>
       /\ 1..c.after \subseteq CoveredBy(p, s)
       /\ c.step = "answered" => c.from = c.after + 1

HolesAt(r) == Holes(passedBy[r], view[r], queue[r], call[r]["catchUp"])
HolesOK == \A r \in Readers : HolesAt(r)

\* The rows of sequences.
LEMMA ElementsAppend ==
  ASSUME NEW s \in Seq(Rows), NEW e \in Rows
  PROVE  Elements(Append(s, e)) = Elements(s) \cup {e}
<1> DEFINE t == Append(s, e)
<1>1. /\ Len(t) = Len(s) + 1 /\ DOMAIN t = 1..(Len(s) + 1) /\ DOMAIN s = 1..Len(s)
      /\ t[Len(s) + 1] = e /\ \A i \in DOMAIN s : t[i] = s[i] /\ i \in DOMAIN t
      /\ Len(s) + 1 \in DOMAIN t /\ Len(s) \in Nat
  OBVIOUS
<1> HIDE DEF t
<1>2. \A i \in DOMAIN t : i \in DOMAIN s \/ i = Len(s) + 1
  BY <1>1
<1>3. Elements(t) \subseteq Elements(s) \cup {e}
  BY <1>1, <1>2 DEF Elements
<1>4. Elements(s) \cup {e} \subseteq Elements(t)
  BY <1>1 DEF Elements
<1> QED
  BY <1>3, <1>4 DEF t

LEMMA ElementsConcat ==
  ASSUME NEW s \in Seq(Rows), NEW t \in Seq(Rows)
  PROVE  Elements(s \o t) = Elements(s) \cup Elements(t)
<1> DEFINE u == s \o t
<1>1. /\ DOMAIN u = 1..(Len(s) + Len(t)) /\ Len(s) \in Nat /\ Len(t) \in Nat
      /\ DOMAIN s = 1..Len(s) /\ DOMAIN t = 1..Len(t)
      /\ \A i \in DOMAIN u : u[i] = IF i <= Len(s) THEN s[i] ELSE t[i - Len(s)]
  OBVIOUS
<1> HIDE DEF u
<1>2. \A i \in DOMAIN s : i \in DOMAIN u /\ u[i] = s[i]
  BY <1>1
<1>3. \A i \in DOMAIN t : i + Len(s) \in DOMAIN u /\ u[i + Len(s)] = t[i]
  BY <1>1
<1>4. \A i \in DOMAIN u : (i \in DOMAIN s /\ u[i] = s[i])
                            \/ (i - Len(s) \in DOMAIN t /\ u[i] = t[i - Len(s)])
  BY <1>1
<1>5. Elements(s) \subseteq Elements(u)
  BY <1>2 DEF Elements
<1>6. Elements(t) \subseteq Elements(u)
  BY <1>3 DEF Elements
<1>7. Elements(u) \subseteq Elements(s) \cup Elements(t)
  BY <1>4 DEF Elements
<1> QED
  BY <1>5, <1>6, <1>7 DEF u

LEMMA ElementsPage ==
  ASSUME NEW a \in Nat \ {0}, NEW b \in Nat
  PROVE  LET t == RowsFromTo(a, b) IN
         /\ Elements(t) = a..b /\ t \in Seq(Nat)
         /\ t = <<>> <=> b < a
         /\ t # <<>> => t[1] = a /\ t[Len(t)] = b
<1> DEFINE t == RowsFromTo(a, b)
<1>1. a..b \subseteq Nat
  OBVIOUS
<1>2. /\ t \in Seq(Nat) /\ Len(t) = Upper(0, b + 1 - a)
      /\ \A i \in 1..Len(t) : t[i] = a + i - 1
  BY <1>1, RowsFromToType
<1> HIDE DEF t
<1>3. Len(t) = IF b < a THEN 0 ELSE b + 1 - a
  BY <1>2 DEF Upper
<1>4. DOMAIN t = 1..Len(t)
  BY <1>2
<1>5. Elements(t) \subseteq a..b
  BY <1>2, <1>3, <1>4 DEF Elements
<1>6. \A n \in a..b : n + 1 - a \in DOMAIN t /\ t[n + 1 - a] = n
  BY <1>2, <1>3, <1>4
<1>7. a..b \subseteq Elements(t)
  BY <1>6 DEF Elements
<1>8. t = <<>> <=> Len(t) = 0
  BY <1>2
<1>9. t # <<>> => t[1] = a /\ t[Len(t)] = b
  BY <1>2, <1>3, <1>8
<1>10. Elements(t) = a..b
  BY <1>5, <1>7
<1> QED
  BY <1>2, <1>3, <1>8, <1>9, <1>10 DEF t

\* What is in an ascending view lies between its ends.
LEMMA ViewBetween ==
  ASSUME NEW s \in Seq(Rows), Ascending(s)
  PROVE  /\ Top(s) \in Nat /\ Elements(s) \subseteq 1..Top(s)
         /\ s # <<>> => s[1] \in Elements(s) /\ s[1] \in Rows /\ s[1] <= Top(s) /\ Top(s) \in Elements(s)
<1>1. CASE s = <<>>
  BY <1>1 DEF Top, Elements
<1>2. CASE s # <<>>
  <2>1. 1 \in DOMAIN s /\ Len(s) \in DOMAIN s /\ Top(s) = s[Len(s)]
    BY <1>2 DEF Top
  <2>2. \A i \in DOMAIN s : s[i] \in Rows /\ s[i] <= s[Len(s)]
    <3> TAKE i \in DOMAIN s
    <3>1. s[i] \in Rows /\ s[Len(s)] \in Rows /\ (i = Len(s) \/ i < Len(s))
      BY <2>1
    <3>2. i < Len(s) => s[i] < s[Len(s)]
      BY <2>1 DEF Ascending
    <3> QED
      BY <3>1, <3>2 DEF Rows
  <2> QED
    BY <2>1, <2>2 DEF Elements, Rows
<1> QED
  BY <1>1, <1>2

\* A row is handed to the page.
LEMMA KeepCovers ==
  ASSUME NEW p, NEW p2, p \subseteq p2, NEW s \in Seq(Rows), Ascending(s), NEW seq \in Rows,
         1..Top(s) \subseteq CoveredBy(p, s), 1..(seq - 1) \subseteq p2 \cup CoveredBy(p, s)
  PROVE  LET t == Keep(s, seq) IN
         /\ CoveredBy(p, s) \cup {seq} \subseteq CoveredBy(p2, t)
         /\ 1..Top(t) \subseteq CoveredBy(p2, t)
<1> DEFINE t == Keep(s, seq)
<1>0. seq \in Nat /\ 1 <= seq /\ 1..seq = 1..(seq - 1) \cup {seq}
  BY DEF Rows
<1>1. CASE s = <<>>
  <2>1. t = <<seq>>
    BY <1>1 DEF Keep
  <2>2. Elements(t) = {seq} /\ t # <<>> /\ t[1] = seq /\ Top(t) = seq
    BY <2>1 DEF Elements, Top
  <2>3. Elements(s) = {}
    BY <1>1 DEF Elements
  <2> QED
    BY <1>0, <1>1, <2>2, <2>3 DEF CoveredBy
<1>2. CASE s # <<>> /\ seq > s[Len(s)]
  <2>1. t = Append(s, seq)
    BY <1>2 DEF Keep
  <2>2. Elements(t) = Elements(s) \cup {seq}
    BY <2>1, ElementsAppend
  <2>3. t # <<>> /\ t[1] = s[1] /\ Top(t) = seq
    BY <1>2, <2>1 DEF Top
  <2> HIDE DEF t
  <2>4. CoveredBy(p, s) \cup {seq} \cup p2 \subseteq CoveredBy(p2, t)
    BY <1>2, <2>2, <2>3 DEF CoveredBy
  <2>5. 1..Top(t) \subseteq CoveredBy(p2, t)
    BY <1>0, <2>3, <2>4
  <2> QED
    BY <2>4, <2>5 DEF t
<1>3. CASE s # <<>> /\ ~(seq > s[Len(s)])
  <2>1. t = s
    BY <1>3 DEF Keep
  <2>2. seq \in 1..Top(s)
    <3>1. Top(s) = s[Len(s)] /\ Top(s) \in Nat
      BY <1>3, ViewBetween DEF Top
    <3> QED
      BY <1>0, <1>3, <3>1
  <2> HIDE DEF t
  <2>3. CoveredBy(p, s) \subseteq CoveredBy(p2, t)
    BY <2>1 DEF CoveredBy
  <2>4. seq \in CoveredBy(p2, t) /\ 1..Top(t) \subseteq CoveredBy(p2, t)
    BY <2>1, <2>2, <2>3
  <2> QED
    BY <2>3, <2>4 DEF t
<1> QED
  BY <1>1, <1>2, <1>3

\* openSession clears the view, and its page takes the place of what there is.
LEMMA ClearCovers ==
  ASSUME NEW p, NEW s \in Seq(Rows), Ascending(s)
  PROVE  CoveredBy(p, s) \subseteq p \cup 1..Top(s)
<1>1. s # <<>> => 1..(s[1] - 1) \subseteq 1..Top(s)
  BY ViewBetween DEF Rows
<1> QED
  BY <1>1, ViewBetween DEF CoveredBy

LEMMA PageCovers ==
  ASSUME NEW p, NEW s \in Seq(Rows), Ascending(s), NEW a \in Nat \ {0}, NEW b \in Nat
  PROVE  LET t  == RowsFromTo(a, b)
             p2 == (p \cup 1..Top(s)) \ Elements(t)
         IN /\ CoveredBy(p, s) \subseteq CoveredBy(p2, t)
            /\ 1..Top(t) \subseteq CoveredBy(p2, t)
<1> DEFINE t  == RowsFromTo(a, b)
           p2 == (p \cup 1..Top(s)) \ Elements(t)
<1>1. /\ Elements(t) = a..b /\ (t = <<>> <=> b < a)
      /\ t # <<>> => t[1] = a /\ t[Len(t)] = b
  BY ElementsPage
<1> HIDE DEF t
<1>2. CoveredBy(p, s) \subseteq CoveredBy(p2, t)
  <2>1. CoveredBy(p, s) \subseteq p \cup 1..Top(s)
    BY ClearCovers
  <2> QED
    BY <2>1 DEF CoveredBy
<1>3. 1..Top(t) \subseteq CoveredBy(p2, t)
  <2>1. CASE t = <<>>
    BY <2>1 DEF Top
  <2>2. CASE t # <<>>
    <3>1. Top(t) = b /\ 1..b \subseteq 1..(a - 1) \cup a..b
      BY <1>1, <2>2 DEF Top
    <3> QED
      BY <1>1, <2>2, <3>1 DEF CoveredBy
  <2> QED
    BY <2>1, <2>2
<1> QED
  BY <1>2, <1>3 DEF t

\* The rows of a catch-up are put behind what there is.
LEMMA CatchUpCovers ==
  ASSUME NEW p, NEW p2, p \subseteq p2, NEW s \in Seq(Rows), Ascending(s),
         NEW from \in Nat \ {0}, NEW b \in Nat, b <= MaxRows, MaxRows \in Nat,
         1..Top(s) \subseteq CoveredBy(p, s),
         (Top(s) + 1)..(from - 1) \subseteq p2 \cup CoveredBy(p, s)
  PROVE  LET t == s \o RowsFromTo(Upper(from, Top(s) + 1), b) IN
         /\ CoveredBy(p, s) \subseteq CoveredBy(p2, t)
         /\ 1..Top(t) \subseteq CoveredBy(p2, t)
<1> DEFINE a == Upper(from, Top(s) + 1)
           u == RowsFromTo(a, b)
           t == s \o u
<1>1. Top(s) \in Nat /\ a \in Nat \ {0} /\ a..b \subseteq Rows
  BY ViewBetween DEF Upper, Rows
<1>2. a <= from \/ a = Top(s) + 1
  BY <1>1 DEF Upper
<1>2a. a - 1 <= Top(s) \/ a = from
  BY <1>1 DEF Upper
<1> HIDE DEF a
<1>3. /\ Elements(u) = a..b /\ (u = <<>> <=> b < a)
      /\ u # <<>> => u[1] = a /\ u[Len(u)] = b
  BY <1>1, ElementsPage
<1>4. u \in Seq(Rows)
  BY <1>1, RowsFromToType
<1> HIDE DEF u
<1>5. Elements(t) = Elements(s) \cup a..b
  <2>1. Elements(s \o u) = Elements(s) \cup Elements(u)
    BY <1>4, ElementsConcat
  <2> QED
    BY <1>3, <2>1
<1>6. CASE u = <<>>
  <2>1. t = s
    BY <1>6
  <2> HIDE DEF t
  <2> QED
    BY <2>1 DEF CoveredBy, t, u, a
<1>7. CASE u # <<>>
  <2>1. t # <<>> /\ t[Len(t)] = b /\ (s # <<>> => t[1] = s[1]) /\ (s = <<>> => t[1] = a)
    BY <1>3, <1>4, <1>7
  <2> HIDE DEF t
  <2>2. Top(t) = b
    BY <2>1 DEF Top
  <2>3. CoveredBy(p, s) \subseteq CoveredBy(p2, t)
    <3>1. s = <<>> => Elements(s) = {}
      BY DEF Elements
    <3> QED
      BY <1>5, <2>1, <3>1 DEF CoveredBy
  <2>4. 1..b \subseteq 1..Top(s) \cup (Top(s) + 1)..(a - 1) \cup a..b
    BY <1>1
  <2>5. (Top(s) + 1)..(a - 1) \subseteq p2 \cup CoveredBy(p, s)
    BY <1>1, <1>2a
  <2>6. p2 \subseteq CoveredBy(p2, t) /\ a..b \subseteq CoveredBy(p2, t)
    BY <1>5 DEF CoveredBy
  <2> QED
    BY <2>2, <2>3, <2>4, <2>5, <2>6 DEF t, u, a
<1> QED
  BY <1>6, <1>7

\* A view that covers more.
LEMMA HolesCarried ==
  ASSUME NEW p, NEW s, NEW q, NEW c, Holes(p, s, q, c), NEW p2, NEW t,
         CoveredBy(p, s) \subseteq CoveredBy(p2, t), 1..Top(t) \subseteq CoveredBy(p2, t)
  PROVE  Holes(p2, t, q, c)
BY DEF Holes

\* A row is pushed, with the rows that are later than it.
LEMMA HolesPush ==
  ASSUME NEW p, NEW s, NEW q \in Seq(Rows), NEW c, Holes(p, s, q, c), NEW n \in Rows,
         NEW p2, p2 = p \cup ((1..(n - 1)) \ (Elements(s) \cup Elements(q)))
  PROVE  Holes(p2, s, Append(q, n), c)
<1> DEFINE q2 == Append(q, n)
<1>1. CoveredBy(p, s) \subseteq CoveredBy(p2, s) /\ p2 \subseteq CoveredBy(p2, s)
      /\ Elements(s) \subseteq CoveredBy(p2, s)
  BY DEF CoveredBy
<1>2. /\ DOMAIN q2 = 1..(Len(q) + 1) /\ DOMAIN q = 1..Len(q) /\ Len(q) \in Nat
      /\ q2[Len(q) + 1] = n /\ \A i \in DOMAIN q : q2[i] = q[i]
  OBVIOUS
<1> HIDE DEF q2
<1>3. \A i \in DOMAIN q : Before(q2, i) = Before(q, i)
  <2> TAKE i \in DOMAIN q
  <2>1. {j \in DOMAIN q2 : j < i} = {j \in DOMAIN q : j < i}
    BY <1>2
  <2>2. \A j \in {k \in DOMAIN q : k < i} : q2[j] = q[j]
    BY <1>2
  <2> QED
    BY <2>1, <2>2 DEF Before
<1>4. Before(q2, Len(q) + 1) = Elements(q)
  <2>1. {j \in DOMAIN q2 : j < Len(q) + 1} = DOMAIN q
    BY <1>2
  <2> QED
    BY <1>2, <2>1 DEF Before, Elements
<1>5. ASSUME NEW i \in DOMAIN q2
      PROVE  1..(q2[i] - 1) \subseteq CoveredBy(p2, s) \cup Before(q2, i)
  <2>1. CASE i \in DOMAIN q
    BY <1>1, <1>2, <1>3, <2>1 DEF Holes
  <2>2. CASE i = Len(q) + 1
    BY <1>1, <1>2, <1>4, <2>2
  <2>3. i \in DOMAIN q \/ i = Len(q) + 1
    BY <1>2
  <2> QED
    BY <2>1, <2>2, <2>3
<1>6. 1..Top(s) \subseteq CoveredBy(p2, s) /\ (c.step # "no" /\ c.after # 0 =>
        1..c.after \subseteq CoveredBy(p2, s) /\ (c.step = "answered" => c.from = c.after + 1))
  BY <1>1 DEF Holes
<1> QED
  BY <1>5, <1>6 DEF Holes, q2

\* The page takes the first row of the queue.
LEMMA HolesReceive ==
  ASSUME NEW p, NEW s \in Seq(Rows), Ascending(s), NEW q \in Seq(Rows), q # <<>>, NEW c,
         Holes(p, s, q, c)
  PROVE  Holes(p, Keep(s, Head(q)), Tail(q), c)
<1> DEFINE t == Keep(s, Head(q))
           q2 == Tail(q)
<1>1. /\ 1 \in DOMAIN q /\ Head(q) = q[1] /\ Head(q) \in Rows
      /\ DOMAIN q2 = 1..(Len(q) - 1) /\ DOMAIN q = 1..Len(q) /\ Len(q) \in Nat \ {0}
      /\ \A i \in DOMAIN q2 : q2[i] = q[i + 1]
  OBVIOUS
<1>2. 1..(Head(q) - 1) \subseteq p \cup CoveredBy(p, s)
  BY <1>1 DEF Holes, Before
<1>3. CoveredBy(p, s) \cup {Head(q)} \subseteq CoveredBy(p, t) /\ 1..Top(t) \subseteq CoveredBy(p, t)
  BY <1>1, <1>2, KeepCovers DEF Holes
<1> HIDE DEF t, q2
<1>4. ASSUME NEW i \in DOMAIN q2
      PROVE  1..(q2[i] - 1) \subseteq CoveredBy(p, t) \cup Before(q2, i)
  <2>1. i + 1 \in DOMAIN q /\ q2[i] = q[i + 1] /\ i \in Nat
    BY <1>1
  <2>2. 1..(q2[i] - 1) \subseteq CoveredBy(p, s) \cup Before(q, i + 1)
    BY <2>1 DEF Holes
  <2>3. \A j \in DOMAIN q : j < i + 1 => j = 1 \/ (j - 1 \in DOMAIN q2 /\ j - 1 < i /\ q2[j - 1] = q[j])
    BY <1>1, <2>1
  <2>4. Before(q, i + 1) \subseteq {Head(q)} \cup Before(q2, i)
    BY <1>1, <2>3 DEF Before
  <2> QED
    BY <1>3, <2>2, <2>4
<1> QED
  BY <1>3, <1>4 DEF Holes, t, q2

\* What is stored, in the order it was stored, whatever is on its way.
LEMMA HolesTypes ==
  ASSUME ViewInv, NEW r \in Readers
  PROVE  /\ view[r] \in Seq(Rows) /\ Ascending(view[r]) /\ queue[r] \in Seq(Rows)
         /\ call \in [Readers -> [Kinds -> Calls]] /\ passedBy \in [Readers -> SUBSET Rows]
         /\ view \in [Readers -> Seq(Rows)] /\ queue \in [Readers -> Seq(Rows)]
         /\ wseq \in [Writers -> 0..MaxRows] /\ MaxRows \in Nat
         /\ MaxSeq(r) = Top(view[r]) /\ Top(view[r]) \in Nat
<1>1. TypeOK /\ Timeline(view[r]) /\ MaxRows \in Nat
  BY TimelineAssumption DEF ViewInv, WriteInv, TypeInv, ViewOK, TimelineAssumption
<1>2. Ascending(view[r])
  BY <1>1 DEF Timeline, Ascending
<1>3. /\ view[r] \in Seq(Rows) /\ queue[r] \in Seq(Rows)
      /\ call \in [Readers -> [Kinds -> Calls]] /\ passedBy \in [Readers -> SUBSET Rows]
      /\ view \in [Readers -> Seq(Rows)] /\ queue \in [Readers -> Seq(Rows)]
      /\ wseq \in [Writers -> 0..MaxRows]
  BY <1>1 DEF TypeOK, PageOK, WireOK, WritersOK, HistoryOK
<1>4. MaxSeq(r) = Top(view[r])
  BY DEF MaxSeq, Top
<1> QED
  BY <1>1, <1>2, <1>3, <1>4, ViewBetween

\* Steps of the writers.
LEMMA WriteHoles ==
  ASSUME ViewInv, NEW r \in Readers, HolesAt(r), NEW w \in Writers, NEW q \in Readers,
         Deliver(w, q)
  PROVE  HolesAt(r)'
<1>1. /\ view' = view /\ call' = call
      /\ queue' = [queue EXCEPT ![q] = Push(queue[q], wseq[w])]
      /\ passedBy' = IF Len(queue[q]) < QCap
                     THEN [passedBy EXCEPT ![q] = passedBy[q] \cup NotYetAt(q, wseq[w])]
                     ELSE passedBy
  BY Zenon DEF Deliver, page
<1>2. wseq[w] \in Rows
  BY TimelineAssumption DEF Deliver, ViewInv, WriteInv, TypeInv, TypeOK, WritersOK, HeldOK, Rows,
     TimelineAssumption
<1>3. CASE q = r /\ Len(queue[q]) < QCap
  <2>1. queue'[r] = Append(queue[r], wseq[w])
    BY <1>1, <1>3, HolesTypes DEF Push
  <2>2. passedBy'[r] = passedBy[r]
            \cup ((1..(wseq[w] - 1)) \ (Elements(view[r]) \cup Elements(queue[r])))
    BY <1>1, <1>3, HolesTypes DEF NotYetAt
  <2>3. Holes(passedBy'[r], view[r], Append(queue[r], wseq[w]), call[r]["catchUp"])
    BY <1>2, <2>2, HolesPush, HolesTypes DEF HolesAt
  <2> QED
    BY <1>1, <2>1, <2>3 DEF HolesAt
<1>4. CASE ~(q = r /\ Len(queue[q]) < QCap)
  <2>1. queue'[r] = queue[r] /\ passedBy'[r] = passedBy[r]
    BY <1>1, <1>4, HolesTypes DEF Push
  <2> QED
    BY <1>1, <2>1 DEF HolesAt
<1> QED
  BY <1>3, <1>4

\* Rows handed to the page.
LEMMA RowHoles ==
  ASSUME ViewInv, UnopenedOK, NEW r \in Readers, HolesAt(r), NEW q \in Readers
  PROVE  /\ Receive(q) => HolesAt(r)'
         /\ \A carries \in BOOLEAN : PostAnswer(q, carries) => HolesAt(r)'
<1>1. ASSUME Receive(q) PROVE HolesAt(r)'
  <2>1. /\ selected[q] /\ passedBy' = passedBy /\ call' = call
        /\ queue' = [queue EXCEPT ![q] = Tail(queue[q])]
        /\ view' = [view EXCEPT ![q] = Keep(view[q], Head(queue[q]))]
    BY <1>1 DEF Receive, Show, UnopenedOK, Unopened
  <2>2. CASE q = r
    <3>1. queue[r] # <<>>
      BY <1>1, <2>2 DEF Receive
    <3>2. Holes(passedBy[r], Keep(view[r], Head(queue[r])), Tail(queue[r]), call[r]["catchUp"])
      BY <3>1, HolesReceive, HolesTypes DEF HolesAt
    <3>3. queue'[r] = Tail(queue[r]) /\ view'[r] = Keep(view[r], Head(queue[r]))
      BY <2>1, <2>2, HolesTypes
    <3> QED
      BY <2>1, <3>2, <3>3 DEF HolesAt
  <2>3. CASE q # r
    <3>1. queue'[r] = queue[r] /\ view'[r] = view[r]
      BY <2>1, <2>3, HolesTypes
    <3> QED
      BY <2>1, <3>1 DEF HolesAt
  <2> QED
    BY <2>2, <2>3
<1>2. ASSUME NEW carries \in BOOLEAN, PostAnswer(q, carries) PROVE HolesAt(r)'
  <2>1. queue' = queue /\ call' = call
    BY <1>2 DEF PostAnswer, wire
  <2>2. CASE carries /\ selected[q] /\ q = r
    <3> DEFINE p2 == passedBy[r] \cup ((1..(wseq[r] - 1)) \ Elements(view[r]))
    <3>1. view'[r] = Keep(view[r], wseq[r]) /\ passedBy'[r] = p2
      <4>1. /\ view' = [view EXCEPT ![r] = Keep(view[r], wseq[r])]
            /\ passedBy' = [passedBy EXCEPT ![r] = p2]
        BY <1>2, <2>2 DEF PostAnswer, Show
      <4> QED
        BY <4>1, HolesTypes
    <3>2. wseq[r] \in Rows
      BY <1>2, <2>2, TimelineAssumption DEF PostAnswer, ViewInv, WriteInv, TypeInv, TypeOK,
         WritersOK, HeldOK, Rows, Writers, TimelineAssumption
    <3>3. 1..(wseq[r] - 1) \subseteq p2 \cup CoveredBy(passedBy[r], view[r])
      BY DEF CoveredBy
    <3>4. passedBy[r] \subseteq p2
      OBVIOUS
    <3> HIDE DEF p2
    <3>5. /\ CoveredBy(passedBy[r], view[r]) \subseteq CoveredBy(p2, Keep(view[r], wseq[r]))
          /\ 1..Top(Keep(view[r], wseq[r])) \subseteq CoveredBy(p2, Keep(view[r], wseq[r]))
      BY <3>2, <3>3, <3>4, KeepCovers, HolesTypes DEF HolesAt, Holes
    <3>6. Holes(p2, Keep(view[r], wseq[r]), queue[r], call[r]["catchUp"])
      BY <3>5, HolesCarried DEF HolesAt
    <3> QED
      BY <2>1, <3>1, <3>6 DEF HolesAt
  <2>3. CASE ~(carries /\ selected[q] /\ q = r)
    <3>1. view'[r] = view[r] /\ passedBy'[r] = passedBy[r]
      BY <1>2, <2>3, HolesTypes DEF PostAnswer, Show
    <3> QED
      BY <2>1, <3>1 DEF HolesAt
  <2> QED
    BY <2>2, <2>3
<1> QED
  BY <1>1, <1>2

\* openSession.
LEMMA OpenHoles ==
  ASSUME ViewInv, NEW r \in Readers, HolesAt(r), NEW q \in Readers
  PROVE  /\ OpenSession(q) => HolesAt(r)'
         /\ OpenApply(q) => HolesAt(r)'
<1>1. ASSUME OpenSession(q) PROVE HolesAt(r)'
  <2>1. /\ queue' = queue /\ view' = [view EXCEPT ![q] = <<>>]
        /\ passedBy' = [passedBy EXCEPT ![q] = passedBy[q] \cup 1..MaxSeq(q)]
        /\ call' = [call EXCEPT ![q]["open"] = Asked(0)]
    BY <1>1 DEF OpenSession, Ask, wire
  <2>2. call'[r]["catchUp"] = call[r]["catchUp"]
    BY <2>1, HolesTypes DEF Kinds
  <2>3. CASE q = r
    <3> DEFINE p2 == passedBy[r] \cup 1..Top(view[r])
    <3>1. view'[r] = <<>> /\ passedBy'[r] = p2
      BY <2>1, <2>3, HolesTypes
    <3>2. CoveredBy(p2, <<>>) = p2 /\ Top(<<>>) = 0
      BY DEF CoveredBy, Elements, Top
    <3>3. CoveredBy(passedBy[r], view[r]) \subseteq p2
      BY ClearCovers, HolesTypes
    <3> HIDE DEF p2
    <3>4. Holes(p2, <<>>, queue[r], call[r]["catchUp"])
      BY <3>2, <3>3, HolesCarried DEF HolesAt
    <3> QED
      BY <2>1, <2>2, <3>1, <3>4 DEF HolesAt
  <2>4. CASE q # r
    <3>1. view'[r] = view[r] /\ passedBy'[r] = passedBy[r]
      BY <2>1, <2>4, HolesTypes
    <3> QED
      BY <2>1, <2>2, <3>1 DEF HolesAt
  <2> QED
    BY <2>3, <2>4
<1>2. ASSUME OpenApply(q) PROVE HolesAt(r)'
  <2> DEFINE c == call[q]["open"]
             page_rows == RowsFromTo(c.from, c.to)
  <2>1. /\ queue' = queue /\ view' = [view EXCEPT ![q] = page_rows]
        /\ passedBy' = [passedBy EXCEPT ![q] = (passedBy[q] \cup 1..MaxSeq(q)) \ Elements(page_rows)]
        /\ call' = [call EXCEPT ![q]["open"] = [NoCall EXCEPT !.step = "shown"]]
    BY <1>2, Zenon DEF OpenApply, wire
  <2>2. call'[r]["catchUp"] = call[r]["catchUp"]
    BY <2>1, HolesTypes DEF Kinds
  <2>3. CASE q = r
    <3> DEFINE p2 == (passedBy[r] \cup 1..Top(view[r])) \ Elements(page_rows)
    <3>1. c.from \in Nat \ {0} /\ c.to \in Nat
      <4>1. c \in Calls
        BY HolesTypes DEF Kinds
      <4> QED
        BY <4>1, HolesTypes, SMTT(20) DEF Calls
    <3>2. view'[r] = page_rows /\ passedBy'[r] = p2
      BY <2>1, <2>3, HolesTypes
    <3>3. /\ CoveredBy(passedBy[r], view[r]) \subseteq CoveredBy(p2, page_rows)
          /\ 1..Top(page_rows) \subseteq CoveredBy(p2, page_rows)
      BY <3>1, PageCovers, HolesTypes
    <3> HIDE DEF p2, page_rows
    <3>4. Holes(p2, page_rows, queue[r], call[r]["catchUp"])
      BY <3>3, HolesCarried DEF HolesAt
    <3> QED
      BY <2>1, <2>2, <3>2, <3>4 DEF HolesAt
  <2>4. CASE q # r
    <3>1. view'[r] = view[r] /\ passedBy'[r] = passedBy[r]
      BY <2>1, <2>4, HolesTypes
    <3> QED
      BY <2>1, <2>2, <3>1 DEF HolesAt
  <2> QED
    BY <2>3, <2>4
<1> QED
  BY <1>1, <1>2

\* The GETs: asked for, answered, and the rows of a catch-up put behind those of the
\* view.
LEMMA AskHoles ==
  ASSUME ViewInv, NEW r \in Readers, HolesAt(r), NEW q \in Readers
  PROVE  /\ Connect(q) => HolesAt(r)'
         /\ \A kind \in Kinds : Read(q, kind) => HolesAt(r)'
<1>1. ASSUME Connect(q) PROVE HolesAt(r)'
  <2>1. queue' = queue /\ view' = view /\ passedBy' = passedBy
    BY <1>1 DEF Connect
  <2>2. CASE selected[q] /\ q = r
    <3>1. call'[r]["catchUp"] = Asked(Top(view[r]))
      <4>1. call' = [call EXCEPT ![r]["catchUp"] = Asked(Top(view[r]))]
        BY <1>1, <2>2, HolesTypes DEF Connect, Ask
      <4> QED
        BY <4>1, HolesTypes DEF Kinds
    <3>2. Holes(passedBy[r], view[r], queue[r], Asked(Top(view[r])))
      BY DEF HolesAt, Holes, Asked
    <3> QED
      BY <2>1, <3>1, <3>2 DEF HolesAt
  <2>3. CASE ~(selected[q] /\ q = r)
    <3>1. call'[r]["catchUp"] = call[r]["catchUp"]
      BY <1>1, <2>3, HolesTypes DEF Connect, Ask, Kinds
    <3> QED
      BY <2>1, <3>1 DEF HolesAt
  <2> QED
    BY <2>2, <2>3
<1>2. ASSUME NEW kind \in Kinds, Read(q, kind) PROVE HolesAt(r)'
  <2> DEFINE c == call[q][kind]
             size == IF kind = "open" THEN OpenPage ELSE CatchUpPage
             got == IF c.after = 0 THEN MessagesTail(size) ELSE Messages(c.after, size)
             answered == [step |-> "answered", after |-> c.after,
                          from |-> got.from, to |-> got.to]
  <2>1. /\ queue' = queue /\ view' = view /\ passedBy' = passedBy
        /\ c.step = "asked" /\ call' = [call EXCEPT ![q][kind] = answered]
    BY <1>2, Zenon DEF Read, wire, history
  <2>2. CASE q = r /\ kind = "catchUp"
    <3>1. call'[r]["catchUp"] = answered
      BY <2>1, <2>2, HolesTypes
    <3>2. answered.after = c.after /\ (c.after # 0 => answered.from = c.after + 1)
      BY DEF Messages
    <3> HIDE DEF answered
    <3>3. Holes(passedBy[r], view[r], queue[r], answered)
      BY <2>1, <2>2, <3>2 DEF HolesAt, Holes
    <3> QED
      BY <2>1, <3>1, <3>3 DEF HolesAt
  <2>3. CASE ~(q = r /\ kind = "catchUp")
    <3> HIDE DEF answered
    <3>1. call'[r]["catchUp"] = call[r]["catchUp"]
      BY <2>1, <2>3, HolesTypes DEF Kinds
    <3> QED
      BY <2>1, <3>1 DEF HolesAt
  <2> QED
    BY <2>2, <2>3
<1> QED
  BY <1>1, <1>2

LEMMA CatchUpHoles ==
  ASSUME ViewInv, NEW r \in Readers, HolesAt(r), NEW q \in Readers, CatchUpApply(q)
  PROVE  HolesAt(r)'
<1> DEFINE c   == call[q]["catchUp"]
           new == CaughtUpView(q)
           top == Top(new)
           c2  == IF Again(c, top) THEN Asked(top) ELSE NoCall
           skipped == IF c.after = 0 THEN passedBy[q] \cup (MaxSeq(q) + 1)..(c.from - 1)
                                     ELSE passedBy[q]
<1>1. /\ c.step = "answered" /\ queue' = queue
      /\ view' = [view EXCEPT ![q] = new]
      /\ call' = [call EXCEPT ![q]["catchUp"] = c2]
      /\ passedBy' = [passedBy EXCEPT ![q] = skipped]
  BY Zenon DEF CatchUpApply, CaughtUpView, Top, wire
<1>2. CASE q = r
  <2>1. view'[r] = new /\ call'[r]["catchUp"] = c2 /\ passedBy'[r] = skipped
    BY <1>1, <1>2, HolesTypes DEF Kinds
  <2>2. /\ c.from \in Nat \ {0} /\ c.to \in Nat /\ c.to <= MaxRows /\ c.after \in Nat
        /\ MaxRows \in Nat /\ Top(view[r]) \in Nat /\ MaxSeq(r) = Top(view[r])
    <3>1. c \in Calls
      BY HolesTypes DEF Kinds
    <3> QED
      BY <1>2, <3>1, HolesTypes DEF Calls
  <2>3. passedBy[r] \subseteq skipped
    BY <1>2
  <2>4. (Top(view[r]) + 1)..(c.from - 1) \subseteq skipped \cup CoveredBy(passedBy[r], view[r])
    <3>1. CASE c.after = 0
      BY <1>2, <2>2, <3>1
    <3>2. CASE c.after # 0
      <4>1. c.from = c.after + 1 /\ 1..c.after \subseteq CoveredBy(passedBy[r], view[r])
        BY <1>1, <1>2, <3>2 DEF HolesAt, Holes
      <4>2. (Top(view[r]) + 1)..(c.from - 1) \subseteq 1..c.after
        BY <2>2, <4>1
      <4> QED
        BY <4>1, <4>2
    <3> QED
      BY <3>1, <3>2
  <2>5. new = view[r] \o RowsFromTo(Upper(c.from, Top(view[r]) + 1), c.to)
    BY <1>2, <2>2 DEF CaughtUpView
  <2> HIDE DEF new, skipped, c
  <2>6. /\ CoveredBy(passedBy[r], view[r]) \subseteq CoveredBy(skipped, new)
        /\ 1..Top(new) \subseteq CoveredBy(skipped, new)
    BY <2>2, <2>3, <2>4, <2>5, CatchUpCovers, HolesTypes DEF HolesAt, Holes
  <2>7. Holes(skipped, new, queue[r], call[r]["catchUp"])
    BY <2>6, HolesCarried DEF HolesAt
  <2>8. Holes(skipped, new, queue[r], c2)
    BY <2>6, <2>7 DEF Holes, Asked, NoCall
  <2> QED
    BY <1>1, <2>1, <2>8 DEF HolesAt
<1>3. CASE q # r
  <2> HIDE DEF new, skipped, c2
  <2>1. view'[r] = view[r] /\ passedBy'[r] = passedBy[r]
        /\ call'[r]["catchUp"] = call[r]["catchUp"]
    BY <1>1, <1>3, HolesTypes
  <2> QED
    BY <1>1, <2>1 DEF HolesAt
<1> QED
  BY <1>2, <1>3

\* Steps that put no row into a view and ask for none.
LEMMA OtherHoles ==
  ASSUME ViewInv, NEW r \in Readers, HolesAt(r), UNCHANGED view, UNCHANGED passedBy,
         queue'[r] = queue[r] \/ queue'[r] = <<>>,
         call'[r]["catchUp"] = call[r]["catchUp"] \/ call'[r]["catchUp"] = NoCall
  PROVE  HolesAt(r)'
<1>1. Holes(passedBy[r], view[r], queue'[r], call[r]["catchUp"])
  BY DEF HolesAt, Holes
<1>2. Holes(passedBy[r], view[r], queue'[r], call'[r]["catchUp"])
  BY <1>1 DEF Holes, NoCall
<1> QED
  BY <1>2 DEF HolesAt

LEMMA PageHoles ==
  ASSUME ViewInv, UnopenedOK, NEW r \in Readers, HolesAt(r), NEW q \in Readers,
         Connection(q) \/ Page(q)
  PROVE  HolesAt(r)'
<1>1. CASE Break(q)
  <2>1. queue'[r] = queue[r] \/ queue'[r] = <<>>
    BY <1>1, HolesTypes DEF Break
  <2> QED
    BY <1>1, <2>1, OtherHoles DEF Break, page, history
<1>2. CASE SubscribeGet(q) \/ SubscribeAdd(q)
  BY <1>2, OtherHoles DEF SubscribeGet, SubscribeAdd, page, history
<1>3. CASE OpenSubscribe(q) \/ OpenFails(q)
  <2>1. WsSubscribe(q)
    BY <1>3 DEF OpenSubscribe, OpenFails
  <2>2. call'[r]["catchUp"] = call[r]["catchUp"]
    BY <2>1, HolesTypes DEF WsSubscribe, Kinds
  <2> QED
    BY <2>1, <2>2, OtherHoles DEF WsSubscribe, history
<1>4. CASE CatchUpFails(q)
  <2>1. call'[r]["catchUp"] = call[r]["catchUp"] \/ call'[r]["catchUp"] = NoCall
    BY <1>4, HolesTypes DEF CatchUpFails, Kinds
  <2> QED
    BY <1>4, <2>1, OtherHoles DEF CatchUpFails, wire
<1> QED
  BY <1>1, <1>2, <1>3, <1>4, AskHoles, RowHoles, OpenHoles, CatchUpHoles DEF Connection, Page

\* The invariant of the holes is inductive.
LEMMA HolesStep == ViewInv /\ UnopenedOK /\ HolesOK /\ [Next]_vars => HolesOK'
<1> SUFFICES ASSUME ViewInv, UnopenedOK, HolesOK, [Next]_vars, NEW r \in Readers
             PROVE  HolesAt(r)'
  BY DEF HolesOK
<1>1. HolesAt(r)
  BY DEF HolesOK
<1>2. CASE UNCHANGED vars
  BY <1>1, <1>2, OtherHoles DEF vars, wire, page, history
<1>3. ASSUME NEW g \in Gens, PumpAppend(g) PROVE HolesAt(r)'
  BY <1>1, <1>3, OtherHoles DEF PumpAppend, PickSeq, wire, page, history
<1>4. ASSUME NEW w \in Writers, Write(w) PROVE HolesAt(r)'
  <2>1. CASE Insert(w) \/ InsertFails(w) \/ Broadcast(w)
    BY <1>1, <2>1, OtherHoles DEF Insert, InsertFails, Broadcast, wire, page, history
  <2> QED
    BY <1>1, <1>4, <2>1, WriteHoles DEF Write
<1>5. CASE Restart
  BY <1>1, <1>5, OtherHoles DEF Restart, Detach, Register, Attach, wire, page, history
<1>6. ASSUME NEW q \in Readers, PostGet(q) \/ PostAppend(q) PROVE HolesAt(r)'
  BY <1>1, <1>6, OtherHoles DEF PostGet, PostAppend, PickSeq, wire, page, history
<1> QED
  BY <1>1, <1>2, <1>3, <1>4, <1>5, <1>6, PageHoles DEF Next

LEMMA UnopenedInit == Init => UnopenedOK
BY TimelineAssumption DEF Init, UnopenedOK, Unopened, Kinds, NoCall, Gens, Writers

LEMMA HolesInit == Init => HolesOK
<1> SUFFICES ASSUME Init, NEW r \in Readers PROVE HolesAt(r)
  BY DEF HolesOK
<1>1. view[r] = <<>> /\ queue[r] = <<>> /\ call[r]["catchUp"] = NoCall
  BY DEF Init, Kinds
<1> QED
  BY <1>1 DEF HolesAt, Holes, Top, NoCall

\* A hole between two rows of a screen is one of the three kinds, for all browsers,
\* page and queue sizes, restarts, collisions and orders of pushes, answers and GETs.
THEOREM HolesAreExplained == Spec => []HolesExplained
<1>1. Init => ViewInv /\ UnopenedOK /\ HolesOK
  BY ViewInit, UnopenedInit, HolesInit
<1>2. ViewInv /\ UnopenedOK /\ HolesOK /\ [Next]_vars => (ViewInv /\ UnopenedOK /\ HolesOK)'
  BY ViewStep, UnopenedStep, HolesStep DEF ViewInv, WriteInv
<1>3. ViewInv /\ HolesOK => HolesExplained
  <2> SUFFICES ASSUME ViewInv, HolesOK, NEW r \in Readers, view[r] # <<>>,
                      NEW n \in (view[r][1]..MaxSeq(r)) \ Elements(view[r])
               PROVE  n \in passedBy[r]
    BY DEF HolesExplained
  <2>1. view[r][1] \in Rows /\ Top(view[r]) = MaxSeq(r) /\ Top(view[r]) \in Nat
    BY HolesTypes, ViewBetween
  <2>2. n \in 1..Top(view[r]) /\ n \notin 1..(view[r][1] - 1)
    BY <2>1 DEF Rows
  <2>3. n \in CoveredBy(passedBy[r], view[r])
    BY <2>2 DEF HolesOK, HolesAt, Holes
  <2> QED
    BY <2>2, <2>3 DEF CoveredBy
<1> QED
  BY <1>1, <1>2, <1>3, PTL DEF Spec

-----------------------------------------------------------------------------
(***************************************************************************)
(* What a catch-up owes.                                                   *)
(***************************************************************************)
\* The rows o owed to a page with view s and catch-up c are in the view or yet to be
\* asked for: behind its end, which is where the catch-up goes on, and in the answer
\* unless that is a full page.
Owes(o, s, c, stored) ==
  /\ c.step = "no" => o \subseteq Elements(s)
  /\ c.step # "no" => /\ c.step \in {"asked", "answered"} /\ c.after = Top(s) /\ c.after # 0
                      /\ o \subseteq Elements(s) \cup (Top(s) + 1)..stored
  /\ c.step = "answered" => /\ c.from = Top(s) + 1 /\ c.to >= Top(s)
                            /\ \/ c.to = Top(s) + CatchUpPage
                               \/ o \subseteq Elements(s) \cup c.from..c.to

OwedAt(r) == raced[r] \/ owed[r] = {} \/ Owes(owed[r], view[r], call[r]["catchUp"], last)
OwedOK == \A r \in Readers : OwedAt(r)

\* Steps that leave a page and its catch-up alone.
LEMMA OwedUntouched ==
  ASSUME ViewInv, [Next]_vars, NEW r \in Readers, OwedAt(r),
         owed'[r] = owed[r], raced'[r] = raced[r], view'[r] = view[r],
         call'[r]["catchUp"] = call[r]["catchUp"]
  PROVE  OwedAt(r)'
<1>1. (Top(view[r]) + 1)..last \subseteq (Top(view[r]) + 1)..last'
  BY LastGrows, HolesTypes DEF ViewInv
<1>2. Owes(owed[r], view[r], call[r]["catchUp"], last)
        => Owes(owed[r], view[r], call[r]["catchUp"], last')
  BY <1>1 DEF Owes
<1> QED
  BY <1>2 DEF OwedAt

\* A row enters the view outside of the catch-up: the catch-up is raced, or there is none.
LEMMA OwedShow ==
  ASSUME ViewInv, [Next]_vars, NEW r \in Readers, OwedAt(r), UNCHANGED <<owed, call>>,
         NEW seq \in Rows, view'[r] = Keep(view[r], seq),
         raced'[r] = (raced[r] \/ call[r]["catchUp"].step # "no")
  PROVE  OwedAt(r)'
<1>1. CASE raced[r] \/ call[r]["catchUp"].step # "no" \/ owed[r] = {}
  BY <1>1 DEF OwedAt
<1>2. CASE ~(raced[r] \/ call[r]["catchUp"].step # "no" \/ owed[r] = {})
  <2>1. owed[r] \subseteq Elements(view[r])
    BY <1>2 DEF OwedAt, Owes
  <2>2. Elements(view[r]) \subseteq Elements(Keep(view[r], seq))
    <3>1. Elements(Append(view[r], seq)) = Elements(view[r]) \cup {seq}
      BY ElementsAppend, HolesTypes
    <3> QED
      BY <3>1 DEF Keep
  <2> QED
    BY <1>2, <2>1, <2>2 DEF OwedAt, Owes
<1> QED
  BY <1>1, <1>2

LEMMA OwedRow ==
  ASSUME ViewInv, UnopenedOK, [Next]_vars, NEW r \in Readers, OwedAt(r), NEW q \in Readers
  PROVE  /\ Receive(q) => OwedAt(r)'
         /\ \A carries \in BOOLEAN : PostAnswer(q, carries) => OwedAt(r)'
<1>0. raced \in [Readers -> BOOLEAN]
  BY DEF ViewInv, WriteInv, TypeInv, TypeOK, HistoryOK
<1>1. ASSUME Receive(q) PROVE OwedAt(r)'
  <2>1. /\ call' = call /\ owed' = owed /\ Head(queue[q]) \in Rows
        /\ view' = [view EXCEPT ![q] = Keep(view[q], Head(queue[q]))]
        /\ raced' = [raced EXCEPT ![q] = raced[q] \/ call[q]["catchUp"].step # "no"]
    BY <1>1, HolesTypes DEF Receive, Show, Race, UnopenedOK, Unopened
  <2>2. CASE q = r
    <3>1. /\ view'[r] = Keep(view[r], Head(queue[r])) /\ Head(queue[r]) \in Rows
          /\ raced'[r] = (raced[r] \/ call[r]["catchUp"].step # "no")
      BY <1>0, <2>1, <2>2, HolesTypes
    <3> QED
      BY <2>1, <3>1, OwedShow
  <2>3. CASE q # r
    BY <1>0, <2>1, <2>3, OwedUntouched, HolesTypes
  <2> QED
    BY <2>2, <2>3
<1>2. ASSUME NEW carries \in BOOLEAN, PostAnswer(q, carries) PROVE OwedAt(r)'
  <2>1. call' = call /\ owed' = owed
    BY <1>2 DEF PostAnswer, wire
  <2>2. CASE carries /\ selected[q] /\ q = r
    <3>1. /\ view' = [view EXCEPT ![r] = Keep(view[r], wseq[r])]
          /\ raced' = [raced EXCEPT ![r] = raced[r] \/ call[r]["catchUp"].step # "no"]
      BY <1>2, <2>2 DEF PostAnswer, Show, Race
    <3>2. wseq[r] \in Rows
      BY <1>2, <2>2, TimelineAssumption DEF PostAnswer, ViewInv, WriteInv, TypeInv, TypeOK,
         WritersOK, HeldOK, Rows, Writers, TimelineAssumption
    <3>3. /\ view'[r] = Keep(view[r], wseq[r])
          /\ raced'[r] = (raced[r] \/ call[r]["catchUp"].step # "no")
      BY <1>0, <3>1, HolesTypes
    <3> QED
      BY <2>1, <3>2, <3>3, OwedShow
  <2>3. CASE ~(carries /\ selected[q] /\ q = r)
    <3>1. view'[r] = view[r] /\ raced'[r] = raced[r]
      BY <1>0, <1>2, <2>3, HolesTypes DEF PostAnswer, Show, Race
    <3> QED
      BY <2>1, <3>1, OwedUntouched
  <2> QED
    BY <2>2, <2>3
<1> QED
  BY <1>1, <1>2

\* A reconnect asks for what is owed, from the end of the view.
LEMMA OwedConnect ==
  ASSUME ViewInv, UnopenedOK, [Next]_vars, NEW r \in Readers, OwedAt(r), NEW q \in Readers,
         Connect(q)
  PROVE  OwedAt(r)'
<1>0. raced \in [Readers -> BOOLEAN] /\ owed \in [Readers -> SUBSET Rows]
  BY DEF ViewInv, WriteInv, TypeInv, TypeOK, HistoryOK
<1>1. /\ view' = view /\ last' = last /\ raced' = [raced EXCEPT ![q] = FALSE]
      /\ owed' = [owed EXCEPT ![q] = IF view[q] = <<>> THEN {} ELSE (MaxSeq(q) + 1)..last]
  BY DEF Connect, server
<1>2. CASE q = r /\ view[r] # <<>>
  <2>1. selected[r]
    BY <1>2 DEF UnopenedOK, Unopened
  <2>2. call'[r]["catchUp"] = Asked(Top(view[r]))
    <3>1. call' = [call EXCEPT ![r]["catchUp"] = Asked(Top(view[r]))]
      BY <1>2, <2>1, HolesTypes DEF Connect, Ask
    <3> QED
      BY <3>1, HolesTypes DEF Kinds
  <2>3. owed'[r] = (Top(view[r]) + 1)..last
    <3>1. owed' = [owed EXCEPT ![r] = (Top(view[r]) + 1)..last]
      BY <1>1, <1>2, HolesTypes
    <3> QED
      BY <1>0, <3>1
  <2>4. Top(view[r]) # 0
    BY <1>2, HolesTypes, ViewBetween DEF Rows
  <2>5. Owes((Top(view[r]) + 1)..last, view[r], Asked(Top(view[r])), last)
    BY <2>4 DEF Owes, Asked
  <2> QED
    BY <1>1, <2>2, <2>3, <2>5 DEF OwedAt
<1>3. CASE q = r /\ view[r] = <<>>
  <2>1. owed'[r] = {}
    BY <1>0, <1>1, <1>3
  <2> QED
    BY <2>1 DEF OwedAt
<1>4. CASE q # r
  <2>1. call'[r]["catchUp"] = call[r]["catchUp"]
    BY <1>4, HolesTypes DEF Connect, Ask
  <2> QED
    BY <1>0, <1>1, <1>4, <2>1, OwedUntouched
<1> QED
  BY <1>2, <1>3, <1>4

\* The answer is a full page or has all that is owed.
LEMMA OwedRead ==
  ASSUME ViewInv, [Next]_vars, NEW r \in Readers, OwedAt(r), NEW q \in Readers,
         NEW kind \in Kinds, Read(q, kind)
  PROVE  OwedAt(r)'
<1> DEFINE c == call[q][kind]
           size == IF kind = "open" THEN OpenPage ELSE CatchUpPage
           got == IF c.after = 0 THEN MessagesTail(size) ELSE Messages(c.after, size)
           answered == [step |-> "answered", after |-> c.after,
                        from |-> got.from, to |-> got.to]
<1>1. /\ view' = view /\ raced' = raced /\ owed' = owed /\ last' = last
      /\ c.step = "asked" /\ call' = [call EXCEPT ![q][kind] = answered]
  BY Zenon DEF Read, server, history
<1>2. CASE q = r /\ kind = "catchUp"
  <2>1. call'[r]["catchUp"] = answered
    BY <1>1, <1>2, HolesTypes
  <2>2. CASE raced[r] \/ owed[r] = {}
    BY <1>1, <2>2 DEF OwedAt
  <2>3. CASE ~(raced[r] \/ owed[r] = {})
    <3>1. /\ c.after = Top(view[r]) /\ c.after # 0
          /\ owed[r] \subseteq Elements(view[r]) \cup (Top(view[r]) + 1)..last
      BY <1>1, <1>2, <2>3 DEF OwedAt, Owes
    <3>2. /\ answered.step = "answered" /\ answered.after = Top(view[r])
          /\ answered.from = Top(view[r]) + 1
          /\ answered.to = Lower(last, Top(view[r]) + CatchUpPage)
      BY <1>2, <3>1 DEF Messages
    <3> HIDE DEF answered, c
    <3>3. Top(view[r]) <= last /\ last \in Nat /\ Top(view[r]) \in Nat
      <4>1. view[r] # <<>> => Len(view[r]) \in DOMAIN view[r]
        BY HolesTypes
      <4>2. last \in Nat
        BY LastGrows DEF ViewInv
      <4> QED
        BY <4>1, <4>2, HolesTypes DEF ViewInv, ViewOK, Timeline, Top
    <3>4. /\ answered.to >= Top(view[r])
          /\ answered.to = Top(view[r]) + CatchUpPage \/ answered.to = last
      BY <3>2, <3>3, TimelineAssumption DEF Lower, TimelineAssumption
    <3>5. Owes(owed[r], view[r], answered, last)
      BY <3>1, <3>2, <3>4 DEF Owes
    <3> QED
      BY <1>1, <2>1, <3>5 DEF OwedAt
  <2> QED
    BY <2>2, <2>3
<1>3. CASE ~(q = r /\ kind = "catchUp")
  <2> HIDE DEF answered
  <2>1. call'[r]["catchUp"] = call[r]["catchUp"]
    BY <1>1, <1>3, HolesTypes DEF Kinds
  <2> QED
    BY <1>1, <2>1, OwedUntouched
<1> QED
  BY <1>2, <1>3

\* What the view holds once an answer is put behind it.
LEMMA CatchUpElements ==
  ASSUME NEW s \in Seq(Rows), Ascending(s), MaxRows \in Nat, NEW b \in Nat, b <= MaxRows,
         b >= Top(s)
  PROVE  LET t == s \o RowsFromTo(Top(s) + 1, b) IN
         Elements(t) = Elements(s) \cup (Top(s) + 1)..b /\ Top(t) = b
<1> DEFINE a == Top(s) + 1
           u == RowsFromTo(a, b)
           t == s \o u
<1>1. Top(s) \in Nat /\ a \in Nat \ {0} /\ a..b \subseteq Rows
  BY ViewBetween DEF Rows
<1>2. /\ Elements(u) = a..b /\ (u = <<>> <=> b < a)
      /\ u # <<>> => u[Len(u)] = b
  BY <1>1, ElementsPage
<1>3. u \in Seq(Rows)
  BY <1>1, RowsFromToType
<1> HIDE DEF u
<1>4. Elements(t) = Elements(s) \cup a..b
  <2>1. Elements(s \o u) = Elements(s) \cup Elements(u)
    BY <1>3, ElementsConcat
  <2> QED
    BY <1>2, <2>1
<1>5. Top(t) = b
  <2>1. CASE u = <<>>
    <3>1. t = s /\ b = Top(s)
      BY <1>1, <1>2, <2>1
    <3> QED
      BY <3>1
  <2>2. CASE u # <<>>
    <3>1. t # <<>> /\ t[Len(t)] = b
      BY <1>2, <1>3, <2>2
    <3> QED
      BY <3>1 DEF Top
  <2> QED
    BY <2>1, <2>2
<1> QED
  BY <1>4, <1>5 DEF t, u, a

LEMMA OwedCatchUp ==
  ASSUME ViewInv, [Next]_vars, NEW r \in Readers, OwedAt(r), NEW q \in Readers,
         CatchUpApply(q)
  PROVE  OwedAt(r)'
<1> DEFINE c   == call[q]["catchUp"]
           new == CaughtUpView(q)
           top == Top(new)
           c2  == IF Again(c, top) THEN Asked(top) ELSE NoCall
<1>1. /\ c.step = "answered" /\ owed' = owed /\ raced' = raced /\ last' = last
      /\ view' = [view EXCEPT ![q] = new]
      /\ call' = [call EXCEPT ![q]["catchUp"] = c2]
  BY Zenon DEF CatchUpApply, CaughtUpView, Top, server
<1>2. CASE q = r
  <2>1. view'[r] = new /\ call'[r]["catchUp"] = c2
    BY <1>1, <1>2, HolesTypes DEF Kinds
  <2>2. CASE raced[r] \/ owed[r] = {}
    BY <1>1, <2>2 DEF OwedAt
  <2>3. CASE ~(raced[r] \/ owed[r] = {})
    <3>1. /\ c.from \in Nat \ {0} /\ c.to \in Nat /\ c.to <= MaxRows
          /\ MaxRows \in Nat /\ Top(view[r]) \in Nat /\ MaxSeq(r) = Top(view[r])
      <4>1. c \in Calls
        BY HolesTypes DEF Kinds
      <4> QED
        BY <1>2, <4>1, HolesTypes DEF Calls
    <3>2. /\ c.after = Top(view[r]) /\ c.after # 0 /\ c.from = Top(view[r]) + 1
          /\ c.to >= Top(view[r]) /\ owed[r] \subseteq Elements(view[r]) \cup (Top(view[r]) + 1)..last
          /\ \/ c.to = Top(view[r]) + CatchUpPage
             \/ owed[r] \subseteq Elements(view[r]) \cup c.from..c.to
      BY <1>1, <1>2, <2>3 DEF OwedAt, Owes
    <3>3. Upper(c.from, MaxSeq(r) + 1) = Top(view[r]) + 1
      BY <3>1, <3>2 DEF Upper
    <3>4. new = view[r] \o RowsFromTo(Top(view[r]) + 1, c.to)
      BY <1>2, <3>3 DEF CaughtUpView
    <3> HIDE DEF new, c
    <3>5. Elements(new) = Elements(view[r]) \cup (Top(view[r]) + 1)..c.to /\ top = c.to
      BY <3>1, <3>2, <3>4, CatchUpElements, HolesTypes
    <3>6. CASE Again(c, top)
      <4>1. c2 = Asked(top)
        BY <3>6
      <4>2. owed[r] \subseteq Elements(new) \cup (top + 1)..last
        <5>1. last \in Nat
          BY LastGrows DEF ViewInv
        <5>2. (Top(view[r]) + 1)..last \subseteq (Top(view[r]) + 1)..c.to \cup (c.to + 1)..last
          BY <3>1, <5>1
        <5> QED
          BY <3>2, <3>5, <5>2
      <4>3. top # 0
        BY <3>1, <3>2, <3>5
      <4> HIDE DEF top, c2
      <4>4. Owes(owed[r], new, c2, last)
        BY <4>1, <4>2, <4>3 DEF Owes, Asked, top
      <4> QED
        BY <1>1, <2>1, <4>4 DEF OwedAt
    <3>7. CASE ~Again(c, top)
      <4>1. c2 = NoCall
        BY <3>7
      <4>2. c.to # Top(view[r]) + CatchUpPage
        BY <3>1, <3>2, <3>5, <3>7, TimelineAssumption DEF Again, TimelineAssumption
      <4>3. owed[r] \subseteq Elements(new)
        BY <3>2, <3>5, <4>2
      <4> HIDE DEF top, c2
      <4>4. Owes(owed[r], new, c2, last)
        BY <4>1, <4>3 DEF Owes, NoCall
      <4> QED
        BY <1>1, <2>1, <4>4 DEF OwedAt
    <3> QED
      BY <3>6, <3>7
  <2> QED
    BY <2>2, <2>3
<1>3. CASE q # r
  <2> HIDE DEF new, c2
  <2>1. view'[r] = view[r] /\ call'[r]["catchUp"] = call[r]["catchUp"]
    BY <1>1, <1>3, HolesTypes
  <2> QED
    BY <1>1, <2>1, OwedUntouched
<1> QED
  BY <1>2, <1>3

\* The click, the page it brings and a GET that fails settle what is owed; nothing else
\* of a session being opened touches it.
LEMMA OwedSettled ==
  ASSUME ViewInv, [Next]_vars, NEW r \in Readers, OwedAt(r), NEW q \in Readers
  PROVE  /\ OpenSession(q) \/ OpenApply(q) \/ CatchUpFails(q) => OwedAt(r)'
         /\ OpenSubscribe(q) \/ OpenFails(q) => OwedAt(r)'
<1>0. raced \in [Readers -> BOOLEAN] /\ owed \in [Readers -> SUBSET Rows]
  BY DEF ViewInv, WriteInv, TypeInv, TypeOK, HistoryOK
<1>1. ASSUME OpenSession(q) \/ OpenApply(q) \/ CatchUpFails(q) PROVE OwedAt(r)'
  <2>1. CASE q = r
    <3>1. owed' = [owed EXCEPT ![q] = {}]
      BY <1>1, Zenon DEF OpenSession, OpenApply, CatchUpFails
    <3> QED
      BY <1>0, <2>1, <3>1 DEF OwedAt
  <2>2. CASE q # r
    <3>1. owed'[r] = owed[r] /\ raced'[r] = raced[r]
      BY <1>0, <1>1, <2>2 DEF OpenSession, OpenApply, Race, CatchUpFails
    <3>2. view'[r] = view[r] /\ call'[r]["catchUp"] = call[r]["catchUp"]
      BY <1>1, <2>2, HolesTypes DEF OpenSession, Ask, OpenApply, CatchUpFails, Kinds
    <3> QED
      BY <3>1, <3>2, OwedUntouched
  <2> QED
    BY <2>1, <2>2
<1>2. ASSUME OpenSubscribe(q) \/ OpenFails(q) PROVE OwedAt(r)'
  <2>1. WsSubscribe(q)
    BY <1>2 DEF OpenSubscribe, OpenFails
  <2>2. call'[r]["catchUp"] = call[r]["catchUp"]
    BY <2>1, HolesTypes DEF WsSubscribe, Kinds
  <2> QED
    BY <2>1, <2>2, OwedUntouched DEF WsSubscribe, history
<1> QED
  BY <1>1, <1>2

\* The invariant of what is owed is inductive.
LEMMA OwedStep == ViewInv /\ UnopenedOK /\ OwedOK /\ [Next]_vars => OwedOK'
<1> SUFFICES ASSUME ViewInv, UnopenedOK, OwedOK, [Next]_vars, NEW r \in Readers
             PROVE  OwedAt(r)'
  BY DEF OwedOK
<1>1. OwedAt(r)
  BY DEF OwedOK
<1>2. CASE UNCHANGED <<view, call, owed, raced>>
  BY <1>1, <1>2, OwedUntouched
<1>3. CASE UNCHANGED vars
  BY <1>2, <1>3 DEF vars, page, history
<1>4. ASSUME NEW g \in Gens, PumpAppend(g) PROVE OwedAt(r)'
  BY <1>2, <1>4 DEF PumpAppend, PickSeq, page, history
<1>5. ASSUME NEW w \in Writers, Write(w) PROVE OwedAt(r)'
  BY <1>2, <1>5 DEF Write, Insert, InsertFails, Broadcast, Deliver, page, history
<1>6. CASE Restart
  BY <1>2, <1>6 DEF Restart, Detach, Register, Attach, page, history
<1>7. ASSUME NEW q \in Readers, PostGet(q) \/ PostAppend(q) PROVE OwedAt(r)'
  BY <1>2, <1>7 DEF PostGet, PostAppend, PickSeq, page, history
<1>8. ASSUME NEW q \in Readers, Connection(q) PROVE OwedAt(r)'
  <2>1. CASE Break(q) \/ SubscribeGet(q) \/ SubscribeAdd(q)
    BY <1>2, <2>1 DEF Break, SubscribeGet, SubscribeAdd, page, history
  <2> QED
    BY <1>1, <1>8, <2>1, OwedConnect DEF Connection
<1>9. ASSUME NEW q \in Readers, Page(q) PROVE OwedAt(r)'
  BY <1>1, <1>9, OwedRow, OwedRead, OwedCatchUp, OwedSettled DEF Page
<1> QED
  BY <1>3, <1>4, <1>5, <1>6, <1>7, <1>8, <1>9 DEF Next

\* A catch-up that no row has raced, once through, has brought every row stored while the
\* page was away: for all numbers of rows and sizes of its pages.
THEOREM CatchUpIsComplete == Spec => []CatchUpComplete
<1>1. Init => ViewInv /\ UnopenedOK /\ OwedOK
  <2>1. Init => OwedOK
    BY DEF Init, OwedOK, OwedAt
  <2> QED
    BY <2>1, ViewInit, UnopenedInit
<1>2. ViewInv /\ UnopenedOK /\ OwedOK /\ [Next]_vars => (ViewInv /\ UnopenedOK /\ OwedOK)'
  BY ViewStep, UnopenedStep, OwedStep DEF ViewInv, WriteInv
<1>3. OwedOK => CatchUpComplete
  BY DEF OwedOK, OwedAt, Owes, CatchUpComplete, CaughtUp
<1> QED
  BY <1>1, <1>2, <1>3, PTL DEF Spec
=============================================================================
