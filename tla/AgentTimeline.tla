--------------------------- MODULE AgentTimeline ---------------------------
(***************************************************************************)
(* How the timeline of one session reaches a browser: rows numbered by     *)
(* Store.AppendMessage, written by pump and by HTTP handlers; broadcast to *)
(* the WebSocket connections subscribed (manager.go, handler.go); and put  *)
(* together again in web/src/views/AgentView.vue from pushes, from the     *)
(* answers to POST and from GETs of history.                               *)
(*                                                                         *)
(* Rows are never changed and never deleted while the session exists, so   *)
(* the table is 1..last and a row is its seq.  A liveSession is a number   *)
(* in Gens, 0 is nil.  The writers are the pump of each liveSession (with  *)
(* the reconcilePending that runs before it in the same goroutine) and     *)
(* one HTTP request at a time of each browser (Send, Approve, Answer).     *)
(***************************************************************************)
EXTENDS Integers, Sequences

CONSTANTS
  Readers,      \* browsers; each is also the author of POST requests
  QCap,         \* capacity of wsClient.send (256 in the code)
  OpenPage,     \* rows of the first page (MSG_PAGE, 200)
  CatchUpPage,  \* rows of a catch-up page (CATCHUP_PAGE, 1000)
  MaxGen,       \* bound: processes that serve the session
  MaxRows,      \* bound: rows of the timeline
  MaxPosts,     \* bound: POST requests
  MaxOpens,     \* bound: calls of openSession
  MaxTroubles   \* bound: connections lost, GETs that fail and restarts

ASSUME TimelineAssumption ==
  /\ QCap \in Nat \ {0} /\ OpenPage \in Nat \ {0} /\ CatchUpPage \in Nat \ {0}
  /\ MaxGen \in Nat \ {0} /\ Readers \cap (1..MaxGen) = {}
  /\ MaxRows \in Nat /\ MaxPosts \in Nat
  /\ MaxOpens \in Nat /\ MaxTroubles \in Nat

Gens    == 1..MaxGen
Writers == Gens \cup Readers

VARIABLES
  \* --- the server
  last,      \* agent_messages of the session: rows 1..last
  mapped,    \* m.sessions[id]
  used,      \* liveSessions registered so far
  subs,      \* ls.subscribers
  swap,      \* restart: "no", "detached" (no session mapped), "registered"
  moved,     \* restart's local subs
  wpc,       \* next step of a writer
  wls,       \* its ls
  wseq,      \* its seq
  wto,       \* subscribers its broadcast has not reached yet
  \* --- the connection of a reader
  net,       \* the WebSocket is open
  frame,     \* a subscribe frame is on its way to the server
  sls,       \* ls of the Subscribe that handles it
  queue,     \* wsClient.send: rows pushed and not yet received
  \* --- AgentView.vue
  selected,  \* the session is open in the page (selectedId)
  listed,    \* the session is in AgentWS.subs
  view,      \* messages
  call,      \* the two GETs a page may have in flight
  \* --- history
  collided,  \* an INSERT failed: its seq was taken
  passedBy,  \* rows that had not reached a reader when a later one was sent, or that
             \* openSession has taken off the screen and not brought back
  owed,      \* rows stored while a reader was away, at its last reconnect
  raced,     \* a row entered the view before that catch-up was through
  \* --- spent bounds
  posts, opens, troubles

server  == <<last, mapped, used, subs, swap, moved>>
writers == <<wpc, wls, wseq, wto>>
wire    == <<net, frame, sls, queue>>
page    == <<selected, listed, view, call>>
history == <<collided, passedBy, owed, raced>>
bounds  == <<posts, opens, troubles>>
vars    == <<server, writers, wire, page, history, bounds>>

Trouble == troubles < MaxTroubles /\ troubles' = troubles + 1

\* openSession and catchUp each have at most one GET in flight.
Kinds  == {"open", "catchUp"}
NoCall == [step |-> "no", after |-> 0, from |-> 1, to |-> 0]
Asked(after) == [step |-> "asked", after |-> after, from |-> 1, to |-> 0]

\* The session runs, pages are closed, nothing is connected.
Init ==
  /\ last = 0 /\ mapped = 1 /\ used = 1 /\ swap = "no" /\ moved = {}
  /\ subs = [g \in Gens |-> {}]
  /\ wpc = [w \in Writers |-> "free"]
  /\ wls = [w \in Writers |-> IF w \in Gens THEN w ELSE 0]
  /\ wseq = [w \in Writers |-> 0] /\ wto = [w \in Writers |-> {}]
  /\ net = [r \in Readers |-> FALSE] /\ frame = [r \in Readers |-> FALSE]
  /\ sls = [r \in Readers |-> 0] /\ queue = [r \in Readers |-> <<>>]
  /\ selected = [r \in Readers |-> FALSE] /\ listed = [r \in Readers |-> FALSE]
  /\ view = [r \in Readers |-> <<>>]
  /\ call = [r \in Readers |-> [k \in Kinds |-> NoCall]]
  /\ collided = FALSE
  /\ passedBy = [r \in Readers |-> {}] /\ owed = [r \in Readers |-> {}]
  /\ raced = [r \in Readers |-> FALSE]
  /\ posts = 0 /\ opens = 0 /\ troubles = 0

Elements(s) == {s[i] : i \in DOMAIN s}
Lower(a, b) == IF a < b THEN a ELSE b
Upper(a, b) == IF a < b THEN b ELSE a
RowsFromTo(a, b) == [i \in 1..Upper(0, b + 1 - a) |-> a + i - 1]

(***************************************************************************)
(* The writers: append under ls.wmu, then broadcast.                       *)
(***************************************************************************)
\* A request has looked up its ls.
PostGet(r) ==
  /\ wpc[r] = "free" /\ mapped # 0 /\ posts < MaxPosts
  /\ posts' = posts + 1
  /\ wpc' = [wpc EXCEPT ![r] = "append"]
  /\ wls' = [wls EXCEPT ![r] = mapped]
  /\ UNCHANGED <<server, wseq, wto, wire, page, history, opens, troubles>>

\* ls.wmu is free; the operator before it is a Manager without wmu.
NeverLocked(g) == TRUE
Unlocked(g) == \A w \in Writers : wls[w] = g => wpc[w] # "insert"

\* wmu taken, SELECT MAX(seq)+1.
PickSeq(w, g) ==
  /\ Unlocked(g) /\ last < MaxRows
  /\ wpc' = [wpc EXCEPT ![w] = "insert"]
  /\ wls' = [wls EXCEPT ![w] = g]
  /\ wseq' = [wseq EXCEPT ![w] = last + 1]
  /\ UNCHANGED <<server, wto, wire, page, history, bounds>>

\* The driver of g has an event, which its pump stores; or a request does.
PumpAppend(g) == wpc[g] = "free" /\ g <= used /\ PickSeq(g, g)
PostAppend(r) == wpc[r] = "append" /\ PickSeq(r, wls[r])

\* INSERT; wmu released.
Insert(w) ==
  /\ wpc[w] = "insert" /\ wseq[w] = last + 1
  /\ last' = wseq[w]
  /\ wpc' = [wpc EXCEPT ![w] = "broadcast"]
  /\ UNCHANGED <<mapped, used, subs, swap, moved, wls, wseq, wto, wire, page,
                 history, bounds>>

\* The seq is taken by now: pump goes on without the event, Send fails, and
\* Approve and Answer say nothing.
InsertFails(w) ==
  /\ wpc[w] = "insert" /\ wseq[w] <= last
  /\ wpc' = [wpc EXCEPT ![w] = "free"]
  /\ wseq' = [wseq EXCEPT ![w] = 0]
  /\ collided' = TRUE
  /\ UNCHANGED <<server, wls, wto, wire, page, passedBy, owed, raced, bounds>>

\* A broadcast that has reached everybody in rest is through: pump takes its
\* next event, a handler answers.
After(w, rest) ==
  IF rest # {} THEN "send" ELSE IF w \in Readers THEN "answer" ELSE "free"

\* A local that is dead once the writer is free.
Forget(steps) == [w \in Writers |-> IF steps[w] = "free" THEN 0 ELSE wseq[w]]

\* broadcast: the subscribers are copied under ls.mu.
Broadcast(w) ==
  /\ wpc[w] = "broadcast"
  /\ wpc' = [wpc EXCEPT ![w] = After(w, subs[wls[w]])]
  /\ wto' = [wto EXCEPT ![w] = subs[wls[w]]]
  /\ wseq' = Forget(wpc')
  /\ UNCHANGED <<server, wls, wire, page, history, bounds>>

\* wsClient.SendEvent: a frame that finds the queue full is dropped.
Push(q, seq) == IF Len(q) < QCap THEN Append(q, seq) ELSE q

\* Rows below seq that reader r has neither in the view nor on their way.
NotYetAt(r, seq) == (1..(seq - 1)) \ (Elements(view[r]) \cup Elements(queue[r]))

Deliver(w, r) ==
  /\ wpc[w] = "send" /\ r \in wto[w]
  /\ queue' = [queue EXCEPT ![r] = Push(@, wseq[w])]
  /\ wto' = [wto EXCEPT ![w] = @ \ {r}]
  /\ wpc' = [wpc EXCEPT ![w] = After(w, wto[w] \ {r})]
  /\ wseq' = Forget(wpc')
  /\ passedBy' = IF Len(queue[r]) < QCap
                 THEN [passedBy EXCEPT ![r] = @ \cup NotYetAt(r, wseq[w])]
                 ELSE passedBy
  /\ UNCHANGED <<server, wls, net, frame, sls, page, collided,
                 owed, raced, bounds>>

Write(w) ==
  \/ Insert(w) \/ InsertFails(w) \/ Broadcast(w)
  \/ \E r \in Readers : Deliver(w, r)

(***************************************************************************)
(* Restart of the process with new settings (Manager.restart).             *)
(***************************************************************************)
Detach ==
  /\ swap = "no" /\ mapped # 0 /\ used < MaxGen /\ Trouble
  /\ swap' = "detached" /\ mapped' = 0
  /\ moved' = subs[mapped] /\ subs' = [subs EXCEPT ![mapped] = {}]
  /\ UNCHANGED <<last, used, writers, wire, page, history, posts, opens>>

Register ==
  /\ swap = "detached"
  /\ swap' = "registered" /\ used' = used + 1 /\ mapped' = used + 1
  /\ UNCHANGED <<last, subs, moved, writers, wire, page, history, bounds>>

Attach ==
  /\ swap = "registered"
  /\ swap' = "no" /\ subs' = [subs EXCEPT ![used] = @ \cup moved]
  /\ moved' = {}
  /\ UNCHANGED <<last, mapped, used, writers, wire, page, history, bounds>>

Restart == Detach \/ Register \/ Attach

(***************************************************************************)
(* A connection: opened, lost, subscribed.  What is left of an old         *)
(* connection (its queue, its places among subscribers) reaches nobody.    *)
(***************************************************************************)
MaxSeq(r) == IF view[r] = <<>> THEN 0 ELSE view[r][Len(view[r])]

\* A row enters the view outside of the catch-up.
Race(r) == raced' = [raced EXCEPT ![r] = @ \/ call[r]["catchUp"].step # "no"]

Ask(r, kind) ==
  call' = [call EXCEPT ![r][kind] =
             Asked(IF kind = "open" THEN 0 ELSE MaxSeq(r))]

\* onopen: subscribe again, then the view starts a catch-up.
Connect(r) ==
  /\ ~net[r] /\ call[r]["catchUp"].step = "no"
  /\ net' = [net EXCEPT ![r] = TRUE]
  /\ frame' = [frame EXCEPT ![r] = listed[r]]
  /\ IF selected[r] THEN Ask(r, "catchUp") ELSE UNCHANGED call
  /\ owed' = [owed EXCEPT ![r] = IF view[r] = <<>> THEN {} ELSE (MaxSeq(r) + 1)..last]
  /\ raced' = [raced EXCEPT ![r] = FALSE]
  /\ UNCHANGED <<server, writers, sls, queue, selected, listed, view, collided,
                 passedBy, bounds>>

Break(r) ==
  /\ net[r] /\ Trouble
  /\ net' = [net EXCEPT ![r] = FALSE] /\ frame' = [frame EXCEPT ![r] = FALSE]
  /\ sls' = [sls EXCEPT ![r] = 0] /\ queue' = [queue EXCEPT ![r] = <<>>]
  /\ subs' = [g \in Gens |-> subs[g] \ {r}] /\ moved' = moved \ {r}
  /\ wto' = [w \in Writers |-> wto[w] \ {r}]
  /\ wpc' = [w \in Writers |-> IF wpc[w] = "send" THEN After(w, wto[w] \ {r})
                                                   ELSE wpc[w]]
  /\ wseq' = Forget(wpc')
  /\ UNCHANGED <<last, mapped, used, swap, wls, page, history,
                 posts, opens>>

\* Subscribe looks up the session; none (exit is sent) in the middle of a
\* restart.
SubscribeGet(r) ==
  /\ frame[r] /\ sls[r] = 0
  /\ frame' = [frame EXCEPT ![r] = FALSE]
  /\ sls' = [sls EXCEPT ![r] = mapped]
  /\ UNCHANGED <<server, writers, net, queue, page, history, bounds>>

SubscribeAdd(r) ==
  /\ sls[r] # 0
  /\ subs' = [subs EXCEPT ![sls[r]] = @ \cup {r}]
  /\ sls' = [sls EXCEPT ![r] = 0]
  /\ UNCHANGED <<last, mapped, used, swap, moved, writers, net, frame, queue,
                 page, history, bounds>>

Connection(r) == Connect(r) \/ Break(r) \/ SubscribeGet(r) \/ SubscribeAdd(r)

(***************************************************************************)
(* The view.                                                               *)
(***************************************************************************)
\* A row the page is handed: kept when it is later than all it has.  The
\* operator before it forgets the comparison.
KeepAlways(s, seq) == Append(s, seq)
Keep(s, seq) ==
  IF s = <<>> \/ seq > s[Len(s)] THEN Append(s, seq) ELSE s

Show(r, seq) ==
  IF selected[r] THEN view' = [view EXCEPT ![r] = Keep(@, seq)] /\ Race(r)
                 ELSE UNCHANGED <<view, raced>>

\* A push arrives.
Receive(r) ==
  /\ queue[r] # <<>>
  /\ queue' = [queue EXCEPT ![r] = Tail(@)]
  /\ Show(r, Head(queue[r]))
  /\ UNCHANGED <<server, writers, net, frame, sls, selected, listed, call,
                 collided, passedBy, owed, bounds>>

\* POST answers; that of Send carries the row, those of Approve and Answer
\* do not.
PostAnswer(r, carries) ==
  /\ wpc[r] = "answer"
  /\ wpc' = [wpc EXCEPT ![r] = "free"]
  /\ wls' = [wls EXCEPT ![r] = 0] /\ wseq' = [wseq EXCEPT ![r] = 0]
  /\ IF carries /\ selected[r]
     THEN /\ Show(r, wseq[r])
          /\ passedBy' = [passedBy EXCEPT ![r] =
                            @ \cup ((1..(wseq[r] - 1)) \ Elements(view[r]))]
     ELSE UNCHANGED <<view, raced, passedBy>>
  /\ UNCHANGED <<server, wto, wire, selected, listed, call, collided, owed,
                 bounds>>

\* openSession up to its first await; the click may be on the open session.
OpenSession(r) ==
  /\ opens < MaxOpens /\ call[r]["open"].step = "no"
  /\ opens' = opens + 1
  /\ selected' = [selected EXCEPT ![r] = TRUE]
  /\ view' = [view EXCEPT ![r] = <<>>]
  /\ Ask(r, "open")
  /\ passedBy' = [passedBy EXCEPT ![r] = @ \cup 1..MaxSeq(r)]
  /\ owed' = [owed EXCEPT ![r] = {}]
  /\ UNCHANGED <<server, writers, wire, listed, collided, raced, posts, troubles>>

\* The queries of Handlers.Messages as intervals of rows: MessagesTail, and
\* Messages (seq > after, in ascending order).  The operator before it takes the
\* newest rows above after.
MessagesTail(size) == [from |-> Upper(1, last + 1 - size), to |-> last]
NewestAbove(after, size) == [from |-> Upper(after + 1, last + 1 - size), to |-> last]
Messages(after, size) == [from |-> after + 1, to |-> Lower(last, after + size)]

\* afterSeq 0 is not sent and asks for the latest page.
Read(r, kind) ==
  LET c    == call[r][kind]
      size == IF kind = "open" THEN OpenPage ELSE CatchUpPage
      got  == IF c.after = 0 THEN MessagesTail(size) ELSE Messages(c.after, size)
  IN /\ c.step = "asked"
     /\ call' = [call EXCEPT ![r][kind] =
          [step |-> "answered", after |-> c.after, from |-> got.from, to |-> got.to]]
     /\ UNCHANGED <<server, writers, wire, selected, listed, view, history, bounds>>

\* openSession goes on with the page of rows, which replaces what the view
\* holds, and asks for the queued messages.
OpenApply(r) ==
  LET c == call[r]["open"]
      page_rows == RowsFromTo(c.from, c.to)
  IN /\ c.step = "answered"
     /\ call' = [call EXCEPT ![r]["open"] = [NoCall EXCEPT !.step = "shown"]]
     /\ view' = [view EXCEPT ![r] = page_rows]
     /\ passedBy' = [passedBy EXCEPT ![r] =
                       (@ \cup 1..MaxSeq(r)) \ Elements(page_rows)]
     /\ owed' = [owed EXCEPT ![r] = {}] /\ Race(r)
     /\ UNCHANGED <<server, writers, wire, selected, listed, collided, bounds>>

\* ws.subscribe: the session is listed; the frame leaves if the socket is open.
WsSubscribe(r) ==
  /\ call' = [call EXCEPT ![r]["open"] = NoCall]
  /\ listed' = [listed EXCEPT ![r] = TRUE]
  /\ frame' = [frame EXCEPT ![r] = @ \/ net[r]]
  /\ UNCHANGED <<server, writers, net, sls, queue, selected, view, history,
                 posts, opens>>

\* The queue is answered (or fails), or the GET of the rows has failed: in each
\* case the page subscribes.
OpenSubscribe(r) ==
  call[r]["open"].step = "shown" /\ WsSubscribe(r) /\ UNCHANGED troubles
OpenFails(r) ==
  call[r]["open"].step = "asked" /\ Trouble /\ WsSubscribe(r)

\* One page of a catch-up; a full one that brought news is not the last.  The
\* operator before it is a catch-up of a single page.
NeverAgain(c, top) == FALSE
Again(c, top) == c.to + 1 - c.from >= CatchUpPage /\ top > c.after

CatchUpApply(r) ==
  LET c   == call[r]["catchUp"]
      new == view[r] \o RowsFromTo(Upper(c.from, MaxSeq(r) + 1), c.to)
      top == IF new = <<>> THEN 0 ELSE new[Len(new)]
  IN /\ c.step = "answered"
     /\ view' = [view EXCEPT ![r] = new]
     /\ call' = [call EXCEPT ![r]["catchUp"] =
                   IF Again(c, top)
                   THEN Asked(top)
                   ELSE NoCall]
     /\ passedBy' = [passedBy EXCEPT ![r] =
                       IF c.after = 0 THEN @ \cup (MaxSeq(r) + 1)..(c.from - 1) ELSE @]
     /\ UNCHANGED <<server, writers, wire, selected, listed, collided, owed,
                    raced, bounds>>

\* A GET of the catch-up fails; the next reconnect tries again.
CatchUpFails(r) ==
  /\ call[r]["catchUp"].step # "no" /\ Trouble
  /\ call' = [call EXCEPT ![r]["catchUp"] = NoCall]
  /\ owed' = [owed EXCEPT ![r] = {}]
  /\ UNCHANGED <<server, writers, wire, selected, listed, view, collided,
                 passedBy, raced, posts, opens>>

Page(r) ==
  \/ Receive(r) \/ \E carries \in BOOLEAN : PostAnswer(r, carries)
  \/ OpenSession(r) \/ OpenApply(r) \/ OpenSubscribe(r) \/ OpenFails(r)
  \/ CatchUpApply(r) \/ CatchUpFails(r)
  \/ \E kind \in Kinds : Read(r, kind)

Next ==
  \/ \E g \in Gens : PumpAppend(g)
  \/ \E w \in Writers : Write(w)
  \/ Restart
  \/ \E r \in Readers : PostGet(r) \/ PostAppend(r) \/ Connection(r) \/ Page(r)

Spec == Init /\ [][Next]_vars

(***************************************************************************)
(* Properties.                                                             *)
(***************************************************************************)
Rows == 1..MaxRows
Steps == {"free", "append", "insert", "broadcast", "send", "answer"}
Calls == [step : {"no", "asked", "answered", "shown"}, after : 0..MaxRows,
          from : 1..(MaxRows + 1), to : 0..MaxRows]

ServerOK ==
  /\ last \in 0..MaxRows /\ mapped \in 0..MaxGen /\ used \in Gens
  /\ subs \in [Gens -> SUBSET Readers] /\ moved \in SUBSET Readers
  /\ swap \in {"no", "detached", "registered"}
WritersOK ==
  /\ wpc \in [Writers -> Steps] /\ wls \in [Writers -> 0..MaxGen]
  /\ wseq \in [Writers -> 0..MaxRows] /\ wto \in [Writers -> SUBSET Readers]
WireOK ==
  /\ net \in [Readers -> BOOLEAN] /\ frame \in [Readers -> BOOLEAN]
  /\ sls \in [Readers -> 0..MaxGen] /\ queue \in [Readers -> Seq(Rows)]
PageOK ==
  /\ selected \in [Readers -> BOOLEAN] /\ listed \in [Readers -> BOOLEAN]
  /\ view \in [Readers -> Seq(Rows)] /\ call \in [Readers -> [Kinds -> Calls]]
HistoryOK ==
  /\ collided \in BOOLEAN /\ passedBy \in [Readers -> SUBSET Rows]
  /\ owed \in [Readers -> SUBSET Rows] /\ raced \in [Readers -> BOOLEAN]
BoundsOK ==
  /\ posts \in 0..MaxPosts /\ opens \in 0..MaxOpens
  /\ troubles \in 0..MaxTroubles

TypeOK == ServerOK /\ WritersOK /\ WireOK /\ PageOK /\ HistoryOK /\ BoundsOK

\* Pushes, answers, pages of history and catch-ups overlap in every order; the
\* timeline on the screen shows rows that are stored, each once, in the order
\* they were stored (AgentView.vue: the comparisons with maxSeq).
ViewIsTimeline ==
  \A r \in Readers :
    /\ Elements(view[r]) \subseteq 1..last
    /\ \A i, j \in DOMAIN view[r] : i < j => view[r][i] < view[r][j]

\* While one liveSession serves the session, pump and the handlers never take
\* the same seq: an event is lost to a collision only after a restart, when
\* the old pump still writes under another wmu (Manager.append, liveSession.wmu).
CollisionNeedsRestart == collided => used > 1

\* A row is missing between two rows of the screen only if it had not reached
\* the page when a later row was pushed or answered, if openSession took it off
\* the screen and its page does not have it, or if a catch-up asked for by an
\* empty view skipped it (the latest page is all it gets): later catch-ups and
\* the dropping of known rows open no hole.
HolesExplained ==
  \A r \in Readers : view[r] # <<>> =>
    (view[r][1]..MaxSeq(r)) \ Elements(view[r]) \subseteq passedBy[r]

\* A catch-up that ends before another row enters the view has found every row
\* stored while the page was away, however many pages they fill (catchUp).
CaughtUp(r) == call[r]["catchUp"].step = "no" => owed[r] \subseteq Elements(view[r])
CatchUpComplete == \A r \in Readers : raced[r] \/ CaughtUp(r)
=============================================================================
