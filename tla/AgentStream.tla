---------------------------- MODULE AgentStream ----------------------------
(***************************************************************************)
(* The live stream of one liveSession (manager.go): pump adds the deltas   *)
(* of the driver to ls.partialText and sends them on under ls.mu, Subscribe*)
(* sends the text so far and registers under the same lock, and the page   *)
(* (web/src/views/AgentView.vue) puts its streamText together from what    *)
(* its connection brings.  A delta is its number; partialThink and         *)
(* streamThink are handled like partialText and streamText.                *)
(***************************************************************************)
EXTENDS Naturals, SequencesExt

CONSTANTS
  Browsers,           \* browsers
  StreamCap,          \* capacity of wsClient.send (256 in the code)
  MaxDeltas,          \* bound: deltas of the driver
  MaxEvents,          \* bound: events that are stored
  MaxStreamOpens,     \* bound: calls of openSession
  MaxStreamTroubles   \* bound: connections lost and events that are not stored

ASSUME StreamAssumption ==
  /\ StreamCap \in Nat \ {0} /\ MaxDeltas \in Nat /\ MaxEvents \in Nat
  /\ MaxStreamOpens \in Nat /\ MaxStreamTroubles \in Nat

VARIABLES
  \* --- the server
  count,     \* deltas so far
  partial,   \* ls.partialText
  turn,      \* ls.turnStartedAt is set
  told,      \* ls.subscribers
  stage,     \* next step of pump and of a request handler
  sent,      \* the stored event each broadcasts
  untold,    \* subscribers its broadcast has not reached yet
  \* --- the connection and the page of a reader
  online,    \* the WebSocket is open
  asking,    \* a subscribe frame is on its way to the server
  inbox,     \* wsClient.send: frames pushed and not yet received
  joined,    \* the session is in AgentWS.subs
  opening,   \* openSession waits for its GET
  catching,  \* catchUp waits for its GET
  text,      \* streamText
  \* --- history
  follows,   \* readers whose text is the end of the block
  \* --- spent bounds
  events, openings, losses

source == <<count, partial, turn, told>>
broadcasts == <<stage, sent, untold>>
link == <<online, asking, inbox>>
screen == <<joined, opening, catching, text>>
liveVars == <<source, broadcasts, link, screen, follows, events, openings, losses>>

Senders == {"pump", "handler"}

\* Stored events by what they do to the stream: a message that ends the block,
\* the idle status, and the events that come in the middle of a block (running
\* status, task_notification, api_error).
EventKinds == {"message", "idle", "running", "notice"}
None  == "none"

StreamInit ==
  /\ count = 0 /\ partial = <<>> /\ turn = FALSE /\ told = {}
  /\ stage = [w \in Senders |-> "free"] /\ sent = [w \in Senders |-> None]
  /\ untold = [w \in Senders |-> {}]
  /\ online = [r \in Browsers |-> FALSE] /\ asking = [r \in Browsers |-> FALSE]
  /\ inbox = [r \in Browsers |-> <<>>]
  /\ joined = [r \in Browsers |-> FALSE] /\ opening = [r \in Browsers |-> FALSE]
  /\ catching = [r \in Browsers |-> FALSE] /\ text = [r \in Browsers |-> <<>>]
  /\ follows = {}
  /\ events = 0 /\ openings = 0 /\ losses = 0

StreamTrouble == losses < MaxStreamTroubles /\ losses' = losses + 1

(***************************************************************************)
(* Frames.                                                                 *)
(***************************************************************************)
Delta(d)    == [kind |-> "delta", text |-> <<d>>]
Snapshot(s) == [kind |-> "stream_snapshot", text |-> s]
\* The status frame of Subscribe (no seq) when no turn runs, and when one does.
StatusFrame == [kind |-> IF turn THEN "running" ELSE "idle", text |-> <<>>]
Stored(kind) == [kind |-> kind, text |-> <<>>]

\* isStreamBoundary of the server, midStream of the page.
IsBoundary(kind) == kind \in {"message", "idle"}

\* wsClient.SendEvent, frame by frame: what finds the queue full is dropped.
Send(q, frames) == q \o SubSeq(frames, 1, IF Len(q) + Len(frames) <= StreamCap
                                          THEN Len(frames) ELSE StreamCap - Len(q))
AllSent(q, frames) == Len(q) + Len(frames) <= StreamCap

\* What the page makes of a frame (the message handler of AgentView.vue).
Applied(s, f) ==
  CASE f.kind = "delta"           -> s \o f.text
    [] f.kind = "stream_snapshot" -> f.text
    [] OTHER                      -> IF IsBoundary(f.kind) THEN <<>> ELSE s

\* The text the page will show once it has what its queue holds.
TextDue(s, q) ==
  LET due[n \in 0..Len(q)] == IF n = 0 THEN s ELSE Applied(due[n - 1], q[n])
  IN due[Len(q)]

(***************************************************************************)
(* pump and the handlers.                                                  *)
(***************************************************************************)
\* broadcastDelta: buffer and subscribers in one critical section.
PumpDelta ==
  /\ stage["pump"] = "free" /\ count < MaxDeltas
  /\ count' = count + 1 /\ partial' = Append(partial, count')
  /\ inbox' = [r \in Browsers |-> IF r \in told THEN Send(inbox[r], <<Delta(count')>>)
                                               ELSE inbox[r]]
  /\ follows' = {r \in follows : AllSent(inbox[r], <<Delta(count')>>)}
  /\ UNCHANGED <<turn, told, broadcasts, online, asking, screen, events, openings, losses>>

\* clearStream, for the events that end a block.
ClearStream(kind) == partial' = IF IsBoundary(kind) THEN <<>> ELSE partial

\* pump reads an event to store; one that ends a block clears the buffer.
PumpEvent(kind) ==
  /\ stage["pump"] = "free" /\ events < MaxEvents
  /\ events' = events + 1
  /\ stage' = [stage EXCEPT !["pump"] = IF kind \in {"idle", "running"} THEN "status"
                                                                    ELSE "append"]
  /\ sent' = [sent EXCEPT !["pump"] = kind]
  /\ ClearStream(kind)
  /\ UNCHANGED <<count, turn, told, untold, link, screen, follows, openings, losses>>

\* A status event sets or clears turnStartedAt before it is stored.
PumpStatus ==
  /\ stage["pump"] = "status"
  /\ stage' = [stage EXCEPT !["pump"] = "append"]
  /\ turn' = (sent["pump"] = "running")
  /\ UNCHANGED <<count, partial, told, sent, untold, link, screen, follows, events,
                 openings, losses>>

\* A request handler stores its message (user, permission_result,
\* ask_user_result); only the page takes it for the end of the block.
HandlerEvent ==
  /\ stage["handler"] = "free" /\ events < MaxEvents
  /\ events' = events + 1
  /\ stage' = [stage EXCEPT !["handler"] = "append"]
  /\ sent' = [sent EXCEPT !["handler"] = "message"]
  /\ UNCHANGED <<source, untold, link, screen, follows, openings, losses>>

\* A broadcast that has reached everybody in rest is through.
Through(w, rest) == stage' = [stage EXCEPT ![w] = IF rest = {} THEN "free" ELSE "send"]

\* The event is stored, and the subscribers are copied under ls.mu.
CopySubscribers(w) ==
  /\ stage[w] = "append"
  /\ untold' = [untold EXCEPT ![w] = told] /\ Through(w, told)
  /\ UNCHANGED <<source, sent, link, screen, follows, events, openings, losses>>

\* It is not stored (the database fails): nobody hears of it, and whoever
\* still has text of the ended block keeps it.
AppendFails(w) ==
  /\ stage[w] = "append" /\ StreamTrouble
  /\ stage' = [stage EXCEPT ![w] = "free"]
  /\ follows' = {r \in follows : IsSuffix(TextDue(text[r], inbox[r]), partial)}
  /\ UNCHANGED <<source, sent, untold, link, screen, events, openings>>

DeliverEvent(w, r) ==
  /\ stage[w] = "send" /\ r \in untold[w]
  /\ inbox' = [inbox EXCEPT ![r] = Send(@, <<Stored(sent[w])>>)]
  /\ follows' = IF AllSent(inbox[r], <<Stored(sent[w])>>) THEN follows ELSE follows \ {r}
  /\ untold' = [untold EXCEPT ![w] = @ \ {r}] /\ Through(w, untold[w] \ {r})
  /\ UNCHANGED <<source, sent, online, asking, screen, events, openings, losses>>

(***************************************************************************)
(* The connection.                                                         *)
(***************************************************************************)
\* onopen: subscribe again, then catch up.
OpenConnection(r) ==
  /\ ~online[r]
  /\ online' = [online EXCEPT ![r] = TRUE] /\ asking' = [asking EXCEPT ![r] = joined[r]]
  /\ catching' = [catching EXCEPT ![r] = joined[r] \/ opening[r]]
  /\ UNCHANGED <<source, broadcasts, inbox, joined, opening, text, follows, events,
                 openings, losses>>

\* The frames under way and the old connection's subscription are lost.
LoseConnection(r) ==
  /\ online[r] /\ StreamTrouble
  /\ online' = [online EXCEPT ![r] = FALSE] /\ asking' = [asking EXCEPT ![r] = FALSE]
  /\ inbox' = [inbox EXCEPT ![r] = <<>>] /\ told' = told \ {r}
  /\ untold' = [w \in Senders |-> untold[w] \ {r}]
  /\ stage' = [w \in Senders |-> IF stage[w] = "send" /\ untold[w] \subseteq {r}
                               THEN "free" ELSE stage[w]]
  /\ follows' = follows \ {r}
  /\ UNCHANGED <<count, partial, turn, sent, screen, events, openings>>

\* Subscribe under ls.mu: the status, and the text so far if there is any.
\* The operator before it is a Subscribe that sends the status only.
StatusOnly == <<StatusFrame>>
Greeting == IF partial = <<>> THEN <<StatusFrame>>
                              ELSE <<StatusFrame, Snapshot(partial)>>

Subscribe(r) ==
  /\ asking[r]
  /\ asking' = [asking EXCEPT ![r] = FALSE]
  /\ told' = told \cup {r}
  /\ inbox' = [inbox EXCEPT ![r] = Send(@, Greeting)]
  /\ follows' = IF AllSent(inbox[r], Greeting)
                   /\ (partial # <<>> \/ TextDue(text[r], inbox'[r]) = <<>>)
                THEN follows \cup {r}
                ELSE IF AllSent(inbox[r], Greeting) THEN follows ELSE follows \ {r}
  /\ UNCHANGED <<count, partial, turn, broadcasts, online, screen, events, openings, losses>>

(***************************************************************************)
(* The page.                                                               *)
(***************************************************************************)
ReceiveFrame(r) ==
  /\ inbox[r] # <<>>
  /\ inbox' = [inbox EXCEPT ![r] = Tail(@)]
  /\ text' = [text EXCEPT ![r] = Applied(@, Head(inbox[r]))]
  /\ UNCHANGED <<source, broadcasts, online, asking, joined, opening, catching,
                 follows, events, openings, losses>>

\* openSession up to its GET, and after it: subscribe.
OpenText(r) ==
  /\ ~opening[r] /\ openings < MaxStreamOpens
  /\ openings' = openings + 1
  /\ opening' = [opening EXCEPT ![r] = TRUE]
  /\ text' = [text EXCEPT ![r] = <<>>]
  /\ UNCHANGED <<source, broadcasts, link, joined, catching, follows, events, losses>>

Opened(r) ==
  /\ opening[r]
  /\ opening' = [opening EXCEPT ![r] = FALSE]
  /\ joined' = [joined EXCEPT ![r] = TRUE]
  /\ asking' = [asking EXCEPT ![r] = online[r]]
  /\ UNCHANGED <<source, broadcasts, online, inbox, catching, text, follows, events,
                 openings, losses>>

\* catchUp: rows it finds clear the text.  Which rows it finds is the business
\* of AgentTimeline: here it may find some or none.
CatchUpEnds(r, found) ==
  /\ catching[r]
  /\ catching' = [catching EXCEPT ![r] = FALSE]
  /\ text' = [text EXCEPT ![r] = IF found THEN <<>> ELSE @]
  /\ UNCHANGED <<source, broadcasts, link, joined, opening, follows, events,
                 openings, losses>>

PageStep(r) == ReceiveFrame(r) \/ OpenText(r) \/ Opened(r)
           \/ \E found \in BOOLEAN : CatchUpEnds(r, found)

StreamNext ==
  \/ PumpDelta \/ PumpStatus \/ HandlerEvent
  \/ \E kind \in EventKinds : PumpEvent(kind)
  \/ \E w \in Senders : CopySubscribers(w) \/ AppendFails(w) \/ \E r \in Browsers : DeliverEvent(w, r)
  \/ \E r \in Browsers : OpenConnection(r) \/ LoseConnection(r) \/ Subscribe(r) \/ PageStep(r)

StreamSpec == StreamInit /\ [][StreamNext]_liveVars

(***************************************************************************)
(* Properties.                                                             *)
(***************************************************************************)
\* broadcastDelta and Subscribe do not interleave ("neither missing nor twice",
\* manager.go:942): a page that was sent the text so far, or had no text left
\* from before, and lost no frame since, follows the block as LiveText promises.
Live == INSTANCE LiveText
          WITH Readers <- Browsers, block <- partial,
               seen  <- [r \in Browsers |-> IF r \in follows
                                           THEN TextDue(text[r], inbox[r]) ELSE <<>>]
FollowsLive == Live!Spec
=============================================================================
