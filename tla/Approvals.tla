----------------------------- MODULE Approvals -----------------------------
(***************************************************************************)
(* internal/agent/claude.go, codex.go, pi.go and manager.go: how a request *)
(* of a CLI for a permission, or a question of it, is put to the users and *)
(* answered.  One process from its start to its exit, and the timeline     *)
(* rows of its requests until a new process has taken over.                *)
(*                                                                         *)
(* Every request is served by a goroutine (waiter) that registers it,      *)
(* emits its card, waits on a channel of capacity one and writes the reply *)
(* to the CLI; only a permission of pi needs none: whoever answers it      *)
(* writes the reply.  Users answer cards, or change the mode so that       *)
(* everything is allowed; the process may end at any time.  One step is    *)
(* one critical section of d.mu, evMu or wmu.                              *)
(***************************************************************************)
EXTENDS Naturals, Sequences, FiniteSets

CONSTANTS
  Requests,  \* ids of the requests the CLI may make
  Callers,   \* HTTP requests (Approve, Answer, Settings) under way at once
  EventCap,  \* capacity of d.events (128 in the code)
  MaxCalls   \* bound: HTTP requests

VARIABLES
  cli,        \* the driver: "claude", "codex" or "pi"
  asked,      \* what the CLI asks by a request: "perm", a permission (all of
              \* them have one rule key), "ask", a question to the user, or
              \* "blank", a question without a question or an option
  up,         \* d.stdin # nil: waitExit has not taken the lock
  open,       \* ~d.evClosed
  autoAllow,  \* d.autoAllow (claude, pi)
  rule,       \* d.sessionRules has the key of Perms (claude)
  pending,    \* keys of d.pending (claude), d.approvals and d.userInputs
              \* (codex), d.approvals and d.asks (pi)
  asks,       \* keys of d.asks (claude)
  decision,   \* what is in the channel of a request, or in its goroutine's hands
  waiter,     \* next step of the goroutine of a request; "card" if it has none
  told,       \* the reply the CLI has read
  events,     \* d.events: cards on their way to the pump
  rows,       \* rows of the timeline: cards and results
  mapped,     \* m.sessions has "this" process, "none" or the "next" one
  stale,      \* ls.stale
  superseded, \* ls.superseded
  closing,    \* requests reconcilePending has still to close
  reconciled, \* ghost: it has read the timeline
  late,       \* ghost: cards the old pump stored after that
  call,       \* what an HTTP request is doing
  calls       \* bound

procVars == <<cli, asked, up, open, autoAllow, rule, pending, asks, decision, waiter, told, events>>
sessVars == <<mapped, stale, superseded, closing, reconciled, late>>
approvalVars == <<procVars, sessVars, rows, call, calls>>

Idle == [step |-> "idle", req |-> "none", verdict |-> "none", by |-> "user", todo |-> {}]

ApprovalInit ==
  /\ cli \in {"claude", "codex", "pi"}
  /\ asked \in [Requests -> {"perm", "ask", "blank"}]
  /\ up = TRUE /\ open = TRUE /\ autoAllow = FALSE /\ rule = FALSE
  /\ pending = {} /\ asks = {}
  /\ decision = [r \in Requests |-> "none"] /\ waiter = [r \in Requests |-> "new"]
  /\ told = [r \in Requests |-> "none"]
  /\ events = <<>> /\ rows = {} /\ mapped = "this"
  /\ stale = FALSE /\ superseded = FALSE
  /\ closing = {} /\ reconciled = FALSE /\ late = {}
  /\ call = [c \in Callers |-> Idle] /\ calls = 0

Perms == {r \in Requests : asked[r] = "perm"}
Asks == {r \in Requests : asked[r] = "ask"}

\* Rows.  A result closes a card only if it is of the card's kind.
Card(r) == [kind |-> "card", req |-> r, verdict |-> "none"]
Result(kind, r, v) == [kind |-> kind, req |-> r, verdict |-> v]
ResultKind(r) == IF r \in Asks THEN "answer" ELSE "approve"
Results(r) == {w \in rows : w.kind = ResultKind(r) /\ w.req = r}
OpenCards == {r \in Requests : Card(r) \in rows /\ Results(r) = {}}
-----------------------------------------------------------------------------
(***************************************************************************)
(* The goroutine of a request.                                             *)
(***************************************************************************)
KeepCard == UNCHANGED <<cli, asked, up, open, autoAllow, rule, told, events, sessVars, rows, call, calls>>
Registers(r) ==
  /\ pending' = pending \cup {r}
  /\ waiter' = [waiter EXCEPT ![r] = "emit"]
  /\ UNCHANGED decision
AnswersAtOnce(r, v) ==
  /\ decision' = [decision EXCEPT ![r] = v]
  /\ waiter' = [waiter EXCEPT ![r] = "reply"]
  /\ UNCHANGED pending
GivesUp(r) == waiter' = [waiter EXCEPT ![r] = "done"] /\ UNCHANGED <<pending, decision>>

\* A line of the CLI starts a goroutine; the reader of pi serves its requests
\* itself, one after the other.
InTurn == cli = "pi" => \A q \in Requests : waiter[q] # "emit"
Served(r) == waiter[r] = "new" /\ InTurn

\* handleCanUseTool: a mode or a rule allows at once, without a card.  It does
\* not look whether the process still lives.
AllowedAtOnce(r) == autoAllow \/ rule
ClaudePerm(r) ==
  /\ cli = "claude" /\ r \in Perms /\ Served(r)
  /\ IF AllowedAtOnce(r) THEN AnswersAtOnce(r, "allow") ELSE Registers(r)
  /\ UNCHANGED asks /\ KeepCard

\* handleApproval: the reply for a process that is gone is not written.
CodexPerm(r) ==
  /\ cli = "codex" /\ r \in Perms /\ Served(r)
  /\ IF up THEN Registers(r) ELSE GivesUp(r)
  /\ UNCHANGED asks /\ KeepCard

\* handleExtensionUi for a select of the gate.
PiPerm(r) ==
  /\ cli = "pi" /\ r \in Perms /\ Served(r)
  /\ CASE ~up -> GivesUp(r)
       [] up /\ autoAllow -> AnswersAtOnce(r, "allow")
       [] OTHER -> Registers(r)
  /\ UNCHANGED asks /\ KeepCard

\* handleAskUser: what has no question or no option is taken for a permission,
\* and nothing is asked for a process that is gone.
MayAsk == up
ClaudeAsk(r) ==
  /\ cli = "claude" /\ r \notin Perms /\ Served(r)
  /\ IF MayAsk THEN Registers(r) ELSE GivesUp(r)
  /\ asks' = IF MayAsk /\ r \in Asks THEN asks \cup {r} ELSE asks
  /\ KeepCard

\* handleUserInput: what has no question is refused at once.
CodexAsk(r) ==
  /\ cli = "codex" /\ r \notin Perms /\ Served(r)
  /\ CASE r \notin Asks -> AnswersAtOnce(r, "deny")
       [] r \in Asks /\ up -> Registers(r)
       [] OTHER -> GivesUp(r)
  /\ UNCHANGED asks /\ KeepCard

\* handleExtensionUi for a dialogue; a select without options is cancelled.
\* pi gives the ids of open dialogues once.
PiAsk(r) ==
  /\ cli = "pi" /\ r \notin Perms /\ Served(r)
  /\ CASE r \notin Asks -> AnswersAtOnce(r, "deny")
       [] r \in Asks /\ up -> Registers(r)
       [] OTHER -> GivesUp(r)
  /\ UNCHANGED asks /\ KeepCard

\* emit: a closed or full channel swallows the card.
NobodyWaits(r) == cli = "pi" /\ r \in Perms
Emits(r) == IF open /\ Len(events) < EventCap THEN Append(events, r) ELSE events
EmitCard(r) ==
  /\ waiter[r] = "emit"
  /\ events' = Emits(r)
  /\ waiter' = [waiter EXCEPT ![r] = IF NobodyWaits(r) THEN "card" ELSE "wait"]
  /\ UNCHANGED <<cli, asked, up, open, autoAllow, rule, pending, asks, decision, told, sessVars, rows, call, calls>>

\* The goroutine has received; a question of claude that waitExit has cleared
\* gets no reply.
Receive(r) ==
  /\ waiter[r] = "wait" /\ decision[r] # "none"
  /\ asks' = asks \ {r}
  /\ IF cli = "claude" /\ r \in Asks \ asks
     THEN /\ waiter' = [waiter EXCEPT ![r] = "done"]
          /\ decision' = [decision EXCEPT ![r] = "none"]
     ELSE waiter' = [waiter EXCEPT ![r] = "reply"] /\ UNCHANGED decision
  /\ UNCHANGED <<cli, asked, up, open, autoAllow, rule, pending, told, events, sessVars, rows, call, calls>>

\* A question is answered with answers or not at all: an allow without them
\* is sent as a deny, and so is a cancelled one.
AnswerOf(r) == IF decision[r] = "answer" THEN "answer" ELSE "deny"
Reply(r) == IF r \in Asks THEN AnswerOf(r) ELSE decision[r]
\* respond, sendExtResponse: nothing is written once stdin is nil.
Reaches(r) == IF up THEN [told EXCEPT ![r] = Reply(r)] ELSE told
\* Whoever answers a permission of pi writes the reply, even before the card is out.
HasReply(r) == IF NobodyWaits(r) THEN decision[r] # "none" ELSE waiter[r] = "reply"
WriteReply(r) ==
  /\ HasReply(r)
  /\ waiter' = IF waiter[r] = "emit" THEN waiter ELSE [waiter EXCEPT ![r] = "done"]
  /\ told' = Reaches(r)
  /\ decision' = [decision EXCEPT ![r] = "none"]
  /\ UNCHANGED <<cli, asked, up, open, autoAllow, rule, pending, asks, events, sessVars, rows, call, calls>>
-----------------------------------------------------------------------------
(***************************************************************************)
(* The end of the process.                                                 *)
(***************************************************************************)
\* waitExit under d.mu: whoever waits is woken with a refusal.
NobodyWoken == decision
Woken == [r \in Requests |-> IF r \in pending /\ ~NobodyWaits(r) /\ decision[r] = "none"
                             THEN "deny" ELSE decision[r]]
Exit ==
  /\ up
  /\ up' = FALSE
  /\ decision' = Woken
  /\ pending' = {} /\ asks' = {}
  /\ UNCHANGED <<cli, asked, open, autoAllow, rule, waiter, told, events, sessVars, rows, call, calls>>

CloseEvents ==
  /\ ~up /\ open
  /\ open' = FALSE
  /\ UNCHANGED <<cli, asked, up, autoAllow, rule, pending, asks, decision, waiter, told, events, sessVars, rows, call, calls>>

\* The pump stores a card, at whatever time it comes to it.
Pump ==
  /\ events # <<>>
  /\ events' = Tail(events)
  /\ rows' = rows \cup {Card(Head(events))}
  /\ late' = IF reconciled THEN late \cup {Head(events)} ELSE late
  /\ UNCHANGED <<cli, asked, up, open, autoAllow, rule, pending, asks, decision, waiter, told,
                 mapped, stale, superseded, closing, reconciled, call, calls>>

PumpEnds ==
  /\ ~open /\ events = <<>> /\ mapped = "this" /\ ~superseded
  /\ mapped' = "none" /\ stale' = FALSE
  /\ UNCHANGED <<procVars, superseded, closing, reconciled, late, rows, call, calls>>
-----------------------------------------------------------------------------
(***************************************************************************)
(* HTTP requests.  The liveSession is looked up before the driver is       *)
(* asked, and the result row is appended after it.                         *)
(***************************************************************************)
Start(c, do) ==
  /\ call[c] = Idle /\ mapped = "this" /\ calls < MaxCalls
  /\ calls' = calls + 1
  /\ call' = [call EXCEPT ![c] = do]

\* Approve and Answer: of a card that some page shows, open or not.  Of a
\* permission the user says "allow", "deny" or "session" (allow for the rest
\* of the session), of a question "answer" or "deny" (cancel).
Verdicts(r) == IF r \in Asks THEN {"answer", "deny"} ELSE {"allow", "deny", "session"}
Decide(c, r, v) ==
  /\ Card(r) \in rows
  /\ Start(c, [Idle EXCEPT !.step = "resolve", !.req = r, !.verdict = v])
  /\ UNCHANGED <<procVars, sessVars, rows>>

\* Settings: SetSettings, ApplySettings, which asks for a restart (claude:
\* always; codex keeps the mode for its next turn, pi in autoAllow), and the
\* snapshot PendingRequests takes for a change to accept.
NeedsRestart == cli = "claude" \/ ~up
AllowsNow(accept) == IF cli = "claude" \/ (cli = "pi" /\ up) THEN accept ELSE autoAllow
OnlyPerms == pending \cap Perms
Listed == IF cli = "claude" THEN pending ELSE OnlyPerms
ChangeMode(c, accept) ==
  /\ Start(c, IF accept THEN [Idle EXCEPT !.step = "sweep", !.by = "sweep", !.todo = Listed] ELSE Idle)
  /\ autoAllow' = AllowsNow(accept)
  /\ stale' = (stale \/ NeedsRestart)
  /\ UNCHANGED <<cli, asked, up, open, rule, pending, asks, decision, waiter, told, events,
                 mapped, superseded, closing, reconciled, late, rows>>

\* Its loop: Approve looks the session up anew for each request.
Sweep(c) ==
  /\ call[c].step = "sweep"
  /\ \/ /\ call[c].todo = {} \/ mapped # "this"
        /\ call' = [call EXCEPT ![c] = Idle]
     \/ /\ mapped = "this"
        /\ \E r \in call[c].todo :
             call' = [call EXCEPT ![c].step = "resolve", ![c].req = r,
                                  ![c].verdict = "allow", ![c].todo = @ \ {r}]
  /\ UNCHANGED <<procVars, sessVars, rows, calls>>

\* An HTTP request, or one turn of the sweep, is over.
Next1(c) ==
  IF call[c].by = "sweep" THEN [call[c] EXCEPT !.step = "sweep", !.req = "none", !.verdict = "none"] ELSE Idle

\* Resolve and Answer: whoever takes the request out of the map answers it.
\* A rule for the session is kept by claude's driver; codex and pi keep theirs.
NotTaken(r) == pending
Taken(r) == pending \ {r}
Given(v) == IF v = "session" THEN "allow" ELSE v
KeepsRule(r, v) == v = "session" /\ r \in Perms /\ cli = "claude"
Resolve(c) ==
  /\ call[c].step = "resolve"
  /\ LET r == call[c].req  v == call[c].verdict IN
     IF r \in pending
     THEN /\ pending' = Taken(r)
          /\ decision' = [decision EXCEPT ![r] = Given(v)]
          /\ rule' = (rule \/ KeepsRule(r, v))
          /\ call' = [call EXCEPT ![c].step = "append"]
     ELSE /\ call' = [call EXCEPT ![c] = Next1(c)]
          /\ UNCHANGED <<pending, decision, rule>>
  /\ UNCHANGED <<cli, asked, up, open, autoAllow, asks, waiter, told, events, sessVars, rows, calls>>

\* The row of Approve, for a sweep also where the request is a question, or of
\* Answer.  Resolve of pi has written the reply before it returns.
RowOf(c) ==
  Result(IF call[c].by = "sweep" THEN "approve" ELSE ResultKind(call[c].req), call[c].req, Given(call[c].verdict))
AppendResult(c) ==
  /\ call[c].step = "append"
  /\ NobodyWaits(call[c].req) => decision[call[c].req] = "none"
  /\ rows' = rows \cup {RowOf(c)}
  /\ call' = [call EXCEPT ![c] = Next1(c)]
  /\ UNCHANGED <<procVars, sessVars, calls>>
-----------------------------------------------------------------------------
(***************************************************************************)
(* A new process.                                                          *)
(***************************************************************************)
\* restart: the next message unmaps and kills the process of a stale session;
\* the process goes when it goes.
Restart ==
  /\ mapped = "this" /\ stale
  /\ mapped' = "none" /\ superseded' = TRUE /\ stale' = FALSE
  /\ UNCHANGED <<procVars, closing, reconciled, late, rows, call, calls>>

\* register maps the new process, reconcilePending reads the timeline ...
ToClose == OpenCards
Register ==
  /\ mapped = "none"
  /\ mapped' = "next" /\ reconciled' = TRUE
  /\ closing' = ToClose
  /\ UNCHANGED <<procVars, stale, superseded, late, rows, call, calls>>

\* ... and closes one open card after the other.
CloseCard(r) ==
  /\ r \in closing
  /\ closing' = closing \ {r}
  /\ rows' = rows \cup {Result(ResultKind(r), r, "cancel")}
  /\ UNCHANGED <<procVars, mapped, stale, superseded, reconciled, late, call, calls>>
-----------------------------------------------------------------------------
ApprovalNext ==
  \/ \E r \in Requests : \/ ClaudePerm(r) \/ CodexPerm(r) \/ PiPerm(r)
                         \/ ClaudeAsk(r) \/ CodexAsk(r) \/ PiAsk(r) \/ EmitCard(r)
                         \/ Receive(r) \/ WriteReply(r) \/ CloseCard(r)
  \/ Exit \/ CloseEvents \/ Pump \/ PumpEnds \/ Restart \/ Register
  \/ \E c \in Callers : \/ \E r \in Requests : \E v \in Verdicts(r) : Decide(c, r, v)
                        \/ \E accept \in BOOLEAN : ChangeMode(c, accept)
                        \/ Sweep(c) \/ Resolve(c) \/ AppendResult(c)

ApprovalSpec == ApprovalInit /\ [][ApprovalNext]_approvalVars
-----------------------------------------------------------------------------
(***************************************************************************)
(* Properties.                                                             *)
(***************************************************************************)
UnderWay(r) == \E c \in Callers : call[c].req = r /\ call[c].step = "append"
\* Questions a change to accept has taken for permissions.
Swept == {r \in Asks : \E w \in rows : w.req = r /\ w.kind = "approve"}

\* What the timeline says of a card is what the CLI was told: one result, the
\* users' own, apart from a cancellation by the process that took over before
\* it was stored, and from swept questions (Resolve, Answer, waitExit and
\* reconcilePending race for a request; Approve appends after the fact).
RecordedAsTold ==
  \A r \in Requests :
    told[r] # "none" /\ Card(r) \in rows /\ ~UnderWay(r) /\ r \notin Swept =>
      {w.verdict : w \in {x \in Results(r) : x.verdict # "cancel" \/ ~reconciled}} = {told[r]}

\* A card that stands open can be answered: its request is pending, or its
\* answer is on its way, or the process is gone.  Once a new process has taken
\* over none is open but those the old pump stored after the timeline was read
\* (reconcilePending) and questions that were swept before.
OpenCardAnswerable ==
  /\ mapped = "this" /\ up =>
       \A r \in OpenCards : r \in pending \/ UnderWay(r) \/ r \in Swept
  /\ mapped = "next" => OpenCards \subseteq closing \cup late

\* Nobody waits for an answer that cannot come any more: the request is still
\* in the map, or its channel is filled.  After the process is gone only a
\* permission of claude that was registered after waitExit waits on (waitExit).
NoWaiterForgotten ==
  \A r \in Requests : waiter[r] \in {"emit", "wait"} /\ decision[r] = "none" =>
    NobodyWaits(r) \/ (r \in pending /\ (up \/ (cli = "claude" /\ r \in Perms)))

\* Both: whoever waits has a card to answer, and every open card somebody who
\* waits, or a process that closes it.
CardsAndWaitersAgree == OpenCardAnswerable /\ NoWaiterForgotten

(***************************************************************************)
(* What comments of the code say and the code does not keep.               *)
(***************************************************************************)
\* claude.go, handleCanUseTool: allowing everything does not stop questions,
\* which are put to the user and no permissions.  No question is settled by
\* anything but an answer.
OnlyUsersAnswerQuestions ==
  \A r \in Asks : told[r] # "none" /\ ~UnderWay(r) => Results(r) # {}
=============================================================================
