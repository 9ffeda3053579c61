----------------------------- MODULE ToolCards -----------------------------
(***************************************************************************)
(* internal/agent/claude.go, codex.go and pi.go: how the reports of tool   *)
(* calls become cards.  A report names its call by an id; the tool's name, *)
(* the task a permission belongs to and the patch of an edit have to be    *)
(* found in tables the driver keeps of earlier reports.                    *)
(*                                                                         *)
(* Lines are read in the order the CLI writes them; only the permission    *)
(* requests of claude are handled by goroutines, which run when they run.  *)
(* One step is one line, or one critical section of such a goroutine.      *)
(***************************************************************************)
EXTENDS Naturals, Sequences, SequencesExt, FiniteSets

CONSTANTS
  Calls,      \* ids of tool calls
  Tasks,      \* ids of the calls that run subagents (claude)
  MaxBatch    \* bound: batches of edits (pi)

VARIABLES
  agent,      \* the driver: "claude", "codex" or "pi"
  home,       \* the task whose subagent makes a call, "main" if none (claude);
              \* "agent" for a call of an agent tool, else "plain" (codex)
  alike,      \* tool and input of a call: calls with the same cannot be told apart
  first,      \* what the CLI has reported of a call: "silent", "began", "ended"
  second,     \* the same by the second protocol (codex)
  asking,     \* the permission of a call: "no", "wanted", "claimed" or "given"
  shows,      \* what the page shows of a call, and where its permission is
  toolNames,  \* calls whose tool name is kept (toolNames, agentToolNames)
  sideUses,   \* calls of subagents whose permission may still come (claude)
  agentToolSeen, \* calls the second protocol has reported first (codex)
  piBatch,    \* edits that wait for the patch of their batch (pi)
  batch,      \* the batch pi is working at
  member,     \* the batch of an edit, 0 if none
  patched,    \* batches whose patch pi has sent
  mistaken    \* ghost: permissions that could not be told from another's

cardVars == <<agent, home, alike, first, second, asking, shows, toolNames, sideUses,
              agentToolSeen, piBatch, batch, member, patched, mistaken>>
claudeTables == <<toolNames, sideUses, asking, mistaken>>
codexTables == <<second, agentToolSeen>>
piTables == <<piBatch, batch, member, patched>>
given == <<agent, home, alike>>

NoCard == [state |-> "none", named |-> FALSE, diff |-> 0, perm |-> "none"]
Homes == Tasks \cup {"main"}

CardsInit ==
  /\ agent \in {"claude", "codex", "pi"}
  /\ home \in [Calls -> CASE agent = "claude" -> Homes [] agent = "codex" -> {"agent", "plain"} [] OTHER -> {"main"}]
  /\ alike \in [Calls -> IF agent = "claude" THEN {1, 2} ELSE {1}]
  /\ first = [c \in Calls |-> "silent"] /\ second = first
  /\ asking = [c \in Calls |-> "no"]
  /\ shows = [c \in Calls |-> NoCard]
  /\ toolNames = {} /\ sideUses = <<>> /\ agentToolSeen = {}
  /\ piBatch = {} /\ batch = 1 /\ member = [c \in Calls |-> 0] /\ patched = {}
  /\ mistaken = {}

Begins(c) == first[c] = "silent" /\ first' = [first EXCEPT ![c] = "began"]
Ends(c) == first[c] = "began" /\ first' = [first EXCEPT ![c] = "ended"]
\* The first event of a call makes the card, with the name it brings; each
\* later one replaces its state.
Show(c, named, state) ==
  [shows EXCEPT ![c].state = state, ![c].named = IF shows[c].state = "none" THEN named ELSE @]
-----------------------------------------------------------------------------
(***************************************************************************)
(* claude                                                                  *)
(***************************************************************************)
\* handleAssistant: a tool_use of the main agent.
ToolUse(c) ==
  /\ agent = "claude" /\ home[c] = "main" /\ Begins(c)
  /\ toolNames' = toolNames \cup {c}
  /\ shows' = Show(c, TRUE, "running")
  /\ UNCHANGED <<given, sideUses, asking, mistaken, codexTables, piTables>>

\* handleUserEcho: its tool_result.
ToolResult(c) ==
  /\ agent = "claude" /\ home[c] = "main" /\ Ends(c)
  /\ asking[c] # "claimed"
  /\ toolNames' = toolNames \ {c}
  /\ shows' = Show(c, c \in toolNames, "ended")
  /\ UNCHANGED <<given, sideUses, asking, mistaken, codexTables, piTables>>

\* handleSubagentTools: a tool_use is remembered until its permission claims
\* it or its result shows that it needed none.
SubagentUse(c) ==
  /\ agent = "claude" /\ home[c] # "main" /\ Begins(c)
  /\ sideUses' = Append(sideUses, c)
  /\ shows' = Show(c, TRUE, "running")
  /\ UNCHANGED <<given, toolNames, asking, mistaken, codexTables, piTables>>

Oldest(S) == CHOOSE i \in S : \A j \in S : i <= j
WithoutFirst(S) == IF S = {} THEN sideUses ELSE RemoveAt(sideUses, Oldest(S))
KeepUse(c) == sideUses
DropUse(c) == WithoutFirst({i \in DOMAIN sideUses : sideUses[i] = c})
SubagentResult(c) ==
  /\ agent = "claude" /\ home[c] # "main" /\ Ends(c)
  /\ asking[c] # "claimed"
  /\ sideUses' = DropUse(c)
  /\ shows' = Show(c, FALSE, "ended")
  /\ UNCHANGED <<given, toolNames, asking, mistaken, codexTables, piTables>>

\* A control_request starts a goroutine; the CLI waits for the answer, unless
\* it is interrupted: then the result may come first.
AskPermission(c) ==
  /\ agent = "claude" /\ first[c] = "began" /\ asking[c] = "no"
  /\ asking' = [asking EXCEPT ![c] = "wanted"]
  /\ UNCHANGED <<given, first, shows, toolNames, sideUses, mistaken, codexTables, piTables>>

\* claimSidechainUse: the oldest use with the same tool and input.
Claimable(c) == {i \in DOMAIN sideUses : alike[sideUses[i]] = alike[c]}
Others(c) == {d \in Calls \ {c} : alike[d] = alike[c] /\ (d \in mistaken \/ first[d] = "began")}
ClaimUse(c) ==
  LET S == Claimable(c) IN
  /\ agent = "claude" /\ asking[c] = "wanted"
  /\ asking' = [asking EXCEPT ![c] = "claimed"]
  /\ sideUses' = WithoutFirst(S)
  /\ shows' = [shows EXCEPT ![c].perm = IF S = {} THEN "main" ELSE home[sideUses[Oldest(S)]]]
  /\ mistaken' = IF Others(c) # {} \/ first[c] = "ended" THEN mistaken \cup {c} ELSE mistaken
  /\ UNCHANGED <<given, first, toolNames, codexTables, piTables>>

\* The user or a rule answers, and the CLI runs the tool or refuses.
Answered(c) ==
  /\ asking[c] = "claimed"
  /\ asking' = [asking EXCEPT ![c] = "given"]
  /\ UNCHANGED <<given, first, shows, toolNames, sideUses, mistaken, codexTables, piTables>>
-----------------------------------------------------------------------------
(***************************************************************************)
(* codex                                                                   *)
(***************************************************************************)
codexRest == <<given, sideUses, asking, mistaken, piTables>>

\* handleItem: commands, file changes, images, MCP tools.
ItemStarted(c) ==
  /\ agent = "codex" /\ home[c] = "plain" /\ Begins(c)
  /\ shows' = Show(c, TRUE, "running")
  /\ UNCHANGED <<codexRest, toolNames, codexTables>>
ItemCompleted(c) ==
  /\ agent = "codex" /\ home[c] = "plain" /\ Ends(c)
  /\ shows' = Show(c, FALSE, "ended")
  /\ UNCHANGED <<codexRest, toolNames, codexTables>>

\* handleItem: an agent tool, over the first protocol.
NotSeen(c) == agentToolSeen
CollabStarted(c) ==
  /\ agent = "codex" /\ home[c] = "agent" /\ Begins(c)
  /\ IF c \in agentToolSeen THEN UNCHANGED <<toolNames, shows>>
     ELSE toolNames' = toolNames \cup {c} /\ shows' = Show(c, TRUE, "running")
  /\ agentToolSeen' = NotSeen(c)
  /\ UNCHANGED <<codexRest, second>>

\* The name may be missing in the end, and the start may never have come.
CollabCompleted(c, named) ==
  /\ agent = "codex" /\ home[c] = "agent" /\ first[c] # "ended"
  /\ first' = [first EXCEPT ![c] = "ended"]
  /\ IF c \in agentToolSeen \/ ~(named \/ c \in toolNames) THEN UNCHANGED <<toolNames, shows>>
     ELSE toolNames' = toolNames \ {c} /\ shows' = Show(c, c \notin toolNames, "ended")
  /\ UNCHANGED <<codexRest, codexTables>>

\* handleRawAgentItem: the second protocol.  What has the shape of the first
\* is left to it.
IsV2(shape) == shape = "v2"
RawCall(c, shape) ==
  /\ agent = "codex" /\ home[c] = "agent" /\ second[c] = "silent"
  /\ second' = [second EXCEPT ![c] = "began"]
  /\ IF c \in agentToolSeen \/ ~IsV2(shape) THEN UNCHANGED <<agentToolSeen, toolNames, shows>>
     ELSE /\ agentToolSeen' = agentToolSeen \cup {c}
          /\ toolNames' = toolNames \cup {c}
          /\ shows' = Show(c, TRUE, "running")
  /\ UNCHANGED <<codexRest, first>>
RawOutput(c) ==
  /\ agent = "codex" /\ second[c] = "began"
  /\ second' = [second EXCEPT ![c] = "ended"]
  /\ IF c \notin toolNames THEN UNCHANGED <<toolNames, shows>>
     ELSE toolNames' = toolNames \ {c} /\ shows' = Show(c, FALSE, "ended")
  /\ UNCHANGED <<codexRest, first, agentToolSeen>>
-----------------------------------------------------------------------------
(***************************************************************************)
(* pi                                                                      *)
(***************************************************************************)
piRest == <<given, claudeTables, codexTables>>

\* handleToolStart
PiToolStart(c) ==
  /\ agent = "pi" /\ Begins(c)
  /\ shows' = Show(c, TRUE, "running")
  /\ UNCHANGED <<piRest, piTables>>

\* handleToolEnd: a failed tool, or one that is no edit or an edit by itself.
\* A failed edit may be the one that should have ended its batch.
PiToolEnd(c, cut) ==
  /\ agent = "pi" /\ Ends(c)
  /\ shows' = Show(c, FALSE, "ended")
  /\ cut => batch < MaxBatch
  /\ batch' = IF cut THEN batch + 1 ELSE batch
  /\ UNCHANGED <<piRest, piBatch, member, patched>>

\* An edit in a batch, not the last: its patch will come.
PiQueued(c) ==
  /\ agent = "pi" /\ Ends(c)
  /\ shows' = Show(c, FALSE, "ended")
  /\ piBatch' = piBatch \cup {c}
  /\ member' = [member EXCEPT ![c] = batch]
  /\ UNCHANGED <<piRest, batch, patched>>

\* The last of a batch brings the patch of all, or none.
Backfill(c) == {c} \cup piBatch
PiBatchEnd(c, patch) ==
  /\ agent = "pi" /\ Ends(c) /\ batch < MaxBatch
  /\ shows' = [d \in Calls |-> IF patch /\ d \in Backfill(c) THEN [Show(c, FALSE, "ended")[d] EXCEPT !.diff = batch]
                               ELSE Show(c, FALSE, "ended")[d]]
  /\ piBatch' = {}
  /\ member' = [member EXCEPT ![c] = batch]
  /\ patched' = IF patch THEN patched \cup {batch} ELSE patched
  /\ batch' = batch + 1
  /\ UNCHANGED piRest
-----------------------------------------------------------------------------
CardsNext == \E c \in Calls :
  \/ ToolUse(c) \/ ToolResult(c) \/ SubagentUse(c) \/ SubagentResult(c)
  \/ AskPermission(c) \/ ClaimUse(c) \/ Answered(c)
  \/ ItemStarted(c) \/ ItemCompleted(c) \/ CollabStarted(c) \/ RawOutput(c)
  \/ \E named \in BOOLEAN : CollabCompleted(c, named)
  \/ \E shape \in {"v1", "v2"} : RawCall(c, shape)
  \/ PiToolStart(c) \/ PiQueued(c)
  \/ \E b \in BOOLEAN : PiToolEnd(c, b) \/ PiBatchEnd(c, b)

CardsSpec == CardsInit /\ [][CardsNext]_cardVars
-----------------------------------------------------------------------------
(***************************************************************************)
(* Properties.                                                             *)
(***************************************************************************)
\* A call has one card, with the name of its tool, which shows the call as
\* running no longer than some protocol does; and once nothing runs nothing is
\* kept of it (toolNames, sideUses and agentToolNames, each emptied by the end
\* of the call, whichever protocol tells it, though both may, in any order).
Runs(c) == "began" \in {first[c], second[c]}
CardsClosed ==
  \A c \in Calls :
    /\ shows[c].state # "none" => shows[c].named
    /\ shows[c].state = "running" => Runs(c)
    /\ c \in toolNames \cup ToSet(sideUses) => Runs(c)

\* A permission is asked under the task whose subagent wants it, or in the main
\* timeline, unless its call has ended already or it cannot be told from another
\* under way, or from one mistaken before (claimSidechainUse); and an edit shows the patch of its own
\* batch as soon as that is known, unless its batch was cut off (piBatch).
CardsBelong ==
  \A c \in Calls :
    /\ shows[c].perm \in {"none", home[c]} \/ c \in mistaken
    /\ member[c] \in patched => shows[c].diff = member[c]
    /\ shows[c].diff # 0 => member[c] \in 1..shows[c].diff

\* Both: what a card shows is what is known of its call, and of no other.
CardsTellCalls == CardsClosed /\ CardsBelong
=============================================================================
