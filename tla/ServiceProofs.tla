---------------------------- MODULE ServiceProofs ----------------------------
(***************************************************************************)
(* The life of a session and a backup job, for any number of requests,     *)
(* processes, goroutines, objects, versions and snapshots.  Of a session:  *)
(* a deletion takes all of it, the row tells whether a process lives, and  *)
(* the list on a page what the session does (DeletionsWhole, RowTellsLife  *)
(* and ListTrueUnlessMissed of AgentSessions).  Of a job: the gate         *)
(* keeps its snapshots whole, the row and the map agree, the next run is   *)
(* the next match of the schedule, and a run is skipped only for what a    *)
(* snapshot holds (the properties of Backup).                              *)
(***************************************************************************)
EXTENDS AgentSessions, Backup, WellFoundedInduction, SequenceTheorems, FiniteSetTheorems, TLAPS

SessionSteps == {"idle", "created", "start", "registered", "append", "delete", "deleting"}
UsersTyped == user \in [Users -> [pc : SessionSteps, proc : 0..MaxProcs]]
SessionTypeOK ==
  /\ row \in {"unborn", "idle", "running", "dead", "deleted"} /\ messages \in BOOLEAN
  /\ mapped \in 0..MaxProcs /\ superseded \subseteq Procs
  /\ proc \in [Procs -> {"none", "alive", "closing", "dead"}]
  /\ pump \in [Procs -> {"none", "reading", "leaving", "marked", "left"}]
  /\ UsersTyped

\* Before Create there is nothing.
UnbornOK ==
  row = "unborn" => /\ mapped = 0 /\ \A u \in Users : At(u, "idle")
                    /\ \A p \in Procs : proc[p] = "none" /\ pump[p] = "none"

\* A process that has not been started is nobody's.
FreshOK ==
  /\ \A p \in Procs : proc[p] = "none" => pump[p] = "none" /\ p # mapped /\ p \notin superseded
  /\ \A u \in Users : user[u].pc \in {"created", "registered"} =>
       user[u].proc \in Procs /\ proc[user[u].proc] # "none"

Clean(S) == odd \cap S = {}

\* As long as nobody has found the row, the request that creates the session is
\* alone with it.
CreatedOK ==
  Clean({"sending", "early"}) => \A u \in Users : At(u, "created") =>
    /\ \A v \in Users \ {u} : At(v, "idle")
    /\ mapped = 0 /\ row = "idle" /\ \A p \in Procs : pump[p] = "none"
    /\ user[u].proc \notin superseded

\* The mapped process is on its way out, or its pump will take it out.
Dying     == mapped = 0 \/ proc[mapped] # "alive" \/ Leaving
Registers == \E u \in Users : At(u, "registered")
Appends   == \E u \in Users : At(u, "append")
Deletes   == \E u \in Users : user[u].pc \in {"delete", "deleting"}

\* Why a deleted session keeps no process.
LiveOK ==
  Clean({"sending", "early"}) =>
    /\ row = "dead" => Dying \/ Registers
    /\ Deletes => Dying \/ Registers \/ Appends
    /\ row = "deleted" => Dying /\ \A u \in Users : user[u].pc \notin {"created", "start", "registered"}
    /\ mapped # 0 =>
         /\ mapped \notin superseded
         /\ \/ pump[mapped] \in {"reading", "leaving", "marked"}
            \/ \E u \in Users : At(u, "registered") /\ user[u].proc = mapped

\* Why it keeps no messages: from DeleteMessages on nobody stores any, or a
\* Send is at work that will be noticed.
WipedOK ==
  Clean({"sending", "served"}) =>
    /\ (\E u \in Users : At(u, "deleting")) =>
         /\ \A u \in Users : ~At(u, "created")
         /\ (~Serving /\ ~messages) \/ Registers \/ Appends
    /\ row = "deleted" => ~Sending /\ ~Serving /\ ~messages

\* Why the row tells what lives: whoever changes one of the two has the other
\* still to change, and nobody else gets between.
RowOK ==
  Clean({"overtaken", "early", "unstarted", "sending"}) =>
    /\ \A p \in Procs : /\ pump[p] = "reading" /\ p \notin superseded => mapped = p
                        /\ pump[p] \in {"leaving", "marked"} => mapped = p
                        /\ pump[p] = "marked" => row \in Gone \cup {"dead"}
    /\ \A u \in Users : At(u, "registered") =>
         /\ mapped = user[u].proc /\ pump[mapped] = "none"
         /\ \A v \in Users : At(v, "registered") => v = u
    /\ row = "dead" /\ mapped # 0 => Registers \/ pump[mapped] = "marked"
    /\ mapped = 0 /\ row \notin Gone /\ row # "dead" =>
         \E u \in Users : user[u].pc \in {"created", "start"}

Basics     == SessionTypeOK /\ UnbornOK /\ FreshOK
SessionInv == Basics /\ CreatedOK /\ LiveOK /\ WipedOK /\ RowOK

-----------------------------------------------------------------------------
(***************************************************************************)
(* What the steps do to all this.                                          *)
(***************************************************************************)
\* A set of numbers that is not empty has a least one, so a spawn takes a
\* process that is not in use.
LEMMA SpawnUnused ==
  ASSUME Unused # {}
  PROVE  Spawn \in Procs /\ proc[Spawn] = "none"
<1>1. Unused \subseteq Nat
  BY SessionsAssumption DEF Unused, Procs
<1>2. PICK p \in Unused : \A q \in Unused : ~ (<<q, p>> \in OpToRel(<, Nat))
  BY <1>1, WFMin, NatLessThanWellFounded, Zenon
<1>3. \A q \in Unused : p <= q
  <2>1. \A q \in Unused : ~ (q < p)
    BY <1>1, <1>2, Zenon DEF OpToRel
  <2> QED
    BY <1>1, <2>1
<1>4. Spawn \in Unused
  BY <1>3, Zenon DEF Spawn
<1> QED
  BY <1>4 DEF Unused

Others(u) == \A v \in Users \ {u} : user'[v] = user[v]
\* What has been odd stays so; only frames may be asked for again.
OddKept == odd \ {"missed"} \subseteq odd'

LEMMA GotoDoes ==
  ASSUME SessionTypeOK, NEW u \in Users, NEW pc \in SessionSteps, NEW p \in 0..MaxProcs,
         Goto(u, pc, p)
  PROVE  /\ UsersTyped'
         /\ user'[u].pc = pc /\ (pc # "idle" => user'[u].proc = p) /\ Others(u)
<1>1. user' = [user EXCEPT ![u] = IF pc = "idle" THEN NoUser ELSE [pc |-> pc, proc |-> p]]
  BY DEF Goto
<1>2. NoUser \in [pc : SessionSteps, proc : 0..MaxProcs] /\ NoUser.pc = "idle"
  BY SessionsAssumption DEF NoUser, SessionSteps
<1> QED
  BY <1>1, <1>2 DEF SessionTypeOK, UsersTyped, Others

LEMMA CreateDoes ==
  ASSUME Basics, NEW u \in Users, Create(u)
  PROVE  \E p \in Procs :
           /\ proc[p] = "none" /\ proc' = [proc EXCEPT ![p] = "alive"]
           /\ row = "unborn" /\ row' = "idle"
           /\ UNCHANGED <<messages, mapped, pump, superseded, odd>>
           /\ At(u, "idle") /\ user'[u].pc = "created" /\ user'[u].proc = p /\ Others(u)
           /\ UsersTyped'
<1>1. Spawn \in Procs /\ proc[Spawn] = "none"
  BY SpawnUnused DEF Create
<1>2. Spawn \in 0..MaxProcs /\ "created" \in SessionSteps
  BY <1>1 DEF Procs, SessionSteps
<1>3. Goto(u, "created", Spawn)
  BY DEF Create
<1>4. /\ UsersTyped'
      /\ user'[u].pc = "created" /\ user'[u].proc = Spawn /\ Others(u)
  BY <1>2, <1>3, GotoDoes DEF Basics
<1> QED
  BY <1>1, <1>4 DEF Create

\* A user goes from one step to another.
Goes(u, from, to) == At(u, from) /\ user'[u].pc = to /\ Others(u) /\ UsersTyped'

LEMMA GoesTo ==
  ASSUME Basics, NEW u \in Users, NEW from, NEW to \in SessionSteps, NEW p \in 0..MaxProcs,
         At(u, from), Goto(u, to, p)
  PROVE  Goes(u, from, to) /\ (to # "idle" => user'[u].proc = p)
BY GotoDoes DEF Basics, Goes

LEMMA StepNames ==
  /\ {"idle", "created", "start", "registered", "append", "delete", "deleting"} = SessionSteps
  /\ 0 \in 0..MaxProcs
BY SessionsAssumption DEF SessionSteps

LEMMA MapCreatedDoes ==
  ASSUME Basics, NEW u \in Users, MapCreated(u)
  PROVE  /\ Goes(u, "created", "idle") /\ user[u].proc \in Procs /\ proc[user[u].proc] # "none"
         /\ mapped' = user[u].proc /\ pump' = [pump EXCEPT ![user[u].proc] = "reading"]
         /\ UNCHANGED <<row, messages, proc, superseded>> /\ OddKept
<1>1. Goes(u, "created", "idle")
  BY GoesTo, StepNames DEF MapCreated
<1>2. OddKept
  BY DEF MapCreated, Announce, OddKept
<1>3. user[u].proc \in Procs /\ proc[user[u].proc] # "none"
  BY DEF MapCreated, Basics, FreshOK, At
<1> QED
  BY <1>1, <1>2, <1>3 DEF MapCreated, dbVars

LEMMA SendMappedDoes ==
  ASSUME Basics, NEW u \in Users, SendMapped(u)
  PROVE  /\ Goes(u, "idle", "append") /\ mapped # 0
         /\ UNCHANGED <<row, messages, mapped, proc, pump, superseded, odd>>
<1>1. mapped \in 0..MaxProcs
  BY DEF Basics, SessionTypeOK
<1>2. Goes(u, "idle", "append")
  BY <1>1, GoesTo, StepNames DEF SendMapped
<1> QED
  BY <1>2 DEF SendMapped, dbVars, procVars

LEMMA SendRevivesDoes ==
  ASSUME Basics, NEW u \in Users, SendRevives(u)
  PROVE  /\ Goes(u, "idle", "start") /\ mapped = 0 /\ row \notin Gone
         /\ (\E v \in Users : At(v, "created")) => "early" \in odd'
         /\ UNCHANGED <<row, messages, mapped, proc, pump, superseded>> /\ OddKept
<1>1. Goes(u, "idle", "start")
  BY GoesTo, StepNames DEF SendRevives
<1>2. OddKept /\ ((\E v \in Users : At(v, "created")) => "early" \in odd')
  BY DEF SendRevives, Odd, OddKept
<1> QED
  BY <1>1, <1>2 DEF SendRevives, dbVars, procVars

\* What killing the mapped process does.
Killing == \/ mapped = 0 /\ proc' = proc
           \/ /\ mapped \in Procs
              /\ proc' = [proc EXCEPT ![mapped] = IF @ = "alive" THEN "closing" ELSE @]

LEMMA ClosingKills == Basics /\ Closing => Killing
<1> SUFFICES ASSUME Basics, Closing PROVE Killing
  OBVIOUS
<1>1. mapped # 0 => mapped \in Procs
  BY SessionsAssumption DEF Basics, SessionTypeOK, Procs
<1> QED
  BY <1>1 DEF Closing, Killing

LEMMA SendRestartsDoes ==
  ASSUME Basics, NEW u \in Users, SendRestarts(u)
  PROVE  /\ Goes(u, "idle", IF row \in Gone THEN "idle" ELSE "start")
         /\ mapped # 0 /\ mapped \in Procs /\ mapped' = 0
         /\ superseded' = superseded \cup {mapped} /\ Killing
         /\ pump[mapped] # "reading" => "overtaken" \in odd'
         /\ UNCHANGED <<row, messages, pump>> /\ OddKept
<1>1. Goes(u, "idle", IF row \in Gone THEN "idle" ELSE "start")
  <2>1. (IF row \in Gone THEN "idle" ELSE "start") \in SessionSteps
    BY StepNames
  <2> QED
    BY <2>1, GoesTo, StepNames DEF SendRestarts
<1>2. OddKept /\ (pump[mapped] # "reading" => "overtaken" \in odd')
  BY DEF SendRestarts, Odd, OddKept
<1>3. mapped # 0 /\ mapped \in Procs
  BY SessionsAssumption DEF Basics, SessionTypeOK, SendRestarts, Procs
<1> QED
  BY <1>1, <1>2, <1>3 DEF SendRestarts, dbVars, Killing

LEMMA RegisterDoes ==
  ASSUME Basics, NEW u \in Users, Register(u)
  PROVE  /\ UNCHANGED <<row, messages, pump, superseded>> /\ OddKept
         /\ \/ /\ Goes(u, "start", "idle") /\ UNCHANGED <<mapped, proc>>
               /\ row # "dead" => "unstarted" \in odd'
            \/ /\ Goes(u, "start", "append") /\ mapped # 0 /\ UNCHANGED <<mapped, proc, odd>>
            \/ /\ mapped = 0 /\ mapped' \in Procs /\ proc[mapped'] = "none"
               /\ proc' = [proc EXCEPT ![mapped'] = "alive"]
               /\ Goes(u, "start", "registered") /\ user'[u].proc = mapped' /\ UNCHANGED odd
<1>1. UNCHANGED <<row, messages, pump, superseded>> /\ At(u, "start")
  BY DEF Register, dbVars
<1>2. CASE Goto(u, "idle", 0) /\ UNCHANGED <<mapped, proc>> /\ Odd("unstarted", row # "dead")
  <2>1. Goes(u, "start", "idle")
    BY <1>1, <1>2, GoesTo, StepNames
  <2>2. OddKept /\ (row # "dead" => "unstarted" \in odd')
    BY <1>2 DEF Odd, OddKept
  <2> QED
    BY <1>1, <1>2, <2>1, <2>2
<1>3. CASE mapped # 0 /\ Goto(u, "append", mapped) /\ UNCHANGED <<mapped, proc, odd>>
  <2>1. mapped \in 0..MaxProcs
    BY DEF Basics, SessionTypeOK
  <2>2. Goes(u, "start", "append")
    BY <1>1, <1>3, <2>1, GoesTo, StepNames
  <2> QED
    BY <1>1, <1>3, <2>2 DEF OddKept
<1>4. CASE /\ mapped = 0 /\ Unused # {}
           /\ proc' = [proc EXCEPT ![Spawn] = "alive"] /\ mapped' = Spawn
           /\ Goto(u, "registered", Spawn) /\ UNCHANGED odd
  <2>1. Spawn \in Procs /\ proc[Spawn] = "none"
    BY <1>4, SpawnUnused
  <2>2. Spawn \in 0..MaxProcs
    BY <2>1 DEF Procs
  <2>3. Goes(u, "start", "registered") /\ user'[u].proc = Spawn
    BY <1>1, <1>4, <2>2, GoesTo, StepNames
  <2> QED
    BY <1>1, <1>4, <2>1, <2>3 DEF OddKept
<1> QED
  BY <1>2, <1>3, <1>4 DEF Register

LEMMA MarkIdleDoes ==
  ASSUME Basics, NEW u \in Users, MarkIdle(u)
  PROVE  /\ Goes(u, "registered", "append")
         /\ row' = (IF row \in Gone THEN row ELSE "idle")
         /\ user[u].proc \in Procs /\ proc[user[u].proc] # "none"
         /\ pump' = [pump EXCEPT ![user[u].proc] = "reading"]
         /\ UNCHANGED <<messages, mapped, proc, superseded, odd>>
<1>1. user[u].proc \in Procs /\ proc[user[u].proc] # "none"
  BY DEF MarkIdle, Basics, FreshOK, At
<1>2. user[u].proc \in 0..MaxProcs
  BY <1>1 DEF Procs
<1>3. Goes(u, "registered", "append")
  BY <1>2, GoesTo, StepNames DEF MarkIdle
<1> QED
  BY <1>1, <1>3 DEF MarkIdle, SetStatus

LEMMA AppendUserDoes ==
  ASSUME Basics, NEW u \in Users, AppendUser(u)
  PROVE  /\ Goes(u, "append", "idle") /\ messages' = TRUE
         /\ Deletes => "sending" \in odd'
         /\ UNCHANGED <<row, mapped, proc, pump, superseded>> /\ OddKept
<1>1. Goes(u, "append", "idle")
  BY GoesTo, StepNames DEF AppendUser
<1>2. odd \cup Crossed \subseteq odd'
  BY DEF AppendUser
<1>3. Deletes => "sending" \in Crossed
  BY DEF Deletes, Crossed, At
<1> QED
  BY <1>1, <1>2, <1>3 DEF AppendUser, Touch, OddKept

LEMMA DeleteDoes ==
  ASSUME Basics, NEW u \in Users, Delete(u)
  PROVE  /\ Goes(u, "idle", "delete") /\ row \notin Gone /\ Killing
         /\ Sending => "sending" \in odd'
         /\ UNCHANGED <<row, messages, mapped, pump, superseded>> /\ OddKept
<1>1. Goes(u, "idle", "delete")
  BY GoesTo, StepNames DEF Delete
<1>2. Killing
  BY ClosingKills DEF Delete
<1> QED
  BY <1>1, <1>2 DEF Delete, dbVars, OddKept

LEMMA CleanupDoes ==
  ASSUME Basics, NEW u \in Users, Cleanup(u)
  PROVE  /\ Goes(u, "idle", "delete") /\ row = "dead"
         /\ Sending => "sending" \in odd'
         /\ UNCHANGED <<row, messages, mapped, proc, pump, superseded>> /\ OddKept
<1>1. Goes(u, "idle", "delete")
  BY GoesTo, StepNames DEF Cleanup
<1> QED
  BY <1>1 DEF Cleanup, Deletable, Odd, dbVars, procVars, OddKept

LEMMA DeleteMessagesDoes ==
  ASSUME Basics, NEW u \in Users, DeleteMessages(u)
  PROVE  /\ Goes(u, "delete", "deleting") /\ messages' = FALSE
         /\ Sending => "sending" \in odd'
         /\ Serving => "served" \in odd'
         /\ UNCHANGED <<row, mapped, proc, pump, superseded>> /\ OddKept
<1>1. Goes(u, "delete", "deleting")
  BY GoesTo, StepNames DEF DeleteMessages
<1> QED
  BY <1>1 DEF DeleteMessages, Wiped, procVars, OddKept

LEMMA DeleteRowDoes ==
  ASSUME Basics, NEW u \in Users, DeleteRow(u)
  PROVE  /\ Goes(u, "deleting", "idle") /\ row' = "deleted"
         /\ Sending => "sending" \in odd'
         /\ Serving => "served" \in odd'
         /\ UNCHANGED <<messages, mapped, proc, pump, superseded>> /\ OddKept
<1>1. Goes(u, "deleting", "idle")
  BY GoesTo, StepNames DEF DeleteRow
<1> QED
  BY <1>1 DEF DeleteRow, procVars, OddKept

\* The processes and their pumps.
LEMMA ReportDoes ==
  ASSUME NEW p \in Procs, NEW status, Report(p, status)
  PROVE  /\ pump[p] = "reading" /\ messages' = TRUE
         /\ row' = (IF row \in Gone THEN row ELSE status)
         /\ p \in superseded => "overtaken" \in odd'
         /\ UNCHANGED <<mapped, proc, pump, superseded, user>> /\ OddKept
BY DEF Report, SetStatus, Announce, OddKept

LEMMA PumpLeavesDoes ==
  ASSUME Basics, NEW p \in Procs, PumpLeaves(p)
  PROVE  /\ pump[p] = "reading" /\ proc[p] = "dead"
         /\ pump' = [pump EXCEPT ![p] = IF p \in superseded THEN "left" ELSE "leaving"]
         /\ messages' \in BOOLEAN
         /\ UNCHANGED <<row, mapped, proc, superseded, user, odd>>
BY DEF PumpLeaves, Replaced, Basics, SessionTypeOK

LEMMA MarkDeadDoes ==
  ASSUME NEW p \in Procs, MarkDead(p)
  PROVE  /\ pump[p] = "leaving" /\ pump' = [pump EXCEPT ![p] = "marked"]
         /\ row' = (IF row \in Gone THEN row ELSE "dead")
         /\ UNCHANGED <<messages, mapped, proc, superseded, user>> /\ OddKept
BY DEF MarkDead, SetStatus, Announce, OddKept

LEMMA UnmapDoes ==
  ASSUME NEW p \in Procs, Unmap(p)
  PROVE  /\ pump[p] = "marked" /\ pump' = [pump EXCEPT ![p] = "left"] /\ mapped' = 0
         /\ UNCHANGED <<row, messages, proc, superseded, user, odd>>
BY DEF Unmap, dbVars

\* What is done on the page, and days that pass.
Elsewhere == \/ Age \/ AskList \/ AnswerList \/ ReceiveList \/ ReceiveFrame
             \/ Disconnect \/ Reconnect
LEMMA ElsewhereDoes ==
  ASSUME Elsewhere \/ UNCHANGED sessionVars
  PROVE  UNCHANGED <<row, messages, mapped, proc, pump, superseded, user>> /\ OddKept
<1>1. CASE UNCHANGED sessionVars
  BY <1>1 DEF sessionVars, dbVars, procVars, OddKept
<1>2. CASE Elsewhere
  BY <1>2 DEF Elsewhere, Age, AskList, AnswerList, ReceiveList, ReceiveFrame, Disconnect,
     Reconnect, Odd, dbVars, procVars, OddKept
<1> QED
  BY <1>1, <1>2

LEMMA KillDoes ==
  ASSUME Basics, NEW u \in Users, Kill(u)
  PROVE  /\ Killing /\ UNCHANGED <<row, messages, mapped, pump, superseded, user, odd>>
BY ClosingKills DEF Kill, dbVars

LEMMA RestartServerDoes ==
  ASSUME Basics, RestartServer
  PROVE  /\ row' = (IF row \in Gone THEN row ELSE "dead") /\ mapped' = 0
         /\ UsersTyped' /\ \A u \in Users : user'[u].pc = "idle"
         /\ proc' = [p \in Procs |-> IF proc[p] = "none" THEN "none" ELSE "dead"]
         /\ pump' = [p \in Procs |-> IF pump[p] = "none" THEN "none" ELSE "left"]
         /\ UNCHANGED <<messages, superseded>> /\ OddKept
<1>1. NoUser \in [pc : SessionSteps, proc : 0..MaxProcs] /\ NoUser.pc = "idle"
  BY SessionsAssumption DEF NoUser, SessionSteps
<1>2. user' = [u \in Users |-> NoUser]
  BY DEF RestartServer
<1>3. UsersTyped' /\ \A u \in Users : user'[u].pc = "idle"
  BY <1>1, <1>2 DEF UsersTyped
<1> QED
  BY <1>3 DEF RestartServer, Restarted, OddKept

\* Types, what is there before Create, and whose a process is.
LEMMA BasicsStep ==
  ASSUME Basics, [SessionsNext]_sessionVars
  PROVE  Basics'
<1>t. SessionTypeOK /\ UnbornOK /\ FreshOK
  BY DEF Basics
<1>g. Gone = {"unborn", "deleted"} /\ \A p \in Procs : p # 0
  BY DEF Gone, Procs
<1>k. ASSUME Killing
      PROVE  /\ proc' \in [Procs -> {"none", "alive", "closing", "dead"}]
             /\ \A p \in Procs : proc'[p] = "none" <=> proc[p] = "none"
  BY <1>k, <1>t DEF Killing, SessionTypeOK
<1>1. ASSUME NEW u \in Users, Create(u) PROVE Basics'
  <2>1. PICK p \in Procs :
           /\ proc[p] = "none" /\ proc' = [proc EXCEPT ![p] = "alive"]
           /\ row = "unborn" /\ row' = "idle"
           /\ UNCHANGED <<messages, mapped, pump, superseded, odd>>
           /\ At(u, "idle") /\ user'[u].pc = "created" /\ user'[u].proc = p /\ Others(u)
           /\ UsersTyped'
    BY <1>1, CreateDoes
  <2>2. SessionTypeOK'
    BY <2>1, <1>t DEF SessionTypeOK
  <2>3. FreshOK'
    BY <2>1, <1>t DEF FreshOK, UnbornOK, SessionTypeOK, Others, At
  <2> QED
    BY <2>1, <2>2, <2>3 DEF Basics, UnbornOK
<1>2. ASSUME NEW u \in Users, MapCreated(u) PROVE Basics'
  <2>1. /\ Goes(u, "created", "idle") /\ user[u].proc \in Procs /\ proc[user[u].proc] # "none"
        /\ mapped' = user[u].proc /\ pump' = [pump EXCEPT ![user[u].proc] = "reading"]
        /\ UNCHANGED <<row, messages, proc, superseded>>
    BY <1>2, MapCreatedDoes
  <2>2. SessionTypeOK'
    BY <2>1, <1>t DEF SessionTypeOK, Goes, Procs
  <2>3. FreshOK'
    BY <2>1, <1>t DEF FreshOK, SessionTypeOK, Goes, Others, At
  <2>4. row # "unborn"
    BY <2>1, <1>t DEF UnbornOK, Goes, At
  <2> QED
    BY <2>1, <2>2, <2>3, <2>4 DEF Basics, UnbornOK
<1>3. ASSUME NEW u \in Users, SendMapped(u) PROVE Basics'
  <2>1. /\ Goes(u, "idle", "append") /\ mapped # 0
        /\ UNCHANGED <<row, messages, mapped, proc, pump, superseded, odd>>
    BY <1>3, SendMappedDoes
  <2>2. SessionTypeOK'
    BY <2>1, <1>t DEF SessionTypeOK, Goes
  <2>3. FreshOK'
    BY <2>1, <1>t DEF FreshOK, Goes, Others, At
  <2> QED
    BY <2>1, <2>2, <2>3, <1>t DEF Basics, UnbornOK
<1>4. ASSUME NEW u \in Users, SendRevives(u) PROVE Basics'
  <2>1. /\ Goes(u, "idle", "start") /\ row \notin Gone
        /\ UNCHANGED <<row, messages, mapped, proc, pump, superseded>>
    BY <1>4, SendRevivesDoes
  <2>2. SessionTypeOK'
    BY <2>1, <1>t DEF SessionTypeOK, Goes
  <2>3. FreshOK'
    BY <2>1, <1>t DEF FreshOK, Goes, Others, At
  <2> QED
    BY <2>1, <2>2, <2>3, <1>g DEF Basics, UnbornOK
<1>5. ASSUME NEW u \in Users, SendRestarts(u) PROVE Basics'
  <2>1. /\ Goes(u, "idle", IF row \in Gone THEN "idle" ELSE "start")
        /\ mapped # 0 /\ mapped \in Procs /\ mapped' = 0
        /\ superseded' = superseded \cup {mapped} /\ Killing
        /\ UNCHANGED <<row, messages, pump>>
    BY <1>5, SendRestartsDoes
  <2>2. SessionTypeOK'
    BY <2>1, <1>t, <1>k, StepNames DEF SessionTypeOK, Goes
  <2>3. FreshOK'
    BY <2>1, <1>t, <1>k, <1>g DEF FreshOK, Goes, Others, At
  <2> QED
    BY <2>1, <2>2, <2>3, <1>t DEF Basics, UnbornOK
<1>6. ASSUME NEW u \in Users, Register(u) PROVE Basics'
  <2>1. UNCHANGED <<row, messages, pump, superseded>> /\ row # "unborn"
    BY <1>6, RegisterDoes, <1>t DEF UnbornOK, Register, At
  <2>2. \/ \E to \in {"idle", "append"} : Goes(u, "start", to) /\ UNCHANGED <<mapped, proc>>
        \/ /\ mapped = 0 /\ mapped' \in Procs /\ proc[mapped'] = "none"
           /\ proc' = [proc EXCEPT ![mapped'] = "alive"]
           /\ Goes(u, "start", "registered") /\ user'[u].proc = mapped'
    BY <1>6, RegisterDoes
  <2>3. SessionTypeOK'
    BY <2>1, <2>2, <1>t DEF SessionTypeOK, Goes, Procs
  <2>4. FreshOK'
    BY <2>1, <2>2, <1>t DEF FreshOK, SessionTypeOK, Goes, Others, At
  <2> QED
    BY <2>1, <2>3, <2>4 DEF Basics, UnbornOK
<1>7. ASSUME NEW u \in Users, MarkIdle(u) PROVE Basics'
  <2>1. /\ Goes(u, "registered", "append")
        /\ row' = (IF row \in Gone THEN row ELSE "idle")
        /\ user[u].proc \in Procs /\ proc[user[u].proc] # "none"
        /\ pump' = [pump EXCEPT ![user[u].proc] = "reading"]
        /\ UNCHANGED <<messages, mapped, proc, superseded, odd>>
    BY <1>7, MarkIdleDoes
  <2>2. SessionTypeOK'
    BY <2>1, <1>t DEF SessionTypeOK, Goes
  <2>3. FreshOK'
    BY <2>1, <1>t DEF FreshOK, SessionTypeOK, Goes, Others, At
  <2>4. row' # "unborn"
    BY <2>1, <1>t DEF UnbornOK, Goes, At
  <2> QED
    BY <2>2, <2>3, <2>4 DEF Basics, UnbornOK
<1>8. ASSUME NEW u \in Users,
             AppendUser(u) \/ Delete(u) \/ Cleanup(u) \/ DeleteMessages(u) \/ DeleteRow(u)
      PROVE  Basics'
  <2>1. /\ \E from, to \in {"append", "idle", "delete", "deleting"} : Goes(u, from, to) /\ row' # "unborn"
        /\ row' \in {row, "deleted"} /\ messages' \in BOOLEAN
        /\ UNCHANGED <<mapped, pump, superseded>> /\ (proc' = proc \/ Killing)
    <3>1. CASE AppendUser(u)
      BY <3>1, AppendUserDoes, <1>t DEF UnbornOK, Goes, At
    <3>2. CASE Delete(u)
      BY <3>2, DeleteDoes, <1>t, <1>g DEF SessionTypeOK
    <3>3. CASE Cleanup(u)
      BY <3>3, CleanupDoes, <1>t DEF SessionTypeOK
    <3>4. CASE DeleteMessages(u)
      BY <3>4, DeleteMessagesDoes, <1>t DEF UnbornOK, Goes, At
    <3>5. CASE DeleteRow(u)
      BY <3>5, DeleteRowDoes, <1>t DEF SessionTypeOK
    <3> QED
      BY <1>8, <3>1, <3>2, <3>3, <3>4, <3>5
  <2>2. SessionTypeOK'
    BY <2>1, <1>t, <1>k DEF SessionTypeOK, Goes
  <2>3. FreshOK'
    BY <2>1, <1>t, <1>k DEF FreshOK, Goes, Others, At
  <2> QED
    BY <2>1, <2>2, <2>3 DEF Basics, UnbornOK
<1>9. ASSUME NEW u \in Users, Kill(u) PROVE Basics'
  <2>1. /\ Killing /\ UNCHANGED <<row, messages, mapped, pump, superseded, user, odd>>
    BY <1>9, KillDoes
  <2> QED
    BY <2>1, <1>t, <1>k DEF Basics, SessionTypeOK, UsersTyped, UnbornOK, FreshOK, At
<1>10. ASSUME NEW p \in Procs, Die(p) PROVE Basics'
  <2>1. /\ proc[p] \in {"alive", "closing"} /\ proc' = [proc EXCEPT ![p] = "dead"]
        /\ UNCHANGED <<row, messages, mapped, pump, superseded, user>>
    BY <1>10 DEF Die, dbVars
  <2> QED
    BY <2>1, <1>t DEF Basics, SessionTypeOK, UsersTyped, UnbornOK, FreshOK, At
<1>11. ASSUME NEW p \in Procs,
              PumpLeaves(p) \/ MarkDead(p) \/ Unmap(p) \/ \E status \in {"running", "idle"} : Report(p, status)
       PROVE  Basics'
  <2>1. /\ pump[p] \in {"reading", "leaving", "marked"}
        /\ \E to \in {"reading", "leaving", "marked", "left"} : pump' = [pump EXCEPT ![p] = to]
        /\ mapped' \in {0, mapped} /\ messages' \in BOOLEAN
        /\ row' \in {row, "idle", "running", "dead"} /\ (row = "unborn" <=> row' = "unborn")
        /\ UNCHANGED <<proc, superseded, user>>
    <3>1. CASE PumpLeaves(p)
      BY <3>1, PumpLeavesDoes
    <3>2. CASE MarkDead(p)
      BY <3>2, MarkDeadDoes, <1>g, <1>t DEF SessionTypeOK
    <3>3. CASE Unmap(p)
      BY <3>3, UnmapDoes, <1>t DEF SessionTypeOK
    <3>4. ASSUME NEW status \in {"running", "idle"}, Report(p, status)
          PROVE  /\ pump[p] = "reading" /\ pump' = pump
                 /\ messages' = TRUE /\ UNCHANGED <<mapped, proc, superseded, user>>
                 /\ row' = (IF row \in Gone THEN row ELSE status)
      BY <3>4, ReportDoes
    <3>5. pump' = pump => \E to \in {"reading", "leaving", "marked", "left"} : pump' = [pump EXCEPT ![p] = to] \/ pump[p] = "none"
      BY <1>t DEF SessionTypeOK
    <3>6. pump[p] = "reading" /\ pump' = pump => pump' = [pump EXCEPT ![p] = "reading"]
      BY <1>t DEF SessionTypeOK
    <3> QED
      BY <1>11, <3>1, <3>2, <3>3, <3>4, <3>6, <1>g
  <2>2. SessionTypeOK'
    BY <2>1, <1>t, StepNames DEF SessionTypeOK, UsersTyped
  <2>3. proc[p] # "none"
    BY <2>1, <1>t DEF FreshOK
  <2>4. FreshOK'
    BY <2>1, <2>3, <1>t, <1>g DEF FreshOK, SessionTypeOK
  <2>5. row # "unborn"
    BY <2>3, <1>t DEF UnbornOK
  <2> QED
    BY <2>1, <2>2, <2>4, <2>5 DEF Basics, UnbornOK
<1>12. CASE RestartServer
  <2>1. /\ row' = (IF row \in Gone THEN row ELSE "dead") /\ mapped' = 0
        /\ UsersTyped' /\ \A u \in Users : user'[u].pc = "idle"
        /\ proc' = [p \in Procs |-> IF proc[p] = "none" THEN "none" ELSE "dead"]
        /\ pump' = [p \in Procs |-> IF pump[p] = "none" THEN "none" ELSE "left"]
        /\ UNCHANGED <<messages, superseded>>
    BY <1>12, RestartServerDoes
  <2>2. SessionTypeOK'
    BY <2>1, <1>t, StepNames DEF SessionTypeOK
  <2>3. FreshOK'
    BY <2>1, <1>t, <1>g DEF FreshOK
  <2>4. UnbornOK'
    BY <2>1, <1>t, <1>g DEF UnbornOK, At
  <2> QED
    BY <2>2, <2>3, <2>4 DEF Basics
<1>13. CASE Elsewhere \/ UNCHANGED sessionVars
  <2>1. UNCHANGED <<row, messages, mapped, proc, pump, superseded, user>>
    BY <1>13, ElsewhereDoes
  <2> QED
    BY <2>1, <1>t DEF Basics, SessionTypeOK, UsersTyped, UnbornOK, FreshOK, At
<1> QED
  BY <1>1, <1>2, <1>3, <1>4, <1>5, <1>6, <1>7, <1>8, <1>9, <1>10, <1>11, <1>12, <1>13
  DEF SessionsNext, Elsewhere

-----------------------------------------------------------------------------
(***************************************************************************)
(* The steps keep the rest of the invariant.                               *)
(***************************************************************************)
LEMMA CleanBefore ==
  ASSUME NEW S, "missed" \notin S, OddKept, Clean(S)'
  PROVE  Clean(S)
BY DEF Clean, OddKept

LEMMA OddIsKept == Basics /\ [SessionsNext]_sessionVars => OddKept
<1> SUFFICES ASSUME Basics, [SessionsNext]_sessionVars PROVE OddKept
  OBVIOUS
<1>1. ASSUME NEW u \in Users,
             \/ Create(u) \/ MapCreated(u) \/ SendMapped(u) \/ SendRevives(u) \/ SendRestarts(u)
             \/ Register(u) \/ MarkIdle(u) \/ AppendUser(u)
      PROVE  OddKept
  BY <1>1, MapCreatedDoes, SendRevivesDoes, SendRestartsDoes, RegisterDoes, AppendUserDoes
  DEF Create, SendMapped, MarkIdle, OddKept
<1>2. ASSUME NEW u \in Users,
             Kill(u) \/ Delete(u) \/ Cleanup(u) \/ DeleteMessages(u) \/ DeleteRow(u)
      PROVE  OddKept
  BY <1>2, DeleteDoes, CleanupDoes, DeleteMessagesDoes, DeleteRowDoes DEF Kill, OddKept
<1>3. ASSUME NEW p \in Procs, \/ Die(p) \/ PumpLeaves(p) \/ MarkDead(p) \/ Unmap(p)
                              \/ \E status \in {"running", "idle"} : Report(p, status)
      PROVE  OddKept
  BY <1>3, MarkDeadDoes, ReportDoes DEF Die, PumpLeaves, Unmap, OddKept
<1>4. CASE RestartServer
  BY <1>4, RestartServerDoes
<1>5. CASE Elsewhere \/ UNCHANGED sessionVars
  BY <1>5, ElsewhereDoes
<1> QED
  BY <1>1, <1>2, <1>3, <1>4, <1>5 DEF SessionsNext, Elsewhere

\* Who creates the session stays alone with it, or is found out.
LEMMA CreatedStep ==
  ASSUME SessionInv, [SessionsNext]_sessionVars
  PROVE  CreatedOK'
<1> DEFINE S == {"sending", "early"}
<1>t. SessionTypeOK /\ UnbornOK /\ FreshOK /\ Basics /\ OddKept
  BY OddIsKept DEF SessionInv, Basics
<1> SUFFICES ASSUME Clean(S)', NEW u \in Users, user'[u].pc = "created"
             PROVE  /\ \A v \in Users \ {u} : user'[v].pc = "idle"
                    /\ mapped' = 0 /\ row' = "idle" /\ \A p \in Procs : pump'[p] = "none"
                    /\ user'[u].proc \notin superseded'
  BY DEF CreatedOK, At
<1>o. Clean(S) /\ "sending" \notin odd' /\ "early" \notin odd'
  BY <1>t, CleanBefore DEF Clean
<1>c. user[u].pc = "created" =>
        /\ \A v \in Users \ {u} : user[v].pc = "idle"
        /\ mapped = 0 /\ row = "idle" /\ \A p \in Procs : pump[p] = "none"
        /\ user[u].proc \notin superseded
  BY <1>o DEF SessionInv, CreatedOK, At
<1> HIDE DEF S
<1>1. ASSUME NEW w \in Users, Create(w)
      PROVE  /\ \A v \in Users \ {u} : user'[v].pc = "idle"
             /\ mapped' = 0 /\ row' = "idle" /\ \A p \in Procs : pump'[p] = "none"
             /\ user'[u].proc \notin superseded'
  <2>1. PICK p \in Procs :
           /\ proc[p] = "none" /\ row = "unborn" /\ row' = "idle"
           /\ UNCHANGED <<mapped, pump, superseded>>
           /\ user'[w].pc = "created" /\ user'[w].proc = p /\ Others(w)
    BY <1>1, <1>t, CreateDoes
  <2>2. w = u
    BY <2>1, <1>t DEF UnbornOK, Others, At
  <2> QED
    BY <2>1, <2>2, <1>t DEF UnbornOK, FreshOK, Others, At
<1>2. ASSUME NEW w \in Users,
             \/ MapCreated(w) \/ SendMapped(w) \/ SendRevives(w) \/ SendRestarts(w)
             \/ Register(w) \/ MarkIdle(w) \/ AppendUser(w)
             \/ Delete(w) \/ Cleanup(w) \/ DeleteMessages(w) \/ DeleteRow(w)
      PROVE  FALSE
  <2>1. PICK from, to \in SessionSteps : Goes(w, from, to) /\ to # "created"
    <3>1. /\ MapCreated(w) => Goes(w, "created", "idle")
          /\ SendMapped(w) => Goes(w, "idle", "append")
          /\ SendRevives(w) => Goes(w, "idle", "start")
      BY <1>t, MapCreatedDoes, SendMappedDoes, SendRevivesDoes
    <3>2. /\ SendRestarts(w) => Goes(w, "idle", "idle") \/ Goes(w, "idle", "start")
          /\ Register(w) => \E to \in {"idle", "append", "registered"} : Goes(w, "start", to)
          /\ MarkIdle(w) => Goes(w, "registered", "append")
          /\ AppendUser(w) => Goes(w, "append", "idle")
      BY <1>t, SendRestartsDoes, RegisterDoes, MarkIdleDoes, AppendUserDoes
    <3>3. /\ Delete(w) => Goes(w, "idle", "delete")
          /\ Cleanup(w) => Goes(w, "idle", "delete")
          /\ DeleteMessages(w) => Goes(w, "delete", "deleting")
          /\ DeleteRow(w) => Goes(w, "deleting", "idle")
      BY <1>t, DeleteDoes, CleanupDoes, DeleteMessagesDoes, DeleteRowDoes
    <3> QED
      BY <1>2, <3>1, <3>2, <3>3, StepNames
  <2>2. w # u /\ user[u].pc = "created"
    BY <2>1 DEF Goes, Others
  <2>3. user[w].pc = "idle" /\ mapped = 0 /\ row = "idle" /\ Sending
    BY <2>2, <1>c DEF Sending
  <2>4. SendRevives(w) \/ Delete(w)
    BY <1>2, <2>3 DEF MapCreated, SendMapped, SendRestarts, Register, MarkIdle, AppendUser,
       Cleanup, Deletable, DeleteMessages, DeleteRow, At
  <2> QED
    BY <2>2, <2>3, <2>4, <1>t, <1>o, SendRevivesDoes, DeleteDoes DEF At
<1>3. ASSUME NEW w \in Users, Kill(w) PROVE UNCHANGED <<row, mapped, pump, superseded, user>>
  BY <1>3, <1>t, KillDoes
<1>4. ASSUME NEW p \in Procs, Die(p) PROVE UNCHANGED <<row, mapped, pump, superseded, user>>
  BY <1>4 DEF Die, dbVars
<1>5. ASSUME NEW p \in Procs,
             \/ PumpLeaves(p) \/ MarkDead(p) \/ Unmap(p)
             \/ \E status \in {"running", "idle"} : Report(p, status)
      PROVE  FALSE
  <2>1. user' = user /\ pump[p] # "none"
    BY <1>5 DEF PumpLeaves, MarkDead, Unmap, Report
  <2> QED
    BY <2>1, <1>c
<1>6. CASE RestartServer
  BY <1>6, <1>t, RestartServerDoes
<1>7. ASSUME Elsewhere \/ UNCHANGED sessionVars
      PROVE  UNCHANGED <<row, mapped, pump, superseded, user>>
  BY <1>7, ElsewhereDoes
<1>8. ASSUME UNCHANGED <<row, mapped, pump, superseded, user>>
      PROVE  /\ \A v \in Users \ {u} : user'[v].pc = "idle"
             /\ mapped' = 0 /\ row' = "idle" /\ \A p \in Procs : pump'[p] = "none"
             /\ user'[u].proc \notin superseded'
  BY <1>8, <1>c
<1> QED
  BY <1>1, <1>2, <1>3, <1>4, <1>5, <1>6, <1>7, <1>8 DEF SessionsNext, Elsewhere

\* A deleted session keeps no process.
LEMMA LiveStep ==
  ASSUME SessionInv, [SessionsNext]_sessionVars
  PROVE  LiveOK'
<1> DEFINE S == {"sending", "early"}
<1> DEFINE Starts == \E u \in Users : user[u].pc \in {"created", "start", "registered"}
<1> DEFINE Reads == \/ pump[mapped] \in {"reading", "leaving", "marked"}
                    \/ \E u \in Users : At(u, "registered") /\ user[u].proc = mapped
<1>t. SessionTypeOK /\ UnbornOK /\ FreshOK /\ Basics /\ OddKept
  BY OddIsKept DEF SessionInv, Basics
<1> SUFFICES ASSUME Clean(S)'
             PROVE  /\ row' = "dead" => Dying' \/ Registers'
                    /\ Deletes' => Dying' \/ Registers' \/ Appends'
                    /\ row' = "deleted" => Dying' /\ ~Starts'
                    /\ mapped' # 0 => mapped' \notin superseded' /\ Reads'
  BY DEF LiveOK
<1>o. Clean(S) /\ "sending" \notin odd' /\ "early" \notin odd'
  BY <1>t, CleanBefore DEF Clean
<1>c. /\ row = "dead" => Dying \/ Registers
      /\ Deletes => Dying \/ Registers \/ Appends
      /\ row = "deleted" => Dying /\ ~Starts
      /\ mapped # 0 => mapped \notin superseded /\ Reads
  BY <1>o DEF SessionInv, LiveOK
<1>p. \A p \in Procs : p # 0
  BY DEF Procs
<1>m. mapped # 0 => mapped \in Procs
  BY <1>t, SessionsAssumption DEF SessionTypeOK, Procs
<1>z. mapped' = 0 => Dying'
  BY DEF Dying
<1> HIDE DEF S
<1> DEFINE Goal == /\ row' = "dead" => Dying' \/ Registers'
                   /\ Deletes' => Dying' \/ Registers' \/ Appends'
                   /\ row' = "deleted" => Dying' /\ ~Starts'
                   /\ mapped' # 0 => mapped' \notin superseded' /\ Reads'
<1>1. ASSUME NEW u \in Users, Create(u) PROVE Goal
  <2>1. row' = "idle" /\ mapped' = mapped /\ row = "unborn"
    BY <1>1, <1>t, CreateDoes
  <2>2. mapped = 0
    BY <2>1, <1>t DEF UnbornOK
  <2> QED
    BY <2>1, <2>2, <1>z
<1>2. ASSUME NEW u \in Users, MapCreated(u) PROVE Goal
  <2>1. /\ Goes(u, "created", "idle") /\ user[u].proc \in Procs
        /\ mapped' = user[u].proc /\ pump' = [pump EXCEPT ![user[u].proc] = "reading"]
        /\ UNCHANGED <<row, superseded>>
    BY <1>2, <1>t, MapCreatedDoes
  <2>2. /\ \A v \in Users \ {u} : At(v, "idle")
        /\ row = "idle" /\ user[u].proc \notin superseded
    BY <2>1, <1>o DEF SessionInv, CreatedOK, Goes, S
  <2>3. ~Deletes'
    BY <2>1, <2>2 DEF Deletes, Goes, Others, At
  <2>4. pump'[mapped'] = "reading"
    BY <2>1, <1>t DEF SessionTypeOK
  <2> QED
    BY <2>1, <2>2, <2>3, <2>4
<1>3. ASSUME NEW u \in Users, SendMapped(u) PROVE Goal
  <2>1. Goes(u, "idle", "append") /\ UNCHANGED <<row, mapped, proc, pump, superseded>>
    BY <1>3, <1>t, SendMappedDoes
  <2>2. (Dying' <=> Dying) /\ Appends' /\ (Registers' <=> Registers) /\ (Starts' => Starts)
        /\ (Reads => Reads')
    BY <2>1 DEF Dying, Leaving, Appends, Registers, Goes, Others, At
  <2> QED
    BY <2>1, <2>2, <1>c
<1>4. ASSUME NEW u \in Users, SendRevives(u) PROVE Goal
  <2>1. Goes(u, "idle", "start") /\ mapped = 0 /\ row \notin Gone /\ UNCHANGED <<row, mapped>>
    BY <1>4, <1>t, SendRevivesDoes
  <2> QED
    BY <2>1, <1>z DEF Gone
<1>5. ASSUME NEW u \in Users, SendRestarts(u) PROVE Goal
  <2>1. /\ Goes(u, "idle", IF row \in Gone THEN "idle" ELSE "start")
        /\ mapped' = 0 /\ row' = row
    BY <1>5, <1>t, SendRestartsDoes
  <2>2. row = "deleted" => Goes(u, "idle", "idle")
    BY <2>1 DEF Gone
  <2>3. row = "deleted" => (Starts' => Starts)
    BY <2>2 DEF Goes, Others
  <2> QED
    BY <2>1, <2>3, <1>z, <1>c
<1>6. ASSUME NEW u \in Users, Register(u) PROVE Goal
  <2>1. UNCHANGED <<row, pump, superseded>> /\ Starts
    BY <1>6, <1>t, RegisterDoes DEF Register, At
  <2>2. CASE \E to \in {"idle", "append"} : Goes(u, "start", to) /\ UNCHANGED <<mapped, proc>>
    <3>1. (Dying' <=> Dying) /\ (Registers' <=> Registers) /\ (Appends => Appends')
          /\ (Deletes' => Deletes) /\ (Reads => Reads')
      BY <2>1, <2>2 DEF Dying, Leaving, Appends, Registers, Deletes, Goes, Others, At
    <3> QED
      BY <2>1, <2>2, <3>1, <1>c
  <2>3. CASE /\ mapped = 0 /\ mapped' \in Procs /\ proc[mapped'] = "none"
             /\ Goes(u, "start", "registered") /\ user'[u].proc = mapped'
    <3>1. Registers' /\ Reads'
      BY <2>3 DEF Registers, Goes, At
    <3>2. mapped' \notin superseded'
      BY <2>1, <2>3, <1>t DEF FreshOK
    <3> QED
      BY <2>1, <3>1, <3>2, <1>c
  <2> QED
    BY <1>6, <2>2, <2>3, <1>t, RegisterDoes
<1>7. ASSUME NEW u \in Users, MarkIdle(u) PROVE Goal
  <2>1. /\ Goes(u, "registered", "append")
        /\ row' = (IF row \in Gone THEN row ELSE "idle")
        /\ user[u].proc \in Procs
        /\ pump' = [pump EXCEPT ![user[u].proc] = "reading"]
        /\ UNCHANGED <<mapped, superseded>>
    BY <1>7, <1>t, MarkIdleDoes
  <2>2. Appends' /\ Starts
    BY <2>1 DEF Appends, Goes, At
  <2>3. row' # "dead" /\ row' # "deleted"
    BY <2>1, <2>2, <1>c DEF Gone
  <2>4. mapped # 0 /\ Reads => Reads'
    BY <2>1, <1>m, <1>t DEF SessionTypeOK, Goes, Others, At
  <2> QED
    BY <2>1, <2>2, <2>3, <2>4, <1>c
<1>8. ASSUME NEW u \in Users, AppendUser(u) PROVE Goal
  <2>1. /\ Goes(u, "append", "idle") /\ ~Deletes
        /\ UNCHANGED <<row, mapped, proc, pump, superseded>>
    BY <1>8, <1>t, <1>o, AppendUserDoes
  <2>2. (Dying' <=> Dying) /\ (Registers' <=> Registers) /\ (Deletes' => Deletes)
        /\ (Starts' => Starts) /\ (Reads => Reads')
    BY <2>1 DEF Dying, Leaving, Registers, Deletes, Goes, Others, At
  <2> QED
    BY <2>1, <2>2, <1>c
<1>9. ASSUME NEW u \in Users, Delete(u) PROVE Goal
  <2>1. /\ Goes(u, "idle", "delete") /\ row \notin Gone /\ Killing
        /\ UNCHANGED <<row, mapped, pump, superseded>>
    BY <1>9, <1>t, DeleteDoes
  <2>2. Dying'
    BY <2>1, <1>t DEF Killing, Dying, SessionTypeOK
  <2>3. Reads => Reads'
    BY <2>1 DEF Goes, Others, At
  <2> QED
    BY <2>1, <2>2, <2>3, <1>c DEF Gone
<1>10. ASSUME NEW u \in Users, Cleanup(u) \/ DeleteMessages(u) \/ DeleteRow(u) PROVE Goal
  <2>1. /\ ~Sending /\ row' \in {row, "deleted"} /\ (row = "dead" \/ Deletes)
        /\ \E from, to \in {"idle", "delete", "deleting"} : Goes(u, from, to)
        /\ UNCHANGED <<mapped, proc, pump, superseded>>
    <3>1. Cleanup(u) => /\ ~Sending /\ row = "dead" /\ Goes(u, "idle", "delete")
                        /\ UNCHANGED <<row, mapped, proc, pump, superseded>>
      BY <1>t, <1>o, CleanupDoes
    <3>2. DeleteMessages(u) => /\ ~Sending /\ Goes(u, "delete", "deleting")
                               /\ UNCHANGED <<row, mapped, proc, pump, superseded>>
      BY <1>t, <1>o, DeleteMessagesDoes
    <3>3. DeleteRow(u) => /\ ~Sending /\ Goes(u, "deleting", "idle") /\ row' = "deleted"
                          /\ UNCHANGED <<mapped, proc, pump, superseded>>
      BY <1>t, <1>o, DeleteRowDoes
    <3>4. DeleteMessages(u) \/ DeleteRow(u) => Deletes
      BY DEF DeleteMessages, DeleteRow, Deletes, At
    <3> QED
      BY <1>10, <3>1, <3>2, <3>3, <3>4
  <2>2. ~Registers /\ ~Appends /\ ~Starts
    BY <2>1 DEF Sending, Registers, Appends, At
  <2>3. Dying /\ (Dying' <=> Dying) /\ ~Starts' /\ (Reads => Reads')
    BY <2>1, <2>2, <1>c DEF Dying, Leaving, Goes, Others, At
  <2> QED
    BY <2>1, <2>3, <1>c
<1>11. ASSUME NEW u \in Users, Kill(u) PROVE Goal
  <2>1. Killing /\ UNCHANGED <<row, mapped, pump, superseded, user>>
    BY <1>11, <1>t, KillDoes
  <2>2. Dying'
    BY <2>1, <1>t DEF Killing, Dying, SessionTypeOK
  <2>3. (Starts' <=> Starts) /\ (Reads <=> Reads')
    BY <2>1 DEF At
  <2> QED
    BY <2>1, <2>2, <2>3, <1>c
\* The processes and pumps keep the session dying, and never touch the users.
<1>12. ASSUME NEW p \in Procs, \/ Die(p) \/ PumpLeaves(p) \/ MarkDead(p)
                               \/ \E status \in {"running", "idle"} : Report(p, status)
       PROVE  Goal
  <2>1. UNCHANGED <<mapped, superseded, user>>
    BY <1>12 DEF Die, PumpLeaves, MarkDead, Report
  <2>2. (Registers' <=> Registers) /\ (Appends' <=> Appends) /\ (Deletes' <=> Deletes) /\ (Starts' <=> Starts)
    BY <2>1 DEF Registers, Appends, Deletes, At
  <2>3. (Dying => Dying') /\ (mapped # 0 /\ Reads => Reads') /\ (row' = "dead" => row = "dead" \/ Dying')
        /\ (row' = "deleted" => row = "deleted")
    <3>1. CASE Die(p)
      <4>1. proc' = [proc EXCEPT ![p] = "dead"] /\ UNCHANGED <<row, pump>>
        BY <3>1 DEF Die, dbVars
      <4> QED
        BY <4>1, <2>1, <1>m, <1>t DEF Dying, Leaving, SessionTypeOK, At
    <3>2. CASE PumpLeaves(p)
      <4>1. /\ pump[p] = "reading" /\ UNCHANGED <<row, proc>>
            /\ pump' = [pump EXCEPT ![p] = IF p \in superseded THEN "left" ELSE "leaving"]
        BY <3>2, <1>t, PumpLeavesDoes
      <4>2. Dying => Dying'
        BY <4>1, <2>1, <1>t DEF Dying, Leaving, SessionTypeOK
      <4>3. mapped # 0 /\ Reads => Reads'
        BY <4>1, <2>1, <1>m, <1>t, <1>c DEF SessionTypeOK, At
      <4> QED
        BY <4>1, <4>2, <4>3
    <3>3. CASE MarkDead(p)
      <4>1. /\ pump[p] = "leaving" /\ pump' = [pump EXCEPT ![p] = "marked"]
            /\ row' = (IF row \in Gone THEN row ELSE "dead")
        BY <3>3, MarkDeadDoes
      <4>2. Dying'
        BY <4>1, <1>t DEF Dying, Leaving, SessionTypeOK
      <4>3. mapped # 0 /\ Reads => Reads'
        BY <4>1, <2>1, <1>m, <1>t DEF SessionTypeOK, At
      <4> QED
        BY <4>1, <4>2, <4>3
    <3>4. ASSUME NEW status \in {"running", "idle"}, Report(p, status)
          PROVE  /\ UNCHANGED <<proc, pump>>
                 /\ row' = (IF row \in Gone THEN row ELSE status)
      BY <3>4, ReportDoes
    <3>5. ASSUME NEW status \in {"running", "idle"}, Report(p, status)
          PROVE  /\ (Dying => Dying') /\ (Reads => Reads') /\ (row' = "dead" => row = "dead")
                 /\ (row' = "deleted" => row = "deleted")
      BY <3>4, <3>5, <2>1 DEF Dying, Leaving, At
    <3> QED
      BY <1>12, <3>1, <3>2, <3>3, <3>5
  <2> QED
    BY <2>1, <2>2, <2>3, <1>c
<1>13. ASSUME NEW p \in Procs, Unmap(p) PROVE Goal
  <2>1. mapped' = 0 /\ UNCHANGED <<row, user>>
    BY <1>13, UnmapDoes
  <2> QED
    BY <2>1, <1>z, <1>c
<1>14. CASE RestartServer
  <2>1. /\ row' = (IF row \in Gone THEN row ELSE "dead") /\ mapped' = 0
        /\ \A u \in Users : user'[u].pc = "idle"
    BY <1>14, <1>t, RestartServerDoes
  <2> QED
    BY <2>1, <1>z
<1>15. CASE Elsewhere \/ UNCHANGED sessionVars
  <2>1. UNCHANGED <<row, mapped, proc, pump, superseded, user>>
    BY <1>15, ElsewhereDoes
  <2> QED
    BY <2>1, <1>c DEF Dying, Leaving, Registers, Appends, Deletes, At
<1> QED
  BY <1>1, <1>2, <1>3, <1>4, <1>5, <1>6, <1>7, <1>8, <1>9, <1>10, <1>11, <1>12, <1>13, <1>14, <1>15
  DEF SessionsNext, Elsewhere

\* A deleted session keeps no messages.
LEMMA WipedStep ==
  ASSUME SessionInv, [SessionsNext]_sessionVars
  PROVE  WipedOK'
<1> DEFINE S == {"sending", "served"}
<1> DEFINE Creates   == \E u \in Users : At(u, "created")
<1> DEFINE Finishing == \E u \in Users : At(u, "deleting")
<1>t. SessionTypeOK /\ UnbornOK /\ FreshOK /\ Basics /\ OddKept
  BY OddIsKept DEF SessionInv, Basics
<1> SUFFICES ASSUME Clean(S)'
             PROVE  /\ Finishing' => /\ ~Creates'
                                     /\ (~Serving' /\ ~messages') \/ Registers' \/ Appends'
                    /\ row' = "deleted" => ~Sending' /\ ~Serving' /\ ~messages'
  BY DEF WipedOK
<1>o. Clean(S) /\ "sending" \notin odd' /\ "served" \notin odd'
  BY <1>t, CleanBefore DEF Clean
<1>c. /\ Finishing => ~Creates /\ ((~Serving /\ ~messages) \/ Registers \/ Appends)
      /\ row = "deleted" => ~Sending /\ ~Serving /\ ~messages
  BY <1>o DEF SessionInv, WipedOK
<1>s. Sending <=> Creates \/ Registers \/ Appends \/ \E u \in Users : At(u, "start")
  BY DEF Sending, Registers, Appends, At
<1> HIDE DEF S
<1> DEFINE Goal == /\ Finishing' => /\ ~Creates'
                                    /\ (~Serving' /\ ~messages') \/ Registers' \/ Appends'
                   /\ row' = "deleted" => ~Sending' /\ ~Serving' /\ ~messages'
<1>1. ASSUME NEW u \in Users, Create(u) PROVE Goal
  <2>1. row' = "idle" /\ row = "unborn" /\ user'[u].pc = "created" /\ Others(u)
    BY <1>1, <1>t, CreateDoes
  <2>2. ~Finishing'
    BY <2>1, <1>t DEF UnbornOK, Others, At
  <2> QED
    BY <2>1, <2>2
<1>2. ASSUME NEW u \in Users, MapCreated(u) PROVE Goal
  <2>1. Goes(u, "created", "idle") /\ row' = row
    BY <1>2, <1>t, MapCreatedDoes
  <2>2. Creates /\ (Finishing' => Finishing)
    BY <2>1 DEF Goes, Others, At
  <2> QED
    BY <2>1, <2>2, <1>c, <1>s
<1>3. ASSUME NEW u \in Users, SendMapped(u) PROVE Goal
  <2>1. Goes(u, "idle", "append") /\ mapped # 0 /\ row' = row
    BY <1>3, <1>t, SendMappedDoes
  <2>2. Appends' /\ (Finishing' => Finishing) /\ (Creates' => Creates)
    BY <2>1 DEF Appends, Goes, Others, At
  <2> QED
    BY <2>1, <2>2, <1>c DEF Serving
<1>4. ASSUME NEW u \in Users, SendRevives(u) PROVE Goal
  <2>1. /\ Goes(u, "idle", "start") /\ row \notin Gone
        /\ UNCHANGED <<row, messages, mapped, proc, pump>>
    BY <1>4, <1>t, SendRevivesDoes
  <2>2. /\ (Finishing' => Finishing) /\ (Creates' => Creates)
        /\ (Registers => Registers') /\ (Appends => Appends')
    BY <2>1 DEF Registers, Appends, Goes, Others, At
  <2> QED
    BY <2>1, <2>2, <1>c DEF Serving, Gone
<1>5. ASSUME NEW u \in Users, SendRestarts(u) PROVE Goal
  <2>1. /\ \E to \in {"idle", "start"} : Goes(u, "idle", to)
        /\ mapped # 0 /\ row' = row
    BY <1>5, <1>t, SendRestartsDoes
  <2>2. /\ (Finishing' => Finishing) /\ (Creates' => Creates)
        /\ (Registers => Registers') /\ (Appends => Appends')
    BY <2>1 DEF Registers, Appends, Goes, Others, At
  <2> QED
    BY <2>1, <2>2, <1>c DEF Serving
<1>6. ASSUME NEW u \in Users, Register(u) PROVE Goal
  <2>1. UNCHANGED <<row, messages, pump>> /\ At(u, "start")
    BY <1>6, <1>t, RegisterDoes DEF Register
  <2>2. row # "deleted"
    BY <2>1, <1>c, <1>s
  <2>3. CASE Goes(u, "start", "idle") /\ UNCHANGED <<mapped, proc>>
    <3>1. /\ (Finishing' => Finishing) /\ (Creates' => Creates)
          /\ (Registers => Registers') /\ (Appends => Appends')
      BY <2>3 DEF Registers, Appends, Goes, Others, At
    <3> QED
      BY <2>1, <2>2, <2>3, <3>1, <1>c DEF Serving
  <2>4. CASE Goes(u, "start", "append") \/ Goes(u, "start", "registered")
    <3>1. /\ (Finishing' => Finishing) /\ (Creates' => Creates) /\ (Registers' \/ Appends')
      BY <2>4 DEF Registers, Appends, Goes, Others, At
    <3> QED
      BY <2>1, <2>2, <3>1, <1>c
  <2> QED
    BY <1>6, <2>3, <2>4, <1>t, RegisterDoes
<1>7. ASSUME NEW u \in Users, MarkIdle(u) PROVE Goal
  <2>1. Goes(u, "registered", "append") /\ row' = (IF row \in Gone THEN row ELSE "idle")
    BY <1>7, <1>t, MarkIdleDoes
  <2>2. Registers /\ Appends' /\ (Finishing' => Finishing) /\ (Creates' => Creates)
    BY <2>1 DEF Registers, Appends, Goes, Others, At
  <2> QED
    BY <2>1, <2>2, <1>c, <1>s
<1>8. ASSUME NEW u \in Users, AppendUser(u) PROVE Goal
  <2>1. Goes(u, "append", "idle") /\ ~Deletes /\ row' = row
    BY <1>8, <1>t, <1>o, AppendUserDoes
  <2>2. ~Finishing' /\ Appends
    BY <2>1 DEF Deletes, Appends, Goes, Others, At
  <2> QED
    BY <2>1, <2>2, <1>c, <1>s
<1>9. ASSUME NEW u \in Users, Delete(u) \/ Cleanup(u) PROVE Goal
  <2>1. /\ Goes(u, "idle", "delete") /\ row # "deleted" /\ (proc' = proc \/ Killing)
        /\ UNCHANGED <<row, messages, mapped, pump>>
    BY <1>9, <1>t, DeleteDoes, CleanupDoes DEF Gone
  <2>2. Serving' => Serving
    BY <2>1, <1>t DEF Serving, Killing, SessionTypeOK
  <2>3. /\ (Finishing' => Finishing) /\ (Creates' => Creates)
        /\ (Registers => Registers') /\ (Appends => Appends')
    BY <2>1 DEF Registers, Appends, Goes, Others, At
  <2> QED
    BY <2>1, <2>2, <2>3, <1>c
<1>10. ASSUME NEW u \in Users, DeleteMessages(u) PROVE Goal
  <2>1. /\ Goes(u, "delete", "deleting") /\ ~Sending /\ ~Serving /\ messages' = FALSE
        /\ UNCHANGED <<row, mapped, proc, pump>>
    BY <1>10, <1>t, <1>o, DeleteMessagesDoes
  <2>2. ~Sending' /\ ~Serving' /\ (Creates' => Creates)
    BY <2>1 DEF Sending, Serving, Goes, Others, At
  <2> QED
    BY <2>1, <2>2, <1>s
<1>11. ASSUME NEW u \in Users, DeleteRow(u) PROVE Goal
  <2>1. /\ Goes(u, "deleting", "idle") /\ ~Sending /\ ~Serving
        /\ UNCHANGED <<messages, mapped, proc, pump>>
    BY <1>11, <1>t, <1>o, DeleteRowDoes
  <2>2. ~messages
    BY <2>1, <1>c, <1>s DEF Goes
  <2>3. ~Sending' /\ ~Serving' /\ (Creates' => Creates)
    BY <2>1 DEF Sending, Serving, Goes, Others, At
  <2> QED
    BY <2>1, <2>2, <2>3, <1>s
\* What only lets processes go.
<1>12. ASSUME \/ \E u \in Users : Kill(u)
              \/ \E p \in Procs : Die(p) \/ MarkDead(p) \/ Unmap(p)
              \/ Elsewhere \/ UNCHANGED sessionVars
       PROVE  Goal
  <2>1. /\ UNCHANGED <<messages, user>> /\ (row' = "deleted" => row = "deleted")
        /\ (Serving' => Serving)
    <3>1. ASSUME NEW u \in Users, Kill(u)
          PROVE  UNCHANGED <<row, messages, user>> /\ (Serving' => Serving)
      <4>1. Killing /\ UNCHANGED <<row, messages, mapped, pump, user>>
        BY <3>1, <1>t, KillDoes
      <4> QED
        BY <4>1, <1>t DEF Serving, Killing, SessionTypeOK
    <3>2. ASSUME NEW p \in Procs, Die(p)
          PROVE  UNCHANGED <<row, messages, user>> /\ (Serving' => Serving)
      <4>1. proc' = [proc EXCEPT ![p] = "dead"] /\ UNCHANGED <<row, messages, mapped, pump, user>>
        BY <3>2 DEF Die, dbVars
      <4> QED
        BY <4>1, <1>t DEF Serving, SessionTypeOK
    <3>3. ASSUME NEW p \in Procs, MarkDead(p)
          PROVE  UNCHANGED <<messages, user>> /\ (Serving' => Serving) /\ (row' = "deleted" => row = "deleted")
      <4>1. /\ pump' = [pump EXCEPT ![p] = "marked"]
            /\ row' = (IF row \in Gone THEN row ELSE "dead")
            /\ UNCHANGED <<messages, mapped, proc, user>>
        BY <3>3, MarkDeadDoes
      <4> QED
        BY <4>1, <1>t DEF Serving, SessionTypeOK
    <3>4. ASSUME NEW p \in Procs, Unmap(p)
          PROVE  UNCHANGED <<row, messages, user>> /\ (Serving' => Serving)
      <4>1. /\ pump' = [pump EXCEPT ![p] = "left"] /\ mapped' = 0
            /\ UNCHANGED <<row, messages, proc, user>>
        BY <3>4, UnmapDoes
      <4> QED
        BY <4>1, <1>t DEF Serving, SessionTypeOK
    <3>5. ASSUME Elsewhere \/ UNCHANGED sessionVars
          PROVE  UNCHANGED <<row, messages, mapped, proc, pump, user>>
      BY <3>5, ElsewhereDoes
    <3> QED
      BY <1>12, <3>1, <3>2, <3>3, <3>4, <3>5 DEF Serving
  <2>2. /\ (Finishing' <=> Finishing) /\ (Creates' <=> Creates) /\ (Sending' <=> Sending)
        /\ (Registers' <=> Registers) /\ (Appends' <=> Appends)
    BY <2>1 DEF Registers, Appends, Sending, At
  <2> QED
    BY <2>1, <2>2, <1>c
\* What stores messages reads a process, and so serves the session.
<1>13. ASSUME NEW p \in Procs,
              PumpLeaves(p) \/ \E status \in {"running", "idle"} : Report(p, status)
       PROVE  Goal
  <2>1. pump[p] = "reading" /\ user' = user /\ (row' = "deleted" => row = "deleted")
    BY <1>13, <1>t, PumpLeavesDoes, ReportDoes
  <2>2. Serving
    BY <2>1 DEF Serving
  <2>3. /\ (Finishing' <=> Finishing) /\ (Creates' <=> Creates)
        /\ (Registers' <=> Registers) /\ (Appends' <=> Appends)
    BY <2>1 DEF Registers, Appends, At
  <2> QED
    BY <2>1, <2>2, <2>3, <1>c
<1>14. CASE RestartServer
  <2>1. /\ row' = (IF row \in Gone THEN row ELSE "dead") /\ mapped' = 0
        /\ \A u \in Users : user'[u].pc = "idle"
        /\ proc' = [p \in Procs |-> IF proc[p] = "none" THEN "none" ELSE "dead"]
        /\ pump' = [p \in Procs |-> IF pump[p] = "none" THEN "none" ELSE "left"]
        /\ UNCHANGED messages
    BY <1>14, <1>t, RestartServerDoes
  <2>2. ~Finishing' /\ ~Sending' /\ ~Serving'
    BY <2>1 DEF Sending, Serving, At
  <2> QED
    BY <2>1, <2>2, <1>c
<1> QED
  BY <1>1, <1>2, <1>3, <1>4, <1>5, <1>6, <1>7, <1>8, <1>9, <1>10, <1>11, <1>12, <1>13, <1>14
  DEF SessionsNext, Elsewhere

\* The row and the process are changed together, or by one that is known.
LEMMA RowStep ==
  ASSUME SessionInv, [SessionsNext]_sessionVars
  PROVE  RowOK'
<1> DEFINE S == {"overtaken", "early", "unstarted", "sending"}
<1> DEFINE Pumps ==
      \A p \in Procs : /\ pump[p] = "reading" /\ p \notin superseded => mapped = p
                       /\ pump[p] \in {"leaving", "marked"} => mapped = p
                       /\ pump[p] = "marked" => row \in Gone \cup {"dead"}
<1> DEFINE Alone ==
      \A u \in Users : At(u, "registered") =>
        /\ mapped = user[u].proc /\ pump[mapped] = "none"
        /\ \A v \in Users : At(v, "registered") => v = u
<1> DEFINE Coming == \E u \in Users : user[u].pc \in {"created", "start"}
<1> DEFINE Told == /\ row = "dead" /\ mapped # 0 => Registers \/ pump[mapped] = "marked"
                   /\ mapped = 0 /\ row \notin Gone /\ row # "dead" => Coming
<1>t. SessionTypeOK /\ UnbornOK /\ FreshOK /\ Basics /\ OddKept
  BY OddIsKept DEF SessionInv, Basics
<1> SUFFICES ASSUME Clean(S)' PROVE Pumps' /\ Alone' /\ Told'
  BY DEF RowOK
<1>o. /\ Clean(S) /\ "overtaken" \notin odd' /\ "early" \notin odd'
      /\ "unstarted" \notin odd' /\ "sending" \notin odd'
  BY <1>t, CleanBefore DEF Clean
<1>c. Pumps /\ Alone /\ Told
  BY <1>o DEF SessionInv, RowOK
<1>p. \A p \in Procs : p # 0
  BY DEF Procs
<1>g. Gone = {"unborn", "deleted"}
  BY DEF Gone
<1> HIDE DEF S
<1> DEFINE Goal == Pumps' /\ Alone' /\ Told'
<1>1. ASSUME NEW u \in Users, Create(u) PROVE Goal
  <2>1. /\ row = "unborn" /\ row' = "idle" /\ UNCHANGED <<mapped, pump, superseded>>
        /\ user'[u].pc = "created" /\ Others(u)
    BY <1>1, <1>t, CreateDoes
  <2>2. mapped = 0 /\ (\A v \in Users : At(v, "idle")) /\ \A p \in Procs : pump[p] = "none"
    BY <2>1, <1>t DEF UnbornOK
  <2>3. Pumps'
    BY <2>1, <2>2
  <2>4. Alone'
    BY <2>1, <2>2 DEF Others, At
  <2>5. Told'
    BY <2>1, <2>2
  <2> QED
    BY <2>3, <2>4, <2>5
<1>2. ASSUME NEW u \in Users, MapCreated(u) PROVE Goal
  <2>1. /\ Goes(u, "created", "idle") /\ user[u].proc \in Procs
        /\ mapped' = user[u].proc /\ pump' = [pump EXCEPT ![user[u].proc] = "reading"]
        /\ UNCHANGED <<row, superseded>>
    BY <1>2, <1>t, MapCreatedDoes
  <2>2. Clean({"sending", "early"})
    BY <1>o, <1>t DEF Clean, OddKept
  <2>3. /\ \A v \in Users \ {u} : At(v, "idle")
        /\ row = "idle" /\ \A p \in Procs : pump[p] = "none"
    BY <2>1, <2>2 DEF SessionInv, CreatedOK, Goes
  <2>4. Pumps'
    BY <2>1, <2>3, <1>t DEF SessionTypeOK
  <2>5. Alone'
    BY <2>1, <2>3 DEF Goes, Others, At
  <2> QED
    BY <2>1, <2>3, <2>4, <2>5, <1>p
<1>3. ASSUME NEW u \in Users, SendMapped(u) PROVE Goal
  <2>1. /\ Goes(u, "idle", "append") /\ mapped # 0
        /\ UNCHANGED <<row, mapped, proc, pump, superseded>>
    BY <1>3, <1>t, SendMappedDoes
  <2>2. Alone' /\ (Registers => Registers')
    BY <2>1, <1>c DEF Registers, Goes, Others, At
  <2> QED
    BY <2>1, <2>2, <1>c
<1>4. ASSUME NEW u \in Users, SendRevives(u) PROVE Goal
  <2>1. /\ Goes(u, "idle", "start") /\ mapped = 0
        /\ UNCHANGED <<row, mapped, proc, pump, superseded>>
    BY <1>4, <1>t, SendRevivesDoes
  <2>2. Alone' /\ Coming'
    BY <2>1, <1>c DEF Goes, Others, At
  <2> QED
    BY <2>1, <2>2, <1>c
<1>5. ASSUME NEW u \in Users, SendRestarts(u) PROVE Goal
  <2>1. /\ Goes(u, "idle", IF row \in Gone THEN "idle" ELSE "start")
        /\ mapped \in Procs /\ mapped' = 0
        /\ superseded' = superseded \cup {mapped} /\ pump[mapped] = "reading"
        /\ UNCHANGED <<row, pump>>
    BY <1>5, <1>t, <1>o, SendRestartsDoes
  <2>2. Pumps'
    BY <2>1, <1>c
  <2>3. \A v \in Users : ~At(v, "registered")
    BY <2>1, <1>c
  <2>4. Alone'
    BY <2>1, <2>3 DEF Goes, Others, At
  <2>5. row \notin Gone => Coming'
    BY <2>1 DEF Goes
  <2> QED
    BY <2>1, <2>2, <2>4, <2>5
<1>6. ASSUME NEW u \in Users, Register(u) PROVE Goal
  <2>1. UNCHANGED <<row, pump, superseded>>
    BY <1>6, <1>t, RegisterDoes
  <2>2. CASE /\ UNCHANGED mapped
             /\ \/ Goes(u, "start", "idle") /\ row = "dead"
                \/ Goes(u, "start", "append") /\ mapped # 0
    <3>1. Alone' /\ (Registers => Registers')
      BY <2>1, <2>2, <1>c DEF Registers, Goes, Others, At
    <3> QED
      BY <2>1, <2>2, <3>1, <1>c
  <2>3. CASE /\ mapped = 0 /\ mapped' \in Procs /\ proc[mapped'] = "none"
             /\ Goes(u, "start", "registered") /\ user'[u].proc = mapped'
    <3>1. Pumps'
      BY <2>1, <2>3, <1>c, <1>p
    <3>2. \A v \in Users : ~At(v, "registered")
      BY <2>3, <1>c, <1>p, <1>t DEF FreshOK, At
    <3>3. pump[mapped'] = "none"
      BY <2>3, <1>t DEF FreshOK
    <3>4. Alone' /\ Registers'
      BY <2>1, <2>3, <3>2, <3>3 DEF Registers, Goes, Others, At
    <3> QED
      BY <2>1, <2>3, <3>1, <3>4, <1>p
  <2> QED
    BY <1>6, <2>2, <2>3, <1>t, <1>o, RegisterDoes
<1>7. ASSUME NEW u \in Users, MarkIdle(u) PROVE Goal
  <2>1. /\ Goes(u, "registered", "append")
        /\ row' = (IF row \in Gone THEN row ELSE "idle")
        /\ user[u].proc \in Procs
        /\ pump' = [pump EXCEPT ![user[u].proc] = "reading"]
        /\ UNCHANGED <<mapped, superseded>>
    BY <1>7, <1>t, MarkIdleDoes
  <2>2. /\ mapped = user[u].proc /\ pump[mapped] = "none"
        /\ \A v \in Users : At(v, "registered") => v = u
    BY <2>1, <1>c DEF Goes
  <2>3. Pumps'
    BY <2>1, <2>2, <1>c, <1>t DEF SessionTypeOK
  <2>4. Alone'
    BY <2>1, <2>2 DEF Goes, Others, At
  <2> QED
    BY <2>1, <2>2, <2>3, <2>4, <1>p, <1>g
<1>8. ASSUME NEW u \in Users,
             AppendUser(u) \/ Delete(u) \/ Cleanup(u) \/ DeleteMessages(u) \/ DeleteRow(u)
      PROVE  Goal
  <2>1. /\ \E from, to \in {"append", "idle", "delete", "deleting"} : Goes(u, from, to)
        /\ row' \in {row, "deleted"} /\ UNCHANGED <<mapped, pump, superseded>>
    BY <1>8, <1>t, AppendUserDoes, DeleteDoes, CleanupDoes, DeleteMessagesDoes, DeleteRowDoes
  <2>2. Alone' /\ (Registers => Registers') /\ (Coming => Coming')
    BY <2>1, <1>c DEF Registers, Goes, Others, At
  <2> QED
    BY <2>1, <2>2, <1>c, <1>g
\* What changes neither the row nor who serves it.
<1>9. ASSUME \/ \E u \in Users : Kill(u)
             \/ \E p \in Procs : Die(p)
             \/ Elsewhere \/ UNCHANGED sessionVars
      PROVE  Goal
  <2>1. UNCHANGED <<row, mapped, pump, superseded, user>>
    BY <1>9, <1>t, KillDoes, ElsewhereDoes DEF Die, dbVars
  <2>2. Registers' <=> Registers
    BY <2>1 DEF Registers, At
  <2> QED
    BY <2>1, <2>2, <1>c DEF At
<1>10. ASSUME NEW p \in Procs, PumpLeaves(p) PROVE Goal
  <2>1. /\ pump[p] = "reading" /\ UNCHANGED <<row, mapped, superseded, user>>
        /\ pump' = [pump EXCEPT ![p] = IF p \in superseded THEN "left" ELSE "leaving"]
    BY <1>10, <1>t, PumpLeavesDoes
  <2>2. p \notin superseded => mapped = p
    BY <2>1, <1>c
  <2>3. Pumps'
    BY <2>1, <2>2, <1>c, <1>t DEF SessionTypeOK
  <2>4. \A q \in Procs : pump[q] # "reading" => pump'[q] = pump[q]
    BY <2>1, <1>t DEF SessionTypeOK
  <2>5. mapped # 0 => mapped \in Procs
    BY <1>t, SessionsAssumption DEF SessionTypeOK, Procs
  <2>6. Alone'
    <3> SUFFICES ASSUME NEW u \in Users, At(u, "registered")
                 PROVE  /\ mapped = user[u].proc /\ pump'[mapped] = "none"
                        /\ \A v \in Users : At(v, "registered") => v = u
      BY <2>1 DEF At
    <3> QED
      BY <2>4, <1>c, <1>t DEF FreshOK, At
  <2>7. Registers' <=> Registers
    BY <2>1 DEF Registers, At
  <2>8. Told'
    BY <2>1, <2>4, <2>5, <2>7, <1>c
  <2> QED
    BY <2>3, <2>6, <2>8
<1>11. ASSUME NEW p \in Procs, MarkDead(p) PROVE Goal
  <2>1. /\ pump[p] = "leaving" /\ pump' = [pump EXCEPT ![p] = "marked"]
        /\ row' = (IF row \in Gone THEN row ELSE "dead")
        /\ UNCHANGED <<mapped, superseded, user>>
    BY <1>11, MarkDeadDoes
  <2>2. mapped = p /\ \A u \in Users : ~At(u, "registered")
    BY <2>1, <1>c
  <2>3. Pumps'
    BY <2>1, <2>2, <1>c, <1>t DEF SessionTypeOK
  <2>4. Alone'
    BY <2>1, <2>2 DEF At
  <2>5. pump'[mapped'] = "marked" /\ mapped' # 0
    BY <2>1, <2>2, <1>t, <1>p DEF SessionTypeOK
  <2> QED
    BY <2>3, <2>4, <2>5
<1>12. ASSUME NEW p \in Procs, Unmap(p) PROVE Goal
  <2>1. /\ pump[p] = "marked" /\ pump' = [pump EXCEPT ![p] = "left"] /\ mapped' = 0
        /\ UNCHANGED <<row, superseded, user>>
    BY <1>12, UnmapDoes
  <2>2. mapped = p /\ row \in Gone \cup {"dead"} /\ \A u \in Users : ~At(u, "registered")
    BY <2>1, <1>c
  <2>3. Pumps'
    BY <2>1, <2>2, <1>c, <1>t DEF SessionTypeOK
  <2>4. Alone'
    BY <2>1, <2>2 DEF At
  <2> QED
    BY <2>1, <2>2, <2>3, <2>4
<1>13. ASSUME NEW p \in Procs, NEW status \in {"running", "idle"}, Report(p, status) PROVE Goal
  <2>1. /\ pump[p] = "reading" /\ p \notin superseded
        /\ row' = (IF row \in Gone THEN row ELSE status)
        /\ UNCHANGED <<mapped, pump, superseded, user>>
    BY <1>13, <1>o, ReportDoes
  <2>2. mapped = p
    BY <2>1, <1>c
  <2>3. Pumps'
    BY <2>1, <2>2, <1>c
  <2>4. Alone'
    BY <2>1, <1>c DEF At
  <2> QED
    BY <2>1, <2>2, <2>3, <2>4, <1>p, <1>g
<1>14. CASE RestartServer
  <2>1. /\ row' = (IF row \in Gone THEN row ELSE "dead") /\ mapped' = 0
        /\ \A u \in Users : user'[u].pc = "idle"
        /\ pump' = [p \in Procs |-> IF pump[p] = "none" THEN "none" ELSE "left"]
    BY <1>14, <1>t, RestartServerDoes
  <2> QED
    BY <2>1 DEF At
<1> QED
  BY <1>1, <1>2, <1>3, <1>4, <1>5, <1>6, <1>7, <1>8, <1>9, <1>10, <1>11, <1>12, <1>13, <1>14
  DEF SessionsNext, Elsewhere
-----------------------------------------------------------------------------
(***************************************************************************)
(* The theorems.                                                           *)
(***************************************************************************)
LEMMA SessionsStart == SessionsInit => SessionInv
<1> SUFFICES ASSUME SessionsInit PROVE SessionInv
  OBVIOUS
<1>1. /\ row = "unborn" /\ messages = FALSE /\ mapped = 0 /\ superseded = {}
      /\ proc = [p \in Procs |-> "none"] /\ pump = [p \in Procs |-> "none"]
      /\ user = [u \in Users |-> NoUser]
  BY DEF SessionsInit
<1>2. NoUser \in [pc : SessionSteps, proc : 0..MaxProcs] /\ NoUser.pc = "idle"
  BY SessionsAssumption DEF NoUser, SessionSteps
<1>3. \A u \in Users : user[u].pc = "idle"
  BY <1>1, <1>2
<1>4. SessionTypeOK
  BY <1>1, <1>2, StepNames DEF SessionTypeOK, UsersTyped
<1>5. UnbornOK /\ FreshOK
  BY <1>1, <1>3 DEF UnbornOK, FreshOK, Procs, At
<1>6. CreatedOK /\ LiveOK
  BY <1>1, <1>3 DEF CreatedOK, LiveOK, Dying, Deletes, At
<1>7. WipedOK /\ RowOK
  BY <1>1, <1>3 DEF WipedOK, RowOK, Gone, At
<1> QED
  BY <1>4, <1>5, <1>6, <1>7 DEF SessionInv, Basics

LEMMA SessionsKeep == SessionInv /\ [SessionsNext]_sessionVars => SessionInv'
BY BasicsStep, CreatedStep, LiveStep, WipedStep, RowStep DEF SessionInv

LEMMA SessionInvHolds == SessionsSpec => []SessionInv
<1>1. SessionsInit => SessionInv
  BY SessionsStart
<1>2. SessionInv /\ [SessionsNext]_sessionVars => SessionInv'
  BY SessionsKeep
<1> QED
  BY <1>1, <1>2, PTL DEF SessionsSpec

LEMMA WholeBecause == SessionInv => DeletionsWhole
<1> SUFFICES ASSUME SessionInv PROVE DeletionsWhole
  OBVIOUS
<1>t. SessionTypeOK /\ UnbornOK /\ FreshOK
  BY DEF SessionInv, Basics
<1>1. LiveHasRowUnlessSending
  <2> SUFFICES ASSUME AtRest, mapped # 0, Clean({"sending", "early"}), row \in Gone PROVE FALSE
    BY DEF LiveHasRowUnlessSending, Clean
  <2>1. mapped \in Procs
    BY <1>t, SessionsAssumption DEF SessionTypeOK, Procs
  <2>2. row = "deleted"
    BY <1>t DEF Gone, UnbornOK
  <2>3. Dying /\ ~Registers
    BY <2>2 DEF SessionInv, LiveOK, Registers, At
  <2>4. pump[mapped] = "reading"
    BY <2>1, <2>3 DEF SessionInv, LiveOK, AtRest, Registers
  <2>5. proc[mapped] \notin {"none", "alive", "closing"}
    BY <2>1, <2>3, <1>t DEF FreshOK, AtRest, Dying, Leaving
  <2> QED
    BY <2>1, <2>4, <2>5, <1>t DEF SessionTypeOK, AtRest
<1>2. DeletedLeavesNothingUnlessServed
  BY DEF DeletedLeavesNothingUnlessServed, SessionInv, WipedOK, Clean
<1> QED
  BY <1>1, <1>2 DEF DeletionsWhole

LEMMA TellsBecause == SessionInv => RowTellsLife
<1> SUFFICES ASSUME SessionInv, AtRest, row \notin Gone,
                    Clean({"overtaken", "early", "unstarted", "sending"})
             PROVE  row = "dead" <=> mapped = 0
  BY DEF RowTellsLife, Clean
<1>t. SessionTypeOK
  BY DEF SessionInv, Basics
<1>1. \A u \in Users : user[u].pc = "idle"
  BY DEF AtRest, At
<1>2. mapped # 0 => mapped \in Procs /\ pump[mapped] # "marked"
  BY <1>t, SessionsAssumption DEF SessionTypeOK, Procs, AtRest
<1> QED
  BY <1>1, <1>2 DEF SessionInv, RowOK, Registers, At

\* A deletion takes the whole session: at rest, no process runs for a session that is
\* deleted, unless a Send had found it before the deletion (or before Create had mapped
\* it), and no messages are left of it, unless it was served while it was deleted
\* (Delete, CleanupOlderThan, DeleteSession and the pump).
THEOREM DeletionTakesAll == SessionsSpec => []DeletionsWhole
BY SessionInvHolds, WholeBecause, PTL

\* At rest the row says "dead" exactly if no process is mapped, on which the cleanup and
\* the list rely; unless a restart failed, or overtook a pump that was leaving, or a
\* Send crossed Create or Delete (Send, restartLocked, register and the pump's exit).
THEOREM RowIsTrue == SessionsSpec => []RowTellsLife
BY SessionInvHolds, TellsBecause, PTL

-----------------------------------------------------------------------------
(***************************************************************************)
(* The list of sessions of a page.                                         *)
(***************************************************************************)
Oddities == {"missed", "crossed", "overtaken", "early", "unstarted", "unsent", "sending"}
Served  == mapped # 0 /\ pump[mapped] \in {"reading", "leaving"}

\* What will still be announced: a turn that a driver has in its channel, the first
\* Send of a process or of one to be started, or the end of the mapped process.
Upcoming ==
  \/ due # {}
  \/ Registers
  \/ row # "dead" /\ \E u \in Users : At(u, "start")
  \/ Served /\ (pump[mapped] = "leaving" \/ proc[mapped] # "alive")
  \/ Served /\ \E u \in Users : At(u, "append") /\ user[u].proc = mapped

Frames == {"idle", "running", "dead"}
WireOK ==
  /\ wire \in Seq(Frames)
  /\ ~watching => wire = <<>>
  /\ row = "unborn" => wire = <<>> /\ list = "none" /\ get \in {"none", "asked"}

\* The last frame under way has the row's status, or else the page has it, or
\* something is coming that will tell; an answer to GET is not from a session that a
\* pump has just marked, which is shown idle until it is unmapped.
LastOK  == wire # <<>> => wire[Len(wire)] = row \/ Upcoming
ShownOK == wire = <<>> /\ get = "none" /\ list # "none" => list = row \/ Upcoming
AnswerOK == wire = <<>> /\ get \notin {"none", "asked"} => \A p \in Procs : pump[p] # "marked"
ListOK  == Clean(Oddities) /\ row \notin Gone => LastOK /\ ShownOK /\ AnswerOK

ListInv == SessionInv /\ WireOK /\ ListOK

\* What a step announces is the last frame, or is lost and noticed.
LEMMA AnnounceDoes ==
  ASSUME NEW status \in Frames, NEW also, Announce(status, also), WireOK
  PROVE  /\ wire' \in Seq(Frames) /\ (~watching' => wire' = <<>>)
         /\ UNCHANGED <<list, get>> /\ odd \subseteq odd'
         /\ row \notin Gone /\ "missed" \notin odd' => wire' = Append(wire, status)
<1>1. wire' \in {wire, Append(wire, status)} /\ (wire' # wire => watching)
  BY DEF Announce, Announced
<1>2. Append(wire, status) \in Seq(Frames)
  BY DEF WireOK
<1>3. row \notin Gone /\ "missed" \notin odd' => watching /\ Len(wire) < WireCap
  BY DEF Announce
<1>4. row \notin Gone /\ "missed" \notin odd' => wire' = Append(wire, status)
  BY <1>3 DEF Announce, Announced
<1> QED
  BY <1>1, <1>2, <1>4 DEF Announce, WireOK

LEMMA LastIsAppended ==
  ASSUME WireOK, NEW status \in Frames, row' = status, wire' = Append(wire, status)
  PROVE  LastOK' /\ ShownOK' /\ AnswerOK'
<1>1. wire' # <<>> /\ wire'[Len(wire')] = status
  BY DEF WireOK
<1> QED
  BY <1>1 DEF LastOK, ShownOK, AnswerOK

LEMMA PageIsKept ==
  ASSUME LastOK, ShownOK, AnswerOK, UNCHANGED <<wire, list, get>>,
         (row' = row /\ (Upcoming => Upcoming')) \/ Upcoming',
         \A p \in Procs : pump'[p] = "marked" => pump[p] = "marked"
  PROVE  LastOK' /\ ShownOK' /\ AnswerOK'
<1>1. LastOK'
  BY DEF LastOK
<1>2. ShownOK'
  BY DEF ShownOK
<1>3. AnswerOK'
  BY DEF AnswerOK
<1> QED
  BY <1>1, <1>2, <1>3

\* Before Create nobody does anything to the session.
LEMMA UnbornIsQuiet ==
  ASSUME Basics, [SessionsNext]_sessionVars, row' = "unborn"
  PROVE  row = "unborn" /\ (RestartServer \/ Elsewhere \/ UNCHANGED sessionVars)
<1>t. UnbornOK
  BY DEF Basics
<1>1. ASSUME NEW u \in Users,
             \/ Create(u) \/ MapCreated(u) \/ SendMapped(u) \/ SendRevives(u) \/ SendRestarts(u)
             \/ Register(u) \/ MarkIdle(u) \/ AppendUser(u)
      PROVE  FALSE
  <2>1. ~Create(u)
    BY DEF Create
  <2>2. row = "unborn"
    BY <1>1, <2>1 DEF MapCreated, SendMapped, SendRevives, SendRestarts, Register, MarkIdle,
       AppendUser, SetStatus, Touch, dbVars
  <2>3. mapped = 0 /\ At(u, "idle") /\ row \in Gone
    BY <2>2, <1>t DEF UnbornOK, Gone
  <2> QED
    BY <1>1, <2>1, <2>3 DEF MapCreated, SendMapped, SendRevives, SendRestarts, Register, MarkIdle,
       AppendUser, At
<1>2. ASSUME NEW u \in Users,
             Kill(u) \/ Delete(u) \/ Cleanup(u) \/ DeleteMessages(u) \/ DeleteRow(u)
      PROVE  FALSE
  <2>1. row = "unborn"
    BY <1>2 DEF Kill, Delete, Cleanup, DeleteMessages, DeleteRow, dbVars
  <2>2. mapped = 0 /\ At(u, "idle") /\ row \in Gone
    BY <2>1, <1>t DEF UnbornOK, Gone
  <2> QED
    BY <1>2, <2>1, <2>2 DEF Kill, Delete, Cleanup, Deletable, DeleteMessages, DeleteRow, At
<1>3. ASSUME NEW p \in Procs, \/ Die(p) \/ PumpLeaves(p) \/ MarkDead(p) \/ Unmap(p)
                              \/ \E status \in {"running", "idle"} : Report(p, status)
      PROVE  FALSE
  <2>1. row = "unborn"
    BY <1>3 DEF Die, PumpLeaves, MarkDead, Unmap, Report, SetStatus, dbVars
  <2>2. proc[p] = "none" /\ pump[p] = "none"
    BY <2>1, <1>t DEF UnbornOK
  <2> QED
    BY <1>3, <2>2 DEF Die, PumpLeaves, MarkDead, Unmap, Report
<1>4. row = "unborn"
  <2>1. CASE RestartServer
    BY <2>1 DEF RestartServer, Restarted
  <2>2. CASE Elsewhere \/ UNCHANGED sessionVars
    BY <2>2, ElsewhereDoes
  <2> QED
    BY <1>1, <1>2, <1>3, <2>1, <2>2 DEF SessionsNext, Elsewhere
<1> QED
  BY <1>1, <1>2, <1>3, <1>4 DEF SessionsNext, Elsewhere

LEMMA WireStep ==
  ASSUME SessionInv, WireOK, [SessionsNext]_sessionVars
  PROVE  WireOK'
<1>b. Basics
  BY DEF SessionInv
<1>1. wire' \in Seq(Frames) /\ (~watching' => wire' = <<>>)
  <2>1. ASSUME NEW u \in Users,
               \/ Create(u) \/ SendMapped(u) \/ SendRevives(u) \/ SendRestarts(u)
               \/ Register(u) \/ MarkIdle(u) \/ AppendUser(u)
        PROVE  UNCHANGED <<wire, watching>>
    BY <2>1 DEF Create, SendMapped, SendRevives, SendRestarts, Register, MarkIdle, AppendUser,
       pageVars
  <2>2. ASSUME NEW u \in Users,
               Kill(u) \/ Delete(u) \/ Cleanup(u) \/ DeleteMessages(u) \/ DeleteRow(u)
        PROVE  UNCHANGED <<wire, watching>>
    BY <2>2 DEF Kill, Delete, Cleanup, DeleteMessages, DeleteRow, pageVars
  <2>3. ASSUME NEW p \in Procs, Die(p) \/ PumpLeaves(p) \/ Unmap(p)
        PROVE  UNCHANGED <<wire, watching>>
    BY <2>3 DEF Die, PumpLeaves, Unmap, pageVars
  <2>4. ASSUME NEW status \in Frames, NEW also, Announce(status, also)
        PROVE  wire' \in Seq(Frames) /\ (~watching' => wire' = <<>>)
    BY <2>4, AnnounceDoes
  <2>5. /\ \A u \in Users : MapCreated(u) => Announce("idle", {})
        /\ \A p \in Procs : MarkDead(p) => Announce("dead", {})
        /\ \A p \in Procs : \A status \in {"running", "idle"} :
             Report(p, status) => Announce(status, {w \in {"overtaken"} : p \in superseded})
    BY DEF MapCreated, MarkDead, Report
  <2>6. CASE RestartServer \/ Disconnect
    <3>1. wire' = <<>>
      BY <2>6 DEF RestartServer, Disconnect
    <3> QED
      BY <3>1
  <2>7. CASE ReceiveFrame
    <3>1. wire # <<>> /\ wire' = Tail(wire) /\ watching' = watching
      BY <2>7 DEF ReceiveFrame
    <3> QED
      BY <3>1 DEF WireOK
  <2>8. CASE Reconnect
    BY <2>8 DEF Reconnect, WireOK
  <2>9. CASE Age \/ AskList \/ AnswerList \/ ReceiveList \/ UNCHANGED sessionVars
    BY <2>9 DEF Age, AskList, AnswerList, ReceiveList, sessionVars, pageVars, WireOK
  <2>10. UNCHANGED <<wire, watching>> => wire' \in Seq(Frames) /\ (~watching' => wire' = <<>>)
    BY DEF WireOK
  <2>11. {"running", "idle", "dead"} = Frames
    BY DEF Frames
  <2> QED
    BY <2>1, <2>2, <2>3, <2>4, <2>5, <2>6, <2>7, <2>8, <2>9, <2>10, <2>11 DEF SessionsNext
<1>2. ASSUME row' = "unborn"
      PROVE  wire' = <<>> /\ list' = "none" /\ get' \in {"none", "asked"}
  <2>1. row = "unborn" /\ (RestartServer \/ Elsewhere \/ UNCHANGED sessionVars)
    BY <1>2, <1>b, UnbornIsQuiet
  <2>2. wire = <<>> /\ list = "none" /\ get \in {"none", "asked"} /\ Shown = "none"
    BY <2>1 DEF WireOK, Shown, Gone
  <2>3. CASE RestartServer
    BY <2>2, <2>3 DEF RestartServer
  <2>4. CASE Elsewhere
    BY <2>2, <2>4 DEF Elsewhere, Age, AskList, AnswerList, ReceiveList, ReceiveFrame, Disconnect,
       Reconnect, pageVars
  <2>5. CASE UNCHANGED sessionVars
    BY <2>2, <2>5 DEF sessionVars, pageVars
  <2> QED
    BY <2>1, <2>3, <2>4, <2>5
<1> QED
  BY <1>1, <1>2 DEF WireOK

\* What the invariant says of the mapped process, as long as nothing odd has happened.
LEMMA WhoServes ==
  ASSUME SessionInv, Clean(Oddities), row \notin Gone
  PROVE  /\ mapped # 0 => mapped \in Procs /\ mapped \notin superseded
         /\ mapped # 0 => Registers \/ Served \/ (pump[mapped] = "marked" /\ row = "dead")
         /\ \A p \in Procs : /\ pump[p] = "reading" /\ p \notin superseded => mapped = p
                             /\ pump[p] \in {"leaving", "marked"} => mapped = p
                             /\ pump[p] = "marked" => row = "dead"
         /\ \A u \in Users : At(u, "registered") => mapped = user[u].proc /\ pump[mapped] = "none"
         /\ row = "dead" /\ mapped # 0 => Registers \/ pump[mapped] = "marked"
<1>1. Clean({"sending", "early"}) /\ Clean({"overtaken", "early", "unstarted", "sending"})
  BY DEF Clean, Oddities
<1>2. mapped # 0 => mapped \in Procs
  BY SessionsAssumption DEF SessionInv, Basics, SessionTypeOK, Procs
<1>3. mapped # 0 =>
        /\ mapped \notin superseded
        /\ \/ pump[mapped] \in {"reading", "leaving", "marked"}
           \/ \E u \in Users : At(u, "registered") /\ user[u].proc = mapped
  BY <1>1 DEF SessionInv, LiveOK
<1>4. /\ \A p \in Procs : /\ pump[p] = "reading" /\ p \notin superseded => mapped = p
                          /\ pump[p] \in {"leaving", "marked"} => mapped = p
                          /\ pump[p] = "marked" => row = "dead"
      /\ \A u \in Users : At(u, "registered") => mapped = user[u].proc /\ pump[mapped] = "none"
      /\ row = "dead" /\ mapped # 0 => Registers \/ pump[mapped] = "marked"
  BY <1>1 DEF SessionInv, RowOK
<1>5. mapped # 0 => Registers \/ Served \/ (pump[mapped] = "marked" /\ row = "dead")
  BY <1>2, <1>3, <1>4 DEF Registers, Served
<1> QED
  BY <1>2, <1>3, <1>4, <1>5

\* A request goes on, and nothing else changes of what is upcoming.
LEMMA OthersGoOn ==
  ASSUME SessionTypeOK, NEW u \in Users, Others(u), Upcoming, ~At(u, "registered"), ~At(u, "append"),
         row = "dead" \/ ~At(u, "start"),
         UNCHANGED <<row, mapped, pump, due>>, proc' = proc \/ Killing
  PROVE  Upcoming'
<1>1. CASE due # {}
  BY <1>1 DEF Upcoming
<1>2. CASE Registers
  BY <1>2 DEF Registers, Upcoming, Others, At
<1>3. CASE row # "dead" /\ \E v \in Users : At(v, "start")
  BY <1>3 DEF Upcoming, Others, At
<1>4. CASE Served /\ (pump[mapped] = "leaving" \/ proc[mapped] # "alive")
  <2>1. Served' /\ (pump'[mapped'] = "leaving" \/ proc[mapped] # "alive")
    BY <1>4 DEF Served
  <2>2. proc[mapped] # "alive" => proc'[mapped] # "alive"
    BY DEF Killing, SessionTypeOK
  <2> QED
    BY <2>1, <2>2 DEF Upcoming
<1>5. CASE Served /\ \E v \in Users : At(v, "append") /\ user[v].proc = mapped
  BY <1>5 DEF Served, Upcoming, Others, At
<1> QED
  BY <1>1, <1>2, <1>3, <1>4, <1>5 DEF Upcoming

\* The steps keep it: the requests first.
LEMMA RequestsTell ==
  ASSUME ListInv, Clean(Oddities), Clean(Oddities)', row \notin Gone, row' \notin Gone,
         LastOK, ShownOK, AnswerOK, NEW u \in Users,
         \/ MapCreated(u) \/ SendMapped(u) \/ SendRevives(u) \/ SendRestarts(u)
         \/ Register(u) \/ MarkIdle(u) \/ AppendUser(u)
  PROVE  LastOK' /\ ShownOK' /\ AnswerOK'
<1>t. SessionInv /\ WireOK /\ Basics /\ SessionTypeOK /\ FreshOK
  BY DEF ListInv, SessionInv, Basics
<1>o. \A w \in Oddities : w \notin odd /\ w \notin odd'
  BY DEF Clean
<1>w. /\ mapped # 0 => mapped \in Procs /\ mapped \notin superseded
      /\ mapped # 0 => Registers \/ Served \/ (pump[mapped] = "marked" /\ row = "dead")
      /\ \A v \in Users : At(v, "registered") => mapped = user[v].proc /\ pump[mapped] = "none"
      /\ row = "dead" /\ mapped # 0 => Registers \/ pump[mapped] = "marked"
  BY <1>t, WhoServes
<1> DEFINE Goal == LastOK' /\ ShownOK' /\ AnswerOK'
<1>1. CASE MapCreated(u)
  <2>1. At(u, "created") /\ row' = row /\ Announce("idle", {})
    BY <1>1 DEF MapCreated, dbVars
  <2>2. row = "idle"
    BY <2>1, <1>t, <1>o DEF SessionInv, CreatedOK, Clean, Oddities
  <2>3. wire' = Append(wire, "idle")
    BY <2>1, <1>t, <1>o, AnnounceDoes DEF Oddities, Frames
  <2> QED
    BY <2>1, <2>2, <2>3, <1>t, LastIsAppended DEF Frames
<1>2. CASE SendMapped(u) \/ SendRevives(u)
  <2>1. At(u, "idle") /\ UNCHANGED <<row, mapped, proc, pump, due, wire, list, get>>
    BY <1>2 DEF SendMapped, SendRevives, dbVars, procVars, pageVars
  <2>2. Others(u)
    BY <1>2, <1>t, SendMappedDoes, SendRevivesDoes DEF Goes
  <2>3. Upcoming => Upcoming'
    BY <2>1, <2>2, <1>t, OthersGoOn DEF At
  <2> QED
    BY <2>1, <2>3, PageIsKept
<1>3. CASE SendRestarts(u)
  <2>1. /\ Goes(u, "idle", "start") /\ mapped # 0 /\ pump[mapped] = "reading"
        /\ UNCHANGED <<row, pump>>
    BY <1>3, <1>t, <1>o, SendRestartsDoes DEF Oddities
  <2>2. UNCHANGED <<wire, list, get>>
    BY <1>3 DEF SendRestarts, pageVars
  <2>3. row # "dead"
    BY <2>1, <1>w DEF Registers
  <2>4. Upcoming'
    BY <2>1, <2>3 DEF Upcoming, Goes, At
  <2> QED
    BY <2>1, <2>2, <2>4, PageIsKept
<1>4. CASE Register(u)
  <2>1. UNCHANGED <<row, pump, due, wire, list, get>>
    BY <1>4 DEF Register, dbVars, pageVars
  <2>2. CASE Goes(u, "start", "idle") /\ row = "dead" /\ UNCHANGED <<mapped, proc>>
    <3>1. Upcoming => Upcoming'
      BY <2>1, <2>2, <1>t, OthersGoOn DEF Goes, At
    <3> QED
      BY <2>1, <3>1, PageIsKept
  <2>3. CASE /\ Goes(u, "start", "append") /\ user'[u].proc = mapped
             /\ mapped # 0 /\ UNCHANGED <<mapped, proc>>
    <3>1. CASE Registers
      <4>1. Registers'
        BY <2>3, <3>1 DEF Registers, Goes, Others, At
      <4> QED
        BY <4>1, <2>1, PageIsKept DEF Upcoming
    <3>2. CASE Served
      <4>1. Served' /\ At(u, "append")' /\ user'[u].proc = mapped'
        BY <2>1, <2>3, <3>2 DEF Served, Goes, At
      <4> QED
        BY <4>1, <2>1, PageIsKept DEF Upcoming
    <3>3. CASE row = "dead"
      <4>1. Upcoming => Upcoming'
        BY <2>1, <2>3, <3>3, <1>t, OthersGoOn DEF Goes, At
      <4> QED
        BY <2>1, <4>1, PageIsKept
    <3> QED
      BY <2>3, <3>1, <3>2, <3>3, <1>w
  <2>4. CASE Goes(u, "start", "registered")
    <3>1. Registers'
      BY <2>4 DEF Registers, Goes, At
    <3> QED
      BY <2>1, <3>1, PageIsKept DEF Upcoming
  <2>5. Goes(u, "start", "append") /\ mapped # 0 /\ UNCHANGED <<mapped, proc>> => user'[u].proc = mapped
    <3>1. CASE Goto(u, "append", mapped)
      BY <3>1, <1>t, GotoDoes, StepNames DEF SessionTypeOK
    <3>2. CASE Goto(u, "idle", 0) \/ Goto(u, "registered", Spawn)
      BY <3>2, <1>t, SpawnUnused DEF Goto, NoUser, Goes, SessionTypeOK, UsersTyped
    <3> QED
      BY <1>4, <3>1, <3>2 DEF Register
  <2> QED
    BY <1>4, <1>t, <1>o, <2>2, <2>3, <2>4, <2>5, RegisterDoes DEF Oddities
<1>5. CASE MarkIdle(u)
  <2>1. /\ Goes(u, "registered", "append") /\ user[u].proc \in Procs
        /\ pump' = [pump EXCEPT ![user[u].proc] = "reading"] /\ mapped' = mapped
    BY <1>5, <1>t, MarkIdleDoes
  <2>2. UNCHANGED <<wire, list, get>> /\ Goto(u, "append", user[u].proc)
    BY <1>5 DEF MarkIdle, pageVars
  <2>3. user'[u].proc = user[u].proc
    BY <2>1, <2>2, <1>t, GotoDoes, StepNames DEF Procs
  <2>4. mapped = user[u].proc /\ mapped # 0
    BY <2>1, <1>w DEF Goes, Procs
  <2>5. Served' /\ At(u, "append")' /\ user'[u].proc = mapped'
    BY <2>1, <2>3, <2>4, <1>t DEF Served, Goes, At, SessionTypeOK
  <2>6. \A p \in Procs : pump'[p] = "marked" => pump[p] = "marked"
    BY <2>1, <1>t DEF SessionTypeOK
  <2> QED
    BY <2>2, <2>5, <2>6, PageIsKept DEF Upcoming
<1>6. CASE AppendUser(u)
  <2>1. Goes(u, "append", "idle") /\ UNCHANGED <<row, mapped, proc, pump>>
    BY <1>6, <1>t, AppendUserDoes
  <2>2. /\ UNCHANGED <<wire, list, get>>
        /\ due' = due \cup {p \in {user[u].proc} : proc[p] \in {"alive", "closing"}}
    BY <1>6, <1>o DEF AppendUser, pageVars, Oddities
  <2>3. ASSUME Upcoming PROVE Upcoming'
    <3>1. CASE due # {}
      BY <2>2, <3>1 DEF Upcoming
    <3>2. CASE Registers
      BY <2>1, <3>2 DEF Registers, Upcoming, Goes, Others, At
    <3>3. CASE row # "dead" /\ \E v \in Users : At(v, "start")
      BY <2>1, <3>3 DEF Upcoming, Goes, Others, At
    <3>4. CASE Served /\ (pump[mapped] = "leaving" \/ proc[mapped] # "alive")
      BY <2>1, <3>4 DEF Served, Upcoming
    <3>5. CASE Served /\ \E v \in Users : At(v, "append") /\ user[v].proc = mapped
      <4>1. CASE proc[mapped] \in {"alive", "closing"} /\ user[u].proc = mapped
        BY <4>1, <2>2 DEF Upcoming
      <4>2. CASE proc[mapped] \notin {"alive", "closing"}
        BY <4>2, <2>1, <3>5 DEF Served, Upcoming
      <4>3. CASE user[u].proc # mapped
        BY <4>3, <2>1, <3>5 DEF Served, Upcoming, Goes, Others, At
      <4> QED
        BY <4>1, <4>2, <4>3
    <3> QED
      BY <2>3, <3>1, <3>2, <3>3, <3>4, <3>5 DEF Upcoming
  <2> QED
    BY <2>1, <2>2, <2>3, PageIsKept
<1> QED
  BY <1>1, <1>2, <1>3, <1>4, <1>5, <1>6

\* What ends a session.
LEMMA EndsTell ==
  ASSUME ListInv, Clean(Oddities), Clean(Oddities)', row \notin Gone, row' \notin Gone,
         LastOK, ShownOK, AnswerOK, NEW u \in Users,
         Kill(u) \/ Delete(u) \/ Cleanup(u) \/ DeleteMessages(u) \/ DeleteRow(u)
  PROVE  LastOK' /\ ShownOK' /\ AnswerOK'
<1>t. SessionInv /\ WireOK /\ Basics /\ SessionTypeOK
  BY DEF ListInv, SessionInv, Basics
<1>w. /\ mapped # 0 => mapped \in Procs
      /\ mapped # 0 => Registers \/ Served \/ (pump[mapped] = "marked" /\ row = "dead")
  BY <1>t, WhoServes
<1>1. CASE Delete(u) \/ Cleanup(u) \/ DeleteMessages(u)
  <2>1. /\ user[u].pc \in {"idle", "delete"} /\ UNCHANGED <<row, mapped, pump, due, wire, list, get>>
        /\ proc' = proc \/ Closing
    BY <1>1 DEF Delete, Cleanup, DeleteMessages, dbVars, procVars, pageVars, At
  <2>2. Others(u)
    BY <1>1, <1>t, DeleteDoes, CleanupDoes, DeleteMessagesDoes DEF Goes
  <2>3. proc' = proc \/ Killing
    BY <2>1, <1>t, ClosingKills
  <2>4. Upcoming => Upcoming'
    BY <2>1, <2>2, <2>3, <1>t, OthersGoOn DEF At
  <2> QED
    BY <2>1, <2>4, PageIsKept
<1>2. CASE DeleteRow(u)
  BY <1>2 DEF DeleteRow, Gone
<1>3. CASE Kill(u)
  <2>1. /\ UNCHANGED <<row, mapped, pump, due, user, wire, get>> /\ mapped # 0
        /\ list' = IF list = "none" THEN "none" ELSE "dead"
    BY <1>3 DEF Kill, dbVars
  <2>2. Killing /\ mapped \in Procs /\ At(u, "idle")
    BY <2>1, <1>3, <1>t, <1>w, ClosingKills DEF Kill
  <2>3. Upcoming => Upcoming'
    BY <2>1, <2>2, <1>t, OthersGoOn DEF Others, At
  <2>4. row = "dead" \/ Upcoming'
    <3>1. CASE Registers
      BY <2>1, <2>2, <3>1, <1>t, OthersGoOn DEF Upcoming, Others, At
    <3>2. CASE Served
      <4>1. proc'[mapped] # "alive"
        BY <2>1, <2>2, <1>t DEF Killing, SessionTypeOK
      <4> QED
        BY <2>1, <3>2, <4>1 DEF Served, Upcoming
    <3> QED
      BY <2>1, <3>1, <3>2, <1>w
  <2>5. LastOK'
    BY <2>1, <2>3 DEF LastOK
  <2>6. ShownOK'
    BY <2>1, <2>4 DEF ShownOK
  <2>7. AnswerOK'
    BY <2>1 DEF AnswerOK
  <2> QED
    BY <2>5, <2>6, <2>7
<1> QED
  BY <1>1, <1>2, <1>3

\* A process and its pump.
LEMMA PumpsTell ==
  ASSUME ListInv, Clean(Oddities), Clean(Oddities)', row \notin Gone, row' \notin Gone,
         LastOK, ShownOK, AnswerOK, NEW p \in Procs,
         \/ Die(p) \/ PumpLeaves(p) \/ MarkDead(p) \/ Unmap(p)
         \/ \E status \in {"running", "idle"} : Report(p, status)
  PROVE  LastOK' /\ ShownOK' /\ AnswerOK'
<1>t. SessionInv /\ WireOK /\ Basics /\ SessionTypeOK
  BY DEF ListInv, SessionInv, Basics
<1>o. "missed" \notin odd' /\ "overtaken" \notin odd'
  BY DEF Clean, Oddities
<1>w. /\ mapped # 0 => mapped \in Procs /\ mapped \notin superseded
      /\ pump[p] \in {"leaving", "marked"} => mapped = p
      /\ pump[p] = "marked" => row = "dead"
      /\ \A v \in Users : At(v, "registered") => mapped = user[v].proc /\ pump[mapped] = "none"
  BY <1>t, WhoServes
<1>1. CASE Die(p)
  <2>1. /\ UNCHANGED <<row, mapped, pump, due, user, wire, list, get>>
        /\ proc' = [proc EXCEPT ![p] = "dead"]
    BY <1>1 DEF Die, dbVars, pageVars
  <2>2. proc[mapped] # "alive" => proc'[mapped] # "alive"
    BY <2>1, <1>t DEF SessionTypeOK
  <2>3. Upcoming => Upcoming'
    BY <2>1, <2>2 DEF Upcoming, Registers, Served, At
  <2> QED
    BY <2>1, <2>3, PageIsKept
<1>2. CASE PumpLeaves(p)
  <2>1. /\ pump[p] = "reading" /\ proc[p] = "dead"
        /\ pump' = [pump EXCEPT ![p] = IF p \in superseded THEN "left" ELSE "leaving"]
        /\ UNCHANGED <<row, mapped, proc, superseded, user>>
    BY <1>2, <1>t, PumpLeavesDoes
  <2>2. UNCHANGED <<due, wire, list, get>>
    BY <1>2 DEF PumpLeaves, pageVars
  <2>3. Served => Served' /\ (pump[mapped] = "leaving" => pump'[mapped] = "leaving")
    BY <2>1, <1>w, <1>t DEF Served, SessionTypeOK
  <2>4. Upcoming => Upcoming'
    BY <2>1, <2>2, <2>3 DEF Upcoming, Registers, At
  <2>5. \A q \in Procs : pump'[q] = "marked" => pump[q] = "marked"
    BY <2>1, <1>t DEF SessionTypeOK
  <2> QED
    BY <2>1, <2>2, <2>4, <2>5, PageIsKept
<1>3. CASE MarkDead(p)
  <2>1. Announce("dead", {}) /\ row' = "dead"
    BY <1>3 DEF MarkDead, SetStatus
  <2>2. wire' = Append(wire, "dead")
    BY <2>1, <1>t, <1>o, AnnounceDoes DEF Frames
  <2> QED
    BY <2>1, <2>2, <1>t, LastIsAppended DEF Frames
<1>4. CASE Unmap(p)
  <2>1. /\ pump[p] = "marked" /\ pump' = [pump EXCEPT ![p] = "left"]
        /\ UNCHANGED <<row, due, user, wire, list, get>>
    BY <1>4 DEF Unmap, dbVars, pageVars
  <2>2. mapped = p /\ row = "dead" /\ ~Registers
    BY <2>1, <1>w DEF Registers
  <2>3. Upcoming => due # {}
    BY <2>1, <2>2 DEF Upcoming, Served
  <2>4. Upcoming => Upcoming'
    BY <2>1, <2>3 DEF Upcoming
  <2>5. \A q \in Procs : pump'[q] = "marked" => pump[q] = "marked"
    BY <2>1, <1>t DEF SessionTypeOK
  <2> QED
    BY <2>1, <2>4, <2>5, PageIsKept
<1>5. ASSUME NEW status \in {"running", "idle"}, Report(p, status)
      PROVE  LastOK' /\ ShownOK' /\ AnswerOK'
  <2>1. Announce(status, {w \in {"overtaken"} : p \in superseded}) /\ row' = status
    BY <1>5 DEF Report, SetStatus
  <2>2. status \in Frames
    BY DEF Frames
  <2>3. wire' = Append(wire, status)
    BY <2>1, <2>2, <1>t, <1>o, AnnounceDoes
  <2> QED
    BY <2>1, <2>2, <2>3, <1>t, LastIsAppended
<1> QED
  BY <1>1, <1>2, <1>3, <1>4, <1>5

\* The page: its GETs, its frames and its connection.
LEMMA PageTells ==
  ASSUME ListInv, Clean(Oddities), Clean(Oddities)', row \notin Gone,
         LastOK, ShownOK, AnswerOK, Elsewhere \/ UNCHANGED sessionVars
  PROVE  LastOK' /\ ShownOK' /\ AnswerOK'
<1>t. SessionInv /\ WireOK /\ SessionTypeOK
  BY DEF ListInv, SessionInv, Basics
<1>o. "missed" \notin odd' /\ "crossed" \notin odd'
  BY DEF Clean, Oddities
<1>w. /\ mapped # 0 => mapped \in Procs
      /\ row = "dead" /\ mapped # 0 => Registers \/ pump[mapped] = "marked"
  BY <1>t, WhoServes
<1>1. UNCHANGED <<row, mapped, proc, pump, user>>
  BY ElsewhereDoes
<1>2. due' = due
  BY DEF Elsewhere, Age, AskList, AnswerList, ReceiveList, ReceiveFrame, Disconnect, Reconnect,
     sessionVars, procVars
<1>3. Upcoming' <=> Upcoming
  BY <1>1, <1>2 DEF Upcoming, Registers, Served, At
<1>4. CASE UNCHANGED <<wire, list, get>>
  BY <1>1, <1>3, <1>4, PageIsKept
<1>5. CASE AskList
  <2>1. UNCHANGED <<wire, list>> /\ get' = "asked"
    BY <1>5 DEF AskList
  <2> QED
    BY <2>1, <1>1, <1>3 DEF LastOK, ShownOK, AnswerOK
<1>6. CASE AnswerList
  <2>1. UNCHANGED <<wire, list>> /\ get' = Shown /\ ~Leaving
    BY <1>6, <1>o DEF AnswerList, Odd
  <2>2. Shown # "none"
    BY <1>t DEF Shown, SessionTypeOK
  <2>3. \A p \in Procs : pump'[p] # "marked"
    BY <2>1, <1>1 DEF Leaving
  <2> QED
    BY <2>1, <2>2, <2>3, <1>1, <1>3 DEF LastOK, ShownOK, AnswerOK
<1>7. CASE ReceiveList
  <2>1. /\ get \notin {"none", "asked"} /\ wire' = wire /\ list' = get /\ get' = "none"
        /\ get = Shown
    BY <1>7, <1>o DEF ReceiveList, Odd
  <2>2. wire = <<>> => Shown = row \/ Registers
    <3> SUFFICES ASSUME wire = <<>> PROVE Shown = row \/ Registers
      OBVIOUS
    <3>1. row \in {"idle", "running", "dead"}
      BY <1>t DEF SessionTypeOK, Gone
    <3>2. \A p \in Procs : pump[p] # "marked"
      BY <2>1 DEF AnswerOK
    <3> QED
      BY <3>1, <3>2, <1>w DEF Shown
  <2>3. wire = <<>> => list' = row \/ Upcoming
    BY <2>1, <2>2 DEF Upcoming
  <2> QED
    BY <2>1, <2>3, <1>1, <1>3 DEF LastOK, ShownOK, AnswerOK
<1>8. CASE ReceiveFrame
  <2>1. /\ wire # <<>> /\ wire' = Tail(wire) /\ get = "none" /\ get' = "none"
        /\ list' = IF list = "none" THEN "none" ELSE Head(wire)
    BY <1>8, <1>o DEF ReceiveFrame, Odd
  <2>2. Len(wire) \in Nat \ {0} /\ wire' \in Seq(Frames) /\ Head(wire) = wire[1]
    BY <2>1, <1>t DEF WireOK
  <2>3. Len(wire') = Len(wire) - 1 /\ \A i \in 1..(Len(wire) - 1) : wire'[i] = wire[i + 1]
    BY <2>1, <1>t, HeadTailProperties DEF WireOK
  <2>4. wire' = <<>> => Head(wire) = wire[Len(wire)]
    <3> SUFFICES ASSUME wire' = <<>> PROVE Len(wire) = 1
      BY <2>2
    <3>1. Len(wire') = 0
      OBVIOUS
    <3> QED
      BY <3>1, <2>2, <2>3
  <2>5. wire' # <<>> => wire'[Len(wire')] = wire[Len(wire)]
    <3>1. wire' # <<>> => Len(wire') # 0
      BY <2>2
    <3> QED
      BY <3>1, <2>2, <2>3
  <2> QED
    BY <2>1, <2>4, <2>5, <1>1, <1>3 DEF LastOK, ShownOK, AnswerOK
<1>9. CASE Disconnect
  <2>1. wire' = wire /\ UNCHANGED <<list, get>>
    BY <1>9, <1>o DEF Disconnect, Odd
  <2> QED
    BY <2>1, <1>4
<1>10. CASE Reconnect
  <2>1. UNCHANGED <<wire, list>> /\ (get' = get \/ get' = "asked") /\ wire = <<>>
    BY <1>10, <1>t DEF Reconnect, WireOK
  <2> QED
    BY <2>1, <1>4 DEF LastOK, ShownOK, AnswerOK
<1> QED
  BY <1>4, <1>5, <1>6, <1>7, <1>8, <1>9, <1>10 DEF Elsewhere, Age, sessionVars, pageVars

LEMMA ListStep ==
  ASSUME ListInv, [SessionsNext]_sessionVars
  PROVE  ListOK'
<1>t. SessionInv /\ WireOK /\ ListOK /\ Basics
  BY DEF ListInv, SessionInv
<1> SUFFICES ASSUME Clean(Oddities)', row' \notin Gone
             PROVE  LastOK' /\ ShownOK' /\ AnswerOK'
  BY DEF ListOK
<1>1. CASE Reconnect
  <2>1. wire = <<>> /\ wire' = wire
    BY <1>1, <1>t DEF Reconnect, WireOK
  <2>2. CASE get' = "asked"
    BY <2>1, <2>2 DEF LastOK, ShownOK, AnswerOK
  <2>3. CASE odd' = odd
    <3>1. Clean(Oddities) /\ row \notin Gone
      BY <1>1, <2>3 DEF Clean, Reconnect, dbVars
    <3> QED
      BY <1>1, <1>t, <3>1, PageTells DEF ListOK, Elsewhere
  <2> QED
    BY <1>1, <2>2, <2>3 DEF Reconnect
<1>2. CASE ~Reconnect
  <2>1. odd \subseteq odd'
    <3>1. ASSUME NEW u \in Users,
                 \/ Create(u) \/ MapCreated(u) \/ SendMapped(u) \/ SendRevives(u) \/ SendRestarts(u)
                 \/ Register(u) \/ MarkIdle(u) \/ AppendUser(u)
          PROVE  odd \subseteq odd'
      BY <3>1 DEF Create, MapCreated, SendMapped, SendRevives, SendRestarts, Register, MarkIdle,
         AppendUser, Announce, Odd
    <3>2. ASSUME NEW u \in Users,
                 Kill(u) \/ Delete(u) \/ Cleanup(u) \/ DeleteMessages(u) \/ DeleteRow(u)
          PROVE  odd \subseteq odd'
      BY <3>2 DEF Kill, Delete, Cleanup, DeleteMessages, DeleteRow, Odd
    <3>3. ASSUME NEW p \in Procs, \/ Die(p) \/ PumpLeaves(p) \/ MarkDead(p) \/ Unmap(p)
                                  \/ \E status \in {"running", "idle"} : Report(p, status)
          PROVE  odd \subseteq odd'
      BY <3>3 DEF Die, PumpLeaves, MarkDead, Unmap, Report, Announce
    <3>4. CASE \/ Age \/ AskList \/ AnswerList \/ ReceiveList \/ ReceiveFrame
               \/ Disconnect \/ RestartServer \/ UNCHANGED sessionVars
      BY <3>4 DEF Age, AskList, AnswerList, ReceiveList, ReceiveFrame, Disconnect, RestartServer,
         sessionVars, Odd
    <3> QED
      BY <1>2, <3>1, <3>2, <3>3, <3>4 DEF SessionsNext
  <2>2. Clean(Oddities)
    BY <2>1 DEF Clean
  <2>3. CASE row \in Gone
    <3>1. ASSUME NEW u \in Users, Create(u) PROVE LastOK' /\ ShownOK' /\ AnswerOK'
      <4>1. row = "unborn" /\ UNCHANGED <<wire, list, get>>
        BY <3>1 DEF Create, pageVars
      <4>2. wire = <<>> /\ list = "none" /\ get \in {"none", "asked"}
        BY <4>1, <1>t DEF WireOK
      <4> QED
        BY <4>1, <4>2 DEF LastOK, ShownOK, AnswerOK
    <3>2. \A u \in Users :
            /\ ~MapCreated(u) /\ ~SendMapped(u) /\ ~SendRevives(u) /\ ~SendRestarts(u)
            /\ ~Register(u) /\ ~MarkIdle(u) /\ ~AppendUser(u)
      BY <2>3 DEF MapCreated, SendMapped, SendRevives, SendRestarts, Register, MarkIdle,
         AppendUser, SetStatus, Touch, dbVars
    <3>3. \A u \in Users :
            ~Kill(u) /\ ~Delete(u) /\ ~Cleanup(u) /\ ~DeleteMessages(u) /\ ~DeleteRow(u)
      BY <2>3 DEF Kill, Delete, Cleanup, DeleteMessages, DeleteRow, dbVars, Gone
    <3>4. \A p \in Procs : /\ ~Die(p) /\ ~PumpLeaves(p) /\ ~MarkDead(p) /\ ~Unmap(p)
                          /\ \A status \in {"running", "idle"} : ~Report(p, status)
      BY <2>3 DEF Die, PumpLeaves, MarkDead, Unmap, Report, SetStatus, dbVars
    <3>5. ~RestartServer /\ ~Elsewhere /\ ~UNCHANGED sessionVars
      BY <2>3, ElsewhereDoes DEF RestartServer, Restarted
    <3> QED
      BY <3>1, <3>2, <3>3, <3>4, <3>5 DEF SessionsNext, Elsewhere
  <2>4. CASE row \notin Gone
    <3>1. LastOK /\ ShownOK /\ AnswerOK
      BY <2>2, <2>4, <1>t DEF ListOK
    <3>2. \A u \in Users : ~Create(u)
      BY <2>4 DEF Create, Gone
    <3>3. ~RestartServer
      BY DEF RestartServer, Clean, Oddities
    <3> QED
      BY <2>2, <2>4, <3>1, <3>2, <3>3, RequestsTell, EndsTell, PumpsTell, PageTells
      DEF SessionsNext, Elsewhere
  <2> QED
    BY <2>3, <2>4
<1> QED
  BY <1>1, <1>2

LEMMA ListInvHolds == SessionsSpec => []ListInv
<1>1. SessionsInit => ListInv
  <2> SUFFICES ASSUME SessionsInit PROVE ListInv
    OBVIOUS
  <2>1. wire = <<>> /\ list = "none" /\ get = "none" /\ watching = TRUE /\ row = "unborn"
    BY DEF SessionsInit
  <2>2. WireOK /\ ListOK
    BY <2>1 DEF WireOK, ListOK, Gone
  <2> QED
    BY <2>2, SessionsStart DEF ListInv
<1>2. ListInv /\ [SessionsNext]_sessionVars => ListInv'
  BY SessionsKeep, WireStep, ListStep DEF ListInv
<1> QED
  BY <1>1, <1>2, PTL DEF SessionsSpec

LEMMA ListBecause == ListInv => ListTrueUnlessMissed
<1> SUFFICES ASSUME ListInv, AtRest, wire = <<>>, get = "none", list # "none", row \notin Gone,
                    Clean(Oddities)
             PROVE  list = Shown
  BY DEF ListTrueUnlessMissed, Clean, Oddities
<1>t. SessionInv /\ ListOK
  BY DEF ListInv
<1>1. mapped # 0 => mapped \in Procs
  BY <1>t, WhoServes
<1>2. ~Registers /\ \A u \in Users : ~At(u, "start") /\ ~At(u, "append")
  BY DEF AtRest, Registers, At
<1>3. ASSUME Served PROVE pump[mapped] = "reading" /\ proc[mapped] = "alive"
  <2>1. mapped \in Procs /\ pump[mapped] = "reading"
    BY <1>1, <1>3 DEF Served, AtRest
  <2>2. proc[mapped] \notin {"none", "closing", "dead"}
    BY <2>1, <1>t DEF AtRest, SessionInv, Basics, FreshOK
  <2> QED
    BY <2>1, <2>2, <1>t DEF SessionInv, Basics, SessionTypeOK
<1>4. ~Upcoming
  BY <1>2, <1>3 DEF Upcoming, AtRest
<1>5. list = row
  BY <1>4, <1>t DEF ListOK, ShownOK
<1>6. row = "dead" <=> mapped = 0
  BY <1>t, TellsBecause DEF RowTellsLife, Clean, Oddities
<1>7. row \in {"idle", "running", "dead"}
  BY <1>t DEF SessionInv, Basics, SessionTypeOK, Gone
<1> QED
  BY <1>5, <1>6, <1>7 DEF Shown

\* With nothing under way, the page's list of sessions shows what the session does: running,
\* idle or ended; unless frames were lost and not asked for again, a GET of the list crossed
\* a change, or the row is not to be trusted either (pump, notifyWatchers, toSessionJSON,
\* register and the page's catchUp).
THEOREM ListIsTrue == SessionsSpec => []ListTrueUnlessMissed
BY ListInvHolds, ListBecause, PTL

-----------------------------------------------------------------------------
(***************************************************************************)
(* The backup of a job.                                                    *)
(***************************************************************************)
RunSteps     == {"walk", "skipped", "pack", "describe", "store", "update", "done", "failed"}
RestoreSteps == {"fetch", "merge", "restored"}
ActiveSteps  == RunSteps \cup RestoreSteps
FPs     == [excl : Excludes \cup {"none"}, tree : Nat]
Objects == [cfg : Configs, lastFP : FPs, nextRun : Nat, running : BOOLEAN, restoring : BOOLEAN]
Saved   == [op : {"save"}, cfg : Configs, fp : FPs] \cup [op : {"delete"}, cfg : {NoRow.cfg}, fp : FPs]
Workers == [pc : ActiveSteps \cup {"idle", "rotate"}, job : Nat, force : BOOLEAN,
            fp : FPs, at : Nat, tar : Nat]
WorkersTyped == worker \in [BackupWorkers -> Workers]
BackupTypeOK ==
  /\ jobRow \in [cfg : Configs, fp : FPs] \cup {NoRow}
  /\ jobs \in Seq(Objects) /\ current \in 0..Len(jobs) /\ saving \subseteq Saved
  /\ tree \in Nat /\ edits \in Nat \ {0} /\ now \in 0..MaxTime
  /\ snaps \subseteq [dest : Dests, at : Nat, tar : Nat, meta : [tar : Nat, fp : FPs]]
  /\ WorkersTyped

Active(w) == worker[w].pc \in ActiveSteps
\* Nothing is of a version that has not been, or of a time to come.
PastOK ==
  /\ \A w \in BackupWorkers : /\ Active(w) => worker[w].job \in DOMAIN jobs
                              /\ worker[w].fp.tree <= edits /\ worker[w].tar <= edits /\ worker[w].at <= now
  /\ \A o \in DOMAIN jobs : jobs[o].lastFP.tree <= edits
  /\ \A s \in saving : s.fp.tree <= edits
  /\ jobRow.fp.tree <= edits /\ tree <= edits
  /\ \A s \in snaps : s.tar <= edits /\ s.at <= now
  /\ \A s, z \in snaps : s.dest = z.dest /\ s.at = z.at => s = z
BackupBasics == BackupTypeOK /\ PastOK

Excused(E) == excuses \cap E # {}
\* The gate of the current object lets one goroutine in.
Gated ==
  /\ \A w \in BackupWorkers : Active(w) =>
       /\ worker[w].job = current
       /\ worker[w].pc \in RunSteps => jobs[current].running
       /\ worker[w].pc \in RestoreSteps => jobs[current].restoring
  /\ \A w, z \in BackupWorkers : Active(w) /\ Active(z) => w = z
  /\ tree = Mixed => \E w \in BackupWorkers : worker[w].pc = "merge"
  /\ \A w \in BackupWorkers : worker[w].pc = "merge" => worker[w].tar # Mixed
  /\ \A s \in snaps : s.tar # Mixed
GateOK == Excused({"replaced"}) \/ Gated

\* Row and object differ by the request and the goroutine that are between the two.
Stored ==
  /\ \A s, z \in saving : s = z
  /\ \A s \in saving :
       /\ s.op = "delete" => current = 0
       /\ s.op = "save" => /\ jobRow # NoRow /\ jobRow.cfg = s.cfg
                           /\ current = 0 => jobRow.fp = s.fp
  /\ saving = {} => IF current = 0 THEN jobRow = NoRow
                    ELSE jobRow # NoRow /\ jobRow.cfg = jobs[current].cfg
  /\ current # 0 =>
       /\ (\A w \in BackupWorkers : worker[w].pc # "update") => jobRow.fp = jobs[current].lastFP
       /\ \A w \in BackupWorkers : worker[w].pc = "update" => jobRow.fp = worker[w].fp
StoredOK == Excused({"crossed", "replaced"}) \/ Stored

AliveOK == Seen => ScheduleAlive

\* The addresses of the job, the versions that a fingerprint of it tells of.
Home  == {jobs[o].cfg.dest : o \in DOMAIN jobs} \cup {d \in {jobRow.cfg.dest} : jobRow # NoRow}
Noted == ({jobs[o].lastFP.tree : o \in DOMAIN jobs} \cup {s.fp.tree : s \in saving}
            \cup {jobRow.fp.tree}) \ {0}
Good(d, v) == \E s \in snaps : s.dest = d /\ s.tar = v /\ Verifies(s)
Coming(v)  == tree = v \/ \E w \in BackupWorkers : worker[w].pc = "merge" /\ worker[w].tar = v
\* The directory is of a version that no fingerprint tells of.
Told  == (Noted \cup {worker[w].fp.tree : w \in BackupWorkers}) \ {0}
Fresh == tree \notin Told
NewestAt(d, s) == s \in snaps /\ s.dest = d /\ \A z \in snaps : z.dest = d => z.at <= s.at
Packed(d, s) == NewestAt(d, s) /\ Verifies(s) /\ (tree = s.tar \/ Fresh)

\* What a fingerprint tells of is in a snapshot, as long as the directory can be
\* that version.
NotedKept ==
  /\ \A d, e \in Home : d = e
  /\ DOMAIN jobs = {} => Noted = {}
  /\ \A d \in Home, v \in Noted : Coming(v) => Good(d, v)
\* So is what a backup is about to note; the newest archive tells the directory.
WorkKept(w) ==
  /\ worker[w].pc \in {"pack", "describe"} =>
       \A s \in snaps : s.dest = Cfg(w).dest => s.at <= worker[w].at
  /\ worker[w].pc = "pack" => tree = worker[w].fp.tree
  /\ worker[w].pc = "describe" =>
       /\ worker[w].tar = worker[w].fp.tree /\ (tree = worker[w].tar \/ Fresh)
       /\ \E s \in SnapsAt(Cfg(w).dest, worker[w].at) : s.tar = worker[w].tar
  /\ worker[w].pc \in {"store", "update"} =>
       \E s \in snaps : Packed(Cfg(w).dest, s) /\ s.tar = worker[w].fp.tree
  /\ worker[w].pc = "done" => \E s \in snaps : Packed(Cfg(w).dest, s)
  /\ worker[w].pc = "rotate" =>
       /\ \A z \in BackupWorkers \ {w} : worker[z].pc = "idle"
       /\ DOMAIN jobs # {} /\ \A d \in Home : \E s \in snaps : Packed(d, s)
  /\ worker[w].pc = "skipped" => BackedUp(w)
Exempt == {"edited", "replaced", "rotating", "moved"}
KeptOK == Excused(Exempt) \/ (NotedKept /\ \A w \in BackupWorkers : WorkKept(w))

BackupInv == BackupBasics /\ GateOK /\ StoredOK /\ AliveOK /\ KeptOK

-----------------------------------------------------------------------------
(***************************************************************************)
(* What the steps of a backup do.                                          *)
(***************************************************************************)
LEMMA LeastNumber ==
  ASSUME NEW T, T \subseteq Nat, T # {}
  PROVE  Min(T) \in T /\ \A n \in T : Min(T) <= n
<1>1. PICK m \in T : \A n \in T : ~ (<<n, m>> \in OpToRel(<, Nat))
  BY WFMin, NatLessThanWellFounded, Zenon
<1>2. \A n \in T : ~ (n < m)
  BY <1>1, Zenon DEF OpToRel
<1>3. \A n \in T : m <= n
  BY <1>2
<1> QED
  BY <1>3, Zenon DEF Min

\* The next run is the first time to come at which the schedule matches.
LEMMA NextRunRight ==
  ASSUME NEW t \in 0..MaxTime
  PROVE  /\ NextRun(t) \in Nat
         /\ Seen /\ (\E s \in Schedule : t < s) =>
              NextRun(t) # 0 /\ \A s \in Schedule : t < s => NextRun(t) <= s
<1> DEFINE ahead == {s \in Schedule : t < s /\ s <= t + Horizon}
<1>1. NextRun(t) = IF ahead = {} THEN 0 ELSE Min(ahead)
  BY DEF NextRun
<1>2. ahead \subseteq Nat
  BY BackupAssumption
<1>3. ahead # {} => Min(ahead) \in ahead /\ \A s \in ahead : Min(ahead) <= s
  BY <1>2, LeastNumber
<1>4. Seen /\ (\E s \in Schedule : t < s) => ahead # {}
  BY DEF Seen
<1>5. ahead # {} => \A s \in Schedule : t < s => Min(ahead) <= s
  <2> SUFFICES ASSUME ahead # {}, NEW s \in Schedule, t < s PROVE Min(ahead) <= s
    OBVIOUS
  <2>1. Min(ahead) \in Nat /\ Min(ahead) <= t + Horizon
    BY <1>2, <1>3
  <2>2. s \in Nat /\ t \in Nat /\ Horizon \in Nat
    BY BackupAssumption
  <2>3. CASE s <= t + Horizon
    BY <2>3, <1>3
  <2>4. CASE ~(s <= t + Horizon)
    BY <2>1, <2>2, <2>4
  <2> QED
    BY <2>3, <2>4
<1>6. ahead # {} => Min(ahead) \in Nat /\ Min(ahead) # 0
  BY <1>2, <1>3
<1> HIDE DEF ahead
<1> QED
  BY <1>1, <1>4, <1>5, <1>6

\* Of the objects, one may change, and not its configuration.
SameObjects(o) ==
  /\ jobs' \in Seq(Objects) /\ Len(jobs') = Len(jobs) /\ DOMAIN jobs' = DOMAIN jobs
  /\ \A p \in DOMAIN jobs : /\ p # o => jobs'[p] = jobs[p]
                            /\ jobs'[p].cfg = jobs[p].cfg
Rest(w) == \A z \in BackupWorkers \ {w} : worker'[z] = worker[z]

LEMMA ObjectSet ==
  ASSUME NEW js \in Seq(Objects), NEW o \in 1..Len(js), NEW r \in Objects
  PROVE  LET ks == [js EXCEPT ![o] = r]
         IN  /\ ks \in Seq(Objects) /\ Len(ks) = Len(js) /\ DOMAIN ks = DOMAIN js
             /\ ks[o] = r /\ \A p \in 1..Len(js) : p # o => ks[p] = js[p]
<1> DEFINE ks == [js EXCEPT ![o] = r]
<1>1. /\ [js EXCEPT ![o] = r] \in Seq(Objects)
      /\ Len([js EXCEPT ![o] = r]) = Len(js)
      /\ \A j \in 1 .. Len(js) : [js EXCEPT ![o] = r][j] = IF j=o THEN r ELSE js[j]
  BY ExceptSeq
<1>2. DOMAIN ks = 1..Len(ks) /\ DOMAIN js = 1..Len(js)
  BY <1>1
<1> QED
  BY <1>1, <1>2

LEMMA FieldSet ==
  ASSUME NEW js \in Seq(Objects), NEW o \in 1..Len(js)
  PROVE  /\ \A b \in BOOLEAN : /\ [js EXCEPT ![o].running = b] = [js EXCEPT ![o] = [js[o] EXCEPT !.running = b]]
                               /\ [js[o] EXCEPT !.running = b] \in Objects
                               /\ [js EXCEPT ![o].restoring = b] = [js EXCEPT ![o] = [js[o] EXCEPT !.restoring = b]]
                               /\ [js[o] EXCEPT !.restoring = b] \in Objects
         /\ \A n \in Nat : /\ [js EXCEPT ![o].nextRun = n] = [js EXCEPT ![o] = [js[o] EXCEPT !.nextRun = n]]
                           /\ [js[o] EXCEPT !.nextRun = n] \in Objects
         /\ \A fp \in FPs : /\ [js EXCEPT ![o].lastFP = fp] = [js EXCEPT ![o] = [js[o] EXCEPT !.lastFP = fp]]
                            /\ [js[o] EXCEPT !.lastFP = fp] \in Objects
<1>1. js[o] \in Objects
  BY ElementOfSeq
<1> QED
  BY <1>1 DEF Objects

LEMMA IdleTyped ==
  /\ NoFP \in FPs /\ NoFP.tree = 0
  /\ IdleWorker \in Workers /\ IdleWorker.pc = "idle" /\ IdleWorker.fp = NoFP
  /\ IdleWorker.tar = 0 /\ IdleWorker.at = 0
BY DEF NoFP, FPs, IdleWorker, Workers

LEMMA ObjectsTyped ==
  ASSUME BackupTypeOK
  PROVE  /\ jobs \in Seq(Objects) /\ Len(jobs) \in Nat /\ DOMAIN jobs = 1..Len(jobs)
         /\ \A o \in DOMAIN jobs : jobs[o] \in Objects
         /\ current # 0 <=> current \in DOMAIN jobs
<1>1. jobs \in Seq(Objects) /\ current \in 0..Len(jobs)
  BY DEF BackupTypeOK
<1>2. Len(jobs) \in Nat /\ DOMAIN jobs = 1..Len(jobs)
  BY <1>1
<1>3. \A o \in DOMAIN jobs : jobs[o] \in Objects
  BY <1>1, <1>2, ElementOfSeq
<1> QED
  BY <1>1, <1>2, <1>3

\* A backup or a restore begins.
Starts(w, o) ==
  /\ o \in DOMAIN jobs /\ worker[w].pc = "idle" /\ ~Busy(o)
  /\ WorkersTyped' /\ Rest(w) /\ worker'[w].job = o
  /\ worker'[w].fp = NoFP /\ worker'[w].tar = 0 /\ worker'[w].at = 0
  /\ SameObjects(o) /\ jobs'[o].lastFP = jobs[o].lastFP
  /\ \/ worker'[w].pc = "walk" /\ jobs'[o].running
     \/ worker'[w].pc = "fetch" /\ jobs'[o].restoring
  /\ \/ jobs'[o].nextRun = jobs[o].nextRun
     \/ o = current /\ jobs'[o].nextRun = NextRun(now)
  /\ excuses \subseteq excuses' /\ (o # current => "replaced" \in excuses')
  /\ (\E z \in BackupWorkers : worker[z].pc = "rotate") => "rotating" \in excuses'
  /\ UNCHANGED <<jobRow, current, saving, tree, edits, snaps, now>>

LEMMA BeginDoes ==
  ASSUME BackupTypeOK, NEW w \in BackupWorkers, NEW o \in DOMAIN jobs,
         NEW kind \in {"backup", "restore"}, NEW force \in BOOLEAN, Begin(w, o, kind, force)
  PROVE  /\ worker[w].pc = "idle" /\ ~Busy(o)
         /\ WorkersTyped' /\ Rest(w) /\ worker'[w].job = o
         /\ worker'[w].pc = (IF kind = "backup" THEN "walk" ELSE "fetch")
         /\ worker'[w].fp = NoFP /\ worker'[w].tar = 0 /\ worker'[w].at = 0
         /\ excuses \subseteq excuses' /\ (o # current => "replaced" \in excuses')
         /\ (\E z \in BackupWorkers : worker[z].pc = "rotate") => "rotating" \in excuses'
<1> DEFINE r == [IdleWorker EXCEPT !.pc = IF kind = "backup" THEN "walk" ELSE "fetch",
                                   !.job = o, !.force = force]
<1>1. worker' = [worker EXCEPT ![w] = r] /\ worker[w].pc = "idle" /\ ~Busy(o)
  BY DEF Begin, GateOpen
<1>2. o \in Nat
  BY ObjectsTyped
<1>3. /\ r \in Workers /\ r.job = o /\ r.pc = (IF kind = "backup" THEN "walk" ELSE "fetch")
      /\ r.fp = NoFP /\ r.tar = 0 /\ r.at = 0
  BY <1>2, IdleTyped DEF Workers, ActiveSteps, RunSteps, RestoreSteps
<1> HIDE DEF r
<1>4. WorkersTyped' /\ Rest(w) /\ worker'[w] = r
  BY <1>1, <1>3 DEF BackupTypeOK, WorkersTyped, Rest
<1> QED
  BY <1>1, <1>3, <1>4 DEF Begin

LEMMA StartDoes ==
  ASSUME BackupTypeOK, NEW w \in BackupWorkers
  PROVE  /\ \A o \in DOMAIN jobs : StartRestore(w, o) => Starts(w, o)
         /\ \A o \in DOMAIN jobs, force \in BOOLEAN : RunBackup(w, o, force) => Starts(w, o)
         /\ ScheduledBackup(w) /\ GateOpen(current) => Starts(w, current)
<1>t. /\ jobs \in Seq(Objects) /\ Len(jobs) \in Nat /\ DOMAIN jobs = 1..Len(jobs)
      /\ \A o \in DOMAIN jobs : jobs[o] \in Objects
      /\ current # 0 <=> current \in DOMAIN jobs
  BY ObjectsTyped
<1>1. ASSUME NEW o \in DOMAIN jobs, StartRestore(w, o) PROVE Starts(w, o)
  <2>1. Begin(w, o, "restore", FALSE)
    BY <1>1 DEF StartRestore
  <2>2. jobs' = [jobs EXCEPT ![o] = [jobs[o] EXCEPT !.restoring = TRUE]]
        /\ [jobs[o] EXCEPT !.restoring = TRUE] \in Objects
    BY <1>1, <1>t, FieldSet DEF StartRestore
  <2>3. SameObjects(o) /\ jobs'[o] = [jobs[o] EXCEPT !.restoring = TRUE]
    BY <2>2, <1>t, ObjectSet DEF SameObjects, Objects
  <2>4. jobs'[o].lastFP = jobs[o].lastFP /\ jobs'[o].nextRun = jobs[o].nextRun /\ jobs'[o].restoring
    BY <2>3, <1>t DEF Objects
  <2> QED
    BY <1>1, <2>1, <2>3, <2>4, BeginDoes DEF Starts, StartRestore, requestVars
<1>2. ASSUME NEW o \in DOMAIN jobs, NEW force \in BOOLEAN, RunBackup(w, o, force) PROVE Starts(w, o)
  <2>1. Begin(w, o, "backup", force)
    BY <1>2 DEF RunBackup
  <2>2. jobs' = [jobs EXCEPT ![o] = [jobs[o] EXCEPT !.running = TRUE]]
        /\ [jobs[o] EXCEPT !.running = TRUE] \in Objects
    BY <1>2, <1>t, FieldSet DEF RunBackup
  <2>3. SameObjects(o) /\ jobs'[o] = [jobs[o] EXCEPT !.running = TRUE]
    BY <2>2, <1>t, ObjectSet DEF SameObjects, Objects
  <2>4. jobs'[o].lastFP = jobs[o].lastFP /\ jobs'[o].nextRun = jobs[o].nextRun /\ jobs'[o].running
    BY <2>3, <1>t DEF Objects
  <2> QED
    BY <1>2, <2>1, <2>3, <2>4, BeginDoes DEF Starts, RunBackup, requestVars
<1>3. ASSUME ScheduledBackup(w), GateOpen(current) PROVE Starts(w, current)
  <2> DEFINE n == NextRun(now)
  <2> DEFINE next == [jobs EXCEPT ![current].nextRun = n]
  <2>c. current \in DOMAIN jobs
    BY <1>3, <1>t DEF ScheduledBackup
  <2>n. n \in Nat
    BY NextRunRight DEF BackupTypeOK
  <2>1. Begin(w, current, "backup", FALSE) /\ jobs' = [next EXCEPT ![current].running = TRUE]
    BY <1>3 DEF ScheduledBackup
  <2> HIDE DEF n
  <2>2. next = [jobs EXCEPT ![current] = [jobs[current] EXCEPT !.nextRun = n]]
        /\ [jobs[current] EXCEPT !.nextRun = n] \in Objects
    BY <2>c, <2>n, <1>t, FieldSet
  <2>3. /\ next \in Seq(Objects) /\ Len(next) = Len(jobs) /\ DOMAIN next = DOMAIN jobs
        /\ next[current] = [jobs[current] EXCEPT !.nextRun = n]
        /\ \A p \in 1..Len(jobs) : p # current => next[p] = jobs[p]
    BY <2>2, <2>c, <1>t, ObjectSet
  <2> HIDE DEF next
  <2>4. jobs' = [next EXCEPT ![current] = [next[current] EXCEPT !.running = TRUE]]
        /\ [next[current] EXCEPT !.running = TRUE] \in Objects
    BY <2>1, <2>3, <2>c, <1>t, FieldSet
  <2>5. /\ jobs' \in Seq(Objects) /\ Len(jobs') = Len(next) /\ DOMAIN jobs' = DOMAIN next
        /\ jobs'[current] = [next[current] EXCEPT !.running = TRUE]
        /\ \A p \in 1..Len(next) : p # current => jobs'[p] = next[p]
    BY <2>3, <2>4, <2>c, <1>t, ObjectSet
  <2>6. /\ jobs'[current].lastFP = jobs[current].lastFP /\ jobs'[current].nextRun = n
        /\ jobs'[current].running /\ jobs'[current].cfg = jobs[current].cfg
    BY <2>3, <2>5, <2>c, <1>t DEF Objects
  <2>7. SameObjects(current)
    BY <2>3, <2>5, <2>6, <2>c, <1>t DEF SameObjects
  <2> QED
    BY <1>3, <2>c, <2>1, <2>6, <2>7, BeginDoes DEF Starts, ScheduledBackup, requestVars, n
<1> QED
  BY <1>1, <1>2, <1>3

\* A run that finds the gate shut.
LEMMA MissedDoes ==
  ASSUME BackupTypeOK, NEW w \in BackupWorkers, ScheduledBackup(w), ~GateOpen(current)
  PROVE  /\ current \in DOMAIN jobs /\ SameObjects(current)
         /\ jobs'[current] = [jobs[current] EXCEPT !.nextRun = NextRun(now)]
         /\ UNCHANGED <<jobRow, current, saving, tree, edits, snaps, worker, now, excuses>>
<1>t. /\ jobs \in Seq(Objects) /\ Len(jobs) \in Nat /\ DOMAIN jobs = 1..Len(jobs)
      /\ \A o \in DOMAIN jobs : jobs[o] \in Objects
      /\ current # 0 <=> current \in DOMAIN jobs
  BY ObjectsTyped
<1>1. current \in DOMAIN jobs /\ jobs' = [jobs EXCEPT ![current].nextRun = NextRun(now)]
  BY <1>t DEF ScheduledBackup
<1>2. NextRun(now) \in Nat
  BY NextRunRight DEF BackupTypeOK
<1>3. jobs' = [jobs EXCEPT ![current] = [jobs[current] EXCEPT !.nextRun = NextRun(now)]]
      /\ [jobs[current] EXCEPT !.nextRun = NextRun(now)] \in Objects
  BY <1>1, <1>2, <1>t, FieldSet
<1>4. SameObjects(current) /\ jobs'[current] = [jobs[current] EXCEPT !.nextRun = NextRun(now)]
  BY <1>1, <1>3, <1>t, ObjectSet DEF SameObjects, Objects
<1> QED
  BY <1>1, <1>4 DEF ScheduledBackup, requestVars

\* A goroutine gets from one step to another.
Gets(w, from, to) == worker[w].pc = from /\ worker'[w].pc = to /\ Rest(w) /\ WorkersTyped'
Keeps(w) == worker'[w].job = worker[w].job /\ worker'[w].fp = worker[w].fp

LEMMA ToDoes ==
  ASSUME BackupTypeOK, NEW w \in BackupWorkers, NEW to \in ActiveSteps, To(w, to)
  PROVE  /\ Gets(w, worker[w].pc, to) /\ Keeps(w)
         /\ worker'[w].tar = worker[w].tar /\ worker'[w].at = worker[w].at
BY DEF To, Gets, Keeps, BackupTypeOK, WorkersTyped, Workers, Rest

LEMMA WalkDoes ==
  ASSUME BackupBasics, NEW w \in BackupWorkers, Walk(w)
  PROVE  /\ Gets(w, "walk", IF Unchanged(w) THEN "skipped" ELSE "pack")
         /\ worker'[w].job = worker[w].job /\ worker'[w].fp = FP(w, tree)
         /\ worker'[w].at = now /\ worker'[w].tar = worker[w].tar
         /\ FP(w, tree).tree = tree
         /\ UNCHANGED <<jobRow, current, saving, jobs, tree, edits, snaps, now, excuses>>
<1>1. worker[w].job \in DOMAIN jobs
  BY DEF BackupBasics, PastOK, Active, ActiveSteps, RunSteps, Walk
<1>2. jobs[worker[w].job] \in Objects
  BY <1>1, ObjectsTyped DEF BackupBasics
<1>3. FP(w, tree) \in FPs /\ FP(w, tree).tree = tree
  BY <1>2 DEF FP, Cfg, FPs, Objects, Configs, BackupBasics, BackupTypeOK
<1> DEFINE to == IF Unchanged(w) THEN "skipped" ELSE "pack"
<1>4. worker' = [worker EXCEPT ![w].pc = to, ![w].force = FALSE, ![w].fp = FP(w, tree), ![w].at = now]
  BY DEF Walk
<1>5. to \in ActiveSteps /\ now \in Nat
  BY DEF ActiveSteps, RunSteps, BackupBasics, BackupTypeOK
<1> HIDE DEF to
<1>6. worker \in [BackupWorkers -> Workers]
  BY DEF BackupBasics, BackupTypeOK, WorkersTyped
<1>7. WorkersTyped' /\ Rest(w)
  <2> DEFINE r == [worker[w] EXCEPT !.pc = to, !.force = FALSE, !.fp = FP(w, tree), !.at = now]
  <2>1. worker' = [worker EXCEPT ![w] = r]
    BY <1>4, <1>6
  <2>2. r \in Workers
    BY <1>3, <1>5, <1>6 DEF Workers
  <2> HIDE DEF r
  <2> QED
    BY <2>1, <2>2, <1>6 DEF WorkersTyped, Rest
<1>8. /\ worker'[w].pc = to /\ worker'[w].job = worker[w].job /\ worker'[w].fp = FP(w, tree)
      /\ worker'[w].at = now /\ worker'[w].tar = worker[w].tar
  BY <1>4, <1>6 DEF Workers
<1> QED
  BY <1>3, <1>7, <1>8 DEF Walk, Gets, requestVars, to

LEMMA PutArchiveDoes ==
  ASSUME BackupBasics, NEW w \in BackupWorkers, PutArchive(w)
  PROVE  /\ Gets(w, "pack", "describe") /\ Keeps(w) /\ worker[w].job \in DOMAIN jobs
         /\ worker'[w].tar = tree /\ worker'[w].at = worker[w].at
         /\ UNCHANGED <<jobRow, current, saving, jobs, tree, edits, now, excuses>>
         /\ \E m \in [tar : Nat, fp : FPs] :
              /\ LET here == SnapsAt(Cfg(w).dest, worker[w].at)
                 IN  IF here = {} THEN m = NoMeta ELSE \E s \in here : m = s.meta
              /\ snaps' = (snaps \ SnapsAt(Cfg(w).dest, worker[w].at)) \cup
                   {[dest |-> Cfg(w).dest, at |-> worker[w].at, tar |-> tree, meta |-> m]}
              /\ Cfg(w).dest \in Dests
<1>1. worker[w].job \in DOMAIN jobs
  BY DEF BackupBasics, PastOK, Active, ActiveSteps, RunSteps, PutArchive
<1>2. jobs[worker[w].job] \in Objects
  BY <1>1, ObjectsTyped DEF BackupBasics
<1>3. Cfg(w).dest \in Dests
  BY <1>2 DEF Cfg, Objects, Configs
<1>4. worker \in [BackupWorkers -> Workers] /\ tree \in Nat /\ "describe" \in ActiveSteps
  BY DEF BackupBasics, BackupTypeOK, WorkersTyped, ActiveSteps, RunSteps
<1>5. /\ Gets(w, "pack", "describe") /\ Keeps(w)
      /\ worker'[w].tar = tree /\ worker'[w].at = worker[w].at
  BY <1>4 DEF PutArchive, Gets, Keeps, WorkersTyped, Workers, Rest
<1> DEFINE here == SnapsAt(Cfg(w).dest, worker[w].at)
<1> DEFINE m == IF here = {} THEN NoMeta ELSE (CHOOSE s \in here : TRUE).meta
<1>6. here # {} => (CHOOSE s \in here : TRUE) \in here
  BY Zenon
<1>7. here \subseteq [dest : Dests, at : Nat, tar : Nat, meta : [tar : Nat, fp : FPs]]
  BY DEF BackupBasics, BackupTypeOK, SnapsAt
<1>8. NoMeta \in [tar : Nat, fp : FPs]
  BY IdleTyped DEF NoMeta
<1>9. m \in [tar : Nat, fp : FPs]
  BY <1>6, <1>7, <1>8
<1>10. IF here = {} THEN m = NoMeta ELSE \E s \in here : m = s.meta
  BY <1>6
<1>11. snaps' = (snaps \ here) \cup {[dest |-> Cfg(w).dest, at |-> worker[w].at, tar |-> tree, meta |-> m]}
  BY DEF PutArchive
<1> HIDE DEF m
<1> QED
  BY <1>1, <1>3, <1>5, <1>9, <1>10, <1>11 DEF PutArchive, requestVars

LEMMA PutMetaDoes ==
  ASSUME BackupBasics, NEW w \in BackupWorkers, PutMeta(w)
  PROVE  /\ Gets(w, "describe", "store") /\ Keeps(w) /\ worker[w].job \in DOMAIN jobs
         /\ worker'[w].tar = 0 /\ worker'[w].at = 0
         /\ snaps' = {IF s \in SnapsAt(Cfg(w).dest, worker[w].at)
                      THEN [s EXCEPT !.meta = [tar |-> worker[w].tar, fp |-> worker[w].fp]] ELSE s : s \in snaps}
         /\ UNCHANGED <<jobRow, current, saving, jobs, tree, edits, now, excuses>>
<1>1. worker[w].job \in DOMAIN jobs
  BY DEF BackupBasics, PastOK, Active, ActiveSteps, RunSteps, PutMeta
<1>4. worker \in [BackupWorkers -> Workers] /\ "store" \in ActiveSteps
  BY DEF BackupBasics, BackupTypeOK, WorkersTyped, ActiveSteps, RunSteps
<1>5. /\ Gets(w, "describe", "store") /\ Keeps(w)
      /\ worker'[w].tar = 0 /\ worker'[w].at = 0
  BY <1>4 DEF PutMeta, Gets, Keeps, WorkersTyped, Workers, Rest
<1> QED
  BY <1>1, <1>5 DEF PutMeta, requestVars

LEMMA StoreFPDoes ==
  ASSUME BackupBasics, NEW w \in BackupWorkers, StoreFP(w)
  PROVE  /\ Keeps(w) /\ worker[w].job \in DOMAIN jobs /\ worker'[w].tar = worker[w].tar
         /\ worker'[w].at = worker[w].at
         /\ \/ /\ Gets(w, "store", "update")
               /\ jobRow' = IF jobRow = NoRow THEN NoRow ELSE [jobRow EXCEPT !.fp = worker[w].fp]
            \/ Gets(w, "store", "done") /\ jobRow' = jobRow
         /\ UNCHANGED <<current, saving, jobs, tree, edits, snaps, now, excuses>>
<1>1. worker[w].job \in DOMAIN jobs
  BY DEF BackupBasics, PastOK, Active, ActiveSteps, RunSteps, StoreFP
<1>2. \A to \in {"update", "done"} : To(w, to) =>
        /\ Gets(w, "store", to) /\ Keeps(w)
        /\ worker'[w].tar = worker[w].tar /\ worker'[w].at = worker[w].at
  BY ToDoes DEF BackupBasics, StoreFP, ActiveSteps, RunSteps
<1> QED
  BY <1>1, <1>2 DEF StoreFP

LEMMA UpdateFPDoes ==
  ASSUME BackupBasics, NEW w \in BackupWorkers, UpdateFP(w)
  PROVE  /\ Gets(w, "update", "done") /\ worker[w].job \in DOMAIN jobs /\ worker'[w].job = worker[w].job
         /\ worker'[w].fp = NoFP /\ worker'[w].tar = worker[w].tar /\ worker'[w].at = worker[w].at
         /\ \/ current = 0 /\ jobs' = jobs
            \/ current \in DOMAIN jobs /\ SameObjects(current)
               /\ jobs'[current] = [jobs[current] EXCEPT !.lastFP = worker[w].fp]
         /\ excuses \subseteq excuses'
         /\ UNCHANGED <<jobRow, current, saving, tree, edits, snaps, now>>
<1>t. /\ jobs \in Seq(Objects) /\ Len(jobs) \in Nat /\ DOMAIN jobs = 1..Len(jobs)
      /\ \A o \in DOMAIN jobs : jobs[o] \in Objects
      /\ current # 0 <=> current \in DOMAIN jobs
  BY ObjectsTyped DEF BackupBasics
<1>1. worker[w].job \in DOMAIN jobs
  BY DEF BackupBasics, PastOK, Active, ActiveSteps, RunSteps, UpdateFP
<1>4. worker \in [BackupWorkers -> Workers] /\ "done" \in ActiveSteps
  BY DEF BackupBasics, BackupTypeOK, WorkersTyped, ActiveSteps, RunSteps
<1>5. /\ Gets(w, "update", "done") /\ worker'[w].job = worker[w].job
      /\ worker'[w].fp = NoFP /\ worker'[w].tar = worker[w].tar /\ worker'[w].at = worker[w].at
  BY <1>4, IdleTyped DEF UpdateFP, Gets, WorkersTyped, Workers, Rest
<1>6. worker[w].fp \in FPs
  BY <1>4 DEF Workers
<1>7. CASE current # 0
  <2>1. /\ jobs' = [jobs EXCEPT ![current] = [jobs[current] EXCEPT !.lastFP = worker[w].fp]]
        /\ [jobs[current] EXCEPT !.lastFP = worker[w].fp] \in Objects
    BY <1>7, <1>6, <1>t, FieldSet DEF UpdateFP
  <2>2. SameObjects(current) /\ jobs'[current] = [jobs[current] EXCEPT !.lastFP = worker[w].fp]
    BY <1>7, <2>1, <1>t, ObjectSet DEF SameObjects, Objects
  <2> QED
    BY <1>1, <1>5, <1>7, <2>2, <1>t DEF UpdateFP, Excuse, requestVars
<1>8. CASE current = 0
  BY <1>1, <1>5, <1>8 DEF UpdateFP, Excuse, requestVars
<1> QED
  BY <1>7, <1>8

LEMMA RequestFailsDoes ==
  ASSUME BackupBasics, NEW w \in BackupWorkers, RequestFails(w)
  PROVE  /\ Keeps(w) /\ worker'[w].tar = worker[w].tar /\ worker'[w].at = worker[w].at
         /\ \/ \E from \in {"pack", "describe"} : Gets(w, from, "failed")
            \/ Gets(w, "fetch", "restored")
         /\ UNCHANGED <<jobRow, current, saving, jobs, tree, edits, snaps, now, excuses>>
<1>1. \A to \in {"failed", "restored"} : To(w, to) =>
        /\ Gets(w, worker[w].pc, to) /\ Keeps(w)
        /\ worker'[w].tar = worker[w].tar /\ worker'[w].at = worker[w].at
  BY ToDoes DEF BackupBasics, ActiveSteps, RunSteps, RestoreSteps
<1> QED
  BY <1>1 DEF RequestFails, requestVars

LEMMA EndBackupDoes ==
  ASSUME BackupBasics, NEW w \in BackupWorkers, EndBackup(w)
  PROVE  /\ worker[w].job \in DOMAIN jobs /\ SameObjects(worker[w].job)
         /\ jobs'[worker[w].job] = [jobs[worker[w].job] EXCEPT !.running = FALSE]
         /\ \/ \E from \in {"skipped", "failed"} : Gets(w, from, "idle")
            \/ Gets(w, "done", "rotate")
         /\ worker'[w].fp = NoFP /\ worker'[w].tar = 0 /\ worker'[w].at = 0
         /\ UNCHANGED <<jobRow, current, saving, tree, edits, snaps, now, excuses>>
<1>t. /\ jobs \in Seq(Objects) /\ Len(jobs) \in Nat /\ DOMAIN jobs = 1..Len(jobs)
      /\ \A o \in DOMAIN jobs : jobs[o] \in Objects
  BY ObjectsTyped DEF BackupBasics
<1>1. worker[w].job \in DOMAIN jobs
  BY DEF BackupBasics, PastOK, Active, ActiveSteps, RunSteps, EndBackup
<1> DEFINE o == worker[w].job
<1>2. jobs' = [jobs EXCEPT ![o] = [jobs[o] EXCEPT !.running = FALSE]]
      /\ [jobs[o] EXCEPT !.running = FALSE] \in Objects
  BY <1>1, <1>t, FieldSet DEF EndBackup
<1>o. o \in DOMAIN jobs
  BY <1>1
<1> HIDE DEF o
<1>3. SameObjects(o) /\ jobs'[o] = [jobs[o] EXCEPT !.running = FALSE]
  BY <1>o, <1>2, <1>t, ObjectSet DEF SameObjects, Objects
<1> DEFINE r == IF worker[w].pc = "done" THEN [IdleWorker EXCEPT !.pc = "rotate"] ELSE IdleWorker
<1>4. worker' = [worker EXCEPT ![w] = r]
  BY DEF EndBackup
<1>5. /\ r \in Workers /\ r.fp = NoFP /\ r.tar = 0 /\ r.at = 0
      /\ r.pc = IF worker[w].pc = "done" THEN "rotate" ELSE "idle"
  BY IdleTyped DEF Workers
<1> HIDE DEF r
<1>6. WorkersTyped' /\ Rest(w) /\ worker'[w] = r
  BY <1>4, <1>5 DEF BackupBasics, BackupTypeOK, WorkersTyped, Rest
<1> QED
  BY <1>1, <1>3, <1>5, <1>6 DEF EndBackup, Gets, requestVars, o

LEMMA RotateDoes ==
  ASSUME BackupBasics, NEW w \in BackupWorkers, Rotate(w)
  PROVE  /\ Gets(w, "rotate", "idle")
         /\ worker'[w].fp = NoFP /\ worker'[w].tar = 0 /\ worker'[w].at = 0
         /\ snaps' \subseteq snaps
         /\ \A s \in snaps : Newer(s) = {} => s \in snaps'
         /\ UNCHANGED <<jobRow, current, saving, jobs, tree, edits, now, excuses>>
<1>1. WorkersTyped' /\ Rest(w) /\ worker'[w] = IdleWorker
  BY IdleTyped DEF BackupBasics, BackupTypeOK, WorkersTyped, Rest, Rotate
<1>2. snaps' \subseteq snaps
  BY DEF Rotate
<1>3. ASSUME NEW s \in snaps, Newer(s) = {} PROVE s \in snaps'
  <2>1. Cardinality(Newer(s)) = 0
    BY <1>3, FS_EmptySet
  <2>2. \A d : s \notin Surplus(d)
    BY <2>1, BackupAssumption DEF Surplus
  <2> QED
    BY <2>2 DEF Rotate
<1> QED
  BY <1>1, <1>2, <1>3, IdleTyped DEF Rotate, Gets, requestVars

LEMMA FetchDoes ==
  ASSUME BackupBasics, NEW w \in BackupWorkers, Fetch(w)
  PROVE  /\ Keeps(w) /\ worker'[w].at = worker[w].at
         /\ \/ Gets(w, "fetch", "restored") /\ worker'[w].tar = worker[w].tar /\ tree' = tree
            \/ /\ Gets(w, "fetch", "merge") /\ tree' = Mixed
               /\ current \in DOMAIN jobs
               /\ \E s \in snaps : /\ s.dest = jobs[current].cfg.dest /\ Verifies(s)
                                   /\ worker'[w].tar = s.tar
         /\ UNCHANGED <<jobRow, current, saving, jobs, edits, snaps, now, excuses>>
<1>1. worker \in [BackupWorkers -> Workers] /\ "merge" \in ActiveSteps /\ "restored" \in ActiveSteps
  BY DEF BackupBasics, BackupTypeOK, WorkersTyped, ActiveSteps, RestoreSteps
<1>2. CASE To(w, "restored") /\ tree' = tree
  BY <1>1, <1>2, ToDoes DEF BackupBasics, Fetch, requestVars
<1>3. ASSUME NEW s \in Restorable,
             worker' = [worker EXCEPT ![w].pc = "merge", ![w].tar = s.tar], tree' = Mixed
      PROVE  /\ Gets(w, "fetch", "merge") /\ Keeps(w) /\ worker'[w].at = worker[w].at
             /\ current \in DOMAIN jobs /\ s \in snaps
             /\ s.dest = jobs[current].cfg.dest /\ Verifies(s) /\ worker'[w].tar = s.tar
  <2>1. current # 0 /\ s \in snaps /\ s.dest = jobs[current].cfg.dest /\ Verifies(s)
    BY DEF Restorable
  <2>2. s.tar \in Nat
    BY <2>1 DEF BackupBasics, BackupTypeOK
  <2>3. /\ Gets(w, "fetch", "merge") /\ Keeps(w) /\ worker'[w].at = worker[w].at
        /\ worker'[w].tar = s.tar
    <3> DEFINE r == [worker[w] EXCEPT !.pc = "merge", !.tar = s.tar]
    <3>1. worker' = [worker EXCEPT ![w] = r]
      BY <1>1, <1>3
    <3>2. worker[w] \in Workers
      BY <1>1
    <3>3. /\ r \in Workers /\ r.pc = "merge" /\ r.tar = s.tar /\ r.at = worker[w].at
          /\ r.job = worker[w].job /\ r.fp = worker[w].fp
      BY <1>1, <2>2, <3>2 DEF Workers
    <3>4. worker[w].pc = "fetch"
      BY DEF Fetch
    <3> HIDE DEF r
    <3> QED
      BY <1>1, <3>1, <3>3, <3>4 DEF Gets, Keeps, WorkersTyped, Rest
  <2>4. current \in DOMAIN jobs
    BY <2>1, ObjectsTyped DEF BackupBasics
  <2> QED
    BY <2>1, <2>3, <2>4
<1> QED
  BY <1>2, <1>3 DEF Fetch, requestVars

LEMMA MergeDoes ==
  ASSUME BackupBasics, NEW w \in BackupWorkers, Merge(w)
  PROVE  /\ Gets(w, "merge", "restored") /\ Keeps(w)
         /\ worker'[w].tar = worker[w].tar /\ worker'[w].at = worker[w].at
         /\ \/ tree' = worker[w].tar /\ edits' = edits
            \/ edits' = edits + 1 /\ tree' = edits'
         /\ UNCHANGED <<jobRow, current, saving, jobs, snaps, now, excuses>>
BY ToDoes DEF BackupBasics, Merge, requestVars, ActiveSteps, RestoreSteps

LEMMA EndRestoreDoes ==
  ASSUME BackupBasics, NEW w \in BackupWorkers, EndRestore(w)
  PROVE  /\ worker[w].job \in DOMAIN jobs /\ SameObjects(worker[w].job)
         /\ jobs'[worker[w].job] = [jobs[worker[w].job] EXCEPT !.restoring = FALSE]
         /\ Gets(w, "restored", "idle")
         /\ worker'[w].fp = NoFP /\ worker'[w].tar = 0 /\ worker'[w].at = 0
         /\ UNCHANGED <<jobRow, current, saving, tree, edits, snaps, now, excuses>>
<1>t. /\ jobs \in Seq(Objects) /\ Len(jobs) \in Nat /\ DOMAIN jobs = 1..Len(jobs)
      /\ \A o \in DOMAIN jobs : jobs[o] \in Objects
  BY ObjectsTyped DEF BackupBasics
<1>1. worker[w].job \in DOMAIN jobs
  BY DEF BackupBasics, PastOK, Active, ActiveSteps, RestoreSteps, EndRestore
<1> DEFINE o == worker[w].job
<1>2. jobs' = [jobs EXCEPT ![o] = [jobs[o] EXCEPT !.restoring = FALSE]]
      /\ [jobs[o] EXCEPT !.restoring = FALSE] \in Objects
  BY <1>1, <1>t, FieldSet DEF EndRestore
<1>o. o \in DOMAIN jobs
  BY <1>1
<1> HIDE DEF o
<1>3. SameObjects(o) /\ jobs'[o] = [jobs[o] EXCEPT !.restoring = FALSE]
  BY <1>o, <1>2, <1>t, ObjectSet DEF SameObjects, Objects
<1>4. WorkersTyped' /\ Rest(w) /\ worker'[w] = IdleWorker
  BY IdleTyped DEF BackupBasics, BackupTypeOK, WorkersTyped, Rest, EndRestore
<1> QED
  BY <1>1, <1>3, <1>4, IdleTyped DEF EndRestore, Gets, requestVars, o

LEMMA SaveRowDoes ==
  ASSUME BackupBasics, NEW cfg \in Configs, NEW fp \in {NoFP} \cup {jobs[o].lastFP : o \in DOMAIN jobs},
         SaveRow(cfg, fp)
  PROVE  /\ fp \in FPs /\ fp.tree <= edits
         /\ jobRow' = [cfg |-> cfg, fp |-> IF jobRow = NoRow THEN fp ELSE jobRow.fp]
         /\ saving' = saving \cup {[op |-> "save", cfg |-> cfg, fp |-> fp]}
         /\ saving' \subseteq Saved
         /\ excuses \subseteq excuses' /\ (saving # {} => "crossed" \in excuses')
         /\ Moves(cfg) => "moved" \in excuses'
         /\ UNCHANGED <<current, jobs, tree, edits, snaps, worker, now>>
<1>1. \A o \in DOMAIN jobs : jobs[o].lastFP \in FPs
  BY ObjectsTyped DEF BackupBasics, Objects
<1>2. fp \in FPs /\ fp.tree <= edits
  BY <1>1, IdleTyped DEF BackupBasics, BackupTypeOK, PastOK
<1>3. [op |-> "save", cfg |-> cfg, fp |-> fp] \in Saved
  BY <1>2 DEF Saved
<1> QED
  BY <1>2, <1>3 DEF SaveRow, BackupBasics, BackupTypeOK

LEMMA InstallDoes ==
  ASSUME BackupBasics, NEW s \in saving, Install(s)
  PROVE  /\ s.op = "save" /\ s.cfg \in Configs /\ s.fp \in FPs /\ saving' = saving \ {s}
         /\ jobs' \in Seq(Objects) /\ Len(jobs') = Len(jobs) + 1
         /\ DOMAIN jobs' = DOMAIN jobs \cup {current'} /\ current' = Len(jobs') /\ current' \notin DOMAIN jobs
         /\ \A o \in DOMAIN jobs : jobs'[o] = jobs[o]
         /\ jobs'[current'].cfg = s.cfg /\ jobs'[current'].nextRun = NextRun(now)
         /\ jobs'[current'].lastFP = IF current = 0 THEN s.fp ELSE jobs[current].lastFP
         /\ excuses \subseteq excuses' /\ (Moves(s.cfg) => "moved" \in excuses')
         /\ (\E o \in DOMAIN jobs : Busy(o)) => "replaced" \in excuses'
         /\ (\E w \in BackupWorkers : worker[w].pc = "update") => "crossed" \in excuses'
         /\ UNCHANGED <<jobRow, tree, edits, snaps, worker, now>>
<1>t. /\ jobs \in Seq(Objects) /\ Len(jobs) \in Nat /\ DOMAIN jobs = 1..Len(jobs)
      /\ \A o \in DOMAIN jobs : jobs[o] \in Objects
      /\ current # 0 <=> current \in DOMAIN jobs
  BY ObjectsTyped DEF BackupBasics
<1>1. s.op = "save" /\ s.cfg \in Configs /\ s.fp \in FPs
  BY DEF Install, BackupBasics, BackupTypeOK, Saved
<1>2. NextRun(now) \in Nat
  BY NextRunRight DEF BackupBasics, BackupTypeOK
<1>3. KeptFP(s.fp) \in FPs
  BY <1>1, <1>t DEF KeptFP, Objects
<1> DEFINE j == NewJob(s.cfg, KeptFP(s.fp))
<1>4. /\ j \in Objects /\ j.cfg = s.cfg /\ j.nextRun = NextRun(now)
      /\ j.lastFP = IF current = 0 THEN s.fp ELSE jobs[current].lastFP
  BY <1>1, <1>2, <1>3 DEF NewJob, Objects, KeptFP
<1>5. jobs' = Append(jobs, j) /\ current' = Len(jobs')
  BY DEF Install
<1> HIDE DEF j
<1>6. /\ Append(jobs, j) \in Seq(Objects) /\ Len(Append(jobs, j)) = Len(jobs) + 1
      /\ \A o \in 1..Len(jobs) : Append(jobs, j)[o] = jobs[o]
      /\ Append(jobs, j)[Len(jobs) + 1] = j
  BY <1>t, <1>4, AppendProperties
<1>7. DOMAIN jobs' = 1..Len(jobs')
  BY <1>5, <1>6
<1>8. DOMAIN jobs' = DOMAIN jobs \cup {current'} /\ current' \notin DOMAIN jobs
  BY <1>5, <1>6, <1>7, <1>t
<1>9. jobs'[current'] = j /\ \A o \in DOMAIN jobs : jobs'[o] = jobs[o]
  BY <1>5, <1>6, <1>t
<1> QED
  BY <1>1, <1>4, <1>5, <1>6, <1>8, <1>9, <1>t DEF Install

LEMMA RestartBackupsDoes ==
  ASSUME BackupBasics, RestartBackups
  PROVE  /\ WorkersTyped' /\ \A w \in BackupWorkers : worker'[w] = IdleWorker
         /\ saving' = {}
         /\ \/ jobRow = NoRow /\ jobs' = <<>> /\ current' = 0
            \/ /\ jobRow # NoRow /\ current' = 1 /\ DOMAIN jobs' = {1} /\ Len(jobs') = 1
               /\ jobs'[1].cfg = jobRow.cfg /\ jobs'[1].lastFP = jobRow.fp
               /\ jobs'[1].nextRun = NextRun(now)
         /\ jobs' \in Seq(Objects)
         /\ \/ tree = Mixed /\ edits' = edits + 1 /\ tree' = edits'
            \/ tree # Mixed /\ UNCHANGED <<edits, tree>>
         /\ UNCHANGED <<jobRow, snaps, now, excuses>>
<1>1. WorkersTyped' /\ \A w \in BackupWorkers : worker'[w] = IdleWorker
  BY IdleTyped DEF RestartBackups, WorkersTyped
<1>2. CASE jobRow = NoRow
  <2>1. jobs' = <<>> /\ current' = 0
    BY <1>2 DEF RestartBackups
  <2> QED
    BY <1>1, <1>2, <2>1 DEF RestartBackups
<1>3. CASE jobRow # NoRow
  <2>1. jobRow.cfg \in Configs /\ jobRow.fp \in FPs
    BY <1>3 DEF BackupBasics, BackupTypeOK
  <2>2. NextRun(now) \in Nat
    BY NextRunRight DEF BackupBasics, BackupTypeOK
  <2> DEFINE j == NewJob(jobRow.cfg, jobRow.fp)
  <2>3. /\ j \in Objects /\ j.cfg = jobRow.cfg /\ j.lastFP = jobRow.fp
        /\ j.nextRun = NextRun(now)
    BY <2>1, <2>2 DEF NewJob, Objects
  <2>4. jobs' = <<j>> /\ current' = Len(jobs')
    BY <1>3 DEF RestartBackups
  <2> HIDE DEF j
  <2>5. Len(jobs') = 1 /\ DOMAIN jobs' = {1} /\ jobs'[1] = j /\ jobs' \in Seq(Objects)
    BY <2>3, <2>4
  <2> QED
    BY <1>1, <1>3, <2>3, <2>4, <2>5 DEF RestartBackups
<1> QED
  BY <1>2, <1>3

\* The row is NoRow or has a configuration.
LEMMA RowIs == BackupTypeOK => (jobRow # NoRow <=> jobRow.cfg.dest \in Dests)
BY BackupAssumption DEF BackupTypeOK, Configs, NoRow

\* What a description does to the snapshots.
Described(w, s) == IF s \in SnapsAt(Cfg(w).dest, worker[w].at)
                   THEN [s EXCEPT !.meta = [tar |-> worker[w].tar, fp |-> worker[w].fp]] ELSE s
LEMMA DescribedIs ==
  ASSUME BackupBasics, NEW w \in BackupWorkers, NEW s \in snaps
  PROVE  /\ Described(w, s) \in [dest : Dests, at : Nat, tar : Nat, meta : [tar : Nat, fp : FPs]]
         /\ Described(w, s).dest = s.dest /\ Described(w, s).at = s.at /\ Described(w, s).tar = s.tar
         /\ Described(w, s).meta \in {s.meta, [tar |-> worker[w].tar, fp |-> worker[w].fp]}
         /\ s \in SnapsAt(Cfg(w).dest, worker[w].at) =>
              Described(w, s).meta = [tar |-> worker[w].tar, fp |-> worker[w].fp]
<1>1. s \in [dest : Dests, at : Nat, tar : Nat, meta : [tar : Nat, fp : FPs]]
  BY DEF BackupBasics, BackupTypeOK
<1>2. worker[w].tar \in Nat /\ worker[w].fp \in FPs
  BY DEF BackupBasics, BackupTypeOK, WorkersTyped, Workers
<1> QED
  BY <1>1, <1>2 DEF Described

\* Types, and that nothing is of the future.
LEMMA BackupBasicsStep ==
  ASSUME BackupBasics, [BackupNext]_backupVars
  PROVE  BackupBasics'
<1>t. BackupTypeOK /\ PastOK
  BY DEF BackupBasics
<1>j. /\ jobs \in Seq(Objects) /\ Len(jobs) \in Nat /\ DOMAIN jobs = 1..Len(jobs)
      /\ \A o \in DOMAIN jobs : jobs[o] \in Objects
      /\ current # 0 <=> current \in DOMAIN jobs
  BY <1>t, ObjectsTyped
<1>n. /\ edits \in Nat /\ tree \in Nat /\ now \in Nat
      /\ \A w \in BackupWorkers : worker[w].fp.tree \in Nat /\ worker[w].tar \in Nat /\ worker[w].at \in Nat
  BY <1>t DEF BackupTypeOK, WorkersTyped, Workers, FPs
<1>i. ~ ("idle" \in ActiveSteps) /\ ~ ("rotate" \in ActiveSteps)
  BY DEF ActiveSteps, RunSteps, RestoreSteps
<1>z. /\ jobRow \in [cfg : Configs, fp : FPs] \cup {NoRow} /\ jobRow.fp.tree <= edits /\ tree <= edits
      /\ snaps \subseteq snaps /\ \A o \in DOMAIN jobs : jobs[o].lastFP.tree <= edits
      /\ tree \in Nat
  BY <1>t DEF BackupTypeOK, PastOK
\* Steps of a goroutine that leave the snapshots and versions alone.
<1>w. ASSUME NEW w \in BackupWorkers, Rest(w), WorkersTyped',
             Active(w)' => worker'[w].job \in DOMAIN jobs',
             worker'[w].fp.tree <= edits, worker'[w].tar <= edits, worker'[w].at <= now,
             jobs' \in Seq(Objects), Len(jobs') = Len(jobs), DOMAIN jobs' = DOMAIN jobs,
             \A o \in DOMAIN jobs : jobs'[o].lastFP.tree <= edits,
             jobRow' \in [cfg : Configs, fp : FPs] \cup {NoRow}, jobRow'.fp.tree <= edits,
             UNCHANGED <<current, saving, edits, now>>,
             tree' \in Nat, tree' <= edits
      PROVE  /\ snaps' \subseteq snaps => BackupBasics'
             /\ /\ snaps' \subseteq [dest : Dests, at : Nat, tar : Nat, meta : [tar : Nat, fp : FPs]]
                /\ \A s \in snaps' : s.tar <= edits /\ s.at <= now
                /\ \A s, z \in snaps' : s.dest = z.dest /\ s.at = z.at => s = z
                => BackupBasics'
  <2>1. /\ jobRow' \in [cfg : Configs, fp : FPs] \cup {NoRow}
        /\ jobs' \in Seq(Objects) /\ current' \in 0..Len(jobs') /\ saving' \subseteq Saved
        /\ tree' \in Nat /\ edits' \in Nat \ {0} /\ now' \in 0..MaxTime /\ WorkersTyped'
    BY <1>w, <1>t DEF BackupTypeOK
  <2>2. /\ \A z \in BackupWorkers : /\ Active(z)' => worker'[z].job \in DOMAIN jobs'
                                    /\ worker'[z].fp.tree <= edits' /\ worker'[z].tar <= edits' /\ worker'[z].at <= now'
        /\ \A o \in DOMAIN jobs' : jobs'[o].lastFP.tree <= edits'
        /\ \A s \in saving' : s.fp.tree <= edits'
        /\ jobRow'.fp.tree <= edits' /\ tree' <= edits'
    BY <1>w, <1>t DEF PastOK, Active, Rest
  <2>3. /\ snaps' \subseteq snaps =>
             /\ snaps' \subseteq [dest : Dests, at : Nat, tar : Nat, meta : [tar : Nat, fp : FPs]]
             /\ \A s \in snaps' : s.tar <= edits' /\ s.at <= now'
             /\ \A s, z \in snaps' : s.dest = z.dest /\ s.at = z.at => s = z
    BY <1>w, <1>t DEF BackupTypeOK, PastOK
  <2> QED
    BY <2>1, <2>2, <2>3, <1>w DEF BackupBasics, BackupTypeOK, PastOK
<1>1. ASSUME NEW cfg \in Configs, NEW fp \in {NoFP} \cup {jobs[o].lastFP : o \in DOMAIN jobs}, SaveRow(cfg, fp)
      PROVE  BackupBasics'
  <2>1. /\ fp \in FPs /\ fp.tree <= edits
        /\ jobRow' = [cfg |-> cfg, fp |-> IF jobRow = NoRow THEN fp ELSE jobRow.fp]
        /\ saving' = saving \cup {[op |-> "save", cfg |-> cfg, fp |-> fp]}
        /\ saving' \subseteq Saved
        /\ UNCHANGED <<current, jobs, tree, edits, snaps, worker, now>>
    BY <1>1, SaveRowDoes
  <2>2. BackupTypeOK'
    BY <2>1, <1>t DEF BackupTypeOK, WorkersTyped
  <2>3. PastOK'
    BY <2>1, <1>t DEF PastOK, Active
  <2> QED
    BY <2>2, <2>3 DEF BackupBasics
<1>2. ASSUME NEW s \in saving, Install(s) PROVE BackupBasics'
  <2>1. /\ saving' = saving \ {s} /\ s.fp \in FPs
        /\ jobs' \in Seq(Objects) /\ Len(jobs') = Len(jobs) + 1
        /\ DOMAIN jobs' = DOMAIN jobs \cup {current'} /\ current' = Len(jobs')
        /\ \A o \in DOMAIN jobs : jobs'[o] = jobs[o]
        /\ jobs'[current'].lastFP = IF current = 0 THEN s.fp ELSE jobs[current].lastFP
        /\ UNCHANGED <<jobRow, tree, edits, snaps, worker, now>>
    BY <1>2, InstallDoes
  <2>2. BackupTypeOK'
    BY <2>1, <1>t, <1>j DEF BackupTypeOK, WorkersTyped
  <2>3. PastOK'
    BY <2>1, <1>t, <1>j DEF PastOK, Active
  <2> QED
    BY <2>2, <2>3 DEF BackupBasics
<1>3. ASSUME Forget PROVE BackupBasics'
  <2>1. /\ current' = 0
        /\ saving' = saving \cup {[op |-> "delete", cfg |-> NoRow.cfg, fp |-> NoFP]}
        /\ UNCHANGED <<jobRow, jobs, tree, edits, snaps, worker, now>>
    BY <1>3 DEF Forget
  <2>2. BackupTypeOK'
    BY <2>1, <1>t, <1>j, IdleTyped DEF BackupTypeOK, WorkersTyped, Saved
  <2>3. PastOK'
    BY <2>1, <1>t, <1>n, IdleTyped DEF PastOK, Active
  <2> QED
    BY <2>2, <2>3 DEF BackupBasics
<1>4. ASSUME NEW s \in saving, DropRow(s) PROVE BackupBasics'
  <2>1. /\ saving' = saving \ {s} /\ jobRow' = NoRow
        /\ UNCHANGED <<current, jobs, tree, edits, snaps, worker, now>>
    BY <1>4 DEF DropRow
  <2>2. BackupTypeOK'
    BY <2>1, <1>t DEF BackupTypeOK, WorkersTyped
  <2>3. PastOK'
    BY <2>1, <1>t, <1>n, IdleTyped DEF PastOK, Active, NoRow
  <2> QED
    BY <2>2, <2>3 DEF BackupBasics
<1>5. ASSUME NEW w \in BackupWorkers, NEW o \in DOMAIN jobs, Starts(w, o) PROVE BackupBasics'
  <2>1. /\ WorkersTyped' /\ Rest(w) /\ worker'[w].job \in DOMAIN jobs'
        /\ worker'[w].fp.tree = 0 /\ worker'[w].tar = 0 /\ worker'[w].at = 0
        /\ jobs' \in Seq(Objects) /\ Len(jobs') = Len(jobs) /\ DOMAIN jobs' = DOMAIN jobs
        /\ \A p \in DOMAIN jobs : jobs'[p].lastFP = jobs[p].lastFP
        /\ UNCHANGED <<jobRow, current, saving, tree, edits, snaps, now>>
    BY <1>5, IdleTyped DEF Starts, SameObjects
  <2>2. /\ worker'[w].fp.tree <= edits /\ worker'[w].tar <= edits /\ worker'[w].at <= now
        /\ \A p \in DOMAIN jobs : jobs'[p].lastFP.tree <= edits
    BY <2>1, <1>t, <1>n DEF PastOK
  <2> QED
    BY <2>1, <2>2, <1>w, <1>z, Zenon
<1>6. ASSUME NEW w \in BackupWorkers, ScheduledBackup(w), ~GateOpen(current) PROVE BackupBasics'
  <2>1. /\ current \in DOMAIN jobs /\ SameObjects(current)
        /\ jobs'[current] = [jobs[current] EXCEPT !.nextRun = NextRun(now)]
        /\ UNCHANGED <<jobRow, current, saving, tree, edits, snaps, worker, now>>
    BY <1>6, <1>t, MissedDoes
  <2>2. \A o \in DOMAIN jobs : jobs'[o].lastFP = jobs[o].lastFP
    BY <2>1, <1>j DEF SameObjects, Objects
  <2>3. BackupTypeOK'
    BY <2>1, <1>t DEF BackupTypeOK, WorkersTyped, SameObjects
  <2>4. PastOK'
    BY <2>1, <2>2, <1>t DEF PastOK, Active, SameObjects
  <2> QED
    BY <2>3, <2>4 DEF BackupBasics
<1>7. ASSUME NEW w \in BackupWorkers, Walk(w) PROVE BackupBasics'
  <2>1. /\ Gets(w, "walk", IF Unchanged(w) THEN "skipped" ELSE "pack")
        /\ worker'[w].job = worker[w].job /\ worker'[w].fp.tree = tree
        /\ worker'[w].at = now /\ worker'[w].tar = worker[w].tar
        /\ UNCHANGED <<jobRow, current, saving, jobs, tree, edits, snaps, now>>
    BY <1>7, WalkDoes
  <2>2. worker[w].job \in DOMAIN jobs
    BY <2>1, <1>t DEF PastOK, Active, Gets, ActiveSteps, RunSteps
  <2> QED
    BY <2>1, <2>2, <1>w, <1>t, <1>n, <1>j DEF Gets, PastOK, BackupTypeOK
<1>8. ASSUME NEW w \in BackupWorkers, PutArchive(w) PROVE BackupBasics'
  <2> DEFINE here == SnapsAt(Cfg(w).dest, worker[w].at)
  <2>1. /\ Gets(w, "pack", "describe") /\ Keeps(w) /\ worker[w].job \in DOMAIN jobs
        /\ worker'[w].tar = tree /\ worker'[w].at = worker[w].at
        /\ UNCHANGED <<jobRow, current, saving, jobs, tree, edits, now>>
        /\ Cfg(w).dest \in Dests
    BY <1>8, PutArchiveDoes
  <2>2. PICK m \in [tar : Nat, fp : FPs] :
           snaps' = (snaps \ here) \cup {[dest |-> Cfg(w).dest, at |-> worker[w].at, tar |-> tree, meta |-> m]}
    BY <1>8, PutArchiveDoes
  <2>3. \A z \in snaps \ here : ~(z.dest = Cfg(w).dest /\ z.at = worker[w].at)
    BY DEF SnapsAt
  <2>4. /\ snaps' \subseteq [dest : Dests, at : Nat, tar : Nat, meta : [tar : Nat, fp : FPs]]
        /\ \A s \in snaps' : s.tar <= edits /\ s.at <= now
        /\ \A s, z \in snaps' : s.dest = z.dest /\ s.at = z.at => s = z
    BY <2>1, <2>2, <2>3, <1>t, <1>n DEF BackupTypeOK, PastOK
  <2> QED
    BY <2>1, <2>4, <1>w, <1>t, <1>n, <1>j DEF Gets, Keeps, PastOK, BackupTypeOK
<1>9. ASSUME NEW w \in BackupWorkers, PutMeta(w) PROVE BackupBasics'
  <2>1. /\ Gets(w, "describe", "store") /\ Keeps(w) /\ worker[w].job \in DOMAIN jobs
        /\ worker'[w].tar = 0 /\ worker'[w].at = 0
        /\ snaps' = {Described(w, s) : s \in snaps}
        /\ UNCHANGED <<jobRow, current, saving, jobs, tree, edits, now>>
    BY <1>9, PutMetaDoes DEF Described
  <2>2. \A s \in snaps : /\ Described(w, s) \in [dest : Dests, at : Nat, tar : Nat, meta : [tar : Nat, fp : FPs]]
                         /\ Described(w, s).dest = s.dest /\ Described(w, s).at = s.at /\ Described(w, s).tar = s.tar
    BY DescribedIs
  <2>3. /\ snaps' \subseteq [dest : Dests, at : Nat, tar : Nat, meta : [tar : Nat, fp : FPs]]
        /\ \A s \in snaps' : s.tar <= edits /\ s.at <= now
        /\ \A s, z \in snaps' : s.dest = z.dest /\ s.at = z.at => s = z
    BY <2>1, <2>2, <1>t DEF PastOK
  <2>4. /\ worker'[w].fp.tree <= edits /\ worker'[w].tar <= edits /\ worker'[w].at <= now
        /\ \A o \in DOMAIN jobs : jobs[o].lastFP.tree <= edits
        /\ jobRow.fp.tree <= edits /\ tree <= edits
        /\ jobRow \in [cfg : Configs, fp : FPs] \cup {NoRow}
    BY <2>1, <1>t, <1>n DEF Keeps, PastOK, BackupTypeOK
  <2>5. Rest(w) /\ WorkersTyped'
    BY <2>1 DEF Gets
  <2> QED
    BY <2>1, <2>3, <2>4, <2>5, <1>w, <1>n, <1>j, Zenon DEF Keeps
<1>10. ASSUME NEW w \in BackupWorkers, StoreFP(w) PROVE BackupBasics'
  <2>1. /\ Keeps(w) /\ worker[w].job \in DOMAIN jobs /\ worker'[w].tar = worker[w].tar
        /\ worker'[w].at = worker[w].at /\ Rest(w) /\ WorkersTyped'
        /\ \/ jobRow' = IF jobRow = NoRow THEN NoRow ELSE [jobRow EXCEPT !.fp = worker[w].fp]
           \/ jobRow' = jobRow
        /\ UNCHANGED <<current, saving, jobs, tree, edits, snaps, now>>
    BY <1>10, StoreFPDoes DEF Gets
  <2>2. worker[w].fp \in FPs
    BY <1>t DEF BackupTypeOK, WorkersTyped, Workers
  <2>3. jobRow' \in [cfg : Configs, fp : FPs] \cup {NoRow} /\ jobRow'.fp.tree <= edits
    BY <2>1, <2>2, <1>t DEF BackupTypeOK, PastOK
  <2> QED
    BY <2>1, <2>3, <1>w, <1>t, <1>n, <1>j DEF Keeps, PastOK, BackupTypeOK
<1>11. ASSUME NEW w \in BackupWorkers, UpdateFP(w) PROVE BackupBasics'
  <2>1. /\ Gets(w, "update", "done") /\ worker[w].job \in DOMAIN jobs /\ worker'[w].job = worker[w].job
        /\ worker'[w].fp = NoFP /\ worker'[w].tar = worker[w].tar /\ worker'[w].at = worker[w].at
        /\ \/ jobs' = jobs
           \/ current \in DOMAIN jobs /\ SameObjects(current)
              /\ jobs'[current] = [jobs[current] EXCEPT !.lastFP = worker[w].fp]
        /\ UNCHANGED <<jobRow, current, saving, tree, edits, snaps, now>>
    BY <1>11, UpdateFPDoes
  <2>2. /\ jobs' \in Seq(Objects) /\ Len(jobs') = Len(jobs) /\ DOMAIN jobs' = DOMAIN jobs
        /\ \A o \in DOMAIN jobs : jobs'[o].lastFP.tree <= edits
    <3>1. CASE jobs' = jobs
      BY <3>1, <1>t, <1>j DEF PastOK
    <3>2. CASE /\ current \in DOMAIN jobs /\ SameObjects(current)
               /\ jobs'[current] = [jobs[current] EXCEPT !.lastFP = worker[w].fp]
      <4>1. jobs'[current].lastFP = worker[w].fp
        BY <3>2, <1>j DEF Objects
      <4>2. worker[w].fp.tree <= edits
        BY <1>t DEF PastOK
      <4> QED
        BY <3>2, <4>1, <4>2, <1>t DEF SameObjects, PastOK
    <3> QED
      BY <2>1, <3>1, <3>2
  <2> QED
    BY <2>1, <2>2, <1>w, <1>t, <1>n, IdleTyped DEF Gets, PastOK, BackupTypeOK
<1>12. ASSUME NEW w \in BackupWorkers, RequestFails(w) PROVE BackupBasics'
  <2>1. /\ Keeps(w) /\ worker'[w].tar = worker[w].tar /\ worker'[w].at = worker[w].at
        /\ Active(w) /\ Rest(w) /\ WorkersTyped'
        /\ UNCHANGED <<jobRow, current, saving, jobs, tree, edits, snaps, now>>
    BY <1>12, RequestFailsDoes DEF Gets, Active, ActiveSteps, RunSteps, RestoreSteps
  <2> QED
    BY <2>1, <1>w, <1>t, <1>n, <1>j DEF Keeps, PastOK, BackupTypeOK
<1>13. ASSUME NEW w \in BackupWorkers, EndBackup(w) \/ EndRestore(w) PROVE BackupBasics'
  <2>1. /\ worker[w].job \in DOMAIN jobs /\ SameObjects(worker[w].job)
        /\ jobs'[worker[w].job].lastFP = jobs[worker[w].job].lastFP
        /\ \E from \in ActiveSteps, to \in {"idle", "rotate"} : Gets(w, from, to)
        /\ worker'[w].fp = NoFP /\ worker'[w].tar = 0 /\ worker'[w].at = 0
        /\ UNCHANGED <<jobRow, current, saving, tree, edits, snaps, now>>
    BY <1>13, <1>j, EndBackupDoes, EndRestoreDoes DEF Objects, ActiveSteps, RunSteps, RestoreSteps
  <2>2. \A o \in DOMAIN jobs : jobs'[o].lastFP.tree <= edits
    BY <2>1, <1>t DEF SameObjects, PastOK
  <2> QED
    BY <2>1, <2>2, <1>w, <1>t, <1>n, <1>i, IdleTyped DEF Gets, SameObjects, PastOK, BackupTypeOK, Active
<1>14. ASSUME NEW w \in BackupWorkers, Rotate(w) PROVE BackupBasics'
  <2>1. /\ Gets(w, "rotate", "idle")
        /\ worker'[w].fp = NoFP /\ worker'[w].tar = 0 /\ worker'[w].at = 0
        /\ snaps' \subseteq snaps
        /\ UNCHANGED <<jobRow, current, saving, jobs, tree, edits, now>>
    BY <1>14, RotateDoes
  <2> QED
    BY <2>1, <1>w, <1>t, <1>n, <1>i, <1>j, IdleTyped DEF Gets, PastOK, BackupTypeOK, Active
<1>15. ASSUME NEW w \in BackupWorkers, Fetch(w) PROVE BackupBasics'
  <2>1. /\ Keeps(w) /\ worker'[w].at = worker[w].at /\ Active(w) /\ Rest(w) /\ WorkersTyped'
        /\ tree' \in {tree, Mixed}
        /\ worker'[w].tar = worker[w].tar \/ \E s \in snaps : worker'[w].tar = s.tar
        /\ UNCHANGED <<jobRow, current, saving, jobs, edits, snaps, now>>
    BY <1>15, FetchDoes DEF Gets, Active, ActiveSteps, RestoreSteps
  <2>2. /\ worker'[w].fp.tree <= edits /\ worker'[w].tar <= edits /\ worker'[w].at <= now
        /\ worker'[w].job \in DOMAIN jobs'
    BY <2>1, <1>t DEF Keeps, PastOK
  <2>3. tree' \in Nat /\ tree' <= edits
    BY <2>1, <1>z, <1>n DEF Mixed
  <2> QED
    BY <2>1, <2>2, <2>3, <1>w, <1>z, <1>j, Zenon
<1>16. ASSUME NEW w \in BackupWorkers, Merge(w) PROVE BackupBasics'
  <2>1. /\ Gets(w, "merge", "restored") /\ Keeps(w)
        /\ worker'[w].tar = worker[w].tar /\ worker'[w].at = worker[w].at
        /\ \/ tree' = worker[w].tar /\ edits' = edits
           \/ edits' = edits + 1 /\ tree' = edits'
        /\ UNCHANGED <<jobRow, current, saving, jobs, snaps, now>>
    BY <1>16, MergeDoes
  <2>2. Active(w)
    BY <2>1 DEF Gets, Active, ActiveSteps, RestoreSteps
  <2>3. edits' \in Nat \ {0} /\ edits <= edits' /\ tree' \in Nat /\ tree' <= edits'
    BY <2>1, <1>t, <1>n DEF BackupTypeOK, PastOK
  <2>4. BackupTypeOK'
    BY <2>1, <2>3, <1>t DEF BackupTypeOK, Gets
  <2>5. \A z \in BackupWorkers : /\ Active(z)' => Active(z) /\ worker'[z].job = worker[z].job
                                 /\ worker'[z].fp = worker[z].fp /\ worker'[z].tar = worker[z].tar /\ worker'[z].at = worker[z].at
    BY <2>1, <2>2 DEF Gets, Rest, Keeps, Active
  <2>6. PastOK'
    <3>1. \A n \in Nat : n <= edits => n <= edits'
      BY <2>3, <1>n
    <3>2. /\ \A o \in DOMAIN jobs : jobs[o].lastFP.tree \in Nat
          /\ \A s \in saving : s.fp.tree \in Nat /\ \A z \in snaps : z.tar \in Nat
          /\ jobRow.fp.tree \in Nat
      BY <1>t, <1>j, IdleTyped DEF BackupTypeOK, Objects, FPs, Saved, NoRow
    <3>3. \A z \in snaps : z.tar \in Nat
      BY <1>t DEF BackupTypeOK
    <3> QED
      BY <2>1, <2>3, <2>5, <3>1, <3>2, <3>3, <1>t, <1>n DEF PastOK
  <2> QED
    BY <2>4, <2>6 DEF BackupBasics
<1>17. ASSUME Edit \/ Pass PROVE BackupBasics'
  <2>1. /\ edits' \in Nat \ {0} /\ edits <= edits' /\ tree' \in Nat /\ tree' <= edits'
        /\ now' \in 0..MaxTime /\ now <= now'
        /\ UNCHANGED <<jobRow, current, saving, jobs, snaps, worker>>
    <3>1. CASE Edit
      BY <3>1, <1>t, <1>n DEF Edit, BackupTypeOK, PastOK, requestVars
    <3>2. CASE Pass
      BY <3>2, <1>t, <1>n, BackupAssumption DEF Pass, BackupTypeOK, PastOK, requestVars
    <3> QED
      BY <1>17, <3>1, <3>2
  <2>2. BackupTypeOK'
    BY <2>1, <1>t DEF BackupTypeOK, WorkersTyped
  <2>3. \A n \in Nat : (n <= edits => n <= edits') /\ (n <= now => n <= now')
    BY <2>1, <1>n
  <2>4. /\ \A o \in DOMAIN jobs : jobs[o].lastFP.tree \in Nat
        /\ \A s \in saving : s.fp.tree \in Nat
        /\ jobRow.fp.tree \in Nat /\ \A z \in snaps : z.tar \in Nat /\ z.at \in Nat
    BY <1>t, <1>j, IdleTyped DEF BackupTypeOK, Objects, FPs, Saved, NoRow
  <2>5. PastOK'
    BY <2>1, <2>3, <2>4, <1>t, <1>n DEF PastOK, Active
  <2> QED
    BY <2>2, <2>5 DEF BackupBasics
<1>18. ASSUME RestartBackups PROVE BackupBasics'
  <2>1. /\ WorkersTyped' /\ \A w \in BackupWorkers : worker'[w] = IdleWorker
        /\ saving' = {} /\ jobs' \in Seq(Objects)
        /\ \/ jobs' = <<>> /\ current' = 0
           \/ /\ current' = 1 /\ DOMAIN jobs' = {1} /\ Len(jobs') = 1 /\ jobs'[1].lastFP = jobRow.fp
        /\ \/ edits' = edits + 1 /\ tree' = edits'
           \/ UNCHANGED <<edits, tree>>
        /\ UNCHANGED <<jobRow, snaps, now>>
    BY <1>18, RestartBackupsDoes
  <2>2. edits' \in Nat \ {0} /\ edits <= edits' /\ tree' \in Nat /\ tree' <= edits'
    BY <2>1, <1>t, <1>n DEF BackupTypeOK, PastOK
  <2>3. BackupTypeOK'
    BY <2>1, <2>2, <1>t DEF BackupTypeOK
  <2>4. \A n \in Nat : n <= edits => n <= edits'
    BY <2>2, <1>n
  <2>5. jobRow.fp.tree \in Nat /\ \A z \in snaps : z.tar \in Nat
    BY <1>t, IdleTyped DEF BackupTypeOK, FPs, NoRow
  <2>6. PastOK'
    BY <2>1, <2>2, <2>4, <2>5, <1>t, <1>n, <1>i, IdleTyped DEF PastOK, Active
  <2> QED
    BY <2>3, <2>6 DEF BackupBasics
<1>19. ASSUME UNCHANGED backupVars PROVE BackupBasics'
  BY <1>19, <1>t DEF backupVars, requestVars, BackupBasics, BackupTypeOK, WorkersTyped, PastOK, Active
<1> QED
  BY <1>1, <1>2, <1>3, <1>4, <1>5, <1>6, <1>7, <1>8, <1>9, <1>10, <1>11, <1>12, <1>13, <1>14, <1>15, <1>16, <1>17, <1>18, <1>19, <1>t, <1>j, StartDoes
  DEF BackupNext, ScheduledBackup

-----------------------------------------------------------------------------
(***************************************************************************)
(* What has happened stays so.                                             *)
(***************************************************************************)
LEMMA ExcusesKept ==
  ASSUME [BackupNext]_backupVars
  PROVE  excuses \subseteq excuses'
<1>1. \A w \in BackupWorkers : \A o, kind, force : Begin(w, o, kind, force) => excuses \subseteq excuses'
  BY DEF Begin
<1>2. \A w \in BackupWorkers : \A o, force : RunBackup(w, o, force) => excuses \subseteq excuses'
  BY <1>1 DEF RunBackup
<1>3. \A w \in BackupWorkers : \A o : StartRestore(w, o) => excuses \subseteq excuses'
  BY <1>1 DEF StartRestore
<1>4. \A w \in BackupWorkers : ScheduledBackup(w) => excuses \subseteq excuses'
  <2> SUFFICES ASSUME NEW w \in BackupWorkers, ScheduledBackup(w) PROVE excuses \subseteq excuses'
    OBVIOUS
  <2>1. CASE GateOpen(current)
    BY <1>1, <2>1 DEF ScheduledBackup
  <2>2. CASE ~GateOpen(current)
    BY <2>2 DEF ScheduledBackup
  <2> QED
    BY <2>1, <2>2
<1>5. \A cfg \in Configs : \A fp : SaveRow(cfg, fp) => excuses \subseteq excuses'
  BY DEF SaveRow
<1>6. \A s \in saving : Install(s) \/ DropRow(s) => excuses \subseteq excuses'
  BY DEF Install, DropRow
<1>7. Forget \/ Edit \/ Pass \/ RestartBackups => excuses \subseteq excuses'
  BY DEF Forget, Edit, Pass, RestartBackups, Excuse
<1>8. \A w \in BackupWorkers : Walk(w) \/ PutArchive(w) \/ PutMeta(w) \/ StoreFP(w) \/ UpdateFP(w) \/ RequestFails(w)
                                 => excuses \subseteq excuses'
  BY DEF Walk, PutArchive, PutMeta, StoreFP, UpdateFP, RequestFails, Excuse
<1>9. \A w \in BackupWorkers : EndBackup(w) \/ Rotate(w) \/ Fetch(w) \/ Merge(w) \/ EndRestore(w)
                                 => excuses \subseteq excuses'
  BY DEF EndBackup, Rotate, Fetch, Merge, EndRestore
<1>10. UNCHANGED backupVars => excuses \subseteq excuses'
  BY DEF backupVars
<1> QED
  BY <1>2, <1>3, <1>4, <1>5, <1>6, <1>7, <1>8, <1>9, <1>10 DEF BackupNext

-----------------------------------------------------------------------------
(***************************************************************************)
(* One goroutine passes the gate.                                          *)
(***************************************************************************)
LEMMA GateStep ==
  ASSUME BackupBasics, GateOK, [BackupNext]_backupVars
  PROVE  GateOK'
<1> SUFFICES ASSUME ~Excused({"replaced"})' PROVE Gated'
  BY DEF GateOK
<1>r. "replaced" \notin excuses' /\ "replaced" \notin excuses
  BY ExcusesKept DEF Excused
<1>g. Gated
  BY <1>r DEF GateOK, Excused
<1>t. BackupTypeOK /\ PastOK
  BY DEF BackupBasics
<1>j. /\ jobs \in Seq(Objects) /\ Len(jobs) \in Nat /\ DOMAIN jobs = 1..Len(jobs)
      /\ \A o \in DOMAIN jobs : jobs[o] \in Objects
      /\ current # 0 <=> current \in DOMAIN jobs
  BY <1>t, ObjectsTyped
<1>n. edits \in Nat /\ tree \in Nat
  BY <1>t DEF BackupTypeOK
<1>s. /\ RunSteps \cap RestoreSteps = {} /\ "idle" \notin ActiveSteps /\ "rotate" \notin ActiveSteps
      /\ ActiveSteps = RunSteps \cup RestoreSteps
  BY DEF ActiveSteps, RunSteps, RestoreSteps
\* Who is at work keeps the gate shut.
<1>b. \A w \in BackupWorkers : Active(w) => current \in DOMAIN jobs /\ Busy(current)
  BY <1>g, <1>t, <1>s DEF Gated, PastOK, Active, Busy
\* Nobody is at work.
<1>e. ASSUME \A w \in BackupWorkers : ~Active(w)', tree' # Mixed, \A z \in snaps' : z.tar # Mixed
      PROVE  Gated'
  <2>1. \A w \in BackupWorkers : worker'[w].pc # "merge"
    BY <1>e DEF Active, ActiveSteps, RestoreSteps
  <2> QED
    BY <1>e, <2>1 DEF Gated
<1>f. (\A w \in BackupWorkers : ~Active(w)) => tree # Mixed
  BY <1>g DEF Gated, Active, ActiveSteps, RestoreSteps
\* A goroutine takes another step of its backup, or of its restore.
<1>w. ASSUME NEW w \in BackupWorkers, NEW from \in ActiveSteps, NEW to \in ActiveSteps, Gets(w, from, to),
             worker'[w].job = worker[w].job, from \in RunSteps <=> to \in RunSteps,
             UNCHANGED current,
             \A o \in DOMAIN jobs : /\ jobs'[o].running = jobs[o].running
                                    /\ jobs'[o].restoring = jobs[o].restoring
      PROVE  /\ \A z \in BackupWorkers : Active(z)' <=> z = w
             /\ \A z \in BackupWorkers : Active(z) <=> z = w
             /\ from # "merge" => tree # Mixed
             /\ /\ tree' = Mixed => to = "merge"
                /\ to = "merge" => worker'[w].tar # Mixed
                /\ \A s \in snaps' : s.tar # Mixed
                => Gated'
  <2>1. \A z \in BackupWorkers : Active(z) <=> z = w
    BY <1>w, <1>g DEF Gated, Active, Gets
  <2>2. \A z \in BackupWorkers : Active(z)' <=> z = w
    BY <1>w, <2>1 DEF Active, Gets, Rest
  <2>3. from # "merge" => tree # Mixed
    BY <1>g, <1>w, <2>1 DEF Gated, Gets, Active, ActiveSteps, RestoreSteps
  <2>4. /\ worker[w].job = current /\ worker[w].pc = from /\ worker'[w].pc = to
        /\ from \in RunSteps => jobs[current].running
        /\ from \in RestoreSteps => jobs[current].restoring
    BY <1>w, <1>g, <2>1 DEF Gated, Gets
  <2>5. current \in DOMAIN jobs
    BY <1>b, <2>1
  <2>6. /\ worker'[w].job = current'
        /\ to \in RunSteps => jobs'[current'].running
        /\ to \in RestoreSteps => jobs'[current'].restoring
    BY <1>w, <1>s, <2>4, <2>5
  <2>7. \A z \in BackupWorkers : worker'[z].pc = "merge" => z = w
    BY <2>2 DEF Active, ActiveSteps, RestoreSteps
  <2>8. /\ tree' = Mixed => to = "merge"
        /\ to = "merge" => worker'[w].tar # Mixed
        /\ \A s \in snaps' : s.tar # Mixed
        => Gated'
    BY <2>2, <2>4, <2>6, <2>7 DEF Gated
  <2> QED
    BY <2>1, <2>2, <2>3, <2>8
<1>x. /\ \A step \in {"walk", "skipped", "pack", "describe", "store", "update", "done", "failed"} :
           step \in ActiveSteps /\ step \in RunSteps
      /\ \A step \in {"fetch", "merge", "restored"} :
           step \in ActiveSteps /\ step \notin RunSteps
      /\ \A s \in snaps : s.tar # Mixed
  BY <1>g DEF ActiveSteps, RunSteps, RestoreSteps, Gated
<1>1. ASSUME NEW cfg \in Configs, NEW fp \in {NoFP} \cup {jobs[o].lastFP : o \in DOMAIN jobs}, SaveRow(cfg, fp)
      PROVE  Gated'
  BY <1>1, <1>g DEF SaveRow, Gated, Active
<1>2. ASSUME NEW s \in saving, Install(s) PROVE Gated'
  <2>1. /\ UNCHANGED <<tree, snaps, worker>>
        /\ \A o \in DOMAIN jobs : ~Busy(o)
    BY <1>2, <1>r, InstallDoes
  <2>2. \A w \in BackupWorkers : ~Active(w)
    BY <2>1, <1>b
  <2> QED
    BY <2>1, <2>2, <1>e, <1>f, <1>g DEF Gated, Active
<1>3. ASSUME Forget PROVE Gated'
  <2>1. ~(current # 0 /\ Busy(current)) /\ UNCHANGED <<tree, snaps, worker>>
    BY <1>3, <1>r DEF Forget
  <2>2. \A w \in BackupWorkers : ~Active(w)
    BY <2>1, <1>b, <1>j
  <2> QED
    BY <2>1, <2>2, <1>e, <1>f, <1>g DEF Gated, Active
<1>4. ASSUME NEW s \in saving, DropRow(s) PROVE Gated'
  BY <1>4, <1>g DEF DropRow, Gated, Active
<1>5. ASSUME NEW w \in BackupWorkers, NEW o \in DOMAIN jobs, Starts(w, o) PROVE Gated'
  <2>1. /\ o = current /\ worker[w].pc = "idle" /\ ~Busy(o) /\ Rest(w) /\ worker'[w].job = o
        /\ \/ worker'[w].pc = "walk" /\ jobs'[o].running
           \/ worker'[w].pc = "fetch" /\ jobs'[o].restoring
        /\ UNCHANGED <<current, tree, snaps>>
    BY <1>5, <1>r DEF Starts
  <2>2. \A z \in BackupWorkers : ~Active(z)
    BY <2>1, <1>b
  <2>3. \A z \in BackupWorkers : Active(z)' => z = w
    BY <2>1, <2>2 DEF Active, Rest
  <2>4. \A z \in BackupWorkers : worker'[z].pc = "merge" => z = w
    BY <2>3 DEF Active, ActiveSteps, RestoreSteps
  <2>5. /\ worker'[w].pc \in RunSteps => jobs'[current].running
        /\ worker'[w].pc \in RestoreSteps => jobs'[current].restoring
    BY <2>1 DEF RunSteps, RestoreSteps
  <2>6. tree # Mixed
    BY <2>2, <1>f
  <2> QED
    BY <2>1, <2>3, <2>4, <2>5, <2>6, <1>g DEF Gated
<1>6. ASSUME NEW w \in BackupWorkers, ScheduledBackup(w), ~GateOpen(current) PROVE Gated'
  <2>1. /\ current \in DOMAIN jobs /\ SameObjects(current)
        /\ jobs'[current] = [jobs[current] EXCEPT !.nextRun = NextRun(now)]
        /\ UNCHANGED <<current, tree, snaps, worker>>
    BY <1>6, <1>t, MissedDoes
  <2>2. jobs'[current].running = jobs[current].running /\ jobs'[current].restoring = jobs[current].restoring
    BY <2>1, <1>j DEF Objects
  <2> QED
    BY <2>1, <2>2, <1>g DEF Gated, Active
<1>7. ASSUME NEW w \in BackupWorkers, Walk(w) PROVE Gated'
  <2>1. /\ \E to \in {"skipped", "pack"} : Gets(w, "walk", to)
        /\ worker'[w].job = worker[w].job
        /\ UNCHANGED <<current, jobs, tree, snaps>>
    BY <1>7, WalkDoes
  <2> QED
    BY <2>1, <1>w, <1>x
<1>8. ASSUME NEW w \in BackupWorkers, PutArchive(w) PROVE Gated'
  <2>1. /\ Gets(w, "pack", "describe") /\ Keeps(w)
        /\ UNCHANGED <<current, jobs, tree>>
        /\ \A s \in snaps' : s \in snaps \/ s.tar = tree
    BY <1>8, PutArchiveDoes
  <2>2. \A s \in snaps' : s \in snaps \/ s.tar = tree
    BY <2>1
  <2> QED
    BY <2>1, <2>2, <1>w, <1>x DEF Keeps
<1>9. ASSUME NEW w \in BackupWorkers, PutMeta(w) PROVE Gated'
  <2>1. /\ Gets(w, "describe", "store") /\ Keeps(w)
        /\ snaps' = {Described(w, s) : s \in snaps}
        /\ UNCHANGED <<current, jobs, tree>>
    BY <1>9, PutMetaDoes DEF Described
  <2>2. \A s \in snaps' : s.tar # Mixed
    <3>1. \A s \in snaps : Described(w, s).tar = s.tar
      BY DescribedIs
    <3> QED
      BY <2>1, <3>1, <1>g DEF Gated
  <2> QED
    BY <2>1, <2>2, <1>w, <1>x DEF Keeps
<1>10. ASSUME NEW w \in BackupWorkers, StoreFP(w) PROVE Gated'
  <2>1. /\ \E to \in {"update", "done"} : Gets(w, "store", to)
        /\ worker'[w].job = worker[w].job
        /\ UNCHANGED <<current, jobs, tree, snaps>>
    BY <1>10, StoreFPDoes DEF Keeps
  <2> QED
    BY <2>1, <1>w, <1>x
<1>11. ASSUME NEW w \in BackupWorkers, UpdateFP(w) PROVE Gated'
  <2>1. /\ Gets(w, "update", "done") /\ worker'[w].job = worker[w].job
        /\ \/ jobs' = jobs
           \/ current \in DOMAIN jobs /\ SameObjects(current)
              /\ jobs'[current] = [jobs[current] EXCEPT !.lastFP = worker[w].fp]
        /\ UNCHANGED <<current, tree, snaps>>
    BY <1>11, UpdateFPDoes
  <2>2. \A o \in DOMAIN jobs : /\ jobs'[o].running = jobs[o].running
                               /\ jobs'[o].restoring = jobs[o].restoring
    BY <2>1, <1>j DEF SameObjects, Objects
  <2> QED
    BY <2>1, <2>2, <1>w, <1>x
<1>12. ASSUME NEW w \in BackupWorkers, RequestFails(w) PROVE Gated'
  <2>1. /\ \/ \E from \in {"pack", "describe"} : Gets(w, from, "failed")
           \/ Gets(w, "fetch", "restored")
        /\ worker'[w].job = worker[w].job
        /\ UNCHANGED <<current, jobs, tree, snaps>>
    BY <1>12, RequestFailsDoes DEF Keeps
  <2> QED
    BY <2>1, <1>w, <1>x
<1>13. ASSUME NEW w \in BackupWorkers, EndBackup(w) \/ EndRestore(w) PROVE Gated'
  <2>1. /\ \E from \in ActiveSteps \ {"merge"}, to \in {"idle", "rotate"} : Gets(w, from, to)
        /\ UNCHANGED <<tree, snaps>>
    BY <1>13, EndBackupDoes, EndRestoreDoes DEF ActiveSteps, RunSteps, RestoreSteps
  <2>2. \A z \in BackupWorkers : Active(z) => z = w
    BY <2>1, <1>g DEF Gated, Gets, Active
  <2>3. \A z \in BackupWorkers : ~Active(z)'
    BY <2>1, <2>2, <1>s DEF Gets, Rest, Active
  <2>4. tree # Mixed
    BY <2>1, <2>2, <1>g DEF Gated, Gets, Active, ActiveSteps, RestoreSteps
  <2> QED
    BY <2>1, <2>3, <2>4, <1>e, <1>g DEF Gated
<1>14. ASSUME NEW w \in BackupWorkers, Rotate(w) PROVE Gated'
  <2>1. Gets(w, "rotate", "idle") /\ snaps' \subseteq snaps /\ UNCHANGED <<current, jobs, tree>>
    BY <1>14, RotateDoes
  <2>2. \A z \in BackupWorkers : (worker'[z].pc \in ActiveSteps \/ worker[z].pc \in ActiveSteps) => z # w /\ worker'[z] = worker[z]
    BY <2>1, <1>s DEF Gets, Rest
  <2>3. \A z \in BackupWorkers : (worker'[z].pc = "merge" \/ worker[z].pc = "merge") => z # w /\ worker'[z] = worker[z]
    BY <2>2 DEF ActiveSteps, RestoreSteps
  <2> QED
    BY <2>1, <2>2, <2>3, <1>g DEF Gated, Active
<1>15. ASSUME NEW w \in BackupWorkers, Fetch(w) PROVE Gated'
  <2>f. worker'[w].job = worker[w].job /\ UNCHANGED <<current, jobs, snaps>>
    BY <1>15, FetchDoes DEF Keeps
  <2>1. CASE Gets(w, "fetch", "restored") /\ tree' = tree
    BY <2>1, <2>f, <1>w, <1>x
  <2>2. CASE Gets(w, "fetch", "merge") /\ \E s \in snaps : worker'[w].tar = s.tar
    <3>1. worker'[w].tar # Mixed
      BY <2>2, <1>g DEF Gated
    <3> QED
      BY <2>2, <2>f, <3>1, <1>w, <1>x
  <2> QED
    BY <1>15, <2>1, <2>2, FetchDoes
<1>16. ASSUME NEW w \in BackupWorkers, Merge(w) PROVE Gated'
  <2>1. /\ Gets(w, "merge", "restored") /\ Keeps(w)
        /\ \/ tree' = worker[w].tar /\ edits' = edits
           \/ edits' = edits + 1 /\ tree' = edits'
        /\ UNCHANGED <<current, jobs, snaps>>
    BY <1>16, MergeDoes
  <2>2. tree' # Mixed
    BY <2>1, <1>g, <1>n DEF Gated, Gets, Mixed
  <2> QED
    BY <2>1, <2>2, <1>w, <1>x DEF Keeps
<1>17. ASSUME Edit \/ Pass PROVE Gated'
  <2>1. UNCHANGED <<current, jobs, snaps, worker>> /\ (tree' = tree \/ tree' = edits + 1)
    BY <1>17 DEF Edit, Pass, requestVars
  <2>2. tree' = Mixed => tree = Mixed
    BY <2>1, <1>n DEF Mixed
  <2> QED
    BY <2>1, <2>2, <1>g DEF Gated, Active
<1>18. ASSUME RestartBackups PROVE Gated'
  <2>1. /\ \A w \in BackupWorkers : worker'[w] = IdleWorker
        /\ \/ edits' = edits + 1 /\ tree' = edits'
           \/ tree # Mixed /\ UNCHANGED <<edits, tree>>
        /\ UNCHANGED snaps
    BY <1>18, RestartBackupsDoes
  <2>2. \A w \in BackupWorkers : ~Active(w)'
    BY <2>1, <1>s, IdleTyped DEF Active
  <2>3. tree' # Mixed
    BY <2>1, <1>n DEF Mixed
  <2> QED
    BY <2>1, <2>2, <2>3, <1>e, <1>g DEF Gated
<1>19. ASSUME UNCHANGED backupVars PROVE Gated'
  <2>1. UNCHANGED <<current, jobs, tree, snaps, worker>>
    BY <1>19 DEF backupVars, requestVars
  <2> QED
    BY <2>1, <1>g DEF Gated, Active
<1> QED
  BY <1>1, <1>2, <1>3, <1>4, <1>5, <1>6, <1>7, <1>8, <1>9, <1>10, <1>11, <1>12, <1>13, <1>14, <1>15, <1>16, <1>17, <1>18, <1>19, <1>t, <1>j, StartDoes
  DEF BackupNext, ScheduledBackup

-----------------------------------------------------------------------------
(***************************************************************************)
(* The row and the map.                                                    *)
(***************************************************************************)
LEMMA StoredStep ==
  ASSUME BackupBasics, GateOK, StoredOK, [BackupNext]_backupVars
  PROVE  StoredOK'
<1> SUFFICES ASSUME ~Excused({"crossed", "replaced"})' PROVE Stored'
  BY DEF StoredOK
<1>r. "crossed" \notin excuses' /\ "replaced" \notin excuses' /\ "crossed" \notin excuses /\ "replaced" \notin excuses
  BY ExcusesKept DEF Excused
<1>g. Gated /\ Stored
  BY <1>r DEF GateOK, StoredOK, Excused
<1>t. BackupTypeOK /\ PastOK
  BY DEF BackupBasics
<1>j. /\ jobs \in Seq(Objects) /\ Len(jobs) \in Nat /\ DOMAIN jobs = 1..Len(jobs)
      /\ \A o \in DOMAIN jobs : jobs[o] \in Objects
      /\ current # 0 <=> current \in DOMAIN jobs
  BY <1>t, ObjectsTyped
<1>u. \A w \in BackupWorkers : worker[w].pc \in {"store", "update"} =>
        current # 0 /\ \A z \in BackupWorkers : worker[z].pc = "update" => z = w
  BY <1>g, <1>t, <1>j DEF Gated, Active, ActiveSteps, RunSteps, PastOK
\* Nobody gets to or leaves the update of a fingerprint.
<1>w. ASSUME \A z \in BackupWorkers : /\ worker'[z].pc = "update" <=> worker[z].pc = "update"
                                      /\ worker[z].pc = "update" => worker'[z].fp = worker[z].fp,
             UNCHANGED <<jobRow, current, saving>>,
             current \in DOMAIN jobs => /\ jobs'[current].cfg = jobs[current].cfg
                                        /\ jobs'[current].lastFP = jobs[current].lastFP
      PROVE  Stored'
  BY <1>w, <1>g, <1>j DEF Stored
<1>1. ASSUME NEW cfg \in Configs, NEW fp \in {NoFP} \cup {jobs[o].lastFP : o \in DOMAIN jobs}, SaveRow(cfg, fp)
      PROVE  Stored'
  <2> DEFINE s == [op |-> "save", cfg |-> cfg, fp |-> fp]
  <2>1. /\ jobRow' = [cfg |-> cfg, fp |-> IF jobRow = NoRow THEN fp ELSE jobRow.fp]
        /\ saving' = {s}
        /\ UNCHANGED <<current, jobs, worker>>
    BY <1>1, <1>r, SaveRowDoes
  <2>2. saving = {}
    BY <1>1, <1>r, SaveRowDoes
  <2>3. jobRow' # NoRow
    <3>1. cfg.dest \in Dests
      BY DEF Configs
    <3> QED
      BY <2>1, <3>1, BackupAssumption DEF NoRow
  <2>4. s.op = "save" /\ s.cfg = cfg /\ s.fp = fp
    OBVIOUS
  <2> HIDE DEF s
  <2> QED
    BY <2>1, <2>2, <2>3, <2>4, <1>g DEF Stored
<1>2. ASSUME NEW s \in saving, Install(s) PROVE Stored'
  <2>1. /\ s.op = "save" /\ saving' = saving \ {s} /\ current' = Len(jobs') /\ Len(jobs') = Len(jobs) + 1
        /\ jobs'[current'].cfg = s.cfg
        /\ jobs'[current'].lastFP = IF current = 0 THEN s.fp ELSE jobs[current].lastFP
        /\ \A w \in BackupWorkers : worker[w].pc # "update"
        /\ UNCHANGED <<jobRow, worker>>
    BY <1>2, <1>r, InstallDoes
  <2>2. saving' = {} /\ current' # 0
    BY <2>1, <1>g, <1>j DEF Stored
  <2> QED
    BY <2>1, <2>2, <1>g DEF Stored
<1>3. ASSUME Forget PROVE Stored'
  <2>1. /\ saving = {} /\ current' = 0
        /\ saving' = {[op |-> "delete", cfg |-> NoRow.cfg, fp |-> NoFP]}
    BY <1>3, <1>r DEF Forget
  <2>2. \A s \in saving' : s.op = "delete"
    BY <2>1
  <2>3. \A s, z \in saving' : s = z
    BY <2>1
  <2>4. saving' # {}
    BY <2>1
  <2>5. current' = 0
    BY <2>1
  <2> QED
    BY <2>2, <2>3, <2>4, <2>5 DEF Stored
<1>4. ASSUME NEW s \in saving, DropRow(s) PROVE Stored'
  <2>1. s.op = "delete" /\ saving' = saving \ {s} /\ jobRow' = NoRow /\ current' = current
    BY <1>4 DEF DropRow
  <2> QED
    BY <2>1, <1>g DEF Stored
<1>5. ASSUME NEW w \in BackupWorkers, NEW o \in DOMAIN jobs, Starts(w, o) PROVE Stored'
  <2>1. /\ worker[w].pc # "update" /\ worker'[w].pc # "update" /\ Rest(w)
        /\ \A p \in DOMAIN jobs : jobs'[p].cfg = jobs[p].cfg /\ jobs'[p].lastFP = jobs[p].lastFP
        /\ UNCHANGED <<jobRow, current, saving>>
    BY <1>5 DEF Starts, SameObjects
  <2> QED
    BY <2>1, <1>w DEF Rest
<1>6. ASSUME NEW w \in BackupWorkers, ScheduledBackup(w), ~GateOpen(current) PROVE Stored'
  <2>1. /\ current \in DOMAIN jobs /\ SameObjects(current)
        /\ jobs'[current] = [jobs[current] EXCEPT !.nextRun = NextRun(now)]
        /\ UNCHANGED <<jobRow, current, saving, worker>>
    BY <1>6, <1>t, MissedDoes
  <2>2. jobs'[current].cfg = jobs[current].cfg /\ jobs'[current].lastFP = jobs[current].lastFP
    BY <2>1, <1>j DEF Objects
  <2> QED
    BY <2>1, <2>2, <1>w
\* The steps of a goroutine that do not store a fingerprint.
<1>7. ASSUME NEW w \in BackupWorkers, Rest(w), worker[w].pc # "update", worker'[w].pc # "update",
             UNCHANGED <<jobRow, current, saving>>,
             \A o \in DOMAIN jobs : jobs'[o].cfg = jobs[o].cfg /\ jobs'[o].lastFP = jobs[o].lastFP
      PROVE  Stored'
  BY <1>7, <1>w DEF Rest
<1>8. ASSUME NEW w \in BackupWorkers, Walk(w) \/ RequestFails(w) PROVE Stored'
  BY <1>8, <1>7, WalkDoes, RequestFailsDoes DEF Gets
<1>9. ASSUME NEW w \in BackupWorkers, PutArchive(w) \/ PutMeta(w) PROVE Stored'
  BY <1>9, <1>7, PutArchiveDoes, PutMetaDoes DEF Gets
<1>10. ASSUME NEW w \in BackupWorkers, Rotate(w) \/ Fetch(w) \/ Merge(w) PROVE Stored'
  BY <1>10, <1>7, RotateDoes, FetchDoes, MergeDoes DEF Gets
<1>11. ASSUME NEW w \in BackupWorkers, EndBackup(w) PROVE Stored'
  <2>1. /\ SameObjects(worker[w].job) /\ worker[w].job \in DOMAIN jobs
        /\ jobs'[worker[w].job] = [jobs[worker[w].job] EXCEPT !.running = FALSE]
        /\ UNCHANGED <<jobRow, current, saving>>
        /\ Rest(w) /\ worker[w].pc # "update" /\ worker'[w].pc # "update"
    BY <1>11, EndBackupDoes DEF Gets
  <2>2. \A o \in DOMAIN jobs : jobs'[o].cfg = jobs[o].cfg /\ jobs'[o].lastFP = jobs[o].lastFP
    BY <2>1, <1>j DEF SameObjects, Objects
  <2> QED
    BY <2>1, <2>2, <1>7
<1>12. ASSUME NEW w \in BackupWorkers, EndRestore(w) PROVE Stored'
  <2>1. /\ SameObjects(worker[w].job) /\ worker[w].job \in DOMAIN jobs
        /\ jobs'[worker[w].job] = [jobs[worker[w].job] EXCEPT !.restoring = FALSE]
        /\ UNCHANGED <<jobRow, current, saving>>
        /\ Rest(w) /\ worker[w].pc # "update" /\ worker'[w].pc # "update"
    BY <1>12, EndRestoreDoes DEF Gets
  <2>2. \A o \in DOMAIN jobs : jobs'[o].cfg = jobs[o].cfg /\ jobs'[o].lastFP = jobs[o].lastFP
    BY <2>1, <1>j DEF SameObjects, Objects
  <2> QED
    BY <2>1, <2>2, <1>7
<1>13. ASSUME NEW w \in BackupWorkers, StoreFP(w) PROVE Stored'
  <2>1. CASE Gets(w, "store", "done") /\ jobRow' = jobRow
    BY <2>1, <1>13, <1>7, StoreFPDoes DEF Gets
  <2>2. CASE /\ Gets(w, "store", "update")
             /\ jobRow' = IF jobRow = NoRow THEN NoRow ELSE [jobRow EXCEPT !.fp = worker[w].fp]
    <3>1. current # 0 /\ \A z \in BackupWorkers : worker'[z].pc = "update" => z = w
      BY <2>2, <1>u DEF Gets, Rest
    <3>2. jobRow # NoRow /\ jobRow \in [cfg : Configs, fp : FPs]
      <4>1. ASSUME NEW s \in saving PROVE jobRow # NoRow
        <5>1. s.op \in {"save", "delete"}
          BY <1>t DEF BackupTypeOK, Saved
        <5> QED
          BY <5>1, <3>1, <1>g DEF Stored
      <4>2. ASSUME saving = {} PROVE jobRow # NoRow
        <5>1. saving = {} => IF current = 0 THEN jobRow = NoRow
                             ELSE jobRow # NoRow /\ jobRow.cfg = jobs[current].cfg
          BY <1>g DEF Stored
        <5> QED
          BY <4>2, <3>1, <5>1
      <4> QED
        BY <4>1, <4>2, <1>t DEF BackupTypeOK
    <3>3. jobRow'.cfg = jobRow.cfg /\ jobRow'.fp = worker[w].fp
      BY <2>2, <3>2
    <3>4. jobRow' # NoRow
      BY <3>2, <3>3, BackupAssumption DEF NoRow, Configs
    <3>5. worker'[w].fp = worker[w].fp /\ worker'[w].pc = "update" /\ UNCHANGED <<current, saving, jobs>>
      BY <1>13, <2>2, StoreFPDoes DEF Keeps, Gets
    <3> QED
      BY <3>1, <3>2, <3>3, <3>4, <3>5, <1>g DEF Stored
  <2> QED
    BY <1>13, <2>1, <2>2, StoreFPDoes
<1>14. ASSUME NEW w \in BackupWorkers, UpdateFP(w) PROVE Stored'
  <2>1. current # 0 /\ \A z \in BackupWorkers : worker[z].pc = "update" => z = w
    BY <1>14, <1>u DEF UpdateFP
  <2>2. /\ Gets(w, "update", "done")
        /\ SameObjects(current) /\ current \in DOMAIN jobs
        /\ jobs'[current] = [jobs[current] EXCEPT !.lastFP = worker[w].fp]
        /\ UNCHANGED <<jobRow, current, saving>>
    BY <1>14, <2>1, UpdateFPDoes
  <2>3. jobs'[current].lastFP = worker[w].fp /\ jobs'[current].cfg = jobs[current].cfg
    BY <2>2, <1>j DEF Objects
  <2>4. \A z \in BackupWorkers : worker'[z].pc # "update"
    BY <2>1, <2>2 DEF Gets, Rest
  <2>5. jobRow.fp = worker[w].fp
    BY <2>1, <2>2, <1>g DEF Stored, Gets
  <2> QED
    BY <2>1, <2>2, <2>3, <2>4, <2>5, <1>g DEF Stored
<1>15. ASSUME Edit \/ Pass PROVE Stored'
  BY <1>15, <1>w DEF Edit, Pass, requestVars
<1>16. ASSUME RestartBackups PROVE Stored'
  <2>1. /\ \A w \in BackupWorkers : worker'[w].pc # "update"
        /\ saving' = {} /\ jobRow' = jobRow
        /\ \/ jobRow = NoRow /\ current' = 0
           \/ /\ jobRow # NoRow /\ current' = 1
              /\ jobs'[1].cfg = jobRow.cfg /\ jobs'[1].lastFP = jobRow.fp
    BY <1>16, RestartBackupsDoes, IdleTyped
  <2> QED
    BY <2>1 DEF Stored
<1>17. ASSUME UNCHANGED backupVars PROVE Stored'
  BY <1>17, <1>w DEF backupVars, requestVars
<1> QED
  BY <1>1, <1>2, <1>3, <1>4, <1>5, <1>6, <1>8, <1>9, <1>10, <1>11, <1>12, <1>13, <1>14, <1>15, <1>16, <1>17, <1>t, <1>j, StartDoes
  DEF BackupNext, ScheduledBackup

-----------------------------------------------------------------------------
(***************************************************************************)
(* The schedule.                                                           *)
(***************************************************************************)
LEMMA AliveStep ==
  ASSUME BackupBasics, AliveOK, [BackupNext]_backupVars
  PROVE  AliveOK'
<1> SUFFICES ASSUME Seen PROVE ScheduleAlive'
  BY DEF AliveOK, Seen
<1>a. ScheduleAlive
  BY DEF AliveOK
<1>t. BackupTypeOK /\ now \in 0..MaxTime
  BY DEF BackupBasics, BackupTypeOK
<1>j. /\ jobs \in Seq(Objects) /\ Len(jobs) \in Nat /\ DOMAIN jobs = 1..Len(jobs)
      /\ \A o \in DOMAIN jobs : jobs[o] \in Objects
      /\ current # 0 <=> current \in DOMAIN jobs
  BY <1>t, ObjectsTyped
<1>n. \A s \in Schedule : s \in Nat
  BY BackupAssumption
\* The next run is looked up.
<1>l. ASSUME UNCHANGED now, current' # 0 => jobs'[current'].nextRun = NextRun(now) PROVE ScheduleAlive'
  <2>1. (\E s \in Schedule : now < s) => NextRun(now) # 0 /\ \A s \in Schedule : now < s => NextRun(now) <= s
    BY <1>t, NextRunRight
  <2> QED
    BY <1>l, <1>t, <1>n, <2>1 DEF ScheduleAlive
\* It stays what it was.
<1>s. ASSUME UNCHANGED <<now, current>>, current \in DOMAIN jobs => jobs'[current].nextRun = jobs[current].nextRun
      PROVE  ScheduleAlive'
  BY <1>s, <1>a, <1>j DEF ScheduleAlive
<1>1. ASSUME NEW cfg \in Configs, NEW fp \in {NoFP} \cup {jobs[o].lastFP : o \in DOMAIN jobs}, SaveRow(cfg, fp)
      PROVE  ScheduleAlive'
  BY <1>1, <1>s DEF SaveRow
<1>2. ASSUME NEW s \in saving, Install(s) PROVE ScheduleAlive'
  BY <1>2, <1>l, InstallDoes
<1>3. ASSUME Forget PROVE ScheduleAlive'
  BY <1>3 DEF Forget, ScheduleAlive
<1>4. ASSUME NEW s \in saving, DropRow(s) PROVE ScheduleAlive'
  BY <1>4, <1>s DEF DropRow
<1>5. ASSUME NEW w \in BackupWorkers, NEW o \in DOMAIN jobs, Starts(w, o) PROVE ScheduleAlive'
  <2>1. UNCHANGED <<now, current>> /\ \A p \in DOMAIN jobs : p # o => jobs'[p] = jobs[p]
    BY <1>5 DEF Starts, SameObjects
  <2>2. CASE jobs'[o].nextRun = jobs[o].nextRun
    BY <2>1, <2>2, <1>s
  <2>3. CASE o = current /\ jobs'[o].nextRun = NextRun(now)
    BY <2>1, <2>3, <1>l
  <2> QED
    BY <1>5, <2>2, <2>3 DEF Starts
<1>6. ASSUME NEW w \in BackupWorkers, ScheduledBackup(w), ~GateOpen(current) PROVE ScheduleAlive'
  <2>1. /\ current \in DOMAIN jobs
        /\ jobs'[current] = [jobs[current] EXCEPT !.nextRun = NextRun(now)]
        /\ UNCHANGED <<now, current>>
    BY <1>6, <1>t, MissedDoes
  <2>2. jobs'[current].nextRun = NextRun(now)
    BY <2>1, <1>j DEF Objects
  <2> QED
    BY <2>1, <2>2, <1>l
<1>7. ASSUME NEW w \in BackupWorkers, Walk(w) \/ PutArchive(w) \/ PutMeta(w) \/ StoreFP(w) \/ RequestFails(w)
                                      \/ Rotate(w) \/ Fetch(w) \/ Merge(w)
      PROVE  ScheduleAlive'
  <2>1. UNCHANGED <<now, current, jobs>>
    BY <1>7 DEF Walk, PutArchive, PutMeta, StoreFP, RequestFails, Rotate, Fetch, Merge, requestVars
  <2> QED
    BY <2>1, <1>s
<1>8. ASSUME NEW w \in BackupWorkers, UpdateFP(w) PROVE ScheduleAlive'
  <2>1. /\ \/ jobs' = jobs
           \/ current \in DOMAIN jobs /\ jobs'[current] = [jobs[current] EXCEPT !.lastFP = worker[w].fp]
        /\ UNCHANGED <<now, current>>
    BY <1>8, UpdateFPDoes
  <2>2. current \in DOMAIN jobs => jobs'[current].nextRun = jobs[current].nextRun
    BY <2>1, <1>j DEF Objects
  <2> QED
    BY <2>1, <2>2, <1>s
<1>9. ASSUME NEW w \in BackupWorkers, EndBackup(w) \/ EndRestore(w) PROVE ScheduleAlive'
  <2>1. /\ SameObjects(worker[w].job) /\ UNCHANGED <<now, current>>
        /\ \/ jobs'[worker[w].job] = [jobs[worker[w].job] EXCEPT !.running = FALSE]
           \/ jobs'[worker[w].job] = [jobs[worker[w].job] EXCEPT !.restoring = FALSE]
    BY <1>9, EndBackupDoes, EndRestoreDoes
  <2>2. current \in DOMAIN jobs => jobs'[current].nextRun = jobs[current].nextRun
    BY <2>1, <1>j DEF Objects, SameObjects
  <2> QED
    BY <2>1, <2>2, <1>s
<1>10. ASSUME Edit PROVE ScheduleAlive'
  BY <1>10, <1>s DEF Edit, requestVars
<1>11. ASSUME Pass PROVE ScheduleAlive'
  <2>1. now' = now + 1 /\ UNCHANGED <<current, jobs>>
    BY <1>11 DEF Pass, requestVars
  <2>2. \A s \in Schedule : s > now' => s > now
    BY <2>1, <1>t, <1>n
  <2> QED
    BY <2>1, <2>2, <1>a DEF ScheduleAlive
<1>12. ASSUME RestartBackups PROVE ScheduleAlive'
  BY <1>12, <1>l, RestartBackupsDoes
<1>13. ASSUME UNCHANGED backupVars PROVE ScheduleAlive'
  BY <1>13, <1>s DEF backupVars, requestVars
<1> QED
  BY <1>1, <1>2, <1>3, <1>4, <1>5, <1>6, <1>7, <1>8, <1>9, <1>10, <1>11, <1>12, <1>13, <1>t, <1>j, StartDoes
  DEF BackupNext, ScheduledBackup

-----------------------------------------------------------------------------
(***************************************************************************)
(* What a fingerprint tells of is backed up.                               *)
(***************************************************************************)
LEMMA KeptStep ==
  ASSUME BackupBasics, GateOK, KeptOK, [BackupNext]_backupVars
  PROVE  KeptOK'
<1> SUFFICES ASSUME ~Excused(Exempt)' PROVE NotedKept' /\ \A w \in BackupWorkers : WorkKept(w)'
  BY DEF KeptOK
<1>r. /\ "edited" \notin excuses' /\ "replaced" \notin excuses' /\ "rotating" \notin excuses' /\ "moved" \notin excuses'
      /\ "replaced" \notin excuses /\ ~Excused(Exempt)
  BY ExcusesKept DEF Excused, Exempt
<1>g. Gated /\ NotedKept /\ \A w \in BackupWorkers : WorkKept(w)
  BY <1>r DEF GateOK, KeptOK, Excused
<1>t. BackupTypeOK /\ PastOK
  BY DEF BackupBasics
<1>j. /\ jobs \in Seq(Objects) /\ Len(jobs) \in Nat /\ DOMAIN jobs = 1..Len(jobs)
      /\ \A o \in DOMAIN jobs : jobs[o] \in Objects
      /\ current # 0 <=> current \in DOMAIN jobs
  BY <1>t, ObjectsTyped
<1>n. /\ edits \in Nat /\ tree \in Nat /\ edits + 1 \notin 0..edits
      /\ \A w \in BackupWorkers : worker[w].fp.tree \in 0..edits
  BY <1>t DEF BackupTypeOK, PastOK, WorkersTyped, Workers, FPs
<1>v. \A v \in Noted : v \in 1..edits
  <2>1. \A o \in DOMAIN jobs : jobs[o].lastFP.tree \in 0..edits
    BY <1>t, <1>j, <1>n DEF PastOK, Objects, FPs
  <2>2. \A s \in saving : s.fp.tree \in 0..edits
    BY <1>t, <1>n DEF PastOK, BackupTypeOK, Saved, FPs
  <2>3. jobRow.fp.tree \in 0..edits
    BY <1>t, <1>n, IdleTyped DEF PastOK, BackupTypeOK, NoRow, FPs
  <2>4. \A v \in Noted : v \in 0..edits /\ v # 0
    BY <2>1, <2>2, <2>3 DEF Noted
  <2> QED
    BY <2>4, <1>n
<1>h. \A o \in DOMAIN jobs : jobs[o].cfg.dest \in Home
  BY DEF Home
<1>s. /\ RunSteps \cap RestoreSteps = {} /\ "idle" \notin ActiveSteps /\ "rotate" \notin ActiveSteps
      /\ ActiveSteps = RunSteps \cup RestoreSteps
  BY DEF ActiveSteps, RunSteps, RestoreSteps
\* Who is at work is alone.
<1>o. ASSUME NEW w \in BackupWorkers, Active(w)
      PROVE  /\ \A z \in BackupWorkers \ {w} : worker[z].pc = "idle"
             /\ worker[w].job = current /\ current \in DOMAIN jobs /\ Busy(current)
             /\ Cfg(w).dest \in Home
  <2>1. ASSUME NEW z \in BackupWorkers \ {w} PROVE worker[z].pc = "idle"
    <3>1. worker[z].pc \in ActiveSteps \cup {"idle", "rotate"}
      BY <1>t DEF BackupTypeOK, WorkersTyped, Workers
    <3>2. ~Active(z)
      BY <1>o, <1>g DEF Gated
    <3>3. worker[z].pc # "rotate"
      BY <1>o, <1>g, <1>s DEF WorkKept, Active
    <3> QED
      BY <3>1, <3>2, <3>3 DEF Active
  <2>2. worker[w].job = current /\ current \in DOMAIN jobs /\ Busy(current)
    BY <1>o, <1>g, <1>t, <1>s DEF Gated, PastOK, Active, Busy
  <2> QED
    BY <2>1, <2>2, <1>h DEF Cfg
\* What is told of stays so.
<1>a. ASSUME \A d, e \in Home' : d = e,
             Noted' \subseteq Noted, Home' \subseteq Home \/ DOMAIN jobs = {},
             DOMAIN jobs' = {} => DOMAIN jobs = {} \/ Noted' = {},
             \A v \in Noted : Coming(v)' => Coming(v), UNCHANGED snaps
      PROVE  NotedKept'
  <2>1. DOMAIN jobs' = {} => Noted' = {}
    BY <1>a, <1>g DEF NotedKept
  <2>2. ASSUME NEW d \in Home', NEW v \in Noted', Coming(v)' PROVE Good(d, v)'
    <3>1. DOMAIN jobs # {}
      BY <1>a, <1>g, <2>2 DEF NotedKept
    <3>2. Good(d, v)
      BY <1>a, <1>g, <2>2, <3>1 DEF NotedKept
    <3> QED
      BY <1>a, <3>2 DEF Good
  <2> QED
    BY <1>a, <2>1, <2>2 DEF NotedKept
\* Objects keep their configurations, goroutines stay where they are.
<1>p. ASSUME UNCHANGED <<snaps, worker>>, DOMAIN jobs \subseteq DOMAIN jobs',
             \A o \in DOMAIN jobs : jobs'[o].cfg = jobs[o].cfg,
             Home' \subseteq Home \/ DOMAIN jobs = {},
             \/ tree' = tree /\ (Fresh => Fresh')
             \/ Fresh' /\ \A w \in BackupWorkers : worker[w].pc # "pack"
      PROVE  \A w \in BackupWorkers : WorkKept(w)'
  <2> SUFFICES ASSUME NEW w \in BackupWorkers PROVE WorkKept(w)'
    OBVIOUS
  <2>1. WorkKept(w)
    BY <1>g
  <2>2. \A d, s : Packed(d, s) => Packed(d, s)'
    BY <1>p DEF Packed, NewestAt
  <2>3. Active(w) => Cfg(w)' = Cfg(w)
    BY <1>p, <1>o DEF Cfg
  <2>4. worker[w].pc = "rotate" => DOMAIN jobs # {} /\ Home' \subseteq Home
    BY <2>1, <1>p DEF WorkKept
  <2>5. worker'[w].pc \in {"pack", "describe"} =>
          \A s \in snaps' : s.dest = Cfg(w)'.dest => s.at <= worker'[w].at
    BY <2>1, <2>3, <1>p DEF WorkKept, Active, ActiveSteps, RunSteps
  <2>6. worker'[w].pc = "pack" => tree' = worker'[w].fp.tree
    BY <2>1, <1>p DEF WorkKept
  <2>7. worker'[w].pc = "describe" =>
          /\ worker'[w].tar = worker'[w].fp.tree /\ (tree' = worker'[w].tar \/ Fresh')
          /\ \E s \in SnapsAt(Cfg(w).dest, worker[w].at)' : s.tar = worker'[w].tar
    BY <2>1, <2>3, <1>p DEF WorkKept, Active, ActiveSteps, RunSteps, SnapsAt
  <2>8. worker'[w].pc \in {"store", "update"} =>
          \E s \in snaps' : Packed(Cfg(w).dest, s)' /\ s.tar = worker'[w].fp.tree
    <3> HAVE worker'[w].pc \in {"store", "update"}
    <3>1. worker[w].pc \in {"store", "update"} /\ Active(w)
      BY <1>p DEF Active, ActiveSteps, RunSteps
    <3>2. PICK s \in snaps : Packed(Cfg(w).dest, s) /\ s.tar = worker[w].fp.tree
      BY <2>1, <3>1 DEF WorkKept
    <3>3. Packed(Cfg(w).dest, s)'
      BY <3>1, <3>2, <2>2, <2>3, <1>p DEF Packed, NewestAt
    <3> QED
      BY <3>2, <3>3, <1>p
  <2>9. worker'[w].pc = "done" => \E s \in snaps' : Packed(Cfg(w).dest, s)'
    <3> HAVE worker'[w].pc = "done"
    <3>1. worker[w].pc = "done" /\ Active(w)
      BY <1>p DEF Active, ActiveSteps, RunSteps
    <3>2. PICK s \in snaps : Packed(Cfg(w).dest, s)
      BY <2>1, <3>1 DEF WorkKept
    <3>3. Packed(Cfg(w).dest, s)'
      BY <3>1, <3>2, <2>2, <2>3, <1>p DEF Packed, NewestAt
    <3> QED
      BY <3>3, <1>p, <3>2
  <2>10. worker'[w].pc = "rotate" =>
          /\ \A z \in BackupWorkers \ {w} : worker'[z].pc = "idle"
          /\ DOMAIN jobs' # {} /\ \A d \in Home' : \E s \in snaps' : Packed(d, s)'
    BY <2>1, <2>2, <2>4, <1>p DEF WorkKept
  <2>11. worker'[w].pc = "skipped" => BackedUp(w)'
    BY <2>1, <2>3, <1>p DEF WorkKept, Active, ActiveSteps, RunSteps, BackedUp
  <2> QED
    BY <2>5, <2>6, <2>7, <2>8, <2>9, <2>10, <2>11 DEF WorkKept
\* Configurations and fingerprints stay what they are.
<1>c. ASSUME DOMAIN jobs' = DOMAIN jobs, UNCHANGED <<jobRow, saving>>,
             \A o \in DOMAIN jobs : jobs'[o].cfg = jobs[o].cfg /\ jobs'[o].lastFP = jobs[o].lastFP
      PROVE  Home' = Home /\ Noted' = Noted
  BY <1>c DEF Home, Noted
\* The others are idle.
<1>i. ASSUME NEW w \in BackupWorkers, Rest(w), \A z \in BackupWorkers \ {w} : worker[z].pc = "idle",
             NotedKept', WorkKept(w)'
      PROVE  NotedKept' /\ \A z \in BackupWorkers : WorkKept(z)'
  <2>1. ASSUME NEW z \in BackupWorkers \ {w} PROVE WorkKept(z)'
    <3>1. worker'[z].pc = "idle"
      BY <1>i DEF Rest
    <3> QED
      BY <3>1 DEF WorkKept
  <2> QED
    BY <1>i, <2>1
<1> DEFINE Goal == NotedKept' /\ \A w \in BackupWorkers : WorkKept(w)'
\* The job gets a configuration at the same address.
<1>d. ASSUME NEW cfg, ~Moves(cfg), Home' \subseteq Home \cup {cfg.dest}
      PROVE  (\A d, e \in Home' : d = e) /\ (Home' \subseteq Home \/ DOMAIN jobs = {})
  <2>1. \A d \in Home : d = cfg.dest
    BY <1>d DEF Home, Moves
  <2> QED
    BY <2>1, <1>d, <1>h
<1>1. ASSUME NEW cfg \in Configs, NEW fp \in {NoFP} \cup {jobs[o].lastFP : o \in DOMAIN jobs}, SaveRow(cfg, fp)
      PROVE  Goal
  <2>1. /\ jobRow' = [cfg |-> cfg, fp |-> IF jobRow = NoRow THEN fp ELSE jobRow.fp]
        /\ saving' = saving \cup {[op |-> "save", cfg |-> cfg, fp |-> fp]}
        /\ ~Moves(cfg) /\ UNCHANGED <<jobs, tree, snaps, worker>>
    BY <1>1, <1>r, SaveRowDoes
  <2>2. Home' \subseteq Home \cup {cfg.dest}
    BY <2>1 DEF Home
  <2>3. Noted' \subseteq Noted
    BY <2>1, IdleTyped DEF Noted
  <2>4. Fresh => Fresh'
    BY <2>1, <2>3 DEF Fresh, Told
  <2>5. (\A d, e \in Home' : d = e) /\ (Home' \subseteq Home \/ DOMAIN jobs = {})
    BY <1>d, <2>1, <2>2
  <2>6. NotedKept'
    BY <1>a, <2>1, <2>3, <2>5 DEF Coming
  <2> QED
    BY <1>p, <2>1, <2>4, <2>5, <2>6
<1>2. ASSUME NEW s \in saving, Install(s) PROVE Goal
  <2>1. /\ saving' = saving \ {s} /\ DOMAIN jobs' = DOMAIN jobs \cup {current'}
        /\ \A o \in DOMAIN jobs : jobs'[o] = jobs[o]
        /\ jobs'[current'].cfg = s.cfg
        /\ jobs'[current'].lastFP = IF current = 0 THEN s.fp ELSE jobs[current].lastFP
        /\ ~Moves(s.cfg) /\ UNCHANGED <<jobRow, tree, snaps, worker>>
    BY <1>2, <1>r, InstallDoes
  <2>2. Home' \subseteq Home \cup {s.cfg.dest}
    BY <2>1 DEF Home
  <2>3. Noted' \subseteq Noted
    <3>1. \A o \in DOMAIN jobs' : jobs'[o].lastFP \in {jobs[p].lastFP : p \in DOMAIN jobs} \cup {s.fp}
      BY <2>1, <1>j
    <3> QED
      BY <2>1, <3>1 DEF Noted
  <2>4. Fresh => Fresh'
    BY <2>1, <2>3 DEF Fresh, Told
  <2>5. (\A d, e \in Home' : d = e) /\ (Home' \subseteq Home \/ DOMAIN jobs = {})
    BY <1>d, <2>1, <2>2
  <2>6. NotedKept'
    BY <1>a, <2>1, <2>3, <2>5 DEF Coming
  <2> QED
    BY <1>p, <2>1, <2>4, <2>5, <2>6
<1>3. ASSUME Forget PROVE Goal
  <2>1. /\ saving' = saving \cup {[op |-> "delete", cfg |-> NoRow.cfg, fp |-> NoFP]}
        /\ UNCHANGED <<jobRow, jobs, tree, snaps, worker>>
    BY <1>3 DEF Forget
  <2>2. Home' = Home /\ Noted' \subseteq Noted
    BY <2>1, IdleTyped DEF Home, Noted
  <2>3. Fresh => Fresh'
    BY <2>1, <2>2 DEF Fresh, Told
  <2>4. NotedKept'
    BY <1>a, <1>g, <2>1, <2>2 DEF Coming, NotedKept
  <2> QED
    BY <1>p, <2>1, <2>2, <2>3, <2>4
<1>4. ASSUME NEW s \in saving, DropRow(s) PROVE Goal
  <2>1. /\ saving' = saving \ {s} /\ jobRow' = NoRow
        /\ UNCHANGED <<jobs, tree, snaps, worker>>
    BY <1>4 DEF DropRow
  <2>2. Home' \subseteq Home /\ Noted' \subseteq Noted
    BY <2>1, IdleTyped DEF Home, Noted, NoRow
  <2>3. Fresh => Fresh'
    BY <2>1, <2>2 DEF Fresh, Told
  <2>4. NotedKept'
    BY <1>a, <1>g, <2>1, <2>2 DEF Coming, NotedKept
  <2> QED
    BY <1>p, <2>1, <2>2, <2>3, <2>4
<1>5. ASSUME NEW w \in BackupWorkers, NEW o \in DOMAIN jobs, Starts(w, o) PROVE Goal
  <2>1. /\ o = current /\ ~Busy(current) /\ Rest(w) /\ worker[w].pc = "idle"
        /\ worker'[w].pc \in {"walk", "fetch"}
        /\ \A z \in BackupWorkers : worker[z].pc # "rotate"
        /\ SameObjects(o) /\ jobs'[o].lastFP = jobs[o].lastFP
        /\ UNCHANGED <<jobRow, saving, tree, snaps>>
    BY <1>5, <1>r DEF Starts
  <2>2. Home' = Home /\ Noted' = Noted /\ DOMAIN jobs' = DOMAIN jobs
    BY <2>1, <1>c DEF SameObjects
  <2>3. \A z \in BackupWorkers \ {w} : worker[z].pc = "idle"
    <3>1. \A z \in BackupWorkers : ~Active(z)
      BY <2>1, <1>o
    <3> QED
      BY <2>1, <3>1, <1>t DEF Active, BackupTypeOK, WorkersTyped, Workers
  <2>4. \A v : Coming(v)' => Coming(v)
    BY <2>1 DEF Coming, Rest
  <2>5. NotedKept'
    BY <1>a, <1>g, <2>1, <2>2, <2>4 DEF NotedKept
  <2>6. WorkKept(w)'
    BY <2>1 DEF WorkKept
  <2> QED
    BY <1>i, <2>1, <2>3, <2>5, <2>6
<1>6. ASSUME NEW w \in BackupWorkers, ScheduledBackup(w), ~GateOpen(current) PROVE Goal
  <2>1. /\ current \in DOMAIN jobs /\ SameObjects(current)
        /\ jobs'[current] = [jobs[current] EXCEPT !.nextRun = NextRun(now)]
        /\ UNCHANGED <<jobRow, saving, tree, snaps, worker>>
    BY <1>6, <1>t, MissedDoes
  <2>2. \A o \in DOMAIN jobs : jobs'[o].cfg = jobs[o].cfg /\ jobs'[o].lastFP = jobs[o].lastFP
    BY <2>1, <1>j DEF SameObjects, Objects
  <2>3. Home' = Home /\ Noted' = Noted /\ DOMAIN jobs' = DOMAIN jobs
    BY <2>1, <2>2, <1>c DEF SameObjects
  <2>4. Fresh => Fresh'
    BY <2>1, <2>3 DEF Fresh, Told
  <2>5. NotedKept'
    BY <1>a, <1>g, <2>1, <2>3 DEF Coming, NotedKept
  <2> QED
    BY <1>p, <2>1, <2>2, <2>3, <2>4, <2>5
\* Steps of one goroutine, the others being idle.
<1>s1. ASSUME NEW w \in BackupWorkers, Active(w), Rest(w),
              \A d, e \in Home' : d = e, DOMAIN jobs' = DOMAIN jobs,
              Noted' \subseteq Noted, Home' \subseteq Home, UNCHANGED snaps,
              \A v \in Noted : Coming(v)' => Coming(v), WorkKept(w)'
       PROVE  Goal
  <2>1. NotedKept'
    BY <1>a, <1>s1
  <2> QED
    BY <1>i, <1>o, <1>s1, <2>1
<1>7. ASSUME NEW w \in BackupWorkers, Walk(w) PROVE Goal
  <2>1. /\ Gets(w, "walk", IF Unchanged(w) THEN "skipped" ELSE "pack")
        /\ worker'[w].job = worker[w].job /\ worker'[w].fp = FP(w, tree)
        /\ worker'[w].at = now /\ FP(w, tree).tree = tree
        /\ UNCHANGED <<jobRow, saving, jobs, tree, snaps>>
    BY <1>7, WalkDoes
  <2>2. Active(w) /\ worker[w].pc = "walk" /\ Rest(w)
    BY <2>1 DEF Active, ActiveSteps, RunSteps, Gets
  <2>o. /\ \A z \in BackupWorkers \ {w} : worker[z].pc = "idle"
        /\ worker[w].job = current /\ current \in DOMAIN jobs
        /\ Cfg(w).dest \in Home
    BY <2>2, <1>o
  <2>3. Home' = Home /\ Noted' = Noted /\ Cfg(w)' = Cfg(w)
    BY <2>1 DEF Home, Noted, Cfg
  <2>4. \A v : Coming(v)' => Coming(v)
    BY <2>1, <2>2 DEF Coming, Rest, Gets
  <2>5. CASE Unchanged(w)
    <3>1. worker'[w].pc = "skipped"
      BY <2>1, <2>5 DEF Gets
    <3>2. tree = jobs[current].lastFP.tree
      BY <2>5, <2>1, <2>o DEF Unchanged
    <3>3. tree # 0
      <4>1. \A z \in BackupWorkers : worker[z].pc # "merge"
        BY <2>2, <2>o
      <4> QED
        BY <4>1, <1>g DEF Gated, Mixed
    <3>4. tree \in Noted
      BY <3>2, <3>3, <2>o DEF Noted
    <3>5. Good(Cfg(w).dest, tree)
      BY <3>4, <2>o, <1>g DEF NotedKept, Coming
    <3>6. BackedUp(w)'
      BY <3>5, <2>1, <2>3 DEF Good, BackedUp
    <3>7. WorkKept(w)'
      BY <3>1, <3>6 DEF WorkKept
    <3> QED
      BY <1>s1, <2>1, <2>2, <2>3, <2>4, <3>7, <1>g DEF NotedKept
  <2>6. CASE ~Unchanged(w)
    <3>1. worker'[w].pc = "pack"
      BY <2>1, <2>6 DEF Gets
    <3>2. \A s \in snaps' : s.at <= worker'[w].at
      BY <2>1, <1>t DEF PastOK
    <3>3. tree' = worker'[w].fp.tree
      BY <2>1
    <3>4. WorkKept(w)'
      BY <3>1, <3>2, <3>3 DEF WorkKept
    <3> QED
      BY <1>s1, <2>1, <2>2, <2>3, <2>4, <3>4, <1>g DEF NotedKept
  <2> QED
    BY <2>5, <2>6
<1>8. ASSUME NEW w \in BackupWorkers, PutArchive(w) PROVE Goal
  <2> DEFINE here == SnapsAt(Cfg(w).dest, worker[w].at)
  <2>1. /\ Gets(w, "pack", "describe") /\ Keeps(w)
        /\ worker'[w].tar = tree /\ worker'[w].at = worker[w].at
        /\ UNCHANGED <<jobRow, saving, jobs, tree>>
    BY <1>8, PutArchiveDoes
  <2>m. PICK m \in [tar : Nat, fp : FPs] :
           /\ IF here = {} THEN m = NoMeta ELSE \E s \in here : m = s.meta
           /\ snaps' = (snaps \ here) \cup {[dest |-> Cfg(w).dest, at |-> worker[w].at, tar |-> tree, meta |-> m]}
    BY <1>8, PutArchiveDoes
  <2> DEFINE new == [dest |-> Cfg(w).dest, at |-> worker[w].at, tar |-> tree, meta |-> m]
  <2>2. Active(w) /\ worker[w].pc = "pack" /\ Rest(w)
    BY <2>1 DEF Active, ActiveSteps, RunSteps, Gets
  <2>o. /\ \A z \in BackupWorkers \ {w} : worker[z].pc = "idle"
        /\ Cfg(w).dest \in Home
    BY <2>2, <1>o
  <2>3. Home' = Home /\ Noted' = Noted /\ Cfg(w)' = Cfg(w)
    BY <2>1 DEF Home, Noted, Cfg, Keeps
  <2>4. \A v : Coming(v)' => v = tree
    BY <2>1, <2>2, <2>o DEF Coming, Rest, Gets
  <2>n. /\ new.dest = Cfg(w).dest /\ new.at = worker[w].at /\ new.tar = tree /\ new.meta = m
        /\ new \in snaps' /\ \A s \in snaps \ here : s \in snaps'
        /\ \A s \in snaps' : s = new \/ s \in snaps
    BY <2>m
  <2> HIDE DEF new
  <2>5. ASSUME NEW d \in Home, tree \in Noted PROVE Good(d, tree)'
    <3>1. PICK s \in snaps : s.dest = d /\ s.tar = tree /\ Verifies(s)
      BY <2>5, <1>g DEF NotedKept, Coming, Good
    <3>2. CASE s \in here
      <4>1. m = s.meta
        <5>1. \A z \in here : z = s
          BY <3>2, <1>t DEF SnapsAt, PastOK
        <5> QED
          BY <3>2, <5>1, <2>m
      <4>2. Verifies(new) /\ new.dest = d
        BY <3>1, <3>2, <4>1, <2>n DEF Verifies, SnapsAt
      <4> QED
        BY <4>2, <2>n, <2>1 DEF Good
    <3>3. CASE s \notin here
      BY <3>1, <3>3, <2>n, <2>1 DEF Good
    <3> QED
      BY <3>2, <3>3
  <2>6. NotedKept'
    <3>1. \A d \in Home', v \in Noted' : Coming(v)' => Good(d, v)'
      BY <2>1, <2>3, <2>4, <2>5
    <3> QED
      BY <3>1, <2>1, <2>3, <1>g DEF NotedKept
  <2>7. worker'[w].pc = "describe" /\ tree' = worker'[w].tar /\ worker'[w].tar = worker'[w].fp.tree
    BY <2>1, <2>2, <1>g DEF WorkKept, Keeps, Gets
  <2>8. \A s \in snaps' : s.dest = Cfg(w).dest => s.at <= worker'[w].at
    <3>1. \A s \in snaps : s.dest = Cfg(w).dest => s.at <= worker[w].at
      BY <2>2, <1>g DEF WorkKept
    <3>2. worker[w].at <= worker[w].at
      BY <1>t DEF BackupTypeOK, WorkersTyped, Workers
    <3> QED
      BY <3>1, <3>2, <2>1, <2>n
  <2>9. \E s \in SnapsAt(Cfg(w).dest, worker[w].at)' : s.tar = worker'[w].tar
    BY <2>n, <2>1, <2>3 DEF SnapsAt
  <2>10. WorkKept(w)'
    BY <2>7, <2>8, <2>9, <2>3 DEF WorkKept
  <2> QED
    BY <1>i, <2>2, <2>o, <2>6, <2>10
<1>9. ASSUME NEW w \in BackupWorkers, PutMeta(w) PROVE Goal
  <2>1. /\ Gets(w, "describe", "store") /\ Keeps(w)
        /\ snaps' = {Described(w, s) : s \in snaps}
        /\ UNCHANGED <<jobRow, saving, jobs, tree>>
    BY <1>9, PutMetaDoes DEF Described
  <2>2. Active(w) /\ worker[w].pc = "describe" /\ Rest(w)
    BY <2>1 DEF Active, ActiveSteps, RunSteps, Gets
  <2>o. /\ \A z \in BackupWorkers \ {w} : worker[z].pc = "idle"
        /\ Cfg(w).dest \in Home
    BY <2>2, <1>o
  <2>3. /\ Home' = Home /\ Noted' = Noted /\ Cfg(w)' = Cfg(w)
    BY <2>1 DEF Home, Noted, Cfg, Keeps
  <2>4. \A v : Coming(v)' => Coming(v)
    BY <2>1, <2>2 DEF Coming, Rest, Gets
  <2>d. \A s \in snaps : /\ Described(w, s).dest = s.dest /\ Described(w, s).at = s.at
                         /\ Described(w, s).tar = s.tar
                         /\ Described(w, s).meta \in {s.meta, [tar |-> worker[w].tar, fp |-> worker[w].fp]}
                         /\ s \in SnapsAt(Cfg(w).dest, worker[w].at) =>
                              Described(w, s).meta = [tar |-> worker[w].tar, fp |-> worker[w].fp]
    BY DescribedIs
  <2>k. WorkKept(w)
    BY <1>g
  <2>5. PICK a \in snaps : a.dest = Cfg(w).dest /\ a.at = worker[w].at /\ a.tar = worker[w].tar
    BY <2>k, <2>2 DEF WorkKept, SnapsAt
  <2>6. Verifies(Described(w, a)) /\ Described(w, a) \in snaps'
    BY <2>1, <2>5, <2>d DEF Verifies, SnapsAt
  <2>7. ASSUME NEW s \in snaps, Verifies(s) PROVE Verifies(Described(w, s)) /\ Described(w, s) \in snaps'
    <3>1. CASE s \in SnapsAt(Cfg(w).dest, worker[w].at)
      <4>1. s = a
        BY <3>1, <2>5, <1>t DEF SnapsAt, PastOK
      <4> QED
        BY <4>1, <2>6
    <3>2. CASE s \notin SnapsAt(Cfg(w).dest, worker[w].at)
      BY <3>2, <2>1, <2>7 DEF Described
    <3> QED
      BY <3>1, <3>2
  <2>8. NotedKept'
    <3>1. ASSUME NEW d \in Home, NEW v \in Noted, Coming(v) PROVE Good(d, v)'
      <4>1. PICK s \in snaps : s.dest = d /\ s.tar = v /\ Verifies(s)
        BY <3>1, <1>g DEF NotedKept, Good
      <4> QED
        BY <4>1, <2>7, <2>d DEF Good
    <3> QED
      BY <3>1, <2>1, <2>3, <2>4, <1>g DEF NotedKept
  <2>9. PICK b \in snaps' : /\ b.dest = Cfg(w).dest /\ b.tar = worker[w].tar /\ Verifies(b)
                            /\ \A z \in snaps' : z.dest = Cfg(w).dest => z.at <= b.at
    <3>1. \A s \in snaps : s.dest = Cfg(w).dest => s.at <= worker[w].at
      BY <2>k, <2>2 DEF WorkKept
    <3>2. \A z \in snaps' : z.dest = Cfg(w).dest => z.at <= Described(w, a).at
      BY <3>1, <2>1, <2>5, <2>d
    <3> QED
      BY <2>6, <2>5, <2>d, <3>2
  <2>10. NewestAt(Cfg(w).dest, b)'
    BY <2>9, <2>3 DEF NewestAt
  <2>11. tree' = b.tar \/ Fresh'
    <3>1. tree = worker[w].tar \/ Fresh
      BY <2>k, <2>2 DEF WorkKept
    <3>2. \A z \in BackupWorkers : worker'[z].fp = worker[z].fp
      BY <2>1 DEF Keeps, Rest, Gets
    <3>3. Told' = Told
      BY <2>3, <3>2 DEF Told
    <3> QED
      BY <2>1, <2>9, <3>1, <3>3 DEF Fresh
  <2>12. b.tar = worker'[w].fp.tree /\ worker'[w].pc = "store"
    BY <2>1, <2>9, <2>k, <2>2 DEF WorkKept, Keeps, Gets
  <2>13. Packed(Cfg(w).dest, b)'
    BY <2>9, <2>10, <2>11 DEF Packed
  <2>14. WorkKept(w)'
    BY <2>9, <2>12, <2>13 DEF WorkKept
  <2> QED
    BY <1>i, <2>2, <2>o, <2>8, <2>14
<1>10. ASSUME NEW w \in BackupWorkers, StoreFP(w) PROVE Goal
  <2>1. /\ Keeps(w) /\ UNCHANGED <<saving, jobs, tree, snaps>>
        /\ \/ /\ Gets(w, "store", "update")
              /\ jobRow' = IF jobRow = NoRow THEN NoRow ELSE [jobRow EXCEPT !.fp = worker[w].fp]
           \/ Gets(w, "store", "done") /\ jobRow' = jobRow
    BY <1>10, StoreFPDoes
  <2>2. Active(w) /\ worker[w].pc = "store" /\ Rest(w)
    BY <2>1 DEF Active, ActiveSteps, RunSteps, Gets
  <2>o. /\ \A z \in BackupWorkers \ {w} : worker[z].pc = "idle"
        /\ Cfg(w).dest \in Home
    BY <2>2, <1>o
  <2>k. PICK a \in snaps : Packed(Cfg(w).dest, a) /\ a.tar = worker[w].fp.tree
    BY <2>2, <1>g DEF WorkKept
  <2>r. /\ jobRow' = NoRow <=> jobRow = NoRow
        /\ jobRow'.cfg = jobRow.cfg /\ jobRow'.fp \in {jobRow.fp, worker[w].fp}
    <3>1. CASE jobRow = NoRow
      BY <2>1, <3>1
    <3>2. CASE jobRow # NoRow /\ jobRow' = [jobRow EXCEPT !.fp = worker[w].fp]
      <4>1. jobRow \in [cfg : Configs, fp : FPs]
        BY <3>2, <1>t DEF BackupTypeOK
      <4>2. jobRow'.cfg = jobRow.cfg /\ jobRow'.fp = worker[w].fp
        BY <3>2, <4>1
      <4>3. jobRow' # NoRow
        BY <4>1, <4>2, BackupAssumption DEF NoRow, Configs
      <4> QED
        BY <4>2, <4>3, <3>2
    <3>3. CASE jobRow' = jobRow
      BY <3>3
    <3> QED
      BY <2>1, <3>1, <3>2, <3>3
  <2>3. Home' = Home /\ Noted' \subseteq Noted \cup {worker[w].fp.tree} /\ Cfg(w)' = Cfg(w)
    BY <2>1, <2>r DEF Home, Noted, Cfg, Keeps
  <2>4. Fresh => Fresh'
    <3>1. \A z \in BackupWorkers : worker'[z].fp = worker[z].fp
      BY <2>1, <2>2 DEF Keeps, Rest
    <3>2. Told' \subseteq Told
      BY <2>3, <3>1, <1>v DEF Told, Noted
    <3> QED
      BY <2>1, <3>2 DEF Fresh
  <2>5. \A v : Coming(v)' => Coming(v)
    BY <2>1, <2>2 DEF Coming, Rest, Gets
  <2>6. Good(Cfg(w).dest, worker[w].fp.tree)
    BY <2>k DEF Packed, NewestAt, Good
  <2>7. NotedKept'
    <3>1. \A d \in Home, v \in Noted' : Coming(v) => Good(d, v)
      BY <2>3, <2>o, <2>6, <1>g DEF NotedKept
    <3>2. \A d \in Home', v \in Noted' : Coming(v)' => Good(d, v)'
      BY <2>1, <2>3, <2>5, <3>1 DEF Good
    <3>3. DOMAIN jobs # {}
      BY <2>2, <1>o
    <3> QED
      BY <2>1, <2>3, <3>2, <3>3, <1>g DEF NotedKept
  <2>8. Packed(Cfg(w).dest, a)' /\ a.tar = worker'[w].fp.tree
    BY <2>k, <2>1, <2>3, <2>4 DEF Packed, NewestAt, Keeps
  <2>9. WorkKept(w)'
    BY <2>8, <2>1, <2>k DEF WorkKept, Gets
  <2> QED
    BY <1>i, <2>2, <2>o, <2>7, <2>9
<1>11. ASSUME NEW w \in BackupWorkers, UpdateFP(w) PROVE Goal
  <2>1. /\ Gets(w, "update", "done") /\ worker'[w].job = worker[w].job
        /\ worker'[w].fp = NoFP
        /\ \/ current = 0 /\ jobs' = jobs
           \/ current \in DOMAIN jobs /\ SameObjects(current)
              /\ jobs'[current] = [jobs[current] EXCEPT !.lastFP = worker[w].fp]
        /\ UNCHANGED <<jobRow, saving, tree, snaps>>
    BY <1>11, UpdateFPDoes
  <2>2. Active(w) /\ worker[w].pc = "update" /\ Rest(w)
    BY <2>1 DEF Active, ActiveSteps, RunSteps, Gets
  <2>o. /\ \A z \in BackupWorkers \ {w} : worker[z].pc = "idle"
        /\ Cfg(w).dest \in Home /\ current \in DOMAIN jobs /\ worker[w].job = current
    BY <2>2, <1>o
  <2>c. current # 0
    BY <2>o, <1>j
  <2>k. PICK a \in snaps : Packed(Cfg(w).dest, a) /\ a.tar = worker[w].fp.tree
    BY <2>2, <1>g DEF WorkKept
  <2>j. /\ DOMAIN jobs' = DOMAIN jobs /\ \A o \in DOMAIN jobs : jobs'[o].cfg = jobs[o].cfg
        /\ \A o \in DOMAIN jobs : jobs'[o].lastFP \in {jobs[o].lastFP, worker[w].fp}
    <3>1. SameObjects(current) /\ jobs'[current] = [jobs[current] EXCEPT !.lastFP = worker[w].fp]
      BY <2>1, <2>c
    <3>2. jobs'[current].lastFP = worker[w].fp
      BY <3>1, <2>o, <1>j DEF Objects
    <3> QED
      BY <3>1, <3>2 DEF SameObjects
  <2>3. Home' = Home /\ Noted' \subseteq Noted \cup {worker[w].fp.tree} /\ Cfg(w)' = Cfg(w)
    BY <2>1, <2>j, <2>o DEF Home, Noted, Cfg
  <2>4. Fresh => Fresh'
    <3>1. \A z \in BackupWorkers : worker'[z].fp.tree \in {worker[z].fp.tree, 0}
      BY <2>1, <2>2, IdleTyped DEF Rest
    <3>2. Told' \subseteq Told
      BY <2>3, <3>1 DEF Told
    <3> QED
      BY <2>1, <3>2 DEF Fresh
  <2>5. \A v : Coming(v)' => Coming(v)
    BY <2>1, <2>2 DEF Coming, Rest, Gets
  <2>6. Good(Cfg(w).dest, worker[w].fp.tree)
    BY <2>k DEF Packed, NewestAt, Good
  <2>7. NotedKept'
    <3>1. \A d \in Home, v \in Noted' : Coming(v) => Good(d, v)
      BY <2>3, <2>o, <2>6, <1>g DEF NotedKept
    <3>2. \A d \in Home', v \in Noted' : Coming(v)' => Good(d, v)'
      BY <2>1, <2>3, <2>5, <3>1 DEF Good
    <3> QED
      BY <2>j, <2>o, <2>3, <3>2, <1>g DEF NotedKept
  <2>8. Packed(Cfg(w).dest, a)'
    BY <2>k, <2>1, <2>3, <2>4 DEF Packed, NewestAt
  <2>9. WorkKept(w)'
    BY <2>8, <2>1, <2>k DEF WorkKept, Gets
  <2> QED
    BY <1>i, <2>2, <2>o, <2>7, <2>9
<1>12. ASSUME NEW w \in BackupWorkers, RequestFails(w) PROVE Goal
  <2>1. /\ Active(w) /\ Rest(w) /\ worker'[w].pc \in {"failed", "restored"} /\ worker[w].pc # "merge"
        /\ UNCHANGED <<jobRow, saving, jobs, tree, snaps>>
    BY <1>12, RequestFailsDoes DEF Active, ActiveSteps, RunSteps, RestoreSteps, Gets
  <2>2. Home' = Home /\ Noted' = Noted
    BY <2>1 DEF Home, Noted
  <2>3. \A v : Coming(v)' => Coming(v)
    BY <2>1 DEF Coming, Rest
  <2>4. WorkKept(w)'
    BY <2>1 DEF WorkKept
  <2> QED
    BY <1>s1, <1>g, <2>1, <2>2, <2>3, <2>4 DEF NotedKept
<1>13. ASSUME NEW w \in BackupWorkers, EndBackup(w) PROVE Goal
  <2>1. /\ worker[w].job \in DOMAIN jobs /\ SameObjects(worker[w].job)
        /\ jobs'[worker[w].job] = [jobs[worker[w].job] EXCEPT !.running = FALSE]
        /\ \/ \E from \in {"skipped", "failed"} : Gets(w, from, "idle")
           \/ Gets(w, "done", "rotate")
        /\ worker'[w].fp = NoFP
        /\ UNCHANGED <<jobRow, saving, tree, snaps>>
    BY <1>13, EndBackupDoes
  <2>2. Active(w) /\ Rest(w)
    BY <2>1 DEF Active, ActiveSteps, RunSteps, Gets
  <2>o. /\ \A z \in BackupWorkers \ {w} : worker[z].pc = "idle"
        /\ Cfg(w).dest \in Home
    BY <2>2, <1>o
  <2>j. \A o \in DOMAIN jobs : jobs'[o].cfg = jobs[o].cfg /\ jobs'[o].lastFP = jobs[o].lastFP
    BY <2>1, <1>j DEF SameObjects, Objects
  <2>3. Home' = Home /\ Noted' = Noted /\ DOMAIN jobs' = DOMAIN jobs
    BY <2>1, <2>j, <1>c DEF SameObjects
  <2>4. \A v : Coming(v)' => Coming(v)
    BY <2>1, <2>2 DEF Coming, Rest, Gets
  <2>5. Fresh => Fresh'
    <3>1. \A z \in BackupWorkers : worker'[z].fp.tree \in {worker[z].fp.tree, 0}
      BY <2>1, <2>2, IdleTyped DEF Rest
    <3>2. Told' \subseteq Told
      BY <2>3, <3>1 DEF Told
    <3> QED
      BY <2>1, <3>2 DEF Fresh
  <2>6. CASE worker'[w].pc = "idle"
    <3>1. WorkKept(w)'
      BY <2>6 DEF WorkKept
    <3> QED
      BY <1>s1, <1>g, <2>1, <2>2, <2>3, <2>4, <3>1 DEF NotedKept
  <2>7. CASE Gets(w, "done", "rotate")
    <3>1. PICK a \in snaps : Packed(Cfg(w).dest, a)
      BY <2>7, <1>g DEF WorkKept, Gets
    <3>2. \A d \in Home' : Packed(d, a)'
      <4>1. \A d \in Home : d = Cfg(w).dest
        BY <2>o, <1>g DEF NotedKept
      <4>2. ASSUME NEW d \in Home PROVE Packed(d, a)'
        BY <3>1, <4>1, <2>1, <2>5 DEF Packed, NewestAt
      <4> QED
        BY <4>2, <2>3
    <3>3. \A z \in BackupWorkers \ {w} : worker'[z].pc = "idle"
      BY <2>o, <2>2 DEF Rest
    <3>4. DOMAIN jobs' # {}
      BY <2>1, <2>3
    <3>5. worker'[w].pc = "rotate" /\ a \in snaps'
      BY <2>7, <3>1, <2>1 DEF Gets
    <3>6. WorkKept(w)'
      BY <3>2, <3>3, <3>4, <3>5 DEF WorkKept
    <3> QED
      BY <1>s1, <1>g, <2>1, <2>2, <2>3, <2>4, <3>6 DEF NotedKept
  <2> QED
    BY <2>1, <2>6, <2>7 DEF Gets
<1>14. ASSUME NEW w \in BackupWorkers, Rotate(w) PROVE Goal
  <2>1. /\ Gets(w, "rotate", "idle") /\ snaps' \subseteq snaps
        /\ \A s \in snaps : Newer(s) = {} => s \in snaps'
        /\ UNCHANGED <<jobRow, saving, jobs, tree>>
    BY <1>14, RotateDoes
  <2>2. /\ \A z \in BackupWorkers : worker'[z].pc = "idle" /\ worker[z].pc # "merge"
        /\ \A d \in Home : \E s \in snaps : Packed(d, s)
    <3>1. WorkKept(w) /\ worker[w].pc = "rotate" /\ worker'[w].pc = "idle" /\ Rest(w)
      BY <2>1, <1>g DEF Gets
    <3>2. \A z \in BackupWorkers \ {w} : worker[z].pc = "idle" /\ worker'[z] = worker[z]
      BY <3>1 DEF WorkKept, Rest
    <3>3. \A d \in Home : \E s \in snaps : Packed(d, s)
      BY <3>1 DEF WorkKept
    <3> QED
      BY <3>1, <3>2, <3>3
  <2>3. Home' = Home /\ Noted' = Noted
    BY <2>1 DEF Home, Noted
  <2>4. ASSUME NEW d \in Home, NEW v \in Noted, Coming(v)' PROVE Good(d, v)'
    <3>1. tree = v
      BY <2>1, <2>2, <2>4 DEF Coming
    <3>2. PICK s \in snaps : Packed(d, s)
      BY <2>2
    <3>3. v \in Told
      BY <1>v DEF Told
    <3>4. s.tar = v /\ Verifies(s) /\ s.dest = d
      BY <3>1, <3>2, <3>3 DEF Packed, NewestAt, Fresh
    <3>5. Newer(s) = {}
      <4>1. \A z \in snaps : z.dest = d => z.at <= s.at
        BY <3>2 DEF Packed, NewestAt
      <4>2. \A z \in snaps : z.at \in Nat
        BY <1>t DEF BackupTypeOK
      <4> QED
        BY <3>4, <4>1, <4>2 DEF Newer
    <3> QED
      BY <2>1, <3>4, <3>5 DEF Good
  <2>5. NotedKept'
    BY <2>1, <2>3, <2>4, <1>g DEF NotedKept
  <2> QED
    BY <2>2, <2>5 DEF WorkKept
<1>15. ASSUME NEW w \in BackupWorkers, Fetch(w) PROVE Goal
  <2>1. /\ Active(w) /\ Rest(w) /\ worker[w].pc = "fetch" /\ worker'[w].pc \in {"merge", "restored"}
        /\ UNCHANGED <<jobRow, saving, jobs, snaps>>
    BY <1>15, FetchDoes DEF Active, ActiveSteps, RunSteps, RestoreSteps, Gets
  <2>2. Home' = Home /\ Noted' = Noted
    BY <2>1 DEF Home, Noted
  <2>3. WorkKept(w)'
    BY <2>1 DEF WorkKept
  <2>4. CASE worker'[w].pc = "restored" /\ tree' = tree
    <3>1. \A v : Coming(v)' => Coming(v)
      BY <2>1, <2>4 DEF Coming, Rest
    <3> QED
      BY <1>s1, <1>g, <2>1, <2>2, <2>3, <3>1 DEF NotedKept
  <2>5. CASE /\ tree' = Mixed /\ current \in DOMAIN jobs
             /\ \E s \in snaps : /\ s.dest = jobs[current].cfg.dest /\ Verifies(s)
                                 /\ worker'[w].tar = s.tar
    <3>1. PICK s \in snaps : /\ s.dest = jobs[current].cfg.dest /\ Verifies(s)
                             /\ worker'[w].tar = s.tar
      BY <2>5
    <3>2. ASSUME NEW d \in Home, NEW v \in Noted, Coming(v)' PROVE Good(d, v)'
      <4>1. v # 0
        BY <1>v
      <4>2. \A z \in BackupWorkers \ {w} : worker'[z].pc = "idle"
        BY <2>1, <1>o DEF Rest
      <4>3. s.tar = v
        BY <4>1, <4>2, <3>1, <3>2, <2>5 DEF Coming, Mixed
      <4>4. s.dest = d
        BY <3>1, <2>5, <1>h, <1>g DEF NotedKept
      <4> QED
        BY <3>1, <4>3, <4>4, <2>1 DEF Good
    <3>3. NotedKept'
      BY <3>2, <2>1, <2>2, <1>g DEF NotedKept
    <3> QED
      BY <1>i, <1>o, <2>1, <2>3, <3>3
  <2> QED
    BY <1>15, <2>4, <2>5, FetchDoes DEF Gets
<1>16. ASSUME NEW w \in BackupWorkers, Merge(w) PROVE Goal
  <2>1. /\ Gets(w, "merge", "restored")
        /\ \/ tree' = worker[w].tar
           \/ tree' = edits + 1
        /\ UNCHANGED <<jobRow, saving, jobs, snaps>>
    BY <1>16, MergeDoes
  <2>2. Active(w) /\ Rest(w)
    BY <2>1 DEF Active, ActiveSteps, RestoreSteps, Gets
  <2>3. Home' = Home /\ Noted' = Noted
    BY <2>1 DEF Home, Noted
  <2>4. \A v \in Noted : Coming(v)' => Coming(v)
    BY <2>1, <2>2, <1>v, <1>n DEF Coming, Rest, Gets
  <2>5. WorkKept(w)'
    BY <2>1 DEF WorkKept, Gets
  <2> QED
    BY <1>s1, <1>g, <2>1, <2>2, <2>3, <2>4, <2>5 DEF NotedKept
<1>17. ASSUME NEW w \in BackupWorkers, EndRestore(w) PROVE Goal
  <2>1. /\ worker[w].job \in DOMAIN jobs /\ SameObjects(worker[w].job)
        /\ jobs'[worker[w].job] = [jobs[worker[w].job] EXCEPT !.restoring = FALSE]
        /\ Gets(w, "restored", "idle")
        /\ UNCHANGED <<jobRow, saving, tree, snaps>>
    BY <1>17, EndRestoreDoes
  <2>2. Active(w) /\ Rest(w)
    BY <2>1 DEF Active, ActiveSteps, RestoreSteps, Gets
  <2>j. \A o \in DOMAIN jobs : jobs'[o].cfg = jobs[o].cfg /\ jobs'[o].lastFP = jobs[o].lastFP
    BY <2>1, <1>j DEF SameObjects, Objects
  <2>3. Home' = Home /\ Noted' = Noted /\ DOMAIN jobs' = DOMAIN jobs
    BY <2>1, <2>j, <1>c DEF SameObjects
  <2>4. \A v : Coming(v)' => Coming(v)
    BY <2>1, <2>2 DEF Coming, Rest, Gets
  <2>5. WorkKept(w)'
    BY <2>1 DEF WorkKept, Gets
  <2> QED
    BY <1>s1, <1>g, <2>1, <2>2, <2>3, <2>4, <2>5 DEF NotedKept
<1>18. ASSUME Edit PROVE Goal
  <2>1. /\ tree' = edits + 1 /\ UNCHANGED <<jobRow, saving, jobs, snaps, worker>>
        /\ \A w \in BackupWorkers : worker[w].pc # "pack"
    BY <1>18, <1>r DEF Edit, Excuse, requestVars
  <2>2. Home' = Home /\ Noted' = Noted /\ Told' = Told
    BY <2>1 DEF Home, Noted, Told
  <2>3. \A v \in Told : v \in 0..edits
    BY <1>v, <1>n DEF Told
  <2>4. Fresh'
    BY <2>1, <2>2, <2>3, <1>n DEF Fresh
  <2>5. \A v \in Noted : Coming(v)' => Coming(v)
    BY <2>1, <1>v, <1>n DEF Coming
  <2>6. NotedKept'
    BY <1>a, <1>g, <2>1, <2>2, <2>5 DEF NotedKept
  <2> QED
    BY <1>p, <2>1, <2>2, <2>4, <2>6
<1>19. ASSUME UNCHANGED <<jobRow, saving, jobs, snaps, worker, tree>> PROVE Goal
  <2>1. Home' = Home /\ Noted' = Noted /\ Told' = Told
    BY <1>19 DEF Home, Noted, Told
  <2>2. Fresh => Fresh'
    BY <1>19, <2>1 DEF Fresh
  <2>3. NotedKept'
    BY <1>a, <1>g, <1>19, <2>1 DEF NotedKept, Coming
  <2> QED
    BY <1>p, <1>19, <2>1, <2>2, <2>3
<1>20. ASSUME RestartBackups PROVE Goal
  <2>1. /\ \A w \in BackupWorkers : worker'[w] = IdleWorker
        /\ saving' = {} /\ UNCHANGED <<jobRow, snaps>>
        /\ \/ jobRow = NoRow /\ jobs' = <<>>
           \/ /\ jobRow # NoRow /\ DOMAIN jobs' = {1}
              /\ jobs'[1].cfg = jobRow.cfg /\ jobs'[1].lastFP = jobRow.fp
        /\ tree' = tree \/ tree' = edits + 1
    BY <1>20, RestartBackupsDoes
  <2>2. Home' \subseteq Home
    BY <2>1 DEF Home
  <2>3. Noted' \subseteq Noted
    BY <2>1 DEF Noted
  <2>4. DOMAIN jobs' = {} => Noted' = {}
    BY <2>1, IdleTyped DEF Noted, NoRow
  <2>5. \A v \in Noted : Coming(v)' => Coming(v)
    BY <2>1, <1>v, <1>n, IdleTyped DEF Coming
  <2>6. NotedKept'
    BY <1>a, <1>g, <2>1, <2>2, <2>3, <2>4, <2>5 DEF NotedKept
  <2>7. \A w \in BackupWorkers : WorkKept(w)'
    BY <2>1, IdleTyped DEF WorkKept
  <2> QED
    BY <2>6, <2>7
<1>21. ASSUME Pass \/ UNCHANGED backupVars PROVE Goal
  BY <1>21, <1>19 DEF Pass, backupVars, requestVars
<1> QED
  BY <1>1, <1>2, <1>3, <1>4, <1>5, <1>6, <1>7, <1>8, <1>9, <1>10, <1>11, <1>12, <1>13, <1>14, <1>15, <1>16, <1>17, <1>18, <1>20, <1>21, <1>t, <1>j, StartDoes
  DEF BackupNext, ScheduledBackup

-----------------------------------------------------------------------------
LEMMA BackupInvInit == BackupInit => BackupInv
<1> SUFFICES ASSUME BackupInit PROVE BackupInv
  OBVIOUS
<1>1. /\ jobRow = NoRow /\ jobs = <<>> /\ current = 0 /\ tree = 1 /\ edits = 1
      /\ snaps = {} /\ saving = {} /\ now = 0
      /\ worker = [w \in BackupWorkers |-> IdleWorker]
  BY DEF BackupInit
<1>2. /\ \A w \in BackupWorkers : worker[w] = IdleWorker /\ worker[w].pc = "idle"
      /\ WorkersTyped
  BY <1>1, IdleTyped DEF WorkersTyped
<1>3. \A w \in BackupWorkers : ~Active(w)
  BY <1>2 DEF Active, ActiveSteps, RunSteps, RestoreSteps
<1>4. DOMAIN jobs = {} /\ jobs \in Seq(Objects) /\ Len(jobs) = 0
  BY <1>1
<1>5. BackupTypeOK
  BY <1>1, <1>2, <1>4, BackupAssumption DEF BackupTypeOK
<1>6. NoRow.fp.tree = 0
  BY IdleTyped DEF NoRow
<1>7. PastOK
  BY <1>1, <1>2, <1>3, <1>4, <1>6, IdleTyped DEF PastOK
<1>8. Gated
  BY <1>1, <1>2, <1>3 DEF Gated, Mixed
<1>9. Stored
  BY <1>1 DEF Stored
<1>10. ScheduleAlive
  BY <1>1 DEF ScheduleAlive
<1>11. Home = {} /\ Noted = {}
  BY <1>1, <1>4, <1>6 DEF Home, Noted
<1>12. NotedKept /\ \A w \in BackupWorkers : WorkKept(w)
  BY <1>2, <1>11 DEF NotedKept, WorkKept
<1> QED
  BY <1>5, <1>7, <1>8, <1>9, <1>10, <1>12 DEF BackupInv, BackupBasics, GateOK, StoredOK, AliveOK, KeptOK

THEOREM BackupInvHolds == BackupSpec => []BackupInv
<1>1. BackupInv /\ [BackupNext]_backupVars => BackupInv'
  BY BackupBasicsStep, GateStep, StoredStep, AliveStep, KeptStep DEF BackupInv
<1> QED
  BY <1>1, BackupInvInit, PTL DEF BackupSpec

\* A snapshot is of a directory that was one version: nobody packs what a restore
\* is still writing, as long as nobody holds a gate that Save, Delete or an older
\* lookup has made worthless (Job.running and Job.restoring, Manager.Save).
THEOREM SnapshotsAreWhole == BackupSpec => []WholeSnapshotsUnlessReplaced
<1>1. BackupInv => WholeSnapshotsUnlessReplaced
  BY DEF BackupInv, GateOK, Gated, Excused, WholeSnapshotsUnlessReplaced
<1> QED
  BY <1>1, BackupInvHolds, PTL

\* The object of the map is the one that a restart would make of the row, with
\* its fingerprint, and its next run is the next time its schedule matches (Save,
\* Delete, updateFingerprint, load, scheduleLoop).
THEOREM JobIsRemembered == BackupSpec => []JobGoesOn
<1>1. ASSUME BackupInv PROVE MemoryIsStoredUnlessCrossed
  <2> SUFFICES ASSUME saving = {}, \A w \in BackupWorkers : worker[w].pc # "update",
                      excuses \cap {"crossed", "replaced"} = {}
               PROVE  IF current = 0 THEN jobRow = NoRow
                      ELSE jobRow = [cfg |-> jobs[current].cfg, fp |-> jobs[current].lastFP]
    BY DEF MemoryIsStoredUnlessCrossed
  <2>1. Stored
    BY <1>1 DEF BackupInv, StoredOK, Excused
  <2>2. CASE current = 0
    BY <2>1, <2>2 DEF Stored
  <2>3. CASE current # 0
    <3>1. jobRow # NoRow /\ jobRow.cfg = jobs[current].cfg /\ jobRow.fp = jobs[current].lastFP
      BY <2>1, <2>3 DEF Stored
    <3>2. jobRow \in [cfg : Configs, fp : FPs]
      BY <1>1, <3>1 DEF BackupInv, BackupBasics, BackupTypeOK
    <3> QED
      BY <2>3, <3>1, <3>2
  <2> QED
    BY <2>2, <2>3
<1>2. BackupInv => JobGoesOn
  BY <1>1 DEF BackupInv, AliveOK, JobGoesOn
<1> QED
  BY <1>2, BackupInvHolds, PTL

\* A backup is skipped only when what it would have packed is in a snapshot at the
\* job's address that can be restored (Walk and the fingerprint, Rotate, Save).
THEOREM SkippedIsInSnapshot == BackupSpec => []SkippedIsBackedUpUnlessMoved
<1>1. BackupInv => SkippedIsBackedUpUnlessMoved
  <2> SUFFICES ASSUME BackupInv, "moved" \notin excuses,
                      excuses \cap {"edited", "replaced", "rotating"} = {},
                      NEW w \in BackupWorkers, worker[w].pc = "skipped"
               PROVE  BackedUp(w)
    BY DEF SkippedIsBackedUpUnlessMoved, SkippedIsBackedUp
  <2>1. WorkKept(w)
    BY DEF BackupInv, KeptOK, Excused, Exempt
  <2> QED
    BY <2>1 DEF WorkKept
<1> QED
  BY <1>1, BackupInvHolds, PTL
=============================================================================
