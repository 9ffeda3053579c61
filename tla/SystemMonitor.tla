--------------------------- MODULE SystemMonitor ---------------------------
(***************************************************************************)
(* The list of processes and its kill button (internal/sysmon).  The       *)
(* monitor keeps the last sample, whoever asked for it, and shows what     *)
(* happened since; the page sends the pid it shows and the name beside it. *)
(* Pids are used again, by processes of any name.                          *)
(***************************************************************************)
EXTENDS Naturals, FiniteSets

CONSTANTS Pids, ProcNames, Viewers, MaxBirths, MaxClock, MinWindow, MaxAge

\* minWindow and maxAge are durations.
ASSUME WindowAssumption == MinWindow \in Nat \ {0} /\ MaxAge \in Nat

VARIABLES
  procs,    \* [Pids -> process]: born tells it from others, at is its start time,
            \* used its CPU ticks
  clock,    \* ticks of the machine
  worked,   \* <<born, tick>>: who used which tick
  last,     \* [at, procs]: prev
  first,    \* {viewer} while Snapshot sleeps (it holds mu), its first sample in last
  rows,     \* [Viewers -> [since, at, list]]: the page
  order,    \* [Viewers -> kill request under way]
  struck,   \* the last signal: row clicked, process it reached
  births

sysVars == <<procs, clock, worked, last, first, rows, order, struck, births>>

NoName == "no name"
NoProc == [born |-> 0, at |-> 0, name |-> NoName, used |-> 0]
Unlisted  == [born |-> 0, at |-> 0, name |-> NoName, cpu |-> 0]
NoKill == [pc |-> "none", pid |-> {}, row |-> Unlisted, seen |-> 0]
None   == [p \in Pids |-> NoProc]

MonitorInit ==
  /\ procs = None /\ clock = MinWindow /\ worked = {}
  /\ last = [at |-> 0, procs |-> None] /\ first = {}
  /\ rows = [v \in Viewers |-> [since |-> 0, at |-> 0, list |-> [p \in Pids |-> Unlisted]]]
  /\ order = [v \in Viewers |-> NoKill] /\ struck = [row |-> Unlisted, proc |-> NoProc, seen |-> 0]
  /\ births = 0

(***************************************************************************)
(* The machine.                                                            *)
(***************************************************************************)
Born(p) ==
  /\ procs[p].born = 0 /\ births < MaxBirths /\ births' = births + 1
  /\ \E n \in ProcNames : procs' = [procs EXCEPT ![p] = [born |-> births', at |-> clock, name |-> n, used |-> 0]]
  /\ UNCHANGED <<clock, worked, last, first, rows, order, struck>>
Exits(p) ==
  /\ procs[p].born # 0 /\ procs' = [procs EXCEPT ![p] = NoProc]
  /\ UNCHANGED <<clock, worked, last, first, rows, order, struck, births>>
\* A tick passes; some process has it, or none.
Ticks ==
  /\ clock < MaxClock /\ clock' = clock + 1
  /\ \E S \in {{}} \cup {{p} : p \in {q \in Pids : procs[q].born # 0}} :
       /\ procs' = [p \in Pids |-> IF p \in S THEN [procs[p] EXCEPT !.used = @ + 1] ELSE procs[p]]
       /\ worked' = worked \cup {<<procs[p].born, clock'>> : p \in S}
  /\ UNCHANGED <<last, first, rows, order, struck, births>>

(***************************************************************************)
(* Snapshot.                                                               *)
(***************************************************************************)
UsableWindow == last.at # 0 /\ clock - last.at \in MinWindow..MaxAge
Sampled == [at |-> clock, procs |-> procs]

\* The ticks of a process since the sample, if it is the same process by its start
\* time.  The first operator looks at the pid only.
SamePid(b, p) == b.born # 0
SameProcess(b, p) == b.born # 0 /\ b.at = p.at
Row(b, p) ==
  IF p.born = 0 THEN Unlisted
  ELSE [born |-> p.born, at |-> p.at, name |-> p.name,
        cpu |-> IF SameProcess(b, p) /\ p.used > b.used THEN p.used - b.used ELSE 0]
Show(v) ==
  /\ rows' = [rows EXCEPT ![v] = [since |-> last.at, at |-> clock,
                                  list |-> [p \in Pids |-> Row(last.procs[p], procs[p])]]]
  /\ last' = Sampled

Snapshot(v) ==
  /\ first = {} /\ order[v].pc = "none"
  /\ IF UsableWindow THEN Show(v) /\ UNCHANGED first
     ELSE last' = Sampled /\ first' = {v} /\ UNCHANGED rows
  /\ UNCHANGED <<procs, clock, worked, order, struck, births>>
\* After a sleep of MinWindow, or more.
SecondSample(v) ==
  /\ v \in first /\ clock - last.at >= MinWindow
  /\ Show(v) /\ first' = {}
  /\ UNCHANGED <<procs, clock, worked, order, struck, births>>

(***************************************************************************)
(* Kill.                                                                   *)
(***************************************************************************)
Click(v, p) ==
  /\ order[v].pc = "none" /\ rows[v].list[p].born # 0
  /\ order' = [order EXCEPT ![v] = [pc |-> "check", pid |-> {p}, row |-> rows[v].list[p], seen |-> 0]]
  /\ UNCHANGED <<procs, clock, worked, last, first, rows, struck, births>>
\* procNameNow: no such process, or one with another name, and nothing is done.
CheckName(v, p) ==
  /\ order[v].pc = "check" /\ p \in order[v].pid
  /\ order' = IF procs[p].name = order[v].row.name
              THEN [order EXCEPT ![v].pc = "signal", ![v].seen = procs[p].born] ELSE [order EXCEPT ![v] = NoKill]
  /\ UNCHANGED <<procs, clock, worked, last, first, rows, struck, births>>
\* killProc: SIGTERM, which a process may ignore, or SIGKILL.
Signal(v, p) ==
  /\ order[v].pc = "signal" /\ p \in order[v].pid
  /\ order' = [order EXCEPT ![v] = NoKill]
  /\ struck' = IF procs[p].born = 0 THEN struck
               ELSE [row |-> order[v].row, proc |-> procs[p], seen |-> order[v].seen]
  /\ procs' \in {procs, [procs EXCEPT ![p] = NoProc]}
  /\ UNCHANGED <<clock, worked, last, first, rows, births>>

MonitorNext ==
  \/ \E v \in Viewers : Snapshot(v) \/ SecondSample(v) \/ \E p \in Pids : Click(v, p) \/ CheckName(v, p) \/ Signal(v, p)
  \/ \E p \in Pids : Born(p) \/ Exits(p)
  \/ Ticks

MonitorSpec == MonitorInit /\ [][MonitorNext]_sysVars

(***************************************************************************)
(* Properties.                                                             *)
(***************************************************************************)
\* What a page shows of a process is what that process has used in the time the
\* page names, never the difference to one that had its pid before: one born after
\* the sample has nothing to be compared with and shows nothing (buildProcs).
UsageIsItsOwn ==
  \A v \in Viewers : \A p \in Pids :
    LET r == rows[v].list[p]
        used == {t \in rows[v].since + 1..rows[v].at : <<r.born, t>> \in worked}
    IN r.born # 0 =>
         \/ r.at <= rows[v].since /\ r.cpu = Cardinality(used)
         \/ r.at >= rows[v].since /\ r.cpu = 0

\* A window is neither shorter nor, but for the sleep itself, longer than it may
\* be, whoever asked before (usableWindow).
WindowHonest ==
  \A v \in Viewers : rows[v].at # 0 => rows[v].since # 0 /\ rows[v].at - rows[v].since >= MinWindow

\* A signal reaches the process that the user saw, or one of its name, unless the
\* pid changed hands between the look at the name and the signal (Kill).
StrikesAsShown ==
  struck.proc.born # 0 =>
    \/ struck.proc.born = struck.row.born
    \/ struck.proc.name = struck.row.name
    \/ struck.proc.born # struck.seen

MonitorTrue == UsageIsItsOwn /\ WindowHonest /\ StrikesAsShown
=============================================================================
