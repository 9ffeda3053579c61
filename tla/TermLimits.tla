----------------------------- MODULE TermLimits -----------------------------
(***************************************************************************)
(* How a terminal gets its limits from cgroup v2 (limits_linux.go).  The   *)
(* first session that asks for a limit makes cgroupBase find a group that  *)
(* can hand out controllers: the parent of the program's own group, or the *)
(* own one, emptied first; what comes of it is kept until the program      *)
(* ends.  Each such session then has a group of its own, which its shell   *)
(* enters before it is one.                                                *)
(*                                                                         *)
(* The kernel lets a group hand out controllers only while no process is   *)
(* in it.  Processes: the program, shells and what they start, and strays  *)
(* that the service manager puts into the program's group.                 *)
(***************************************************************************)
EXTENDS Naturals, FiniteSets

CONSTANTS Terms, MaxStarts, MaxForks, MaxReleaseTries

ASSUME LimitsAssumption == MaxForks \in Nat

VARIABLES
  machine,  \* [parent, offers, own, sh]: what the machine allows
  base,     \* [at, todo, on]: how far cgroupBase is, pids still to move, controllers
  inOwn,    \* processes directly in the program's group (of the rest, those not in a
            \* session's group are in its leaf lr-main)
  group,    \* [Terms -> processes in the session's group]
  made,     \* sessions whose group exists
  term,     \* [Terms -> [pc, asked, got, mode, tries]]
  alive,    \* processes
  raced,    \* a process came into the own group while it was emptied
  starts, forks

limitVars == <<machine, base, inOwn, group, made, term, alive, raced, starts, forks>>

Controllers == {"memory", "cpu"}
Program == <<"program">>
Sh(s)   == <<"shell", s>>
Child(s, n) == <<"child", s, n>>
Strange(n)  == <<"stray", n>>

NoTerm == [pc |-> "none", asked |-> {}, got |-> {}, mode |-> "none", tries |-> 0]
Fresh  == [at |-> "untried", todo |-> {}, on |-> {}]

\* parent: "none" (the own group is the root), "empty" (a slice), "occupied" by
\* processes, so that it has handed nothing down, or "closed" (not writable).
\* offers: what it may hand down; own: what it did.
LimitsInit ==
  /\ machine \in [parent : {"none", "empty", "occupied", "closed"}, offers : SUBSET Controllers,
                  own : SUBSET Controllers, sh : BOOLEAN]
  /\ machine.own \subseteq machine.offers
  /\ machine.parent = "none" => machine.own = machine.offers
  /\ machine.parent = "occupied" => machine.own = {}
  /\ base = Fresh /\ inOwn = {Program} /\ alive = {Program} /\ raced = FALSE
  /\ group = [s \in Terms |-> {}] /\ made = {}
  /\ term = [s \in Terms |-> NoTerm] /\ starts = 0 /\ forks = 0

Turns(s, pc) == term' = [term EXCEPT ![s].pc = pc]
host == <<machine, starts>>

(***************************************************************************)
(* cgroupBase: once.                                                       *)
(***************************************************************************)
Usable == IF machine.parent \in {"empty", "occupied"} THEN machine.offers ELSE machine.own
\* cgroupGC: groups of the last run, those without processes.
Collected == {s \in made : group[s] # {}}
Prepared(at, on) ==
  IF on = {} THEN base' = [Fresh EXCEPT !.at = "failed"] /\ UNCHANGED made
  ELSE base' = [at |-> at, todo |-> {}, on |-> on] /\ made' = Collected

\* By the parent, if that is a slice without processes; else the pids of the own
\* group are read, to be moved.  The root group may have both.
FindBase(s) ==
  /\ term[s].pc = "limiter" /\ base.at = "untried"
  /\ CASE Usable = {} -> Prepared("failed", {})
       [] Usable # {} /\ machine.parent = "empty" -> Prepared("parent", machine.offers)
       [] Usable # {} /\ machine.parent = "none"  -> Prepared("own", machine.own)
       [] OTHER -> base' = [Fresh EXCEPT !.at = "vacating", !.todo = inOwn] /\ UNCHANGED made
  /\ UNCHANGED <<inOwn, group, term, alive, raced, forks, host>>
MovePid ==
  /\ base.at = "vacating"
  /\ \E x \in base.todo : base' = [base EXCEPT !.todo = @ \ {x}] /\ inOwn' = inOwn \ {x}
  /\ UNCHANGED <<group, made, term, alive, raced, forks, host>>
\* Read again: whoever is there now could not be moved, or has come meanwhile.
VacateEnds ==
  /\ base.at = "vacating" /\ base.todo = {}
  /\ Prepared("own", IF inOwn = {} THEN machine.own ELSE {})
  /\ UNCHANGED <<inOwn, group, term, alive, raced, forks, host>>

(***************************************************************************)
(* A session (newLimiter, start).                                          *)
(***************************************************************************)
AskLimits(s, l) ==
  /\ term[s].pc = "none"
  /\ term' = [term EXCEPT ![s] = [NoTerm EXCEPT !.asked = l, !.pc = IF l = {} THEN "start" ELSE "limiter"]]
  /\ UNCHANGED <<base, inOwn, group, made, alive, raced, forks, host>>

\* The files of a controller are in the group if the base hands it down.  For
\* memory alone there is ulimit; else there is no session.
NewLimiter(s) ==
  LET got == term[s].asked \cap base.on
  IN /\ term[s].pc = "limiter" /\ base.at \notin {"untried", "vacating"}
     /\ made' = IF got # {} THEN made \cup {s} ELSE made
     /\ term' = [term EXCEPT ![s] =
          IF got # {} THEN [@ EXCEPT !.pc = "start", !.got = got, !.mode = "cgroup2"]
          ELSE IF term[s].asked = {"memory"} /\ machine.sh
          THEN [@ EXCEPT !.pc = "start", !.got = {"memory"}, !.mode = "rlimit"]
          ELSE [@ EXCEPT !.pc = "refused"]]
     /\ UNCHANGED <<base, inOwn, group, alive, raced, forks, host>>

\* wrap: a small script enters the group and becomes the shell.  Without sh the
\* shell is put there when it runs (attach).  The first operator does so always.
AttachesLater == FALSE
Wraps == machine.sh
\* A process starts where the one is that starts it.
Joins(new, old) == inOwn' = IF old \in inOwn THEN inOwn \cup {new} ELSE inOwn
StartTerm(s) ==
  /\ term[s].pc = "start"
  /\ alive' = alive \cup {Sh(s)} /\ Joins(Sh(s), Program)
  /\ raced' = (raced \/ (base.at = "vacating" /\ Program \in inOwn))
  /\ Turns(s, IF term[s].mode # "cgroup2" THEN "runs" ELSE IF Wraps THEN "enter" ELSE "attach")
  /\ UNCHANGED <<base, group, made, forks, host>>
EnterGroup(s) ==
  /\ term[s].pc \in {"enter", "attach"} /\ Sh(s) \in alive
  /\ group' = [group EXCEPT ![s] = @ \cup {Sh(s)}] /\ inOwn' = inOwn \ {Sh(s)}
  /\ Turns(s, "runs")
  /\ UNCHANGED <<base, made, alive, raced, forks, host>>

\* The shell starts something.
ForkChild(s) ==
  /\ term[s].pc \in {"attach", "runs"} /\ Sh(s) \in alive /\ forks < MaxForks /\ forks' = forks + 1
  /\ alive' = alive \cup {Child(s, forks')}
  /\ IF Sh(s) \in group[s]
     THEN group' = [group EXCEPT ![s] = @ \cup {Child(s, forks')}] /\ UNCHANGED <<inOwn, raced>>
     ELSE /\ Joins(Child(s, forks'), Sh(s)) /\ UNCHANGED group
          /\ raced' = (raced \/ (base.at = "vacating" /\ Sh(s) \in inOwn))
  /\ UNCHANGED <<base, made, term, host>>
\* The service manager starts something in the own group; it may not when that
\* hands out controllers.
Stray ==
  /\ (base.at # "own" \/ machine.parent = "none") /\ forks < MaxForks /\ forks' = forks + 1
  /\ alive' = alive \cup {Strange(forks')} /\ inOwn' = inOwn \cup {Strange(forks')}
  /\ raced' = (raced \/ base.at = "vacating")
  /\ UNCHANGED <<base, group, made, term, host>>

Dies(S) == /\ alive' = alive \ S /\ inOwn' = inOwn \ S
           /\ group' = [s \in Terms |-> group[s] \ S]
ProcessDies(x) ==
  /\ x \in alive \ {Program} /\ Dies({x})
  /\ term' = [s \in Terms |->
       IF x = Sh(s) THEN [term[s] EXCEPT !.pc = IF @ \in {"enter", "attach", "runs"} THEN "release" ELSE @] ELSE term[s]]
  /\ UNCHANGED <<base, made, raced, forks, host>>

\* release: tried again a few times while something is in the group.
Release(s) ==
  /\ term[s].pc = "release"
  /\ IF term[s].mode # "cgroup2" \/ group[s] = {}
     THEN Turns(s, "released") /\ made' = made \ {s}
     ELSE /\ term' = [term EXCEPT ![s].tries = @ + 1, ![s].pc = IF term[s].tries + 1 = MaxReleaseTries THEN "given up" ELSE @]
          /\ UNCHANGED made
  /\ UNCHANGED <<base, inOwn, group, alive, raced, forks, host>>

\* The service is started again: shells hang up, everything in its own group is
\* killed; what runs below the parent stays, and the groups there.
StartAgain ==
  /\ starts < MaxStarts /\ starts' = starts + 1
  /\ LET below == base.at = "parent"
         kept  == IF below THEN UNION {group[s] : s \in Terms} \ {Sh(s) : s \in Terms} ELSE {}
     IN /\ alive' = {Program} \cup kept /\ inOwn' = {Program}
        /\ group' = [s \in Terms |-> group[s] \cap kept]
        /\ made' = IF below THEN made ELSE {}
  /\ term' = [s \in Terms |-> IF term[s].pc = "none" THEN NoTerm ELSE [term[s] EXCEPT !.pc = "old"]]
  /\ base' = Fresh /\ raced' = FALSE
  /\ UNCHANGED <<machine, forks>>

LimitsNext ==
  \/ \E s \in Terms : \/ FindBase(s) \/ NewLimiter(s) \/ StartTerm(s) \/ EnterGroup(s) \/ ForkChild(s) \/ Release(s)
                      \/ \E l \in SUBSET Controllers : AskLimits(s, l)
  \/ \E x \in alive : ProcessDies(x)
  \/ MovePid \/ VacateEnds \/ Stray \/ StartAgain

LimitsSpec == LimitsInit /\ [][LimitsNext]_limitVars

(***************************************************************************)
(* Properties.                                                             *)
(***************************************************************************)
Of(s) == alive \cap ({Sh(s)} \cup {Child(s, n) : n \in 1..MaxForks})

\* Everything that the shell of a limited session has started is in its group,
\* whose limits are those the user is told, and no other process is; without sh
\* the shell may have started something before it was put there (wrap, attach).
Confined ==
  \A s \in Terms :
    /\ group[s] \subseteq Of(s)
    /\ term[s].mode = "cgroup2" /\ term[s].pc = "runs" /\ machine.sh =>
         Of(s) = group[s] /\ s \in made /\ term[s].got \subseteq base.on

\* A session has every limit it asked for, or the machine cannot limit that (got
\* is shown), or it is refused (newLimiter).
LimitedAsAsked ==
  \A s \in Terms : term[s].pc \in {"start", "enter", "attach", "runs"} =>
    /\ term[s].asked # {} => term[s].got # {}
    /\ (term[s].asked \ term[s].got) \cap base.on = {}

\* Limits that the machine could give are given, unless a process came into the
\* group while it was emptied: that is not tried again until the next start
\* (vacate, OnceValues).
BaseFound ==
  base.at = "failed" => Usable = {} \/ raced \/ machine.parent = "occupied"

\* A group is there as long as something is in it, and is not left behind but by a
\* release that gave up or a program that ended before it (release, cgroupGC).
GroupsGo ==
  \A s \in Terms :
    /\ group[s] # {} => s \in made
    /\ s \in made => term[s].pc \in {"start", "enter", "attach", "runs", "release", "given up", "old"}

LimitsHold == Confined /\ LimitedAsAsked /\ BaseFound /\ GroupsGo
=============================================================================
