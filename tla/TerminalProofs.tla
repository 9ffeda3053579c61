--------------------------- MODULE TerminalProofs ---------------------------
(***************************************************************************)
(* What holds of the terminal for every number of sessions, connections    *)
(* and requests, and every size of the ring buffer and the queues.         *)
(* EndInv says how sessions and pages go on until a session has ended;     *)
(* OutInv what is in the buffers and queues, and who is registered where.  *)
(***************************************************************************)
EXTENDS Terminal, FiniteSetTheorems, SequenceTheorems, TLAPS

SessionSteps == {"none", "started", "watch", "audience", "exit", "list", "clients", "send", "release", "done"}
ClientSteps  == {"read", "map", "detach", "attach", "greet", "dead?", "list", "clients", "send", "forget", "done"}
Ending == {"audience", "exit", "list", "clients", "send", "release"}

EndTypes ==
  /\ sessions \subseteq Sessions /\ clients \subseteq Clients
  /\ proc \in [Sessions -> {"none", "up", "gone"}]
  /\ exit \in [Sessions -> {"wait", "close", "closed"}]
  /\ alarm \in [Sessions -> BOOLEAN] /\ grace \in [Sessions -> BOOLEAN]
  /\ released \in [Sessions -> Nat]
  /\ pc \in [Actors -> SessionSteps \cup ClientSteps]
  /\ \A s \in Sessions : pc[s] \in SessionSteps
  /\ \A c \in Clients : pc[c] \in ClientSteps
  /\ todo \in [Actors -> SUBSET Clients] /\ list \in [Actors -> SUBSET Sessions]
  /\ target \in [Clients -> Sessions \cup {None}] /\ creating \in [Clients -> BOOLEAN]
  /\ conn \in [Clients -> {"new", "open", "broken", "gone"}]
  /\ listed \in [Clients -> [ids : SUBSET Sessions, current : BOOLEAN]]
  /\ active \in [Clients -> Sessions \cup {None}] /\ early \subseteq Clients

\* The life of a session.
Life(s) ==
  /\ s \in sessions <=> pc[s] = "watch"
  /\ pc[s] = "none" => proc[s] = "none"
  /\ pc[s] \in {"started", "watch"} => proc[s] # "none"
  /\ proc[s] = "none" => ~alarm[s] /\ ~grace[s]
  /\ exit[s] # "wait" => proc[s] = "gone"
  /\ pc[s] \in Ending => exit[s] = "closed"
  /\ pc[s] = "done" => proc[s] = "none" \/ exit[s] = "closed"
  /\ released[s] = IF pc[s] = "done" THEN 1 ELSE 0
LifeOK == \A s \in Sessions : Life(s)

\* What a connection is about to do to a session.
Aims(c) ==
  /\ pc[c] = "map" =>
       /\ creating[c] /\ target[c] \in Sessions /\ pc[target[c]] = "started"
       /\ \A d \in Clients \ {c} : pc[d] = "map" => target[d] # target[c]
  /\ pc[c] \in {"detach", "attach", "greet", "dead?"} =>
       /\ target[c] \in Sessions /\ proc[target[c]] # "none"
       /\ pc[target[c]] \notin {"none", "started"}
  /\ conn[c] = "new" => pc[c] = "read" /\ active[c] = None /\ ~listed[c].current
  /\ conn[c] = "open" => c \in clients
  /\ pc[c] \in {"forget", "done"} => conn[c] = "gone"
AimsOK == \A c \in Clients : Aims(c)

\* A page has a session on its screen that will still be told to it to have ended.
Told(c, s) == pc[s] \in {"watch", "audience"} \/ (pc[s] = "exit" /\ c \in todo[s])
Screen(c) ==
  conn[c] = "open" /\ c \notin early =>
    /\ active[c] # None => Told(c, active[c]) \/ (pc[c] = "dead?" /\ target[c] = active[c])
    /\ pc[c] \in {"detach", "attach", "greet"} /\ creating[c] => Told(c, target[c])
ScreenOK == \A c \in Clients : Screen(c)

\* a is going to write a list of sessions to c.
Owes(a, c) ==
  \/ pc[a] \in {"audience", "exit", "list", "clients"}
  \/ pc[a] = "send" /\ c \in todo[a]
  \/ a \in Clients /\ pc[a] \in {"detach", "attach", "greet"} /\ creating[a] /\ target[a] \in sessions
Lists(c) ==
  conn[c] = "open" /\ listed[c].current =>
    listed[c].ids = sessions \/ \E a \in Actors : Owes(a, c)
ListsOK == \A c \in Clients : Lists(c)

EndInv == EndTypes /\ LifeOK /\ AimsOK /\ ScreenOK /\ ListsOK

-----------------------------------------------------------------------------
(***************************************************************************)
(* What a step leaves as it was.                                           *)
(***************************************************************************)
LEMMA SessionsApart == \A s \in Sessions, c \in Clients : s # c /\ s \in Actors /\ c \in Actors /\ s # None
BY TerminalAssumption DEF TerminalAssumption, Actors

LEMMA KeepLife ==
  ASSUME LifeOK, UNCHANGED <<sessions, proc, exit, alarm, grace, released>>,
         \A s \in Sessions : pc'[s] = pc[s]
  PROVE  LifeOK'
BY DEF LifeOK, Life

LEMMA KeepAims ==
  ASSUME NEW d \in Clients, EndTypes, AimsOK,
         pc'[d] = pc[d], target'[d] = target[d], creating'[d] = creating[d], conn'[d] = conn[d],
         conn[d] = "open" => d \in clients',
         conn[d] = "new" => active'[d] = active[d] /\ listed'[d] = listed[d],
         \A s \in Sessions : proc[s] # "none" => proc'[s] # "none",
         \A s \in Sessions : pc[s] \notin {"none", "started"} => pc'[s] \notin {"none", "started"},
         pc[d] = "map" => /\ pc'[target[d]] = "started"
                          /\ \A e \in Clients \ {d} : pc'[e] = "map" => target'[e] # target[d]
  PROVE  Aims(d)'
<1>1. Aims(d)
  BY DEF AimsOK
<1>2. pc[d] = "map" => creating'[d] /\ target'[d] \in Sessions
  BY <1>1 DEF Aims
<1>3. pc[d] \in {"detach", "attach", "greet", "dead?"} =>
        /\ target'[d] \in Sessions /\ proc'[target'[d]] # "none"
        /\ pc'[target'[d]] \notin {"none", "started"}
  BY <1>1 DEF Aims
<1>4. conn[d] = "new" => pc'[d] = "read" /\ active'[d] = None /\ ~listed'[d].current
  BY <1>1 DEF Aims
<1>5. pc[d] \in {"forget", "done"} => conn'[d] = "gone"
  BY <1>1 DEF Aims
<1> QED
  BY <1>2, <1>3, <1>4, <1>5 DEF Aims

LEMMA KeepScreen ==
  ASSUME NEW d \in Clients, EndTypes, ScreenOK, AimsOK,
         conn'[d] = "open" => conn[d] = "open", early \subseteq early',
         \A s \in Sessions : conn[d] = "open" /\ Told(d, s) => Told(d, s)',
         active'[d] = active[d] \/ active'[d] = None,
         \/ pc'[d] = pc[d] /\ target'[d] = target[d] /\ creating'[d] = creating[d]
         \/ pc'[d] \notin {"detach", "attach", "greet"} /\ pc[d] # "dead?"
         \/ /\ pc[d] \in {"detach", "attach"} /\ pc'[d] \in {"attach", "greet"}
            /\ target'[d] = target[d] /\ creating'[d] = creating[d]
  PROVE  Screen(d)'
<1> SUFFICES ASSUME conn[d] = "open", d \notin early
             PROVE  /\ active'[d] # None => Told(d, active[d])' \/ (pc'[d] = "dead?" /\ target'[d] = active'[d])
                    /\ pc'[d] \in {"detach", "attach", "greet"} /\ creating'[d] => Told(d, target[d])'
  BY DEF Screen
<1>1. active[d] \in Sessions \cup {None}
  BY DEF EndTypes
<1>2. Screen(d) /\ Aims(d)
  BY DEF ScreenOK, AimsOK
<1> QED
  BY <1>1, <1>2 DEF Screen, Aims

LEMMA KeepLists ==
  ASSUME NEW d \in Clients, ListsOK, sessions' = sessions,
         conn'[d] = "open" => conn[d] = "open", listed'[d] = listed[d],
         \A a \in Actors : conn[d] = "open" /\ Owes(a, d) => Owes(a, d)'
  PROVE  Lists(d)'
BY DEF ListsOK, Lists

\* Steps of shells, alarms and kill, and steps that only move output.
LEMMA KeepPages ==
  ASSUME EndInv, UNCHANGED <<sessions, clients, pc, todo, target, creating, conn, listed, active, early>>,
         \A s \in Sessions : proc[s] # "none" => proc'[s] # "none"
  PROVE  AimsOK' /\ ScreenOK' /\ ListsOK'
<1> USE DEF EndInv
<1>1. ASSUME NEW d \in Clients PROVE Aims(d)'
  <2>1. conn[d] = "open" => d \in clients'
    BY DEF AimsOK, Aims
  <2>2. pc[d] = "map" => /\ pc'[target[d]] = "started"
                         /\ \A e \in Clients \ {d} : pc'[e] = "map" => target'[e] # target[d]
    BY DEF AimsOK, Aims
  <2> QED
    BY <2>1, <2>2, KeepAims
<1>2. ASSUME NEW d \in Clients PROVE Screen(d)'
  <2>1. \A s \in Sessions : Told(d, s) => Told(d, s)'
    BY DEF Told
  <2> QED
    BY <2>1, KeepScreen
<1>3. ASSUME NEW d \in Clients PROVE Lists(d)'
  <2>1. \A a \in Actors : Owes(a, d) => Owes(a, d)'
    BY DEF Owes
  <2> QED
    BY <2>1, KeepLists
<1> QED
  BY <1>1, <1>2, <1>3 DEF AimsOK, ScreenOK, ListsOK

LEMMA ShellEnds ==
  ASSUME EndInv, NEW s \in Sessions,
         \/ ShellExits(s) \/ WaitExit(s) \/ ClosePty(s) \/ AlarmRings(s) \/ GraceOver(s)
         \/ \E c \in Clients : Kill(c, s)
  PROVE  EndInv'
<1> USE DEF EndInv
<1>0. /\ proc \in [Sessions -> {"none", "up", "gone"}]
      /\ exit \in [Sessions -> {"wait", "close", "closed"}]
      /\ alarm \in [Sessions -> BOOLEAN] /\ grace \in [Sessions -> BOOLEAN]
  BY DEF EndTypes
<1>1. Life(s)
  BY DEF LifeOK
<1>a. UNCHANGED <<sessions, clients, pc, todo, list, target, creating, conn, listed, active, early, released>>
  <2>1. CASE ShellExits(s)
    BY <2>1 DEF ShellExits, manager, ending, actors, browser
  <2>2. CASE WaitExit(s)
    BY <2>2 DEF WaitExit, manager, ending, actors, browser
  <2>3. CASE ClosePty(s)
    BY <2>3 DEF ClosePty, manager, ending, actors, browser
  <2>4. CASE AlarmRings(s)
    BY <2>4 DEF AlarmRings, manager, ending, actors, browser
  <2>5. CASE GraceOver(s)
    BY <2>5 DEF GraceOver, manager, ending, actors, browser
  <2>6. CASE \E c \in Clients : Kill(c, s)
    BY <2>6 DEF Kill, manager, ending, actors, browser
  <2> QED
    BY <2>1, <2>2, <2>3, <2>4, <2>5, <2>6
<1>b. /\ \A t \in Sessions \ {s} : /\ proc'[t] = proc[t] /\ exit'[t] = exit[t]
                                   /\ alarm'[t] = alarm[t] /\ grace'[t] = grace[t]
      /\ proc' \in [Sessions -> {"none", "up", "gone"}]
      /\ exit' \in [Sessions -> {"wait", "close", "closed"}]
      /\ alarm' \in [Sessions -> BOOLEAN] /\ grace' \in [Sessions -> BOOLEAN]
      /\ proc[s] # "none" /\ proc'[s] # "none"
      /\ exit[s] # "wait" => proc'[s] = "gone" /\ exit'[s] # "wait"
      /\ exit'[s] # "wait" => proc'[s] = "gone"
      /\ exit[s] = "closed" => exit'[s] = "closed"
  <2>1. CASE ShellExits(s)
    <3>1. proc[s] = "up" /\ proc' = [proc EXCEPT ![s] = "gone"] /\ UNCHANGED <<exit, alarm, grace>>
      BY <2>1 DEF ShellExits, ending
    <3> QED
      BY <1>0, <1>1, <3>1 DEF Life
  <2>2. CASE WaitExit(s)
    <3>1. /\ proc[s] = "gone" /\ exit[s] = "wait" /\ exit' = [exit EXCEPT ![s] = "close"]
          /\ alarm' = [alarm EXCEPT ![s] = FALSE] /\ UNCHANGED <<proc, grace>>
      BY <2>2 DEF WaitExit, shells
    <3> QED
      BY <1>0, <1>1, <3>1 DEF Life
  <2>3. CASE ClosePty(s)
    <3>1. /\ exit[s] = "close" /\ exit' = [exit EXCEPT ![s] = "closed"]
          /\ grace' = [grace EXCEPT ![s] = FALSE] /\ UNCHANGED <<proc, alarm>>
      BY <2>3 DEF ClosePty, shells
    <3> QED
      BY <1>0, <1>1, <3>1 DEF Life
  <2>4. CASE AlarmRings(s)
    <3>1. /\ alarm[s] /\ alarm' = [alarm EXCEPT ![s] = FALSE]
          /\ grace' = [grace EXCEPT ![s] = grace[s] \/ ~(exit[s] # "wait")] /\ UNCHANGED <<proc, exit>>
      BY <2>4 DEF AlarmRings, shells, KillShell, Dead
    <3>2. (grace[s] \/ ~(exit[s] # "wait")) \in BOOLEAN
      OBVIOUS
    <3> QED
      BY <1>0, <1>1, <3>1, <3>2 DEF Life
  <2>5. CASE GraceOver(s)
    <3>1. /\ grace[s] /\ grace' = [grace EXCEPT ![s] = FALSE]
          /\ proc' = [proc EXCEPT ![s] = "gone"] /\ UNCHANGED <<alarm, exit>>
      BY <2>5 DEF GraceOver
    <3> QED
      BY <1>0, <1>1, <3>1 DEF Life
  <2>6. CASE \E c \in Clients : Kill(c, s)
    <3>1. /\ s \in sessions
          /\ grace' = [grace EXCEPT ![s] = grace[s] \/ ~(exit[s] # "wait")] /\ UNCHANGED <<proc, exit, alarm>>
      BY <2>6 DEF Kill, shells, KillShell, Dead
    <3>2. (grace[s] \/ ~(exit[s] # "wait")) \in BOOLEAN
      OBVIOUS
    <3> QED
      BY <1>0, <1>1, <3>1, <3>2 DEF Life
  <2> QED
    BY <2>1, <2>2, <2>3, <2>4, <2>5, <2>6
<1>2. EndTypes'
  BY <1>a, <1>b DEF EndTypes
<1>3. LifeOK'
  <2> SUFFICES ASSUME NEW t \in Sessions PROVE Life(t)'
    BY DEF LifeOK
  <2>1. CASE t = s
    BY <1>1, <1>a, <1>b, <2>1 DEF Life
  <2>2. CASE t # s
    BY <1>a, <1>b, <2>2 DEF LifeOK, Life
  <2> QED
    BY <2>1, <2>2
<1>4. \A t \in Sessions : proc[t] # "none" => proc'[t] # "none"
  BY <1>b
<1> QED
  BY <1>2, <1>3, <1>4, <1>a, KeepPages

LEMMA OutputEnds ==
  ASSUME EndInv,
         \/ \E s \in Sessions : Publish(s)
         \/ \E c \in Clients : WriteFrame(c)
         \/ \E c \in Clients : DetachRequest(c)
  PROVE  EndInv'
<1> USE DEF EndInv
<1>1. UNCHANGED <<sessions, clients, proc, exit, alarm, grace, released, pc, todo, list, target, creating,
                  conn, listed, active, early>>
  <2>1. CASE \E s \in Sessions : Publish(s)
    BY <2>1 DEF Publish, manager, ending, actors, browser
  <2>2. CASE \E c \in Clients : WriteFrame(c)
    BY <2>2 DEF WriteFrame, manager, shells, ending, actors, browser
  <2>3. CASE \E c \in Clients : DetachRequest(c)
    BY <2>3 DEF DetachRequest, manager, ending, browser
  <2> QED
    BY <2>1, <2>2, <2>3
<1>2. EndTypes' /\ LifeOK'
  BY <1>1, KeepLife DEF EndTypes
<1> QED
  BY <1>1, <1>2, KeepPages

LEMMA SendListFacts ==
  ASSUME EndTypes, NEW c \in Clients, NEW ids \in SUBSET Sessions, SendList(c, ids)
  PROVE  /\ UNCHANGED <<active, early>>
         /\ listed' \in [Clients -> [ids : SUBSET Sessions, current : BOOLEAN]]
         /\ \A d \in Clients \ {c} : listed'[d] = listed[d]
         /\ conn[c] # "open" => listed'[c] = listed[c]
         /\ conn[c] = "open" /\ listed'[c].current => listed'[c].ids = sessions
<1>1. listed \in [Clients -> [ids : SUBSET Sessions, current : BOOLEAN]]
  BY DEF EndTypes
<1>2. CASE conn[c] # "open"
  BY <1>1, <1>2 DEF SendList, browser
<1>3. CASE conn[c] = "open"
  <2>1. PICK b \in BOOLEAN : b <=> ids = sessions
    OBVIOUS
  <2>2. (ids = sessions) = b
    BY <2>1
  <2>3. listed' = [listed EXCEPT ![c] = [ids |-> ids, current |-> b]] /\ UNCHANGED <<active, early>>
    BY <1>3, <2>2 DEF SendList
  <2>4. /\ listed'[c] = [ids |-> ids, current |-> b]
        /\ \A d \in Clients \ {c} : listed'[d] = listed[d]
        /\ listed' \in [Clients -> [ids : SUBSET Sessions, current : BOOLEAN]]
    BY <1>1, <2>3
  <2> QED
    BY <1>3, <2>1, <2>3, <2>4
<1> QED
  BY <1>2, <1>3

LEMMA SendExitFacts ==
  ASSUME EndTypes, NEW c \in Clients, NEW s \in Sessions, SendExit(c, s)
  PROVE  /\ listed' = listed /\ early \subseteq early' /\ early' \subseteq Clients
         /\ active' \in [Clients -> Sessions \cup {None}]
         /\ \A d \in Clients \ {c} : active'[d] = active[d]
         /\ active'[c] = active[c] \/ active'[c] = None
         /\ conn[c] = "open" => /\ active'[c] # s
                                /\ creating[c] /\ target[c] = s /\ pc[c] \in {"detach", "attach", "greet"}
                                     => c \in early'
<1>1. active \in [Clients -> Sessions \cup {None}] /\ early \subseteq Clients
  BY DEF EndTypes
<1>2. CASE conn[c] # "open"
  BY <1>1, <1>2 DEF SendExit, browser
<1>3. CASE conn[c] = "open"
  BY <1>1, <1>3, TerminalAssumption DEF SendExit, TerminalAssumption
<1> QED
  BY <1>2, <1>3

\* A list of sessions on its way to every connection.
LEMMA BroadcastEnds ==
  ASSUME EndInv, NEW a \in Actors, Broadcast(a)
  PROVE  EndInv'
<1> USE DEF EndInv
<1>0. /\ UNCHANGED <<sessions, clients, proc, exit, alarm, grace, released, target, creating, conn, active, early>>
      /\ \A b \in Actors \ {a} : pc'[b] = pc[b] /\ todo'[b] = todo[b]
      /\ pc' \in [Actors -> SessionSteps \cup ClientSteps]
      /\ todo' \in [Actors -> SUBSET Clients] /\ list' \in [Actors -> SUBSET Sessions]
      /\ listed' \in [Clients -> [ids : SUBSET Sessions, current : BOOLEAN]]
      /\ pc[a] \in {"list", "clients", "send"}
      /\ pc'[a] \in {"clients", "send", AfterList(a)}
      /\ \A d \in Clients : conn[d] # "open" => listed'[d] = listed[d]
      /\ \A d \in Clients : conn[d] = "open" /\ Owes(a, d) /\ ~Owes(a, d)' /\ listed'[d].current
                              => listed'[d].ids = sessions
      /\ \A d \in Clients : listed'[d] = listed[d] \/ (listed'[d].current => listed'[d].ids = sessions)
  <2>0. /\ pc \in [Actors -> SessionSteps \cup ClientSteps]
        /\ todo \in [Actors -> SUBSET Clients] /\ list \in [Actors -> SUBSET Sessions]
        /\ sessions \subseteq Sessions /\ clients \subseteq Clients
        /\ listed \in [Clients -> [ids : SUBSET Sessions, current : BOOLEAN]]
        /\ AfterList(a) \in {"release", "read"}
    BY DEF EndTypes, AfterList
  <2>1. CASE TakeList(a)
    <3>1. /\ pc[a] = "list" /\ pc' = [pc EXCEPT ![a] = "clients"] /\ list' = [list EXCEPT ![a] = sessions]
          /\ UNCHANGED <<sessions, clients, proc, exit, alarm, grace, released, target, creating, conn, active,
                         early, todo, listed>>
      BY <2>1 DEF TakeList, Goto, manager, shells, ending, browser
    <3>2. pc'[a] = "clients"
      BY <2>0, <3>1
    <3>3. \A d \in Clients : Owes(a, d)'
      BY <3>2 DEF Owes
    <3>4. pc' \in [Actors -> SessionSteps \cup ClientSteps]
      BY <2>0, <3>1 DEF SessionSteps
    <3> QED
      BY <2>0, <3>1, <3>2, <3>3, <3>4
  <2>2. CASE TakeClients(a)
    <3>1. /\ pc[a] = "clients" /\ pc' = [pc EXCEPT ![a] = IF clients = {} THEN AfterList(a) ELSE "send"]
          /\ todo' = [todo EXCEPT ![a] = clients]
          /\ UNCHANGED <<sessions, clients, proc, exit, alarm, grace, released, target, creating, conn, active,
                         early, list, listed>>
      BY <2>2 DEF TakeClients, Goto, manager, shells, ending, browser
    <3>2. pc'[a] = (IF clients = {} THEN AfterList(a) ELSE "send") /\ todo'[a] = clients
      BY <2>0, <3>1
    <3>3. \A d \in Clients : conn[d] = "open" => Owes(a, d)'
      BY <3>2 DEF Owes, AimsOK, Aims
    <3>4. pc' \in [Actors -> SessionSteps \cup ClientSteps]
      BY <2>0, <3>1 DEF SessionSteps, ClientSteps
    <3> QED
      BY <2>0, <3>1, <3>2, <3>3, <3>4
  <2>3. CASE SendToOne(a)
    <3>1. PICK c \in todo[a] : todo' = [todo EXCEPT ![a] = @ \ {c}] /\ SendList(c, list[a])
      BY <2>3 DEF SendToOne
    <3>2. /\ pc[a] = "send"
          /\ IF todo'[a] = {}
             THEN pc' = [pc EXCEPT ![a] = AfterList(a)] /\ list' = [list EXCEPT ![a] = {}]
             ELSE UNCHANGED <<pc, list>>
          /\ UNCHANGED <<sessions, clients, proc, exit, alarm, grace, released, target, creating, conn>>
      BY <2>3 DEF SendToOne, Goto, manager, shells, ending
    <3>3. c \in Clients /\ list[a] \in SUBSET Sessions
      BY <2>0, <3>1
    <3>4. /\ UNCHANGED <<active, early>>
          /\ listed' \in [Clients -> [ids : SUBSET Sessions, current : BOOLEAN]]
          /\ \A d \in Clients \ {c} : listed'[d] = listed[d]
          /\ conn[c] # "open" => listed'[c] = listed[c]
          /\ conn[c] = "open" /\ listed'[c].current => listed'[c].ids = sessions
      BY <3>1, <3>3, SendListFacts
    <3>5. todo'[a] = todo[a] \ {c} /\ todo' \in [Actors -> SUBSET Clients]
          /\ \A b \in Actors \ {a} : todo'[b] = todo[b]
      BY <2>0, <3>1
    <3>6. /\ pc' \in [Actors -> SessionSteps \cup ClientSteps] /\ list' \in [Actors -> SUBSET Sessions]
          /\ \A b \in Actors \ {a} : pc'[b] = pc[b]
          /\ pc'[a] \in {"send", AfterList(a)} /\ (pc'[a] # "send" => todo'[a] = {})
      BY <2>0, <3>2 DEF SessionSteps, ClientSteps
    <3>7. ASSUME NEW d \in Clients \ {c}, Owes(a, d) PROVE Owes(a, d)'
      BY <3>2, <3>5, <3>6, <3>7 DEF Owes
    <3> QED
      BY <3>2, <3>4, <3>5, <3>6, <3>7
  <2> QED
    BY <2>1, <2>2, <2>3 DEF Broadcast
<1>1. \A s \in Sessions : pc[s] \in SessionSteps /\ pc'[s] \in SessionSteps
  <2> TAKE s \in Sessions
  <2>1. s \in Actors /\ pc[s] \in SessionSteps
    BY DEF EndTypes, Actors
  <2> QED
    BY <1>0, <2>1 DEF SessionSteps, AfterList
<1>2. \A c \in Clients : pc[c] \in ClientSteps /\ pc'[c] \in ClientSteps
  <2> TAKE c \in Clients
  <2>1. c \in Actors /\ c \notin Sessions /\ pc[c] \in ClientSteps
    BY SessionsApart DEF EndTypes, Actors
  <2> QED
    BY <1>0, <2>1 DEF ClientSteps, AfterList
<1>3. EndTypes'
  BY <1>0, <1>1, <1>2 DEF EndTypes
<1>4. LifeOK'
  <2> SUFFICES ASSUME NEW s \in Sessions PROVE Life(s)'
    BY DEF LifeOK
  <2>1. Life(s) /\ s \in Actors
    BY DEF LifeOK, Actors
  <2>2. CASE s # a
    <3>1. pc'[s] = pc[s]
      BY <1>0, <2>1, <2>2
    <3> QED
      BY <1>0, <2>1, <3>1 DEF Life
  <2>3. CASE s = a
    <3>1. pc[s] \in {"list", "clients", "send"} /\ pc'[s] \in {"clients", "send", "release"}
      BY <1>0, <2>3 DEF AfterList
    <3> QED
      BY <1>0, <2>1, <3>1 DEF Life, Ending
  <2> QED
    BY <2>2, <2>3
<1>5. /\ \A s \in Sessions : pc[s] \in {"none", "started", "watch", "audience", "exit"} <=> pc'[s] \in {"none", "started", "watch", "audience", "exit"}
      /\ \A s \in Sessions : pc[s] \in {"none", "started", "watch", "audience", "exit"} => pc'[s] = pc[s] /\ todo'[s] = todo[s]
  <2> SUFFICES ASSUME NEW s \in Sessions
               PROVE  \/ pc'[s] = pc[s] /\ todo'[s] = todo[s]
                      \/ /\ pc[s] \notin {"none", "started", "watch", "audience", "exit"}
                         /\ pc'[s] \notin {"none", "started", "watch", "audience", "exit"}
    OBVIOUS
  <2> QED
    BY <1>0 DEF AfterList, Actors
<1>6. ASSUME NEW d \in Clients PROVE Aims(d)' /\ Screen(d)' /\ Lists(d)'
  <2>0. d \in Actors /\ d \notin Sessions /\ Aims(d)
    BY SessionsApart DEF Actors, AimsOK
  <2>a. target'[d] = target[d] /\ creating'[d] = creating[d] /\ conn'[d] = conn[d] /\ active'[d] = active[d]
        /\ early \subseteq early' /\ proc' = proc
    BY <1>0
  <2>b. \A s \in Sessions : Told(d, s) => Told(d, s)'
    BY <1>5 DEF Told
  <2>c. /\ conn[d] = "open" => d \in clients'
        /\ conn[d] = "new" => listed'[d] = listed[d]
    BY <1>0, <2>0 DEF Aims
  <2>1. Aims(d)' /\ Screen(d)'
    <3>1. CASE d # a
      <4>1. pc'[d] = pc[d]
        BY <1>0, <2>0, <3>1
      <4>2. pc[d] = "map" => /\ pc'[target[d]] = "started"
                             /\ \A e \in Clients \ {d} : pc'[e] = "map" => target'[e] # target[d]
        <5>1. pc[d] = "map" => target[d] \in Sessions /\ pc[target[d]] = "started"
                               /\ \A e \in Clients \ {d} : pc[e] = "map" => target[e] # target[d]
          BY <2>0 DEF Aims
        <5>2. \A e \in Clients : pc'[e] = "map" => pc[e] = "map"
          BY <1>0 DEF AfterList, Actors
        <5> QED
          BY <1>0, <1>5, <5>1, <5>2
      <4>3. Aims(d)'
        BY <1>5, <2>a, <2>c, <4>1, <4>2, KeepAims
      <4>4. Screen(d)'
        BY <2>a, <2>b, <4>1, KeepScreen
      <4> QED
        BY <4>3, <4>4
    <3>2. CASE d = a
      <4>1. pc[d] \in {"list", "clients", "send"} /\ pc'[d] \in {"clients", "send", "read"}
        BY <1>0, <2>0, <3>2 DEF AfterList
      <4>2. Aims(d)'
        BY <2>0, <2>a, <2>c, <4>1 DEF Aims
      <4>3. Screen(d)'
        BY <2>a, <2>b, <4>1, KeepScreen
      <4> QED
        BY <4>2, <4>3
    <3> QED
      BY <3>1, <3>2
  <2>2. Lists(d)'
    <3> SUFFICES ASSUME conn[d] = "open", listed'[d].current
                 PROVE  listed'[d].ids = sessions \/ \E b \in Actors : Owes(b, d)'
      BY <1>0 DEF Lists
    <3>1. \A b \in Actors \ {a} : Owes(b, d) => Owes(b, d)'
      BY <1>0 DEF Owes
    <3>2. CASE listed'[d] = listed[d]
      <4>1. listed[d].ids = sessions \/ \E b \in Actors : Owes(b, d)
        BY <3>2 DEF ListsOK, Lists
      <4>2. Owes(a, d) /\ ~Owes(a, d)' => listed'[d].ids = sessions
        BY <1>0
      <4> QED
        BY <3>1, <3>2, <4>1, <4>2
    <3>3. CASE listed'[d] # listed[d]
      BY <1>0, <3>3
    <3> QED
      BY <3>2, <3>3
  <2> QED
    BY <2>1, <2>2
<1> QED
  BY <1>3, <1>4, <1>6 DEF AimsOK, ScreenOK, ListsOK

\* watchExit: no step of it touches a connection, but that a page is told.
LEMMA WatchEnds ==
  ASSUME EndInv, NEW s \in Sessions,
         \/ WatchRemove(s) \/ WatchAudience(s) \/ WatchTell(s) \/ WatchRelease(s)
  PROVE  EndInv'
<1> USE DEF EndInv
<1>0. /\ pc \in [Actors -> SessionSteps \cup ClientSteps]
      /\ todo \in [Actors -> SUBSET Clients] /\ released \in [Sessions -> Nat]
      /\ sessions \subseteq Sessions /\ clients \subseteq Clients
      /\ \A t \in Sessions : pc[t] \in SessionSteps
      /\ \A c \in Clients : pc[c] \in ClientSteps
      /\ s \in Actors /\ \A c \in Clients : c # s /\ c \in Actors
      /\ \A t \in Sessions : t \in Actors
  BY SessionsApart DEF EndTypes, Actors
<1>1. Life(s)
  BY DEF LifeOK
<1>a. ASSUME UNCHANGED <<proc, exit, alarm, grace, target, creating, conn>>, clients' = clients,
             NEW step \in SessionSteps, step \notin {"none", "started", "watch"},
             pc[s] \in SessionSteps \ {"none", "started"}, pc' = [pc EXCEPT ![s] = step],
             listed' = listed, \A d \in Clients : active'[d] = active[d] \/ active'[d] = None
      PROVE  /\ AimsOK' /\ \A a \in Actors \ {s} : pc'[a] = pc[a]
             /\ pc' \in [Actors -> SessionSteps \cup ClientSteps] /\ pc'[s] = step
             /\ \A t \in Sessions : pc'[t] \in SessionSteps
             /\ \A c \in Clients : pc'[c] = pc[c] /\ pc'[c] \in ClientSteps
  <2>1. /\ \A a \in Actors \ {s} : pc'[a] = pc[a]
        /\ pc' \in [Actors -> SessionSteps \cup ClientSteps] /\ pc'[s] = step
    BY <1>0, <1>a
  <2>2. /\ \A t \in Sessions : pc'[t] \in SessionSteps
        /\ \A c \in Clients : pc'[c] = pc[c] /\ pc'[c] \in ClientSteps
    BY <1>0, <1>a, <2>1
  <2>3. ASSUME NEW d \in Clients PROVE Aims(d)'
    <3>0. Aims(d)
      BY DEF AimsOK
    <3>1. /\ conn[d] = "open" => d \in clients'
          /\ conn[d] = "new" => active'[d] = active[d] /\ listed'[d] = listed[d]
      BY <1>a, <3>0 DEF Aims
    <3>2. \A t \in Sessions : pc[t] \notin {"none", "started"} => pc'[t] \notin {"none", "started"}
      BY <1>0, <1>a, <2>1
    <3>3. pc[d] = "map" => /\ pc'[target[d]] = "started"
                           /\ \A e \in Clients \ {d} : pc'[e] = "map" => target'[e] # target[d]
      <4>1. pc[d] = "map" => target[d] \in Sessions /\ pc[target[d]] = "started"
                             /\ \A e \in Clients \ {d} : pc[e] = "map" => target[e] # target[d]
        BY <3>0 DEF Aims
      <4> QED
        BY <1>0, <1>a, <2>1, <2>2, <4>1
    <3> QED
      BY <1>a, <2>2, <3>1, <3>2, <3>3, KeepAims
  <2> QED
    BY <2>1, <2>2, <2>3 DEF AimsOK
<1>2. CASE WatchRemove(s)
  <2>1. /\ pc[s] = "watch" /\ exit[s] = "closed" /\ sessions' = sessions \ {s}
        /\ pc' = [pc EXCEPT ![s] = "audience"]
        /\ UNCHANGED <<clients, proc, exit, alarm, grace, released, todo, list, target, creating, conn,
                       listed, active, early>>
    BY <1>2 DEF WatchRemove, RemoveDead, Dead, Goto, shells, ending, browser
  <2>2. /\ AimsOK' /\ \A a \in Actors \ {s} : pc'[a] = pc[a]
        /\ pc' \in [Actors -> SessionSteps \cup ClientSteps] /\ pc'[s] = "audience"
        /\ \A t \in Sessions : pc'[t] \in SessionSteps
        /\ \A c \in Clients : pc'[c] = pc[c] /\ pc'[c] \in ClientSteps
    BY <1>a, <2>1 DEF SessionSteps
  <2>3. EndTypes'
    BY <2>1, <2>2 DEF EndTypes
  <2>4. LifeOK'
    <3> SUFFICES ASSUME NEW t \in Sessions PROVE Life(t)'
      BY DEF LifeOK
    <3>1. CASE t = s
      BY <1>1, <2>1, <2>2, <3>1 DEF Life, Ending
    <3>2. CASE t # s
      BY <1>0, <2>1, <2>2, <3>2 DEF LifeOK, Life
    <3> QED
      BY <3>1, <3>2
  <2>5. ASSUME NEW d \in Clients PROVE Screen(d)'
    <3>1. \A t \in Sessions : Told(d, t) => Told(d, t)'
      BY <1>0, <2>1, <2>2 DEF Told
    <3> QED
      BY <2>1, <2>2, <3>1, KeepScreen
  <2>6. ASSUME NEW d \in Clients PROVE Lists(d)'
    <3>1. Owes(s, d)'
      BY <2>2 DEF Owes
    <3> QED
      BY <1>0, <3>1 DEF Lists
  <2> QED
    BY <2>2, <2>3, <2>4, <2>5, <2>6 DEF ScreenOK, ListsOK
<1>3. CASE WatchAudience(s)
  <2>0. PICK step \in {"list", "exit"} : step = IF clients = {} THEN "list" ELSE "exit"
    OBVIOUS
  <2>1. /\ pc[s] = "audience" /\ pc' = [pc EXCEPT ![s] = step]
        /\ todo' = [todo EXCEPT ![s] = clients]
        /\ UNCHANGED <<sessions, clients, proc, exit, alarm, grace, released, list, target, creating, conn,
                       listed, active, early>>
    BY <1>3, <2>0 DEF WatchAudience, AfterExit, Goto, manager, shells, ending, browser
  <2>2. /\ AimsOK' /\ \A a \in Actors \ {s} : pc'[a] = pc[a]
        /\ pc' \in [Actors -> SessionSteps \cup ClientSteps] /\ pc'[s] = step
        /\ \A t \in Sessions : pc'[t] \in SessionSteps
        /\ \A c \in Clients : pc'[c] = pc[c] /\ pc'[c] \in ClientSteps
    BY <1>a, <2>1 DEF SessionSteps
  <2>3. todo' \in [Actors -> SUBSET Clients] /\ todo'[s] = clients /\ \A a \in Actors \ {s} : todo'[a] = todo[a]
    BY <1>0, <2>1
  <2>4. EndTypes'
    BY <2>1, <2>2, <2>3 DEF EndTypes
  <2>5. LifeOK'
    <3> SUFFICES ASSUME NEW t \in Sessions PROVE Life(t)'
      BY DEF LifeOK
    <3>1. CASE t = s
      BY <1>1, <2>1, <2>2, <3>1 DEF Life, Ending
    <3>2. CASE t # s
      BY <1>0, <2>1, <2>2, <3>2 DEF LifeOK, Life
    <3> QED
      BY <3>1, <3>2
  <2>6. \A d \in Clients : conn[d] = "open" => clients # {} /\ d \in clients
    BY DEF AimsOK, Aims
  <2>7. ASSUME NEW d \in Clients PROVE Screen(d)'
    <3>1. \A t \in Sessions : conn[d] = "open" /\ Told(d, t) => Told(d, t)'
      BY <1>0, <2>0, <2>1, <2>2, <2>3, <2>6 DEF Told
    <3> QED
      BY <2>1, <2>2, <3>1, KeepScreen
  <2>8. ASSUME NEW d \in Clients PROVE Lists(d)'
    <3>1. Owes(s, d)'
      BY <2>2 DEF Owes
    <3> QED
      BY <1>0, <3>1 DEF Lists
  <2> QED
    BY <2>2, <2>4, <2>5, <2>7, <2>8 DEF ScreenOK, ListsOK
<1>4. CASE WatchTell(s)
  <2>0. PICK c \in todo[s] : todo' = [todo EXCEPT ![s] = @ \ {c}] /\ SendExit(c, s)
    BY <1>4 DEF WatchTell
  <2>a. c \in Clients
    BY <1>0, <2>0
  <2>b. PICK step \in {"list", "exit"} : step = IF todo'[s] = {} THEN "list" ELSE "exit"
    OBVIOUS
  <2>1. /\ pc[s] = "exit" /\ pc' = [pc EXCEPT ![s] = step]
        /\ UNCHANGED <<sessions, clients, proc, exit, alarm, grace, released, list, target, creating, conn>>
    <3>1. pc[s] = "exit" /\ (IF todo'[s] = {} THEN pc' = [pc EXCEPT ![s] = "list"] ELSE pc' = pc)
      BY <1>4 DEF WatchTell, AfterExit, Goto
    <3>2. pc' = [pc EXCEPT ![s] = step]
      BY <1>0, <2>b, <3>1
    <3> QED
      BY <1>4, <3>1, <3>2 DEF WatchTell, manager, shells, ending
  <2>c. /\ listed' = listed /\ early \subseteq early' /\ early' \subseteq Clients
        /\ active' \in [Clients -> Sessions \cup {None}]
        /\ \A d \in Clients \ {c} : active'[d] = active[d]
        /\ active'[c] = active[c] \/ active'[c] = None
        /\ conn[c] = "open" => /\ active'[c] # s
                               /\ creating[c] /\ target[c] = s /\ pc[c] \in {"detach", "attach", "greet"}
                                    => c \in early'
    BY <2>0, <2>a, SendExitFacts
  <2>2. /\ AimsOK' /\ \A a \in Actors \ {s} : pc'[a] = pc[a]
        /\ pc' \in [Actors -> SessionSteps \cup ClientSteps] /\ pc'[s] = step
        /\ \A t \in Sessions : pc'[t] \in SessionSteps
        /\ \A d \in Clients : pc'[d] = pc[d] /\ pc'[d] \in ClientSteps
    BY <1>a, <2>1, <2>c DEF SessionSteps
  <2>3. todo' \in [Actors -> SUBSET Clients] /\ todo'[s] = todo[s] \ {c} /\ \A a \in Actors \ {s} : todo'[a] = todo[a]
    BY <1>0, <2>0
  <2>4. EndTypes'
    BY <2>1, <2>2, <2>3, <2>c DEF EndTypes
  <2>5. LifeOK'
    <3> SUFFICES ASSUME NEW t \in Sessions PROVE Life(t)'
      BY DEF LifeOK
    <3>1. CASE t = s
      BY <1>1, <2>1, <2>2, <3>1 DEF Life, Ending
    <3>2. CASE t # s
      BY <1>0, <2>1, <2>2, <3>2 DEF LifeOK, Life
    <3> QED
      BY <3>1, <3>2
  <2>6. ASSUME NEW d \in Clients PROVE Screen(d)'
    <3>1. \A t \in Sessions : Told(d, t) /\ (d # c \/ t # s) => Told(d, t)'
      BY <1>0, <2>1, <2>2, <2>3, <2>b DEF Told
    <3>2. CASE d # c
      BY <2>1, <2>2, <2>c, <3>1, <3>2, KeepScreen
    <3>3. CASE d = c
      <4> SUFFICES ASSUME conn[c] = "open", c \notin early'
                   PROVE  /\ active'[c] # None => Told(c, active[c])' \/ (pc'[c] = "dead?" /\ target'[c] = active'[c])
                          /\ pc'[c] \in {"detach", "attach", "greet"} /\ creating'[c] => Told(c, target[c])'
        BY <2>1, <3>3 DEF Screen
      <4>1. c \notin early /\ active'[c] # s /\ active'[c] \in {active[c], None}
            /\ active[c] \in Sessions \cup {None}
        BY <2>a, <2>c DEF EndTypes
      <4>2. /\ active[c] # None => Told(c, active[c]) \/ (pc[c] = "dead?" /\ target[c] = active[c])
            /\ pc[c] \in {"detach", "attach", "greet"} /\ creating[c] => Told(c, target[c]) /\ target[c] \in Sessions
        BY <2>a, <4>1 DEF ScreenOK, Screen, AimsOK, Aims
      <4>3. pc[c] \in {"detach", "attach", "greet"} /\ creating[c] => target[c] # s
        BY <2>c
      <4>4. pc'[c] = pc[c] /\ target'[c] = target[c] /\ creating'[c] = creating[c]
        BY <2>1, <2>2, <2>a
      <4> QED
        BY <3>1, <3>3, <4>1, <4>2, <4>3, <4>4
    <3> QED
      BY <3>2, <3>3
  <2>7. ASSUME NEW d \in Clients PROVE Lists(d)'
    <3>1. Owes(s, d)'
      BY <2>2 DEF Owes
    <3> QED
      BY <1>0, <3>1 DEF Lists
  <2> QED
    BY <2>2, <2>4, <2>5, <2>6, <2>7 DEF ScreenOK, ListsOK
<1>5. CASE WatchRelease(s)
  <2>1. /\ pc[s] = "release" /\ pc' = [pc EXCEPT ![s] = "done"]
        /\ released' = [released EXCEPT ![s] = @ + 1]
        /\ UNCHANGED <<sessions, clients, proc, exit, alarm, grace, todo, list, target, creating, conn,
                       listed, active, early>>
    BY <1>5 DEF WatchRelease, Release, Goto, manager, shells, browser
  <2>2. /\ AimsOK' /\ \A a \in Actors \ {s} : pc'[a] = pc[a]
        /\ pc' \in [Actors -> SessionSteps \cup ClientSteps] /\ pc'[s] = "done"
        /\ \A t \in Sessions : pc'[t] \in SessionSteps
        /\ \A c \in Clients : pc'[c] = pc[c] /\ pc'[c] \in ClientSteps
    BY <1>a, <2>1 DEF SessionSteps
  <2>3. released[s] = 0 /\ released' \in [Sessions -> Nat] /\ released'[s] = 1
        /\ \A t \in Sessions \ {s} : released'[t] = released[t]
    BY <1>0, <1>1, <2>1 DEF Life
  <2>4. EndTypes'
    BY <2>1, <2>2, <2>3 DEF EndTypes
  <2>5. LifeOK'
    <3> SUFFICES ASSUME NEW t \in Sessions PROVE Life(t)'
      BY DEF LifeOK
    <3>1. CASE t = s
      BY <1>1, <2>1, <2>2, <2>3, <3>1 DEF Life, Ending
    <3>2. CASE t # s
      BY <1>0, <2>1, <2>2, <2>3, <3>2 DEF LifeOK, Life
    <3> QED
      BY <3>1, <3>2
  <2>6. ASSUME NEW d \in Clients PROVE Screen(d)'
    <3>1. \A t \in Sessions : Told(d, t) => Told(d, t)'
      BY <1>0, <2>1, <2>2 DEF Told
    <3> QED
      BY <2>1, <2>2, <3>1, KeepScreen
  <2>7. ASSUME NEW d \in Clients PROVE Lists(d)'
    <3>1. \A a \in Actors : Owes(a, d) => Owes(a, d)'
      BY <1>0, <2>1, <2>2 DEF Owes
    <3> QED
      BY <2>1, <3>1, KeepLists
  <2> QED
    BY <2>2, <2>4, <2>5, <2>6, <2>7 DEF ScreenOK, ListsOK
<1> QED
  BY <1>2, <1>3, <1>4, <1>5

(***************************************************************************)
(* Connections.                                                            *)
(***************************************************************************)
\* A step of connection c on its way from a request to the answer, that leaves the
\* sessions, their ends and the pages alone.
LEMMA HandlerEnds ==
  ASSUME EndInv, NEW c \in Clients, NEW step \in ClientSteps, pc' = [pc EXCEPT ![c] = step],
         UNCHANGED <<sessions, clients, proc, exit, alarm, grace, released, todo, list, listed, active, early, conn>>,
         target' \in [Clients -> Sessions \cup {None}], creating' \in [Clients -> BOOLEAN],
         \A d \in Clients \ {c} : target'[d] = target[d] /\ creating'[d] = creating[d],
         conn[c] # "new" /\ pc[c] \notin {"forget", "done"},
         \A d \in Clients : Owes(c, d) => Owes(c, d)',
         \/ step \in {"read", "list"} /\ pc[c] # "dead?"
         \/ step = "detach" /\ pc[c] = "read" /\ ~creating'[c] /\ target'[c] \in sessions
         \/ /\ (pc[c] = "detach" /\ step = "attach") \/ (pc[c] = "attach" /\ step = "greet")
            /\ target'[c] = target[c] /\ creating'[c] = creating[c]
  PROVE  EndInv'
<1> USE DEF EndInv
<1>0. /\ pc \in [Actors -> SessionSteps \cup ClientSteps] /\ c \in Actors
      /\ sessions \subseteq Sessions
      /\ \A t \in Sessions : pc[t] \in SessionSteps /\ t # c /\ t \in Actors
      /\ \A d \in Clients : pc[d] \in ClientSteps /\ d \in Actors
  BY SessionsApart DEF EndTypes, Actors
<1>1. /\ pc' \in [Actors -> SessionSteps \cup ClientSteps] /\ pc'[c] = step
      /\ \A a \in Actors \ {c} : pc'[a] = pc[a]
  BY <1>0
<1>2. \A t \in Sessions : pc'[t] = pc[t]
  BY <1>0, <1>1
<1>3. EndTypes'
  <2>1. \A d \in Clients : pc'[d] \in ClientSteps
    BY <1>0, <1>1
  <2> QED
    BY <1>0, <1>1, <1>2, <2>1 DEF EndTypes
<1>4. LifeOK'
  BY <1>2, KeepLife
<1>5. ASSUME NEW d \in Clients PROVE Aims(d)'
  <2>0. Aims(d)
    BY DEF AimsOK
  <2>1. CASE d # c
    <3>1. pc'[d] = pc[d]
      BY <1>0, <1>1, <2>1
    <3>2. pc[d] = "map" => /\ pc'[target[d]] = "started"
                           /\ \A e \in Clients \ {d} : pc'[e] = "map" => target'[e] # target[d]
      <4>1. pc[d] = "map" => target[d] \in Sessions /\ pc[target[d]] = "started"
                             /\ \A e \in Clients \ {d} : pc[e] = "map" => target[e] # target[d]
        BY <2>0 DEF Aims
      <4>2. pc'[c] # "map"
        BY <1>1
      <4>3. \A e \in Clients : pc'[e] = "map" => e # c /\ pc[e] = "map" /\ target'[e] = target[e]
        BY <1>0, <1>1, <4>2
      <4> QED
        BY <1>2, <4>1, <4>3
    <3>3. conn[d] = "open" => d \in clients'
      BY <2>0 DEF Aims
    <3> QED
      BY <1>2, <2>1, <3>1, <3>2, <3>3, KeepAims
  <2>2. CASE d = c
    <3>1. /\ conn[c] = "open" => c \in clients
          /\ pc'[c] \notin {"map", "forget", "done", "dead?"}
      BY <1>1, <2>0, <2>2 DEF Aims
    <3>2. pc'[c] \in {"detach", "attach", "greet", "dead?"} =>
            /\ target'[c] \in Sessions /\ proc[target'[c]] # "none"
            /\ pc[target'[c]] \notin {"none", "started"}
      <4>1. CASE step = "detach" /\ target'[c] \in sessions
        BY <1>0, <4>1 DEF LifeOK, Life
      <4>2. CASE step \notin {"detach", "attach", "greet", "dead?"}
        BY <1>1, <4>2
      <4>3. CASE pc[c] \in {"detach", "attach"} /\ target'[c] = target[c]
        BY <2>0, <2>2, <4>3 DEF Aims
      <4> QED
        BY <4>1, <4>2, <4>3
    <3> QED
      BY <1>2, <2>2, <3>1, <3>2 DEF Aims
  <2> QED
    BY <2>1, <2>2
<1>6. ASSUME NEW d \in Clients PROVE Screen(d)'
  <2>1. \A t \in Sessions : Told(d, t) => Told(d, t)'
    BY <1>2 DEF Told
  <2>2. CASE d # c
    <3>1. pc'[d] = pc[d]
      BY <1>0, <1>1, <2>2
    <3> QED
      BY <2>1, <2>2, <3>1, KeepScreen
  <2>3. CASE d = c /\ ~(step = "detach" /\ pc[c] = "read")
    BY <1>1, <2>1, <2>3, KeepScreen
  <2>4. CASE d = c /\ step = "detach" /\ pc[c] = "read"
    <3>1. conn[c] = "open" /\ c \notin early /\ active[c] # None => Told(c, active[c]) /\ active[c] \in Sessions
      BY <2>4 DEF ScreenOK, Screen, EndTypes
    <3>2. ~creating'[c]
      BY <2>4
    <3> QED
      BY <2>1, <2>4, <3>1, <3>2 DEF Screen
  <2> QED
    BY <2>2, <2>3, <2>4
<1>7. ASSUME NEW d \in Clients PROVE Lists(d)'
  <2>1. \A a \in Actors : Owes(a, d) => Owes(a, d)'
    <3> TAKE a \in Actors
    <3>1. CASE a # c
      BY <1>1, <3>1 DEF Owes
    <3> QED
      BY <3>1
  <2> QED
    BY <2>1, KeepLists
<1> QED
  BY <1>3, <1>4, <1>5, <1>6, <1>7 DEF AimsOK, ScreenOK, ListsOK

\* Requests and the way to a session, but for the ends.
LEMMA RequestEnds ==
  ASSUME EndInv, NEW c \in Clients,
         \/ DetachOld(c) \/ Attach(c) \/ AttachLate(c)
         \/ \E s \in Sessions : AttachGet(c, s) \/ AttachUnknown(c, s)
  PROVE  EndInv'
<1> USE DEF EndInv
<1>0. /\ target \in [Clients -> Sessions \cup {None}] /\ creating \in [Clients -> BOOLEAN]
      /\ sessions \subseteq Sessions /\ c \in Actors /\ Aims(c)
      /\ pc \in [Actors -> SessionSteps \cup ClientSteps] /\ pc[c] \in ClientSteps
  BY DEF EndTypes, AimsOK, Actors
<1>1. CASE DetachOld(c)
  <2>1. /\ pc[c] = "detach" /\ pc' = [pc EXCEPT ![c] = "attach"]
        /\ UNCHANGED <<sessions, clients, proc, exit, alarm, grace, released, todo, list, listed, active, early,
                       conn, target, creating>>
    BY <1>1 DEF DetachOld, Goto, manager, ending, browser
  <2>2. \A d \in Clients : Owes(c, d) => Owes(c, d)'
    <3>1. pc'[c] = "attach"
      BY <1>0, <2>1
    <3> QED
      BY <2>1, <3>1 DEF Owes
  <2>3. conn[c] # "new" /\ "attach" \in ClientSteps
    BY <1>0, <2>1 DEF Aims, ClientSteps
  <2> QED
    BY <1>0, <2>1, <2>2, <2>3, HandlerEnds
<1>2. CASE Attach(c)
  <2>1. /\ pc[c] = "attach" /\ pc' = [pc EXCEPT ![c] = "greet"]
        /\ UNCHANGED <<sessions, clients, proc, exit, alarm, grace, released, todo, list, listed, active, early,
                       conn, target, creating>>
    BY <1>2 DEF Attach, Goto, manager, ending, browser
  <2>2. \A d \in Clients : Owes(c, d) => Owes(c, d)'
    <3>1. pc'[c] = "greet"
      BY <1>0, <2>1
    <3> QED
      BY <2>1, <3>1 DEF Owes
  <2>3. conn[c] # "new" /\ "greet" \in ClientSteps
    BY <1>0, <2>1 DEF Aims, ClientSteps
  <2> QED
    BY <1>0, <2>1, <2>2, <2>3, HandlerEnds
<1>3. CASE AttachLate(c)
  <2>1. /\ pc[c] = "attach" /\ target[c] \notin sessions /\ pc' = [pc EXCEPT ![c] = "read"]
        /\ target' = [target EXCEPT ![c] = None] /\ creating' = [creating EXCEPT ![c] = FALSE]
        /\ UNCHANGED <<sessions, clients, proc, exit, alarm, grace, released, todo, list, listed, active, early, conn>>
    BY <1>3 DEF AttachLate, Done, Goto, manager, shells, ending, browser
  <2>2. \A d \in Clients : ~Owes(c, d)
    BY <2>1 DEF Owes
  <2>3. conn[c] # "new" /\ "read" \in ClientSteps
    BY <1>0, <2>1 DEF Aims, ClientSteps
  <2>4. target' \in [Clients -> Sessions \cup {None}] /\ creating' \in [Clients -> BOOLEAN]
        /\ \A d \in Clients \ {c} : target'[d] = target[d] /\ creating'[d] = creating[d]
    BY <1>0, <2>1
  <2> QED
    BY <2>1, <2>2, <2>3, <2>4, HandlerEnds
<1>4. ASSUME NEW s \in Sessions, AttachGet(c, s) PROVE EndInv'
  <2>1. /\ pc[c] = "read" /\ conn[c] = "open" /\ s \in sessions /\ pc' = [pc EXCEPT ![c] = "detach"]
        /\ target' = [target EXCEPT ![c] = s] /\ creating' = [creating EXCEPT ![c] = FALSE]
        /\ UNCHANGED <<sessions, clients, proc, exit, alarm, grace, released, todo, list, listed, active, early, conn>>
    BY <1>4 DEF AttachGet, Reads, Goto, manager, shells, ending, browser
  <2>2. \A d \in Clients : ~Owes(c, d)
    BY <2>1, SessionsApart DEF Owes
  <2>3. "detach" \in ClientSteps
    BY DEF ClientSteps
  <2>4. target' \in [Clients -> Sessions \cup {None}] /\ creating' \in [Clients -> BOOLEAN]
        /\ \A d \in Clients \ {c} : target'[d] = target[d] /\ creating'[d] = creating[d]
        /\ ~creating'[c] /\ target'[c] = s
    BY <1>0, <2>1
  <2> QED
    BY <2>1, <2>2, <2>3, <2>4, HandlerEnds
<1>5. ASSUME NEW s \in Sessions, AttachUnknown(c, s) PROVE EndInv'
  <2>1. /\ pc[c] = "read" /\ conn[c] = "open" /\ pc' = pc
        /\ target' = target /\ creating' = [creating EXCEPT ![c] = FALSE]
        /\ UNCHANGED <<sessions, clients, proc, exit, alarm, grace, released, todo, list, listed, active, early, conn>>
    BY <1>5 DEF AttachUnknown, Reads, manager, shells, ending, browser
  <2>2. \A d \in Clients : ~Owes(c, d)
    BY <2>1 DEF Owes
  <2>3. "read" \in ClientSteps /\ pc' = [pc EXCEPT ![c] = "read"]
    BY <1>0, <2>1 DEF ClientSteps
  <2>4. target' \in [Clients -> Sessions \cup {None}] /\ creating' \in [Clients -> BOOLEAN]
        /\ \A d \in Clients \ {c} : target'[d] = target[d] /\ creating'[d] = creating[d]
    BY <1>0, <2>1
  <2> QED
    BY <2>1, <2>2, <2>3, <2>4, HandlerEnds
<1> QED
  BY <1>1, <1>2, <1>3, <1>4, <1>5

\* A create: what becomes of the session it names.
LEMMA CreateEnds ==
  ASSUME EndInv, NEW c \in Clients, NEW s \in Sessions, Create(c, s) \/ CreateFails(c, s)
  PROVE  EndInv'
<1> USE DEF EndInv
<1>0. /\ target \in [Clients -> Sessions \cup {None}] /\ creating \in [Clients -> BOOLEAN]
      /\ sessions \subseteq Sessions /\ c \in Actors /\ s \in Actors /\ s # c
      /\ pc \in [Actors -> SessionSteps \cup ClientSteps]
      /\ proc \in [Sessions -> {"none", "up", "gone"}] /\ released \in [Sessions -> Nat]
      /\ \A t \in Sessions : pc[t] \in SessionSteps /\ t # c /\ t \in Actors
      /\ \A d \in Clients : pc[d] \in ClientSteps /\ d \in Actors /\ d # s
  BY SessionsApart DEF EndTypes, Actors
<1>1. Life(s) /\ Aims(c)
  BY DEF LifeOK, AimsOK
<1>2. PICK cs \in {"read", "map"}, ss \in {"started", "done"} :
        /\ pc[c] = "read" /\ pc[s] = "none" /\ conn[c] = "open"
        /\ pc' = [pc EXCEPT ![c] = cs, ![s] = ss]
        /\ \/ /\ cs = "map" /\ ss = "started" /\ target' = [target EXCEPT ![c] = s]
              /\ proc' = [proc EXCEPT ![s] = "up"] /\ released' = released
           \/ /\ cs = "read" /\ ss = "done" /\ UNCHANGED <<target, proc>>
              /\ released' = [released EXCEPT ![s] = @ + 1]
        /\ creating' = [creating EXCEPT ![c] = TRUE]
        /\ UNCHANGED <<sessions, clients, exit, alarm, grace, todo, list, listed, active, early, conn>>
  <2>1. CASE Create(c, s)
    BY <2>1 DEF Create, Reads, manager, ending, browser
  <2>2. CASE CreateFails(c, s)
    <3>1. /\ pc[c] = "read" /\ pc[s] = "none" /\ conn[c] = "open"
          /\ pc' = [pc EXCEPT ![s] = "done"] /\ released' = [released EXCEPT ![s] = @ + 1]
          /\ creating' = [creating EXCEPT ![c] = TRUE] /\ UNCHANGED <<target, proc>>
          /\ UNCHANGED <<sessions, clients, exit, alarm, grace, todo, list, listed, active, early, conn>>
      BY <2>2 DEF CreateFails, Reads, Release, Goto, manager, shells, browser
    <3>2. pc' = [pc EXCEPT ![c] = "read", ![s] = "done"]
      BY <1>0, <3>1
    <3> QED
      BY <3>1, <3>2
  <2> QED
    BY <2>1, <2>2
<1>3. /\ pc' \in [Actors -> SessionSteps \cup ClientSteps] /\ pc'[c] = cs /\ pc'[s] = ss
      /\ \A a \in Actors \ {c, s} : pc'[a] = pc[a]
  BY <1>0, <1>2 DEF SessionSteps, ClientSteps
<1>4. /\ \A t \in Sessions \ {s} : pc'[t] = pc[t] /\ proc'[t] = proc[t] /\ released'[t] = released[t]
      /\ \A d \in Clients \ {c} : pc'[d] = pc[d] /\ target'[d] = target[d] /\ creating'[d] = creating[d]
      /\ target' \in [Clients -> Sessions \cup {None}] /\ creating' \in [Clients -> BOOLEAN]
      /\ proc' \in [Sessions -> {"none", "up", "gone"}] /\ released' \in [Sessions -> Nat]
      /\ creating'[c] /\ (cs = "map" => target'[c] = s)
      /\ proc[s] = "none" /\ exit[s] = "wait" /\ released[s] = 0 /\ s \notin sessions
      /\ ss = "started" => proc'[s] = "up" /\ released'[s] = 0
      /\ ss = "done" => proc'[s] = "none" /\ released'[s] = 1
  <2>1. proc[s] = "none" /\ exit[s] = "wait" /\ released[s] = 0 /\ s \notin sessions
    BY <1>1, <1>2 DEF Life
  <2>2. CASE ss = "started"
    BY <1>0, <1>2, <1>3, <2>1, <2>2
  <2>3. CASE ss = "done"
    BY <1>0, <1>2, <1>3, <2>1, <2>3
  <2> QED
    BY <2>2, <2>3
<1>5. EndTypes'
  <2>1. /\ \A t \in Sessions : pc'[t] \in SessionSteps
        /\ \A d \in Clients : pc'[d] \in ClientSteps
    BY <1>0, <1>3, <1>4 DEF SessionSteps, ClientSteps
  <2> QED
    BY <1>2, <1>3, <1>4, <2>1 DEF EndTypes
<1>6. LifeOK'
  <2> SUFFICES ASSUME NEW t \in Sessions PROVE Life(t)'
    BY DEF LifeOK
  <2>1. CASE t = s
    BY <1>1, <1>2, <1>3, <1>4, <2>1 DEF Life, Ending
  <2>2. CASE t # s
    <3>1. Life(t)
      BY DEF LifeOK
    <3>2. /\ pc'[t] = pc[t] /\ proc'[t] = proc[t] /\ released'[t] = released[t]
          /\ UNCHANGED <<sessions, exit, alarm, grace>>
      BY <1>2, <1>4, <2>2
    <3> QED
      BY <3>1, <3>2 DEF Life
  <2> QED
    BY <2>1, <2>2
<1>7. ASSUME NEW d \in Clients PROVE Aims(d)'
  <2>0. Aims(d)
    BY DEF AimsOK
  <2>1. pc[d] = "map" => target[d] \in Sessions \ {s}
    BY <1>2, <2>0 DEF Aims
  <2>2. CASE d # c
    <3>1. pc[d] = "map" => /\ pc'[target[d]] = "started"
                           /\ \A e \in Clients \ {d} : pc'[e] = "map" => target'[e] # target[d]
      <4>1. pc[d] = "map" => /\ pc[target[d]] = "started"
                             /\ \A e \in Clients \ {d} : pc[e] = "map" => target[e] # target[d]
        BY <2>0 DEF Aims
      <4>2. pc'[c] = "map" => target'[c] = s
        BY <1>3, <1>4
      <4> QED
        BY <1>4, <2>1, <4>1, <4>2
    <3>2. conn[d] = "open" => d \in clients'
      BY <1>2, <2>0 DEF Aims
    <3>3. \A t \in Sessions : proc[t] # "none" => proc'[t] # "none"
      BY <1>4
    <3>4. \A t \in Sessions : pc[t] \notin {"none", "started"} => pc'[t] \notin {"none", "started"}
      BY <1>2, <1>4
    <3> QED
      BY <1>2, <1>4, <2>2, <3>1, <3>2, <3>3, <3>4, KeepAims
  <2>3. CASE d = c
    <3>1. cs = "map" => \A e \in Clients \ {c} : pc'[e] = "map" => target'[e] # s
      BY <1>2, <1>4 DEF AimsOK, Aims
    <3>2. cs = "map" => ss = "started"
      BY <1>2
    <3>3. conn'[c] = "open" /\ c \in clients'
      BY <1>1, <1>2 DEF Aims
    <3> QED
      BY <1>3, <1>4, <2>3, <3>1, <3>2, <3>3 DEF Aims
  <2> QED
    BY <2>2, <2>3
<1>8. ASSUME NEW d \in Clients PROVE Screen(d)'
  <2>1. \A t \in Sessions : Told(d, t) => Told(d, t)'
    BY <1>2, <1>4 DEF Told
  <2>2. CASE d # c
    BY <1>2, <1>4, <2>1, <2>2, KeepScreen
  <2>3. CASE d = c
    BY <1>2, <1>3, <2>1, <2>3, KeepScreen
  <2> QED
    BY <2>2, <2>3
<1>9. ASSUME NEW d \in Clients PROVE Lists(d)'
  <2>1. \A a \in Actors : Owes(a, d) => Owes(a, d)'
    <3> TAKE a \in Actors
    <3>1. CASE a \in {c, s}
      BY <1>0, <1>2, <3>1 DEF Owes
    <3>2. CASE a \notin {c, s}
      BY <1>2, <1>3, <1>4, <3>2 DEF Owes
    <3> QED
      BY <3>1, <3>2
  <2> QED
    BY <1>2, <2>1, KeepLists
<1> QED
  BY <1>5, <1>6, <1>7, <1>8, <1>9 DEF AimsOK, ScreenOK, ListsOK

\* A step of connection c that moves no session: what is left to show is what it
\* does to c and its page.
LEMMA OthersKept ==
  ASSUME EndInv, NEW c \in Clients, NEW step \in ClientSteps, pc' = [pc EXCEPT ![c] = step],
         UNCHANGED <<sessions, proc, exit, grace, released, todo, list>>,
         alarm' \in [Sessions -> BOOLEAN], \A t \in Sessions : proc[t] = "none" => ~alarm'[t],
         clients' \subseteq Clients, clients \ {c} \subseteq clients',
         target' \in [Clients -> Sessions \cup {None}], creating' \in [Clients -> BOOLEAN],
         conn' \in [Clients -> {"new", "open", "broken", "gone"}],
         listed' \in [Clients -> [ids : SUBSET Sessions, current : BOOLEAN]],
         active' \in [Clients -> Sessions \cup {None}], early \subseteq early', early' \subseteq Clients,
         \A d \in Clients \ {c} : /\ target'[d] = target[d] /\ creating'[d] = creating[d] /\ conn'[d] = conn[d]
                                  /\ listed'[d] = listed[d] /\ active'[d] = active[d],
         step = "map" => pc[c] = "map" /\ target'[c] = target[c],
         \A d \in Clients \ {c} : Owes(c, d) => Owes(c, d)',
         Aims(c)', Screen(c)', Lists(c)'
  PROVE  EndInv'
<1> USE DEF EndInv
<1>0. /\ pc \in [Actors -> SessionSteps \cup ClientSteps] /\ c \in Actors
      /\ \A t \in Sessions : pc[t] \in SessionSteps /\ t # c /\ t \in Actors
      /\ \A d \in Clients : pc[d] \in ClientSteps /\ d \in Actors
  BY SessionsApart DEF EndTypes, Actors
<1>1. /\ pc' \in [Actors -> SessionSteps \cup ClientSteps] /\ pc'[c] = step
      /\ \A a \in Actors \ {c} : pc'[a] = pc[a]
  BY <1>0
<1>2. \A t \in Sessions : pc'[t] = pc[t]
  BY <1>0, <1>1
<1>3. EndTypes'
  <2>1. \A d \in Clients : pc'[d] \in ClientSteps
    BY <1>0, <1>1
  <2> QED
    BY <1>0, <1>1, <1>2, <2>1 DEF EndTypes
<1>4. LifeOK'
  <2> SUFFICES ASSUME NEW t \in Sessions PROVE Life(t)'
    BY DEF LifeOK
  <2>1. Life(t)
    BY DEF LifeOK
  <2> QED
    BY <1>2, <2>1 DEF Life
<1>5. ASSUME NEW d \in Clients, d # c PROVE Aims(d)' /\ Screen(d)' /\ Lists(d)'
  <2>0. Aims(d)
    BY DEF AimsOK
  <2>1. pc'[d] = pc[d] /\ target'[d] = target[d] /\ creating'[d] = creating[d] /\ conn'[d] = conn[d]
        /\ listed'[d] = listed[d] /\ active'[d] = active[d]
    BY <1>0, <1>1, <1>5
  <2>2. pc[d] = "map" => /\ pc'[target[d]] = "started"
                         /\ \A e \in Clients \ {d} : pc'[e] = "map" => target'[e] # target[d]
    <3>1. pc[d] = "map" => target[d] \in Sessions /\ pc[target[d]] = "started"
                           /\ \A e \in Clients \ {d} : pc[e] = "map" => target[e] # target[d]
      BY <2>0 DEF Aims
    <3>2. \A e \in Clients : pc'[e] = "map" => pc[e] = "map" /\ target'[e] = target[e]
      BY <1>0, <1>1
    <3> QED
      BY <1>2, <3>1, <3>2
  <2>3. conn[d] = "open" => d \in clients'
    BY <1>5, <2>0 DEF Aims
  <2>4. Aims(d)'
    BY <1>2, <2>1, <2>2, <2>3, KeepAims
  <2>5. \A t \in Sessions : Told(d, t) => Told(d, t)'
    BY <1>2 DEF Told
  <2>6. Screen(d)'
    BY <2>1, <2>5, KeepScreen
  <2>7. \A a \in Actors : Owes(a, d) => Owes(a, d)'
    <3> TAKE a \in Actors
    <3>1. CASE a # c
      BY <1>1, <3>1 DEF Owes
    <3>2. CASE a = c
      BY <1>5, <3>2
    <3> QED
      BY <3>1, <3>2
  <2>8. Lists(d)'
    BY <2>1, <2>7, KeepLists
  <2> QED
    BY <2>4, <2>6, <2>8
<1> QED
  BY <1>3, <1>4, <1>5 DEF AimsOK, ScreenOK, ListsOK

\* Greet and the second look of an attach: the session on the screen is one whose
\* end is still to be told, or the look is still to come.
LEMMA GreetEnds ==
  ASSUME EndInv, NEW c \in Clients, Greet(c) \/ AttachDead(c)
  PROVE  EndInv'
<1> USE DEF EndInv
<1>0. /\ target \in [Clients -> Sessions \cup {None}] /\ creating \in [Clients -> BOOLEAN]
      /\ conn \in [Clients -> {"new", "open", "broken", "gone"}] /\ alarm \in [Sessions -> BOOLEAN]
      /\ listed \in [Clients -> [ids : SUBSET Sessions, current : BOOLEAN]]
      /\ active \in [Clients -> Sessions \cup {None}] /\ early \subseteq Clients
      /\ sessions \subseteq Sessions /\ clients \subseteq Clients /\ c \in Actors
      /\ pc \in [Actors -> SessionSteps \cup ClientSteps] /\ pc[c] \in ClientSteps
      /\ \A t \in Sessions : t # c /\ t \in Actors /\ t # None
  BY SessionsApart DEF EndTypes, Actors
<1>1. Aims(c) /\ Screen(c) /\ Lists(c)
  BY DEF AimsOK, ScreenOK, ListsOK
<1>2. \A t \in Sessions : proc[t] = "none" => ~alarm[t]
  BY DEF LifeOK, Life
<1>3. CASE Greet(c)
  <2>1. /\ pc[c] = "greet"
        /\ UNCHANGED <<sessions, clients, proc, exit, alarm, grace, released, todo, list, conn>>
        /\ SendSession(c, target[c])
        /\ IF creating[c] THEN /\ pc' = [pc EXCEPT ![c] = "list"]
                               /\ target' = [target EXCEPT ![c] = None]
                               /\ creating' = [creating EXCEPT ![c] = FALSE]
           ELSE pc' = [pc EXCEPT ![c] = "dead?"] /\ UNCHANGED <<target, creating>>
    BY <1>3 DEF Greet, Done, Goto, manager, shells, ending
  <2>2. PICK step \in {"list", "dead?"} : step = IF creating[c] THEN "list" ELSE "dead?"
    OBVIOUS
  <2>3. target[c] \in Sessions /\ proc[target[c]] # "none" /\ pc[target[c]] \notin {"none", "started"}
    BY <1>1, <2>1 DEF Aims
  <2>4. /\ UNCHANGED <<listed, early>> /\ active' \in [Clients -> Sessions \cup {None}]
        /\ \A d \in Clients \ {c} : active'[d] = active[d]
        /\ conn[c] = "open" => active'[c] = target[c]
        /\ conn[c] # "open" => active'[c] = active[c]
    BY <1>0, <2>1, <2>3 DEF SendSession, browser
  <2>5. /\ pc' = [pc EXCEPT ![c] = step] /\ step \in ClientSteps /\ pc'[c] = step
        /\ \A t \in Sessions : pc'[t] = pc[t]
        /\ target' \in [Clients -> Sessions \cup {None}] /\ creating' \in [Clients -> BOOLEAN]
        /\ \A d \in Clients \ {c} : target'[d] = target[d] /\ creating'[d] = creating[d]
        /\ step = "dead?" => target'[c] = target[c]
    BY <1>0, <2>1, <2>2 DEF ClientSteps
  <2>6. Aims(c)'
    BY <1>1, <2>1, <2>2, <2>3, <2>4, <2>5 DEF Aims
  <2>7. Screen(c)'
    <3>1. \A t \in Sessions : Told(c, t) => Told(c, t)'
      BY <2>1, <2>5 DEF Told
    <3>2. CASE step = "list"
      BY <1>1, <2>1, <2>2, <2>3, <2>4, <2>5, <3>1, <3>2 DEF Screen
    <3>3. CASE step = "dead?"
      BY <2>1, <2>2, <2>4, <2>5, <3>3 DEF Screen
    <3> QED
      BY <3>1, <3>2, <3>3
  <2>8. \A a \in Actors, d \in Clients : Owes(a, d) => Owes(a, d)'
    <3> TAKE a \in Actors, d \in Clients
    <3>1. CASE a # c
      <4>1. pc'[a] = pc[a] /\ (a \in Clients => target'[a] = target[a] /\ creating'[a] = creating[a])
        BY <1>0, <2>5, <3>1
      <4> QED
        BY <2>1, <4>1 DEF Owes
    <3>2. CASE a = c
      BY <2>1, <2>2, <2>5, <3>2 DEF Owes
    <3> QED
      BY <3>1, <3>2
  <2>9. Lists(c)'
    BY <2>1, <2>4, <2>8, KeepLists
  <2> QED
    BY <1>0, <1>2, <2>1, <2>2, <2>4, <2>5, <2>6, <2>7, <2>8, <2>9, OthersKept
<1>4. CASE AttachDead(c)
  <2>1. /\ pc[c] = "dead?" /\ pc' = [pc EXCEPT ![c] = "read"]
        /\ target' = [target EXCEPT ![c] = None] /\ creating' = [creating EXCEPT ![c] = FALSE]
        /\ UNCHANGED <<sessions, clients, proc, exit, alarm, grace, released, todo, list, conn>>
        /\ IF exit[target[c]] # "wait" THEN SendExit(c, target[c]) ELSE UNCHANGED <<listed, active, early>>
    BY <1>4 DEF AttachDead, Done, Goto, TellIfDead, Dead, manager, shells, ending, browser
  <2>2. target[c] \in Sessions /\ proc[target[c]] # "none" /\ pc[target[c]] \notin {"none", "started"}
    BY <1>1, <2>1 DEF Aims
  <2>3. /\ listed' = listed /\ early \subseteq early' /\ early' \subseteq Clients
        /\ active' \in [Clients -> Sessions \cup {None}]
        /\ \A d \in Clients \ {c} : active'[d] = active[d]
        /\ active'[c] = active[c] \/ active'[c] = None
        /\ exit[target[c]] # "wait" /\ conn[c] = "open" => active'[c] # target[c]
    <3>1. CASE exit[target[c]] # "wait"
      BY <2>1, <2>2, <3>1, SendExitFacts
    <3>2. CASE exit[target[c]] = "wait"
      BY <1>0, <2>1, <3>2
    <3> QED
      BY <3>1, <3>2
  <2>4. /\ pc'[c] = "read" /\ "read" \in ClientSteps
        /\ \A t \in Sessions : pc'[t] = pc[t]
        /\ target' \in [Clients -> Sessions \cup {None}] /\ creating' \in [Clients -> BOOLEAN]
        /\ \A d \in Clients \ {c} : target'[d] = target[d] /\ creating'[d] = creating[d]
    BY <1>0, <2>1 DEF ClientSteps
  <2>5. Aims(c)'
    BY <1>1, <2>1, <2>3, <2>4 DEF Aims
  <2>6. Screen(c)'
    <3>1. \A t \in Sessions : Told(c, t) => Told(c, t)'
      BY <2>1, <2>4 DEF Told
    <3>2. exit[target[c]] = "wait" => pc[target[c]] = "watch"
      BY <1>0, <2>2 DEF LifeOK, Life, EndTypes, SessionSteps, Ending
    <3>3. exit[target[c]] = "wait" => Told(c, target[c])
      BY <3>2 DEF Told
    <3> SUFFICES ASSUME conn[c] = "open", c \notin early', active'[c] # None
                 PROVE  Told(c, active[c])'
      BY <2>1, <2>3, <2>4 DEF Screen
    <3>4. active'[c] = active[c] /\ active[c] \in Sessions /\ c \notin early
      BY <1>0, <2>3
    <3>5. Told(c, active[c]) \/ target[c] = active[c]
      BY <1>1, <3>4 DEF Screen
    <3>6. Told(c, active[c])
      BY <2>3, <3>3, <3>4, <3>5
    <3> QED
      BY <3>1, <3>4, <3>6
  <2>7. \A a \in Actors, d \in Clients : Owes(a, d) => Owes(a, d)'
    <3> TAKE a \in Actors, d \in Clients
    <3>1. CASE a # c
      <4>1. pc'[a] = pc[a] /\ (a \in Clients => target'[a] = target[a] /\ creating'[a] = creating[a])
        BY <1>0, <2>1, <3>1
      <4> QED
        BY <2>1, <4>1 DEF Owes
    <3>2. CASE a = c
      BY <2>1, <3>2 DEF Owes
    <3> QED
      BY <3>1, <3>2
  <2>8. Lists(c)'
    BY <2>1, <2>3, <2>7, KeepLists
  <2> QED
    BY <1>0, <1>2, <2>1, <2>3, <2>4, <2>5, <2>6, <2>7, <2>8, OthersKept
<1> QED
  BY <1>3, <1>4

\* Requests that are answered at once, and the alarm.
LEMMA AskEnds ==
  ASSUME EndInv, NEW c \in Clients,
         AskList(c) \/ \E s \in Sessions : Input(c, s) \/ \E on \in Alarms : AutoClose(c, s, on)
  PROVE  EndInv'
<1> USE DEF EndInv
<1>0. /\ target \in [Clients -> Sessions \cup {None}] /\ creating \in [Clients -> BOOLEAN]
      /\ conn \in [Clients -> {"new", "open", "broken", "gone"}] /\ alarm \in [Sessions -> BOOLEAN]
      /\ listed \in [Clients -> [ids : SUBSET Sessions, current : BOOLEAN]]
      /\ active \in [Clients -> Sessions \cup {None}] /\ early \subseteq Clients
      /\ sessions \subseteq Sessions /\ clients \subseteq Clients /\ c \in Actors
      /\ pc \in [Actors -> SessionSteps \cup ClientSteps] /\ pc[c] \in ClientSteps
      /\ \A t \in Sessions : t # c /\ t \in Actors /\ t # None
  BY SessionsApart DEF EndTypes, Actors
<1>1. Aims(c) /\ Screen(c) /\ Lists(c)
  BY DEF AimsOK, ScreenOK, ListsOK
<1>2. \A t \in Sessions : proc[t] = "none" => ~alarm[t]
  BY DEF LifeOK, Life
<1>3. /\ pc[c] = "read" /\ conn[c] = "open" /\ early \subseteq early' /\ early' \subseteq Clients
      /\ UNCHANGED <<sessions, clients, proc, exit, grace, released, todo, list, conn, target, creating>>
      /\ listed' \in [Clients -> [ids : SUBSET Sessions, current : BOOLEAN]]
      /\ active' \in [Clients -> Sessions \cup {None}]
      /\ \A d \in Clients \ {c} : listed'[d] = listed[d] /\ active'[d] = active[d]
      /\ active'[c] = active[c] \/ active'[c] = None
      /\ listed'[c] = listed[c] \/ (listed'[c].current => listed'[c].ids = sessions)
      /\ alarm' \in [Sessions -> BOOLEAN] /\ \A t \in Sessions : proc[t] = "none" => ~alarm'[t]
      /\ \E step \in {"read", "list"} : pc' = [pc EXCEPT ![c] = step]
  <2>1. CASE AskList(c)
    <3>1. /\ pc[c] = "read" /\ conn[c] = "open" /\ pc' = pc /\ SendList(c, sessions)
          /\ UNCHANGED <<sessions, clients, proc, exit, alarm, grace, released, todo, list, conn, target, creating>>
      BY <2>1 DEF AskList, Reads, manager, shells, ending, actors
    <3>2. pc' = [pc EXCEPT ![c] = "read"]
      BY <1>0, <3>1
    <3>3. /\ UNCHANGED <<active, early>>
          /\ listed' \in [Clients -> [ids : SUBSET Sessions, current : BOOLEAN]]
          /\ \A d \in Clients \ {c} : listed'[d] = listed[d]
          /\ listed'[c].current => listed'[c].ids = sessions
      BY <1>0, <3>1, SendListFacts
    <3> QED
      BY <1>0, <1>2, <3>1, <3>2, <3>3
  <2>2. ASSUME NEW s \in Sessions, Input(c, s) PROVE <1>3
    <3>1. /\ pc[c] = "read" /\ conn[c] = "open" /\ pc' = pc /\ SendExit(c, s)
          /\ UNCHANGED <<sessions, clients, proc, exit, alarm, grace, released, todo, list, conn, target, creating>>
      BY <2>2 DEF Input, Reads, manager, shells, ending, actors
    <3>2. pc' = [pc EXCEPT ![c] = "read"]
      BY <1>0, <3>1
    <3>3. /\ listed' = listed /\ early \subseteq early' /\ early' \subseteq Clients
          /\ active' \in [Clients -> Sessions \cup {None}]
          /\ \A d \in Clients \ {c} : active'[d] = active[d]
          /\ active'[c] = active[c] \/ active'[c] = None
      BY <3>1, SendExitFacts
    <3> QED
      BY <1>0, <1>2, <3>1, <3>2, <3>3
  <2>3. ASSUME NEW s \in Sessions, NEW on \in Alarms, AutoClose(c, s, on) PROVE <1>3
    <3>1. /\ pc[c] = "read" /\ conn[c] = "open" /\ s \in sessions
          /\ alarm' = [alarm EXCEPT ![s] = IF exit[s] # "wait" THEN @ ELSE on]
          /\ pc' = [pc EXCEPT ![c] = IF exit[s] # "wait" THEN "read" ELSE "list"]
          /\ UNCHANGED <<sessions, clients, proc, exit, grace, released, todo, list, conn, target, creating,
                         listed, active, early>>
      BY <2>3 DEF AutoClose, Reads, SetAutoClose, Dead, Goto, manager, shells, browser
    <3>2. on \in BOOLEAN /\ proc[s] # "none"
      BY <3>1, TerminalAssumption DEF TerminalAssumption, LifeOK, Life
    <3>3. alarm' \in [Sessions -> BOOLEAN] /\ \A t \in Sessions \ {s} : alarm'[t] = alarm[t]
      BY <1>0, <3>1, <3>2
    <3> QED
      BY <1>0, <1>2, <3>1, <3>2, <3>3
  <2> QED
    BY <2>1, <2>2, <2>3
<1>4. PICK step \in {"read", "list"} : pc' = [pc EXCEPT ![c] = step]
  BY <1>3
<1>5. step \in ClientSteps /\ pc'[c] = step /\ \A a \in Actors \ {c} : pc'[a] = pc[a]
  BY <1>0, <1>4 DEF ClientSteps
<1>6. Aims(c)'
  BY <1>1, <1>3, <1>5 DEF Aims
<1>7. Screen(c)'
  <2>1. \A t \in Sessions : Told(c, t) => Told(c, t)'
    BY <1>0, <1>3, <1>5 DEF Told
  <2> QED
    BY <1>3, <1>5, <2>1, KeepScreen
<1>8. \A a \in Actors, d \in Clients : Owes(a, d) => Owes(a, d)'
  <2> TAKE a \in Actors, d \in Clients
  <2>1. CASE a # c
    BY <1>3, <1>5, <2>1 DEF Owes
  <2>2. CASE a = c
    BY <1>3, <2>2 DEF Owes
  <2> QED
    BY <2>1, <2>2
<1>9. Lists(c)'
  <2>1. CASE listed'[c] = listed[c]
    BY <1>3, <1>8, <2>1, KeepLists
  <2>2. CASE listed'[c].current => listed'[c].ids = sessions
    BY <1>3, <2>2 DEF Lists
  <2> QED
    BY <1>3, <2>1, <2>2
<1> QED
  BY <1>0, <1>3, <1>4, <1>5, <1>6, <1>7, <1>8, <1>9, OthersKept

\* A created session is mapped: from now on its end is told.
LEMMA MapEnds ==
  ASSUME EndInv, NEW c \in Clients, CreateMap(c)
  PROVE  EndInv'
<1> USE DEF EndInv
<1> DEFINE s == target[c]
<1>0. /\ pc \in [Actors -> SessionSteps \cup ClientSteps] /\ c \in Actors
      /\ alarm \in [Sessions -> BOOLEAN] /\ sessions \subseteq Sessions
      /\ \A t \in Sessions : pc[t] \in SessionSteps /\ t # c /\ t \in Actors
      /\ \A d \in Clients : pc[d] \in ClientSteps /\ d \in Actors /\ d \notin Sessions
  BY SessionsApart DEF EndTypes, Actors
<1>1. Aims(c) /\ Screen(c)
  BY DEF AimsOK, ScreenOK
<1>2. PICK on \in BOOLEAN : alarm' = [alarm EXCEPT ![s] = IF exit[s] # "wait" THEN @ ELSE on]
  BY TerminalAssumption DEF CreateMap, SetAutoClose, Dead, TerminalAssumption
<1>3. /\ pc[c] = "map" /\ sessions' = sessions \cup {s}
      /\ pc' = [pc EXCEPT ![c] = "detach", ![s] = "watch"]
      /\ UNCHANGED <<clients, proc, exit, grace, released, todo, list, target, creating, conn, listed, active, early>>
  BY DEF CreateMap, shells, browser
<1>4. /\ creating[c] /\ s \in Sessions /\ pc[s] = "started"
      /\ \A d \in Clients \ {c} : pc[d] = "map" => target[d] # s
  BY <1>1, <1>3 DEF Aims
<1> HIDE DEF s
<1>5. Life(s)
  BY <1>4 DEF LifeOK
<1>6. /\ pc'[c] = "detach" /\ pc'[s] = "watch" /\ pc' \in [Actors -> SessionSteps \cup ClientSteps]
      /\ \A a \in Actors \ {c, s} : pc'[a] = pc[a]
  BY <1>0, <1>3, <1>4 DEF SessionSteps, ClientSteps
<1>7. \A t \in Sessions \ {s} : pc'[t] = pc[t]
  BY <1>0, <1>6
<1>8. \A d \in Clients \ {c} : pc'[d] = pc[d]
  BY <1>0, <1>4, <1>6
<1>9. alarm' \in [Sessions -> BOOLEAN] /\ \A t \in Sessions \ {s} : alarm'[t] = alarm[t]
  BY <1>0, <1>2
<1>10. EndTypes'
  <2>1. /\ \A t \in Sessions : pc'[t] \in SessionSteps
        /\ \A d \in Clients : pc'[d] \in ClientSteps
    BY <1>0, <1>6, <1>7, <1>8 DEF SessionSteps, ClientSteps
  <2>2. sessions' \subseteq Sessions
    BY <1>0, <1>3, <1>4
  <2> QED
    BY <1>3, <1>6, <1>9, <2>1, <2>2 DEF EndTypes
<1>11. LifeOK'
  <2> SUFFICES ASSUME NEW t \in Sessions PROVE Life(t)'
    BY DEF LifeOK
  <2>1. CASE t = s
    BY <1>3, <1>4, <1>5, <1>6, <2>1 DEF Life, Ending
  <2>2. CASE t # s
    <3>1. Life(t)
      BY DEF LifeOK
    <3>2. /\ pc'[t] = pc[t] /\ alarm'[t] = alarm[t] /\ (t \in sessions' <=> t \in sessions)
          /\ UNCHANGED <<proc, exit, grace, released>>
      BY <1>3, <1>7, <1>9, <2>2
    <3> QED
      BY <3>1, <3>2 DEF Life
  <2> QED
    BY <2>1, <2>2
<1>12. ASSUME NEW d \in Clients PROVE Aims(d)'
  <2>0. Aims(d)
    BY DEF AimsOK
  <2>1. CASE d # c
    <3>1. pc[d] = "map" => /\ pc'[target[d]] = "started"
                           /\ \A e \in Clients \ {d} : pc'[e] = "map" => target'[e] # target[d]
      <4>1. pc[d] = "map" => /\ target[d] \in Sessions \ {s} /\ pc[target[d]] = "started"
                             /\ \A e \in Clients \ {d} : pc[e] = "map" => target[e] # target[d]
        BY <1>4, <2>0, <2>1 DEF Aims
      <4> QED
        BY <1>3, <1>6, <1>7, <1>8, <4>1
    <3>2. conn[d] = "open" => d \in clients'
      BY <1>3, <2>0 DEF Aims
    <3>3. \A t \in Sessions : pc[t] \notin {"none", "started"} => pc'[t] \notin {"none", "started"}
      BY <1>6, <1>7
    <3> QED
      BY <1>3, <1>8, <2>1, <3>1, <3>2, <3>3, KeepAims
  <2>2. CASE d = c
    <3>1. target'[c] = s /\ proc'[s] # "none"
      BY <1>3, <1>4, <1>5 DEF Life, s
    <3>2. conn[c] # "new" /\ (conn[c] = "open" => c \in clients)
      BY <1>1, <1>3 DEF Aims
    <3> QED
      BY <1>3, <1>4, <1>6, <2>2, <3>1, <3>2 DEF Aims
  <2> QED
    BY <2>1, <2>2
<1>13. ASSUME NEW d \in Clients PROVE Screen(d)'
  <2>1. \A t \in Sessions : Told(d, t) => Told(d, t)'
    BY <1>3, <1>6, <1>7 DEF Told
  <2>2. CASE d # c
    BY <1>3, <1>8, <2>1, <2>2, KeepScreen
  <2>3. CASE d = c
    <3>1. conn[c] = "open" /\ c \notin early /\ active[c] # None => Told(c, active[c]) /\ active[c] \in Sessions
      BY <1>1, <1>3 DEF Screen, EndTypes
    <3>2. target'[c] = s /\ active' = active /\ conn' = conn /\ early' = early
      BY <1>3 DEF s
    <3>3. conn[c] = "open" /\ c \notin early /\ active[c] # None => Told(c, active[c])'
      BY <1>3, <1>6, <1>7, <3>1 DEF Told
    <3>4. Told(c, target[c])'
      BY <1>6, <3>2 DEF Told
    <3> QED
      BY <2>3, <3>2, <3>3, <3>4 DEF Screen
  <2> QED
    BY <2>2, <2>3
<1>14. ASSUME NEW d \in Clients PROVE Lists(d)'
  <2>1. target'[c] = s /\ creating'[c]
    BY <1>3, <1>4 DEF s
  <2>2. Owes(c, d)'
    BY <1>3, <1>6, <2>1 DEF Owes
  <2> QED
    BY <1>0, <2>2 DEF Lists
<1> QED
  BY <1>10, <1>11, <1>12, <1>13, <1>14 DEF AimsOK, ScreenOK, ListsOK

\* A connection comes, breaks and goes.
LEMMA ConnectionEnds ==
  ASSUME EndInv, NEW c \in Clients, Connect(c) \/ Break(c) \/ Disconnect(c) \/ Forget(c)
  PROVE  EndInv'
<1> USE DEF EndInv
<1>0. /\ target \in [Clients -> Sessions \cup {None}] /\ creating \in [Clients -> BOOLEAN]
      /\ conn \in [Clients -> {"new", "open", "broken", "gone"}] /\ alarm \in [Sessions -> BOOLEAN]
      /\ listed \in [Clients -> [ids : SUBSET Sessions, current : BOOLEAN]]
      /\ active \in [Clients -> Sessions \cup {None}] /\ early \subseteq Clients
      /\ sessions \subseteq Sessions /\ clients \subseteq Clients /\ c \in Actors
      /\ pc \in [Actors -> SessionSteps \cup ClientSteps] /\ pc[c] \in ClientSteps
      /\ \A t \in Sessions : t # c /\ t \in Actors
  BY SessionsApart DEF EndTypes, Actors
<1>1. Aims(c) /\ Screen(c) /\ Lists(c)
  BY DEF AimsOK, ScreenOK, ListsOK
<1>2. \A t \in Sessions : proc[t] = "none" => ~alarm[t]
  BY DEF LifeOK, Life
<1>3. PICK step \in ClientSteps, state \in {"open", "broken", "gone"} :
        /\ pc' = [pc EXCEPT ![c] = step] /\ conn' = [conn EXCEPT ![c] = state]
        /\ UNCHANGED <<sessions, proc, exit, alarm, grace, released, todo, list, target, creating, listed, active, early>>
        /\ clients' \subseteq clients \cup {c} /\ clients \ {c} \subseteq clients'
        /\ \/ step = pc[c] /\ conn[c] = "new" /\ state = "open" /\ c \in clients'
           \/ step = pc[c] /\ conn[c] = "open" /\ state = "broken"
           \/ pc[c] = "read" /\ step = "forget" /\ state = "gone"
           \/ pc[c] = "forget" /\ step = "done" /\ state = "gone"
  <2>1. CASE Connect(c)
    <3>1. /\ conn[c] = "new" /\ conn' = [conn EXCEPT ![c] = "open"] /\ clients' = clients \cup {c} /\ pc' = pc
          /\ UNCHANGED <<sessions, proc, exit, alarm, grace, released, todo, list, target, creating, listed, active, early>>
      BY <2>1 DEF Connect, shells, ending, actors, browser
    <3>2. pc' = [pc EXCEPT ![c] = pc[c]]
      BY <1>0, <3>1
    <3> QED
      BY <1>0, <3>1, <3>2
  <2>2. CASE Break(c)
    <3>1. /\ conn[c] = "open" /\ conn' = [conn EXCEPT ![c] = "broken"] /\ clients' = clients /\ pc' = pc
          /\ UNCHANGED <<sessions, proc, exit, alarm, grace, released, todo, list, target, creating, listed, active, early>>
      BY <2>2 DEF Break, manager, shells, ending, actors, browser
    <3>2. pc' = [pc EXCEPT ![c] = pc[c]]
      BY <1>0, <3>1
    <3> QED
      BY <1>0, <3>1, <3>2
  <2>3. CASE Disconnect(c)
    <3>1. /\ pc[c] = "read" /\ conn' = [conn EXCEPT ![c] = "gone"] /\ clients' = clients
          /\ pc' = [pc EXCEPT ![c] = "forget"] /\ "forget" \in ClientSteps
          /\ UNCHANGED <<sessions, proc, exit, alarm, grace, released, todo, list, target, creating, listed, active, early>>
      BY <2>3 DEF Disconnect, Goto, manager, ending, browser, ClientSteps
    <3> QED
      BY <3>1
  <2>4. CASE Forget(c)
    <3>1. /\ pc[c] = "forget" /\ conn' = conn /\ clients' = clients \ {c}
          /\ pc' = [pc EXCEPT ![c] = "done"] /\ "done" \in ClientSteps
          /\ UNCHANGED <<sessions, proc, exit, alarm, grace, released, todo, list, target, creating, listed, active, early>>
      BY <2>4 DEF Forget, Goto, shells, ending, browser, ClientSteps
    <3>2. conn[c] = "gone"
      BY <1>1, <3>1 DEF Aims
    <3>3. conn' = [conn EXCEPT ![c] = "gone"]
      BY <1>0, <3>1, <3>2
    <3> QED
      BY <3>1, <3>3
  <2> QED
    BY <2>1, <2>2, <2>3, <2>4
<1>4. /\ conn' \in [Clients -> {"new", "open", "broken", "gone"}] /\ conn'[c] = state
      /\ \A d \in Clients \ {c} : conn'[d] = conn[d]
      /\ pc'[c] = step /\ \A a \in Actors \ {c} : pc'[a] = pc[a]
      /\ clients' \subseteq Clients
  BY <1>0, <1>3
<1>5. \A t \in Sessions : pc'[t] = pc[t]
  BY <1>0, <1>4
<1>6. Aims(c)'
  <2>1. conn'[c] = "open" => c \in clients'
    BY <1>3, <1>4
  <2>2. pc'[c] \in {"forget", "done"} => conn'[c] = "gone"
    BY <1>1, <1>3, <1>4 DEF Aims
  <2>3. pc'[c] \notin {"forget", "done"} => pc'[c] = pc[c]
    BY <1>3, <1>4
  <2>4. pc'[c] = "map" => \A d \in Clients \ {c} : pc'[d] = "map" => target[d] # target[c]
    <3>1. \A d \in Clients : d \in Actors
      BY DEF Actors
    <3> QED
      BY <1>1, <1>4, <2>3, <3>1 DEF Aims
  <2>5. pc'[c] = "map" => creating[c] /\ target[c] \in Sessions /\ pc[target[c]] = "started"
    BY <1>1, <2>3 DEF Aims
  <2>6. pc'[c] \in {"detach", "attach", "greet", "dead?"} =>
          target[c] \in Sessions /\ proc[target[c]] # "none" /\ pc[target[c]] \notin {"none", "started"}
    BY <1>1, <2>3 DEF Aims
  <2>7. conn'[c] # "new"
    BY <1>4
  <2> QED
    BY <1>3, <1>5, <2>1, <2>2, <2>4, <2>5, <2>6, <2>7 DEF Aims
<1>7. conn'[c] = "open" => pc'[c] = "read" /\ active[c] = None /\ ~listed[c].current
  BY <1>1, <1>3, <1>4 DEF Aims
<1>8. Screen(c)' /\ Lists(c)'
  BY <1>3, <1>7 DEF Screen, Lists
<1>9. \A d \in Clients : Owes(c, d) => Owes(c, d)'
  <2>1. c \notin Sessions
    BY <1>0
  <2>2. step = pc[c] \/ \A d \in Clients : ~Owes(c, d)
    BY <1>3 DEF Owes
  <2> QED
    BY <1>3, <1>4, <2>2 DEF Owes
<1>10. step = "map" => pc[c] = "map" /\ target'[c] = target[c]
  BY <1>3
<1>11. /\ target' \in [Clients -> Sessions \cup {None}] /\ creating' \in [Clients -> BOOLEAN]
       /\ listed' \in [Clients -> [ids : SUBSET Sessions, current : BOOLEAN]]
       /\ active' \in [Clients -> Sessions \cup {None}] /\ early \subseteq early' /\ early' \subseteq Clients
       /\ alarm' \in [Sessions -> BOOLEAN] /\ \A t \in Sessions : proc[t] = "none" => ~alarm'[t]
       /\ \A d \in Clients \ {c} : /\ target'[d] = target[d] /\ creating'[d] = creating[d] /\ conn'[d] = conn[d]
                                   /\ listed'[d] = listed[d] /\ active'[d] = active[d]
  BY <1>0, <1>2, <1>3, <1>4
<1> QED
  BY <1>3, <1>4, <1>6, <1>8, <1>9, <1>10, <1>11, OthersKept

(***************************************************************************)
(* The invariant, and what it says at rest.                                *)
(***************************************************************************)
LEMMA EndInit == Init => EndInv
<1> SUFFICES ASSUME Init PROVE EndInv
  OBVIOUS
<1> USE TerminalAssumption DEF Init, TerminalAssumption
<1>1. \A s \in Sessions : s \in Actors /\ s \notin Clients /\ pc[s] = "none"
  BY DEF Actors
<1>2. \A c \in Clients : c \in Actors /\ pc[c] = "read"
  BY DEF Actors
<1>3. pc \in [Actors -> SessionSteps \cup ClientSteps]
  BY DEF SessionSteps, ClientSteps
<1>4. EndTypes
  BY <1>1, <1>2, <1>3 DEF EndTypes, SessionSteps, ClientSteps
<1>5. LifeOK
  BY <1>1 DEF LifeOK, Life, Ending
<1>6. AimsOK
  BY <1>2 DEF AimsOK, Aims
<1>7. ScreenOK /\ ListsOK
  BY DEF ScreenOK, Screen, ListsOK, Lists
<1> QED
  BY <1>4, <1>5, <1>6, <1>7 DEF EndInv

LEMMA EndKept == EndInv /\ [Next]_vars => EndInv'
<1> SUFFICES ASSUME EndInv, [Next]_vars PROVE EndInv'
  OBVIOUS
<1>1. CASE UNCHANGED vars
  <2>1. UNCHANGED <<sessions, clients, proc, exit, alarm, grace, released, pc, todo, list, target, creating,
                    conn, listed, active, early>>
    BY <1>1 DEF vars, manager, shells, ending, actors, browser
  <2>2. EndTypes' /\ LifeOK'
    BY <2>1, KeepLife DEF EndInv, EndTypes
  <2> QED
    BY <2>1, <2>2, KeepPages DEF EndInv
<1>2. ASSUME NEW s \in Sessions,
             Shell(s) \/ Publish(s) \/ ShellExits(s) \/ AlarmRings(s) \/ GraceOver(s) \/ Watch(s)
      PROVE  EndInv'
  <2>1. s \in Actors
    BY DEF Actors
  <2>2. CASE Shell(s) \/ ShellExits(s) \/ AlarmRings(s) \/ GraceOver(s)
    BY <2>2, ShellEnds DEF Shell
  <2>3. CASE Publish(s)
    BY <2>3, OutputEnds
  <2>4. CASE Watch(s)
    BY <2>1, <2>4, WatchEnds, BroadcastEnds DEF Watch
  <2> QED
    BY <1>2, <2>2, <2>3, <2>4
<1>3. ASSUME NEW c \in Clients, Connect(c) \/ Break(c) \/ AskList(c) \/ DetachRequest(c) \/ Handle(c)
      PROVE  EndInv'
  <2>1. c \in Actors
    BY DEF Actors
  <2>2. CASE Connect(c) \/ Break(c) \/ Disconnect(c) \/ Forget(c)
    BY <2>2, ConnectionEnds
  <2>3. CASE DetachRequest(c) \/ WriteFrame(c)
    BY <2>3, OutputEnds
  <2>4. CASE DetachOld(c) \/ Attach(c) \/ AttachLate(c)
    BY <2>4, RequestEnds
  <2>5. CASE CreateMap(c)
    BY <2>5, MapEnds
  <2>6. CASE Greet(c) \/ AttachDead(c)
    BY <2>6, GreetEnds
  <2>7. CASE Broadcast(c)
    BY <2>1, <2>7, BroadcastEnds
  <2>8. CASE AskList(c)
    BY <2>8, AskEnds
  <2> QED
    BY <1>3, <2>2, <2>3, <2>4, <2>5, <2>6, <2>7, <2>8 DEF Handle
<1>4. ASSUME NEW c \in Clients, NEW s \in Sessions, Ask(c, s)
      PROVE  EndInv'
  <2>1. CASE Create(c, s) \/ CreateFails(c, s)
    BY <2>1, CreateEnds
  <2>2. CASE AttachGet(c, s) \/ AttachUnknown(c, s)
    BY <2>2, RequestEnds
  <2>3. CASE Kill(c, s)
    BY <2>3, ShellEnds
  <2>4. CASE Input(c, s) \/ \E on \in Alarms : AutoClose(c, s, on)
    BY <2>4, AskEnds
  <2> QED
    BY <1>4, <2>1, <2>2, <2>3, <2>4 DEF Ask
<1> QED
  BY <1>1, <1>2, <1>3, <1>4 DEF Next

LEMMA EndShows == EndInv => EndedForEveryone
<1> SUFFICES ASSUME EndInv PROVE EndedForEveryone
  OBVIOUS
<1> USE DEF EndInv
<1>1. LimitsReleasedLast
  <2> SUFFICES ASSUME NEW s \in Sessions
               PROVE  /\ released[s] <= 1
                      /\ released[s] = 1 => proc[s] # "up" /\ s \notin sessions /\ pc[s] = "done"
    BY DEF LimitsReleasedLast
  <2>1. Life(s)
    BY DEF LifeOK
  <2> QED
    BY <2>1 DEF Life
<1> SUFFICES ASSUME AtRest, NEW c \in Clients, conn[c] = "open"
             PROVE  /\ active[c] # None => active[c] \in sessions \/ c \in early
                    /\ listed[c].current => listed[c].ids = sessions
  BY <1>1 DEF EndedForEveryone, NoDeadScreen, ListTrueUnlessCrossed
<1>2. /\ \A s \in Sessions : pc[s] \in {"none", "done", "watch"}
      /\ \A d \in Clients : pc[d] \in {"read", "done"}
  BY DEF AtRest
<1>3. active[c] # None /\ c \notin early => active[c] \in sessions
  <2> SUFFICES ASSUME active[c] # None, c \notin early PROVE active[c] \in sessions
    OBVIOUS
  <2>1. active[c] \in Sessions
    BY DEF EndTypes
  <2>2. Told(c, active[c])
    BY <1>2 DEF ScreenOK, Screen
  <2>3. pc[active[c]] = "watch"
    BY <1>2, <2>1, <2>2 DEF Told
  <2> QED
    BY <2>1, <2>3 DEF LifeOK, Life
<1>4. \A a \in Actors : ~Owes(a, c)
  BY <1>2 DEF Owes, Actors
<1>5. listed[c].current => listed[c].ids = sessions
  BY <1>4 DEF ListsOK, Lists
<1> QED
  BY <1>3, <1>5

\* EndedForEveryone: the limits of a session go back once and after everything
\* else; at rest no page shows a session that is gone, but for a create whose exit
\* frame overtook it, and no page has an outdated list, unless it was outdated when
\* it was written (manager.go, watchExit and broadcastSessionList; handler.go).
THEOREM SessionEndsForAll == Spec => []EndedForEveryone
BY EndInit, EndKept, EndShows, PTL DEF Spec

-----------------------------------------------------------------------------
(***************************************************************************)
(* Queues of frames and the ring buffer.                                   *)
(***************************************************************************)
Frame == [req : Nat, chunk : Nat]

\* Chunk n is at the page, or at most k frames from the end of the queue.
Latest(got, q, r, n, k) ==
  n > 0 => n \in Range(got) \/ \E i \in Mine(q, r) : q[i].chunk = n /\ Len(q) - i <= k

LEMMA MineIs ==
  ASSUME NEW q \in Seq(Frame), NEW r
  PROVE  \A i : i \in Mine(q, r) <=> i \in 1..Len(q) /\ q[i].req = r
BY DEF Mine

\* p is q with f pushed, frame by frame; or without its first one.
Pushed(q, f, p) ==
  /\ p \in Seq(Frame) /\ Len(p) <= QueueCap /\ Len(p) >= 1 /\ p[Len(p)] = f
  /\ Len(q) < QueueCap => /\ Len(p) = Len(q) + 1 /\ \A i \in 1..Len(q) : p[i] = q[i]
  /\ Len(q) = QueueCap => /\ Len(p) = Len(q) /\ \A i \in 2..Len(q) : p[i - 1] = q[i]
Taken(q, p) ==
  /\ p \in Seq(Frame) /\ Len(q) >= 1 /\ Len(p) = Len(q) - 1 /\ \A i \in 1..Len(p) : p[i] = q[i + 1]
  /\ Head(q) = q[1] /\ q[1] \in Frame
Given(got, q, r) == IF Head(q).req = r THEN Append(got, Head(q).chunk) ELSE got

LEMMA PushFacts ==
  ASSUME NEW q \in Seq(Frame), NEW f \in Frame, Len(q) <= QueueCap
  PROVE  Pushed(q, f, Push(q, f))
<1>0. QueueCap \in Nat \ {0}
  BY TerminalAssumption DEF TerminalAssumption
<1>1. CASE Len(q) < QueueCap
  <2>1. Push(q, f) = Append(q, f)
    BY <1>1 DEF Push
  <2> QED
    BY <1>0, <1>1, <2>1 DEF Pushed
<1>2. CASE Len(q) = QueueCap
  <2>1. Push(q, f) = Append(Tail(q), f)
    BY <1>0, <1>2 DEF Push
  <2>2. q # <<>>
    BY <1>0, <1>2
  <2>3. /\ Tail(q) \in Seq(Frame) /\ Len(Tail(q)) = Len(q) - 1
        /\ \A i \in 1..Len(Tail(q)) : Tail(q)[i] = q[i + 1]
    BY <2>2, HeadTailProperties
  <2>4. Push(q, f) \in Seq(Frame) /\ Len(Push(q, f)) = Len(q) /\ Push(q, f)[Len(q)] = f
        /\ \A i \in 1..(Len(q) - 1) : Push(q, f)[i] = q[i + 1]
    BY <1>0, <1>2, <2>1, <2>3
  <2>5. ASSUME NEW i \in 2..Len(q) PROVE Push(q, f)[i - 1] = q[i]
    BY <2>4
  <2> QED
    BY <1>0, <1>2, <2>4, <2>5 DEF Pushed
<1> QED
  BY <1>0, <1>1, <1>2

LEMMA PushMine ==
  ASSUME NEW q \in Seq(Frame), Len(q) <= QueueCap, NEW r \in Nat, NEW n \in Nat, NEW got \in Seq(Nat),
         InOrder(got, q, r), Coming(got, q, r) \subseteq 1..n,
         NEW f \in Frame, f.req = r, f.chunk = n + 1, NEW p, Pushed(q, f, p)
  PROVE  /\ InOrder(got, p, r) /\ Coming(got, p, r) \subseteq 1..(n + 1)
         /\ Latest(got, p, r, n + 1, 0)
         /\ ~Overflows(q, r) => \A x : x \in Coming(got, p, r) <=> x \in Coming(got, q, r) \/ x = n + 1
<1>0. f \in Frame /\ f.req = r /\ f.chunk = n + 1
  OBVIOUS
<1>a. Pushed(q, f, p)
  OBVIOUS
<1>1. /\ p \in Seq(Frame) /\ Len(p) <= QueueCap /\ Len(p) >= 1 /\ p[Len(p)] = f
      /\ Len(q) < QueueCap => /\ Len(p) = Len(q) + 1 /\ \A i \in 1..Len(q) : p[i] = q[i]
      /\ Len(q) = QueueCap => /\ Len(p) = Len(q) /\ \A i \in 2..Len(q) : p[i - 1] = q[i]
  BY <1>a DEF Pushed
<1>b. QueueCap \in Nat
  BY TerminalAssumption DEF TerminalAssumption
<1>q. Len(q) <= QueueCap
  OBVIOUS
<1>d. Len(p) \in Nat /\ Len(q) \in Nat
  BY <1>1
<1>i. /\ \A i : i \in Mine(q, r) <=> i \in 1..Len(q) /\ q[i].req = r
      /\ \A i : i \in Mine(p, r) <=> i \in 1..Len(p) /\ p[i].req = r
  BY <1>1, MineIs
<1>2. PICK shift \in {0, 1} : /\ Len(p) = Len(q) + 1 - shift /\ \A i \in (1 + shift)..Len(q) : p[i - shift] = q[i]
                              /\ shift = 0 <=> Len(q) < QueueCap
  <2>1. CASE Len(q) < QueueCap
    <3>1. Len(p) = Len(q) + 1 - 0
      BY <1>1, <1>d, <2>1
    <3>2. ASSUME NEW i \in (1 + 0)..Len(q) PROVE p[i - 0] = q[i]
      <4>1. i \in 1..Len(q) /\ i - 0 = i
        BY <1>d
      <4> QED
        BY <1>1, <2>1, <4>1
    <3> QED
      BY <2>1, <3>1, <3>2
  <2>2. CASE ~(Len(q) < QueueCap)
    <3>0. Len(q) = QueueCap
      BY <1>d, <1>b, <1>q, <2>2
    <3>1. Len(p) = Len(q) + 1 - 1
      BY <1>1, <1>d, <3>0
    <3>2. ASSUME NEW i \in (1 + 1)..Len(q) PROVE p[i - 1] = q[i]
      <4>1. i \in 2..Len(q)
        BY <1>d
      <4> QED
        BY <1>1, <3>0, <4>1
    <3> QED
      BY <2>2, <3>1, <3>2
  <2> QED
    BY <2>1, <2>2
<1>3. \A i \in Mine(q, r) : i >= 1 + shift => i - shift \in Mine(p, r) /\ p[i - shift] = q[i]
  <2> TAKE i \in Mine(q, r)
  <2> HAVE i >= 1 + shift
  <2>1. i \in 1..Len(q) /\ q[i].req = r
    BY <1>i
  <2>2. i \in (1 + shift)..Len(q) /\ i - shift \in 1..Len(p)
    BY <1>d, <1>2, <2>1
  <2>3. p[i - shift] = q[i]
    BY <1>2, <2>2
  <2> QED
    BY <1>i, <2>1, <2>2, <2>3
<1>4. \A j \in Mine(p, r) : \/ j = Len(p) /\ p[j].chunk = n + 1
                            \/ j < Len(p) /\ j + shift \in Mine(q, r) /\ p[j].chunk = q[j + shift].chunk
  <2> TAKE j \in Mine(p, r)
  <2>1. j \in 1..Len(p) /\ p[j].req = r
    BY <1>i
  <2>2. CASE j = Len(p)
    BY <1>0, <1>1, <2>2
  <2>3. CASE j # Len(p)
    <3>1. j < Len(p) /\ j + shift \in (1 + shift)..Len(q) /\ (j + shift) - shift = j
      BY <1>d, <1>2, <2>1, <2>3
    <3>2. q[j + shift] = p[j]
      BY <1>2, <3>1
    <3>3. j + shift \in 1..Len(q)
      BY <1>d, <3>1
    <3> QED
      BY <1>i, <2>1, <3>1, <3>2, <3>3
  <2> QED
    BY <2>2, <2>3
<1>5. /\ \A i \in DOMAIN got : got[i] \in 1..n
      /\ \A i \in Mine(q, r) : q[i].chunk \in 1..n
  BY DEF Coming, Range
<1>c. \A i \in Mine(q, r) : i \in Nat
  BY <1>i
<1>6. InOrder(got, p, r)
  <2>1. \A i, j \in DOMAIN got : i < j => got[i] < got[j]
    BY DEF InOrder
  <2>2. \A i \in DOMAIN got, j \in Mine(p, r) : got[i] < p[j].chunk
    <3> TAKE i \in DOMAIN got, j \in Mine(p, r)
    <3>1. CASE j = Len(p) /\ p[j].chunk = n + 1
      BY <1>5, <3>1
    <3>2. CASE j + shift \in Mine(q, r) /\ p[j].chunk = q[j + shift].chunk
      BY <3>2 DEF InOrder
    <3> QED
      BY <1>4, <3>1, <3>2
  <2>3. \A i, j \in Mine(p, r) : i < j => p[i].chunk < p[j].chunk
    <3> TAKE i, j \in Mine(p, r)
    <3> HAVE i < j
    <3>1. i < Len(p) /\ i + shift \in Mine(q, r) /\ p[i].chunk = q[i + shift].chunk /\ i \in Nat /\ j \in Nat
      BY <1>1, <1>4 DEF Mine
    <3>2. CASE j = Len(p)
      BY <1>4, <1>5, <3>1, <3>2, SMTT(30)
    <3>3. CASE j # Len(p)
      BY <1>4, <3>1, <3>3 DEF InOrder
    <3> QED
      BY <3>2, <3>3
  <2> QED
    BY <2>1, <2>2, <2>3 DEF InOrder
<1>7. Coming(got, p, r) \subseteq Coming(got, q, r) \cup {n + 1}
  BY <1>4 DEF Coming
<1>8. Len(p) \in Mine(p, r) /\ p[Len(p)].chunk = n + 1
  <2>1. Len(p) \in 1..Len(p)
    BY <1>1, <1>d
  <2> QED
    BY <1>0, <1>1, <1>i, <2>1
<1>9. ~Overflows(q, r) => Coming(got, q, r) \cup {n + 1} \subseteq Coming(got, p, r)
  <2> SUFFICES ASSUME ~Overflows(q, r), NEW i \in Mine(q, r) PROVE q[i].chunk \in Coming(got, p, r)
    BY <1>8 DEF Coming
  <2>1. i >= 1 + shift
    <3>1. CASE shift = 0
      BY <3>1 DEF Mine
    <3>2. CASE shift = 1 /\ i = 1
      <4>1. Len(q) = QueueCap /\ Head(q) = q[1]
        BY <1>2, <1>b, <3>2
      <4> QED
        BY <3>2, <4>1 DEF Overflows, Mine
    <3> QED
      BY <3>1, <3>2 DEF Mine
  <2>2. i - shift \in Mine(p, r) /\ p[i - shift] = q[i]
    BY <1>3, <2>1
  <2> QED
    BY <2>2 DEF Coming
<1>10. Latest(got, p, r, n + 1, 0)
  BY <1>1, <1>8 DEF Latest
<1> QED
  BY <1>6, <1>7, <1>9, <1>10

\* A frame of another attachment: it may cost one of this one.
LEMMA PushOther ==
  ASSUME NEW q \in Seq(Frame), Len(q) <= QueueCap, NEW r \in Nat, NEW n \in Nat, NEW got \in Seq(Nat),
         InOrder(got, q, r), Coming(got, q, r) \subseteq 1..n,
         NEW f \in Frame, f.req # r, NEW p, Pushed(q, f, p)
  PROVE  /\ InOrder(got, p, r) /\ Coming(got, p, r) \subseteq 1..n
         /\ ~Overflows(q, r) => Coming(got, p, r) = Coming(got, q, r)
         /\ \A k \in Nat : k + 1 < QueueCap /\ Latest(got, q, r, n, k) => Latest(got, p, r, n, k + 1)
<1>1. /\ p \in Seq(Frame) /\ Len(p) <= QueueCap /\ Len(p) >= 1 /\ p[Len(p)] = f
      /\ Len(q) < QueueCap => /\ Len(p) = Len(q) + 1 /\ \A i \in 1..Len(q) : p[i] = q[i]
      /\ Len(q) = QueueCap => /\ Len(p) = Len(q) /\ \A i \in 2..Len(q) : p[i - 1] = q[i]
  BY DEF Pushed
<1>b. QueueCap \in Nat
  BY TerminalAssumption DEF TerminalAssumption
<1>q. Len(q) <= QueueCap
  OBVIOUS
<1>d. Len(p) \in Nat /\ Len(q) \in Nat
  BY <1>1
<1>i. /\ \A i : i \in Mine(q, r) <=> i \in 1..Len(q) /\ q[i].req = r
      /\ \A i : i \in Mine(p, r) <=> i \in 1..Len(p) /\ p[i].req = r
  BY <1>1, MineIs
<1>2. PICK shift \in {0, 1} : /\ Len(p) = Len(q) + 1 - shift /\ \A i \in (1 + shift)..Len(q) : p[i - shift] = q[i]
                              /\ shift = 0 <=> Len(q) < QueueCap
  <2>1. CASE Len(q) < QueueCap
    <3>1. Len(p) = Len(q) + 1 - 0
      BY <1>1, <1>d, <2>1
    <3>2. ASSUME NEW i \in (1 + 0)..Len(q) PROVE p[i - 0] = q[i]
      <4>1. i \in 1..Len(q) /\ i - 0 = i
        BY <1>d
      <4> QED
        BY <1>1, <2>1, <4>1
    <3> QED
      BY <2>1, <3>1, <3>2
  <2>2. CASE ~(Len(q) < QueueCap)
    <3>0. Len(q) = QueueCap
      BY <1>d, <1>b, <1>q, <2>2
    <3>1. Len(p) = Len(q) + 1 - 1
      BY <1>1, <1>d, <3>0
    <3>2. ASSUME NEW i \in (1 + 1)..Len(q) PROVE p[i - 1] = q[i]
      <4>1. i \in 2..Len(q)
        BY <1>d
      <4> QED
        BY <1>1, <3>0, <4>1
    <3> QED
      BY <2>2, <3>1, <3>2
  <2> QED
    BY <2>1, <2>2
<1>3. \A i \in Mine(q, r) \cap ((1 + shift)..Len(q)) : i - shift \in Mine(p, r) /\ p[i - shift] = q[i]
  BY <1>1, <1>2 DEF Mine
<1>4. \A j \in Mine(p, r) : /\ j \in Nat /\ j < Len(p) /\ j + shift \in Mine(q, r) /\ p[j] = q[j + shift]
  <2> TAKE j \in Mine(p, r)
  <2>1. j \in 1..Len(p) /\ j # Len(p) /\ p[j].req = r
    BY <1>1, <1>i
  <2>2. j < Len(p) /\ j + shift \in (1 + shift)..Len(q) /\ (j + shift) - shift = j
    BY <1>d, <1>2, <2>1
  <2>3. q[j + shift] = p[j]
    BY <1>2, <2>2
  <2>4. j + shift \in 1..Len(q)
    BY <1>d, <2>2
  <2> QED
    BY <1>i, <2>1, <2>2, <2>3, <2>4
<1>5. InOrder(got, p, r)
  <2>1. \A i \in DOMAIN got, j \in Mine(p, r) : got[i] < p[j].chunk
    BY <1>4 DEF InOrder
  <2>2. ASSUME NEW i \in Mine(p, r), NEW j \in Mine(p, r), i < j PROVE p[i].chunk < p[j].chunk
    <3>1. i + shift \in Mine(q, r) /\ j + shift \in Mine(q, r) /\ p[i] = q[i + shift] /\ p[j] = q[j + shift]
      BY <1>4
    <3>2. i + shift < j + shift
      BY <1>4, <2>2
    <3> QED
      BY <3>1, <3>2 DEF InOrder
  <2> QED
    BY <2>1, <2>2 DEF InOrder
<1>6. Coming(got, p, r) \subseteq Coming(got, q, r)
  BY <1>4 DEF Coming
<1>7. ~Overflows(q, r) => Coming(got, q, r) \subseteq Coming(got, p, r)
  <2> SUFFICES ASSUME ~Overflows(q, r), NEW i \in Mine(q, r) PROVE q[i].chunk \in Coming(got, p, r)
    BY DEF Coming
  <2>1. i >= 1 + shift
    <3>1. CASE shift = 0
      BY <3>1 DEF Mine
    <3>2. CASE shift = 1 /\ i = 1
      <4>1. Len(q) = QueueCap /\ Head(q) = q[1]
        BY <1>2, <1>b, <3>2
      <4> QED
        BY <3>2, <4>1 DEF Overflows, Mine
    <3> QED
      BY <3>1, <3>2 DEF Mine
  <2>2. i \in Mine(q, r) \cap ((1 + shift)..Len(q))
    BY <2>1 DEF Mine
  <2> QED
    BY <1>3, <2>2 DEF Coming
<1>8. ASSUME NEW k \in Nat, k + 1 < QueueCap, Latest(got, q, r, n, k)
      PROVE  Latest(got, p, r, n, k + 1)
  <2> SUFFICES ASSUME n > 0, n \notin Range(got)
               PROVE  \E i \in Mine(p, r) : p[i].chunk = n /\ Len(p) - i <= k + 1
    BY DEF Latest
  <2>1. PICK i \in Mine(q, r) : q[i].chunk = n /\ Len(q) - i <= k
    BY <1>8 DEF Latest
  <2>2. i \in 1..Len(q) /\ i >= 1 + shift
    <3>1. i \in 1..Len(q)
      BY <2>1 DEF Mine
    <3>2. CASE shift = 1 /\ i = 1
      BY <1>1, <1>2, <1>8, <1>b, <2>1, <3>2
    <3> QED
      BY <1>2, <3>1, <3>2
  <2>3. i - shift \in Mine(p, r) /\ p[i - shift].chunk = n
    BY <1>3, <2>1, <2>2
  <2>4. Len(p) - (i - shift) <= k + 1
    BY <1>1, <1>2, <2>1, <2>2
  <2> QED
    BY <2>3, <2>4
<1> QED
  BY <1>5, <1>6, <1>7, <1>8

\* A frame is written, to the page if it is of the latest attachment.
LEMMA WriteOne ==
  ASSUME NEW q \in Seq(Frame), NEW r \in Nat, NEW n \in Nat, NEW got \in Seq(Nat),
         InOrder(got, q, r), NEW p, Taken(q, p), NEW has, has = Given(got, q, r)
  PROVE  /\ InOrder(has, p, r) /\ Coming(has, p, r) = Coming(got, q, r)
         /\ \A k \in Nat : Latest(got, q, r, n, k) => Latest(has, p, r, n, k)
<1>1. /\ p \in Seq(Frame) /\ Len(p) = Len(q) - 1 /\ \A i \in 1..Len(p) : p[i] = q[i + 1]
      /\ Head(q) = q[1] /\ q[1] \in Frame /\ Len(q) >= 1
  BY DEF Taken
<1>2. \A i \in Mine(q, r) : i = 1 \/ (i - 1 \in Mine(p, r) /\ p[i - 1] = q[i])
  BY <1>1, SMTT(30) DEF Mine
<1>3. \A j \in Mine(p, r) : j \in Nat /\ j >= 1 /\ j + 1 \in Mine(q, r) /\ p[j] = q[j + 1]
  BY <1>1 DEF Mine
<1>4. CASE q[1].req = r
  <2>1. has = Append(got, q[1].chunk) /\ q[1].chunk \in Nat /\ 1 \in Mine(q, r)
    BY <1>1, <1>4 DEF Mine, Frame, Given
  <2>2. /\ has \in Seq(Nat) /\ Len(has) = Len(got) + 1 /\ has[Len(has)] = q[1].chunk
        /\ \A i \in 1..Len(got) : has[i] = got[i]
        /\ DOMAIN has = 1..Len(has) /\ DOMAIN got = 1..Len(got)
    BY <2>1
  <2>3. InOrder(has, p, r)
    <3>1. \A i, j \in DOMAIN has : i < j => has[i] < has[j]
      BY <2>1, <2>2 DEF InOrder
    <3>2. \A i \in DOMAIN has, j \in Mine(p, r) : has[i] < p[j].chunk
      <4> TAKE i \in DOMAIN has, j \in Mine(p, r)
      <4>0. j + 1 \in Mine(q, r) /\ p[j] = q[j + 1] /\ 1 < j + 1
        BY <1>3
      <4>1. CASE i \in DOMAIN got
        BY <2>2, <4>0, <4>1 DEF InOrder
      <4>2. CASE i = Len(has)
        BY <2>1, <2>2, <4>0, <4>2 DEF InOrder
      <4> QED
        BY <2>2, <4>1, <4>2
    <3>3. \A i, j \in Mine(p, r) : i < j => p[i].chunk < p[j].chunk
      <4> TAKE i, j \in Mine(p, r)
      <4> HAVE i < j
      <4>1. i + 1 \in Mine(q, r) /\ j + 1 \in Mine(q, r) /\ i + 1 < j + 1 /\ p[i] = q[i + 1] /\ p[j] = q[j + 1]
        BY <1>3
      <4> QED
        BY <4>1 DEF InOrder
    <3> QED
      BY <3>1, <3>2, <3>3 DEF InOrder
  <2>4. Range(has) = Range(got) \cup {q[1].chunk}
    <3>0. Len(got) \in Nat
      OBVIOUS
    <3>1. \A i \in DOMAIN has : i \in DOMAIN got \/ i = Len(has)
      BY <2>2, <3>0
    <3>2. \A i \in DOMAIN got : i \in DOMAIN has /\ has[i] = got[i]
      BY <2>2, <3>0
    <3>3. Len(has) \in DOMAIN has
      BY <2>2, <3>0
    <3> QED
      BY <2>2, <3>1, <3>2, <3>3 DEF Range
  <2>5. {q[i].chunk : i \in Mine(q, r)} = {p[j].chunk : j \in Mine(p, r)} \cup {q[1].chunk}
    <3>1. \A i \in Mine(q, r) : q[i].chunk \in {p[j].chunk : j \in Mine(p, r)} \cup {q[1].chunk}
      BY <1>2
    <3>2. \A j \in Mine(p, r) : p[j].chunk \in {q[i].chunk : i \in Mine(q, r)}
      BY <1>3
    <3> QED
      BY <2>1, <3>1, <3>2
  <2>6. ASSUME NEW k \in Nat, Latest(got, q, r, n, k) PROVE Latest(has, p, r, n, k)
    <3> SUFFICES ASSUME n > 0, n \notin Range(got), n # q[1].chunk
                 PROVE  \E j \in Mine(p, r) : p[j].chunk = n /\ Len(p) - j <= k
      BY <2>4 DEF Latest
    <3>1. PICK i \in Mine(q, r) : q[i].chunk = n /\ Len(q) - i <= k
      BY <2>6 DEF Latest
    <3>2. i \in 1..Len(q) /\ i # 1
      BY <3>1 DEF Mine
    <3>3. i - 1 \in Mine(p, r) /\ p[i - 1].chunk = n
      BY <1>2, <3>1, <3>2
    <3>4. Len(p) - (i - 1) <= k
      BY <1>1, <3>1, <3>2
    <3> QED
      BY <3>3, <3>4
  <2> QED
    BY <2>3, <2>4, <2>5, <2>6 DEF Coming
<1>5. CASE q[1].req # r
  <2>1. has = got
    BY <1>1, <1>5 DEF Given
  <2>2. \A i \in Mine(q, r) : i - 1 \in Mine(p, r) /\ p[i - 1] = q[i]
    BY <1>2, <1>5 DEF Mine
  <2>3. InOrder(got, p, r)
    <3>1. \A i \in DOMAIN got, j \in Mine(p, r) : got[i] < p[j].chunk
      BY <1>3 DEF InOrder
    <3>2. \A i, j \in Mine(p, r) : i < j => p[i].chunk < p[j].chunk
      <4> TAKE i, j \in Mine(p, r)
      <4> HAVE i < j
      <4>1. i + 1 \in Mine(q, r) /\ j + 1 \in Mine(q, r) /\ i + 1 < j + 1 /\ p[i] = q[i + 1] /\ p[j] = q[j + 1]
        BY <1>3
      <4> QED
        BY <4>1 DEF InOrder
    <3> QED
      BY <3>1, <3>2 DEF InOrder
  <2>4. {q[i].chunk : i \in Mine(q, r)} = {p[j].chunk : j \in Mine(p, r)}
    <3>1. \A i \in Mine(q, r) : q[i].chunk \in {p[j].chunk : j \in Mine(p, r)}
      BY <2>2
    <3>2. \A j \in Mine(p, r) : p[j].chunk \in {q[i].chunk : i \in Mine(q, r)}
      BY <1>3
    <3> QED
      BY <3>1, <3>2
  <2>5. ASSUME NEW k \in Nat, Latest(got, q, r, n, k) PROVE Latest(got, p, r, n, k)
    <3> SUFFICES ASSUME n > 0, n \notin Range(got)
                 PROVE  \E j \in Mine(p, r) : p[j].chunk = n /\ Len(p) - j <= k
      BY DEF Latest
    <3>1. PICK i \in Mine(q, r) : q[i].chunk = n /\ Len(q) - i <= k
      BY <2>5 DEF Latest
    <3>2. i \in 1..Len(q)
      BY <3>1 DEF Mine
    <3>3. i - 1 \in Mine(p, r) /\ p[i - 1].chunk = n
      BY <2>2, <3>1
    <3>4. Len(p) - (i - 1) <= k
      BY <1>1, <3>1, <3>2
    <3> QED
      BY <3>3, <3>4
  <2> QED
    BY <2>1, <2>3, <2>4, <2>5 DEF Coming
<1> QED
  BY <1>4, <1>5

\* A replay into a queue that holds nothing of the attachment: all of it is kept.
LEMMA ReplayFlows ==
  ASSUME NEW q \in Seq(Frame), Len(q) <= QueueCap, NEW r \in Nat, NEW n \in Nat, NEW b \in Seq(Nat),
         Len(b) <= BufCap, Len(b) <= n, n > 0 => Len(b) > 0, \A i \in 1..Len(b) : b[i] = n - Len(b) + i,
         \A i \in DOMAIN q : q[i].req < r, NEW p, p = Replay(q, b, r)
  PROVE  /\ p \in Seq(Frame) /\ Len(p) <= QueueCap /\ \A i \in DOMAIN p : p[i].req <= r
         /\ InOrder(<<>>, p, r) /\ Coming(<<>>, p, r) = (n - Len(b) + 1)..n
         /\ Latest(<<>>, p, r, n, 0)
<1>0. QueueCap \in Nat /\ Len(b) \in Nat /\ Len(b) <= QueueCap
  BY TerminalAssumption DEF TerminalAssumption
<1> DEFINE g == Frames(b, r)
           w == q \o g
<1>1. /\ g \in Seq(Frame) /\ Len(g) = Len(b)
      /\ \A i \in 1..Len(b) : g[i].req = r /\ g[i].chunk = n - Len(b) + i
  <2>1. g = [i \in 1..Len(b) |-> [req |-> r, chunk |-> b[i]]]
    BY DEF Frames
  <2>2. \A i \in 1..Len(b) : b[i] \in Nat
    OBVIOUS
  <2>3. \A i \in 1..Len(b) : [req |-> r, chunk |-> b[i]] \in Frame
    BY <2>2 DEF Frame
  <2> HIDE DEF g
  <2> QED
    BY <1>0, <2>1, <2>3
<1>2. p = IF Len(w) <= QueueCap THEN w ELSE SubSeq(w, Len(w) - QueueCap + 1, Len(w))
  BY DEF Replay, Newest
<1> HIDE DEF g
<1>3. /\ w \in Seq(Frame) /\ Len(w) = Len(q) + Len(b)
      /\ \A i \in 1..Len(q) : w[i] = q[i]
      /\ \A i \in 1..Len(b) : w[Len(q) + i] = g[i]
  <2>1. /\ w \in Seq(Frame) /\ Len(w) = Len(q) + Len(g)
        /\ \A i \in 1..(Len(q) + Len(g)) : w[i] = IF i <= Len(q) THEN q[i] ELSE g[i - Len(q)]
    <3>1. q \in Seq(Frame) /\ g \in Seq(Frame)
      BY <1>1
    <3> QED
      BY <3>1, ConcatProperties, Zenon
  <2> HIDE DEF w
  <2>2. Len(q) \in Nat
    OBVIOUS
  <2>3. \A i \in 1..Len(q) : w[i] = q[i]
    BY <1>0, <1>1, <2>1, <2>2
  <2>4. ASSUME NEW i \in 1..Len(b) PROVE w[Len(q) + i] = g[i]
    <3>1. Len(q) + i \in 1..(Len(q) + Len(g)) /\ ~(Len(q) + i <= Len(q)) /\ (Len(q) + i) - Len(q) = i
      BY <1>0, <1>1, <2>2
    <3> QED
      BY <2>1, <3>1
  <2> QED
    BY <1>1, <2>1, <2>3, <2>4
<1>l. Len(q) \in Nat /\ Len(w) \in Nat
  BY <1>3
<1> HIDE DEF w
<1>4. PICK cut \in Nat : /\ cut <= Len(q) /\ Len(p) = Len(w) - cut /\ Len(p) <= QueueCap /\ p \in Seq(Frame)
                         /\ \A i \in 1..Len(p) : p[i] = w[cut + i]
  <2>1. CASE Len(w) <= QueueCap
    <3>1. p = w
      BY <1>2, <2>1
    <3>2. 0 <= Len(q) /\ Len(p) = Len(w) - 0 /\ Len(p) <= QueueCap /\ p \in Seq(Frame)
          /\ \A i \in 1..Len(p) : p[i] = w[0 + i]
      BY <1>3, <1>l, <2>1, <3>1
    <3> QED
      BY <3>2
  <2>2. CASE Len(w) > QueueCap
    <3>1. p = SubSeq(w, Len(w) - QueueCap + 1, Len(w))
      BY <1>0, <1>2, <1>l, <2>2
    <3> DEFINE m == Len(w) - QueueCap
    <3>2. m \in Nat /\ m <= Len(q) /\ Len(w) - m = QueueCap
      BY <1>0, <1>3, <1>l, <2>2
    <3>3. p = SubSeq(w, m + 1, Len(w))
      BY <3>1
    <3> HIDE DEF m
    <3>4. \A i \in (m + 1)..Len(w) : w[i] \in Frame
      BY <1>3, <1>l, <3>2
    <3>5. p \in Seq(Frame) /\ Len(p) = (IF m + 1 <= Len(w) THEN Len(w) - (m + 1) + 1 ELSE 0)
          /\ \A i \in 1..(Len(w) - (m + 1) + 1) : p[i] = w[(m + 1) + i - 1]
      BY <1>l, <3>2, <3>3, <3>4, SubSeqProperties
    <3>6. Len(p) = Len(w) - m /\ Len(w) - (m + 1) + 1 = Len(w) - m
      BY <1>0, <1>l, <3>2, <3>5
    <3>7. \A i \in 1..Len(p) : p[i] = w[m + i]
      <4> TAKE i \in 1..Len(p)
      <4>1. i \in 1..(Len(w) - (m + 1) + 1) /\ (m + 1) + i - 1 = m + i
        BY <3>2, <3>6
      <4> QED
        BY <3>5, <4>1
    <3> QED
      BY <1>0, <3>2, <3>5, <3>6, <3>7
  <2>3. Len(w) <= QueueCap \/ Len(w) > QueueCap
    BY <1>0, <1>l
  <2> QED
    BY <2>1, <2>2, <2>3
<1>m. Len(p) \in Nat /\ Len(p) = Len(q) + Len(b) - cut
  BY <1>3, <1>4
<1>i. \A i : i \in Mine(p, r) <=> i \in 1..Len(p) /\ p[i].req = r
  BY <1>4, MineIs
<1>5. \A i \in 1..Len(p) : \/ cut + i <= Len(q) /\ p[i] = q[cut + i] /\ p[i].req < r
                           \/ cut + i > Len(q) /\ p[i] = g[cut + i - Len(q)] /\ p[i].req = r
                              /\ p[i].chunk = n - Len(b) + (cut + i - Len(q))
                              /\ cut + i - Len(q) \in 1..Len(b)
  <2> TAKE i \in 1..Len(p)
  <2>1. CASE cut + i <= Len(q)
    <3>1. cut + i \in 1..Len(q)
      BY <1>l, <1>m, <2>1
    <3> QED
      BY <1>3, <1>4, <2>1, <3>1, SMTT(30)
  <2>2. CASE cut + i > Len(q)
    <3>1. cut + i - Len(q) \in 1..Len(b) /\ Len(q) + (cut + i - Len(q)) = cut + i
      BY <1>0, <1>l, <1>m, <2>2
    <3>2. w[cut + i] = g[cut + i - Len(q)]
      BY <1>3, <3>1
    <3> QED
      BY <1>1, <1>4, <2>2, <3>1, <3>2
  <2> QED
    BY <2>1, <2>2, <1>4
<1>6. \A i \in Mine(p, r) : i \in 1..Len(p) /\ p[i].chunk = n - Len(b) + (cut + i - Len(q))
                            /\ cut + i - Len(q) \in 1..Len(b)
  <2> TAKE i \in Mine(p, r)
  <2>1. i \in 1..Len(p) /\ p[i].req = r
    BY <1>i
  <2>2. ~(p[i].req < r)
    BY <2>1
  <2> QED
    BY <1>5, <2>1, <2>2
<1>7. \A j \in 1..Len(b) : /\ Len(q) + j - cut \in Mine(p, r)
                           /\ p[Len(q) + j - cut].chunk = n - Len(b) + j
  <2> TAKE j \in 1..Len(b)
  <2>1. Len(q) + j - cut \in 1..Len(p) /\ cut + (Len(q) + j - cut) > Len(q) /\ cut + (Len(q) + j - cut) - Len(q) = j
    BY <1>0, <1>l, <1>m, <1>4, SMTT(30)
  <2>2. p[Len(q) + j - cut].req = r /\ p[Len(q) + j - cut].chunk = n - Len(b) + j
    <3> DEFINE i == Len(q) + j - cut
    <3>1. i \in 1..Len(p) /\ ~(cut + i <= Len(q)) /\ cut + i - Len(q) = j
      BY <1>0, <1>l, <1>m, <2>1
    <3> HIDE DEF i
    <3>2. p[i].req = r /\ p[i].chunk = n - Len(b) + (cut + i - Len(q))
      BY <1>5, <3>1
    <3> QED
      BY <3>1, <3>2 DEF i
  <2> QED
    BY <1>i, <2>1, <2>2
<1>8. InOrder(<<>>, p, r)
  <2>1. ASSUME NEW i \in Mine(p, r), NEW j \in Mine(p, r), i < j PROVE p[i].chunk < p[j].chunk
    <3>0. i \in 1..Len(p) /\ j \in 1..Len(p)
      BY <1>i
    <3>1. /\ p[i].chunk = n - Len(b) + (cut + i - Len(q)) /\ p[j].chunk = n - Len(b) + (cut + j - Len(q))
      BY <1>6
    <3>2. n - Len(b) + (cut + i - Len(q)) < n - Len(b) + (cut + j - Len(q))
      BY <1>0, <1>l, <1>m, <2>1, <3>0
    <3> QED
      BY <3>1, <3>2
  <2> QED
    BY <2>1 DEF InOrder
<1>9. Coming(<<>>, p, r) = (n - Len(b) + 1)..n
  <2>1. Coming(<<>>, p, r) = {p[i].chunk : i \in Mine(p, r)}
    BY DEF Coming, Range
  <2>2. \A i \in Mine(p, r) : p[i].chunk \in (n - Len(b) + 1)..n
    <3>1. \A k \in 1..Len(b) : n - Len(b) + k \in (n - Len(b) + 1)..n
      BY <1>0
    <3> QED
      BY <1>6, <3>1
  <2>3. ASSUME NEW x \in (n - Len(b) + 1)..n PROVE \E i \in Mine(p, r) : p[i].chunk = x
    <3>1. x - n + Len(b) \in 1..Len(b) /\ n - Len(b) + (x - n + Len(b)) = x
      BY <1>0
    <3> QED
      BY <1>7, <3>1
  <2>4. Coming(<<>>, p, r) \subseteq (n - Len(b) + 1)..n
    BY <2>1, <2>2
  <2>5. (n - Len(b) + 1)..n \subseteq Coming(<<>>, p, r)
    BY <2>1, <2>3
  <2> QED
    BY <2>4, <2>5, Zenon
<1>10. Latest(<<>>, p, r, n, 0)
  <2> SUFFICES ASSUME n > 0 PROVE \E i \in Mine(p, r) : p[i].chunk = n /\ Len(p) - i <= 0
    BY DEF Latest
  <2>1. Len(b) \in 1..Len(b) /\ n - Len(b) + Len(b) = n
    BY <1>0
  <2>2. Len(p) - (Len(q) + Len(b) - cut) <= 0
    BY <1>0, <1>l, <1>m
  <2> QED
    BY <1>7, <2>1, <2>2
<1>11. \A i \in DOMAIN p : p[i].req <= r
  <2>1. DOMAIN p = 1..Len(p)
    BY <1>4
  <2>2. \A i \in 1..Len(p) : p[i] \in Frame
    BY <1>4
  <2> QED
    BY <1>5, <2>1, <2>2 DEF Frame
<1> QED
  BY <1>4, <1>8, <1>9, <1>10, <1>11

\* The ring buffer holds the latest chunks.
LEMMA RingKeepsLatest ==
  ASSUME NEW b \in Seq(Nat), NEW n \in Nat, Len(b) <= BufCap, Len(b) <= n,
         \A i \in 1..Len(b) : b[i] = n - Len(b) + i,
         NEW d, d = RingWrite(b, n + 1)
  PROVE  /\ d \in Seq(Nat) /\ Len(d) <= BufCap /\ Len(d) <= n + 1 /\ Len(d) > 0
         /\ \A i \in 1..Len(d) : d[i] = (n + 1) - Len(d) + i
<1>0. BufCap \in Nat \ {0}
  BY TerminalAssumption DEF TerminalAssumption
<1>l. Len(b) \in Nat /\ n + 1 \in Nat
  OBVIOUS
<1>n. \A i \in 1..Len(b) : b[i] = n - Len(b) + i
  OBVIOUS
<1>1. CASE Len(b) < BufCap
  <2>1. d = Append(b, n + 1)
    BY <1>1 DEF RingWrite
  <2>2. /\ d \in Seq(Nat) /\ Len(d) = Len(b) + 1 /\ d[Len(b) + 1] = n + 1
        /\ \A i \in 1..Len(b) : d[i] = b[i]
    <3>1. /\ Append(b, n + 1) \in Seq(Nat) /\ Len(Append(b, n + 1)) = Len(b) + 1
          /\ Append(b, n + 1)[Len(b) + 1] = n + 1
          /\ \A i \in 1..Len(b) : Append(b, n + 1)[i] = b[i]
      BY <1>l, AppendProperties
    <3> QED
      BY <2>1, <3>1
  <2>3. ASSUME NEW i \in 1..Len(d) PROVE d[i] = (n + 1) - Len(d) + i
    <3>1. CASE i = Len(b) + 1
      BY <1>l, <2>2, <3>1
    <3>2. CASE i # Len(b) + 1
      <4>1. i \in 1..Len(b)
        BY <1>l, <2>2, <3>2
      <4> QED
        <5>1. d[i] = n - Len(b) + i
          BY <1>n, <2>2, <4>1
        <5>2. n - Len(b) + i = (n + 1) - (Len(b) + 1) + i
          BY <1>l, <4>1
        <5> QED
          BY <2>2, <5>1, <5>2
    <3> QED
      BY <3>1, <3>2
  <2> QED
    BY <1>0, <1>l, <1>1, <2>2, <2>3
<1>2. CASE Len(b) = BufCap
  <2>1. d = Append(Tail(b), n + 1) /\ b # <<>>
    BY <1>0, <1>2 DEF RingWrite
  <2>2. Tail(b) \in Seq(Nat) /\ Len(Tail(b)) = Len(b) - 1 /\ \A i \in 1..Len(Tail(b)) : Tail(b)[i] = b[i + 1]
    BY <2>1, HeadTailProperties
  <2> DEFINE e == Tail(b)
  <2> HIDE DEF e
  <2>a. d = Append(e, n + 1) /\ e \in Seq(Nat) /\ Len(e) = Len(b) - 1 /\ \A i \in 1..Len(e) : e[i] = b[i + 1]
    BY <2>1, <2>2 DEF e
  <2>b. /\ d \in Seq(Nat) /\ Len(d) = Len(e) + 1 /\ d[Len(e) + 1] = n + 1
        /\ \A i \in 1..Len(e) : d[i] = e[i]
    <3>1. /\ Append(e, n + 1) \in Seq(Nat) /\ Len(Append(e, n + 1)) = Len(e) + 1
          /\ Append(e, n + 1)[Len(e) + 1] = n + 1
          /\ \A i \in 1..Len(e) : Append(e, n + 1)[i] = e[i]
      BY <1>l, <2>a, AppendProperties
    <3> QED
      BY <2>a, <3>1
  <2>3. /\ Len(d) = Len(b) /\ d[Len(b)] = n + 1
        /\ \A i \in 1..(Len(b) - 1) : d[i] = b[i + 1]
    <3>1. Len(e) + 1 = Len(b)
      BY <1>l, <2>a
    <3> QED
      BY <2>a, <2>b, <3>1
  <2>4. ASSUME NEW i \in 1..Len(d) PROVE d[i] = (n + 1) - Len(d) + i
    <3>1. CASE i = Len(b)
      <4>1. n + 1 = (n + 1) - Len(b) + Len(b)
        BY <1>l
      <4> QED
        BY <2>3, <3>1, <4>1
    <3>2. CASE i # Len(b)
      <4>1. i \in 1..(Len(b) - 1) /\ i + 1 \in 1..Len(b)
        BY <1>l, <2>3, <3>2
      <4>2. d[i] = n - Len(b) + (i + 1)
        BY <1>n, <2>3, <4>1
      <4>3. n - Len(b) + (i + 1) = (n + 1) - Len(b) + i
        BY <1>l, <4>1
      <4> QED
        BY <2>3, <4>2, <4>3
    <3> QED
      BY <3>1, <3>2
  <2> QED
    BY <1>0, <1>l, <1>2, <2>b, <2>3, <2>4
<1> QED
  BY <1>0, <1>l, <1>1, <1>2

-----------------------------------------------------------------------------
(***************************************************************************)
(* The invariant of the output.                                            *)
(***************************************************************************)
OutTypes ==
  /\ out \in [Sessions -> Nat] /\ buf \in [Sessions -> Seq(Nat)]
  /\ reader \in [Sessions -> {"read", "end"}]
  /\ attached \in [Sessions -> [Clients -> Nat]]
  /\ cur \in [Clients -> Sessions \cup {None}] /\ req \in [Clients -> Nat]
  /\ queue \in [Clients -> Seq(Frame)] /\ seen \in [Clients -> Seq(Nat)]
  /\ base \in [Clients -> Nat] /\ lost \in [Clients -> BOOLEAN]

\* The ring buffer holds the latest chunks.
Ring(s) ==
  /\ Len(buf[s]) <= BufCap /\ Len(buf[s]) <= out[s] /\ (out[s] > 0 => Len(buf[s]) > 0)
  /\ \A i \in 1..Len(buf[s]) : buf[s][i] = out[s] - Len(buf[s]) + i

\* A request has its number before anything of it is registered or queued, and no
\* two sessions have the same of one connection.
Going == {"map", "detach", "attach"}
Numbers(c) ==
  /\ Len(queue[c]) <= QueueCap
  /\ \A i \in 1..Len(queue[c]) : queue[c][i].req <= req[c]
  /\ \A s \in Sessions : attached[s][c] <= req[c]
  /\ pc[c] \in Going => /\ \A i \in 1..Len(queue[c]) : queue[c][i].req < req[c]
                        /\ \A s \in Sessions : attached[s][c] < req[c]
  /\ \A s, t \in Sessions : s # t /\ attached[s][c] # 0 => attached[s][c] # attached[t][c]
  /\ conn[c] = "new" => req[c] = 0

\* Where a connection is registered.
Place(c, s) ==
  /\ pc[s] \in {"none", "started"} \/ proc[s] = "none" => attached[s][c] = 0 /\ cur[c] # s
  /\ s \in sessions => (attached[s][c] # 0 <=> cur[c] = s /\ pc[c] \notin {"forget", "done"})
  /\ req[c] # 0 /\ attached[s][c] = req[c] /\ pc[c] \notin {"forget", "done"} => cur[c] = s
  /\ pc[c] = "attach" => cur[c] = None

\* Seamless, and how far from the end of the queue the latest chunk may be: an
\* ended session publishes at most once more.
Over(c, s) == {t \in Leftovers(c, s) : reader[t] = "end"}
Flow(c, s) ==
  Watching(c, s) =>
    /\ base[c] <= out[s]
    /\ InOrder(seen[c], queue[c], req[c])
    /\ Coming(seen[c], queue[c], req[c]) \subseteq 1..out[s]
    /\ ~lost[c] => Coming(seen[c], queue[c], req[c]) = (base[c] + 1)..out[s]
    /\ Cardinality(Leftovers(c, s)) < QueueCap =>
         Latest(seen[c], queue[c], req[c], out[s], Cardinality(Over(c, s)))

Channel(c) == Numbers(c) /\ \A s \in Sessions : Place(c, s) /\ Flow(c, s)
RingOK == \A s \in Sessions : Ring(s)
ChannelOK == \A c \in Clients : Channel(c)
OutInv == OutTypes /\ RingOK /\ ChannelOK

LEMMA KeepChannel ==
  ASSUME NEW d \in Clients, Channel(d), out' = out,
         queue'[d] = queue[d], seen'[d] = seen[d], base'[d] = base[d], lost'[d] = lost[d],
         cur'[d] = cur[d], req'[d] = req[d],
         \A s \in Sessions : attached'[s][d] = attached[s][d],
         \A s \in Sessions : attached[s][d] # 0 => reader'[s] = reader[s],
         pc'[d] \in Going => pc[d] \in Going, pc'[d] = "attach" => pc[d] = "attach",
         pc'[d] \in {"forget", "done"} <=> pc[d] \in {"forget", "done"},
         \A s \in Sessions : pc'[s] \in {"none", "started"} \/ proc'[s] = "none" =>
                               pc[s] \in {"none", "started"} \/ proc[s] = "none",
         \A s \in sessions' : s \in sessions \/ (s \in Sessions /\ pc[s] \in {"none", "started"}),
         conn'[d] = "open" => conn[d] \in {"open", "new"}, conn'[d] = "new" => conn[d] = "new"
  PROVE  Channel(d)'
<1>1. Numbers(d)'
  BY DEF Channel, Numbers
<1>2. ASSUME NEW s \in Sessions PROVE Place(d, s)'
  <2>1. Place(d, s)
    BY DEF Channel
  <2>2. pc'[s] \in {"none", "started"} \/ proc'[s] = "none" => attached'[s][d] = 0 /\ cur'[d] # s
    BY <2>1 DEF Place
  <2>3. s \in sessions' => (attached'[s][d] # 0 <=> cur'[d] = s /\ pc'[d] \notin {"forget", "done"})
    BY <2>1 DEF Place
  <2> QED
    BY <2>1, <2>2, <2>3 DEF Place
<1>3. ASSUME NEW s \in Sessions PROVE Flow(d, s)'
  <2>0. Flow(d, s)
    BY DEF Channel
  <2>1. Leftovers(d, s)' = Leftovers(d, s)
    BY DEF Leftovers
  <2>2. Over(d, s)' = Over(d, s)
    BY <2>1 DEF Over, Leftovers
  <2>3. Watching(d, s)' => Watching(d, s)
    BY DEF Watching, Channel, Numbers
  <2>4. /\ InOrder(seen[d], queue[d], req[d])' <=> InOrder(seen[d], queue[d], req[d])
        /\ Coming(seen[d], queue[d], req[d])' = Coming(seen[d], queue[d], req[d])
    BY DEF InOrder, Coming, Mine
  <2>5. Latest(seen[d], queue[d], req[d], out[s], Cardinality(Over(d, s)))' <=>
          Latest(seen[d], queue[d], req[d], out[s], Cardinality(Over(d, s)))
    BY <2>2 DEF Latest, Mine
  <2> QED
    BY <2>0, <2>1, <2>3, <2>4, <2>5 DEF Flow
<1> QED
  BY <1>1, <1>2, <1>3 DEF Channel

\* Steps of no effect on output and registrations.
LEMMA QuietFlows ==
  ASSUME OutInv, UNCHANGED <<out, reader, buf, attached, queue, seen, base, lost, cur, req>>,
         \A c \in Clients : /\ pc'[c] \in Going => pc[c] \in Going
                            /\ pc'[c] = "attach" => pc[c] = "attach"
                            /\ pc'[c] \in {"forget", "done"} <=> pc[c] \in {"forget", "done"}
                            /\ conn'[c] = "open" => conn[c] \in {"open", "new"}
                            /\ conn'[c] = "new" => conn[c] = "new",
         \A s \in Sessions : pc'[s] \in {"none", "started"} \/ proc'[s] = "none" =>
                               pc[s] \in {"none", "started"} \/ proc[s] = "none",
         \A s \in sessions' : s \in sessions \/ (s \in Sessions /\ pc[s] \in {"none", "started"})
  PROVE  OutInv'
<1>1. OutTypes'
  BY DEF OutInv, OutTypes
<1>2. RingOK'
  BY DEF OutInv, RingOK, Ring
<1>3. ASSUME NEW d \in Clients PROVE Channel(d)'
  BY KeepChannel DEF OutInv, ChannelOK
<1> QED
  BY <1>1, <1>2, <1>3 DEF OutInv, ChannelOK

LEMMA ShellFlows ==
  ASSUME EndInv, OutInv, NEW s \in Sessions,
         \/ ShellExits(s) \/ WaitExit(s) \/ ClosePty(s) \/ AlarmRings(s) \/ GraceOver(s)
         \/ \E c \in Clients : Kill(c, s) \/ Input(c, s)
  PROVE  OutInv'
<1>0. proc \in [Sessions -> {"none", "up", "gone"}]
  BY DEF EndInv, EndTypes
<1>1. /\ UNCHANGED <<out, reader, buf, attached, queue, seen, base, lost, cur, req, pc, sessions, conn>>
      /\ proc' = proc \/ proc' = [proc EXCEPT ![s] = "gone"]
  <2>1. CASE ShellExits(s)
    BY <2>1 DEF ShellExits, manager, actors, wire
  <2>2. CASE WaitExit(s)
    BY <2>2 DEF WaitExit, manager, shells, actors, wire
  <2>3. CASE ClosePty(s)
    BY <2>3 DEF ClosePty, manager, shells, actors, wire
  <2>4. CASE AlarmRings(s)
    BY <2>4 DEF AlarmRings, manager, shells, actors, wire
  <2>5. CASE GraceOver(s)
    BY <2>5 DEF GraceOver, manager, actors, wire
  <2>6. CASE \E c \in Clients : Kill(c, s)
    BY <2>6 DEF Kill, manager, shells, actors, wire
  <2>7. CASE \E c \in Clients : Input(c, s)
    BY <2>7 DEF Input, manager, shells, actors, wire
  <2> QED
    BY <2>1, <2>2, <2>3, <2>4, <2>5, <2>6, <2>7
<1>2. \A t \in Sessions : proc'[t] = "none" => proc[t] = "none"
  BY <1>0, <1>1
<1>3. \A t \in sessions' : t \in sessions
  BY <1>1
<1> QED
  BY <1>1, <1>2, <1>3, QuietFlows

\* A step of watchExit or of a broadcast, and the quiet steps of a connection.
LEMMA StepFlows ==
  ASSUME EndInv, OutInv, NEW a \in Actors, NEW step, pc' = [pc EXCEPT ![a] = step],
         UNCHANGED <<out, reader, buf, attached, queue, seen, base, lost, cur, req, proc>>,
         sessions' \subseteq sessions, step \notin Going \cup {"none", "started"},
         a \in Clients => (step \in {"forget", "done"} <=> pc[a] \in {"forget", "done"}),
         \A c \in Clients : /\ conn'[c] = "open" => conn[c] \in {"open", "new"}
                            /\ conn'[c] = "new" => conn[c] = "new"
  PROVE  OutInv'
<1>0. pc \in [Actors -> SessionSteps \cup ClientSteps]
      /\ \A c \in Clients : c \in Actors /\ c \notin Sessions
      /\ \A s \in Sessions : s \in Actors
  BY SessionsApart DEF EndInv, EndTypes, Actors
<1>1. pc'[a] = step /\ \A b \in Actors \ {a} : pc'[b] = pc[b]
  BY <1>0
<1>2. \A c \in Clients : /\ pc'[c] \in Going => pc[c] \in Going
                         /\ pc'[c] = "attach" => pc[c] = "attach"
                         /\ pc'[c] \in {"forget", "done"} <=> pc[c] \in {"forget", "done"}
  <2> TAKE c \in Clients
  <2>1. CASE c = a
    BY <1>1, <2>1 DEF Going
  <2>2. CASE c # a
    BY <1>0, <1>1, <2>2
  <2> QED
    BY <2>1, <2>2
<1>3. \A s \in Sessions : pc'[s] \in {"none", "started"} \/ proc'[s] = "none" =>
                            pc[s] \in {"none", "started"} \/ proc[s] = "none"
  BY <1>0, <1>1
<1> QED
  BY <1>2, <1>3, QuietFlows

LEMMA WatchFlows ==
  ASSUME EndInv, OutInv, NEW s \in Sessions,
         \/ WatchRemove(s) \/ WatchAudience(s) \/ WatchTell(s) \/ WatchRelease(s)
  PROVE  OutInv'
<1>0. s \in Actors /\ pc \in [Actors -> SessionSteps \cup ClientSteps]
  BY DEF Actors, EndInv, EndTypes
<1>1. PICK step \in {"audience", "exit", "list", "done"} :
        /\ pc' = [pc EXCEPT ![s] = step] /\ sessions' \subseteq sessions /\ conn' = conn
        /\ pc[s] \notin {"forget", "done"}
        /\ UNCHANGED <<out, reader, buf, attached, queue, seen, base, lost, cur, req, proc>>
  <2>1. CASE WatchRemove(s)
    BY <2>1 DEF WatchRemove, RemoveDead, Goto, shells, wire
  <2>2. CASE WatchAudience(s)
    <3>1. PICK step \in {"list", "exit"} : step = IF clients = {} THEN "list" ELSE "exit"
      OBVIOUS
    <3>2. /\ pc' = [pc EXCEPT ![s] = step] /\ sessions' \subseteq sessions /\ conn' = conn
          /\ pc[s] \notin {"forget", "done"}
          /\ UNCHANGED <<out, reader, buf, attached, queue, seen, base, lost, cur, req, proc>>
      BY <2>2, <3>1 DEF WatchAudience, AfterExit, Goto, manager, shells, wire
    <3> QED
      BY <3>2
  <2>3. CASE WatchTell(s)
    <3>1. /\ pc[s] = "exit" /\ (pc' = [pc EXCEPT ![s] = "list"] \/ pc' = pc)
          /\ sessions' \subseteq sessions /\ conn' = conn
          /\ UNCHANGED <<out, reader, buf, attached, queue, seen, base, lost, cur, req, proc>>
      BY <2>3 DEF WatchTell, AfterExit, Goto, manager, shells, wire
    <3>2. pc' = [pc EXCEPT ![s] = "list"] \/ pc' = [pc EXCEPT ![s] = "exit"]
      BY <1>0, <3>1
    <3> QED
      BY <3>1, <3>2
  <2>4. CASE WatchRelease(s)
    BY <2>4 DEF WatchRelease, Goto, manager, shells, wire
  <2> QED
    BY <2>1, <2>2, <2>3, <2>4
<1>2. step \notin Going \cup {"none", "started"}
  BY DEF Going
<1>3. s \notin Clients
  BY SessionsApart
<1> QED
  BY <1>0, <1>1, <1>2, <1>3, StepFlows

LEMMA BroadcastFlows ==
  ASSUME EndInv, OutInv, NEW a \in Actors, Broadcast(a)
  PROVE  OutInv'
<1>0. pc \in [Actors -> SessionSteps \cup ClientSteps]
  BY DEF EndInv, EndTypes
<1>1. PICK step \in {"clients", "send", "release", "read"} :
        /\ pc' = [pc EXCEPT ![a] = step] /\ sessions' = sessions /\ conn' = conn
        /\ pc[a] \notin {"forget", "done"}
        /\ UNCHANGED <<out, reader, buf, attached, queue, seen, base, lost, cur, req, proc>>
  <2>1. CASE TakeList(a)
    BY <2>1 DEF TakeList, Goto, manager, shells, wire
  <2>2. CASE TakeClients(a)
    <3>1. PICK step \in {"send", "release", "read"} : step = IF clients = {} THEN AfterList(a) ELSE "send"
      BY DEF AfterList
    <3>2. /\ pc' = [pc EXCEPT ![a] = step] /\ sessions' = sessions /\ conn' = conn
          /\ pc[a] \notin {"forget", "done"}
          /\ UNCHANGED <<out, reader, buf, attached, queue, seen, base, lost, cur, req, proc>>
      BY <2>2, <3>1 DEF TakeClients, Goto, manager, shells, wire
    <3> QED
      BY <3>2
  <2>3. CASE SendToOne(a)
    <3>0. AfterList(a) \in {"release", "read"}
      BY DEF AfterList
    <3>1. /\ pc[a] = "send" /\ (pc' = [pc EXCEPT ![a] = AfterList(a)] \/ pc' = pc)
          /\ sessions' = sessions /\ conn' = conn
          /\ UNCHANGED <<out, reader, buf, attached, queue, seen, base, lost, cur, req, proc>>
      BY <2>3 DEF SendToOne, Goto, manager, shells, wire
    <3>2. pc' = [pc EXCEPT ![a] = AfterList(a)] \/ pc' = [pc EXCEPT ![a] = "send"]
      BY <1>0, <3>1
    <3> QED
      BY <3>0, <3>1, <3>2
  <2> QED
    BY <2>1, <2>2, <2>3 DEF Broadcast
<1>2. step \notin Going \cup {"none", "started"}
  BY DEF Going
<1> QED
  BY <1>1, <1>2, StepFlows

LEMMA AnswerFlows ==
  ASSUME EndInv, OutInv, NEW c \in Clients,
         \/ AttachLate(c) \/ Greet(c) \/ AttachDead(c) \/ AskList(c)
         \/ \E s \in Sessions : \E on \in Alarms : AutoClose(c, s, on)
  PROVE  OutInv'
<1>0. c \in Actors /\ c \notin Sessions /\ pc \in [Actors -> SessionSteps \cup ClientSteps]
  BY SessionsApart DEF Actors, EndInv, EndTypes
<1>1. PICK step \in {"read", "list", "dead?"} :
        /\ pc' = [pc EXCEPT ![c] = step] /\ sessions' = sessions /\ conn' = conn
        /\ pc[c] \notin {"forget", "done"}
        /\ UNCHANGED <<out, reader, buf, attached, queue, seen, base, lost, cur, req, proc>>
  <2>1. CASE AttachLate(c)
    BY <2>1 DEF AttachLate, Done, Goto, manager, shells, wire
  <2>2. CASE Greet(c)
    <3>1. /\ pc[c] = "greet" /\ (pc' = [pc EXCEPT ![c] = "list"] \/ pc' = [pc EXCEPT ![c] = "dead?"])
          /\ sessions' = sessions /\ conn' = conn
          /\ UNCHANGED <<out, reader, buf, attached, queue, seen, base, lost, cur, req, proc>>
      BY <2>2 DEF Greet, Done, Goto, manager, shells, wire
    <3> QED
      BY <3>1
  <2>3. CASE AttachDead(c)
    BY <2>3 DEF AttachDead, Done, Goto, manager, shells, wire
  <2>4. CASE AskList(c)
    <3>1. /\ pc[c] = "read" /\ pc' = pc /\ sessions' = sessions /\ conn' = conn
          /\ UNCHANGED <<out, reader, buf, attached, queue, seen, base, lost, cur, req, proc>>
      BY <2>4 DEF AskList, Reads, manager, shells, actors, wire
    <3>2. pc' = [pc EXCEPT ![c] = "read"]
      BY <1>0, <3>1
    <3> QED
      BY <3>1, <3>2
  <2>5. CASE \E s \in Sessions : \E on \in Alarms : AutoClose(c, s, on)
    <3>1. /\ pc[c] = "read" /\ (pc' = [pc EXCEPT ![c] = "list"] \/ pc' = [pc EXCEPT ![c] = "read"])
          /\ sessions' = sessions /\ conn' = conn
          /\ UNCHANGED <<out, reader, buf, attached, queue, seen, base, lost, cur, req, proc>>
      BY <2>5 DEF AutoClose, Reads, Goto, manager, shells, wire
    <3> QED
      BY <3>1
  <2> QED
    BY <2>1, <2>2, <2>3, <2>4, <2>5
<1>2. step \notin Going \cup {"none", "started"}
  BY DEF Going
<1> QED
  BY <1>0, <1>1, <1>2, StepFlows

LEMMA MapFlows ==
  ASSUME EndInv, OutInv, NEW c \in Clients, CreateMap(c) \/ Connect(c) \/ Break(c)
  PROVE  OutInv'
<1>0. /\ pc \in [Actors -> SessionSteps \cup ClientSteps]
      /\ conn \in [Clients -> {"new", "open", "broken", "gone"}] /\ c \in Actors
      /\ \A s \in Sessions : s # c /\ s \in Actors
      /\ \A d \in Clients : d \in Actors /\ d \notin Sessions
  BY SessionsApart DEF EndInv, EndTypes, Actors
<1>1. CASE CreateMap(c)
  <2>1. /\ pc[c] = "map" /\ sessions' = sessions \cup {target[c]} /\ conn' = conn
        /\ pc' = [pc EXCEPT ![c] = "detach", ![target[c]] = "watch"]
        /\ UNCHANGED <<out, reader, buf, attached, queue, seen, base, lost, cur, req, proc>>
    BY <1>1 DEF CreateMap, shells, wire
  <2>2. target[c] \in Sessions /\ pc[target[c]] = "started"
    BY <2>1 DEF EndInv, AimsOK, Aims
  <2>3. \A d \in Clients : pc'[d] = pc[d] \/ (d = c /\ pc'[d] = "detach")
    BY <1>0, <2>1, <2>2
  <2>4. \A d \in Clients : /\ pc'[d] \in Going => pc[d] \in Going
                           /\ pc'[d] = "attach" => pc[d] = "attach"
                           /\ pc'[d] \in {"forget", "done"} <=> pc[d] \in {"forget", "done"}
    BY <2>1, <2>3 DEF Going
  <2>5. \A s \in Sessions : pc'[s] = pc[s] \/ pc'[s] = "watch"
    BY <1>0, <2>1, <2>2
  <2>6. \A s \in Sessions : pc'[s] \in {"none", "started"} \/ proc'[s] = "none" =>
                              pc[s] \in {"none", "started"} \/ proc[s] = "none"
    BY <2>1, <2>5
  <2>7. \A s \in sessions' : s \in sessions \/ (s \in Sessions /\ pc[s] \in {"none", "started"})
    BY <2>1, <2>2
  <2> QED
    BY <2>1, <2>4, <2>6, <2>7, QuietFlows
<1>2. CASE Connect(c) \/ Break(c)
  <2>1. /\ UNCHANGED <<out, reader, buf, attached, queue, seen, base, lost, cur, req, proc, pc, sessions>>
        /\ \/ conn[c] = "new" /\ conn' = [conn EXCEPT ![c] = "open"]
           \/ conn[c] = "open" /\ conn' = [conn EXCEPT ![c] = "broken"]
    BY <1>2 DEF Connect, Break, manager, shells, actors, wire
  <2>2. \A d \in Clients : /\ conn'[d] = "open" => conn[d] \in {"open", "new"}
                           /\ conn'[d] = "new" => conn[d] = "new"
    BY <1>0, <2>1
  <2> QED
    BY <2>1, <2>2, QuietFlows
<1> QED
  BY <1>1, <1>2

LEMMA ForgetFlows ==
  ASSUME EndInv, OutInv, NEW c \in Clients, Forget(c)
  PROVE  OutInv'
<1>0. /\ pc \in [Actors -> SessionSteps \cup ClientSteps] /\ queue \in [Clients -> Seq(Frame)]
      /\ \A s \in Sessions : s # c /\ s \in Actors
      /\ \A d \in Clients : d \in Actors
  BY SessionsApart DEF EndInv, EndTypes, Actors, OutInv, OutTypes
<1>1. /\ pc[c] = "forget" /\ pc' = [pc EXCEPT ![c] = "done"] /\ queue' = [queue EXCEPT ![c] = <<>>]
      /\ UNCHANGED <<sessions, out, reader, buf, attached, seen, base, lost, cur, req, proc, conn>>
  BY DEF Forget, Goto, shells
<1>2. /\ pc'[c] = "done" /\ \A a \in Actors \ {c} : pc'[a] = pc[a]
      /\ queue' \in [Clients -> Seq(Frame)] /\ queue'[c] = <<>>
      /\ \A d \in Clients \ {c} : queue'[d] = queue[d]
  BY <1>0, <1>1
<1>3. OutTypes' /\ RingOK'
  BY <1>1, <1>2 DEF OutInv, OutTypes, RingOK, Ring
<1>4. Channel(c)'
  <2>0. Channel(c) /\ conn[c] = "gone"
    BY <1>1 DEF OutInv, ChannelOK, EndInv, AimsOK, Aims
  <2>1. Numbers(c)'
    <3>1. Len(queue'[c]) = 0 /\ QueueCap \in Nat
      BY <1>2, TerminalAssumption DEF TerminalAssumption
    <3>2. 1..Len(queue'[c]) = {}
      BY <3>1
    <3>3. pc'[c] \notin Going
      BY <1>2 DEF Going
    <3>4. Len(queue'[c]) <= QueueCap
      BY <3>1
    <3> QED
      BY <1>1, <2>0, <3>2, <3>3, <3>4 DEF Channel, Numbers
  <2>2. ASSUME NEW s \in Sessions PROVE Place(c, s)' /\ Flow(c, s)'
    <3>1. pc'[s] = pc[s] /\ Place(c, s)
      BY <1>0, <1>2, <2>0 DEF Channel
    <3>2. Place(c, s)'
      BY <1>1, <1>2, <3>1 DEF Place
    <3>3. ~Watching(c, s)'
      BY <1>1, <2>0 DEF Watching
    <3> QED
      BY <3>2, <3>3 DEF Flow
  <2> QED
    BY <2>1, <2>2 DEF Channel
<1>5. ASSUME NEW d \in Clients \ {c} PROVE Channel(d)'
  <2>1. Channel(d) /\ pc'[d] = pc[d] /\ \A s \in Sessions : pc'[s] = pc[s]
    BY <1>0, <1>2 DEF OutInv, ChannelOK
  <2>2. \A s \in sessions' : s \in sessions
    BY <1>1
  <2> QED
    BY <1>1, <1>2, <2>1, <2>2, KeepChannel
<1> QED
  BY <1>3, <1>4, <1>5 DEF OutInv, ChannelOK

\* Leave ends the registration with the session that is shown.
LEMMA LeaveFacts ==
  ASSUME OutTypes, NEW c \in Clients, Leave(c)
  PROVE  /\ attached' \in [Sessions -> [Clients -> Nat]]
         /\ \A s \in Sessions, d \in Clients \ {c} : attached'[s][d] = attached[s][d]
         /\ \A s \in Sessions : /\ s = cur[c] /\ s \in sessions => attached'[s][c] = 0
                                /\ ~(s = cur[c] /\ s \in sessions) => attached'[s][c] = attached[s][c]
<1>1. attached \in [Sessions -> [Clients -> Nat]]
  BY DEF OutTypes
<1>2. attached' = [s \in Sessions |-> IF s = cur[c] /\ s \in sessions THEN [attached[s] EXCEPT ![c] = 0]
                                                                    ELSE attached[s]]
  BY DEF Leave
<1>3. ASSUME NEW s \in Sessions
      PROVE  /\ attached'[s] \in [Clients -> Nat]
             /\ \A d \in Clients \ {c} : attached'[s][d] = attached[s][d]
             /\ s = cur[c] /\ s \in sessions => attached'[s][c] = 0
             /\ ~(s = cur[c] /\ s \in sessions) => attached'[s][c] = attached[s][c]
  <2>0. attached[s] \in [Clients -> Nat]
    BY <1>1
  <2>1. CASE s = cur[c] /\ s \in sessions
    <3>1. attached'[s] = [attached[s] EXCEPT ![c] = 0]
      BY <1>2, <2>1
    <3> QED
      BY <2>0, <2>1, <3>1
  <2>2. CASE ~(s = cur[c] /\ s \in sessions)
    <3>1. attached'[s] = attached[s]
      BY <1>2, <2>2
    <3> QED
      BY <2>0, <2>2, <3>1
  <2> QED
    BY <2>1, <2>2
<1>4. attached' \in [Sessions -> [Clients -> Nat]]
  BY <1>2, <1>3
<1> QED
  BY <1>3, <1>4

\* A new request number: what comes of the old one is not watched any more.
LEMMA AskFlows ==
  ASSUME EndInv, OutInv, NEW c \in Clients,
         \/ DetachRequest(c)
         \/ \E s \in Sessions : Create(c, s) \/ CreateFails(c, s) \/ AttachGet(c, s) \/ AttachUnknown(c, s)
  PROVE  OutInv'
<1>0. /\ pc \in [Actors -> SessionSteps \cup ClientSteps] /\ req \in [Clients -> Nat]
      /\ reader \in [Sessions -> {"read", "end"}] /\ proc \in [Sessions -> {"none", "up", "gone"}]
      /\ attached \in [Sessions -> [Clients -> Nat]] /\ cur \in [Clients -> Sessions \cup {None}]
      /\ \A s \in Sessions : s # c /\ s \in Actors /\ s # None
      /\ \A d \in Clients : d \in Actors /\ d \notin Sessions
      /\ OutTypes
  BY SessionsApart DEF EndInv, EndTypes, Actors, OutInv, OutTypes
<1>1. /\ pc[c] = "read" /\ conn[c] = "open" /\ req' = [req EXCEPT ![c] = @ + 1]
      /\ UNCHANGED <<sessions, conn, out, buf, queue, seen, base, lost>>
      /\ \/ UNCHANGED <<attached, cur>>
         \/ Leave(c) /\ cur' = [cur EXCEPT ![c] = None]
      /\ pc'[c] \in {"read", "map", "detach"}
      /\ \A d \in Clients \ {c} : pc'[d] = pc[d]
      /\ reader' \in [Sessions -> {"read", "end"}]
      /\ \A s \in Sessions : /\ pc[s] # "none" => reader'[s] = reader[s]
                             /\ pc'[s] \in {"none", "started"} \/ proc'[s] = "none" =>
                                  pc[s] \in {"none", "started"} \/ proc[s] = "none"
  <2>1. CASE DetachRequest(c)
    <3>1. /\ pc[c] = "read" /\ conn[c] = "open" /\ req' = [req EXCEPT ![c] = @ + 1] /\ pc' = pc
          /\ UNCHANGED <<sessions, conn, out, buf, queue, seen, base, lost, reader, proc>>
          /\ Leave(c) /\ cur' = [cur EXCEPT ![c] = None]
      BY <2>1 DEF DetachRequest, Reads, manager, wire
    <3> QED
      BY <1>0, <3>1
  <2>2. ASSUME NEW s \in Sessions, Create(c, s) PROVE <1>1
    <3>1. /\ pc[c] = "read" /\ conn[c] = "open" /\ req' = [req EXCEPT ![c] = @ + 1]
          /\ UNCHANGED <<sessions, conn, out, buf, queue, seen, base, lost, attached, cur>>
          /\ pc[s] = "none" /\ pc' = [pc EXCEPT ![c] = "map", ![s] = "started"]
          /\ reader' = [reader EXCEPT ![s] = "read"] /\ proc' = [proc EXCEPT ![s] = "up"]
      BY <2>2 DEF Create, Reads, manager, wire
    <3>2. /\ pc'[c] = "map" /\ pc'[s] = "started"
          /\ \A a \in Actors \ {c, s} : pc'[a] = pc[a]
      BY <1>0, <3>1
    <3>3. \A d \in Clients \ {c} : pc'[d] = pc[d]
      BY <1>0, <3>2
    <3>4. \A t \in Sessions \ {s} : pc'[t] = pc[t] /\ reader'[t] = reader[t] /\ proc'[t] = proc[t]
      BY <1>0, <3>1, <3>2
    <3>5. reader' \in [Sessions -> {"read", "end"}]
      BY <1>0, <3>1
    <3> QED
      BY <3>1, <3>2, <3>3, <3>4, <3>5
  <2>3. ASSUME NEW s \in Sessions, CreateFails(c, s) PROVE <1>1
    <3>1. /\ pc[c] = "read" /\ conn[c] = "open" /\ req' = [req EXCEPT ![c] = @ + 1]
          /\ UNCHANGED <<sessions, conn, out, buf, queue, seen, base, lost, attached, cur, reader, proc>>
          /\ pc[s] = "none" /\ pc' = [pc EXCEPT ![s] = "done"]
      BY <2>3 DEF CreateFails, Reads, Goto, manager, shells, wire
    <3>2. pc'[c] = "read" /\ \A a \in Actors \ {s} : pc'[a] = pc[a]
      BY <1>0, <3>1
    <3>3. \A d \in Clients \ {c} : pc'[d] = pc[d]
      BY <1>0, <3>2
    <3> QED
      BY <1>0, <3>1, <3>2, <3>3
  <2>4. ASSUME NEW s \in Sessions, AttachGet(c, s) PROVE <1>1
    <3>1. /\ pc[c] = "read" /\ conn[c] = "open" /\ req' = [req EXCEPT ![c] = @ + 1]
          /\ UNCHANGED <<sessions, conn, out, buf, queue, seen, base, lost, attached, cur, reader, proc>>
          /\ pc' = [pc EXCEPT ![c] = "detach"]
      BY <2>4 DEF AttachGet, Reads, Goto, manager, shells, wire
    <3> QED
      BY <1>0, <3>1
  <2>5. ASSUME NEW s \in Sessions, AttachUnknown(c, s) PROVE <1>1
    <3>1. /\ pc[c] = "read" /\ conn[c] = "open" /\ req' = [req EXCEPT ![c] = @ + 1]
          /\ UNCHANGED <<sessions, conn, out, buf, queue, seen, base, lost, attached, cur, reader, proc, pc>>
      BY <2>5 DEF AttachUnknown, Reads, manager, shells, wire
    <3> QED
      BY <1>0, <3>1
  <2> QED
    BY <2>1, <2>2, <2>3, <2>4, <2>5
<1>2. /\ attached' \in [Sessions -> [Clients -> Nat]] /\ cur' \in [Clients -> Sessions \cup {None}]
      /\ \A s \in Sessions, d \in Clients \ {c} : attached'[s][d] = attached[s][d]
      /\ \A d \in Clients \ {c} : cur'[d] = cur[d] /\ req'[d] = req[d]
      /\ \A s \in Sessions : attached'[s][c] \in {0, attached[s][c]}
      /\ cur'[c] \in {cur[c], None} /\ req'[c] = req[c] + 1 /\ req' \in [Clients -> Nat]
      /\ \A s \in sessions : s \in Sessions => ((attached[s][c] # 0 <=> cur[c] = s) => (attached'[s][c] # 0 <=> cur'[c] = s))
  <2>1. CASE UNCHANGED <<attached, cur>>
    BY <1>0, <1>1, <2>1
  <2>2. CASE Leave(c) /\ cur' = [cur EXCEPT ![c] = None]
    <3>1. /\ attached' \in [Sessions -> [Clients -> Nat]]
          /\ \A s \in Sessions, d \in Clients \ {c} : attached'[s][d] = attached[s][d]
          /\ \A s \in Sessions : /\ s = cur[c] /\ s \in sessions => attached'[s][c] = 0
                                 /\ ~(s = cur[c] /\ s \in sessions) => attached'[s][c] = attached[s][c]
      BY <1>0, <2>2, LeaveFacts
    <3>2. /\ cur' \in [Clients -> Sessions \cup {None}] /\ cur'[c] = None
          /\ \A d \in Clients \ {c} : cur'[d] = cur[d]
      BY <1>0, <2>2
    <3>3. req'[c] = req[c] + 1 /\ req' \in [Clients -> Nat] /\ \A d \in Clients \ {c} : req'[d] = req[d]
      BY <1>0, <1>1
    <3>4. \A s \in Sessions : s \in sessions => ((attached[s][c] # 0 <=> cur[c] = s) => attached'[s][c] = 0)
      BY <3>1
    <3> QED
      BY <1>0, <3>1, <3>2, <3>3, <3>4
  <2> QED
    BY <1>1, <2>1, <2>2
<1>3. OutTypes' /\ RingOK'
  <2>1. RingOK'
    BY <1>1 DEF OutInv, RingOK, Ring
  <2>2. OutTypes'
    BY <1>0, <1>1, <1>2 DEF OutTypes
  <2> QED
    BY <2>1, <2>2
<1>c. Channel(c)
  BY DEF OutInv, ChannelOK
<1>4. Numbers(c)'
  <2>0. queue[c] \in Seq(Frame) /\ req[c] \in Nat /\ Numbers(c)
    BY <1>c DEF Channel, OutInv, OutTypes
  <2>r. \A i \in 1..Len(queue[c]) : queue[c][i] \in Frame
    BY <2>0
  <2>s. \A i \in 1..Len(queue[c]) : queue[c][i].req \in Nat
    BY <2>r DEF Frame
  <2>t. \A i \in 1..Len(queue[c]) : queue[c][i].req <= req[c]
    BY <2>0 DEF Numbers
  <2>1. \A i \in 1..Len(queue[c]) : queue[c][i].req < req[c] + 1 /\ queue[c][i].req <= req[c] + 1
    BY <2>0, <2>s, <2>t
  <2>2. ASSUME NEW s \in Sessions PROVE attached'[s][c] < req[c] + 1 /\ attached'[s][c] <= req[c] + 1
    <3>1. attached[s][c] \in Nat /\ attached[s][c] <= req[c]
      BY <1>0, <2>0 DEF Numbers
    <3>2. attached'[s][c] = 0 \/ attached'[s][c] = attached[s][c]
      BY <1>2
    <3> QED
      BY <2>0, <3>1, <3>2
  <2>6. ASSUME NEW s \in Sessions, NEW t \in Sessions, s # t, attached'[s][c] # 0
        PROVE  attached'[s][c] # attached'[t][c]
    <3>1. attached'[s][c] = attached[s][c] /\ attached'[t][c] \in {0, attached[t][c]}
      BY <1>2, <2>6
    <3>2. attached[s][c] # attached[t][c]
      BY <2>0, <2>6, <3>1 DEF Numbers
    <3> QED
      BY <2>6, <3>1, <3>2
  <2>7. conn'[c] # "new" /\ queue'[c] = queue[c] /\ req'[c] = req[c] + 1
    BY <1>1, <1>2
  <2> QED
    BY <2>0, <2>1, <2>2, <2>6, <2>7 DEF Numbers
<1>5. ASSUME NEW s \in Sessions PROVE Place(c, s)' /\ Flow(c, s)'
  <2>1. Place(c, s)
    BY <1>c DEF Channel
  <2>2. attached'[s][c] # req'[c]
    <3>1. attached[s][c] \in Nat /\ attached[s][c] <= req[c] /\ req[c] \in Nat
      BY <1>0, <1>c DEF Channel, Numbers
    <3> QED
      BY <1>2, <3>1
  <2>3. pc'[s] \in {"none", "started"} \/ proc'[s] = "none" => attached'[s][c] = 0 /\ cur'[c] # s
    BY <1>0, <1>1, <1>2, <2>1 DEF Place
  <2>4. s \in sessions' => (attached'[s][c] # 0 <=> cur'[c] = s /\ pc'[c] \notin {"forget", "done"})
    BY <1>1, <1>2, <2>1 DEF Place
  <2>5. pc'[c] # "attach"
    BY <1>1
  <2> QED
    BY <2>2, <2>3, <2>4, <2>5 DEF Place, Flow, Watching
<1>6. ASSUME NEW d \in Clients \ {c} PROVE Channel(d)'
  <2>1. Channel(d) /\ \A s \in Sessions : Place(d, s)
    BY DEF OutInv, ChannelOK, Channel
  <2>2. \A s \in Sessions : attached[s][d] # 0 => reader'[s] = reader[s]
    BY <1>1, <2>1 DEF Place
  <2>3. \A s \in sessions' : s \in sessions
    BY <1>1
  <2> QED
    BY <1>1, <1>2, <2>1, <2>2, <2>3, KeepChannel
<1> QED
  BY <1>3, <1>4, <1>5, <1>6 DEF OutInv, ChannelOK, Channel

\* The steps of Leave: a connection turns to another session, or goes.
LEMMA LeaveFlows ==
  ASSUME EndInv, OutInv, NEW c \in Clients, DetachOld(c) \/ Disconnect(c)
  PROVE  OutInv'
<1>0. /\ pc \in [Actors -> SessionSteps \cup ClientSteps] /\ req \in [Clients -> Nat]
      /\ attached \in [Sessions -> [Clients -> Nat]] /\ cur \in [Clients -> Sessions \cup {None}]
      /\ conn \in [Clients -> {"new", "open", "broken", "gone"}]
      /\ \A s \in Sessions : s # c /\ s \in Actors /\ s # None
      /\ \A d \in Clients : d \in Actors /\ d \notin Sessions
      /\ OutTypes
  BY SessionsApart DEF EndInv, EndTypes, Actors, OutInv, OutTypes
<1>1. /\ UNCHANGED <<sessions, proc, out, reader, buf, queue, seen, base, lost, req>>
      /\ Leave(c)
      /\ \/ /\ pc[c] = "detach" /\ pc' = [pc EXCEPT ![c] = "attach"]
            /\ cur' = [cur EXCEPT ![c] = None] /\ conn' = conn
         \/ /\ pc[c] = "read" /\ pc' = [pc EXCEPT ![c] = "forget"]
            /\ cur' = cur /\ conn' = [conn EXCEPT ![c] = "gone"]
  BY DEF DetachOld, Disconnect, Goto, manager, wire
<1>2. /\ attached' \in [Sessions -> [Clients -> Nat]]
      /\ \A s \in Sessions, d \in Clients \ {c} : attached'[s][d] = attached[s][d]
      /\ \A s \in Sessions : /\ s = cur[c] /\ s \in sessions => attached'[s][c] = 0
                             /\ ~(s = cur[c] /\ s \in sessions) => attached'[s][c] = attached[s][c]
  BY <1>0, <1>1, LeaveFacts
<1>3. /\ cur' \in [Clients -> Sessions \cup {None}]
      /\ \A d \in Clients \ {c} : cur'[d] = cur[d] /\ pc'[d] = pc[d] /\ conn'[d] = conn[d]
      /\ \A s \in Sessions : pc'[s] = pc[s]
      /\ \/ pc[c] = "detach" /\ pc'[c] = "attach" /\ cur'[c] = None /\ conn'[c] = conn[c]
         \/ pc[c] = "read" /\ pc'[c] = "forget" /\ cur'[c] = cur[c] /\ conn'[c] = "gone"
  BY <1>0, <1>1
<1>4. RingOK'
  BY <1>1 DEF OutInv, RingOK, Ring
<1>5. OutTypes'
  BY <1>0, <1>1, <1>2, <1>3 DEF OutTypes
<1>c. Channel(c) /\ Numbers(c) /\ \A s \in Sessions : Place(c, s)
  BY DEF OutInv, ChannelOK, Channel
<1>6. ASSUME NEW s \in Sessions
      PROVE  /\ attached[s][c] \in Nat /\ attached[s][c] <= req[c] /\ req[c] \in Nat
             /\ attached'[s][c] = 0 \/ attached'[s][c] = attached[s][c]
             /\ pc[c] = "detach" => attached[s][c] < req[c] /\ attached'[s][c] < req[c]
  <2>1. /\ attached[s][c] \in Nat /\ attached[s][c] <= req[c] /\ req[c] \in Nat
        /\ attached'[s][c] = 0 \/ attached'[s][c] = attached[s][c]
    BY <1>0, <1>2, <1>c DEF Numbers
  <2>2. pc[c] = "detach" => attached[s][c] < req[c]
    BY <1>c DEF Numbers, Going
  <2> QED
    BY <2>1, <2>2
<1>7. Numbers(c)'
  <2>1. ASSUME NEW s \in Sessions, NEW t \in Sessions, s # t, attached'[s][c] # 0
        PROVE  attached'[s][c] # attached'[t][c]
    <3>1. attached'[s][c] = attached[s][c] /\ attached'[t][c] \in {0, attached[t][c]}
      BY <1>6, <2>1
    <3>2. attached[s][c] # attached[t][c]
      BY <1>c, <2>1, <3>1 DEF Numbers
    <3> QED
      BY <2>1, <3>1, <3>2
  <2>2. \A s \in Sessions : attached'[s][c] <= req[c]
    BY <1>6
  <2>3. pc'[c] \in Going => pc[c] = "detach" /\ pc[c] \in Going
    BY <1>3 DEF Going
  <2>4. pc'[c] \in Going => \A s \in Sessions : attached'[s][c] < req[c]
    BY <1>6, <2>3
  <2>5. conn'[c] = "new" => conn[c] = "new"
    BY <1>3
  <2>6. queue'[c] = queue[c] /\ req'[c] = req[c]
    BY <1>1
  <2> QED
    BY <1>c, <2>1, <2>2, <2>3, <2>4, <2>5, <2>6 DEF Numbers
<1>8. ASSUME NEW s \in Sessions PROVE Place(c, s)' /\ Flow(c, s)'
  <2>1. Place(c, s) /\ s \in Sessions
    BY <1>c
  <2>2. pc'[s] \in {"none", "started"} \/ proc'[s] = "none" => attached'[s][c] = 0 /\ cur'[c] # s
    BY <1>0, <1>1, <1>3, <1>6, <2>1 DEF Place
  <2>3. s \in sessions => attached'[s][c] = 0
    BY <1>2, <1>3, <2>1 DEF Place
  <2>4. s \in sessions' => (attached'[s][c] # 0 <=> cur'[c] = s /\ pc'[c] \notin {"forget", "done"})
    BY <1>0, <1>1, <1>3, <2>3
  <2>5. CASE pc[c] = "detach"
    <3>1. attached'[s][c] # req'[c] /\ cur'[c] = None
      BY <1>1, <1>3, <1>6, <2>5
    <3> QED
      BY <2>2, <2>4, <3>1 DEF Place, Flow, Watching
  <2>6. CASE pc'[c] = "forget"
    <3>1. conn'[c] = "gone"
      BY <1>3, <2>6
    <3> QED
      BY <2>2, <2>4, <2>6, <3>1 DEF Place, Flow, Watching
  <2> QED
    BY <1>3, <2>5, <2>6
<1>9. ASSUME NEW d \in Clients \ {c} PROVE Channel(d)'
  <2>1. Channel(d)
    BY DEF OutInv, ChannelOK
  <2>2. \A s \in sessions' : s \in sessions
    BY <1>1
  <2>3. \A s \in Sessions : pc'[s] \in {"none", "started"} \/ proc'[s] = "none" =>
                              pc[s] \in {"none", "started"} \/ proc[s] = "none"
    BY <1>1, <1>3
  <2>4. \A s \in Sessions : attached'[s][d] = attached[s][d]
    BY <1>2
  <2> QED
    BY <1>1, <1>3, <2>1, <2>2, <2>3, <2>4, KeepChannel
<1> QED
  BY <1>4, <1>5, <1>7, <1>8, <1>9 DEF OutInv, ChannelOK, Channel

LEMMA LatestMore ==
  ASSUME NEW q \in Seq(Frame), NEW r, NEW n, NEW got, NEW k \in Nat, NEW m \in Nat, k <= m, Latest(got, q, r, n, k)
  PROVE  Latest(got, q, r, n, m)
<1>1. Len(q) \in Nat
  OBVIOUS
<1>2. \A i : i \in Mine(q, r) => i \in 1..Len(q)
  BY MineIs
<1>3. \A i \in 1..Len(q) : Len(q) - i <= k => Len(q) - i <= m
  BY <1>1
<1> QED
  BY <1>2, <1>3 DEF Latest

\* Attach: the replay is queued and the connection registered in one step.
LEMMA AttachFlows ==
  ASSUME EndInv, OutInv, NEW c \in Clients, Attach(c)
  PROVE  OutInv'
<1> DEFINE s == target[c]
           n == out[s]
           p == Replay(queue[c], buf[s], req[c])
<1>0. /\ pc \in [Actors -> SessionSteps \cup ClientSteps] /\ req \in [Clients -> Nat]
      /\ attached \in [Sessions -> [Clients -> Nat]] /\ cur \in [Clients -> Sessions \cup {None}]
      /\ queue \in [Clients -> Seq(Frame)] /\ seen \in [Clients -> Seq(Nat)]
      /\ base \in [Clients -> Nat] /\ lost \in [Clients -> BOOLEAN]
      /\ out \in [Sessions -> Nat] /\ buf \in [Sessions -> Seq(Nat)]
      /\ \A t \in Sessions : t # c /\ t \in Actors /\ t # None
      /\ \A d \in Clients : d \in Actors /\ d \notin Sessions
      /\ OutTypes
  BY SessionsApart DEF EndInv, EndTypes, Actors, OutInv, OutTypes
<1>1. /\ pc[c] = "attach" /\ s \in sessions
      /\ attached' = [attached EXCEPT ![s][c] = req[c]]
      /\ queue' = [queue EXCEPT ![c] = p]
      /\ seen' = [seen EXCEPT ![c] = <<>>]
      /\ base' = [base EXCEPT ![c] = out[s] - Len(buf[s])]
      /\ lost' = [lost EXCEPT ![c] = FALSE]
      /\ cur' = [cur EXCEPT ![c] = s]
      /\ pc' = [pc EXCEPT ![c] = "greet"]
      /\ UNCHANGED <<sessions, proc, out, reader, buf, req, conn>>
  BY DEF Attach, Goto, manager
<1>2. s \in Sessions /\ pc[s] = "watch" /\ proc[s] # "none"
  BY <1>1 DEF EndInv, EndTypes, LifeOK, Life
<1>c. Channel(c) /\ Numbers(c) /\ (\A t \in Sessions : Place(c, t)) /\ Ring(s)
  BY <1>2 DEF OutInv, ChannelOK, Channel, RingOK
<1>3. /\ \A i \in 1..Len(queue[c]) : queue[c][i].req < req[c]
      /\ \A t \in Sessions : attached[t][c] < req[c]
      /\ Len(queue[c]) <= QueueCap /\ cur[c] = None
  BY <1>1, <1>2, <1>c DEF Numbers, Going, Place
<1>4. /\ \A t \in Sessions : attached[t][c] \in Nat
      /\ req[c] \in Nat /\ req[c] # 0
  BY <1>0, <1>2, <1>3
<1>5. /\ p \in Seq(Frame) /\ Len(p) <= QueueCap /\ \A i \in DOMAIN p : p[i].req <= req[c]
      /\ InOrder(<<>>, p, req[c]) /\ Coming(<<>>, p, req[c]) = (n - Len(buf[s]) + 1)..n
      /\ Latest(<<>>, p, req[c], n, 0)
  <2>1. \A i \in DOMAIN queue[c] : queue[c][i].req < req[c]
    BY <1>0, <1>3
  <2>2. /\ queue[c] \in Seq(Frame) /\ n \in Nat /\ buf[s] \in Seq(Nat)
    BY <1>0, <1>2
  <2>3. /\ Len(buf[s]) <= BufCap /\ Len(buf[s]) <= n /\ (n > 0 => Len(buf[s]) > 0)
        /\ \A i \in 1..Len(buf[s]) : buf[s][i] = n - Len(buf[s]) + i
    BY <1>c DEF Ring
  <2> QED
    BY <1>3, <1>4, <2>1, <2>2, <2>3, ReplayFlows
<1> HIDE DEF p
<1>6. /\ queue'[c] = p /\ queue' \in [Clients -> Seq(Frame)]
      /\ seen'[c] = <<>> /\ seen' \in [Clients -> Seq(Nat)]
      /\ cur'[c] = s /\ cur' \in [Clients -> Sessions \cup {None}]
      /\ lost' \in [Clients -> BOOLEAN] /\ pc'[c] = "greet"
      /\ \A d \in Clients \ {c} : /\ queue'[d] = queue[d] /\ seen'[d] = seen[d] /\ base'[d] = base[d]
                                  /\ cur'[d] = cur[d] /\ pc'[d] = pc[d] /\ lost'[d] = lost[d]
      /\ \A t \in Sessions : pc'[t] = pc[t]
  BY <1>0, <1>1, <1>2, <1>5
<1>7. /\ attached'[s][c] = req[c] /\ attached' \in [Sessions -> [Clients -> Nat]]
      /\ \A t \in Sessions \ {s} : attached'[t][c] = attached[t][c]
      /\ \A t \in Sessions, d \in Clients \ {c} : attached'[t][d] = attached[t][d]
  BY <1>0, <1>1, <1>2, <1>4
<1>8. base'[c] = n - Len(buf[s]) /\ base'[c] \in Nat /\ base'[c] <= n /\ base' \in [Clients -> Nat] /\ n \in Nat
  <2>1. Len(buf[s]) \in Nat /\ n \in Nat /\ Len(buf[s]) <= n
    BY <1>0, <1>2, <1>c DEF Ring
  <2>2. n - Len(buf[s]) \in Nat /\ n - Len(buf[s]) <= n
    BY <2>1
  <2> QED
    BY <1>0, <1>1, <2>1, <2>2
<1>9. OutTypes' /\ RingOK'
  <2>1. RingOK'
    BY <1>1 DEF OutInv, RingOK, Ring
  <2>2. OutTypes'
    BY <1>0, <1>1, <1>6, <1>7, <1>8 DEF OutTypes
  <2> QED
    BY <2>1, <2>2
<1>10. Numbers(c)'
  <2>1. \A i \in 1..Len(p) : p[i].req <= req[c]
    BY <1>5
  <2>2. \A t \in Sessions : attached'[t][c] <= req[c]
    BY <1>3, <1>4, <1>7
  <2>3. ASSUME NEW t \in Sessions, NEW u \in Sessions, t # u, attached'[t][c] # 0
        PROVE  attached'[t][c] # attached'[u][c]
    <3>1. t # s /\ u # s => attached[t][c] # attached[u][c]
      BY <1>7, <1>c, <2>3 DEF Numbers
    <3>2. attached[t][c] # req[c] /\ attached[u][c] # req[c]
      BY <1>3, <1>4
    <3> QED
      BY <1>7, <2>3, <3>1, <3>2
  <2>4. pc'[c] \notin Going
    BY <1>6 DEF Going
  <2>5. conn'[c] = "new" => req'[c] = 0
    BY <1>1, <1>c DEF Numbers
  <2>6. req'[c] = req[c] /\ queue'[c] = p
    BY <1>1, <1>6
  <2> QED
    BY <1>5, <2>1, <2>2, <2>3, <2>4, <2>5, <2>6 DEF Numbers
<1>11. ASSUME NEW t \in Sessions PROVE Place(c, t)' /\ Flow(c, t)'
  <2>1. Place(c, t)
    BY <1>c
  <2>2. CASE t = s
    <3>1. Place(c, t)'
      BY <1>1, <1>2, <1>4, <1>6, <1>7, <2>2 DEF Place
    <3>2. Cardinality(Over(c, t))' \in Nat
      <4>1. IsFiniteSet(Sessions)
        BY TerminalAssumption DEF TerminalAssumption
      <4>2. Over(c, t)' \in SUBSET Sessions
        BY DEF Over, Leftovers
      <4> QED
        BY <4>1, <4>2, FS_Subset, FS_CardinalityType
    <3>3. Latest(seen'[c], queue'[c], req'[c], out'[t], Cardinality(Over(c, t))')
      <4>1. queue'[c] = p /\ seen'[c] = <<>> /\ req'[c] = req[c] /\ out'[t] = n
        BY <1>1, <1>6, <2>2
      <4>2. Latest(<<>>, p, req[c], n, Cardinality(Over(c, t))')
        BY <1>5, <3>2, LatestMore
      <4> QED
        BY <4>1, <4>2
    <3>4. /\ InOrder(seen'[c], queue'[c], req'[c])
          /\ Coming(seen'[c], queue'[c], req'[c]) = (base'[c] + 1)..out'[t]
          /\ base'[c] <= out'[t]
      BY <1>1, <1>5, <1>6, <1>8, <2>2
    <3>5. Coming(seen'[c], queue'[c], req'[c]) \subseteq 1..out'[t]
      BY <1>1, <1>8, <2>2, <3>4
    <3> QED
      BY <3>1, <3>3, <3>4, <3>5 DEF Flow
  <2>3. CASE t # s
    <3>1. attached'[t][c] # req'[c]
      BY <1>1, <1>3, <1>4, <1>7, <2>3
    <3>2. t \in sessions => attached[t][c] = 0
      BY <1>0, <1>3, <2>1 DEF Place
    <3>3. Place(c, t)'
      BY <1>1, <1>6, <1>7, <2>1, <2>3, <3>1, <3>2 DEF Place
    <3> QED
      BY <3>1, <3>3 DEF Flow, Watching
  <2> QED
    BY <2>2, <2>3
<1>12. ASSUME NEW d \in Clients \ {c} PROVE Channel(d)'
  <2>1. Channel(d)
    BY DEF OutInv, ChannelOK
  <2>2. \A t \in sessions' : t \in sessions
    BY <1>1
  <2>3. \A t \in Sessions : attached'[t][d] = attached[t][d]
    BY <1>7
  <2>4. /\ out' = out /\ reader' = reader /\ req'[d] = req[d] /\ conn'[d] = conn[d] /\ proc' = proc
        /\ queue'[d] = queue[d] /\ seen'[d] = seen[d] /\ base'[d] = base[d]
        /\ cur'[d] = cur[d] /\ pc'[d] = pc[d] /\ lost'[d] = lost[d]
        /\ \A t \in Sessions : pc'[t] = pc[t]
    BY <1>1, <1>6
  <2> QED
    BY <2>1, <2>2, <2>3, <2>4, KeepChannel
<1> QED
  BY <1>9, <1>10, <1>11, <1>12 DEF OutInv, ChannelOK, Channel

\* A frame goes to the connection.
LEMMA WriteFlows ==
  ASSUME EndInv, OutInv, NEW c \in Clients, WriteFrame(c)
  PROVE  OutInv'
<1> DEFINE q == queue[c]
           r == req[c]
<1>0. /\ req \in [Clients -> Nat] /\ queue \in [Clients -> Seq(Frame)] /\ seen \in [Clients -> Seq(Nat)]
      /\ conn \in [Clients -> {"new", "open", "broken", "gone"}] /\ out \in [Sessions -> Nat]
      /\ OutTypes
  BY DEF EndInv, EndTypes, OutInv, OutTypes
<1>1. /\ q # <<>> /\ conn[c] \in {"open", "broken"}
      /\ queue' = [queue EXCEPT ![c] = Tail(q)]
      /\ seen' = IF conn[c] = "open" /\ Head(q).req = r
                 THEN [seen EXCEPT ![c] = Append(seen[c], Head(q).chunk)] ELSE seen
      /\ UNCHANGED <<sessions, proc, out, reader, buf, attached, cur, req, base, lost, pc, conn>>
  BY DEF WriteFrame, manager, shells, actors
<1>2. Taken(q, Tail(q))
  <2>0. q \in Seq(Frame) /\ Len(q) \in Nat /\ Len(q) >= 1
    BY <1>0, <1>1
  <2>1. /\ Head(q) \in Frame /\ Tail(q) \in Seq(Frame) /\ Len(Tail(q)) = Len(q) - 1
        /\ \A i \in 1..Len(Tail(q)) : Tail(q)[i] = q[i + 1]
    BY <1>1, <2>0, HeadTailProperties
  <2>2. Head(q) = q[1]
    BY <2>0
  <2> QED
    BY <2>0, <2>1, <2>2 DEF Taken
<1>3. /\ queue' \in [Clients -> Seq(Frame)] /\ Taken(q, queue'[c])
      /\ \A d \in Clients \ {c} : queue'[d] = queue[d]
  <2>1. Tail(q) \in Seq(Frame)
    BY <1>2 DEF Taken
  <2> QED
    BY <1>0, <1>1, <1>2, <2>1
<1>4. /\ seen' \in [Clients -> Seq(Nat)]
      /\ conn[c] = "open" => seen'[c] = Given(seen[c], q, r)
      /\ \A d \in Clients \ {c} : seen'[d] = seen[d]
  <2>1. Head(q).chunk \in Nat
    BY <1>2 DEF Taken, Frame
  <2>2. seen[c] \in Seq(Nat) /\ Append(seen[c], Head(q).chunk) \in Seq(Nat)
    BY <1>0, <2>1
  <2>3. CASE conn[c] = "open" /\ Head(q).req = r
    BY <1>0, <1>1, <2>2, <2>3 DEF Given
  <2>4. CASE ~(conn[c] = "open" /\ Head(q).req = r)
    BY <1>0, <1>1, <2>4 DEF Given
  <2> QED
    BY <2>3, <2>4
<1>5. RingOK'
  BY <1>1 DEF OutInv, RingOK, Ring
<1>6. OutTypes'
  BY <1>0, <1>1, <1>3, <1>4 DEF OutTypes
<1>c. Channel(c) /\ Numbers(c)
  BY DEF OutInv, ChannelOK, Channel
<1>7. Numbers(c)'
  <2>1. /\ Len(queue'[c]) = Len(q) - 1 /\ Len(q) \in Nat /\ Len(queue'[c]) \in Nat
        /\ \A i \in 1..Len(queue'[c]) : queue'[c][i] = q[i + 1]
    BY <1>0, <1>3 DEF Taken
  <2>2. \A i \in 1..Len(queue'[c]) : i + 1 \in 1..Len(q)
    BY <2>1
  <2>3. \A i \in 1..Len(queue'[c]) : queue'[c][i].req <= r
    BY <1>c, <2>1, <2>2 DEF Numbers
  <2>4. pc[c] \in Going => \A i \in 1..Len(queue'[c]) : queue'[c][i].req < r
    BY <1>c, <2>1, <2>2 DEF Numbers
  <2>5. Len(queue'[c]) <= QueueCap
    <3>1. Len(q) <= QueueCap /\ QueueCap \in Nat
      BY <1>c, TerminalAssumption DEF Numbers, TerminalAssumption
    <3> QED
      BY <2>1, <3>1
  <2> QED
    BY <1>1, <1>c, <2>3, <2>4, <2>5 DEF Numbers
<1>8. ASSUME NEW s \in Sessions PROVE Place(c, s)' /\ Flow(c, s)'
  <2>1. Place(c, s) /\ Flow(c, s)
    BY <1>c DEF Channel
  <2>2. Place(c, s)'
    BY <1>1, <2>1 DEF Place
  <2>3. ASSUME Watching(c, s)' PROVE Flow(c, s)'
    <3>0. Watching(c, s) /\ conn[c] = "open"
      BY <1>1, <2>3 DEF Watching
    <3>1. Over(c, s)' = Over(c, s) /\ Leftovers(c, s)' = Leftovers(c, s)
      BY <1>1 DEF Over, Leftovers
    <3>k. Cardinality(Over(c, s)) \in Nat
      <4>1. IsFiniteSet(Sessions)
        BY TerminalAssumption DEF TerminalAssumption
      <4>2. Over(c, s) \in SUBSET Sessions
        BY DEF Over, Leftovers
      <4> QED
        BY <4>1, <4>2, FS_Subset, FS_CardinalityType
    <3>2. /\ InOrder(seen'[c], queue'[c], r) /\ Coming(seen'[c], queue'[c], r) = Coming(seen[c], q, r)
          /\ \A k \in Nat : Latest(seen[c], q, r, out[s], k) => Latest(seen'[c], queue'[c], r, out[s], k)
      <4>1. InOrder(seen[c], q, r)
        BY <2>1, <3>0 DEF Flow
      <4>2. q \in Seq(Frame) /\ r \in Nat /\ out[s] \in Nat /\ seen[c] \in Seq(Nat)
        BY <1>0
      <4>3. seen'[c] = Given(seen[c], q, r)
        BY <1>4, <3>0
      <4> HIDE DEF q, r
      <4> QED
        BY <1>3, <4>1, <4>2, <4>3, WriteOne
    <3>3. /\ base'[c] <= out'[s]
          /\ Coming(seen'[c], queue'[c], req'[c]) \subseteq 1..out'[s]
          /\ ~lost'[c] => Coming(seen'[c], queue'[c], req'[c]) = (base'[c] + 1)..out'[s]
          /\ InOrder(seen'[c], queue'[c], req'[c])
      BY <1>1, <2>1, <3>0, <3>2 DEF Flow
    <3>4. Cardinality(Leftovers(c, s)) < QueueCap =>
            Latest(seen'[c], queue'[c], req'[c], out'[s], Cardinality(Over(c, s)))
      BY <1>1, <2>1, <3>0, <3>2, <3>k DEF Flow
    <3> QED
      BY <3>1, <3>3, <3>4 DEF Flow
  <2> QED
    BY <2>2, <2>3 DEF Flow
<1>9. ASSUME NEW d \in Clients \ {c} PROVE Channel(d)'
  <2>1. Channel(d)
    BY DEF OutInv, ChannelOK
  <2>2. \A t \in sessions' : t \in sessions
    BY <1>1
  <2>3. /\ out' = out /\ reader' = reader /\ req'[d] = req[d] /\ conn'[d] = conn[d] /\ proc' = proc
        /\ queue'[d] = queue[d] /\ seen'[d] = seen[d] /\ base'[d] = base[d]
        /\ cur'[d] = cur[d] /\ pc' = pc /\ lost'[d] = lost[d] /\ attached' = attached
    BY <1>1, <1>3, <1>4
  <2> QED
    BY <2>1, <2>2, <2>3, KeepChannel
<1> QED
  BY <1>5, <1>6, <1>7, <1>8, <1>9 DEF OutInv, ChannelOK, Channel

\* What is in a queue a frame was pushed to.
LEMMA PushHas ==
  ASSUME NEW q \in Seq(Frame), Len(q) <= QueueCap, NEW f, NEW p, Pushed(q, f, p)
  PROVE  \A i \in 1..Len(p) : p[i] = f \/ \E j \in 1..Len(q) : p[i] = q[j]
<1>1. /\ p \in Seq(Frame) /\ Len(p) \in Nat /\ Len(q) \in Nat /\ p[Len(p)] = f
      /\ Len(q) < QueueCap => /\ Len(p) = Len(q) + 1 /\ \A i \in 1..Len(q) : p[i] = q[i]
      /\ Len(q) = QueueCap => /\ Len(p) = Len(q) /\ \A i \in 2..Len(q) : p[i - 1] = q[i]
  BY DEF Pushed
<1>2. QueueCap \in Nat
  BY TerminalAssumption DEF TerminalAssumption
<1>3. CASE Len(q) < QueueCap
  <2>1. Len(p) = Len(q) + 1
    BY <1>1, <1>3
  <2>2. \A i \in 1..Len(p) : i = Len(p) \/ i \in 1..Len(q)
    BY <1>1, <2>1
  <2>3. \A i \in 1..Len(q) : p[i] = q[i]
    BY <1>1, <1>3
  <2> QED
    BY <1>1, <2>2, <2>3
<1>4. CASE Len(q) = QueueCap
  <2>1. Len(p) = Len(q)
    BY <1>1, <1>4
  <2>2. \A i \in 1..Len(p) : i = Len(p) \/ (i + 1 \in 2..Len(q) /\ i + 1 \in 1..Len(q) /\ (i + 1) - 1 = i)
    BY <1>1, <2>1
  <2>3. \A i \in 2..Len(q) : p[i - 1] = q[i]
    BY <1>1, <1>4
  <2> QED
    BY <1>1, <2>2, <2>3
<1> QED
  BY <1>1, <1>2, <1>3, <1>4

\* An ended session publishes at most once more: fewer of its kind are left.
LEMMA OverCounts ==
  ASSUME NEW d \in Clients, NEW t \in Sessions
  PROVE  /\ IsFiniteSet(Leftovers(d, t)) /\ IsFiniteSet(Over(d, t))
         /\ Cardinality(Leftovers(d, t)) \in Nat /\ Cardinality(Over(d, t)) \in Nat
         /\ \A s \in Leftovers(d, t) \ Over(d, t) :
              /\ Cardinality(Over(d, t) \cup {s}) = Cardinality(Over(d, t)) + 1
              /\ Cardinality(Over(d, t)) + 1 <= Cardinality(Leftovers(d, t))
<1>1. IsFiniteSet(Sessions)
  BY TerminalAssumption DEF TerminalAssumption
<1>2. Leftovers(d, t) \in SUBSET Sessions /\ Over(d, t) \in SUBSET Leftovers(d, t)
  BY DEF Over, Leftovers
<1>3. IsFiniteSet(Leftovers(d, t)) /\ IsFiniteSet(Over(d, t))
  BY <1>1, <1>2, FS_Subset
<1>4. Cardinality(Leftovers(d, t)) \in Nat /\ Cardinality(Over(d, t)) \in Nat
  BY <1>3, FS_CardinalityType
<1>5. ASSUME NEW s \in Leftovers(d, t) \ Over(d, t)
      PROVE  /\ Cardinality(Over(d, t) \cup {s}) = Cardinality(Over(d, t)) + 1
             /\ Cardinality(Over(d, t)) + 1 <= Cardinality(Leftovers(d, t))
  <2>1. Cardinality(Over(d, t) \cup {s}) = Cardinality(Over(d, t)) + 1
    BY <1>3, <1>5, FS_AddElement
  <2>2. Over(d, t) \cup {s} \in SUBSET Leftovers(d, t)
    BY <1>2, <1>5
  <2>3. Cardinality(Over(d, t) \cup {s}) <= Cardinality(Leftovers(d, t))
    BY <1>3, <2>2, FS_Subset
  <2> QED
    BY <2>1, <2>3
<1> QED
  BY <1>3, <1>4, <1>5

\* publishOutput: the chunk is saved and goes to all that are registered.
LEMMA PublishFlows ==
  ASSUME EndInv, OutInv, NEW s \in Sessions, Publish(s)
  PROVE  OutInv'
<1> DEFINE n == out[s]
           f(d) == [req |-> attached[s][d], chunk |-> n + 1]
<1>0. /\ req \in [Clients -> Nat] /\ queue \in [Clients -> Seq(Frame)] /\ seen \in [Clients -> Seq(Nat)]
      /\ attached \in [Sessions -> [Clients -> Nat]] /\ reader \in [Sessions -> {"read", "end"}]
      /\ out \in [Sessions -> Nat] /\ buf \in [Sessions -> Seq(Nat)] /\ base \in [Clients -> Nat]
      /\ lost \in [Clients -> BOOLEAN] /\ n \in Nat /\ n + 1 \in Nat
      /\ OutTypes
  BY DEF OutInv, OutTypes
<1>1. /\ reader[s] = "read"
      /\ reader' = [reader EXCEPT ![s] = IF exit[s] = "closed" THEN "end" ELSE "read"]
      /\ out' = [out EXCEPT ![s] = n + 1]
      /\ buf' = [buf EXCEPT ![s] = RingWrite(buf[s], n + 1)]
      /\ queue' = [c \in Clients |-> IF c \in {d \in Clients : attached[s][d] # 0}
                                     THEN Push(queue[c], f(c)) ELSE queue[c]]
      /\ lost' = [c \in Clients |-> lost[c] \/ (c \in {d \in Clients : attached[s][d] # 0}
                                                /\ Overflows(queue[c], req[c]))]
      /\ UNCHANGED <<sessions, proc, attached, cur, req, pc, seen, base, conn>>
  BY DEF Publish, manager, actors
<1>r. /\ RingWrite(buf[s], n + 1) \in Seq(Nat) /\ Len(RingWrite(buf[s], n + 1)) <= BufCap
      /\ Len(RingWrite(buf[s], n + 1)) <= n + 1 /\ Len(RingWrite(buf[s], n + 1)) > 0
      /\ \A i \in 1..Len(RingWrite(buf[s], n + 1)) :
           RingWrite(buf[s], n + 1)[i] = (n + 1) - Len(RingWrite(buf[s], n + 1)) + i
  <2>1. /\ Len(buf[s]) <= BufCap /\ Len(buf[s]) <= n
        /\ \A i \in 1..Len(buf[s]) : buf[s][i] = n - Len(buf[s]) + i
    BY DEF OutInv, RingOK, Ring
  <2>2. buf[s] \in Seq(Nat)
    BY <1>0
  <2> HIDE DEF n
  <2> QED
    BY <1>0, <2>1, <2>2, RingKeepsLatest
<1>2. /\ out'[s] = n + 1 /\ out' \in [Sessions -> Nat] /\ \A t \in Sessions \ {s} : out'[t] = out[t]
      /\ reader' \in [Sessions -> {"read", "end"}] /\ \A t \in Sessions \ {s} : reader'[t] = reader[t]
      /\ exit[s] = "closed" => reader'[s] = "end"
  BY <1>0, <1>1
<1>3. RingOK' /\ buf' \in [Sessions -> Seq(Nat)]
  <2>1. /\ buf'[s] = RingWrite(buf[s], n + 1) /\ \A t \in Sessions \ {s} : buf'[t] = buf[t]
        /\ buf' \in [Sessions -> Seq(Nat)]
    BY <1>0, <1>1, <1>r
  <2>2. Ring(s)'
    BY <1>2, <1>r, <2>1 DEF Ring
  <2>3. ASSUME NEW t \in Sessions \ {s} PROVE Ring(t)'
    <3>1. out'[t] = out[t] /\ buf'[t] = buf[t]
      BY <1>2, <2>1
    <3>2. Ring(t)
      BY DEF OutInv, RingOK
    <3> QED
      BY <3>1, <3>2 DEF Ring
  <2> QED
    BY <2>1, <2>2, <2>3 DEF RingOK
<1>4. ASSUME NEW d \in Clients
      PROVE  /\ queue'[d] \in Seq(Frame)
             /\ attached[s][d] # 0 => Pushed(queue[d], f(d), queue'[d]) /\ f(d) \in Frame
             /\ attached[s][d] = 0 => queue'[d] = queue[d]
  <2>0. queue[d] \in Seq(Frame) /\ Len(queue[d]) <= QueueCap /\ f(d) \in Frame
    BY <1>0 DEF OutInv, ChannelOK, Channel, Numbers, Frame
  <2>1. CASE attached[s][d] # 0
    <3>1. queue'[d] = Push(queue[d], f(d))
      BY <1>1, <2>1
    <3>2. Pushed(queue[d], f(d), Push(queue[d], f(d)))
      <4> HIDE DEF f
      <4> QED
        BY <2>0, PushFacts
    <3> HIDE DEF f
    <3> QED
      BY <2>0, <2>1, <3>1, <3>2 DEF Pushed
  <2>2. CASE attached[s][d] = 0
    BY <1>1, <2>0, <2>2
  <2> QED
    BY <2>1, <2>2
<1>5. ASSUME NEW d \in Clients
      PROVE  /\ lost'[d] \in BOOLEAN
             /\ lost'[d] <=> lost[d] \/ (attached[s][d] # 0 /\ Overflows(queue[d], req[d]))
  BY <1>0, <1>1, Zenon
<1>6. OutTypes'
  <2>1. queue' \in [Clients -> Seq(Frame)]
    BY <1>1, <1>4
  <2>2. lost' \in [Clients -> BOOLEAN]
    BY <1>1, <1>5
  <2> QED
    BY <1>0, <1>1, <1>2, <1>3, <2>1, <2>2 DEF OutTypes
<1>7. ASSUME NEW d \in Clients PROVE Numbers(d)'
  <2>0. Numbers(d) /\ queue[d] \in Seq(Frame) /\ attached[s][d] \in Nat
    BY <1>0 DEF OutInv, ChannelOK, Channel
  <2>1. CASE attached[s][d] = 0
    BY <1>1, <1>4, <2>0, <2>1 DEF Numbers
  <2>2. CASE attached[s][d] # 0
    <3>1. \A i \in 1..Len(queue'[d]) : queue'[d][i] = f(d) \/ \E j \in 1..Len(queue[d]) : queue'[d][i] = queue[d][j]
      <4>1. Len(queue[d]) <= QueueCap /\ Pushed(queue[d], f(d), queue'[d])
        BY <1>4, <2>0, <2>2 DEF Numbers
      <4> HIDE DEF f
      <4> QED
        BY <2>0, <4>1, PushHas, SMTT(30)
    <3>2. f(d).req = attached[s][d]
      OBVIOUS
    <3>3. Len(queue'[d]) <= QueueCap
      BY <1>4, <2>2 DEF Pushed
    <3> HIDE DEF f
    <3>4. \A i \in 1..Len(queue'[d]) : queue'[d][i].req <= req[d]
      BY <2>0, <3>1, <3>2 DEF Numbers
    <3>5. pc[d] \in Going => \A i \in 1..Len(queue'[d]) : queue'[d][i].req < req[d]
      BY <2>0, <3>1, <3>2 DEF Numbers
    <3> QED
      BY <1>1, <2>0, <3>3, <3>4, <3>5 DEF Numbers
  <2> QED
    BY <2>1, <2>2
<1>8. ASSUME NEW d \in Clients, NEW t \in Sessions PROVE Place(d, t)'
  <2>1. Place(d, t)
    BY DEF OutInv, ChannelOK, Channel
  <2> QED
    BY <1>1, <2>1 DEF Place
<1>9. ASSUME NEW d \in Clients, NEW t \in Sessions, Watching(d, t)' PROVE Flow(d, t)'
  <2>0. Watching(d, t) /\ Leftovers(d, t)' = Leftovers(d, t)
    BY <1>1, <1>9 DEF Watching, Leftovers
  <2>1. Flow(d, t) /\ Numbers(d) /\ Place(d, t) /\ Place(d, s)
    BY DEF OutInv, ChannelOK, Channel
  <2>2. /\ queue[d] \in Seq(Frame) /\ Len(queue[d]) <= QueueCap /\ req[d] \in Nat /\ seen[d] \in Seq(Nat)
        /\ base[d] \in Nat /\ out[t] \in Nat
    BY <1>0, <2>1 DEF Numbers
  <2>3. /\ base[d] <= out[t] /\ InOrder(seen[d], queue[d], req[d])
        /\ Coming(seen[d], queue[d], req[d]) \subseteq 1..out[t]
        /\ ~lost[d] => Coming(seen[d], queue[d], req[d]) = (base[d] + 1)..out[t]
        /\ Cardinality(Leftovers(d, t)) < QueueCap =>
             Latest(seen[d], queue[d], req[d], out[t], Cardinality(Over(d, t)))
    BY <2>0, <2>1 DEF Flow
  <2>4. seen' = seen /\ base' = base /\ req' = req
    BY <1>1
  <2>w. /\ conn[d] = "open" /\ req[d] # 0 /\ attached[t][d] = req[d]
    BY <2>0 DEF Watching
  <2>5. CASE attached[s][d] = 0
    <3>1. t # s
      BY <2>5, <2>w
    <3>2. out'[t] = out[t] /\ queue'[d] = queue[d]
      BY <1>2, <1>4, <2>5, <3>1
    <3>3. Over(d, t)' = Over(d, t)
      <4>1. \A u \in Leftovers(d, t) : u # s /\ u \in Sessions
        BY <2>5 DEF Leftovers
      <4>2. \A u \in Leftovers(d, t) : reader'[u] = reader[u]
        BY <1>2, <4>1
      <4> QED
        BY <2>0, <4>2 DEF Over
    <3>4. lost'[d] <=> lost[d]
      BY <1>5, <2>5
    <3> QED
      BY <2>0, <2>3, <2>4, <3>2, <3>3, <3>4 DEF Flow
  <2>6. CASE t = s
    <3>0. attached[s][d] = req[d] /\ attached[s][d] # 0 /\ out[t] = n
      BY <2>6, <2>w
    <3>1. /\ InOrder(seen[d], queue'[d], req[d]) /\ Coming(seen[d], queue'[d], req[d]) \subseteq 1..(n + 1)
          /\ Latest(seen[d], queue'[d], req[d], n + 1, 0)
          /\ ~Overflows(queue[d], req[d]) =>
               Coming(seen[d], queue'[d], req[d]) = Coming(seen[d], queue[d], req[d]) \cup {n + 1}
      <4>1. f(d) \in Frame /\ f(d).req = req[d] /\ f(d).chunk = n + 1 /\ Pushed(queue[d], f(d), queue'[d])
        BY <1>4, <3>0
      <4>2. InOrder(seen[d], queue[d], req[d]) /\ Coming(seen[d], queue[d], req[d]) \subseteq 1..n
        BY <2>3, <3>0
      <4>3. n \in Nat
        BY <1>0
      <4>a. queue[d] \in Seq(Frame) /\ Len(queue[d]) <= QueueCap /\ req[d] \in Nat /\ seen[d] \in Seq(Nat)
        BY <2>2
      <4> HIDE DEF n, f
      <4>4. InOrder(seen[d], queue'[d], req[d])
        BY <4>a, <4>1, <4>2, <4>3, PushMine
      <4>5. Coming(seen[d], queue'[d], req[d]) \subseteq 1..(n + 1)
        BY <4>a, <4>1, <4>2, <4>3, PushMine
      <4>6. Latest(seen[d], queue'[d], req[d], n + 1, 0)
        BY <4>a, <4>1, <4>2, <4>3, PushMine
      <4>7. ~Overflows(queue[d], req[d]) =>
              \A x : x \in Coming(seen[d], queue'[d], req[d]) <=>
                       x \in Coming(seen[d], queue[d], req[d]) \/ x = n + 1
        BY <4>a, <4>1, <4>2, <4>3, PushMine
      <4> QED
        BY <4>4, <4>5, <4>6, <4>7
    <3>2. ~lost'[d] => Coming(seen[d], queue'[d], req[d]) = (base[d] + 1)..(n + 1)
      <4>1. ~lost'[d] => ~lost[d] /\ ~Overflows(queue[d], req[d])
        BY <1>5, <3>0
      <4>2. (base[d] + 1)..(n + 1) = ((base[d] + 1)..n) \cup {n + 1}
        <5>1. base[d] <= n /\ base[d] \in Nat /\ n \in Nat
          BY <1>0, <2>2, <2>3, <3>0
        <5> HIDE DEF n
        <5> QED
          BY <5>1
      <4> QED
        BY <2>3, <3>0, <3>1, <4>1, <4>2
    <3>3. Latest(seen[d], queue'[d], req[d], n + 1, Cardinality(Over(d, t))')
      <4>1. Cardinality(Over(d, t))' \in Nat
        <5>1. IsFiniteSet(Sessions)
          BY TerminalAssumption DEF TerminalAssumption
        <5>2. Over(d, t)' \in SUBSET Sessions
          BY DEF Over, Leftovers
        <5> QED
          BY <5>1, <5>2, FS_Subset, FS_CardinalityType
      <4>2. \A k \in Nat : 0 <= k
        OBVIOUS
      <4>3. queue'[d] \in Seq(Frame)
        BY <1>4
      <4> HIDE DEF n
      <4> QED
        BY <3>1, <4>1, <4>2, <4>3, LatestMore
    <3>4. out'[t] = n + 1 /\ base[d] <= n + 1
      <4>1. base[d] <= n /\ base[d] \in Nat /\ n \in Nat
        BY <1>0, <2>2, <2>3, <3>0
      <4>2. base[d] <= n + 1
        BY <4>1
      <4> QED
        BY <1>2, <2>6, <4>2
    <3> HIDE DEF n
    <3> QED
      BY <2>4, <3>1, <3>2, <3>3, <3>4 DEF Flow
  <2>7. CASE t # s /\ attached[s][d] # 0
    <3>0. attached[s][d] # req[d] /\ out'[t] = out[t]
      BY <1>2, <2>1, <2>7, <2>w DEF Numbers
    <3>1. /\ InOrder(seen[d], queue'[d], req[d]) /\ Coming(seen[d], queue'[d], req[d]) \subseteq 1..out[t]
          /\ ~Overflows(queue[d], req[d]) =>
               Coming(seen[d], queue'[d], req[d]) = Coming(seen[d], queue[d], req[d])
          /\ \A k \in Nat : k + 1 < QueueCap /\ Latest(seen[d], queue[d], req[d], out[t], k) =>
                              Latest(seen[d], queue'[d], req[d], out[t], k + 1)
      <4>1. f(d) \in Frame /\ Pushed(queue[d], f(d), queue'[d]) /\ f(d).req # req[d]
        BY <1>4, <2>7, <3>0
      <4> HIDE DEF f
      <4> QED
        BY <2>2, <2>3, <4>1, PushOther
    <3>2. s \in Leftovers(d, t) \ Over(d, t)
      BY <1>1, <2>7 DEF Leftovers, Over
    <3>3. exit[s] = "closed"
      <4>1. /\ pc[d] \notin {"forget", "done"}
        BY <2>w DEF EndInv, AimsOK, Aims
      <4>2. cur[d] = t
        BY <2>1, <2>w, <4>1 DEF Place
      <4>3. s \notin sessions
        BY <2>1, <2>7, <4>1, <4>2 DEF Place
      <4>4. pc[s] \notin {"none", "started"} /\ proc[s] # "none"
        BY <2>1, <2>7 DEF Place
      <4>5. pc[s] \in SessionSteps /\ pc[s] # "watch" /\ Life(s)
        BY <4>3 DEF EndInv, EndTypes, LifeOK, Life
      <4> QED
        BY <4>4, <4>5 DEF Life, SessionSteps, Ending
    <3>4. Over(d, t)' = Over(d, t) \cup {s}
      <4>1. reader'[s] = "end"
        BY <1>2, <3>3
      <4>2. \A u \in Leftovers(d, t) \ {s} : reader'[u] = reader[u]
        BY <1>2 DEF Leftovers
      <4> QED
        BY <2>0, <3>2, <4>1, <4>2 DEF Over
    <3>5. /\ Cardinality(Over(d, t)') = Cardinality(Over(d, t)) + 1
          /\ Cardinality(Over(d, t)) + 1 <= Cardinality(Leftovers(d, t))
          /\ Cardinality(Over(d, t)) \in Nat /\ Cardinality(Leftovers(d, t)) \in Nat
      BY <3>2, <3>4, OverCounts
    <3>6. Cardinality(Leftovers(d, t)) < QueueCap =>
            Latest(seen[d], queue'[d], req[d], out[t], Cardinality(Over(d, t)'))
      <4> SUFFICES ASSUME Cardinality(Leftovers(d, t)) < QueueCap
                   PROVE  Latest(seen[d], queue'[d], req[d], out[t], Cardinality(Over(d, t)) + 1)
        BY <3>5
      <4>1. QueueCap \in Nat
        BY TerminalAssumption DEF TerminalAssumption
      <4>2. Cardinality(Over(d, t)) + 1 < QueueCap
        BY <3>5, <4>1
      <4> QED
        BY <2>3, <3>1, <3>5, <4>2
    <3>7. ~lost'[d] => Coming(seen[d], queue'[d], req[d]) = (base[d] + 1)..out[t]
      <4>1. ~lost'[d] => ~lost[d] /\ ~Overflows(queue[d], req[d])
        BY <1>5, <2>7
      <4> QED
        BY <2>3, <3>1, <4>1
    <3> QED
      BY <2>0, <2>3, <2>4, <3>0, <3>1, <3>6, <3>7 DEF Flow
  <2> QED
    BY <2>5, <2>6, <2>7
<1>10. ASSUME NEW d \in Clients PROVE Channel(d)'
  <2>1. \A t \in Sessions : Flow(d, t)'
    BY <1>9 DEF Flow
  <2> QED
    BY <1>7, <1>8, <2>1 DEF Channel
<1> QED
  BY <1>3, <1>6, <1>10 DEF OutInv, ChannelOK

-----------------------------------------------------------------------------
(***************************************************************************)
(* The invariant of the output, kept by every step.                        *)
(***************************************************************************)
LEMMA OutInit == Init => OutInv
<1> SUFFICES ASSUME Init PROVE OutInv
  OBVIOUS
<1>0. /\ QueueCap \in Nat /\ BufCap \in Nat /\ \A s \in Sessions : s \in Actors /\ s # None /\ s \notin Clients
      /\ \A c \in Clients : c \in Actors
  BY TerminalAssumption DEF TerminalAssumption, Actors
<1>1. /\ \A s \in Sessions : /\ out[s] = 0 /\ buf[s] = <<>> /\ pc[s] = "none" /\ s \notin sessions
                             /\ \A c \in Clients : attached[s][c] = 0
      /\ \A c \in Clients : queue[c] = <<>> /\ req[c] = 0 /\ cur[c] = None /\ pc[c] = "read"
  BY <1>0 DEF Init
<1>2. OutTypes
  <2>1. <<>> \in Seq(Nat) /\ <<>> \in Seq(Frame)
    OBVIOUS
  <2> QED
    BY <2>1 DEF Init, OutTypes
<1>3. RingOK
  <2>1. ASSUME NEW s \in Sessions PROVE Ring(s)
    <3>1. Len(buf[s]) = 0 /\ out[s] = 0
      BY <1>1
    <3> QED
      BY <1>0, <3>1 DEF Ring
  <2> QED
    BY <2>1 DEF RingOK
<1>4. ASSUME NEW c \in Clients PROVE Channel(c)
  <2>1. Len(queue[c]) = 0 /\ pc[c] \notin Going
    BY <1>1 DEF Going
  <2>2. Numbers(c)
    BY <1>0, <1>1, <2>1 DEF Numbers
  <2>3. \A s \in Sessions : Place(c, s) /\ Flow(c, s)
    BY <1>0, <1>1 DEF Place, Flow, Watching
  <2> QED
    BY <2>2, <2>3 DEF Channel
<1> QED
  BY <1>2, <1>3, <1>4 DEF OutInv, ChannelOK

LEMMA OutKept == EndInv /\ OutInv /\ [Next]_vars => OutInv'
<1> SUFFICES ASSUME EndInv, OutInv, [Next]_vars PROVE OutInv'
  OBVIOUS
<1>1. CASE UNCHANGED vars
  <2>1. UNCHANGED <<out, reader, buf, attached, queue, seen, base, lost, cur, req, pc, proc, conn, sessions>>
    BY <1>1 DEF vars, manager, shells, actors, wire
  <2> QED
    BY <2>1, QuietFlows
<1>2. ASSUME NEW s \in Sessions,
             Shell(s) \/ Publish(s) \/ ShellExits(s) \/ AlarmRings(s) \/ GraceOver(s) \/ Watch(s)
      PROVE  OutInv'
  <2>1. s \in Actors
    BY DEF Actors
  <2>2. CASE Shell(s) \/ ShellExits(s) \/ AlarmRings(s) \/ GraceOver(s)
    BY <2>2, ShellFlows DEF Shell
  <2>3. CASE Publish(s)
    BY <2>3, PublishFlows
  <2>4. CASE Watch(s)
    BY <2>1, <2>4, WatchFlows, BroadcastFlows DEF Watch
  <2> QED
    BY <1>2, <2>2, <2>3, <2>4
<1>3. ASSUME NEW c \in Clients, Connect(c) \/ Break(c) \/ AskList(c) \/ DetachRequest(c) \/ Handle(c)
      PROVE  OutInv'
  <2>1. c \in Actors
    BY DEF Actors
  <2>2. CASE Connect(c) \/ Break(c) \/ CreateMap(c)
    BY <2>2, MapFlows
  <2>3. CASE DetachOld(c) \/ Disconnect(c)
    BY <2>3, LeaveFlows
  <2>4. CASE Forget(c)
    BY <2>4, ForgetFlows
  <2>5. CASE DetachRequest(c)
    BY <2>5, AskFlows
  <2>6. CASE WriteFrame(c)
    BY <2>6, WriteFlows
  <2>7. CASE Attach(c)
    BY <2>7, AttachFlows
  <2>8. CASE AttachLate(c) \/ Greet(c) \/ AttachDead(c) \/ AskList(c)
    BY <2>8, AnswerFlows
  <2>9. CASE Broadcast(c)
    BY <2>1, <2>9, BroadcastFlows
  <2> QED
    BY <1>3, <2>2, <2>3, <2>4, <2>5, <2>6, <2>7, <2>8, <2>9 DEF Handle
<1>4. ASSUME NEW c \in Clients, NEW s \in Sessions, Ask(c, s)
      PROVE  OutInv'
  <2>1. CASE Create(c, s) \/ CreateFails(c, s) \/ AttachGet(c, s) \/ AttachUnknown(c, s)
    BY <2>1, AskFlows
  <2>2. CASE Kill(c, s) \/ Input(c, s)
    BY <2>2, ShellFlows
  <2>3. CASE \E on \in Alarms : AutoClose(c, s, on)
    BY <2>3, AnswerFlows
  <2> QED
    BY <1>4, <2>1, <2>2, <2>3 DEF Ask
<1> QED
  BY <1>1, <1>2, <1>3, <1>4 DEF Next

LEMMA OutShows == EndInv /\ OutInv => NothingMissing
<1> SUFFICES ASSUME EndInv, OutInv PROVE NothingMissing
  OBVIOUS
<1>1. ASSUME NEW c \in Clients, NEW s \in Sessions, Watching(c, s)
      PROVE  LET chunks == Coming(seen[c], queue[c], req[c])
             IN  /\ InOrder(seen[c], queue[c], req[c]) /\ chunks \subseteq 1..out[s]
                 /\ ~lost[c] => chunks = (base[c] + 1)..out[s]
                 /\ out[s] > 0 /\ Cardinality(Leftovers(c, s)) < QueueCap => out[s] \in chunks
  <2>1. Flow(c, s)
    BY DEF OutInv, ChannelOK, Channel
  <2>2. Latest(seen[c], queue[c], req[c], out[s], Cardinality(Over(c, s))) /\ out[s] > 0 =>
          out[s] \in Coming(seen[c], queue[c], req[c])
    BY DEF Latest, Coming
  <2> QED
    BY <1>1, <2>1, <2>2 DEF Flow
<1>2. ASSUME NEW c \in Clients, NEW s \in sessions, pc[c] \in {"read", "forget", "done"}
      PROVE  attached[s][c] # 0 <=> cur[c] = s /\ pc[c] = "read"
  <2>1. s \in Sessions
    BY DEF EndInv, EndTypes
  <2>2. Place(c, s)
    BY <2>1 DEF OutInv, ChannelOK, Channel
  <2> QED
    BY <1>2, <2>2 DEF Place
<1> QED
  BY <1>1, <1>2 DEF NothingMissing, Seamless, OneSession

\* NothingMissing: an attached page has or is about to get the output of the session
\* it shows, from the oldest chunk of the ring buffer to the latest published, each
\* once and in order; a page too slow for it loses old chunks but not the present;
\* and a connection is registered with the session it shows and no other (session.go:
\* attachClient and publishOutput; client.go: push; handler.go: attach, detach).
THEOREM NothingIsMissing == Spec => []NothingMissing
BY EndInit, EndKept, OutInit, OutKept, OutShows, PTL DEF Spec
=============================================================================
