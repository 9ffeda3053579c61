---------------------------- MODULE DriverProofs ----------------------------
(***************************************************************************)
(* What holds of the drivers for every number of calls, prompts, tool      *)
(* calls, settings requests and approvals.  The components share no state; *)
(* each has its part here.                                                 *)
(***************************************************************************)
EXTENDS CliCalls, PiTurns, ToolCards, ClaudeStream, CodexTurns, Approvals,
        WellFoundedInduction, FiniteSetTheorems, TLAPS

-----------------------------------------------------------------------------
(***************************************************************************)
(* CliCalls: the calls a driver makes of its CLI.                          *)
(***************************************************************************)
CallResults == {"none", "ok", "error"}
CallQueue == [id : Nat, asks : Settings \cup {NoModel}]

CallsTypeOK ==
  /\ serves \in {"codex", "pi"} /\ life \in {"none", "up", "reaped", "done"}
  /\ killed \in BOOLEAN /\ gate \in BOOLEAN /\ modelCrossed \in BOOLEAN
  /\ start \in {"launch", "calling", "ok", "failed"}
  /\ shaken \in Nat /\ nextID \in Nat /\ table \subseteq Nat
  /\ waits \in [Goroutines -> Nat] /\ answer \in [Goroutines -> CallResults]
  /\ unanswered \in Seq(CallQueue)
  /\ setting \in [Settings -> {"new", "calling", "confirmed", "done"}]

\* Before Start has started the process there is nothing yet, and before it has
\* returned no settings request.
Unlaunched ==
  /\ start = "launch" => life = "none" /\ ~killed
  /\ start # "ok" => \A s \in Settings : setting[s] = "new"

\* An id is given out once; a goroutine waits for a call of its own, and for
\* none before its request and behind it.
IdsOnce ==
  /\ \A i \in table : 0 < i /\ i <= nextID
  /\ \A w \in Goroutines : waits[w] <= nextID
  /\ \A i \in DOMAIN unanswered : unanswered[i].id <= nextID /\ unanswered[i].id > 0
  /\ \A i, j \in DOMAIN unanswered : i # j => unanswered[i].id # unanswered[j].id
  /\ \A s \in Settings : waits[s] # 0 => setting[s] = "calling"

\* An id in the table is waited for; a call that is answered is in it no more,
\* and none is once the process is gone.
TableOK ==
  /\ \A i \in table : \E w \in Goroutines : waits[w] = i
  /\ \A w \in Goroutines : answer[w] # "none" => waits[w] \notin table
  /\ life \in {"reaped", "done"} => table = {}

\* A Start that has failed, or a driver that was killed, leaves no gate file.
GateOK ==
  /\ start = "failed" /\ life # "none" => killed /\ ~gate
  /\ killed => ~gate

LeftInv == CallsTypeOK /\ Unlaunched /\ IdsOnce /\ TableOK /\ GateOK

\* What the CLI has not answered, if it is about a model, is the one call that
\* is under way; the CLI uses the model of that call as soon as it has said so.
Asked(s) == setting[s] \in {"calling", "confirmed"}
InStep ==
  /\ \A s, t \in Settings : Asked(s) /\ Asked(t) => s = t
  /\ \A i \in DOMAIN unanswered :
       LET r == unanswered[i] IN
       r.asks # NoModel => /\ setting[r.asks] = "calling" /\ waits[r.asks] = r.id
                      /\ answer[r.asks] = "none" /\ r.id \in table
  /\ \A s \in Settings :
       \/ setting[s] = "calling" /\ answer[s] = "ok"
       \/ setting[s] = "confirmed"
       => cliModel = s
  /\ \A s \in Settings : setting[s] = "calling" /\ answer[s] # "ok" => ownModel = cliModel
  /\ ~Changing => ownModel = cliModel

\* A settings request waits for the answer to what it has asked.
OwnQuestion ==
  \A i \in DOMAIN unanswered : \A s \in Settings :
    waits[s] = unanswered[i].id => unanswered[i].asks = s

ModelInv ==
  /\ serves = "codex" =>
       /\ ownModel = cliModel
       /\ \A s \in Settings : setting[s] # "confirmed"
       /\ \A i \in DOMAIN unanswered : unanswered[i].asks = NoModel
  /\ serves = "pi" => OwnQuestion
  /\ serves = "pi" /\ life \in {"none", "up"} /\ ~modelCrossed => InStep

-----------------------------------------------------------------------------
\* What a call returns, whichever way, it takes nothing from the table but the
\* id of the one that waits.
LEMMA ReturnsTable ==
  ASSUME CallsTypeOK, NEW w \in Goroutines, NEW result, Returns(w, result)
  PROVE  /\ waits[w] # 0
         /\ table' \subseteq table
         /\ table \ {waits[w]} \subseteq table'
         /\ TableOK => waits[w] \notin table'
         /\ result \in {"ok", "error"} => answer[w] = result
BY DEF Returns, DropEntry, TableOK, CallsTypeOK, CallResults

\* A new call has an id nobody has.
LEMMA PostsInv ==
  ASSUME LeftInv, SettingsAssumption, NEW w \in Goroutines, NEW what \in Settings \cup {NoModel},
         Posts(w, what), waits[w] = 0, life = "up", UNCHANGED <<life, serves>>,
         start' = start, start \in {"calling", "ok"}, w \in Settings => start = "ok",
         setting' \in [Settings -> {"new", "calling", "confirmed", "done"}],
         \A s \in Settings : IF s = w THEN setting'[s] = "calling" ELSE setting'[s] = setting[s],
         UNCHANGED <<killed, gate, shaken>>, modelCrossed' \in BOOLEAN
  PROVE  LeftInv'
<1> DEFINE r == [id |-> nextID + 1, asks |-> what]
<1> USE DEF LeftInv
<1>1. r \in CallQueue /\ unanswered' = Append(unanswered, r)
  BY DEF CallsTypeOK, CallQueue, Posts
<1>2. /\ DOMAIN unanswered' = 1..(Len(unanswered) + 1)
      /\ DOMAIN unanswered = 1..Len(unanswered)
      /\ unanswered'[Len(unanswered) + 1].id = nextID + 1
      /\ \A i \in DOMAIN unanswered : unanswered'[i] = unanswered[i] /\ unanswered[i] \in CallQueue
      /\ unanswered' \in Seq(CallQueue)
  <2> HIDE DEF r
  <2>1. unanswered'[Len(unanswered) + 1] = r
    BY <1>1 DEF CallsTypeOK
  <2>2. r.id = nextID + 1
    BY DEF r
  <2> QED
    BY <1>1, <2>1, <2>2 DEF CallsTypeOK
<1>3. /\ nextID \in Nat /\ nextID' = nextID + 1 /\ table' = table \cup {nextID'}
      /\ table \subseteq Nat
      /\ waits \in [Goroutines -> Nat] /\ waits' = [waits EXCEPT ![w] = nextID']
      /\ answer \in [Goroutines -> CallResults] /\ answer' = [answer EXCEPT ![w] = "none"]
  BY DEF CallsTypeOK, Posts
<1>4. CallsTypeOK'
  BY <1>2, <1>3 DEF CallsTypeOK, CallResults
<1>5. IdsOnce'
  <2>1. \A i \in DOMAIN unanswered : unanswered[i].id \in Nat /\ unanswered[i].id <= nextID
    BY <1>2 DEF IdsOnce, CallQueue
  <2>2. ASSUME NEW i \in DOMAIN unanswered', NEW j \in DOMAIN unanswered', i # j
        PROVE  unanswered'[i].id # unanswered'[j].id
    <3>1. CASE i \in DOMAIN unanswered /\ j \in DOMAIN unanswered
      BY <1>2, <2>2, <3>1 DEF IdsOnce
    <3>2. CASE i \in DOMAIN unanswered /\ j = Len(unanswered) + 1
      BY <1>2, <1>3, <2>1, <3>2
    <3>3. CASE j \in DOMAIN unanswered /\ i = Len(unanswered) + 1
      BY <1>2, <1>3, <2>1, <3>3
    <3> QED
      BY <1>2, <2>2, <3>1, <3>2, <3>3
  <2>3. ASSUME NEW i \in DOMAIN unanswered'
        PROVE  unanswered'[i].id <= nextID' /\ unanswered'[i].id > 0
    <3>1. CASE i \in DOMAIN unanswered
      BY <1>2, <1>3, <2>1, <3>1 DEF IdsOnce
    <3> QED
      BY <1>2, <1>3, <3>1
  <2>4. \A i \in table' : 0 < i /\ i <= nextID'
    <3>1. \A i \in table : i \in Nat /\ 0 < i /\ i <= nextID
      BY <1>3 DEF IdsOnce
    <3> QED
      BY <1>3, <3>1
  <2>5. \A v \in Goroutines : waits'[v] <= nextID'
    BY <1>3 DEF IdsOnce
  <2>6. \A s \in Settings : waits'[s] # 0 => setting'[s] = "calling"
    BY <1>3 DEF IdsOnce, Goroutines
  <2> QED
    BY <2>2, <2>3, <2>4, <2>5, <2>6 DEF IdsOnce
<1>6. TableOK'
  <2>1. ASSUME NEW i \in table' PROVE \E v \in Goroutines : waits'[v] = i
    <3>1. CASE i = nextID'
      BY <1>3, <3>1
    <3>2. CASE i \in table
      <4>1. PICK v \in Goroutines : waits[v] = i
        BY <3>2 DEF TableOK
      <4>2. v # w
        BY <4>1, <3>2 DEF IdsOnce
      <4> QED
        BY <1>3, <4>1, <4>2
    <3> QED
      BY <1>3, <3>1, <3>2
  <2>2. \A v \in Goroutines : answer'[v] # "none" => waits'[v] \notin table'
    BY <1>3 DEF TableOK, IdsOnce
  <2> QED
    BY <2>1, <2>2 DEF TableOK
<1> QED
  BY <1>4, <1>5, <1>6 DEF Unlaunched, GateOK

\* Whoever has returned from a call waits for none.
LEMMA BackInv ==
  ASSUME LeftInv, NEW w \in Goroutines, NEW result, Returns(w, result), Back(w),
         UNCHANGED <<life, serves>>, start # "launch", start' \in {"calling", "ok", "failed"},
         start' # "ok" => start # "ok", w \in Settings => start' = "ok",
         setting' \in [Settings -> {"new", "calling", "confirmed", "done"}],
         \A s \in Settings : s # w => setting'[s] = setting[s],
         modelCrossed' \in BOOLEAN, shaken' \in Nat,
         \/ UNCHANGED <<killed, gate>> /\ start' = start
         \/ CloseProcess
  PROVE  LeftInv'
<1> USE DEF LeftInv
<1>1. /\ waits[w] # 0 /\ table' \subseteq table /\ waits[w] \notin table'
      /\ table \ {waits[w]} \subseteq table'
  BY ReturnsTable
<1>2. CallsTypeOK'
  BY <1>1 DEF CallsTypeOK, Back, CloseProcess
<1>3. IdsOnce'
  BY <1>1 DEF IdsOnce, Back, CallsTypeOK
<1>4. TableOK'
  <2>1. \A i \in table' : \E v \in Goroutines : waits'[v] = i
    <3> SUFFICES ASSUME NEW i \in table' PROVE \E v \in Goroutines : waits'[v] = i
      OBVIOUS
    <3>1. PICK v \in Goroutines : waits[v] = i
      BY <1>1 DEF TableOK
    <3>2. v # w
      BY <1>1, <3>1
    <3> QED
      BY <3>1, <3>2 DEF Back, CallsTypeOK
  <2>2. \A v \in Goroutines : answer'[v] # "none" => waits'[v] \notin table'
    <3>1. 0 \notin table'
      BY <1>1 DEF IdsOnce, CallsTypeOK
    <3> QED
      BY <1>1, <3>1 DEF TableOK, Back, CallsTypeOK
  <2> QED
    BY <1>1, <2>1, <2>2 DEF TableOK
<1> QED
  BY <1>2, <1>3, <1>4 DEF Unlaunched, GateOK, CloseProcess

\* The CLI's answer goes to the call it is for, or to nobody.
LEMMA AnswersInv ==
  ASSUME LeftInv, NEW result \in {"ok", "error"}, Answers(result)
  PROVE  LeftInv'
<1> USE DEF LeftInv, Answers
<1>1. /\ DOMAIN unanswered' = 1..(Len(unanswered) - 1)
      /\ DOMAIN unanswered = 1..Len(unanswered)
      /\ Len(unanswered) > 0
      /\ \A i \in DOMAIN unanswered' : unanswered'[i] = unanswered[i + 1]
      /\ unanswered' \in Seq(CallQueue)
      /\ Head(unanswered) = unanswered[1]
  BY DEF CallsTypeOK
<1>2. CallsTypeOK'
  BY <1>1 DEF CallsTypeOK, CallResults
<1>3. IdsOnce'
  <2>1. \A i \in DOMAIN unanswered' : i + 1 \in DOMAIN unanswered
    BY <1>1 DEF CallsTypeOK
  <2> QED
    BY <1>1, <2>1 DEF CallsTypeOK, IdsOnce
<1>4. TableOK'
  BY DEF TableOK, CallsTypeOK
<1> QED
  BY <1>2, <1>3, <1>4 DEF Unlaunched, GateOK

\* The ids, the table and the gate file stay in order.
LEMMA LeftInit == CallsInit => LeftInv
<1> SUFFICES ASSUME CallsInit PROVE LeftInv
  OBVIOUS
<1>1. unanswered \in Seq(CallQueue) /\ DOMAIN unanswered = {}
  BY DEF CallsInit
<1>2. CallsTypeOK
  BY <1>1 DEF CallsInit, CallsTypeOK, CallResults
<1>3. IdsOnce /\ TableOK
  BY <1>1 DEF CallsInit, IdsOnce, TableOK, Goroutines
<1> QED
  BY <1>2, <1>3 DEF CallsInit, LeftInv, Unlaunched, GateOK

LEMMA LeftStep ==
  ASSUME LeftInv, SettingsAssumption, [CallsNext]_callVars
  PROVE  LeftInv'
<1> USE DEF LeftInv, Unlaunched, GateOK
<1> DEFINE Same == UNCHANGED <<nextID, table, waits, answer, unanswered, setting>>
<1>0. ASSUME Same, CallsTypeOK', life' = life \/ life' = "up" \/ (life' \in {"none", "done"} /\ (life' = "done" => life = "reaped"))
      PROVE  IdsOnce' /\ TableOK'
  BY <1>0 DEF IdsOnce, TableOK
<1>1. ASSUME NEW b \in BOOLEAN, NEW l \in BOOLEAN, Launch(b, l) PROVE LeftInv'
  <2>1. CallsTypeOK'
    BY <1>1 DEF CallsTypeOK, Launch, notStart
  <2> QED
    BY <1>0, <1>1, <2>1 DEF Launch, notStart
<1>2. CASE HandshakeCall
  <2>1. CASE life = "up"
    <3>1. Starter \in Goroutines /\ Starter \notin Settings
      BY DEF Goroutines, SettingsAssumption
    <3> QED
      BY <1>2, <2>1, <3>1, PostsInv DEF HandshakeCall, notStart, CallsTypeOK
  <2>2. CASE life # "up"
    <3>0. killed' \in BOOLEAN /\ gate' \in BOOLEAN
      BY <1>2, <2>2 DEF HandshakeCall, GiveUp, CloseProcess, CallsTypeOK
    <3>1. /\ start' \in {start, "failed"} 
          /\ shaken' \in {shaken, shaken + 1}
          /\ UNCHANGED <<notStart, life, nextID, table, waits, answer, unanswered>>
      BY <1>2, <2>2 DEF HandshakeCall, GiveUp, CloseProcess
    <3>2. CallsTypeOK'
      BY <3>0, <3>1 DEF CallsTypeOK, notStart
    <3> QED
      BY <1>0, <1>2, <2>2, <3>1, <3>2 DEF HandshakeCall, notStart, GiveUp, CloseProcess
  <2> QED
    BY <2>1, <2>2
<1>3. ASSUME NEW result \in Outcomes, HandshakeStep(result) PROVE LeftInv'
  <2>1. Starter \in Goroutines /\ Starter \notin Settings
    BY DEF Goroutines, SettingsAssumption
  <2> QED
    BY <1>3, <2>1, BackInv DEF HandshakeStep, notStart, GiveUp, CallsTypeOK
<1>4. CASE StartOk
  <2>1. CallsTypeOK'
    BY <1>4 DEF CallsTypeOK, StartOk, notStart
  <2> QED
    BY <1>0, <1>4, <2>1 DEF StartOk, notStart
<1>5. CASE Kill
  <2>1. CallsTypeOK'
    BY <1>5 DEF CallsTypeOK, Kill, CloseProcess
  <2> QED
    BY <1>0, <1>5, <2>1 DEF Kill, CloseProcess
<1>6. CASE Reap
  <2>1. CallsTypeOK'
    BY <1>6 DEF CallsTypeOK, Reap, CallResults
  <2>2. IdsOnce' /\ TableOK'
    BY <1>6 DEF IdsOnce, TableOK, Reap
  <2> QED
    BY <1>6, <2>1, <2>2 DEF Reap
<1>7. CASE CloseDone
  <2>1. CallsTypeOK'
    BY <1>7 DEF CallsTypeOK, CloseDone
  <2> QED
    BY <1>0, <1>7, <2>1 DEF CloseDone
<1>8. ASSUME NEW result \in {"ok", "error"}, Answers(result) PROVE LeftInv'
  BY <1>8, AnswersInv
<1>9. ASSUME NEW s \in Settings, Ask(s) PROVE LeftInv'
  <2>1. s \in Goroutines /\ waits[s] = 0
    BY <1>9 DEF Goroutines, Ask, IdsOnce
  <2>2. modelCrossed' \in BOOLEAN
    BY <1>9 DEF Ask, CallsTypeOK
  <2> QED
    BY <1>9, <2>1, <2>2, PostsInv DEF Ask, processRest, CallsTypeOK
<1>10. ASSUME NEW s \in Settings, Record(s) PROVE LeftInv'
  <2>1. CallsTypeOK'
    BY <1>10 DEF CallsTypeOK, Record, processRest
  <2>2. IdsOnce' /\ TableOK'
    BY <1>10 DEF IdsOnce, TableOK, Record, processRest, CallsTypeOK
  <2> QED
    BY <1>10, <2>1, <2>2 DEF Record, processRest
<1>11. ASSUME NEW s \in Settings, NEW result \in Outcomes, AskDone(s, result) PROVE LeftInv'
  <2>1. s \in Goroutines
    BY DEF Goroutines
  <2>2. modelCrossed' \in BOOLEAN /\ start = "ok"
    BY <1>11 DEF AskDone, CallsTypeOK, Unlaunched
  <2> QED
    BY <1>11, <2>1, <2>2, BackInv DEF AskDone, processRest, CallsTypeOK
<1>12. CASE UNCHANGED callVars
  <2>1. CallsTypeOK' /\ Same /\ life' = life
    BY <1>12 DEF callVars, CallsTypeOK
  <2> QED
    BY <1>0, <1>12, <2>1 DEF callVars
<1> QED
  BY <1>1, <1>2, <1>3, <1>4, <1>5, <1>6, <1>7, <1>8, <1>9, <1>10, <1>11, <1>12 DEF CallsNext

\* The answers arrive in order, so that the model of a driver follows the CLI's.
LEMMA PostsModel ==
  ASSUME LeftInv, ModelInv, SettingsAssumption, NEW w \in Goroutines, NEW what \in Settings \cup {NoModel},
         Posts(w, what), waits[w] = 0, life = "up", UNCHANGED <<life, serves, cliModel, ownModel>>,
         \/ w = Starter /\ what = NoModel /\ UNCHANGED <<setting, modelCrossed>>
         \/ /\ w \in Settings /\ what = IF serves = "pi" THEN w ELSE NoModel
            /\ setting[w] = "new" /\ setting' = [setting EXCEPT ![w] = "calling"]
            /\ ~modelCrossed' => ~modelCrossed /\ ~Changing
  PROVE  ModelInv'
<1> USE DEF LeftInv
<1>1. /\ waits' = [waits EXCEPT ![w] = nextID + 1] /\ answer' = [answer EXCEPT ![w] = "none"]
      /\ table \subseteq table' /\ nextID + 1 \in table' /\ nextID \in Nat
      /\ waits \in [Goroutines -> Nat] /\ answer \in [Goroutines -> CallResults]
      /\ setting \in [Settings -> {"new", "calling", "confirmed", "done"}]
  BY DEF Posts, CallsTypeOK
<1>2. /\ DOMAIN unanswered' = 1..(Len(unanswered) + 1)
      /\ DOMAIN unanswered = 1..Len(unanswered)
      /\ unanswered'[Len(unanswered) + 1].id = nextID + 1
      /\ unanswered'[Len(unanswered) + 1].asks = what
      /\ \A i \in DOMAIN unanswered : unanswered'[i] = unanswered[i] /\ unanswered[i] \in CallQueue
  <2> DEFINE r == [id |-> nextID + 1, asks |-> what]
  <2>1. r \in CallQueue /\ unanswered' = Append(unanswered, r) /\ r.id = nextID + 1 /\ r.asks = what
    BY DEF CallsTypeOK, CallQueue, Posts
  <2> HIDE DEF r
  <2> QED
    BY <2>1 DEF CallsTypeOK
<1>3. \A i \in DOMAIN unanswered : unanswered[i].id \in Nat /\ unanswered[i].id <= nextID
  BY <1>2 DEF IdsOnce, CallQueue
<1>4. \A v \in Goroutines : waits[v] <= nextID
  BY DEF IdsOnce
<1>5. Settings \subseteq Goroutines /\ Starter \notin Settings /\ NoModel \notin Settings
  BY DEF Goroutines, SettingsAssumption
<1>6. serves = "codex" =>
        /\ ownModel' = cliModel'
        /\ \A s \in Settings : setting'[s] # "confirmed"
        /\ \A i \in DOMAIN unanswered' : unanswered'[i].asks = NoModel
  <2> SUFFICES ASSUME serves = "codex"
               PROVE  /\ ownModel' = cliModel'
                      /\ \A s \in Settings : setting'[s] # "confirmed"
                      /\ \A i \in DOMAIN unanswered' : unanswered'[i].asks = NoModel
    OBVIOUS
  <2>1. what = NoModel /\ ownModel' = cliModel'
    BY DEF ModelInv
  <2>2. \A s \in Settings : setting'[s] # "confirmed"
    BY <1>1 DEF ModelInv
  <2>3. \A i \in DOMAIN unanswered' : unanswered'[i].asks = NoModel
    BY <1>2, <2>1 DEF ModelInv
  <2> QED
    BY <2>1, <2>2, <2>3
<1>7. serves = "pi" => OwnQuestion'
  <2> SUFFICES ASSUME serves = "pi", NEW i \in DOMAIN unanswered', NEW s \in Settings,
                      waits'[s] = unanswered'[i].id
               PROVE  unanswered'[i].asks = s
    BY DEF OwnQuestion
  <2>1. CASE i \in DOMAIN unanswered
    <3>1. unanswered'[i].id <= nextID /\ unanswered'[i] = unanswered[i] /\ unanswered[i].id \in Nat
      BY <1>2, <1>3, <2>1
    <3>2. s # w
      BY <1>1, <1>5, <3>1
    <3> QED
      BY <1>1, <1>5, <2>1, <3>1, <3>2 DEF ModelInv, OwnQuestion
  <2>2. CASE i = Len(unanswered) + 1
    <3>1. s = w
      BY <1>1, <1>2, <1>4, <1>5, <2>2
    <3> QED
      BY <1>2, <1>5, <2>2, <3>1
  <2> QED
    BY <1>2, <2>1, <2>2
<1>8. serves = "pi" /\ ~modelCrossed' => InStep'
  <2> SUFFICES ASSUME serves = "pi", ~modelCrossed' PROVE InStep'
    OBVIOUS
  <2>1. ~modelCrossed
    OBVIOUS
  <2>2. InStep
    BY <2>1 DEF ModelInv
  <2>3. CASE w = Starter
    <3>1. what = NoModel /\ setting' = setting
      BY <1>5, <2>3
    <3>2. \A s \in Settings : waits'[s] = waits[s] /\ answer'[s] = answer[s]
      BY <1>1, <1>5, <2>3
    <3>3. \A i \in DOMAIN unanswered' : unanswered'[i].asks # NoModel =>
            /\ i \in DOMAIN unanswered /\ unanswered'[i] = unanswered[i]
            /\ unanswered[i].asks \in Settings
      BY <1>2, <3>1 DEF CallQueue
    <3> QED
      BY <1>1, <2>2, <3>1, <3>2, <3>3 DEF InStep, Changing, Asked
  <2>4. CASE w \in Settings
    <3>1. ~Changing /\ what = w /\ setting' = [setting EXCEPT ![w] = "calling"]
      BY <1>5, <2>4
    <3>2. \A s \in Settings : s # w => ~Asked(s) /\ ~Asked(s)'
      BY <1>1, <2>4, <3>1 DEF Changing, Asked
    <3>3. \A i \in DOMAIN unanswered : unanswered[i].asks = NoModel
      <4>1. \A i \in DOMAIN unanswered : unanswered[i].asks \in Settings \cup {NoModel}
        BY <1>2 DEF CallQueue
      <4> QED
        BY <2>2, <3>1, <4>1 DEF InStep, Changing
    <3>4. /\ setting'[w] = "calling" /\ waits'[w] = nextID + 1 /\ answer'[w] = "none"
          /\ ownModel = cliModel
      BY <1>1, <1>5, <2>2, <2>4, <3>1 DEF InStep
    <3>5. \A s \in Settings : s # w => setting'[s] \notin {"calling", "confirmed"}
      BY <3>2 DEF Asked
    <3> QED
      BY <1>1, <1>2, <2>4, <3>1, <3>3, <3>4, <3>5 DEF InStep, Changing, Asked
  <2> QED
    BY <2>3, <2>4
<1> QED
  BY <1>6, <1>7, <1>8 DEF ModelInv, CallsTypeOK

LEMMA AnswersModel ==
  ASSUME LeftInv, ModelInv, SettingsAssumption, NEW result \in {"ok", "error"}, Answers(result)
  PROVE  ModelInv'
<1> USE DEF LeftInv
<1> DEFINE r == Head(unanswered)
<1>1. /\ DOMAIN unanswered' = 1..(Len(unanswered) - 1)
      /\ DOMAIN unanswered = 1..Len(unanswered) /\ Len(unanswered) \in Nat
      /\ Len(unanswered) > 0
      /\ \A i \in DOMAIN unanswered' : i + 1 \in DOMAIN unanswered /\ unanswered'[i] = unanswered[i + 1]
      /\ r = unanswered[1] /\ 1 \in DOMAIN unanswered
      /\ \A i \in DOMAIN unanswered : unanswered[i] \in CallQueue
  BY DEF CallsTypeOK, Answers
<1>2. /\ life = "up" /\ UNCHANGED <<serves, life, waits, setting, ownModel, modelCrossed>>
      /\ table' = table \ {r.id}
      /\ cliModel' = IF r.asks # NoModel /\ result = "ok" THEN r.asks ELSE cliModel
      /\ \A w \in Goroutines : answer'[w] = IF waits[w] = r.id /\ r.id \in table THEN result ELSE answer[w]
  BY DEF Answers
<1>3. Settings \subseteq Goroutines /\ NoModel \notin Settings
  BY DEF Goroutines, SettingsAssumption
<1> HIDE DEF r
<1>4. serves = "codex" =>
        /\ ownModel' = cliModel'
        /\ \A s \in Settings : setting'[s] # "confirmed"
        /\ \A i \in DOMAIN unanswered' : unanswered'[i].asks = NoModel
  BY <1>1, <1>2 DEF ModelInv
<1>5. serves = "pi" => OwnQuestion'
  BY <1>1, <1>2 DEF ModelInv, OwnQuestion
<1>6. serves = "pi" /\ ~modelCrossed => InStep'
  <2> SUFFICES ASSUME serves = "pi", ~modelCrossed PROVE InStep'
    OBVIOUS
  <2>1. InStep /\ OwnQuestion
    BY <1>2 DEF ModelInv
  <2>2. \A i \in DOMAIN unanswered : i # 1 => unanswered[i].id # r.id
    BY <1>1 DEF IdsOnce
  <2>3. \A s \in Settings : waits[s] = r.id => r.asks = s
    BY <1>1, <2>1 DEF OwnQuestion
  <2>4. \A i \in DOMAIN unanswered' : unanswered'[i].id # r.id
    BY <1>1, <2>2
  <2>5. ASSUME NEW i \in DOMAIN unanswered', unanswered'[i].asks # NoModel
        PROVE  LET q == unanswered'[i] IN
               /\ setting'[q.asks] = "calling" /\ waits'[q.asks] = q.id
               /\ answer'[q.asks] = "none" /\ q.id \in table'
    <3>1. PICK j \in DOMAIN unanswered : j = i + 1 /\ unanswered'[i] = unanswered[j]
      BY <1>1
    <3>2. unanswered[j].asks \in Settings
      BY <1>1, <2>5, <3>1 DEF CallQueue
    <3>3. unanswered[j].id # r.id
      BY <2>4, <3>1
    <3>4. LET q == unanswered[j] IN
               /\ setting[q.asks] = "calling" /\ waits[q.asks] = q.id
               /\ answer[q.asks] = "none" /\ q.id \in table
      BY <2>1, <2>5, <3>1 DEF InStep
    <3> QED
      BY <1>2, <1>3, <3>1, <3>2, <3>3, <3>4
  <2>6. CASE r.asks = NoModel
    <3>1. cliModel' = cliModel /\ \A s \in Settings : answer'[s] = answer[s]
      BY <1>2, <1>3, <2>3, <2>6
    <3> QED
      BY <1>2, <2>1, <2>5, <3>1 DEF InStep, Changing, Asked
  <2>7. CASE r.asks # NoModel
    <3>1. r.asks \in Settings
      BY <1>1, <2>7 DEF CallQueue
    <3>2. /\ setting[r.asks] = "calling" /\ waits[r.asks] = r.id
          /\ answer[r.asks] = "none" /\ r.id \in table
      BY <1>1, <2>1, <2>7 DEF InStep
    <3>3. answer'[r.asks] = result /\ ownModel = cliModel
      BY <1>2, <1>3, <2>1, <3>1, <3>2 DEF InStep
    <3>4. \A s \in Settings : s # r.asks => setting[s] \notin {"calling", "confirmed"}
      BY <2>1, <3>1, <3>2 DEF InStep, Asked
    <3>5. Changing'
      BY <1>2, <3>1, <3>2 DEF Changing
    <3> QED
      BY <1>2, <2>1, <2>5, <2>7, <3>1, <3>2, <3>3, <3>4, <3>5 DEF InStep, Asked
  <2> QED
    BY <2>6, <2>7
<1> QED
  BY <1>2, <1>4, <1>5, <1>6 DEF ModelInv

LEMMA ModelInit == CallsInit => ModelInv
<1> SUFFICES ASSUME CallsInit PROVE ModelInv
  OBVIOUS
<1>1. DOMAIN unanswered = {} /\ \A s \in Settings : setting[s] = "new"
  BY DEF CallsInit
<1> QED
  BY <1>1 DEF CallsInit, ModelInv, OwnQuestion, InStep, Changing, Asked

LEMMA ModelStep ==
  ASSUME LeftInv, ModelInv, SettingsAssumption, [CallsNext]_callVars
  PROVE  ModelInv'
<1> USE DEF LeftInv, Unlaunched
<1>00. \A i \in DOMAIN unanswered : unanswered[i].asks \in Settings \cup {NoModel}
  <2>1. \A i \in DOMAIN unanswered : unanswered[i] \in CallQueue
    BY DEF CallsTypeOK
  <2> QED
    BY <2>1 DEF CallQueue
<1>0. ASSUME UNCHANGED <<serves, table, waits, answer, unanswered, setting, cliModel, ownModel, modelCrossed>>,
             life' = "up" => life \in {"none", "up"}, life' = "none" => life = "none"
      PROVE  ModelInv'
  <2>1. OwnQuestion => OwnQuestion'
    BY <1>0 DEF OwnQuestion
  <2>2. InStep => InStep'
    BY <1>0 DEF InStep, Changing, Asked
  <2> QED
    BY <1>0, <2>1, <2>2 DEF ModelInv
<1>1. ASSUME NEW b \in BOOLEAN, NEW l \in BOOLEAN, Launch(b, l) PROVE ModelInv'
  BY <1>0, <1>1 DEF Launch, notStart
<1>2. CASE HandshakeCall
  <2>1. CASE life = "up"
    <3>1. Starter \in Goroutines
      BY DEF Goroutines
    <3> QED
      BY <1>2, <2>1, <3>1, PostsModel DEF HandshakeCall, notStart
  <2>2. CASE life # "up"
    BY <1>0, <1>2, <2>2 DEF HandshakeCall, notStart
  <2> QED
    BY <2>1, <2>2
<1>3. ASSUME NEW result \in Outcomes, HandshakeStep(result) PROVE ModelInv'
  <2>1. Starter \in Goroutines /\ Settings \subseteq Goroutines /\ Starter \notin Settings
    BY DEF Goroutines, SettingsAssumption
  <2>2. /\ waits' = [waits EXCEPT ![Starter] = 0] /\ waits[Starter] # 0
        /\ table \ {waits[Starter]} \subseteq table'
        /\ UNCHANGED <<serves, life, answer, unanswered, setting, cliModel, ownModel, modelCrossed>>
    BY <1>3, <2>1, ReturnsTable DEF HandshakeStep, Back, notStart
  <2>3. \A s \in Settings : waits'[s] = waits[s]
    BY <2>1, <2>2 DEF CallsTypeOK
  <2>4. OwnQuestion => OwnQuestion'
    BY <2>2, <2>3 DEF OwnQuestion
  <2>5. OwnQuestion /\ InStep => InStep'
    <3> SUFFICES ASSUME OwnQuestion, InStep PROVE InStep'
      OBVIOUS
    <3>1. ASSUME NEW i \in DOMAIN unanswered, unanswered[i].asks # NoModel
          PROVE  LET q == unanswered[i] IN
                 /\ setting'[q.asks] = "calling" /\ waits'[q.asks] = q.id
                 /\ answer'[q.asks] = "none" /\ q.id \in table'
      <4>1. unanswered[i].asks \in Settings
        BY <1>00, <3>1
      <4>2. LET q == unanswered[i] IN
            /\ setting[q.asks] = "calling" /\ waits[q.asks] = q.id
            /\ answer[q.asks] = "none" /\ q.id \in table
        BY <3>1 DEF InStep
      <4> QED
        BY <1>3, <4>1, <4>2 DEF HandshakeStep
    <3> QED
      BY <2>2, <2>3, <3>1 DEF InStep, Changing, Asked
  <2> QED
    BY <2>2, <2>4, <2>5 DEF ModelInv
<1>4. CASE StartOk
  BY <1>0, <1>4 DEF StartOk, notStart
<1>5. CASE Kill
  BY <1>0, <1>5 DEF Kill
<1>6. CASE Reap
  <2>1. OwnQuestion => OwnQuestion'
    BY <1>6 DEF OwnQuestion, Reap
  <2> QED
    BY <1>6, <2>1 DEF ModelInv, Reap
<1>7. CASE CloseDone
  BY <1>0, <1>7 DEF CloseDone
<1>8. ASSUME NEW result \in {"ok", "error"}, Answers(result) PROVE ModelInv'
  BY <1>8, AnswersModel
<1>9. ASSUME NEW s \in Settings, Ask(s) PROVE ModelInv'
  <2>1. s \in Goroutines /\ waits[s] = 0
    BY <1>9 DEF Goroutines, Ask, IdsOnce
  <2>2. ~modelCrossed' => ~modelCrossed /\ ~Changing
    BY <1>9 DEF Ask
  <2> QED
    BY <1>9, <2>1, <2>2, PostsModel DEF Ask, processRest
<1>10. ASSUME NEW s \in Settings, Record(s) PROVE ModelInv'
  <2>1. /\ setting[s] = "confirmed" /\ setting' = [setting EXCEPT ![s] = "done"] /\ ownModel' = s
        /\ UNCHANGED <<serves, life, table, waits, answer, unanswered, cliModel, modelCrossed>>
    BY <1>10 DEF Record, Recorded, processRest
  <2>2. serves # "codex"
    BY <2>1 DEF ModelInv
  <2>3. OwnQuestion => OwnQuestion'
    BY <2>1 DEF OwnQuestion
  <2>4. InStep => InStep'
    <3> SUFFICES ASSUME InStep PROVE InStep'
      OBVIOUS
    <3>1. \A t \in Settings : t # s => setting[t] \notin {"calling", "confirmed"}
      BY <2>1 DEF InStep, Asked
    <3>2. \A t \in Settings : setting'[t] \notin {"calling", "confirmed"}
      BY <2>1, <3>1 DEF CallsTypeOK
    <3>3. \A i \in DOMAIN unanswered : unanswered[i].asks = NoModel
      BY <1>00, <2>1, <3>1 DEF InStep
    <3>4. cliModel = s
      BY <2>1 DEF InStep
    <3> QED
      BY <2>1, <3>2, <3>3, <3>4 DEF InStep, Asked
  <2> QED
    BY <2>1, <2>2, <2>3, <2>4 DEF ModelInv
<1>11. ASSUME NEW s \in Settings, NEW result \in Outcomes, AskDone(s, result) PROVE ModelInv'
  <2>1. s \in Goroutines /\ Settings \subseteq Goroutines
    BY DEF Goroutines
  <2>2. /\ waits' = [waits EXCEPT ![s] = 0] /\ waits[s] # 0 /\ setting[s] = "calling"
        /\ setting' = [setting EXCEPT ![s] = IF result = "ok" /\ serves = "pi" THEN "confirmed" ELSE "done"]
        /\ UNCHANGED <<serves, life, answer, unanswered, cliModel, ownModel>>
        /\ result \in {"ok", "error"} => answer[s] = result /\ table' = table
        /\ ~modelCrossed' => ~modelCrossed /\ result \in {"ok", "error"}
    BY <1>11, <2>1 DEF AskDone, Back, Returns, processRest, Outcomes
  <2>3. \A t \in Settings : waits'[t] = IF t = s THEN 0 ELSE waits[t]
    BY <2>1, <2>2 DEF CallsTypeOK
  <2>4. OwnQuestion => OwnQuestion'
    BY <2>2, <2>3 DEF OwnQuestion, IdsOnce
  <2>5. serves = "pi" /\ InStep /\ ~modelCrossed' => InStep'
    <3> SUFFICES ASSUME serves = "pi", InStep, ~modelCrossed' PROVE InStep'
      OBVIOUS
    <3>1. \A t \in Settings : t # s => setting[t] \notin {"calling", "confirmed"}
      BY <2>2 DEF InStep, Asked
    <3>2. \A i \in DOMAIN unanswered : unanswered[i].asks = NoModel
      BY <1>00, <2>2, <3>1 DEF InStep
    <3>3. \A t \in Settings : t # s => setting'[t] \notin {"calling", "confirmed"}
      BY <2>2, <3>1 DEF CallsTypeOK
    <3>4. CASE result = "ok"
      <4>1. cliModel = s /\ setting'[s] = "confirmed"
        BY <2>2, <3>4 DEF InStep, CallsTypeOK
      <4> QED
        BY <2>2, <3>2, <3>3, <4>1 DEF InStep, Changing, Asked
    <3>5. CASE result = "error"
      <4>1. cliModel = ownModel /\ setting'[s] = "done"
        BY <2>2, <3>5 DEF InStep, CallsTypeOK
      <4> QED
        BY <2>2, <3>2, <3>3, <4>1 DEF InStep, Changing, Asked
    <3> QED
      BY <2>2, <3>4, <3>5
  <2>6. serves = "codex" => \A t \in Settings : setting'[t] # "confirmed"
    BY <2>2 DEF ModelInv, CallsTypeOK
  <2> QED
    BY <2>2, <2>4, <2>5, <2>6 DEF ModelInv
<1>12. CASE UNCHANGED callVars
  BY <1>0, <1>12 DEF callVars
<1> QED
  BY <1>1, <1>2, <1>3, <1>4, <1>5, <1>6, <1>7, <1>8, <1>9, <1>10, <1>11, <1>12 DEF CallsNext

\* Whatever the CLI answers, late or never, and whenever it ends, nothing of a
\* call or of a failed Start is left behind (call, handleResponse, waitExit).
THEOREM CallsLeaveNothing == CallsSpec => []NothingLeftBehind
<1>1. LeftInv => NothingLeftBehind
  BY DEF LeftInv, TableOK, GateOK, NothingLeftBehind
<1> QED
  BY <1>1, LeftInit, LeftStep, SettingsAssumption, PTL DEF CallsSpec

\* The model the driver reports is the CLI's, for any number of requests that
\* came one after the other (ApplySettings).
THEOREM ModelFollowsCli == CallsSpec => []ModelAsCliUnlessCrossed
<1>1. LeftInv /\ ModelInv => ModelAsCliUnlessCrossed
  BY DEF LeftInv, CallsTypeOK, ModelInv, InStep, ModelAsCliUnlessCrossed
<1> QED
  BY <1>1, LeftInit, LeftStep, ModelInit, ModelStep, SettingsAssumption, PTL DEF CallsSpec

-----------------------------------------------------------------------------
(***************************************************************************)
(* PiTurns: the runs of pi as the session shows them.                      *)
(***************************************************************************)
Piece == Nat \X Nat

PiTypeOK ==
  /\ piUp \in BOOLEAN /\ piRunning \in BOOLEAN /\ odd \in BOOLEAN
  /\ failedWith \in BOOLEAN /\ lastError \in BOOLEAN
  /\ piShown \in {"idle", "running"} /\ readerAt \in {"lines", "begun", "settled"}
  /\ sendAt \in [Prompts -> {"new", "unlocked", "done"}]
  /\ at \in {"idle", "run", "turn", "message", "ended"}
  /\ waiting \in Nat /\ message \in Nat /\ pieces \in Nat /\ failures \in Nat /\ errorCards \in Nat
  /\ segments \in Seq(Piece) /\ stored \in Seq(Seq(Piece))

\* The driver counts itself as running while pi is; what it has shown last is
\* what it counts itself as, unless somebody is between lock and event.
RunningOK ==
  /\ at # "idle" => piRunning
  /\ readerAt = "begun" => at = "run"
  /\ ~odd => /\ Sending => piRunning
             /\ at = "idle" /\ waiting = 0 => ~piRunning
             /\ readerAt = "lines" /\ ~Sending => piShown = (IF piRunning THEN "running" ELSE "idle")

\* What has been gathered is the current message so far; what is stored are
\* messages before it.
GatheredOK ==
  /\ at # "message" => segments = <<>>
  /\ at = "message" => Len(segments) = pieces
  /\ \A j \in DOMAIN segments : segments[j] = <<message, j>>
StoredOK ==
  /\ \A i \in DOMAIN stored :
       /\ Len(stored[i]) > 0
       /\ \A j \in DOMAIN stored[i] : stored[i][j] = <<stored[i][1][1], j>>
       /\ \A k \in 1 .. (i - 1) : stored[k][1][1] < stored[i][1][1]
       /\ stored[i][1][1] <= message
       /\ at = "message" => stored[i][1][1] < message

\* The error last told is the one of the current turn.
ErrorsOK ==
  /\ errorCards = failures
  /\ at \in {"idle", "ended"} => ~failedWith
  /\ at \in {"run", "turn", "message"} => (failedWith <=> lastError)

PiInv == PiTypeOK /\ RunningOK /\ GatheredOK /\ StoredOK /\ ErrorsOK

LEMMA PiInitInv == PiInit => PiInv
<1> SUFFICES ASSUME PiInit PROVE PiInv
  OBVIOUS
<1>1. /\ segments = <<>> /\ DOMAIN segments = {} /\ segments \in Seq(Piece)
      /\ DOMAIN stored = {} /\ stored \in Seq(Seq(Piece))
  BY DEF PiInit
<1>2. PiTypeOK
  BY <1>1 DEF PiInit, PiTypeOK
<1>3. GatheredOK /\ StoredOK
  BY <1>1 DEF PiInit, GatheredOK, StoredOK
<1> QED
  BY <1>2, <1>3 DEF PiInit, PiInv, RunningOK, ErrorsOK, Sending

\* What a flush stores is one message, later than those stored before.
LEMMA FlushTexts ==
  ASSUME PiInv, Flush, message' \in {message, message + 1},
         at \in {"run", "turn", "message"}, at' = "message" => message' = message + 1
  PROVE  /\ segments' = <<>> /\ segments' \in Seq(Piece) /\ stored' \in Seq(Seq(Piece))
         /\ StoredOK'
<1> USE DEF PiInv
<1>1. segments' = <<>> /\ segments' \in Seq(Piece)
  BY DEF Flush, Cleared
<1>2. CASE segments = <<>>
  <2>1. stored' = stored
    BY <1>2 DEF Flush, Flushed
  <2>2. \A i \in DOMAIN stored : stored[i] \in Seq(Piece) /\ stored[i][1] \in Piece
    BY DEF PiTypeOK, StoredOK
  <2>3. \A i \in DOMAIN stored : stored[i][1][1] \in Nat
    BY <2>2 DEF Piece
  <2> QED
    BY <1>1, <2>1, <2>3, SMTT(30) DEF PiTypeOK, StoredOK
<1>3. CASE segments # <<>>
  <2>1. /\ at = "message" /\ stored' = Append(stored, segments)
        /\ Len(segments) > 0 /\ segments[1] = <<message, 1>>
        /\ \A j \in DOMAIN segments : segments[j] = <<message, j>>
    BY <1>3 DEF Flush, Flushed, GatheredOK, PiTypeOK
  <2>2. /\ DOMAIN stored' = 1..(Len(stored) + 1) /\ DOMAIN stored = 1..Len(stored)
        /\ Len(stored) \in Nat
        /\ stored' \in Seq(Seq(Piece))
        /\ stored'[Len(stored) + 1] = segments
        /\ \A i \in DOMAIN stored : stored'[i] = stored[i]
    BY <2>1 DEF PiTypeOK
  <2>3. \A i \in DOMAIN stored : stored[i] \in Seq(Piece) /\ stored[i][1] \in Piece
    BY DEF PiTypeOK, StoredOK
  <2>4. \A i \in DOMAIN stored : stored[i][1][1] \in Nat /\ stored[i][1][1] < message
    BY <2>1, <2>3 DEF Piece, StoredOK
  <2>5. message \in Nat /\ segments[1][1] = message
    BY <2>1 DEF PiTypeOK
  <2>6. ASSUME NEW i \in DOMAIN stored'
        PROVE  /\ Len(stored'[i]) > 0
               /\ \A j \in DOMAIN stored'[i] : stored'[i][j] = <<stored'[i][1][1], j>>
               /\ \A k \in 1 .. (i - 1) : stored'[k][1][1] < stored'[i][1][1]
               /\ stored'[i][1][1] <= message
    <3>1. CASE i \in DOMAIN stored
      <4>0. i \in 1..Len(stored) /\ Len(stored) \in Nat
        BY <2>2, <3>1
      <4>1. \A k \in 1 .. (i - 1) : k \in 1..Len(stored)
        BY <4>0
      <4> QED
        BY <2>2, <2>4, <2>5, <3>1, <4>1 DEF StoredOK
    <3>2. CASE i = Len(stored) + 1
      <4>0. i = Len(stored) + 1 /\ Len(stored) \in Nat
        BY <2>2, <3>2
      <4>1. \A k \in 1 .. (i - 1) : k \in 1..Len(stored)
        BY <4>0
      <4>2. stored'[i] = segments
        BY <2>2, <3>2
      <4>3. \A k \in 1 .. (i - 1) : stored'[k][1][1] < message
        BY <2>2, <2>4, <4>1
      <4> QED
        BY <2>1, <2>5, <4>2, <4>3
    <3> QED
      BY <2>2, <3>1, <3>2
  <2>7. ASSUME NEW i \in DOMAIN stored' PROVE stored'[i][1][1] \in Nat
    <3>1. CASE i \in DOMAIN stored
      <4>1. stored'[i] = stored[i]
        BY <2>2, <3>1
      <4> QED
        BY <2>4, <3>1, <4>1
    <3>2. CASE i = Len(stored) + 1
      <4>1. stored'[i] = segments
        BY <2>2, <3>2
      <4> QED
        BY <2>5, <4>1
    <3> QED
      BY <2>2, <3>1, <3>2
  <2> QED
    BY <1>1, <2>2, <2>5, <2>6, <2>7 DEF StoredOK
<1> QED
  BY <1>2, <1>3

\* The texts: whole messages, each once and in order.
LEMMA PiTexts ==
  ASSUME PiInv, [PiNext]_piVars
  PROVE  /\ segments' \in Seq(Piece) /\ stored' \in Seq(Seq(Piece))
         /\ message' \in Nat /\ pieces' \in Nat
         /\ GatheredOK' /\ StoredOK'
<1> USE DEF PiInv
<1>1. ASSUME UNCHANGED texts, at' = "message" <=> at = "message"
      PROVE  /\ segments' \in Seq(Piece) /\ stored' \in Seq(Seq(Piece))
             /\ message' \in Nat /\ pieces' \in Nat
             /\ GatheredOK' /\ StoredOK'
  BY <1>1 DEF texts, PiTypeOK, GatheredOK, StoredOK
<1>2. ASSUME Flush, at \in {"run", "turn", "message"}, at' # "message", UNCHANGED <<message, pieces>>
      PROVE  /\ segments' \in Seq(Piece) /\ stored' \in Seq(Seq(Piece))
             /\ message' \in Nat /\ pieces' \in Nat
             /\ GatheredOK' /\ StoredOK'
  BY <1>2, FlushTexts DEF PiTypeOK, GatheredOK
<1>3. CASE MessageStart
  <2>1. /\ Flush /\ at \in {"run", "turn", "message"} /\ at' = "message"
        /\ message' = message + 1 /\ pieces' = 0
    BY <1>3 DEF MessageStart, Line
  <2>2. /\ segments' = <<>> /\ segments' \in Seq(Piece) /\ stored' \in Seq(Seq(Piece)) /\ StoredOK'
    BY <2>1, FlushTexts
  <2> QED
    BY <2>1, <2>2 DEF PiTypeOK, GatheredOK
<1>4. CASE MessageUpdate
  <2> DEFINE piece == <<message, pieces + 1>>
  <2>1. /\ at = "message" /\ UNCHANGED <<at, message, stored>> /\ pieces' = pieces + 1
        /\ segments' = Append(segments, piece) /\ pieces \in Nat /\ message \in Nat
        /\ piece \in Piece
    BY <1>4 DEF MessageUpdate, Line, PiTypeOK, Piece
  <2> HIDE DEF piece
  <2>2. /\ segments' \in Seq(Piece) /\ DOMAIN segments' = 1..(Len(segments) + 1)
        /\ DOMAIN segments = 1..Len(segments) /\ Len(segments') = Len(segments) + 1
        /\ Len(segments) = pieces
        /\ segments'[pieces + 1] = piece
        /\ \A j \in DOMAIN segments : segments'[j] = segments[j]
    BY <2>1 DEF PiTypeOK, GatheredOK
  <2>3. \A j \in DOMAIN segments' : segments'[j] = <<message, j>>
    BY <2>1, <2>2 DEF piece, GatheredOK
  <2> QED
    BY <2>1, <2>2, <2>3 DEF PiTypeOK, GatheredOK, StoredOK
<1>5. ASSUME NEW b \in BOOLEAN, MessageEnd(b) \/ TurnEnd(b) \/ AgentEnd(b)
      PROVE  /\ Flush /\ at \in {"run", "turn", "message"} /\ at' # "message" /\ UNCHANGED <<message, pieces>>
  BY <1>5 DEF MessageEnd, TurnEnd, AgentEnd, Line
<1>6. ASSUME NEW p \in Prompts, SendPrompt(p) \/ SendTells(p)
      PROVE  UNCHANGED texts /\ at' = at
  BY <1>6 DEF SendPrompt, SendTells
<1>7. ASSUME Refused \/ AgentStart \/ TellBegun \/ TurnStart \/ AgentSettled \/ TellSettled \/ PiExit
      PROVE  UNCHANGED texts /\ (at' = "message" <=> at = "message")
  BY <1>7 DEF Refused, AgentStart, TellBegun, TurnStart, AgentSettled, TellSettled, PiExit, Line
<1>8. CASE UNCHANGED piVars
  BY <1>1, <1>8 DEF piVars, texts
<1> QED
  BY <1>1, <1>2, <1>3, <1>4, <1>5, <1>6, <1>7, <1>8 DEF PiNext

\* The errors: one card for a failed turn.
LEMMA PiErrors ==
  ASSUME PiInv, [PiNext]_piVars
  PROVE  /\ failedWith' \in BOOLEAN /\ lastError' \in BOOLEAN
         /\ failures' \in Nat /\ errorCards' \in Nat
         /\ ErrorsOK'
<1> USE DEF PiInv
<1>1. ASSUME NEW b \in BOOLEAN, MessageEnd(b) \/ TurnEnd(b)
      PROVE  /\ failedWith' \in BOOLEAN /\ lastError' \in BOOLEAN
             /\ failures' \in Nat /\ errorCards' \in Nat
             /\ ErrorsOK'
  <2>1. /\ Fails(b) /\ at' \in {"run", "turn"} /\ (failedWith <=> lastError)
    BY <1>1 DEF MessageEnd, TurnEnd, Line, ErrorsOK
  <2>2. CASE failedWith
    BY <2>1, <2>2 DEF Fails, TellsError, PiTypeOK, ErrorsOK
  <2>3. CASE ~failedWith
    BY <2>1, <2>3 DEF Fails, TellsError, PiTypeOK, ErrorsOK
  <2> QED
    BY <2>2, <2>3
<1>2. ASSUME NEW b \in BOOLEAN, AgentEnd(b)
      PROVE  /\ failedWith' \in BOOLEAN /\ lastError' \in BOOLEAN
             /\ failures' \in Nat /\ errorCards' \in Nat
             /\ ErrorsOK'
  BY <1>2 DEF AgentEnd, PiTypeOK, ErrorsOK
<1>3. CASE AgentStart
  BY <1>3 DEF AgentStart, Line, PiTypeOK, ErrorsOK
<1>4. CASE TurnStart
  BY <1>4 DEF TurnStart, Line, PiTypeOK, ErrorsOK
<1> DEFINE Ok == /\ failedWith \in BOOLEAN /\ lastError \in BOOLEAN
                 /\ failures \in Nat /\ errorCards \in Nat
                 /\ ErrorsOK
<1>5. ASSUME UNCHANGED errs, at' = at PROVE Ok'
  BY <1>5 DEF errs, PiTypeOK, ErrorsOK
<1>6. ASSUME NEW p \in Prompts, SendPrompt(p) \/ SendTells(p)
      PROVE  UNCHANGED errs /\ at' = at
  BY <1>6 DEF SendPrompt, SendTells
<1>7. ASSUME Refused \/ TellBegun \/ MessageUpdate \/ TellSettled \/ PiExit \/ UNCHANGED piVars
      PROVE  UNCHANGED errs /\ at' = at
  BY <1>7 DEF Refused, TellBegun, MessageUpdate, TellSettled, PiExit, Line, piVars, errs
<1>8. CASE MessageStart
  BY <1>8 DEF MessageStart, Line, errs, PiTypeOK, ErrorsOK
<1>9. CASE AgentSettled
  BY <1>9 DEF AgentSettled, Line, errs, PiTypeOK, ErrorsOK
<1> QED
  BY <1>1, <1>2, <1>3, <1>4, <1>5, <1>6, <1>7, <1>8, <1>9 DEF PiNext

\* The status.
LEMMA PiStatus ==
  ASSUME PiInv, [PiNext]_piVars
  PROVE  /\ piUp' \in BOOLEAN /\ piRunning' \in BOOLEAN /\ odd' \in BOOLEAN
         /\ piShown' \in {"idle", "running"} /\ readerAt' \in {"lines", "begun", "settled"}
         /\ sendAt' \in [Prompts -> {"new", "unlocked", "done"}]
         /\ at' \in {"idle", "run", "turn", "message", "ended"}
         /\ waiting' \in Nat
         /\ RunningOK'
<1> DEFINE StatusType ==
         /\ piUp \in BOOLEAN /\ piRunning \in BOOLEAN /\ odd \in BOOLEAN
         /\ piShown \in {"idle", "running"} /\ readerAt \in {"lines", "begun", "settled"}
         /\ sendAt \in [Prompts -> {"new", "unlocked", "done"}]
         /\ at \in {"idle", "run", "turn", "message", "ended"}
         /\ waiting \in Nat
<1> USE DEF PiInv
<1>0. StatusType
  BY DEF PiTypeOK
<1>1. ASSUME NEW p \in Prompts, SendPrompt(p) PROVE StatusType' /\ RunningOK'
  <2>1. Sending'
    BY <1>0, <1>1 DEF SendPrompt, Sending
  <2>2. StatusType'
    BY <1>0, <1>1 DEF SendPrompt
  <2> QED
    BY <1>0, <1>1, <2>1, <2>2 DEF SendPrompt, RunningOK
<1>2. ASSUME NEW p \in Prompts, SendTells(p) PROVE StatusType' /\ RunningOK'
  <2>1. Sending
    BY <1>0, <1>2 DEF SendTells, Sending
  <2>2. StatusType'
    BY <1>0, <1>2 DEF SendTells
  <2> QED
    BY <1>0, <1>2, <2>1, <2>2 DEF SendTells, RunningOK
<1>3. ASSUME UNCHANGED sendAt PROVE Sending' = Sending
  BY <1>3 DEF Sending
<1>4. ASSUME UNCHANGED <<piRunning, piShown, sendAt, readerAt, waiting, odd>>, piUp' \in BOOLEAN,
             at' \in {"idle", "run", "turn", "message", "ended"}, 
             \/ at' = at
             \/ at \in {"run", "turn", "message"} /\ at' # "idle" /\ readerAt = "lines"
      PROVE  StatusType' /\ RunningOK'
  BY <1>0, <1>3, <1>4 DEF RunningOK
<1>5. CASE Refused
  BY <1>0, <1>3, <1>5 DEF Refused, RunningOK
<1>6. CASE AgentStart
  <2>1. StatusType'
    BY <1>0, <1>6 DEF AgentStart, Line
  <2> QED
    BY <1>0, <1>3, <1>6, <2>1 DEF AgentStart, Line, RunningOK
<1>7. CASE TellBegun
  BY <1>0, <1>3, <1>7 DEF TellBegun, RunningOK
<1>8. CASE TurnStart
  <2>1. StatusType'
    BY <1>0, <1>8 DEF TurnStart
  <2> QED
    BY <1>0, <1>3, <1>8, <2>1 DEF TurnStart, Line, RunningOK
<1>9. ASSUME Settle, readerAt = "lines", at' = "idle", UNCHANGED <<piUp, piShown, sendAt, waiting>>
      PROVE  StatusType' /\ RunningOK'
  <2>1. StatusType'
    BY <1>0, <1>9 DEF Settle
  <2> QED
    BY <1>0, <1>3, <1>9, <2>1 DEF Settle, RunningOK
<1>10. CASE TellSettled
  <2>1. StatusType'
    BY <1>0, <1>10 DEF TellSettled
  <2> QED
    BY <1>0, <1>3, <1>10, <2>1 DEF TellSettled, RunningOK
<1>11. ASSUME NEW b \in BOOLEAN, AgentEnd(b) PROVE StatusType' /\ RunningOK'
  <2>1. CASE b
    BY <1>4, <1>0, <1>11, <2>1 DEF AgentEnd, Line
  <2>2. CASE ~b
    BY <1>9, <1>11, <2>2 DEF AgentEnd, Line
  <2> QED
    BY <2>1, <2>2
<1>12. CASE AgentSettled
  BY <1>9, <1>12 DEF AgentSettled, Line
<1>13. ASSUME NEW b \in BOOLEAN, MessageEnd(b) \/ TurnEnd(b) PROVE StatusType' /\ RunningOK'
  BY <1>0, <1>4, <1>13 DEF MessageEnd, TurnEnd, Line
<1>14. CASE MessageStart \/ MessageUpdate \/ PiExit
  BY <1>0, <1>4, <1>14 DEF MessageStart, MessageUpdate, PiExit, Line
<1>15. CASE UNCHANGED piVars
  BY <1>0, <1>4, <1>15 DEF piVars
<1> QED
  BY <1>1, <1>2, <1>5, <1>6, <1>7, <1>8, <1>10, <1>11, <1>12, <1>13, <1>14, <1>15 DEF PiNext

\* The session shows of pi what pi does, for any number of prompts, turns and
\* messages (Send, settle, flushMessage, checkTurnError).
THEOREM PiShownTrue == PiSpec => []PiToldAsItIs
<1>1. PiInv /\ [PiNext]_piVars => PiInv'
  BY PiTexts, PiErrors, PiStatus DEF PiInv, PiTypeOK
<1>2. PiInv => PiToldAsItIs
  <2> SUFFICES ASSUME PiInv PROVE PiToldAsItIs
    OBVIOUS
  <2>1. /\ Quiet /\ ~odd /\ at \in {"run", "turn", "message"} => piShown = "running"
        /\ Quiet /\ ~odd /\ at = "idle" /\ waiting = 0 => piShown = "idle"
    BY DEF PiInv, RunningOK, Quiet
  <2>2. errorCards = failures
    BY DEF PiInv, ErrorsOK
  <2> QED
    BY <2>1, <2>2 DEF PiInv, StoredOK, PiToldAsItIs
<1> QED
  BY <1>1, <1>2, PiInitInv, PTL DEF PiSpec

-----------------------------------------------------------------------------
(***************************************************************************)
(* ToolCards: how the reports of tool calls become cards.                  *)
(***************************************************************************)
Report == {"silent", "began", "ended"}
ToolCard == [state : {"none", "running", "ended"}, named : BOOLEAN, diff : Nat, perm : Homes \cup {"none", "agent", "plain"}]

CardsTypeOK ==
  /\ agent \in {"claude", "codex", "pi"}
  /\ home \in [Calls -> Homes \cup {"agent", "plain"}]
  /\ agent = "codex" => home \in [Calls -> {"agent", "plain"}]
  /\ alike \in [Calls -> {1, 2}]
  /\ first \in [Calls -> Report] /\ second \in [Calls -> Report]
  /\ asking \in [Calls -> {"no", "wanted", "claimed", "given"}]
  /\ agent # "claude" => \A c \in Calls : asking[c] = "no"
  /\ shows \in [Calls -> ToolCard]
  /\ toolNames \subseteq Calls /\ agentToolSeen \subseteq Calls /\ mistaken \subseteq Calls
  /\ sideUses \in Seq(Calls)
  /\ piBatch \subseteq Calls /\ batch \in Nat /\ batch > 0
  /\ member \in [Calls -> Nat] /\ patched \subseteq 1..(batch - 1)

\* A call that has begun has a card, whose name is known; an agent tool of codex
\* has one as soon as either protocol has told its start.
Agents(c) == agent = "codex" /\ home[c] = "agent"
CardsNamed ==
  \A c \in Calls :
    /\ shows[c].state # "none" => shows[c].named
    /\ ~Agents(c) /\ first[c] # "silent" => shows[c].state # "none"

\* A card shows a call as running as long as it runs, an agent tool as long as
\* its name is kept.
CardsRun ==
  \A c \in Calls :
    /\ ~Agents(c) => (shows[c].state = "running" => first[c] = "began") /\ second[c] = "silent"
    /\ Agents(c) => (shows[c].state = "running" <=> c \in toolNames)
    /\ Agents(c) /\ c \in toolNames =>
         IF c \in agentToolSeen THEN second[c] = "began" ELSE first[c] = "began"
    /\ ~Agents(c) /\ c \in toolNames => agent = "claude" /\ home[c] = "main" /\ first[c] = "began"

\* A use that waits for its permission is one of a subagent's call under way,
\* once; a call under way that has not asked is among them, or another has taken
\* its place.
Rival(c, d) == d # c /\ alike[d] = alike[c] /\ d \in mistaken
UsesOK ==
  /\ \A i \in DOMAIN sideUses :
       agent = "claude" /\ first[sideUses[i]] = "began" /\ home[sideUses[i]] # "main"
  /\ \A i, j \in DOMAIN sideUses : sideUses[i] = sideUses[j] => i = j
  /\ \A c \in Calls :
       /\ agent = "claude" /\ home[c] # "main" /\ first[c] = "began" /\ asking[c] \in {"no", "wanted"} =>
            (\E i \in DOMAIN sideUses : sideUses[i] = c) \/ \E d \in Calls : Rival(c, d)
       /\ asking[c] # "no" => first[c] # "silent"

\* A permission is under the task of its call.
PermsOK == \A c \in Calls : shows[c].perm \in {"none", home[c]} \/ c \in mistaken

\* A patch is of the batch of its edit, or of the next after a batch cut off.
PatchesOK ==
  \A c \in Calls :
    /\ member[c] <= batch /\ (first[c] # "ended" => member[c] = 0)
    /\ c \in piBatch => member[c] > 0 /\ member[c] \notin patched
    /\ member[c] = batch => c \in piBatch
    /\ shows[c].diff # 0 => member[c] \in 1..shows[c].diff
    /\ member[c] \in patched => shows[c].diff = member[c]

CardsInv == CardsTypeOK /\ CardsNamed /\ CardsRun /\ UsesOK /\ PermsOK /\ PatchesOK

-----------------------------------------------------------------------------
\* A sequence without one of its elements.
LEMMA RemoveAtFacts ==
  ASSUME NEW S, NEW s \in Seq(S), NEW i \in DOMAIN s
  PROVE  /\ RemoveAt(s, i) \in Seq(S)
         /\ Len(RemoveAt(s, i)) = Len(s) - 1
         /\ \A j \in 1..(Len(s) - 1) : RemoveAt(s, i)[j] = IF j < i THEN s[j] ELSE s[j + 1]
<1>1. /\ SubSeq(s, 1, i - 1) \in Seq(S) /\ Len(SubSeq(s, 1, i - 1)) = i - 1
      /\ \A j \in 1..(i - 1) : SubSeq(s, 1, i - 1)[j] = s[j]
      /\ SubSeq(s, i + 1, Len(s)) \in Seq(S) /\ Len(SubSeq(s, i + 1, Len(s))) = Len(s) - i
      /\ \A j \in 1..(Len(s) - i) : SubSeq(s, i + 1, Len(s))[j] = s[i + j]
  OBVIOUS
<1> DEFINE a == SubSeq(s, 1, i - 1)
           b == SubSeq(s, i + 1, Len(s))
<1>2. RemoveAt(s, i) = a \o b
  BY DEF RemoveAt
<1>3. i \in 1..Len(s) /\ Len(s) \in Nat
  OBVIOUS
<1> HIDE DEF a, b
<1>4. a \in Seq(S) /\ b \in Seq(S) /\ Len(a) = i - 1 /\ Len(b) = Len(s) - i
      /\ (\A j \in 1..(i - 1) : a[j] = s[j]) /\ \A j \in 1..(Len(s) - i) : b[j] = s[i + j]
  BY <1>1 DEF a, b
<1>5. /\ a \o b \in Seq(S) /\ Len(a \o b) = Len(s) - 1
      /\ \A j \in 1..(Len(s) - 1) : (a \o b)[j] = IF j <= i - 1 THEN a[j] ELSE b[j - i + 1]
  BY <1>3, <1>4, SMTT(30)
<1>6. ASSUME NEW j \in 1..(Len(s) - 1) PROVE (a \o b)[j] = IF j < i THEN s[j] ELSE s[j + 1]
  <2>1. CASE j < i
    BY <1>3, <1>4, <1>5, <2>1
  <2>2. CASE ~(j < i)
    <3>1. j - i + 1 \in 1..(Len(s) - i) /\ i + (j - i + 1) = j + 1
      BY <1>3, <2>2
    <3>2. b[j - i + 1] = s[i + (j - i + 1)]
      BY <1>4, <3>1
    <3>3. (a \o b)[j] = b[j - i + 1]
      <4>1. ~(j <= i - 1)
        BY <1>3, <2>2
      <4> QED
        BY <1>5, <4>1
    <3> QED
      BY <2>2, <3>1, <3>2, <3>3
  <2> QED
    BY <2>1, <2>2
<1> QED
  BY <1>2, <1>5, <1>6

\* The first of a set of places.
LEMMA OldestFacts ==
  ASSUME NEW n \in Nat, NEW S \in SUBSET (1..n), S # {}
  PROVE  Oldest(S) \in S
<1> DEFINE R == OpToRel(<, Nat)
<1>1. IsWellFoundedOn(R, Nat)
  BY NatLessThanWellFounded, Zenon
<1>2. \A i, j \in Nat : i < j => <<i, j>> \in R
  BY Zenon DEF OpToRel
<1> HIDE DEF R
<1>3. S \subseteq Nat
  OBVIOUS
<1>4. \E i \in S : \A j \in S : ~(<<j, i>> \in R)
  BY <1>1, <1>3, WFMin
<1>5. PICK i \in S : \A j \in S : ~(<<j, i>> \in R)
  BY <1>4
<1>6. \A j \in S : j \in Nat /\ i \in Nat /\ ~(j < i)
  BY <1>2, <1>3, <1>5
<1>7. \A j \in S : i <= j
  BY <1>6
<1> QED
  BY <1>5, <1>7 DEF Oldest

\* The card of a call after a report of it.
ShownIn(view, c, named, state) ==
  /\ view \in [Calls -> ToolCard]
  /\ view[c].state = state
  /\ view[c].named = (IF shows[c].state = "none" THEN named ELSE shows[c].named)
  /\ \A d \in Calls : view[d].diff = shows[d].diff /\ view[d].perm = shows[d].perm
  /\ \A d \in Calls : d # c => view[d] = shows[d]
Shown(c, named, state) == ShownIn(shows', c, named, state)

LEMMA ShowIs ==
  ASSUME CardsTypeOK, NEW c \in Calls, NEW named \in BOOLEAN, NEW state \in {"running", "ended"}
  PROVE  ShownIn(Show(c, named, state), c, named, state)
<1> DEFINE view == Show(c, named, state)
<1>1. shows \in [Calls -> ToolCard]
  BY DEF CardsTypeOK
<1>2. \A d \in Calls : d # c => view[d] = shows[d]
  BY <1>1 DEF Show
<1>3. view[c] = [state |-> state, named |-> IF shows[c].state = "none" THEN named ELSE shows[c].named,
                  diff |-> shows[c].diff, perm |-> shows[c].perm]
  BY <1>1 DEF Show, ToolCard
<1>4. view[c] \in ToolCard
  BY <1>1, <1>3 DEF ToolCard
<1>5. view \in [Calls -> ToolCard]
  BY <1>1, <1>4 DEF Show
<1> HIDE DEF view
<1>6. ShownIn(view, c, named, state)
  BY <1>2, <1>3, <1>5 DEF ShownIn
<1> QED
  BY <1>6 DEF view

LEMMA ShowFacts ==
  ASSUME CardsTypeOK, NEW c \in Calls, NEW named \in BOOLEAN, NEW state \in {"running", "ended"},
         shows' = Show(c, named, state)
  PROVE  Shown(c, named, state)
BY ShowIs DEF Shown

\* A call that waits no longer for its permission leaves the uses of others.
LEMMA WithoutFirstFacts ==
  ASSUME CardsTypeOK, NEW S \in SUBSET DOMAIN sideUses
  PROVE  /\ WithoutFirst(S) \in Seq(Calls)
         /\ S = {} => WithoutFirst(S) = sideUses
         /\ S # {} => /\ Oldest(S) \in S
                      /\ \A i \in DOMAIN WithoutFirst(S) : \E j \in DOMAIN sideUses \ {Oldest(S)} :
                           WithoutFirst(S)[i] = sideUses[j]
                      /\ \A j \in DOMAIN sideUses \ {Oldest(S)} : \E i \in DOMAIN WithoutFirst(S) :
                           WithoutFirst(S)[i] = sideUses[j]
                      /\ \A i, k \in DOMAIN WithoutFirst(S) : i # k =>
                           \E j, l \in DOMAIN sideUses \ {Oldest(S)} : 
                             j # l /\ WithoutFirst(S)[i] = sideUses[j] /\ WithoutFirst(S)[k] = sideUses[l]
<1>1. sideUses \in Seq(Calls) /\ Len(sideUses) \in Nat /\ DOMAIN sideUses = 1..Len(sideUses)
  BY DEF CardsTypeOK
<1>2. CASE S = {}
  BY <1>1, <1>2 DEF WithoutFirst
<1>3. CASE S # {}
  <2> DEFINE o == Oldest(S)
             t == RemoveAt(sideUses, o)
             n == Len(sideUses)
  <2>1. o \in S /\ o \in 1..n
    BY <1>1, <1>3, OldestFacts
  <2>2. WithoutFirst(S) = t
    BY <1>3 DEF WithoutFirst
  <2> HIDE DEF o
  <2>3. /\ t \in Seq(Calls) /\ Len(t) = n - 1
        /\ \A j \in 1..(n - 1) : t[j] = IF j < o THEN sideUses[j] ELSE sideUses[j + 1]
    BY <1>1, <2>1, RemoveAtFacts
  <2> HIDE DEF t
  <2>4. DOMAIN t = 1..(n - 1) /\ n \in Nat
    BY <1>1, <2>3
  <2> HIDE DEF n
  <2>5. \A i \in 1..(n - 1) : LET j == IF i < o THEN i ELSE i + 1 IN
          j \in 1..n /\ j # o /\ t[i] = sideUses[j]
    BY <2>1, <2>3, <2>4
  <2>6. \A j \in 1..n : j # o => LET i == IF j < o THEN j ELSE j - 1 IN
          i \in 1..(n - 1) /\ t[i] = sideUses[j]
    <3> SUFFICES ASSUME NEW j \in 1..n, j # o
                 PROVE  LET i == IF j < o THEN j ELSE j - 1 IN i \in 1..(n - 1) /\ t[i] = sideUses[j]
      OBVIOUS
    <3>1. CASE j < o
      BY <2>1, <2>3, <2>4, <3>1
    <3>2. CASE ~(j < o)
      <4>1. j - 1 \in 1..(n - 1) /\ ~(j - 1 < o) /\ (j - 1) + 1 = j
        BY <2>1, <2>4, <3>2
      <4> QED
        BY <2>3, <3>2, <4>1
    <3> QED
      BY <3>1, <3>2
  <2>7. DOMAIN sideUses = 1..n
    BY <1>1 DEF n
  <2>8. \A i \in DOMAIN t : \E j \in DOMAIN sideUses \ {o} : t[i] = sideUses[j]
    BY <2>4, <2>5, <2>7
  <2>9. \A j \in DOMAIN sideUses \ {o} : \E i \in DOMAIN t : t[i] = sideUses[j]
    BY <2>4, <2>6, <2>7
  <2>10. \A i, k \in DOMAIN t : i # k =>
           \E j, l \in DOMAIN sideUses \ {o} : j # l /\ t[i] = sideUses[j] /\ t[k] = sideUses[l]
    <3> SUFFICES ASSUME NEW i \in 1..(n - 1), NEW k \in 1..(n - 1), i # k
                 PROVE  \E j, l \in DOMAIN sideUses \ {o} : j # l /\ t[i] = sideUses[j] /\ t[k] = sideUses[l]
      BY <2>4
    <3> DEFINE j == IF i < o THEN i ELSE i + 1
               l == IF k < o THEN k ELSE k + 1
    <3>1. j \in 1..n /\ j # o /\ t[i] = sideUses[j] /\ l \in 1..n /\ l # o /\ t[k] = sideUses[l]
      BY <2>5
    <3>2. j # l
      BY <2>1, <2>4
    <3>3. j \in DOMAIN sideUses \ {o} /\ l \in DOMAIN sideUses \ {o}
      BY <2>7, <3>1
    <3> HIDE DEF j, l
    <3> QED
      BY <3>1, <3>2, <3>3
  <2> QED
    BY <1>3, <2>1, <2>2, <2>3, <2>8, <2>9, <2>10 DEF o
<1> QED
  BY <1>2, <1>3

\* What a report leaves alone.
LEMMA PatchesKept ==
  ASSUME CardsInv, UNCHANGED piTables,
         \A d \in Calls : shows'[d].diff = shows[d].diff,
         \A d \in Calls : first'[d] # "ended" => first[d] # "ended"
  PROVE  PatchesOK'
BY DEF CardsInv, PatchesOK, piTables

LEMMA PermsKept ==
  ASSUME CardsInv, UNCHANGED home, mistaken \subseteq mistaken',
         \A d \in Calls : shows'[d].perm = shows[d].perm
  PROVE  PermsOK'
BY DEF CardsInv, PermsOK

LEMMA UsesKept ==
  ASSUME CardsInv, UNCHANGED <<agent, home, alike, sideUses, asking, mistaken>>,
         \A d \in Calls : first[d] # "silent" => first'[d] # "silent",
         agent = "claude" => \A d \in Calls : home[d] # "main" => first'[d] = first[d]
  PROVE  UsesOK'
<1>1. \A i \in DOMAIN sideUses : sideUses[i] \in Calls
  BY DEF CardsInv, CardsTypeOK
<1> QED
  BY <1>1 DEF CardsInv, UsesOK, Rival

LEMMA CardsInitInv == CardsInit => CardsInv
<1> SUFFICES ASSUME CardsInit PROVE CardsInv
  OBVIOUS
<1>1. DOMAIN sideUses = {} /\ sideUses \in Seq(Calls)
  BY DEF CardsInit
<1>2. NoCard \in ToolCard
  BY DEF NoCard, ToolCard
<1>3. \A c \in Calls : shows[c] = NoCard /\ NoCard.state = "none" /\ NoCard.diff = 0 /\ NoCard.perm = "none"
  BY DEF CardsInit, NoCard
<1>4. CardsTypeOK
  <2>1. shows \in [Calls -> ToolCard] /\ first \in [Calls -> Report] /\ second \in [Calls -> Report]
    BY <1>2 DEF CardsInit, Report
  <2>2. agent \in {"claude", "codex", "pi"} /\ alike \in [Calls -> {1, 2}]
    BY DEF CardsInit
  <2>3. home \in [Calls -> Homes \cup {"agent", "plain"}] /\ (agent = "codex" => home \in [Calls -> {"agent", "plain"}])
    BY DEF CardsInit, Homes
  <2> QED
    BY <1>1, <2>1, <2>2, <2>3 DEF CardsInit, CardsTypeOK
<1>5. CardsNamed /\ CardsRun
  BY <1>3, <1>4 DEF CardsInit, CardsNamed, CardsRun
<1>6. UsesOK /\ PermsOK /\ PatchesOK
  BY <1>1, <1>3 DEF CardsInit, UsesOK, PermsOK, PatchesOK
<1> QED
  BY <1>4, <1>5, <1>6 DEF CardsInv

\* claude
LEMMA ClaudeCards ==
  ASSUME CardsInv, NEW c \in Calls,
         \/ ToolUse(c) \/ ToolResult(c) \/ SubagentUse(c) \/ SubagentResult(c)
         \/ AskPermission(c) \/ ClaimUse(c) \/ Answered(c)
  PROVE  CardsInv'
<1> USE DEF CardsInv
<1>0. /\ agent = "claude" /\ UNCHANGED <<given, codexTables, piTables>>
      /\ \A d \in Calls : ~Agents(d) /\ ~Agents(d)' /\ second[d] = "silent"
  <2>1. agent = "claude"
    BY DEF ToolUse, ToolResult, SubagentUse, SubagentResult, AskPermission, ClaimUse, Answered, CardsTypeOK
  <2>2. UNCHANGED <<given, codexTables, piTables>>
    BY DEF ToolUse, ToolResult, SubagentUse, SubagentResult, AskPermission, ClaimUse, Answered
  <2>3. \A d \in Calls : ~Agents(d) /\ ~Agents(d)'
    BY <2>1, <2>2 DEF Agents, given
  <2> QED
    BY <2>1, <2>2, <2>3 DEF CardsRun
<1>1. CASE ToolUse(c)
  <2>1. /\ home[c] = "main" /\ first[c] = "silent" /\ first' = [first EXCEPT ![c] = "began"]
        /\ toolNames' = toolNames \cup {c} /\ Shown(c, TRUE, "running")
        /\ UNCHANGED <<sideUses, asking, mistaken>>
    BY <1>1, ShowFacts DEF ToolUse, Begins
  <2>2. CardsTypeOK'
    BY <1>0, <2>1 DEF CardsTypeOK, Shown, ShownIn, given, codexTables, piTables, Report
  <2>3. CardsNamed' /\ CardsRun'
    <3>1. first \in [Calls -> Report] /\ UNCHANGED <<agent, home, second>>
      BY <1>0 DEF CardsTypeOK, given, codexTables
    <3>2. CardsNamed'
      BY <1>0, <2>1, <3>1 DEF CardsNamed, Shown, ShownIn
    <3>3. CardsRun'
      BY <1>0, <2>1, <3>1 DEF CardsRun, Shown, ShownIn
    <3> QED
      BY <3>2, <3>3
  <2>4. UsesOK'
    BY <1>0, <2>1, UsesKept DEF given, CardsTypeOK
  <2>5. PermsOK' /\ PatchesOK'
    BY <1>0, <2>1, PermsKept, PatchesKept DEF given, Shown, ShownIn, CardsTypeOK
  <2> QED
    BY <2>2, <2>3, <2>4, <2>5
<1>2. CASE ToolResult(c)
  <2>1. /\ home[c] = "main" /\ first[c] = "began" /\ first' = [first EXCEPT ![c] = "ended"]
        /\ toolNames' = toolNames \ {c} /\ Shown(c, c \in toolNames, "ended")
        /\ UNCHANGED <<sideUses, asking, mistaken>>
    <3>1. (c \in toolNames) \in BOOLEAN
      OBVIOUS
    <3> QED
      BY <1>2, <3>1, ShowFacts DEF ToolResult, Ends
  <2>2. CardsTypeOK'
    BY <1>0, <2>1 DEF CardsTypeOK, Shown, ShownIn, given, codexTables, piTables, Report
  <2>3. CardsNamed' /\ CardsRun'
    <3>1. first \in [Calls -> Report] /\ UNCHANGED <<agent, home, second>>
      BY <1>0 DEF CardsTypeOK, given, codexTables
    <3>2. CardsNamed'
      BY <1>0, <2>1, <3>1 DEF CardsNamed, Shown, ShownIn
    <3>3. CardsRun'
      BY <1>0, <2>1, <3>1 DEF CardsRun, Shown, ShownIn
    <3> QED
      BY <3>2, <3>3
  <2>4. UsesOK'
    BY <1>0, <2>1, UsesKept DEF given, CardsTypeOK
  <2>5. PermsOK' /\ PatchesOK'
    BY <1>0, <2>1, PermsKept, PatchesKept DEF given, Shown, ShownIn, CardsTypeOK
  <2> QED
    BY <2>2, <2>3, <2>4, <2>5
<1>3. CASE SubagentUse(c)
  <2>1. /\ home[c] # "main" /\ first[c] = "silent" /\ first' = [first EXCEPT ![c] = "began"]
        /\ sideUses' = Append(sideUses, c) /\ Shown(c, TRUE, "running")
        /\ UNCHANGED <<toolNames, asking, mistaken>>
    BY <1>3, ShowFacts DEF SubagentUse, Begins
  <2>2. /\ sideUses' \in Seq(Calls) /\ DOMAIN sideUses' = 1..(Len(sideUses) + 1)
        /\ DOMAIN sideUses = 1..Len(sideUses) /\ Len(sideUses) \in Nat
        /\ sideUses'[Len(sideUses) + 1] = c
        /\ \A i \in DOMAIN sideUses : sideUses'[i] = sideUses[i] /\ sideUses[i] \in Calls
    BY <2>1 DEF CardsTypeOK
  <2>3. CardsTypeOK'
    BY <1>0, <2>1, <2>2 DEF CardsTypeOK, Shown, ShownIn, given, codexTables, piTables, Report
  <2>4. CardsNamed' /\ CardsRun'
    <3>1. first \in [Calls -> Report] /\ UNCHANGED <<agent, home, second>>
      BY <1>0 DEF CardsTypeOK, given, codexTables
    <3>2. CardsNamed'
      BY <1>0, <2>1, <3>1 DEF CardsNamed, Shown, ShownIn
    <3>3. CardsRun'
      BY <1>0, <2>1, <3>1 DEF CardsRun, Shown, ShownIn
    <3> QED
      BY <3>2, <3>3
  <2>5. UsesOK'
    <3>1. \A d \in Calls : first'[d] = IF d = c THEN "began" ELSE first[d]
      BY <2>1 DEF CardsTypeOK
    <3>2. \A i \in DOMAIN sideUses : sideUses[i] # c
      BY <2>1 DEF UsesOK
    <3>3. \A i \in DOMAIN sideUses' : i \in DOMAIN sideUses \/ i = Len(sideUses) + 1
      BY <2>2
    <3>4. \A i \in DOMAIN sideUses' : first'[sideUses'[i]] = "began" /\ home[sideUses'[i]] # "main"
      BY <2>1, <2>2, <3>1, <3>3 DEF UsesOK
    <3>5. \A i, j \in DOMAIN sideUses' : sideUses'[i] = sideUses'[j] => i = j
      BY <2>2, <3>2, <3>3 DEF UsesOK
    <3>6. ASSUME NEW d \in Calls, home[d] # "main", first'[d] = "began", asking[d] \in {"no", "wanted"}
          PROVE  (\E i \in DOMAIN sideUses' : sideUses'[i] = d) \/ \E e \in Calls : Rival(d, e)
      <4>1. CASE d = c
        BY <2>2, <4>1
      <4>2. CASE d # c
        <5>1. (\E i \in DOMAIN sideUses : sideUses[i] = d) \/ \E e \in Calls : Rival(d, e)
          BY <1>0, <3>1, <3>6, <4>2 DEF UsesOK
        <5> QED
          BY <2>2, <5>1
      <4> QED
        BY <4>1, <4>2
    <3>7. \A d \in Calls : asking[d] # "no" => first'[d] # "silent"
      BY <3>1 DEF UsesOK
    <3> QED
      BY <1>0, <2>1, <3>4, <3>5, <3>6, <3>7 DEF UsesOK, Rival, given
  <2>6. PermsOK' /\ PatchesOK'
    BY <1>0, <2>1, PermsKept, PatchesKept DEF given, Shown, ShownIn, CardsTypeOK
  <2> QED
    BY <2>3, <2>4, <2>5, <2>6
<1>4. CASE SubagentResult(c)
  <2> DEFINE S == {i \in DOMAIN sideUses : sideUses[i] = c}
  <2>1. /\ home[c] # "main" /\ first[c] = "began" /\ first' = [first EXCEPT ![c] = "ended"]
        /\ sideUses' = WithoutFirst(S) /\ Shown(c, FALSE, "ended")
        /\ UNCHANGED <<toolNames, asking, mistaken>>
    BY <1>4, ShowFacts DEF SubagentResult, Ends, DropUse
  <2>2. /\ sideUses' \in Seq(Calls)
        /\ \A i \in DOMAIN sideUses' : \E j \in DOMAIN sideUses : sideUses'[i] = sideUses[j] /\ sideUses[j] # c
        /\ \A j \in DOMAIN sideUses : sideUses[j] # c => \E i \in DOMAIN sideUses' : sideUses'[i] = sideUses[j]
        /\ \A i, k \in DOMAIN sideUses' : sideUses'[i] = sideUses'[k] => i = k
    <3>1. S \in SUBSET DOMAIN sideUses
      OBVIOUS
    <3>2. CASE S = {}
      <4>1. sideUses' = sideUses
        BY <2>1, <3>1, <3>2, WithoutFirstFacts
      <4>2. \A j \in DOMAIN sideUses : sideUses[j] # c
        BY <3>2
      <4> QED
        BY <4>1, <4>2 DEF UsesOK, CardsTypeOK
    <3>3. CASE S # {}
      <4>1. Oldest(S) \in DOMAIN sideUses /\ sideUses[Oldest(S)] = c
        BY <3>1, <3>3, WithoutFirstFacts
      <4>2. \A j \in DOMAIN sideUses : sideUses[j] # c <=> j # Oldest(S)
        BY <4>1 DEF UsesOK
      <4> HIDE DEF S
      <4> QED
        BY <2>1, <3>1, <3>3, <4>2, WithoutFirstFacts DEF UsesOK
    <3> QED
      BY <3>2, <3>3
  <2> HIDE DEF S
  <2>3. CardsTypeOK'
    BY <1>0, <2>1, <2>2 DEF CardsTypeOK, Shown, ShownIn, given, codexTables, piTables, Report
  <2>4. CardsNamed' /\ CardsRun'
    <3>1. first \in [Calls -> Report] /\ UNCHANGED <<agent, home, second>>
      BY <1>0 DEF CardsTypeOK, given, codexTables
    <3>2. CardsNamed'
      BY <1>0, <2>1, <3>1 DEF CardsNamed, Shown, ShownIn
    <3>3. CardsRun'
      BY <1>0, <2>1, <3>1 DEF CardsRun, Shown, ShownIn
    <3> QED
      BY <3>2, <3>3
  <2>5. UsesOK'
    <3>1. \A d \in Calls : first'[d] = IF d = c THEN "ended" ELSE first[d]
      BY <2>1 DEF CardsTypeOK
    <3>2. \A j \in DOMAIN sideUses : sideUses[j] \in Calls
      BY DEF CardsTypeOK
    <3>3. \A i \in DOMAIN sideUses' : first'[sideUses'[i]] = "began" /\ home[sideUses'[i]] # "main"
      BY <2>2, <3>1, <3>2 DEF UsesOK
    <3>4. ASSUME NEW d \in Calls, home[d] # "main", first'[d] = "began", asking[d] \in {"no", "wanted"}
          PROVE  (\E i \in DOMAIN sideUses' : sideUses'[i] = d) \/ \E e \in Calls : Rival(d, e)
      <4>1. d # c /\ first[d] = "began"
        BY <3>1, <3>4
      <4>2. (\E i \in DOMAIN sideUses : sideUses[i] = d) \/ \E e \in Calls : Rival(d, e)
        BY <1>0, <3>4, <4>1 DEF UsesOK
      <4> QED
        BY <2>2, <4>1, <4>2
    <3>5. \A d \in Calls : asking[d] # "no" => first'[d] # "silent"
      BY <3>1 DEF UsesOK
    <3> QED
      BY <1>0, <2>1, <2>2, <3>3, <3>4, <3>5 DEF UsesOK, Rival, given
  <2>6. PermsOK' /\ PatchesOK'
    BY <1>0, <2>1, PermsKept, PatchesKept DEF given, Shown, ShownIn, CardsTypeOK
  <2> QED
    BY <2>3, <2>4, <2>5, <2>6
<1>5. CASE AskPermission(c)
  <2>1. /\ first[c] = "began" /\ asking[c] = "no" /\ asking' = [asking EXCEPT ![c] = "wanted"]
        /\ UNCHANGED <<first, shows, toolNames, sideUses, mistaken>>
    BY <1>5 DEF AskPermission
  <2>2. CardsTypeOK'
    BY <1>0, <2>1 DEF CardsTypeOK, given, codexTables, piTables
  <2>3. CardsNamed' /\ CardsRun'
    BY <1>0, <2>1 DEF CardsNamed, CardsRun, Agents, given, codexTables
  <2>4. UsesOK'
    <3>1. \A d \in Calls : asking'[d] = IF d = c THEN "wanted" ELSE asking[d]
      BY <2>1 DEF CardsTypeOK
    <3> QED
      BY <1>0, <2>1, <3>1 DEF UsesOK, Rival, given
  <2>5. PermsOK' /\ PatchesOK'
    BY <1>0, <2>1, PermsKept, PatchesKept DEF given
  <2> QED
    BY <2>2, <2>3, <2>4, <2>5
<1>6. CASE Answered(c)
  <2>1. /\ asking[c] = "claimed" /\ asking' = [asking EXCEPT ![c] = "given"]
        /\ UNCHANGED <<first, shows, toolNames, sideUses, mistaken>>
    BY <1>6 DEF Answered
  <2>2. CardsTypeOK'
    BY <1>0, <2>1 DEF CardsTypeOK, given, codexTables, piTables
  <2>3. CardsNamed' /\ CardsRun'
    BY <1>0, <2>1 DEF CardsNamed, CardsRun, Agents, given, codexTables
  <2>4. UsesOK'
    <3>1. \A d \in Calls : asking'[d] = IF d = c THEN "given" ELSE asking[d]
      BY <2>1 DEF CardsTypeOK
    <3> QED
      BY <1>0, <2>1, <3>1 DEF UsesOK, Rival, given
  <2>5. PermsOK' /\ PatchesOK'
    BY <1>0, <2>1, PermsKept, PatchesKept DEF given
  <2> QED
    BY <2>2, <2>3, <2>4, <2>5
<1>7. CASE ClaimUse(c)
  <2> DEFINE S == Claimable(c)
             o == Oldest(S)
  <2>1. /\ asking[c] = "wanted" /\ asking' = [asking EXCEPT ![c] = "claimed"]
        /\ sideUses' = WithoutFirst(S)
        /\ shows' = [shows EXCEPT ![c].perm = IF S = {} THEN "main" ELSE home[sideUses[o]]]
        /\ mistaken' = IF Others(c) # {} \/ first[c] = "ended" THEN mistaken \cup {c} ELSE mistaken
        /\ UNCHANGED <<first, toolNames>>
    BY <1>7 DEF ClaimUse
  <2>2. S \in SUBSET DOMAIN sideUses
    BY DEF Claimable
  <2>3. \A j \in DOMAIN sideUses : sideUses[j] \in Calls
    BY DEF CardsTypeOK
  <2>4. S # {} => o \in DOMAIN sideUses /\ sideUses[o] \in Calls /\ alike[sideUses[o]] = alike[c]
                  /\ first[sideUses[o]] = "began"
    BY <2>2, <2>3, WithoutFirstFacts DEF Claimable, UsesOK
  <2>5. /\ shows' \in [Calls -> ToolCard]
        /\ \A d \in Calls : /\ shows'[d].state = shows[d].state /\ shows'[d].named = shows[d].named
                            /\ shows'[d].diff = shows[d].diff
                            /\ d # c => shows'[d].perm = shows[d].perm
        /\ shows'[c].perm = IF S = {} THEN "main" ELSE home[sideUses[o]]
    <3> DEFINE perm == IF S = {} THEN "main" ELSE home[sideUses[o]]
    <3>1. perm \in Homes \cup {"none", "agent", "plain"}
      BY <2>4 DEF CardsTypeOK, Homes
    <3>2. shows \in [Calls -> ToolCard] /\ shows' = [shows EXCEPT ![c].perm = perm]
      BY <2>1 DEF CardsTypeOK
    <3> HIDE DEF perm
    <3>3. shows'[c] = [state |-> shows[c].state, named |-> shows[c].named, diff |-> shows[c].diff, perm |-> perm]
      BY <3>2 DEF ToolCard
    <3>4. shows'[c] \in ToolCard
      BY <3>1, <3>2, <3>3 DEF ToolCard
    <3>5. \A d \in Calls : d # c => shows'[d] = shows[d]
      BY <3>2
    <3>6. shows' \in [Calls -> ToolCard]
      BY <3>2, <3>4
    <3> QED
      BY <3>3, <3>5, <3>6 DEF perm
  <2> HIDE DEF S, o
  <2>6. mistaken \subseteq mistaken' /\ mistaken' \subseteq mistaken \cup {c}
    BY <2>1
  <2>7. \A d \in Calls : asking'[d] = IF d = c THEN "claimed" ELSE asking[d]
    BY <2>1 DEF CardsTypeOK
  <2>8. CardsTypeOK'
    BY <1>0, <2>1, <2>2, <2>5, <2>6, WithoutFirstFacts DEF CardsTypeOK, given, codexTables, piTables
  <2>9. CardsNamed' /\ CardsRun'
    BY <1>0, <2>1, <2>5 DEF CardsNamed, CardsRun, Agents, given, codexTables
  <2>10. PatchesOK'
    BY <1>0, <2>1, <2>5, PatchesKept
  <2>11. PermsOK'
    <3>1. ASSUME c \notin mistaken' PROVE shows'[c].perm = home[c]
      <4>1. Others(c) = {} /\ first[c] # "ended"
        BY <2>1, <3>1
      <4>2. first[c] = "began"
        BY <2>1, <4>1 DEF UsesOK, CardsTypeOK, Report
      <4>3. \A d \in Calls : d # c /\ alike[d] = alike[c] => d \notin mistaken /\ first[d] # "began"
        BY <4>1 DEF Others
      <4>4. CASE S = {}
        <5>1. \A i \in DOMAIN sideUses : sideUses[i] # c
          BY <4>4 DEF S, Claimable
        <5>2. ~ \E d \in Calls : Rival(c, d)
          BY <4>3 DEF Rival
        <5>3. home[c] = "main"
          BY <1>0, <2>1, <4>2, <5>1, <5>2 DEF UsesOK
        <5> QED
          BY <2>5, <4>4, <5>3
      <4>5. CASE S # {}
        <5>1. sideUses[o] = c
          BY <2>4, <4>3, <4>5
        <5> QED
          BY <2>5, <4>5, <5>1
      <4> QED
        BY <4>4, <4>5
    <3> QED
      BY <1>0, <2>5, <2>6, <3>1 DEF PermsOK, given
  <2>12. UsesOK'
    <3>1. CASE S = {}
      <4>1. sideUses' = sideUses
        BY <2>1, <2>2, <3>1, WithoutFirstFacts
      <4>2. ASSUME NEW d \in Calls, home[d] # "main", first[d] = "began", asking'[d] \in {"no", "wanted"}
            PROVE  (\E i \in DOMAIN sideUses' : sideUses'[i] = d) \/ \E e \in Calls : Rival(d, e)'
        <5>1. (\E i \in DOMAIN sideUses : sideUses[i] = d) \/ \E e \in Calls : Rival(d, e)
          BY <1>0, <2>7, <4>2 DEF UsesOK
        <5> QED
          BY <1>0, <2>6, <4>1, <5>1 DEF Rival, given
      <4>3. \A d \in Calls : asking'[d] # "no" => first[d] # "silent"
        BY <2>1, <2>7 DEF UsesOK
      <4> QED
        BY <1>0, <2>1, <4>1, <4>2, <4>3 DEF UsesOK, given
    <3>2. CASE S # {}
      <4>1. /\ \A i \in DOMAIN sideUses' : \E j \in DOMAIN sideUses : sideUses'[i] = sideUses[j]
            /\ \A j \in DOMAIN sideUses : j # o => \E i \in DOMAIN sideUses' : sideUses'[i] = sideUses[j]
            /\ \A i, k \in DOMAIN sideUses' : sideUses'[i] = sideUses'[k] => i = k
        <5>1. o = Oldest(S)
          BY DEF o
        <5> QED
          BY <2>1, <2>2, <3>2, <5>1, WithoutFirstFacts DEF UsesOK
      <4>2. ASSUME NEW d \in Calls, home[d] # "main", first[d] = "began", asking'[d] \in {"no", "wanted"}
            PROVE  (\E i \in DOMAIN sideUses' : sideUses'[i] = d) \/ \E e \in Calls : Rival(d, e)'
        <5>1. d # c /\ asking[d] \in {"no", "wanted"}
          BY <2>7, <4>2
        <5>2. CASE sideUses[o] = d
          <6>1. d \in Others(c)
            BY <2>4, <3>2, <4>2, <5>1, <5>2 DEF Others
          <6>2. c \in mistaken' /\ alike[c] = alike[d]
            BY <2>1, <2>4, <3>2, <5>2, <6>1
          <6> QED
            BY <1>0, <5>1, <6>2 DEF Rival, given
        <5>3. CASE sideUses[o] # d
          <6>1. (\E i \in DOMAIN sideUses : sideUses[i] = d) \/ \E e \in Calls : Rival(d, e)
            BY <1>0, <4>2, <5>1 DEF UsesOK
          <6>2. CASE \E i \in DOMAIN sideUses : sideUses[i] = d
            BY <4>1, <5>3, <6>2
          <6>3. CASE \E e \in Calls : Rival(d, e)
            BY <1>0, <2>6, <6>3 DEF Rival, given
          <6> QED
            BY <6>1, <6>2, <6>3
        <5> QED
          BY <5>2, <5>3
      <4>3. \A d \in Calls : asking'[d] # "no" => first[d] # "silent"
        BY <2>1, <2>7 DEF UsesOK
      <4>4. \A i \in DOMAIN sideUses' : first[sideUses'[i]] = "began" /\ home[sideUses'[i]] # "main"
        BY <4>1 DEF UsesOK
      <4> QED
        BY <1>0, <2>1, <4>1, <4>2, <4>3, <4>4 DEF UsesOK, given
    <3> QED
      BY <3>1, <3>2
  <2> QED
    BY <2>8, <2>9, <2>10, <2>11, <2>12
<1> QED
  BY <1>1, <1>2, <1>3, <1>4, <1>5, <1>6, <1>7

\* codex
LEMMA CodexCards ==
  ASSUME CardsInv, NEW c \in Calls,
         \/ ItemStarted(c) \/ ItemCompleted(c) \/ CollabStarted(c) \/ RawOutput(c)
         \/ \E named \in BOOLEAN : CollabCompleted(c, named)
         \/ \E shape \in {"v1", "v2"} : RawCall(c, shape)
  PROVE  CardsInv'
<1> USE DEF CardsInv
<1>0. /\ agent = "codex" /\ UNCHANGED <<agent, home, alike, sideUses, asking, mistaken, piTables>>
      /\ toolNames \subseteq Calls /\ agentToolSeen \subseteq Calls
      /\ first \in [Calls -> Report] /\ second \in [Calls -> Report]
      /\ shows \in [Calls -> ToolCard] /\ home \in [Calls -> {"agent", "plain"}]
  <2>1. agent = "codex"
    BY DEF ItemStarted, ItemCompleted, CollabStarted, RawOutput, CollabCompleted, RawCall
  <2> QED
    BY <2>1 DEF ItemStarted, ItemCompleted, CollabStarted, RawOutput, CollabCompleted, RawCall, codexRest,
           codexTables, given, CardsTypeOK
\* A report that shows a card, or nothing.
<1>1. ASSUME shows' \in [Calls -> ToolCard], first' \in [Calls -> Report], second' \in [Calls -> Report],
             toolNames' \subseteq Calls, agentToolSeen' \subseteq Calls,
             \A d \in Calls : shows'[d].diff = shows[d].diff /\ shows'[d].perm = shows[d].perm,
             \A d \in Calls : first[d] # "silent" => first'[d] # "silent",
             \A d \in Calls : first'[d] # "ended" => first[d] # "ended",
             CardsNamed', CardsRun'
      PROVE  CardsInv'
  <2>1. CardsTypeOK'
    BY <1>0, <1>1 DEF CardsTypeOK, piTables
  <2>2. UsesOK'
    BY <1>0, <1>1, UsesKept
  <2>3. PermsOK' /\ PatchesOK'
    BY <1>0, <1>1, PermsKept, PatchesKept
  <2> QED
    BY <1>1, <2>1, <2>2, <2>3
<1>2. ASSUME UNCHANGED <<second, toolNames, agentToolSeen>>, home[c] = "plain", NEW state \in {"running", "ended"},
             NEW r \in {"began", "ended"},
             first' = [first EXCEPT ![c] = r], first[c] # "ended", state = "running" <=> r = "began",
             NEW named \in BOOLEAN, Shown(c, named, state), first[c] = "silent" => named
      PROVE  CardsInv'
  <2>1. ~Agents(c) /\ \A d \in Calls : Agents(d)' <=> Agents(d)
    BY <1>0, <1>2 DEF Agents
  <2>2. CardsNamed'
    BY <1>0, <1>2, <2>1 DEF CardsNamed, Shown, ShownIn, Report
  <2>3. CardsRun'
    BY <1>0, <1>2, <2>1 DEF CardsRun, Shown, ShownIn, Report
  <2> QED
    BY <1>0, <1>1, <1>2, <2>2, <2>3 DEF Shown, ShownIn, Report
<1>3. CASE ItemStarted(c)
  <2>1. Shown(c, TRUE, "running") /\ UNCHANGED <<second, toolNames, agentToolSeen>>
        /\ home[c] = "plain" /\ first[c] = "silent" /\ first' = [first EXCEPT ![c] = "began"]
    BY <1>3, ShowFacts DEF ItemStarted, Begins, codexTables
  <2> QED
    BY <1>2, <2>1
<1>4. CASE ItemCompleted(c)
  <2>1. Shown(c, FALSE, "ended") /\ UNCHANGED <<second, toolNames, agentToolSeen>>
        /\ home[c] = "plain" /\ first[c] = "began" /\ first' = [first EXCEPT ![c] = "ended"]
    BY <1>4, ShowFacts DEF ItemCompleted, Ends, codexTables
  <2> QED
    BY <1>2, <2>1
\* An agent tool: its card runs as long as its name is kept.
<1>5. ASSUME home[c] = "agent", first' \in [Calls -> Report], second' \in [Calls -> Report],
             \A d \in Calls : d # c => first'[d] = first[d] /\ second'[d] = second[d],
             first[c] # "silent" => first'[c] # "silent", first'[c] # "ended" => first[c] # "ended",
             agentToolSeen \subseteq agentToolSeen', agentToolSeen' \subseteq agentToolSeen \cup {c},
             \/ UNCHANGED <<shows, toolNames>>
             \/ toolNames' = toolNames \cup {c} /\ Shown(c, TRUE, "running")
             \/ toolNames' = toolNames \ {c} /\ Shown(c, c \notin toolNames, "ended")
             \/ toolNames' = toolNames \ {c} /\ Shown(c, FALSE, "ended") /\ c \in toolNames,
             c \in toolNames' => IF c \in agentToolSeen' THEN second'[c] = "began" ELSE first'[c] = "began"
      PROVE  CardsInv'
  <2>1. Agents(c) /\ \A d \in Calls : Agents(d)' <=> Agents(d)
    BY <1>0, <1>5 DEF Agents
  <2>2. /\ shows' \in [Calls -> ToolCard] /\ toolNames' \subseteq Calls /\ agentToolSeen' \subseteq Calls
        /\ \A d \in Calls : shows'[d].diff = shows[d].diff /\ shows'[d].perm = shows[d].perm
        /\ \A d \in Calls : d # c => shows'[d] = shows[d] /\ (d \in toolNames' <=> d \in toolNames)
        /\ \A d \in Calls : d # c => (d \in agentToolSeen' <=> d \in agentToolSeen)
    BY <1>0, <1>5 DEF Shown, ShownIn
  <2>3. /\ shows[c].state # "none" => shows[c].named
        /\ shows[c].state = "running" <=> c \in toolNames
    BY <2>1 DEF CardsNamed, CardsRun
  <2>4. /\ shows'[c].state # "none" => shows'[c].named
        /\ shows'[c].state = "running" <=> c \in toolNames'
    <3>1. CASE UNCHANGED <<shows, toolNames>>
      BY <2>3, <3>1
    <3>2. CASE toolNames' = toolNames \cup {c} /\ Shown(c, TRUE, "running")
      BY <2>3, <3>2 DEF Shown, ShownIn
    <3>3. CASE toolNames' = toolNames \ {c} /\ Shown(c, c \notin toolNames, "ended")
      BY <2>3, <3>3 DEF Shown, ShownIn
    <3>4. CASE toolNames' = toolNames \ {c} /\ Shown(c, FALSE, "ended") /\ c \in toolNames
      BY <2>3, <3>4 DEF Shown, ShownIn
    <3> QED
      BY <1>5, <3>1, <3>2, <3>3, <3>4
  <2>5. CardsNamed'
    BY <1>5, <2>1, <2>2, <2>4 DEF CardsNamed
  <2>6. CardsRun'
    BY <1>0, <1>5, <2>1, <2>2, <2>4 DEF CardsRun
  <2> QED
    BY <1>1, <1>5, <2>2, <2>5, <2>6
<1>6. ASSUME home[c] = "agent" 
      PROVE  c \in toolNames => IF c \in agentToolSeen THEN second[c] = "began" ELSE first[c] = "began"
  BY <1>0, <1>6 DEF CardsRun, Agents
<1>7. CASE CollabStarted(c)
  <2>1. /\ home[c] = "agent" /\ first[c] = "silent" /\ first' = [first EXCEPT ![c] = "began"]
        /\ UNCHANGED <<second, agentToolSeen>>
    BY <1>7 DEF CollabStarted, Begins, NotSeen
  <2>2. \/ c \in agentToolSeen /\ UNCHANGED <<shows, toolNames>>
        \/ c \notin agentToolSeen /\ toolNames' = toolNames \cup {c} /\ Shown(c, TRUE, "running")
    BY <1>7, ShowFacts DEF CollabStarted
  <2> QED
    BY <1>0, <1>5, <1>6, <2>1, <2>2 DEF Report
<1>8. ASSUME NEW named \in BOOLEAN, CollabCompleted(c, named) PROVE CardsInv'
  <2>1. /\ home[c] = "agent" /\ first' = [first EXCEPT ![c] = "ended"] /\ UNCHANGED <<second, agentToolSeen>>
    BY <1>8 DEF CollabCompleted, codexTables
  <2>2. \/ (c \in agentToolSeen \/ c \notin toolNames) /\ UNCHANGED <<shows, toolNames>>
        \/ toolNames' = toolNames \ {c} /\ Shown(c, c \notin toolNames, "ended")
    <3>1. (c \notin toolNames) \in BOOLEAN
      OBVIOUS
    <3> QED
      BY <1>8, <3>1, ShowFacts DEF CollabCompleted
  <2>3. CASE UNCHANGED <<shows, toolNames>> /\ (c \in agentToolSeen \/ c \notin toolNames)
    BY <1>0, <1>5, <1>6, <2>1, <2>3 DEF Report
  <2>4. CASE toolNames' = toolNames \ {c} /\ Shown(c, c \notin toolNames, "ended")
    BY <1>0, <1>5, <2>1, <2>4 DEF Report
  <2> QED
    BY <1>8, <2>2, <2>3, <2>4 DEF CollabCompleted
<1>9. ASSUME NEW shape \in {"v1", "v2"}, RawCall(c, shape) PROVE CardsInv'
  <2>1. /\ home[c] = "agent" /\ second[c] = "silent" /\ second' = [second EXCEPT ![c] = "began"]
        /\ UNCHANGED first
    BY <1>9 DEF RawCall
  <2>2. \/ UNCHANGED <<agentToolSeen, shows, toolNames>>
        \/ /\ agentToolSeen' = agentToolSeen \cup {c}
           /\ toolNames' = toolNames \cup {c} /\ Shown(c, TRUE, "running")
    BY <1>9, ShowFacts DEF RawCall
  <2> QED
    BY <1>0, <1>5, <1>6, <2>1, <2>2 DEF Report
<1>10. CASE RawOutput(c)
  <2>1. /\ second[c] = "began" /\ second' = [second EXCEPT ![c] = "ended"]
        /\ UNCHANGED <<first, agentToolSeen>>
    BY <1>10 DEF RawOutput
  <2>2. \/ c \notin toolNames /\ UNCHANGED <<shows, toolNames>>
        \/ c \in toolNames /\ toolNames' = toolNames \ {c} /\ Shown(c, FALSE, "ended")
    BY <1>10, ShowFacts DEF RawOutput
  <2>3. home[c] = "agent"
    BY <1>0, <2>1 DEF CardsRun, Agents
  <2> QED
    BY <1>0, <1>5, <1>6, <2>1, <2>2, <2>3 DEF Report
<1> QED
  BY <1>3, <1>4, <1>7, <1>8, <1>9, <1>10

\* pi
LEMMA PiCards ==
  ASSUME CardsInv, NEW c \in Calls,
         \/ PiToolStart(c) \/ PiQueued(c)
         \/ \E b \in BOOLEAN : PiToolEnd(c, b) \/ PiBatchEnd(c, b)
  PROVE  CardsInv'
<1> USE DEF CardsInv
<1>0. /\ agent = "pi" /\ UNCHANGED <<agent, home, alike, claudeTables, codexTables>>
      /\ \A d \in Calls : ~Agents(d) /\ ~Agents(d)' /\ second[d] = "silent" /\ d \notin toolNames
      /\ first \in [Calls -> Report] /\ shows \in [Calls -> ToolCard]
      /\ member \in [Calls -> Nat] /\ batch \in Nat /\ batch > 0 /\ piBatch \subseteq Calls
      /\ patched \subseteq 1..(batch - 1)
  <2>1. agent = "pi" /\ UNCHANGED <<agent, home, alike, claudeTables, codexTables>>
    BY DEF PiToolStart, PiQueued, PiToolEnd, PiBatchEnd, piRest, given
  <2> QED
    BY <2>1 DEF Agents, CardsRun, CardsTypeOK
<1> DEFINE BatchType == /\ piBatch \subseteq Calls /\ batch \in Nat /\ batch > 0
                        /\ member \in [Calls -> Nat] /\ patched \subseteq 1..(batch - 1)
\* The card of a call that begins or ends; of its patch later.
<1>1. ASSUME NEW r \in {"began", "ended"}, first' = [first EXCEPT ![c] = r], first[c] # "ended",
             r = "ended" => first[c] = "began",
             shows' \in [Calls -> ToolCard],
             \A d \in Calls : d # c => shows'[d].state = shows[d].state /\ shows'[d].named = shows[d].named,
             shows'[c].state = (IF r = "began" THEN "running" ELSE "ended"),
             shows'[c].named = (IF shows[c].state = "none" THEN r = "began" ELSE shows[c].named),
             \A d \in Calls : shows'[d].perm = shows[d].perm,
             BatchType', PatchesOK'
      PROVE  CardsInv'
  <2>1. CardsTypeOK'
    BY <1>0, <1>1 DEF CardsTypeOK, claudeTables, codexTables, Report
  <2>2. UNCHANGED <<sideUses, asking, mistaken, toolNames, second>>
    BY <1>0 DEF claudeTables, codexTables
  <2>3. CardsNamed'
    <3>1. CardsNamed
      BY <1>0
    <3>2. \A d \in Calls : d # c => first'[d] = first[d]
      BY <1>0, <1>1
    <3>3. \A d \in Calls : d # c => shows'[d].state = shows[d].state /\ shows'[d].named = shows[d].named
      BY <1>1
    <3>4. shows'[c].state # "none" /\ (shows[c].state = "none" => r = "began")
      BY <1>0, <1>1, <3>1 DEF CardsNamed
    <3>5. shows'[c].named
      BY <1>1, <3>1, <3>4 DEF CardsNamed
    <3>6. ASSUME NEW d \in Calls, shows'[d].state # "none" PROVE shows'[d].named
      <4>1. d # c => shows[d].state # "none" /\ shows[d].named /\ shows'[d].named = shows[d].named
        BY <3>1, <3>3, <3>6 DEF CardsNamed
      <4> QED
        BY <3>5, <4>1, Zenon
    <3>7. ASSUME NEW d \in Calls, first'[d] # "silent" PROVE shows'[d].state # "none"
      <4>1. d # c => first[d] # "silent" /\ shows'[d].state = shows[d].state
        BY <3>2, <3>3, <3>7
      <4> QED
        BY <1>0, <3>1, <3>4, <4>1 DEF CardsNamed
    <3> QED
      BY <3>6, <3>7 DEF CardsNamed
  <2>4. CardsRun'
    BY <1>0, <1>1, <2>2 DEF CardsRun
  <2>5. UsesOK'
    BY <1>0, <1>1, <2>2, UsesKept
  <2>6. PermsOK'
    BY <1>0, <1>1, <2>2, PermsKept
  <2> QED
    BY <1>1, <2>1, <2>3, <2>4, <2>5, <2>6
<1>2. CASE PiToolStart(c)
  <2>1. Shown(c, TRUE, "running") /\ UNCHANGED piTables
        /\ first[c] = "silent" /\ first' = [first EXCEPT ![c] = "began"]
    BY <1>2, ShowFacts DEF PiToolStart, Begins
  <2>2. PatchesOK'
    BY <1>0, <2>1, PatchesKept DEF Shown, ShownIn
  <2> QED
    BY <1>0, <1>1, <2>1, <2>2 DEF Shown, ShownIn, piTables
<1>3. ASSUME NEW cut \in BOOLEAN, PiToolEnd(c, cut) PROVE CardsInv'
  <2>1. Shown(c, FALSE, "ended") /\ UNCHANGED <<piBatch, member, patched>> /\ batch' \in {batch, batch + 1}
        /\ first[c] = "began" /\ first' = [first EXCEPT ![c] = "ended"]
    BY <1>3, ShowFacts DEF PiToolEnd, Ends
  <2>2. BatchType'
    <3>1. CASE batch' = batch
      BY <1>0, <2>1, <3>1
    <3>2. CASE batch' = batch + 1
      BY <1>0, <2>1, <3>2
    <3> QED
      BY <2>1, <3>1, <3>2
  <2>3. PatchesOK'
    BY <1>0, <2>1 DEF PatchesOK, Shown, ShownIn
  <2> QED
    BY <1>0, <1>1, <2>1, <2>2, <2>3 DEF Shown, ShownIn
<1>4. CASE PiQueued(c)
  <2>1. Shown(c, FALSE, "ended") /\ UNCHANGED <<batch, patched>> /\ piBatch' = piBatch \cup {c}
        /\ member' = [member EXCEPT ![c] = batch]
        /\ first[c] = "began" /\ first' = [first EXCEPT ![c] = "ended"]
    BY <1>4, ShowFacts DEF PiQueued, Ends
  <2>2. BatchType'
    BY <1>0, <2>1
  <2>3. member[c] = 0 /\ shows[c].diff = 0 /\ batch \notin patched
    BY <1>0, <2>1 DEF PatchesOK, ToolCard
  <2>4. PatchesOK'
    BY <1>0, <2>1, <2>3 DEF PatchesOK, Shown, ShownIn
  <2> QED
    BY <1>0, <1>1, <2>1, <2>2, <2>4 DEF Shown, ShownIn
<1>5. ASSUME NEW patch \in BOOLEAN, PiBatchEnd(c, patch) PROVE CardsInv'
  <2> DEFINE t == Show(c, FALSE, "ended")
             G == Backfill(c)
  <2>1. /\ first[c] = "began" /\ first' = [first EXCEPT ![c] = "ended"]
        /\ shows' = [d \in Calls |-> IF patch /\ d \in G THEN [t[d] EXCEPT !.diff = batch] ELSE t[d]]
        /\ piBatch' = {} /\ member' = [member EXCEPT ![c] = batch]
        /\ patched' = (IF patch THEN patched \cup {batch} ELSE patched) /\ batch' = batch + 1
    BY <1>5 DEF PiBatchEnd, Ends
  <2>2. /\ t \in [Calls -> ToolCard] /\ t[c].state = "ended"
        /\ t[c].named = (IF shows[c].state = "none" THEN FALSE ELSE shows[c].named)
        /\ \A d \in Calls : t[d].diff = shows[d].diff /\ t[d].perm = shows[d].perm
        /\ \A d \in Calls : d # c => t[d] = shows[d]
    <3>1. ShownIn(t, c, FALSE, "ended")
      BY ShowIs
    <3> HIDE DEF t
    <3> QED
      BY <3>1 DEF ShownIn
  <2>3. G = {c} \cup piBatch
    BY DEF Backfill
  <2> HIDE DEF t, G
  <2>4. \A d \in Calls : /\ shows'[d] \in ToolCard
                         /\ shows'[d].state = t[d].state /\ shows'[d].named = t[d].named
                         /\ shows'[d].perm = t[d].perm
                         /\ shows'[d].diff = IF patch /\ d \in G THEN batch ELSE t[d].diff
    <3> SUFFICES ASSUME NEW d \in Calls
                 PROVE  /\ shows'[d] \in ToolCard
                        /\ shows'[d].state = t[d].state /\ shows'[d].named = t[d].named
                        /\ shows'[d].perm = t[d].perm
                        /\ shows'[d].diff = IF patch /\ d \in G THEN batch ELSE t[d].diff
      OBVIOUS
    <3>1. CASE patch /\ d \in G
      <4>1. shows'[d] = [state |-> t[d].state, named |-> t[d].named, diff |-> batch, perm |-> t[d].perm]
        BY <2>1, <2>2, <3>1 DEF ToolCard
      <4>2. shows'[d] \in ToolCard
        BY <1>0, <2>2, <4>1 DEF ToolCard
      <4> QED
        BY <3>1, <4>1, <4>2
    <3>2. CASE ~(patch /\ d \in G)
      <4>1. shows'[d] = t[d]
        BY <2>1, <3>2
      <4> QED
        BY <2>2, <3>2, <4>1
    <3> QED
      BY <3>1, <3>2
  <2>5. shows' \in [Calls -> ToolCard]
    BY <2>1, <2>4
  <2>6. BatchType'
    BY <1>0, <2>1
  <2>7. PatchesOK'
    <3>1. member[c] = 0 /\ batch \notin patched /\ 0 \notin patched
      BY <1>0, <2>1 DEF PatchesOK
    <3>2. \A d \in Calls : member'[d] = IF d = c THEN batch ELSE member[d]
      BY <1>0, <2>1
    <3>3. \A d \in Calls : first'[d] = IF d = c THEN "ended" ELSE first[d]
      BY <1>0, <2>1
    <3> SUFFICES ASSUME NEW d \in Calls
                 PROVE  /\ member'[d] <= batch' /\ (first'[d] # "ended" => member'[d] = 0)
                        /\ member'[d] # batch'
                        /\ shows'[d].diff # 0 => member'[d] \in 1..shows'[d].diff
                        /\ member'[d] \in patched' => shows'[d].diff = member'[d]
      BY <2>1 DEF PatchesOK
    <3>4. /\ member[d] \in Nat /\ member[d] <= batch /\ (first[d] # "ended" => member[d] = 0)
          /\ d \in piBatch => member[d] > 0 /\ member[d] \notin patched
          /\ member[d] = batch => d \in piBatch
          /\ shows[d].diff # 0 => member[d] \in 1..shows[d].diff
          /\ member[d] \in patched => shows[d].diff = member[d]
      BY <1>0 DEF PatchesOK
    <3>5. /\ member'[d] <= batch' /\ (first'[d] # "ended" => member'[d] = 0)
          /\ member'[d] # batch'
      BY <1>0, <2>1, <3>2, <3>3, <3>4
    <3>6. CASE patch /\ d \in G
      <4>1. shows'[d].diff = batch /\ patched' = patched \cup {batch} /\ (d = c \/ d \in piBatch)
        BY <2>1, <2>3, <2>4, <3>6
      <4> QED
        BY <1>0, <3>1, <3>2, <3>4, <3>5, <4>1
    <3>7. CASE ~(patch /\ d \in G)
      <4>1. shows'[d].diff = shows[d].diff
        BY <2>2, <2>4, <3>7
      <4>2. CASE d = c
        BY <1>0, <2>1, <2>3, <3>1, <3>2, <3>4, <3>5, <3>7, <4>1, <4>2
      <4>3. CASE d # c
        BY <1>0, <2>1, <2>3, <3>1, <3>2, <3>4, <3>5, <3>7, <4>1, <4>3
      <4> QED
        BY <4>2, <4>3
    <3> QED
      BY <3>5, <3>6, <3>7
  <2> QED
    BY <1>0, <1>1, <2>1, <2>2, <2>4, <2>5, <2>6, <2>7
<1> QED
  BY <1>2, <1>3, <1>4, <1>5

\* A card shows what is known of its call and of no other, for any number of
\* calls, tasks and batches, whichever protocol tells what and however late a
\* permission is asked (the tables of the drivers).
THEOREM CardsTrue == CardsSpec => []CardsTellCalls
<1>1. CardsInv /\ [CardsNext]_cardVars => CardsInv'
  <2> SUFFICES ASSUME CardsInv, [CardsNext]_cardVars PROVE CardsInv'
    OBVIOUS
  <2>1. CASE CardsNext
    BY <2>1, ClaudeCards, CodexCards, PiCards DEF CardsNext
  <2>2. CASE UNCHANGED cardVars
    BY <2>2 DEF cardVars, CardsInv, CardsTypeOK, CardsNamed, CardsRun, Agents, UsesOK, Rival, PermsOK, PatchesOK
  <2> QED
    BY <2>1, <2>2
<1>2. CardsInv => CardsTellCalls
  <2> SUFFICES ASSUME CardsInv PROVE CardsTellCalls
    OBVIOUS
  <2>1. CardsClosed
    <3>1. \A c \in Calls : /\ shows[c].state # "none" => shows[c].named
                           /\ shows[c].state = "running" => Runs(c)
                           /\ c \in toolNames => Runs(c)
      BY DEF CardsInv, CardsNamed, CardsRun, Runs
    <3>2. \A c \in Calls : c \in ToSet(sideUses) => Runs(c)
      BY DEF CardsInv, UsesOK, ToSet, Runs
    <3> QED
      BY <3>1, <3>2 DEF CardsClosed
  <2>2. CardsBelong
    BY DEF CardsInv, PermsOK, PatchesOK, CardsBelong
  <2> QED
    BY <2>1, <2>2 DEF CardsTellCalls
<1> QED
  BY <1>1, <1>2, CardsInitInv, PTL DEF CardsSpec
-----------------------------------------------------------------------------
(***************************************************************************)
(* ClaudeStream: what the pump and the readers of claude make of its life. *)
(***************************************************************************)
StreamWord == {"running", "idle", "error"} \cup Notices
PipeLine == {"out", "ok", "err"} \cup Notices

ClaudeTypes ==
  /\ proc \in {"up", "failed", "killed"} /\ said \in SUBSET Notices /\ lines \in Nat
  /\ turn \in BOOLEAN /\ pipe \in Seq(PipeLine) /\ transcript \in Seq(Notices)
  /\ attached \in BOOLEAN /\ streaming \in BOOLEAN /\ running \in BOOLEAN
  /\ sawResult \in BOOLEAN /\ stderrTail \in BOOLEAN
  /\ notified \in Seq(Notices) /\ reader \in {"read", "ok", "err"}
  /\ stream \in Seq(StreamWord) /\ status \in {"running", "idle", "dead"}
  /\ errors \in SUBSET {"result", "exit"} /\ shown \in [Notices -> Nat]
  /\ pumping \in BOOLEAN /\ crossed \in BOOLEAN /\ swallowed \in BOOLEAN

\* A key that is not remembered and was not pushed out has not come yet; one that was
\* not pushed out is in the timeline, or once in the stream, or lost.
NeverTold(n) == shown[n] = 0 /\ \A i \in DOMAIN stream : stream[i] # n
OnceTold(n) ==
  /\ shown[n] <= 1
  /\ \A i \in DOMAIN stream : stream[i] = n =>
       shown[n] = 0 /\ \A j \in DOMAIN stream : stream[j] = n => j = i
NoticesOK ==
  \A n \in Notices \ evicted : OnceTold(n) /\ (n \in Range(notified) \/ NeverTold(n))

\* An error card of a result follows the result line; the pump asks for the
\* reason of the exit last of all.
ExitOK ==
  /\ streaming => attached \/ proc # "up"
  /\ attached => streaming
  /\ "result" \in errors \/ reader # "read" \/ (\E i \in DOMAIN stream : stream[i] = "error")
       => sawResult
  /\ ~pumping => ~streaming /\ stream = <<>>
  /\ "exit" \in errors => ~pumping /\ errors = {"exit"}

ClaudeInv == ClaudeTypes /\ NoticesOK /\ ExitOK /\ StatusTrueUnlessCrossed

-----------------------------------------------------------------------------
\* What a step sees of the stream: an event that fits goes behind the others.
LEMMA EmitFacts ==
  ASSUME ClaudeTypes, NEW e \in StreamWord, Emit(e)
  PROVE  /\ stream' \in Seq(StreamWord) /\ swallowed' \in BOOLEAN
         /\ \/ stream' = stream /\ (e \in {"running", "idle"} => swallowed')
            \/ streaming /\ stream' = Append(stream, e) /\ DOMAIN stream' = 1..(Len(stream) + 1)
               /\ stream'[Len(stream) + 1] = e /\ \A i \in DOMAIN stream : stream'[i] = stream[i]
         /\ e \notin {"running", "idle"} => swallowed' = swallowed
         /\ DOMAIN stream = 1..Len(stream) /\ Len(stream) \in Nat
<1>1. stream \in Seq(StreamWord) /\ swallowed \in BOOLEAN
  BY DEF ClaudeTypes
<1>2. /\ Fits => stream' = Append(stream, e) /\ streaming
      /\ ~Fits => stream' = stream
  BY DEF Emit, Fits
<1>3. /\ e \in {"running", "idle"} => swallowed' = ~Fits
      /\ e \notin {"running", "idle"} => swallowed' = swallowed
  BY DEF Emit
<1>4. swallowed' \in BOOLEAN /\ (~Fits /\ e \in {"running", "idle"} => swallowed')
  BY <1>1, <1>3, Zenon
<1>5. LET t == Append(stream, e) IN
      /\ t \in Seq(StreamWord) /\ DOMAIN t = 1..(Len(stream) + 1) /\ t[Len(stream) + 1] = e
      /\ \A i \in DOMAIN stream : t[i] = stream[i]
      /\ DOMAIN stream = 1..Len(stream) /\ Len(stream) \in Nat
  BY <1>1
<1>6. /\ stream' \in Seq(StreamWord)
      /\ \/ stream' = stream /\ ~Fits
         \/ streaming /\ stream' = Append(stream, e) /\ DOMAIN stream' = 1..(Len(stream) + 1)
            /\ stream'[Len(stream) + 1] = e /\ \A i \in DOMAIN stream : stream'[i] = stream[i]
  BY <1>1, <1>2, <1>5, Zenon
<1> QED
  BY <1>3, <1>4, <1>5, <1>6

LEMMA MarkFacts ==
  ASSUME ClaudeTypes, MarkRunning
  PROVE  running' = TRUE /\ ((running /\ UNCHANGED <<stream, swallowed>>) \/ (~running /\ Emit("running")))
<1>1. running' = TRUE /\ IF running THEN EmitNothing ELSE Emit("running")
  BY DEF MarkRunning
<1>2. CASE running = TRUE
  BY <1>1, <1>2 DEF EmitNothing
<1>3. CASE running = FALSE
  BY <1>1, <1>3
<1>4. running = TRUE \/ running = FALSE
  BY DEF ClaudeTypes
<1> QED
  BY <1>2, <1>3, <1>4

\* The keys after a notification.
LEMMA RememberFacts ==
  ASSUME NoticesAssumption, ClaudeTypes, NEW n \in Notices
  PROVE  Remember(n) \in Seq(Notices) /\ n \in Range(Remember(n))
<1> DEFINE all == Append(notified, n)
<1>1. /\ all \in Seq(Notices) /\ Len(all) = Len(notified) + 1 /\ Len(notified) \in Nat
      /\ all[Len(all)] = n
  BY DEF ClaudeTypes
<1> HIDE DEF all
<1>2. CASE Len(all) <= NoticeCap
  <2>1. Remember(n) = all
    BY <1>1, <1>2 DEF Remember, all, NoticesAssumption
  <2> QED
    BY <1>1, <2>1 DEF Range
<1>3. CASE Len(all) > NoticeCap
  <2>1. Remember(n) = Tail(all)
    BY <1>1, <1>3 DEF Remember, all, NoticesAssumption
  <2>2. Len(all) >= 2
    BY <1>1, <1>3 DEF NoticesAssumption
  <2>3. /\ Tail(all) \in Seq(Notices) /\ Len(all) - 1 \in DOMAIN Tail(all)
        /\ Tail(all)[Len(all) - 1] = n
    BY <1>1, <2>2
  <2> QED
    BY <2>1, <2>3 DEF Range
<1> QED
  BY <1>1, <1>2, <1>3 DEF NoticesAssumption

LEMMA NotifyFacts ==
  ASSUME NoticesAssumption, ClaudeTypes, NEW n \in Notices, Notify(n)
  PROVE  /\ notified' \in Seq(Notices) /\ swallowed' = swallowed /\ stream' \in Seq(StreamWord)
         /\ \/ n \in Range(notified) /\ UNCHANGED <<stream, notified, evicted>>
            \/ /\ n \notin Range(notified) /\ Emit(n) /\ n \in Range(notified')
               /\ evicted' = evicted \cup (Range(notified) \ Range(notified'))
<1>1. n \in StreamWord /\ n \notin {"running", "idle"}
  BY DEF StreamWord, NoticesAssumption
<1>2. CASE n \in Range(notified)
  BY <1>2 DEF Notify, EmitNothing, ClaudeTypes
<1>3. CASE n \notin Range(notified)
  <2>1. /\ notified' = Remember(n) /\ Emit(n)
        /\ evicted' = evicted \cup (Range(notified) \ Range(notified'))
    BY <1>3 DEF Notify
  <2> QED
    BY <1>1, <1>3, <2>1, EmitFacts, RememberFacts
<1> QED
  BY <1>2, <1>3

\* Every step keeps the types.
LEMMA ClaudeTypesStep ==
  ASSUME NoticesAssumption, ClaudeTypes, [ClaudeStreamNext]_streamVars
  PROVE  ClaudeTypes'
<1> USE DEF ClaudeTypes
<1>0. {"running", "idle", "error"} \subseteq StreamWord /\ {"out", "ok", "err"} \subseteq PipeLine
      /\ Notices \subseteq StreamWord /\ Notices \subseteq PipeLine
  BY DEF StreamWord, PipeLine
<1>1. CASE UNCHANGED streamVars
  BY <1>1 DEF streamVars, cliVars, pumpVars
<1>2. CASE CliTurn \/ CliEnds("failed") \/ CliEnds("killed")
  <2>1. turn' \in BOOLEAN
    BY <1>2, Zenon DEF CliTurn, CliEnds
  <2>2. CASE CliTurn
    BY <2>1, <2>2 DEF CliTurn, pumpVars, driverOnly
  <2>3. ASSUME NEW how \in {"failed", "killed"}, CliEnds(how) PROVE ClaudeTypes'
    BY <2>1, <2>3 DEF CliEnds, pumpVars, driverOnly
  <2> QED
    BY <1>2, <2>2, <2>3
<1>3. ASSUME NEW line \in PipeLine, Writes(line) PROVE pipe' \in Seq(PipeLine) /\ lines' \in Nat
  BY <1>3 DEF Writes, Works
<1>4. CASE CliOutput
  BY <1>0, <1>3, <1>4 DEF CliOutput, pumpVars, driverOnly
<1>5. CASE CliResult
  <2>1. turn' \in BOOLEAN
    BY <1>5, Zenon DEF CliResult
  <2>2. pipe' \in Seq(PipeLine) /\ lines' \in Nat
    BY <1>0, <1>3, <1>5 DEF CliResult
  <2> QED
    BY <1>5, <2>1, <2>2 DEF CliResult, pumpVars, driverOnly
<1>6. ASSUME NEW n \in Notices, CliNotice(n) PROVE ClaudeTypes'
  <2>1. pipe' \in Seq(PipeLine) /\ lines' \in Nat
    BY <1>0, <1>3, <1>6 DEF CliNotice, Works
  <2> QED
    BY <1>6, <2>1 DEF CliNotice, pumpVars, driverOnly
<1>7. ASSUME MarkRunning PROVE stream' \in Seq(StreamWord) /\ running' \in BOOLEAN /\ swallowed' \in BOOLEAN
  BY <1>0, <1>7, MarkFacts, EmitFacts
<1>8. CASE Send
  BY <1>7, <1>8 DEF Send, cliVars, pumpVars
<1>9. CASE ReadOutput
  BY <1>7, <1>9 DEF ReadOutput, cliVars, pumpVars
<1>10. CASE ReadResult
  <2>1. sawResult' \in BOOLEAN /\ running' \in BOOLEAN
    BY <1>10, Zenon DEF ReadResult
  <2> QED
    BY <1>10, <2>1 DEF ReadResult, cliVars, pumpVars
<1>11. CASE ResultError \/ ResultIdle
  <2>1. stream' \in Seq(StreamWord) /\ swallowed' \in BOOLEAN
    BY <1>0, <1>11, EmitFacts DEF ResultError, ResultIdle
  <2>2. crossed' \in BOOLEAN
    BY <1>11, Zenon DEF ResultError, ResultIdle
  <2>3. CASE ResultError
    BY <2>1, <2>2, <2>3 DEF ResultError, cliVars, pumpVars
  <2>4. CASE ResultIdle
    BY <2>1, <2>2, <2>4 DEF ResultIdle, cliVars, pumpVars
  <2> QED
    BY <1>11, <2>3, <2>4
<1>12. CASE ReadNotice
  <2>1. PICK n \in Notices : n = Head(pipe)
    BY <1>12 DEF ReadNotice
  <2>2. Notify(n)
    BY <1>12, <2>1 DEF ReadNotice
  <2>3. stream' \in Seq(StreamWord) /\ swallowed' = swallowed /\ notified' \in Seq(Notices)
    BY <2>2, NotifyFacts
  <2> QED
    BY <1>12, <2>3 DEF ReadNotice, cliVars, pumpVars
<1>13. CASE TailTranscript
  <2>1. PICK n \in Notices : n = Head(transcript)
    BY <1>13 DEF TailTranscript
  <2>2. Notify(n)
    BY <1>13, <2>1 DEF TailTranscript
  <2>3. stream' \in Seq(StreamWord) /\ swallowed' = swallowed /\ notified' \in Seq(Notices)
    BY <2>2, NotifyFacts
  <2> QED
    BY <1>13, <2>3 DEF TailTranscript, pumpVars
<1>14. CASE WaitExit
  <2>1. pipe' \in Seq(PipeLine)
    BY <1>14 DEF WaitExit
  <2>2. attached' \in BOOLEAN
    BY <1>14, Zenon DEF WaitExit
  <2> QED
    BY <1>14, <2>1, <2>2 DEF WaitExit, cliVars, pumpVars
<1>15. CASE CloseStream \/ ReadStderr
  <2>1. streaming' \in BOOLEAN /\ stderrTail' \in BOOLEAN
    BY <1>15, Zenon DEF CloseStream, ReadStderr
  <2>2. CASE CloseStream
    BY <2>1, <2>2 DEF CloseStream, cliVars, pumpVars
  <2>3. CASE ReadStderr
    BY <2>1, <2>3 DEF ReadStderr, cliVars, pumpVars
  <2> QED
    BY <1>15, <2>2, <2>3
<1>16. CASE PumpEvent
  <2>1. Head(stream) \in StreamWord /\ stream' \in Seq(StreamWord)
    BY <1>16 DEF PumpEvent
  <2>2. shown' \in [Notices -> Nat]
    BY <1>16 DEF PumpEvent
  <2>3. status' \in {"running", "idle", "dead"} /\ errors' \in SUBSET {"result", "exit"}
    BY <1>16 DEF PumpEvent
  <2> QED
    BY <1>16, <2>1, <2>2, <2>3 DEF PumpEvent, cliVars
<1>17. CASE StreamEnds
  BY <1>17 DEF StreamEnds, cliVars
<1> QED
  BY <1>1, <1>2, <1>4, <1>5, <1>6, <1>8, <1>9, <1>10, <1>11, <1>12, <1>13, <1>14, <1>15,
     <1>16, <1>17 DEF ClaudeStreamNext

\* A step on the notices: nothing, an event that is none, or a new one.
LEMMA NoticesStep ==
  ASSUME NoticesAssumption, ClaudeTypes, ClaudeTypes', NoticesOK, [ClaudeStreamNext]_streamVars
  PROVE  NoticesOK'
<1> USE DEF NoticesOK
<1>0. Notices \subseteq StreamWord /\ Notices \cap {"running", "idle", "error"} = {}
  BY DEF StreamWord, NoticesAssumption
<1>1. ASSUME UNCHANGED <<stream, shown, notified, evicted>> PROVE NoticesOK'
  BY <1>1 DEF OnceTold, NeverTold
<1>2. ASSUME NEW e \in {"running", "idle", "error"}, Emit(e), UNCHANGED <<shown, notified, evicted>>
      PROVE  NoticesOK'
  <2>1. e \in StreamWord /\ e \notin Notices
    BY <1>0 DEF StreamWord
  <2>2. \/ stream' = stream
        \/ /\ DOMAIN stream' = 1..(Len(stream) + 1) /\ stream'[Len(stream) + 1] = e
           /\ \A i \in DOMAIN stream : stream'[i] = stream[i]
           /\ DOMAIN stream = 1..Len(stream) /\ Len(stream) \in Nat
    BY <1>2, <2>1, EmitFacts
  <2>3. CASE stream' = stream
    BY <1>1, <1>2, <2>3
  <2>4. CASE /\ DOMAIN stream' = 1..(Len(stream) + 1) /\ stream'[Len(stream) + 1] = e
             /\ \A i \in DOMAIN stream : stream'[i] = stream[i]
             /\ DOMAIN stream = 1..Len(stream) /\ Len(stream) \in Nat
    <3>1. \A n \in Notices, i \in DOMAIN stream' : stream'[i] = n =>
            i \in DOMAIN stream /\ stream[i] = n
      BY <2>1, <2>4
    <3> QED
      BY <1>2, <3>1 DEF OnceTold, NeverTold
  <2> QED
    BY <2>2, <2>3, <2>4
<1>3. ASSUME NEW n \in Notices, Notify(n), shown' = shown PROVE NoticesOK'
  <2>1. CASE n \in Range(notified)
    <3>1. UNCHANGED <<stream, notified, evicted>>
      BY <1>3, <2>1, NotifyFacts
    <3> QED
      BY <1>1, <1>3, <3>1
  <2>2. CASE n \notin Range(notified)
    <3>1. /\ Emit(n) /\ n \in Range(notified')
          /\ evicted' = evicted \cup (Range(notified) \ Range(notified'))
      BY <1>3, <2>2, NotifyFacts
    <3>2. n \in StreamWord
      BY <1>0
    <3>3. \/ stream' = stream
          \/ /\ DOMAIN stream' = 1..(Len(stream) + 1) /\ stream'[Len(stream) + 1] = n
             /\ \A i \in DOMAIN stream : stream'[i] = stream[i]
             /\ DOMAIN stream = 1..Len(stream) /\ Len(stream) \in Nat
      BY <3>1, <3>2, EmitFacts
    <3>4. ASSUME NEW m \in Notices, m \notin evicted', m # n
          PROVE  OnceTold(m)' /\ (m \in Range(notified') \/ NeverTold(m)')
      <4>1. m \notin evicted /\ OnceTold(m) /\ (m \in Range(notified') \/ NeverTold(m))
        BY <3>1, <3>4
      <4>2. \A i \in DOMAIN stream' : stream'[i] = m => i \in DOMAIN stream /\ stream[i] = m
        BY <3>3, <3>4
      <4> QED
        BY <1>3, <4>1, <4>2 DEF OnceTold, NeverTold
    <3>5. ASSUME n \notin evicted' PROVE OnceTold(n)'
      <4>1. NeverTold(n)
        BY <2>2, <3>1, <3>5
      <4>2. \A i \in DOMAIN stream' : stream'[i] = n =>
              i = Len(stream) + 1
        BY <3>3, <4>1 DEF NeverTold
      <4> QED
        BY <1>3, <4>1, <4>2 DEF OnceTold, NeverTold
    <3> QED
      BY <3>1, <3>4, <3>5
  <2> QED
    BY <2>1, <2>2
<1>4. CASE PumpEvent
  <2>1. /\ stream # <<>> /\ stream' = Tail(stream) /\ UNCHANGED <<notified, evicted>>
        /\ shown' = IF stream[1] \in Notices
                    THEN [shown EXCEPT ![stream[1]] = shown[stream[1]] + 1] ELSE shown
    BY <1>4 DEF PumpEvent, ClaudeTypes
  <2>2. /\ DOMAIN stream = 1..Len(stream) /\ Len(stream) \in Nat \ {0}
        /\ DOMAIN stream' = 1..(Len(stream) - 1)
        /\ \A i \in DOMAIN stream' : stream'[i] = stream[i + 1]
    BY <2>1 DEF ClaudeTypes
  <2>3. 1 \in DOMAIN stream /\ \A i \in DOMAIN stream' : i + 1 \in DOMAIN stream /\ i + 1 # 1
        /\ i \in Nat
    BY <2>2
  <2>4. ASSUME NEW n \in Notices \ evicted PROVE OnceTold(n)' /\ (n \in Range(notified) \/ NeverTold(n)')
    <3>1. CASE stream[1] = n
      <4>1. shown[n] = 0 /\ n \in Range(notified) /\ \A j \in DOMAIN stream : stream[j] = n => j = 1
        BY <2>3, <2>4, <3>1 DEF OnceTold, NeverTold
      <4>2. shown'[n] = 1 /\ \A i \in DOMAIN stream' : stream'[i] # n
        BY <2>1, <2>2, <2>3, <3>1, <4>1 DEF ClaudeTypes
      <4> QED
        BY <4>1, <4>2 DEF OnceTold
    <3>2. CASE stream[1] # n
      <4>1. shown'[n] = shown[n]
        BY <2>1, <3>2 DEF ClaudeTypes
      <4>2. \A i \in DOMAIN stream' : stream'[i] = n => stream[i + 1] = n /\ i + 1 \in DOMAIN stream
        BY <2>2, <2>3
      <4>3. ASSUME NEW i \in DOMAIN stream', NEW j \in DOMAIN stream', i + 1 = j + 1 PROVE i = j
        BY <2>3, <4>3
      <4>4. OnceTold(n) /\ (n \in Range(notified) \/ NeverTold(n))
        OBVIOUS
      <4>5. OnceTold(n)'
        BY <4>1, <4>2, <4>3, <4>4 DEF OnceTold
      <4>6. NeverTold(n) => NeverTold(n)'
        BY <4>1, <4>2 DEF NeverTold
      <4> QED
        BY <4>4, <4>5, <4>6
    <3> QED
      BY <3>1, <3>2
  <2> QED
    BY <2>1, <2>4
<1>5. CASE ReadNotice
  <2>1. PICK n \in Notices : n = Head(pipe)
    BY <1>5 DEF ReadNotice
  <2> QED
    BY <1>3, <1>5, <2>1 DEF ReadNotice, pumpVars
<1>6. CASE TailTranscript
  <2>1. PICK n \in Notices : n = Head(transcript)
    BY <1>6 DEF TailTranscript, ClaudeTypes
  <2> QED
    BY <1>3, <1>6, <2>1 DEF TailTranscript, pumpVars
<1>7. CASE Send \/ ReadOutput
  <2>1. UNCHANGED <<shown, notified, evicted>> /\ MarkRunning
    BY <1>7 DEF Send, ReadOutput, pumpVars
  <2> QED
    BY <1>1, <1>2, <2>1, MarkFacts
<1>8. CASE ResultError \/ ResultIdle
  BY <1>2, <1>8 DEF ResultError, ResultIdle, pumpVars
<1>9. CASE UNCHANGED streamVars
  BY <1>1, <1>9 DEF streamVars, pumpVars
<1>10. CASE \/ CliTurn \/ CliOutput \/ CliResult \/ CliEnds("failed") \/ CliEnds("killed")
            \/ \E n \in Notices : CliNotice(n)
  <2>1. UNCHANGED <<stream, shown, notified, evicted>>
    BY <1>10 DEF CliTurn, CliOutput, CliResult, CliEnds, CliNotice, driverOnly, pumpVars
  <2> QED
    BY <1>1, <2>1
<1>11. CASE ReadResult \/ WaitExit \/ CloseStream \/ ReadStderr \/ StreamEnds
  <2>1. UNCHANGED <<stream, shown, notified, evicted>>
    BY <1>11 DEF ReadResult, WaitExit, CloseStream, ReadStderr, StreamEnds, pumpVars
  <2> QED
    BY <1>1, <2>1
<1> QED
  BY <1>4, <1>5, <1>6, <1>7, <1>8, <1>9, <1>10, <1>11 DEF ClaudeStreamNext

\* A failure is told once, whoever comes first.
LEMMA ExitStep ==
  ASSUME NoticesAssumption, ClaudeTypes, ExitOK, [ClaudeStreamNext]_streamVars
  PROVE  ExitOK'
<1> USE DEF ExitOK
<1>0. Notices \subseteq StreamWord /\ {"running", "idle", "error"} \subseteq StreamWord
      /\ Notices \cap {"running", "idle", "error"} = {}
      /\ reader \in {"read", "ok", "err"} /\ errors \in SUBSET {"result", "exit"}
      /\ stream \in Seq(StreamWord)
  BY DEF StreamWord, NoticesAssumption, ClaudeTypes
<1>1. ASSUME UNCHANGED <<streaming, attached, errors, sawResult, pumping>>,
             streaming => proc' = proc \/ proc' # "up", reader' # "read" => reader # "read",
             \/ stream' = stream
             \/ \E e \in StreamWord : Emit(e) /\ (e = "error" => reader # "read")
      PROVE  ExitOK'
  <2>1. CASE stream' = stream
    BY <1>1, <2>1, Zenon
  <2>2. ASSUME NEW e \in StreamWord, Emit(e), e = "error" => reader # "read", stream' # stream
        PROVE  ExitOK'
    <3>1. /\ streaming /\ DOMAIN stream' = 1..(Len(stream) + 1)
          /\ stream'[Len(stream) + 1] = e /\ \A i \in DOMAIN stream : stream'[i] = stream[i]
          /\ DOMAIN stream = 1..Len(stream) /\ Len(stream) \in Nat
      BY <2>2, EmitFacts
    <3>2. (\E i \in DOMAIN stream' : stream'[i] = "error") =>
            reader # "read" \/ \E i \in DOMAIN stream : stream[i] = "error"
      BY <2>2, <3>1
    <3> QED
      BY <1>1, <3>1, <3>2, Zenon
  <2> QED
    BY <1>1, <2>1, <2>2
<1>2. CASE UNCHANGED streamVars
  BY <1>1, <1>2 DEF streamVars, cliVars, pumpVars
<1>3. CASE \/ CliTurn \/ CliOutput \/ CliResult \/ CliEnds("failed") \/ CliEnds("killed")
           \/ \E n \in Notices : CliNotice(n)
  <2>1. /\ UNCHANGED <<streaming, attached, errors, sawResult, pumping, reader, stream>>
        /\ proc' = proc \/ proc' # "up"
    BY <1>3 DEF CliTurn, CliOutput, CliResult, CliEnds, CliNotice, driverOnly, pumpVars
  <2> QED
    BY <1>1, <2>1
<1>4. CASE Send \/ ReadOutput
  <2>1. UNCHANGED <<streaming, attached, errors, sawResult, pumping, reader, proc>> /\ MarkRunning
    BY <1>4 DEF Send, ReadOutput, pumpVars, cliVars
  <2>2. stream' = stream \/ Emit("running")
    BY <2>1, MarkFacts
  <2> QED
    BY <1>0, <1>1, <2>1, <2>2
<1>5. CASE ReadNotice \/ TailTranscript
  <2>1. UNCHANGED <<streaming, attached, errors, sawResult, pumping, reader, proc>>
    BY <1>5 DEF ReadNotice, TailTranscript, pumpVars, cliVars
  <2>2. PICK n \in Notices : Notify(n)
    BY <1>5 DEF ReadNotice, TailTranscript, ClaudeTypes
  <2>3. stream' = stream \/ Emit(n)
    BY <2>2, NotifyFacts
  <2> QED
    BY <1>0, <1>1, <2>1, <2>3
<1>6. CASE ReadResult
  BY <1>6, Zenon DEF ReadResult, cliVars, pumpVars
<1>7. CASE ResultError
  <2>1. /\ UNCHANGED <<streaming, attached, errors, sawResult, pumping, proc>>
        /\ reader = "err" /\ Emit("error")
    BY <1>7 DEF ResultError, cliVars, pumpVars
  <2> QED
    BY <1>0, <1>1, <2>1
<1>8. CASE ResultIdle
  <2>1. /\ UNCHANGED <<streaming, attached, errors, sawResult, pumping, proc>>
        /\ reader' = "read" /\ Emit("idle")
    BY <1>8 DEF ResultIdle, cliVars, pumpVars
  <2> QED
    BY <1>0, <1>1, <2>1
<1>9. CASE WaitExit
  BY <1>9, Zenon DEF WaitExit, cliVars, pumpVars
<1>10. CASE CloseStream
  BY <1>10, Zenon DEF CloseStream, cliVars, pumpVars
<1>11. CASE ReadStderr
  <2>1. UNCHANGED <<streaming, attached, errors, sawResult, pumping, reader, proc, stream>>
    BY <1>11 DEF ReadStderr, cliVars, pumpVars
  <2> QED
    BY <1>1, <2>1
<1>12. CASE PumpEvent
  <2>1. /\ UNCHANGED <<streaming, attached, sawResult, pumping, reader, proc>>
        /\ stream # <<>> /\ stream' = Tail(stream)
        /\ errors' = IF stream[1] = "error" THEN errors \cup {"result"} ELSE errors
    BY <1>0, <1>12 DEF PumpEvent, cliVars
  <2>2. /\ 1 \in DOMAIN stream
        /\ \A i \in DOMAIN stream' : i + 1 \in DOMAIN stream /\ stream'[i] = stream[i + 1]
    BY <1>0, <2>1
  <2>3. "result" \in errors' \/ reader' # "read" \/ (\E i \in DOMAIN stream' : stream'[i] = "error")
          => sawResult
    BY <2>1, <2>2
  <2>4. "exit" \notin errors' /\ pumping'
    BY <2>1
  <2> QED
    BY <2>1, <2>3, <2>4, Zenon
<1>13. CASE StreamEnds
  <2>1. /\ UNCHANGED <<streaming, attached, sawResult, reader, proc, stream>>
        /\ ~streaming /\ stream = <<>> /\ pumping /\ ~pumping'
        /\ errors' = IF ExitDetail THEN errors \cup {"exit"} ELSE errors
    BY <1>13, Zenon DEF StreamEnds, cliVars
  <2>2. "exit" \notin errors
    BY <2>1
  <2>3. ExitDetail => "result" \notin errors
    BY DEF ExitDetail
  <2>4. "exit" \in errors' => errors' = {"exit"}
    BY <1>0, <2>1, <2>2, <2>3
  <2>5. "result" \in errors' => "result" \in errors
    BY <2>1
  <2> QED
    BY <2>1, <2>4, <2>5, Zenon
<1> QED
  BY <1>2, <1>3, <1>4, <1>5, <1>6, <1>7, <1>8, <1>9, <1>10, <1>11, <1>12, <1>13 DEF ClaudeStreamNext

\* The last status of the stream, after a step on it.
Statuses == {"running", "idle"}
LEMMA ReportedFacts ==
  ASSUME ClaudeTypes, NEW state
  PROVE  /\ UNCHANGED <<stream, status>> /\ Reported(state) => Reported(state)'
         /\ \A e \in StreamWord \ Statuses :
              Emit(e) /\ status' = status /\ Reported(state) => Reported(state)'
         /\ state \in Statuses /\ Emit(state) /\ ~swallowed' => Reported(state)'
         /\ PumpEvent /\ Reported(state) => Reported(state)'
<1> USE DEF Statuses
<1>0. /\ DOMAIN stream = 1..Len(stream) /\ Len(stream) \in Nat /\ stream \in Seq(StreamWord)
      /\ Statuses \subseteq StreamWord
  BY DEF ClaudeTypes, StreamWord
<1>1. UNCHANGED <<stream, status>> /\ Reported(state) => Reported(state)'
  BY DEF Reported
<1>2. ASSUME NEW e \in StreamWord \ Statuses, Emit(e), status' = status, Reported(state)
      PROVE  Reported(state)'
  <2>1. CASE stream' = stream
    BY <1>1, <1>2, <2>1
  <2>2. CASE stream' # stream
    <3>1. /\ DOMAIN stream' = 1..(Len(stream) + 1) /\ stream'[Len(stream) + 1] = e
          /\ \A i \in DOMAIN stream : stream'[i] = stream[i]
      BY <1>2, <2>2, EmitFacts
    <3>2. \A i \in DOMAIN stream' : stream'[i] \in Statuses => i \in DOMAIN stream
      BY <1>0, <1>2, <3>1
    <3>3. \A i \in DOMAIN stream : i \in DOMAIN stream'
      BY <1>0, <3>1
    <3> QED
      BY <1>2, <3>1, <3>2, <3>3 DEF Reported
  <2> QED
    BY <2>1, <2>2
<1>3. ASSUME state \in Statuses, Emit(state), ~swallowed' PROVE Reported(state)'
  <2>1. /\ DOMAIN stream' = 1..(Len(stream) + 1) /\ stream'[Len(stream) + 1] = state
        /\ \A i \in DOMAIN stream : stream'[i] = stream[i]
    BY <1>0, <1>3, EmitFacts
  <2>2. Len(stream) + 1 \in DOMAIN stream' /\ \A j \in DOMAIN stream' : j <= Len(stream) + 1
    BY <1>0, <2>1
  <2> QED
    BY <1>3, <2>1, <2>2 DEF Reported
<1>4. ASSUME PumpEvent, Reported(state) PROVE Reported(state)'
  <2>1. /\ stream # <<>> /\ stream' = Tail(stream)
        /\ status' = IF stream[1] \in Statuses THEN stream[1] ELSE status
    BY <1>0, <1>4 DEF PumpEvent
  <2>2. /\ 1 \in DOMAIN stream /\ DOMAIN stream' = 1..(Len(stream) - 1)
        /\ \A i \in DOMAIN stream' : stream'[i] = stream[i + 1]
    BY <1>0, <2>1
  <2>3. CASE {i \in DOMAIN stream : stream[i] \in Statuses} = {}
    <3>1. \A i \in DOMAIN stream' : stream'[i] \notin Statuses
      BY <1>0, <2>2, <2>3
    <3>2. status = state /\ status' = status
      BY <1>4, <2>1, <2>2, <2>3 DEF Reported
    <3> QED
      BY <3>1, <3>2 DEF Reported
  <2>4. CASE {i \in DOMAIN stream : stream[i] \in Statuses} # {}
    <3>1. PICK i \in DOMAIN stream : /\ stream[i] \in Statuses /\ stream[i] = state
                                     /\ \A j \in DOMAIN stream : stream[j] \in Statuses => j <= i
      BY <1>4, <2>4 DEF Reported
    <3>2. CASE i = 1
      <4>1. \A j \in DOMAIN stream' : stream'[j] \notin Statuses
        BY <1>0, <2>2, <3>1, <3>2
      <4> QED
        BY <2>1, <3>1, <3>2, <4>1 DEF Reported
    <3>3. CASE i # 1
      <4>1. PICK k \in DOMAIN stream' : k + 1 = i
        <5>1. i - 1 \in DOMAIN stream' /\ (i - 1) + 1 = i
          BY <1>0, <2>2, <3>3
        <5> QED
          BY <5>1
      <4>2. stream'[k] = state /\ state \in Statuses
        BY <2>2, <3>1, <4>1
      <4>3. \A j \in DOMAIN stream' : stream'[j] \in Statuses => j <= k
        BY <1>0, <2>2, <3>1, <4>1
      <4> QED
        BY <4>2, <4>3 DEF Reported
    <3> QED
      BY <3>2, <3>3
  <2> QED
    BY <2>3, <2>4
<1> QED
  BY <1>1, <1>2, <1>3, <1>4

\* What the session is reported to be follows the driver.
LEMMA StatusStep ==
  ASSUME NoticesAssumption, ClaudeTypes, ExitOK, StatusTrueUnlessCrossed,
         [ClaudeStreamNext]_streamVars
  PROVE  StatusTrueUnlessCrossed'
<1> USE DEF StatusTrueUnlessCrossed, Statuses
<1>0. /\ Notices \subseteq StreamWord /\ Notices \cap Statuses = {} /\ Statuses \subseteq StreamWord
      /\ "error" \in StreamWord \ Statuses
  BY DEF StreamWord, NoticesAssumption
<1>1. ASSUME UNCHANGED <<reader, attached, crossed, swallowed, running>>,
             \/ UNCHANGED <<stream, status>>
             \/ \E e \in StreamWord \ Statuses : Emit(e) /\ status' = status
             \/ PumpEvent
      PROVE  StatusTrueUnlessCrossed'
  <2> SUFFICES ASSUME reader = "read", attached, ~crossed, ~swallowed
               PROVE  Reported(IF running THEN "running" ELSE "idle")'
    BY <1>1
  <2>1. PICK state : state = IF running THEN "running" ELSE "idle"
    OBVIOUS
  <2>2. Reported(state)
    BY <2>1
  <2>3. Reported(state)'
    BY <1>1, <2>2, ReportedFacts
  <2> QED
    BY <1>1, <2>1, <2>3
<1>2. CASE UNCHANGED streamVars
  BY <1>1, <1>2 DEF streamVars, pumpVars
<1>3. CASE \/ CliTurn \/ CliOutput \/ CliResult \/ CliEnds("failed") \/ CliEnds("killed")
           \/ \E n \in Notices : CliNotice(n)
  <2>1. UNCHANGED <<reader, attached, crossed, swallowed, running, stream, status>>
    BY <1>3 DEF CliTurn, CliOutput, CliResult, CliEnds, CliNotice, driverOnly, pumpVars
  <2> QED
    BY <1>1, <2>1
<1>4. CASE Send \/ ReadOutput
  <2>1. /\ UNCHANGED <<attached, reader, status>> /\ MarkRunning
        /\ crossed' = crossed \/ (crossed' = (crossed \/ reader # "read"))
    BY <1>4 DEF Send, ReadOutput, pumpVars, cliVars
  <2>2. running' = TRUE /\ ((running /\ UNCHANGED <<stream, swallowed>>) \/ (~running /\ Emit("running")))
    BY <2>1, MarkFacts
  <2>3. CASE running /\ UNCHANGED <<stream, swallowed>>
    <3> SUFFICES ASSUME reader = "read", attached, ~crossed, ~swallowed PROVE Reported("running")'
      <4>1. swallowed' = swallowed
        BY <2>3
      <4>3. ~crossed' /\ reader = "read" => ~crossed
        BY <2>1, Zenon
      <4>2. reader' = reader /\ attached' = attached /\ running'
        BY <2>1, <2>2, Zenon
      <4> QED
        BY <4>1, <4>2, <4>3, Zenon
    <3>1. Reported("running")
      BY <2>3, Zenon
    <3> QED
      BY <2>1, <2>3, <3>1, ReportedFacts
  <2>4. CASE ~running /\ Emit("running")
    <3>1. ~swallowed' => Reported("running")'
      BY <2>4, ReportedFacts
    <3> QED
      BY <2>2, <3>1, Zenon
  <2> QED
    BY <2>2, <2>3, <2>4
<1>5. CASE ReadNotice \/ TailTranscript
  <2>1. UNCHANGED <<reader, attached, crossed, running, status>>
    BY <1>5 DEF ReadNotice, TailTranscript, pumpVars
  <2>2. PICK n \in Notices : Notify(n)
    BY <1>5 DEF ReadNotice, TailTranscript, ClaudeTypes
  <2>3. swallowed' = swallowed /\ (stream' = stream \/ Emit(n))
    BY <2>2, NotifyFacts
  <2> QED
    BY <1>0, <1>1, <2>1, <2>3
<1>6. CASE ReadResult
  <2>1. reader' # "read"
    BY <1>6 DEF ReadResult
  <2> QED
    BY <2>1
<1>7. CASE ResultError
  <2>1. reader' = "ok"
    BY <1>7 DEF ResultError
  <2> QED
    BY <2>1
<1>8. CASE ResultIdle
  <2>1. Emit("idle") /\ crossed' = running /\ running' = running
    BY <1>8 DEF ResultIdle
  <2>2. ~swallowed' => Reported("idle")'
    BY <2>1, ReportedFacts
  <2> QED
    BY <2>1, <2>2, Zenon
<1>9. CASE WaitExit
  <2>1. attached' = FALSE
    BY <1>9 DEF WaitExit
  <2> QED
    BY <2>1, Zenon
<1>10. CASE CloseStream \/ ReadStderr
  <2>1. UNCHANGED <<reader, attached, crossed, swallowed, running, stream, status>>
    BY <1>10 DEF CloseStream, ReadStderr, pumpVars
  <2> QED
    BY <1>1, <2>1
<1>11. CASE PumpEvent
  <2>1. UNCHANGED <<reader, attached, crossed, swallowed, running>>
    BY <1>11 DEF PumpEvent
  <2> QED
    BY <1>1, <1>11, <2>1
<1>12. CASE StreamEnds
  <2>1. ~streaming /\ attached' = attached
    BY <1>12 DEF StreamEnds
  <2>2. ~attached
    BY <2>1 DEF ExitOK
  <2> QED
    BY <2>1, <2>2, Zenon
<1> QED
  BY <1>2, <1>3, <1>4, <1>5, <1>6, <1>7, <1>8, <1>9, <1>10, <1>11, <1>12 DEF ClaudeStreamNext

LEMMA ClaudeInit == ClaudeStreamInit => ClaudeInv
<1> SUFFICES ASSUME ClaudeStreamInit PROVE ClaudeInv
  OBVIOUS
<1>1. ClaudeTypes
  <2>1. /\ turn \in BOOLEAN /\ attached \in BOOLEAN /\ streaming \in BOOLEAN /\ running \in BOOLEAN
        /\ sawResult \in BOOLEAN /\ stderrTail \in BOOLEAN /\ pumping \in BOOLEAN
        /\ crossed \in BOOLEAN /\ swallowed \in BOOLEAN
    BY Zenon DEF ClaudeStreamInit
  <2> QED
    BY <2>1 DEF ClaudeStreamInit, ClaudeTypes
<1>2. NoticesOK
  BY DEF ClaudeStreamInit, NoticesOK, OnceTold, NeverTold
<1>3. ExitOK
  BY DEF ClaudeStreamInit, ExitOK
<1>4. StatusTrueUnlessCrossed
  BY DEF ClaudeStreamInit, StatusTrueUnlessCrossed, Reported
<1> QED
  BY <1>1, <1>2, <1>3, <1>4 DEF ClaudeInv

LEMMA ClaudeInvariant == ClaudeStreamSpec => []ClaudeInv
<1>1. ClaudeInv /\ [ClaudeStreamNext]_streamVars => ClaudeInv'
  BY NoticesAssumption, ClaudeTypesStep, NoticesStep, ExitStep, StatusStep DEF ClaudeInv
<1> QED
  BY <1>1, ClaudeInit, PTL DEF ClaudeStreamSpec

\* A session of claude is reported running exactly while its driver takes a turn to run
\* (markRunningLocked, the result case of readStdout), but for a Send between the halves
\* of a result line and a status that the channel swallowed.
THEOREM ClaudeStatusTrue == ClaudeStreamSpec => []StatusTrueUnlessCrossed
<1>1. ClaudeInv => StatusTrueUnlessCrossed
  BY DEF ClaudeInv
<1> QED
  BY <1>1, ClaudeInvariant, PTL

\* A notification that comes by two ways is told once (seenNotify), and so is a failure
\* (sawResult, ExitDetail).
THEOREM ClaudeTellsOnce == ClaudeStreamSpec => []ToldOnce
<1>1. ClaudeInv => ToldOnce
  <2> SUFFICES ASSUME ClaudeInv PROVE ToldOnce
    OBVIOUS
  <2>1. ASSUME NEW n \in Notices \ evicted
        PROVE  shown[n] + Cardinality({i \in DOMAIN stream : stream[i] = n}) <= 1
    <3> DEFINE places == {i \in DOMAIN stream : stream[i] = n}
    <3>1. OnceTold(n) /\ shown[n] \in Nat
      BY DEF ClaudeInv, NoticesOK, ClaudeTypes
    <3>2. CASE places = {}
      <4>1. Cardinality(places) = 0
        BY <3>2, FS_EmptySet
      <4> QED
        BY <3>1, <4>1 DEF OnceTold
    <3>3. CASE places # {}
      <4>1. PICK i \in places : TRUE
        BY <3>3
      <4>2. places = {i} /\ shown[n] = 0
        BY <3>1, <4>1 DEF OnceTold
      <4>3. Cardinality(places) = 1
        BY <4>2, FS_Singleton
      <4> QED
        BY <4>2, <4>3
    <3> QED
      BY <3>2, <3>3
  <2>2. "exit" \in errors => errors = {"exit"}
    BY DEF ClaudeInv, ExitOK
  <2> QED
    BY <2>1, <2>2 DEF ToldOnce
<1> QED
  BY <1>1, ClaudeInvariant, PTL
-----------------------------------------------------------------------------
(***************************************************************************)
(* CodexTurns: the turns of codex, as its reports tell of them.            *)
(***************************************************************************)
\* Reports that the protocol that is ahead has made, as the driver has it.
Lead == 2 * lastFinishedTurn + IF turnID = 0 THEN 0 ELSE 1

CodexTypes ==
  /\ speaks \in SUBSET Protocols /\ speaks # {}
  /\ begun \in Nat /\ ended \in Nat /\ ended <= begun /\ begun <= ended + 1 /\ begun <= MaxTurns
  /\ bad \in SUBSET (1..ended) /\ reports \in [Protocols -> Nat]
  /\ inbox \in Seq(Nat) /\ requests \in Nat
  /\ compaction \in {"none", "asked", "refused"} /\ notices \in SUBSET Protocols
  /\ turnActive \in BOOLEAN /\ turnID \in Nat
  /\ lastFinishedTurn \in Nat /\ lastTurnRequest \in Nat
  /\ lastErrorReported \in BOOLEAN /\ lastFinishedErrorReported \in BOOLEAN
  /\ compactIdle \in BOOLEAN /\ reported \in {"running", "idle"} /\ idleCrossed \in BOOLEAN
  /\ cards \in [1..MaxTurns -> Nat]

\* The driver is where the protocol that is ahead is; the other is close behind.
TurnOK ==
  /\ turnID \in {0, lastFinishedTurn + 1}
  /\ Lead <= begun + ended
  /\ \A p \in speaks : reports[p] <= Lead /\ Lead <= reports[p] + 2

\* A turn that is awaited is in the inbox or has begun.
AwaitedOK ==
  /\ inbox # <<>> => inbox[Len(inbox)] = lastTurnRequest
  /\ turnID # 0 => turnActive
  /\ turnActive /\ turnID = 0 => inbox # <<>> \/ Lead < begun + ended

StatusOK ==
  ~idleCrossed =>
    /\ turnActive => reported = "running"
    /\ ~turnActive /\ compaction = "none" /\ notices = {} /\ ~compactIdle => reported = "idle"

\* The protocol that tells a failure for sure.
Teller == IF "turn" \in speaks THEN "turn" ELSE "task"

CardsOK ==
  /\ \A t \in 1..MaxTurns :
       /\ t > lastFinishedTurn + 1 => cards[t] = 0
       /\ t = lastFinishedTurn + 1 => cards[t] = IF lastErrorReported THEN 1 ELSE 0
       /\ t = lastFinishedTurn => cards[t] = IF lastFinishedErrorReported THEN 1 ELSE 0
       /\ t < lastFinishedTurn => cards[t] = IF t \in bad THEN 1 ELSE 0
  /\ lastErrorReported => turnID # 0 /\ turnID \in bad
  /\ lastFinishedErrorReported => lastFinishedTurn \in bad
  /\ lastFinishedTurn \in bad /\ reports[Teller] >= 2 * lastFinishedTurn
       => lastFinishedErrorReported

CodexInv == CodexTypes /\ TurnOK /\ AwaitedOK /\ StatusOK /\ CardsOK

LEMMA Halves ==
  ASSUME NEW n \in Nat
  PROVE  n \div 2 \in Nat /\ (n % 2 = 0 => n = 2 * (n \div 2)) /\ (n % 2 = 1 => n = 2 * (n \div 2) + 1)
OBVIOUS

\* Where the driver is when a protocol reports on turn t.
LEMMA WhereItIs ==
  ASSUME CodexTypes, TurnOK, NEW p \in speaks, NEW t, t = Turn(p)
  PROVE  /\ t \in Nat \ {0} /\ Lead \in Nat
         /\ reports[p] % 2 = 0 =>
              /\ reports[p] = 2 * t - 2
              /\ \/ turnID = 0 /\ lastFinishedTurn = t - 1
                 \/ turnID = t /\ lastFinishedTurn = t - 1
                 \/ turnID = 0 /\ lastFinishedTurn = t
         /\ reports[p] % 2 = 1 =>
              /\ reports[p] = 2 * t - 1
              /\ \/ turnID = t /\ lastFinishedTurn = t - 1
                 \/ turnID = 0 /\ lastFinishedTurn = t
                 \/ turnID = t + 1 /\ lastFinishedTurn = t
<1>0. p \in Protocols /\ reports[p] \in Nat
  BY DEF CodexTypes
<1>1. PICK r \in Nat : r = reports[p]
  BY <1>0
<1>2. PICK h \in Nat : h = r \div 2
  BY Halves
<1>3. t = h + 1 /\ (r % 2 = 0 => r = 2 * h) /\ (r % 2 = 1 => r = 2 * h + 1)
  BY <1>1, <1>2, Halves DEF Turn
<1>4. PICK f \in Nat : f = lastFinishedTurn
  BY DEF CodexTypes
<1>5. /\ turnID = 0 \/ turnID = f + 1
      /\ turnID = 0 => Lead = 2 * f
      /\ turnID # 0 => Lead = 2 * f + 1
      /\ r <= Lead /\ Lead <= r + 2
  BY <1>1, <1>4 DEF TurnOK, Lead
<1>6. Lead \in Nat /\ t \in Nat \ {0}
  BY <1>3, <1>4, <1>5
<1>7. ASSUME r % 2 = 0
      PROVE  /\ r = 2 * t - 2
             /\ \/ turnID = 0 /\ f = t - 1
                \/ turnID = t /\ f = t - 1
                \/ turnID = 0 /\ f = t
  <2>1. CASE turnID = 0
    BY <1>3, <1>5, <1>7, <2>1
  <2>2. CASE turnID = f + 1
    BY <1>3, <1>5, <1>7, <2>2
  <2> QED
    BY <1>5, <2>1, <2>2
<1>8. ASSUME r % 2 = 1
      PROVE  /\ r = 2 * t - 1
             /\ \/ turnID = t /\ f = t - 1
                \/ turnID = 0 /\ f = t
                \/ turnID = t + 1 /\ f = t
  <2>1. CASE turnID = 0
    BY <1>3, <1>5, <1>8, <2>1
  <2>2. CASE turnID = f + 1
    BY <1>3, <1>5, <1>8, <2>2
  <2> QED
    BY <1>5, <2>1, <2>2
<1> QED
  BY <1>1, <1>4, <1>6, <1>7, <1>8

\* Steps that report nothing.
LEMMA QuietTurns ==
  ASSUME CodexTypes, TurnOK, CardsOK, UNCHANGED <<turnID, lastFinishedTurn, reports, speaks>>,
         begun + ended <= begun' + ended', begun' \in Nat, ended' \in Nat
  PROVE  /\ Lead' = Lead /\ TurnOK'
         /\ UNCHANGED errorVars /\ bad \subseteq bad' /\ bad' \subseteq bad \cup {begun} /\ (bad' # bad => begun > ended)
              => CardsOK'
<1>0. begun \in Nat /\ ended \in Nat
  BY DEF CodexTypes
<1>1. Lead' = Lead /\ Lead \in Nat /\ Lead <= begun + ended
  BY DEF Lead, TurnOK, CodexTypes
<1>2. TurnOK'
  <2>1. \A l, b, e, c, d \in Nat : l <= b + e /\ b + e <= c + d => l <= c + d
    OBVIOUS
  <2>2. Lead' <= begun' + ended'
    BY <1>0, <1>1, <2>1
  <2> QED
    BY <1>1, <2>2 DEF TurnOK
<1>3. ASSUME UNCHANGED errorVars, bad \subseteq bad', bad' \subseteq bad \cup {begun}, bad' # bad => begun > ended
      PROVE  CardsOK'
  <2>1. bad' = bad \/ lastFinishedTurn < begun
    <3>1. ASSUME begun > ended PROVE lastFinishedTurn < begun
      <4>1. PICK f \in Nat : f = lastFinishedTurn
        BY DEF CodexTypes
      <4>2. 2 * f <= Lead
        BY <4>1 DEF Lead, CodexTypes
      <4>3. begun \in Nat /\ ended \in Nat /\ begun <= ended + 1
        BY DEF CodexTypes
      <4> QED
        BY <1>1, <3>1, <4>1, <4>2, <4>3
    <3> QED
      BY <1>3, <3>1
  <2>2. \A t \in Nat : t <= lastFinishedTurn => (t \in bad' <=> t \in bad)
    BY <1>3, <2>1 DEF CodexTypes
  <2>3. lastFinishedTurn \in Nat
    BY DEF CodexTypes
  <2>4. \A t \in 1..MaxTurns : t \in Nat
    OBVIOUS
  <2>5. Teller' = Teller
    BY DEF Teller
  <2>6. /\ cards' = cards /\ lastErrorReported' = lastErrorReported
        /\ lastFinishedErrorReported' = lastFinishedErrorReported
    BY <1>3 DEF errorVars
  <2>7. \A t \in 1..MaxTurns : t < lastFinishedTurn => (t \in bad' <=> t \in bad)
    BY <2>2, <2>3, <2>4
  <2>8. lastFinishedTurn \in bad' <=> lastFinishedTurn \in bad
    BY <2>2, <2>3
  <2> QED
    BY <1>3, <2>5, <2>6, <2>7, <2>8 DEF CardsOK
<1> QED
  BY <1>1, <1>2, <1>3

\* Messages of users and what becomes of them.
LEMMA MessageStep ==
  ASSUME CodexInv
  PROVE  /\ SendTurn => CodexInv'
         /\ SendFails => CodexInv'
         /\ Refuse => CodexInv'
<1> USE DEF CodexInv
<1>0. requests \in Nat /\ inbox \in Seq(Nat) /\ lastTurnRequest \in Nat
      /\ begun \in Nat /\ ended \in Nat
  BY DEF CodexTypes
<1>1. ASSUME SendTurn PROVE CodexInv'
  <2>0. UNCHANGED <<turnID, lastFinishedTurn, reports, speaks, begun, ended, bad, compaction,
                    notices, compactIdle, lastFinishedErrorReported, cards>>
    BY <1>1 DEF SendTurn, compactVars
  <2>1. turnActive' = TRUE /\ reported' = "running" /\ idleCrossed' = FALSE
    BY <1>1 DEF SendTurn, Says
  <2>2. lastErrorReported' = lastErrorReported
    <3>1. lastErrorReported => turnActive
      BY DEF CardsOK, AwaitedOK
    <3>2. lastErrorReported' = (lastErrorReported /\ turnActive)
      BY <1>1 DEF SendTurn
    <3>3. lastErrorReported \in BOOLEAN
      BY DEF CodexTypes
    <3> QED
      BY <3>1, <3>2, <3>3, Zenon
  <2>3. /\ inbox' = Append(inbox, requests + 1) /\ lastTurnRequest' = requests + 1
        /\ requests' = requests + 1
    BY <1>1 DEF SendTurn
  <2>4. inbox' \in Seq(Nat) /\ inbox' # <<>> /\ inbox'[Len(inbox')] = lastTurnRequest'
    BY <1>0, <2>3
  <2>5. CodexTypes'
    <3>1. turnActive' \in BOOLEAN /\ idleCrossed' \in BOOLEAN
      BY <2>1, Zenon
    <3> QED
      BY <1>0, <2>0, <2>1, <2>2, <2>3, <2>4, <3>1 DEF CodexTypes
  <2>6. Lead' = Lead /\ TurnOK' /\ CardsOK'
    BY <1>0, <2>0, <2>2, QuietTurns DEF errorVars
  <2>7. AwaitedOK'
    BY <2>0, <2>1, <2>4, <2>6 DEF AwaitedOK
  <2>8. StatusOK'
    BY <2>1 DEF StatusOK
  <2> QED
    BY <2>5, <2>6, <2>7, <2>8
<1>2. ASSUME SendFails PROVE CodexInv'
  <2>0. UNCHANGED <<turnID, lastFinishedTurn, turnActive, reports, speaks, begun, ended, bad,
                    inbox, lastTurnRequest,
                    compaction, notices, compactIdle, lastFinishedErrorReported, cards>>
    BY <1>2 DEF SendFails, compactVars, serverVars, turnVars
  <2>1. reported' = (IF turnActive THEN "running" ELSE "idle") /\ idleCrossed' = FALSE
    BY <1>2 DEF SendFails, Says
  <2>2. lastErrorReported' = lastErrorReported
    <3>1. lastErrorReported => turnActive
      BY DEF CardsOK, AwaitedOK
    <3>2. lastErrorReported' = (lastErrorReported /\ turnActive)
      BY <1>2 DEF SendFails
    <3>3. lastErrorReported \in BOOLEAN
      BY DEF CodexTypes
    <3> QED
      BY <3>1, <3>2, <3>3, Zenon
  <2>3. requests' \in Nat
    BY <1>0, <1>2 DEF SendFails
  <2>5. CodexTypes'
    <3>1. idleCrossed' \in BOOLEAN
      BY <2>1, Zenon
    <3> QED
      BY <2>0, <2>1, <2>2, <2>3, <3>1 DEF CodexTypes
  <2>6. Lead' = Lead /\ TurnOK' /\ CardsOK'
    BY <1>0, <2>0, <2>2, QuietTurns DEF errorVars
  <2>7. AwaitedOK'
    BY <2>0, <2>6 DEF AwaitedOK
  <2>8. StatusOK'
    BY <2>0, <2>1 DEF StatusOK
  <2> QED
    BY <2>5, <2>6, <2>7, <2>8
<1>3. ASSUME Refuse PROVE CodexInv'
  <2>0. UNCHANGED <<turnID, lastFinishedTurn, reports, speaks, begun, ended, bad, requests,
                    lastTurnRequest, compaction, notices, compactIdle, errorVars>>
    BY <1>3 DEF Refuse, compactVars
  <2>1. inbox # <<>> /\ inbox' = Tail(inbox) /\ ~compactIdle
    BY <1>3, Zenon DEF Refuse, Free
  <2>2. \/ RefusalEnds(Head(inbox)) /\ turnActive' = FALSE /\ reported' = "idle" /\ idleCrossed' = FALSE
        \/ ~RefusalEnds(Head(inbox)) /\ UNCHANGED <<turnActive, reported, idleCrossed>>
    BY <1>3 DEF Refuse, Says, SaysNothing
  <2>3. inbox' \in Seq(Nat) /\ Head(inbox) = inbox[1]
        /\ (inbox' # <<>> => inbox'[Len(inbox')] = lastTurnRequest)
        /\ (inbox' = <<>> => inbox[1] = lastTurnRequest)
    <3>1. /\ Len(inbox') = Len(inbox) - 1 /\ Len(inbox) \in Nat \ {0}
          /\ \A i \in 1..Len(inbox') : inbox'[i] = inbox[i + 1]
          /\ inbox' \in Seq(Nat) /\ Head(inbox) = inbox[1]
      BY <1>0, <2>1
    <3>2. inbox[Len(inbox)] = lastTurnRequest
      BY <2>1 DEF AwaitedOK
    <3>3. inbox' # <<>> => Len(inbox') \in 1..Len(inbox') /\ Len(inbox') + 1 = Len(inbox)
      BY <3>1
    <3>4. inbox' = <<>> => Len(inbox) = 1
      BY <3>1
    <3> QED
      BY <3>1, <3>2, <3>3, <3>4
  <2>4. turnActive' \in BOOLEAN /\ idleCrossed' \in BOOLEAN
    <3>1. turnActive \in BOOLEAN /\ idleCrossed \in BOOLEAN
      BY DEF CodexTypes
    <3>2. \/ turnActive' = FALSE /\ idleCrossed' = FALSE
          \/ turnActive' = turnActive /\ idleCrossed' = idleCrossed
      BY <2>2
    <3> QED
      BY <3>1, <3>2, Zenon
  <2>5. CodexTypes'
    BY <2>0, <2>2, <2>3, <2>4 DEF CodexTypes, errorVars
  <2>6. Lead' = Lead /\ TurnOK' /\ CardsOK'
    BY <1>0, <2>0, QuietTurns
  <2>7. AwaitedOK'
    <3>1. CASE RefusalEnds(Head(inbox))
      BY <2>0, <2>2, <2>3, <3>1 DEF AwaitedOK, RefusalEnds
    <3>2. CASE ~RefusalEnds(Head(inbox))
      <4>1. turnActive' = turnActive
        BY <2>2, <3>2
      <4>2. turnID = 0 => inbox' # <<>>
        BY <2>3, <3>2 DEF RefusalEnds
      <4> QED
        BY <2>0, <2>3, <4>1, <4>2 DEF AwaitedOK
    <3> QED
      BY <3>1, <3>2
  <2>8. StatusOK'
    BY <2>0, <2>2 DEF StatusOK
  <2> QED
    BY <2>5, <2>6, <2>7, <2>8
<1> QED
  BY <1>1, <1>2, <1>3

\* Turns of the server, and compactions.
LEMMA ServerStep ==
  ASSUME CodexInv
  PROVE  /\ Take => CodexInv'
         /\ \A failed \in BOOLEAN : EndTurn(failed) => CodexInv'
         /\ SendCompact => CodexInv'
         /\ CompactGivesUp => CodexInv'
         /\ AnswerCompact => CodexInv'
         /\ \A p \in Protocols : Compacted(p) => CodexInv'
         /\ EmitCompactIdle => CodexInv'
<1> USE DEF CodexInv
<1>0. requests \in Nat /\ inbox \in Seq(Nat) /\ lastTurnRequest \in Nat
      /\ begun \in Nat /\ ended \in Nat
  BY DEF CodexTypes
<1>a. ASSUME UNCHANGED <<turnID, lastFinishedTurn, turnActive, reports, speaks, begun, ended, bad,
                         inbox, lastTurnRequest, errorVars>>
      PROVE  TurnOK' /\ CardsOK' /\ AwaitedOK'
  <2>1. Lead' = Lead /\ TurnOK' /\ CardsOK'
    BY <1>0, <1>a, QuietTurns
  <2> QED
    BY <1>a, <2>1 DEF AwaitedOK
<1>1. ASSUME Take PROVE CodexInv'
  <2>0. /\ UNCHANGED <<turnID, lastFinishedTurn, turnActive, reports, speaks, ended, bad, requests,
                       lastTurnRequest, compaction, notices, compactIdle, errorVars, reported, idleCrossed>>
        /\ inbox # <<>> /\ inbox' = Tail(inbox)
        /\ \/ begun = ended /\ begun < MaxTurns /\ begun' = begun + 1
           \/ begun # ended /\ begun' = begun
    BY <1>1 DEF Take, compactVars, turnVars
  <2>1. inbox' \in Seq(Nat) /\ (inbox' # <<>> => inbox'[Len(inbox')] = lastTurnRequest)
    <3>1. /\ Len(inbox') = Len(inbox) - 1 /\ Len(inbox) \in Nat \ {0}
          /\ \A i \in 1..Len(inbox') : inbox'[i] = inbox[i + 1]
          /\ inbox' \in Seq(Nat)
      BY <1>0, <2>0
    <3>2. inbox[Len(inbox)] = lastTurnRequest
      BY <2>0 DEF AwaitedOK
    <3>3. inbox' # <<>> => Len(inbox') \in 1..Len(inbox') /\ Len(inbox') + 1 = Len(inbox)
      BY <3>1
    <3> QED
      BY <3>1, <3>2, <3>3
  <2>2. /\ begun' \in Nat /\ ended <= begun' /\ begun' <= ended + 1 /\ begun' <= MaxTurns
        /\ begun + ended <= begun' + ended'
    BY <1>0, <2>0, CodexAssumption DEF CodexTypes, CodexAssumption
  <2>3. CodexTypes'
    BY <2>0, <2>1, <2>2 DEF CodexTypes, errorVars
  <2>4. Lead' = Lead /\ TurnOK' /\ CardsOK'
    BY <1>0, <2>0, <2>2, QuietTurns
  <2>5. turnID = 0 => Lead < begun' + ended
    <3>1. ASSUME turnID = 0 PROVE Lead < begun' + ended
      <4>1. PICK f \in Nat : f = lastFinishedTurn
        BY DEF CodexTypes
      <4>2. Lead = 2 * f /\ Lead <= begun + ended
        BY <3>1, <4>1 DEF Lead, TurnOK
      <4>3. begun' = ended + 1
        BY <1>0, <2>0 DEF CodexTypes
      <4>4. begun <= ended + 1
        BY DEF CodexTypes
      <4> QED
        BY <1>0, <4>1, <4>2, <4>3, <4>4
    <3> QED
      BY <3>1
  <2>6. AwaitedOK'
    BY <2>0, <2>1, <2>4, <2>5 DEF AwaitedOK
  <2>7. StatusOK'
    BY <2>0 DEF StatusOK
  <2> QED
    BY <2>3, <2>4, <2>6, <2>7
<1>2. ASSUME NEW failed \in BOOLEAN, EndTurn(failed) PROVE CodexInv'
  <2>0. /\ UNCHANGED <<turnID, lastFinishedTurn, turnActive, reports, speaks, begun, inbox, requests,
                       lastTurnRequest, compaction, notices, compactIdle, errorVars, reported, idleCrossed>>
        /\ begun > ended /\ ended' = begun
        /\ bad' = bad \/ bad' = bad \cup {begun}
    BY <1>2 DEF EndTurn, compactVars, turnVars
  <2>1. begun = ended + 1 /\ ended' = ended + 1
    <3>1. begun <= ended + 1
      BY DEF CodexTypes
    <3> QED
      BY <1>0, <2>0, <3>1
  <2>2. bad' \in SUBSET (1..ended')
    <3>1. bad \subseteq 1..ended
      BY DEF CodexTypes
    <3>2. 1..ended \subseteq 1..(ended + 1) /\ ended + 1 \in 1..(ended + 1)
      BY <1>0
    <3> QED
      BY <2>0, <2>1, <3>1, <3>2
  <2>3. CodexTypes'
    BY <1>0, <2>0, <2>1, <2>2 DEF CodexTypes, errorVars
  <2>4. begun + ended <= begun' + ended' /\ begun' \in Nat /\ ended' \in Nat
    BY <1>0, <2>0, <2>1
  <2>5. Lead' = Lead /\ TurnOK' /\ CardsOK'
    BY <2>0, <2>4, QuietTurns
  <2>6. AwaitedOK'
    <3>1. Lead \in Nat
      BY DEF Lead, CodexTypes
    <3>2. Lead < begun + ended => Lead < begun' + ended'
      BY <1>0, <2>0, <2>1, <3>1
    <3> QED
      BY <2>0, <2>5, <3>2 DEF AwaitedOK
  <2>7. StatusOK'
    BY <2>0 DEF StatusOK
  <2> QED
    BY <2>3, <2>5, <2>6, <2>7
<1>3. ASSUME SendCompact PROVE CodexInv'
  <2>0. /\ UNCHANGED <<turnID, lastFinishedTurn, turnActive, reports, speaks, begun, ended, bad, inbox,
                       lastTurnRequest, notices, compactIdle, errorVars>>
        /\ requests' = requests + 1 /\ compaction' = "asked"
        /\ reported' = "running" /\ idleCrossed' = FALSE
    BY <1>3 DEF SendCompact, Says, serverVars, turnVars
  <2>1. idleCrossed' \in BOOLEAN
    BY <2>0, Zenon
  <2>2. CodexTypes'
    BY <1>0, <2>0, <2>1 DEF CodexTypes, errorVars
  <2>3. StatusOK'
    BY <2>0 DEF StatusOK
  <2> QED
    BY <1>a, <2>0, <2>2, <2>3
<1>4. ASSUME CompactGivesUp PROVE CodexInv'
  <2>0. /\ UNCHANGED <<turnID, lastFinishedTurn, turnActive, reports, speaks, begun, ended, bad, inbox,
                       lastTurnRequest, requests, notices, compactIdle, errorVars>>
        /\ compaction' = "none" /\ reported' = "idle"
    BY <1>4 DEF CompactGivesUp, SaysIdleUnlocked, serverVars, turnVars
  <2>1. idleCrossed' = (turnActive \/ turnID # 0)
    BY <1>4 DEF CompactGivesUp, SaysIdleUnlocked
  <2>2. idleCrossed' \in BOOLEAN /\ (~idleCrossed' => ~turnActive)
    BY <2>1, Zenon
  <2>3. CodexTypes'
    BY <2>0, <2>2 DEF CodexTypes, errorVars
  <2>4. StatusOK'
    BY <2>0, <2>2 DEF StatusOK
  <2> QED
    BY <1>a, <2>0, <2>3, <2>4
<1>5. ASSUME AnswerCompact PROVE CodexInv'
  <2>0. /\ UNCHANGED <<turnID, lastFinishedTurn, turnActive, reports, speaks, begun, ended, bad, inbox,
                       lastTurnRequest, requests, compactIdle, errorVars, reported, idleCrossed>>
        /\ compaction = "asked"
        /\ \/ compaction' = "refused" /\ notices' = notices
           \/ compaction' = "none" /\ notices' = speaks
    BY <1>5 DEF AnswerCompact, serverVars, turnVars
  <2>1. speaks # {}
    BY DEF CodexTypes
  <2>3. CodexTypes'
    BY <2>0 DEF CodexTypes, errorVars
  <2>4. StatusOK'
    BY <2>0, <2>1 DEF StatusOK
  <2> QED
    BY <1>a, <2>0, <2>3, <2>4
<1>6. ASSUME NEW p \in Protocols, Compacted(p) PROVE CodexInv'
  <2>0. /\ UNCHANGED <<turnID, lastFinishedTurn, turnActive, reports, speaks, begun, ended, bad, inbox,
                       lastTurnRequest, requests, compaction, errorVars, reported, idleCrossed>>
        /\ notices' \subseteq notices
    BY <1>6 DEF Compacted, serverVars, turnVars
  <2>1. compactIdle' = (turnID = 0 /\ ~turnActive)
    BY <1>6 DEF Compacted, NoTurn
  <2>2. turnActive \in BOOLEAN /\ (turnID # 0 => turnActive)
    BY DEF CodexTypes, AwaitedOK
  <2>3. compactIdle' \in BOOLEAN /\ (~turnActive => compactIdle')
    BY <2>1, <2>2, Zenon
  <2>4. CodexTypes'
    BY <2>0, <2>3 DEF CodexTypes, errorVars
  <2>5. StatusOK'
    BY <2>0, <2>3 DEF StatusOK
  <2> QED
    BY <1>a, <2>0, <2>4, <2>5
<1>7. ASSUME EmitCompactIdle PROVE CodexInv'
  <2>0. /\ UNCHANGED <<turnID, lastFinishedTurn, turnActive, reports, speaks, begun, ended, bad, inbox,
                       lastTurnRequest, requests, compaction, notices, errorVars>>
        /\ compactIdle' = FALSE /\ reported' = "idle"
    BY <1>7 DEF EmitCompactIdle, SaysIdleUnlocked, serverVars, turnVars
  <2>1. idleCrossed' = (turnActive \/ turnID # 0)
    BY <1>7 DEF EmitCompactIdle, SaysIdleUnlocked
  <2>2. idleCrossed' \in BOOLEAN /\ compactIdle' \in BOOLEAN /\ (~idleCrossed' => ~turnActive)
    BY <2>0, <2>1, Zenon
  <2>3. CodexTypes'
    BY <2>0, <2>2 DEF CodexTypes, errorVars
  <2>4. StatusOK'
    BY <2>0, <2>2 DEF StatusOK
  <2> QED
    BY <1>a, <2>0, <2>3, <2>4
<1> QED
  BY <1>1, <1>2, <1>3, <1>4, <1>5, <1>6, <1>7

LEMMA TellerSpeaks ==
  ASSUME CodexTypes PROVE Teller \in speaks /\ Teller \in Protocols
BY DEF CodexTypes, Teller, Protocols

\* What a report leaves alone, and what it does to the distance of the protocols.
LEMMA ReportMade ==
  ASSUME CodexTypes, TurnOK, NEW p \in Protocols, Reports(p)
  PROVE  /\ p \in speaks /\ compactIdle = FALSE
         /\ UNCHANGED <<speaks, begun, ended, bad, inbox, compaction, notices, compactIdle, requests,
                        lastTurnRequest>>
         /\ reports' \in [Protocols -> Nat] /\ reports'[p] = reports[p] + 1
         /\ \A q \in Protocols : q # p => reports'[q] = reports[q]
         /\ \A q \in speaks : reports'[p] <= reports[q] + 2
<1>1. reports \in [Protocols -> Nat] /\ speaks \subseteq Protocols /\ compactIdle \in BOOLEAN
  BY DEF CodexTypes
<1>2. p \in speaks /\ ~compactIdle /\ reports' = [reports EXCEPT ![p] = @ + 1]
      /\ \A q \in speaks : reports'[p] <= reports[q] + MaxLag
  BY DEF Reports, Free
<1>3. UNCHANGED <<speaks, begun, ended, bad, inbox, compaction, notices, compactIdle, requests,
                  lastTurnRequest>>
  BY DEF Reports, serverVars, compactVars
<1>4. /\ reports' \in [Protocols -> Nat] /\ reports'[p] = reports[p] + 1
      /\ \A q \in Protocols : q # p => reports'[q] = reports[q]
  BY <1>1, <1>2
<1>5. \A q \in speaks : reports'[p] <= reports[q] + 2
  <2>1. \A m, n \in Nat : m <= n + MaxLag => m <= n + 2
    BY CodexAssumption DEF CodexAssumption
  <2> QED
    BY <1>1, <1>2, <1>4, <2>1
<1> QED
  BY <1>1, <1>2, <1>3, <1>4, <1>5, Zenon

LEMMA ReportTurns ==
  ASSUME CodexTypes, TurnOK, NEW p \in Protocols, Reports(p),
         NEW l \in Nat, l = Lead, NEW m \in Nat, m = Lead',
         \/ m = l /\ reports[p] + 1 <= l
         \/ m = reports[p] + 1 /\ l <= m
  PROVE  \A q \in speaks : reports'[q] <= Lead' /\ Lead' <= reports'[q] + 2
<1> SUFFICES ASSUME NEW q \in speaks PROVE reports'[q] <= m /\ m <= reports'[q] + 2
  OBVIOUS
<1>1. q \in Protocols /\ reports[q] \in Nat /\ reports[p] \in Nat
  BY DEF CodexTypes
<1>2. reports[q] <= l /\ l <= reports[q] + 2
  BY DEF TurnOK
<1>3. reports'[p] = reports[p] + 1 /\ (q # p => reports'[q] = reports[q]) /\ reports'[p] <= reports[q] + 2
  BY <1>1, ReportMade
<1> QED
  BY <1>1, <1>2, <1>3

\* An error of the turn that ended last.
LEMMA LateErrorCards ==
  ASSUME CodexTypes, CardsOK, NEW failed \in BOOLEAN, LateError(failed),
         failed => lastFinishedTurn \in bad,
         UNCHANGED <<speaks, bad, turnID, lastFinishedTurn, lastErrorReported>>,
         \/ failed \/ lastFinishedTurn \notin bad
         \/ reports'[Teller] = reports[Teller] \/ ~(reports'[Teller] >= 2 * lastFinishedTurn)
  PROVE  CardsOK' /\ cards' \in [1..MaxTurns -> Nat] /\ lastFinishedErrorReported' \in BOOLEAN
<1>1. /\ lastFinishedTurn \in Nat /\ cards \in [1..MaxTurns -> Nat]
      /\ lastFinishedErrorReported \in BOOLEAN /\ lastErrorReported \in BOOLEAN
      /\ \A t \in 1..MaxTurns : t \in Nat
  BY DEF CodexTypes
<1>2. Teller' = Teller
  BY DEF Teller
<1>3. CASE failed /\ ~lastFinishedErrorReported
  <2>1. cards' = [cards EXCEPT ![lastFinishedTurn] = @ + 1] /\ lastFinishedErrorReported' = TRUE
    BY <1>3 DEF LateError, ErrorCard
  <2>2. lastFinishedTurn \in 1..MaxTurns
    BY <1>1, <1>3, CodexAssumption DEF CodexTypes, CodexAssumption
  <2>3. cards[lastFinishedTurn] = 0
    BY <1>1, <1>3, <2>2 DEF CardsOK
  <2>4. /\ cards' \in [1..MaxTurns -> Nat] /\ cards'[lastFinishedTurn] = 1
        /\ \A t \in 1..MaxTurns : t # lastFinishedTurn => cards'[t] = cards[t]
    BY <1>1, <2>1, <2>2, <2>3
  <2>5. \A t \in 1..MaxTurns :
          /\ t > lastFinishedTurn + 1 => cards'[t] = 0
          /\ t = lastFinishedTurn + 1 => cards'[t] = IF lastErrorReported THEN 1 ELSE 0
          /\ t = lastFinishedTurn => cards'[t] = 1
          /\ t < lastFinishedTurn => cards'[t] = IF t \in bad THEN 1 ELSE 0
    BY <1>1, <2>4 DEF CardsOK
  <2>6. lastErrorReported => turnID # 0 /\ turnID \in bad
    BY DEF CardsOK
  <2>7. lastFinishedErrorReported' \in BOOLEAN
    BY <2>1, Zenon
  <2> QED
    BY <1>3, <2>1, <2>4, <2>5, <2>6, <2>7 DEF CardsOK
<1>4. CASE ~(failed /\ ~lastFinishedErrorReported)
  <2>1. cards' = cards /\ lastFinishedErrorReported' = lastFinishedErrorReported
    BY <1>4 DEF LateError
  <2>2. failed => lastFinishedErrorReported
    BY <1>4
  <2>3. lastFinishedTurn \in bad /\ reports'[Teller] >= 2 * lastFinishedTurn => lastFinishedErrorReported
    BY <2>2 DEF CardsOK
  <2> QED
    BY <1>1, <1>2, <2>1, <2>3 DEF CardsOK
<1> QED
  BY <1>3, <1>4

\* A turn is reported to begin.
LEMMA StartedStep ==
  ASSUME CodexInv, NEW p \in Protocols, Started(p)
  PROVE  CodexInv'
<1> USE DEF CodexInv
<1>0. /\ reports[p] % 2 = 0 /\ Reports(p) /\ p \in speaks
      /\ UNCHANGED errorVars
  BY DEF Started, Reports
<1>1. /\ compactIdle = FALSE
      /\ UNCHANGED <<speaks, begun, ended, bad, inbox, compaction, notices, compactIdle, requests,
                     lastTurnRequest>>
      /\ reports' \in [Protocols -> Nat] /\ reports'[p] = reports[p] + 1
      /\ \A q \in Protocols : q # p => reports'[q] = reports[q]
  BY <1>0, ReportMade
<1>2. PICK t \in Nat \ {0} : t = Turn(p)
  BY <1>0, WhereItIs
<1>3. /\ reports[p] = 2 * t - 2
      /\ \/ turnID = 0 /\ lastFinishedTurn = t - 1
         \/ turnID = t /\ lastFinishedTurn = t - 1
         \/ turnID = 0 /\ lastFinishedTurn = t
  BY <1>0, <1>2, WhereItIs
<1>4. t <= begun /\ (IF t = lastFinishedTurn THEN UNCHANGED turnVars /\ SaysNothing
                     ELSE /\ turnID' = t /\ turnActive' = TRUE /\ Says("running")
                          /\ UNCHANGED lastFinishedTurn)
  BY <1>2 DEF Started, IsStale
<1>5. Teller \in speaks /\ Teller \in Protocols /\ Teller' = Teller
  BY <1>1, TellerSpeaks DEF Teller
<1>6. /\ cards' = cards /\ lastErrorReported' = lastErrorReported
      /\ lastFinishedErrorReported' = lastFinishedErrorReported
  BY <1>0 DEF errorVars
<1>7. begun \in Nat /\ ended \in Nat /\ begun <= ended + 1
  BY DEF CodexTypes
<1>8. CASE lastFinishedTurn = t
  <2>1. turnID = 0
    BY <1>3, <1>8
  <2>2. UNCHANGED <<turnID, turnActive, lastFinishedTurn, reported, idleCrossed>>
    BY <1>4, <1>8 DEF turnVars, SaysNothing
  <2>3. Lead = 2 * t /\ Lead' = 2 * t
    BY <1>8, <2>1, <2>2 DEF Lead
  <2>4. CodexTypes'
    BY <1>1, <1>6, <2>2 DEF CodexTypes
  <2>5. \A q \in speaks : reports'[q] <= Lead' /\ Lead' <= reports'[q] + 2
    BY <1>0, <1>3, <2>3, ReportTurns
  <2>6. TurnOK'
    BY <1>1, <2>2, <2>3, <2>5 DEF TurnOK
  <2>7. AwaitedOK'
    BY <1>1, <2>2, <2>3 DEF AwaitedOK
  <2>8. StatusOK'
    BY <1>1, <2>2 DEF StatusOK
  <2>9. reports'[Teller] = reports[Teller] \/ ~(reports'[Teller] >= 2 * lastFinishedTurn)
    BY <1>1, <1>3, <1>5, <1>8
  <2>10. CardsOK'
    <3>1. lastFinishedTurn \in bad /\ reports'[Teller] >= 2 * lastFinishedTurn => lastFinishedErrorReported
      BY <2>9 DEF CardsOK
    <3> QED
      BY <1>1, <1>5, <1>6, <2>2, <3>1 DEF CardsOK
  <2> QED
    BY <2>4, <2>6, <2>7, <2>8, <2>10
<1>9. CASE lastFinishedTurn = t - 1
  <2>1. turnID = 0 \/ turnID = t
    BY <1>3, <1>9
  <2>2. /\ turnID' = t /\ turnActive' = TRUE /\ reported' = "running" /\ idleCrossed' = FALSE
        /\ lastFinishedTurn' = lastFinishedTurn
    BY <1>4, <1>9 DEF Says
  <2>3. Lead' = 2 * t - 1 /\ (Lead = 2 * t - 2 \/ Lead = 2 * t - 1)
    BY <1>9, <2>1, <2>2 DEF Lead
  <2>4. CodexTypes'
    <3>1. turnActive' \in BOOLEAN /\ idleCrossed' \in BOOLEAN
      BY <2>2, Zenon
    <3> QED
      BY <1>1, <1>6, <2>2, <3>1 DEF CodexTypes
  <2>5. \A q \in speaks : reports'[q] <= Lead' /\ Lead' <= reports'[q] + 2
    <3>1. 2 * t - 1 \in Nat /\ 2 * t - 2 \in Nat /\ reports[p] + 1 = 2 * t - 1
      BY <1>3
    <3>2. Lead \in Nat /\ Lead' \in Nat /\ Lead' = reports[p] + 1 /\ Lead <= Lead'
      BY <2>3, <3>1
    <3> QED
      BY <1>0, <3>2, ReportTurns
  <2>6. TurnOK'
    <3>1. 2 * t - 1 <= begun + ended
      BY <1>4, <1>7
    <3> QED
      BY <1>1, <1>9, <2>2, <2>3, <2>5, <3>1 DEF TurnOK
  <2>7. AwaitedOK'
    BY <1>1, <2>2 DEF AwaitedOK
  <2>8. StatusOK'
    BY <2>2 DEF StatusOK
  <2>9. reports'[Teller] >= 2 * lastFinishedTurn => reports[Teller] >= 2 * lastFinishedTurn
    BY <1>1, <1>3, <1>5, <1>9
  <2>10. CardsOK'
    <3>1. lastFinishedTurn \in bad /\ reports'[Teller] >= 2 * lastFinishedTurn => lastFinishedErrorReported
      BY <2>9 DEF CardsOK
    <3>2. lastErrorReported => turnID' # 0 /\ turnID' \in bad
      BY <2>1, <2>2 DEF CardsOK
    <3> QED
      BY <1>1, <1>5, <1>6, <2>2, <3>1, <3>2 DEF CardsOK
  <2> QED
    BY <2>4, <2>6, <2>7, <2>8, <2>10
<1> QED
  BY <1>3, <1>8, <1>9

\* A turn is reported to end: it ended before, or this is the first to say so.
LEMMA EndedStep ==
  ASSUME CodexInv, NEW p \in Protocols, Ended(p)
  PROVE  CodexInv'
<1> USE DEF CodexInv
<1>0. reports[p] % 2 = 1 /\ Reports(p) /\ p \in speaks
  BY DEF Ended, Reports
<1>1. /\ compactIdle = FALSE
      /\ UNCHANGED <<speaks, begun, ended, bad, inbox, compaction, notices, compactIdle, requests,
                     lastTurnRequest>>
      /\ reports' \in [Protocols -> Nat] /\ reports'[p] = reports[p] + 1
      /\ \A q \in Protocols : q # p => reports'[q] = reports[q]
      /\ \A q \in speaks : reports'[p] <= reports[q] + 2
  BY <1>0, ReportMade
<1>2. PICK t \in Nat \ {0} : t = Turn(p)
  BY <1>0, WhereItIs
<1>3. /\ reports[p] = 2 * t - 1
      /\ \/ turnID = t /\ lastFinishedTurn = t - 1
         \/ turnID = 0 /\ lastFinishedTurn = t
         \/ turnID = t + 1 /\ lastFinishedTurn = t
  BY <1>0, <1>2, WhereItIs
<1>4. PICK failed \in BOOLEAN :
        /\ failed => t \in bad
        /\ ~failed /\ t \in bad => p = "task" /\ "turn" \in speaks
        /\ Finish(t, failed)
  BY <1>2 DEF Ended
<1>5. Teller \in speaks /\ Teller \in Protocols /\ Teller' = Teller
      /\ (~failed /\ t \in bad => p # Teller)
  BY <1>1, <1>4, TellerSpeaks DEF Teller
<1>6. begun \in Nat /\ ended \in Nat /\ ended <= begun /\ t <= ended
  BY <1>2 DEF CodexTypes, Ended
<1>7. lastFinishedTurn \in Nat /\ \A q \in Protocols : reports[q] \in Nat
  BY DEF CodexTypes
<1>8. CASE lastFinishedTurn = t
  <2>1. /\ LateError(failed)
        /\ UNCHANGED <<turnID, turnActive, lastFinishedTurn, reported, idleCrossed, lastErrorReported>>
    BY <1>4, <1>8 DEF Finish, SaysNothing, turnVars
  <2>2. Lead' = Lead /\ Lead \in Nat /\ reports[p] + 1 <= Lead
    <3>1. turnID = 0 \/ turnID = t + 1
      BY <1>3, <1>8
    <3>2. Lead = 2 * t \/ Lead = 2 * t + 1
      BY <1>8, <3>1 DEF Lead
    <3>3. Lead' = Lead
      BY <2>1 DEF Lead
    <3> QED
      BY <1>3, <3>2, <3>3
  <2>3. \A q \in speaks : reports'[q] <= Lead' /\ Lead' <= reports'[q] + 2
    BY <1>0, <2>2, ReportTurns
  <2>4. \/ failed \/ lastFinishedTurn \notin bad
        \/ reports'[Teller] = reports[Teller] \/ ~(reports'[Teller] >= 2 * lastFinishedTurn)
    BY <1>1, <1>5, <1>8
  <2>5. CardsOK' /\ cards' \in [1..MaxTurns -> Nat] /\ lastFinishedErrorReported' \in BOOLEAN
    BY <1>1, <1>4, <1>8, <2>1, <2>4, LateErrorCards
  <2>6. CodexTypes'
    BY <1>1, <2>1, <2>5 DEF CodexTypes
  <2>7. TurnOK'
    BY <1>1, <2>1, <2>2, <2>3 DEF TurnOK
  <2>8. AwaitedOK'
    BY <1>1, <2>1, <2>2 DEF AwaitedOK
  <2>9. StatusOK'
    BY <1>1, <2>1 DEF StatusOK
  <2> QED
    BY <2>5, <2>6, <2>7, <2>8, <2>9
<1>9. CASE lastFinishedTurn = t - 1
  <2>1. turnID = t
    BY <1>3, <1>9
  <2>2. /\ lastFinishedTurn' = t /\ turnID' = 0 /\ turnActive' = FALSE
        /\ IF failed /\ ~lastErrorReported THEN ErrorCard(t) ELSE UNCHANGED cards
        /\ lastErrorReported' = FALSE
        /\ reported' = "idle" /\ idleCrossed' = FALSE
    BY <1>4, <1>9, <2>1 DEF Finish, Says
  <2>3. lastFinishedErrorReported' = (lastErrorReported \/ failed)
    BY <1>4, <1>9, <2>1 DEF Finish
  <2>4. Lead = 2 * t - 1 /\ Lead' = 2 * t
    BY <1>9, <2>1, <2>2 DEF Lead
  <2>5. \A q \in speaks : reports'[q] <= Lead' /\ Lead' <= reports'[q] + 2
    <3>1. Lead \in Nat /\ Lead' \in Nat /\ Lead' = reports[p] + 1 /\ Lead <= Lead'
      BY <1>3, <2>4
    <3> QED
      BY <1>0, <3>1, ReportTurns
  <2>6. TurnOK'
    BY <1>1, <1>6, <2>2, <2>4, <2>5 DEF TurnOK
  <2>7. AwaitedOK'
    BY <1>1, <2>2 DEF AwaitedOK
  <2>8. StatusOK'
    BY <2>2 DEF StatusOK
  <2>9. t \in 1..MaxTurns /\ cards \in [1..MaxTurns -> Nat]
    BY <1>6, CodexAssumption DEF CodexTypes, CodexAssumption
  <2>10. cards[t] = IF lastErrorReported THEN 1 ELSE 0
    BY <1>9, <2>9 DEF CardsOK
  <2>11. /\ cards' \in [1..MaxTurns -> Nat] /\ cards'[t] = IF lastErrorReported \/ failed THEN 1 ELSE 0
         /\ \A u \in 1..MaxTurns : u # t => cards'[u] = cards[u]
    <3>1. CASE failed /\ ~lastErrorReported
      BY <2>2, <2>9, <2>10, <3>1 DEF ErrorCard
    <3>2. CASE ~(failed /\ ~lastErrorReported)
      BY <2>2, <2>9, <2>10, <3>2
    <3> QED
      BY <3>1, <3>2
  <2>12. lastErrorReported \in BOOLEAN /\ lastFinishedErrorReported \in BOOLEAN
    BY DEF CodexTypes
  <2>13. lastFinishedErrorReported' \in BOOLEAN /\ (lastFinishedErrorReported' <=> lastErrorReported \/ failed)
    BY <2>3, <2>12, Zenon
  <2>14. CodexTypes'
    <3>1. turnActive' \in BOOLEAN /\ idleCrossed' \in BOOLEAN /\ lastErrorReported' \in BOOLEAN
      BY <2>2, Zenon
    <3> QED
      BY <1>1, <2>2, <2>11, <2>13, <3>1 DEF CodexTypes
  <2>15. lastFinishedErrorReported <=> lastFinishedTurn \in bad
    <3>1. reports[Teller] >= 2 * lastFinishedTurn
      BY <1>1, <1>3, <1>5, <1>7, <1>9
    <3> QED
      BY <3>1 DEF CardsOK
  <2>16. \A u \in 1..MaxTurns :
           /\ u > t + 1 => cards'[u] = 0
           /\ u = t + 1 => cards'[u] = 0
           /\ u < t => cards'[u] = IF u \in bad THEN 1 ELSE 0
    <3> SUFFICES ASSUME NEW u \in 1..MaxTurns
                 PROVE  /\ u > t + 1 => cards'[u] = 0
                        /\ u = t + 1 => cards'[u] = 0
                        /\ u < t => cards'[u] = IF u \in bad THEN 1 ELSE 0
      OBVIOUS
    <3>1. u > t \/ u = t - 1 \/ u < t - 1 \/ u = t
      BY <2>9
    <3>2. CASE u > t
      BY <1>9, <2>11, <3>2 DEF CardsOK
    <3>3. CASE u = t - 1
      BY <1>9, <2>11, <2>15, <3>3 DEF CardsOK
    <3>4. CASE u < t - 1
      BY <1>9, <2>11, <3>4 DEF CardsOK
    <3> QED
      BY <3>1, <3>2, <3>3, <3>4
  <2>17. lastErrorReported \/ failed => t \in bad
    BY <1>4, <2>1 DEF CardsOK
  <2>18. t \in bad /\ reports'[Teller] >= 2 * t => lastErrorReported \/ failed
    <3>1. CASE p = Teller
      BY <1>5, <3>1
    <3>2. CASE p # Teller
      <4>1. reports'[Teller] = reports[Teller] /\ reports[Teller] <= Lead /\ reports[Teller] \in Nat
        BY <1>1, <1>5, <1>7, <3>2 DEF TurnOK
      <4> QED
        BY <2>4, <4>1
    <3> QED
      BY <3>1, <3>2
  <2>19. CardsOK'
    BY <1>1, <1>5, <2>2, <2>11, <2>13, <2>16, <2>17, <2>18 DEF CardsOK
  <2> QED
    BY <2>6, <2>7, <2>8, <2>14, <2>19
<1> QED
  BY <1>3, <1>8, <1>9

\* An error, or a retry, of a turn that p has not ended.
LEMMA ErrorStep ==
  ASSUME CodexInv, NEW p \in Protocols, NEW retry \in BOOLEAN, Error(p, retry)
  PROVE  CodexInv'
<1> USE DEF CodexInv
<1>1. /\ reports[p] % 2 = 1 /\ p \in speaks /\ compactIdle = FALSE
      /\ UNCHANGED <<speaks, begun, ended, bad, inbox, compaction, notices, compactIdle, requests,
                     lastTurnRequest, reports, turnID, turnActive, lastFinishedTurn>>
  <2>1. compactIdle \in BOOLEAN
    BY DEF CodexTypes
  <2>2. ~compactIdle
    BY DEF Error, Free
  <2>3. reports[p] % 2 = 1 /\ p \in speaks
    BY DEF Error
  <2>4. UNCHANGED <<speaks, begun, ended, bad, inbox, compaction, notices, compactIdle, requests,
                     lastTurnRequest, reports, turnID, turnActive, lastFinishedTurn>>
    BY DEF Error, serverVars, compactVars, turnVars
  <2> QED
    BY <2>1, <2>2, <2>3, <2>4, Zenon
<1>2. PICK t \in Nat \ {0} : t = Turn(p)
  BY <1>1, WhereItIs
<1>3. \/ turnID = t /\ lastFinishedTurn = t - 1
      \/ turnID = 0 /\ lastFinishedTurn = t
      \/ turnID = t + 1 /\ lastFinishedTurn = t
  BY <1>1, <1>2, WhereItIs
<1>4. ~retry => t \in bad
  BY <1>2 DEF Error
<1>5. Lead' = Lead
  BY <1>1 DEF Lead
<1>6. TurnOK' /\ AwaitedOK'
  BY <1>1, <1>5 DEF TurnOK, AwaitedOK
<1>7. CASE lastFinishedTurn = t
  <2>1. LateError(~retry) /\ UNCHANGED <<reported, idleCrossed, lastErrorReported>>
    BY <1>2, <1>7 DEF Error, SaysNothing
  <2>2. reports'[Teller] = reports[Teller]
    BY <1>1
  <2>3. CardsOK' /\ cards' \in [1..MaxTurns -> Nat] /\ lastFinishedErrorReported' \in BOOLEAN
    <3>1. PICK failed \in BOOLEAN : failed = ~retry
      OBVIOUS
    <3>2. LateError(failed)
      BY <2>1, <3>1
    <3>3. failed => lastFinishedTurn \in bad
      BY <1>4, <1>7, <3>1
    <3> QED
      BY <1>1, <2>1, <2>2, <3>2, <3>3, LateErrorCards
  <2>4. CodexTypes'
    BY <1>1, <2>1, <2>3 DEF CodexTypes
  <2>5. StatusOK'
    BY <1>1, <2>1 DEF StatusOK
  <2> QED
    BY <1>6, <2>3, <2>4, <2>5
<1>8. CASE lastFinishedTurn = t - 1
  <2>1. turnID = t
    BY <1>3, <1>8
  <2>2. /\ IF retry THEN Says("running") ELSE SaysNothing
        /\ IF ~retry /\ ~lastErrorReported
           THEN ErrorCard(t) /\ lastErrorReported' = TRUE
           ELSE UNCHANGED <<cards, lastErrorReported>>
        /\ lastFinishedErrorReported' = lastFinishedErrorReported
    BY <1>2, <1>8, <2>1 DEF Error
  <2>3. turnActive
    BY <2>1 DEF AwaitedOK
  <2>4. /\ reported' \in {"running", "idle"} /\ idleCrossed' \in BOOLEAN
        /\ StatusOK'
    <3>1. CASE retry
      <4>1. reported' = "running" /\ idleCrossed' = FALSE
        BY <2>2, <3>1 DEF Says
      <4>2. idleCrossed' \in BOOLEAN
        BY <4>1, Zenon
      <4> QED
        BY <1>1, <2>3, <4>1, <4>2 DEF StatusOK
    <3>2. CASE ~retry
      BY <1>1, <2>2, <3>2 DEF StatusOK, SaysNothing, CodexTypes
    <3> QED
      BY <3>1, <3>2
  <2>5. Teller' = Teller
    BY <1>1 DEF Teller
  <2>6. /\ cards \in [1..MaxTurns -> Nat] /\ lastErrorReported \in BOOLEAN
        /\ lastFinishedErrorReported \in BOOLEAN
    BY DEF CodexTypes
  <2>7. CASE ~retry /\ ~lastErrorReported
    <3>1. t \in bad /\ t \in 1..MaxTurns
      BY <1>4, <2>7, CodexAssumption DEF CodexTypes, CodexAssumption
    <3>2. cards' = [cards EXCEPT ![t] = @ + 1] /\ lastErrorReported' = TRUE
      BY <2>2, <2>7 DEF ErrorCard
    <3>3. cards[t] = 0
      BY <1>8, <2>7, <3>1 DEF CardsOK
    <3>4. /\ cards' \in [1..MaxTurns -> Nat] /\ cards'[t] = 1
          /\ \A u \in 1..MaxTurns : u # t => cards'[u] = cards[u]
      BY <2>6, <3>1, <3>2, <3>3
    <3>5. lastErrorReported' \in BOOLEAN
      BY <3>2, Zenon
    <3>6. CodexTypes'
      BY <1>1, <2>2, <2>4, <3>4, <3>5 DEF CodexTypes
    <3>7. CardsOK'
      <4>1. lastFinishedTurn + 1 = t /\ \A u \in 1..MaxTurns : u \in Nat
        BY <1>8
      <4>2. \A u \in 1..MaxTurns :
              /\ u > lastFinishedTurn + 1 => cards'[u] = 0
              /\ u = lastFinishedTurn + 1 => cards'[u] = 1
              /\ u = lastFinishedTurn => cards'[u] = IF lastFinishedErrorReported THEN 1 ELSE 0
              /\ u < lastFinishedTurn => cards'[u] = IF u \in bad THEN 1 ELSE 0
        BY <1>8, <3>4, <4>1 DEF CardsOK
      <4>3. /\ lastFinishedErrorReported => lastFinishedTurn \in bad
            /\ lastFinishedTurn \in bad /\ reports[Teller] >= 2 * lastFinishedTurn
                 => lastFinishedErrorReported
        BY DEF CardsOK
      <4> QED
        BY <1>1, <2>1, <2>2, <2>5, <3>1, <3>2, <4>2, <4>3 DEF CardsOK
    <3> QED
      BY <1>6, <2>4, <3>6, <3>7
  <2>8. CASE ~(~retry /\ ~lastErrorReported)
    <3>1. cards' = cards /\ lastErrorReported' = lastErrorReported
      BY <2>2, <2>8
    <3>2. CodexTypes'
      BY <1>1, <2>2, <2>4, <3>1 DEF CodexTypes
    <3>3. CardsOK'
      BY <1>1, <2>2, <2>5, <3>1 DEF CardsOK
    <3> QED
      BY <1>6, <2>4, <3>2, <3>3
  <2> QED
    BY <2>7, <2>8
<1> QED
  BY <1>3, <1>7, <1>8

LEMMA CodexInitial == CodexInit => CodexInv
<1> SUFFICES ASSUME CodexInit PROVE CodexInv
  OBVIOUS
<1>a. speaks \in SUBSET Protocols /\ speaks # {}
  BY DEF CodexInit
<1>0. /\ begun = 0 /\ ended = 0 /\ bad = {} /\ reports = [p \in Protocols |-> 0]
      /\ inbox = <<>> /\ compaction = "none" /\ notices = {} /\ requests = 0
      /\ turnActive = FALSE /\ turnID = 0 /\ lastFinishedTurn = 0 /\ lastTurnRequest = 0
      /\ lastErrorReported = FALSE /\ lastFinishedErrorReported = FALSE
      /\ compactIdle = FALSE /\ reported = "idle" /\ idleCrossed = FALSE
      /\ cards = [t \in 1..MaxTurns |-> 0]
  BY Zenon DEF CodexInit
<1>1. /\ turnActive \in BOOLEAN /\ lastErrorReported \in BOOLEAN
      /\ lastFinishedErrorReported \in BOOLEAN /\ compactIdle \in BOOLEAN /\ idleCrossed \in BOOLEAN
  BY <1>0, Zenon
<1>2. inbox \in Seq(Nat) /\ 0 <= MaxTurns
  BY <1>0, CodexAssumption DEF CodexAssumption
<1>3. CodexTypes
  BY <1>a, <1>0, <1>1, <1>2 DEF CodexTypes
<1>4. Lead = 0
  BY <1>0 DEF Lead
<1>5. TurnOK
  BY <1>a, <1>0, <1>4 DEF TurnOK
<1>6. AwaitedOK /\ StatusOK
  BY <1>0 DEF AwaitedOK, StatusOK
<1>7. CardsOK
  BY <1>0 DEF CardsOK
<1> QED
  BY <1>3, <1>5, <1>6, <1>7 DEF CodexInv

LEMMA CodexInvariant == CodexSpec => []CodexInv
<1>1. CodexInv /\ [CodexNext]_codexVars => CodexInv'
  <2> SUFFICES ASSUME CodexInv, [CodexNext]_codexVars PROVE CodexInv'
    OBVIOUS
  <2>1. CASE SendTurn \/ SendFails \/ Refuse
    BY <2>1, MessageStep
  <2>2. CASE SendCompact \/ CompactGivesUp \/ Take \/ AnswerCompact \/ EmitCompactIdle
    BY <2>2, ServerStep
  <2>3. ASSUME NEW failed \in BOOLEAN, EndTurn(failed) PROVE CodexInv'
    BY <2>3, ServerStep
  <2>4. ASSUME NEW p \in Protocols, Compacted(p) PROVE CodexInv'
    BY <2>4, ServerStep
  <2>5. ASSUME NEW p \in Protocols, Started(p) PROVE CodexInv'
    BY <2>5, StartedStep
  <2>6. ASSUME NEW p \in Protocols, Ended(p) PROVE CodexInv'
    BY <2>6, EndedStep
  <2>7. ASSUME NEW p \in Protocols, NEW retry \in BOOLEAN, Error(p, retry) PROVE CodexInv'
    BY <2>7, ErrorStep
  <2>8. CASE UNCHANGED codexVars
    <3>1. UNCHANGED <<turnID, lastFinishedTurn, turnActive, reports, speaks, begun, ended, bad, inbox,
                      lastTurnRequest, requests, compaction, notices, compactIdle, lastErrorReported,
                      lastFinishedErrorReported, cards, reported, idleCrossed>>
      BY <2>8 DEF codexVars, serverVars, compactVars, turnVars, errorVars
    <3>2. CodexTypes'
      BY <3>1 DEF CodexInv, CodexTypes
    <3>3. Lead' = Lead /\ Teller' = Teller
      BY <3>1 DEF Lead, Teller
    <3>4. TurnOK' /\ AwaitedOK'
      BY <3>1, <3>3 DEF CodexInv, TurnOK, AwaitedOK
    <3>5. StatusOK'
      BY <3>1 DEF CodexInv, StatusOK
    <3>6. CardsOK'
      BY <3>1, <3>3 DEF CodexInv, CardsOK
    <3> QED
      BY <3>2, <3>4, <3>5, <3>6 DEF CodexInv
  <2> QED
    BY <2>1, <2>2, <2>3, <2>4, <2>5, <2>6, <2>7, <2>8 DEF CodexNext
<1> QED
  BY <1>1, CodexInitial, PTL DEF CodexSpec

\* When everything was reported, the driver has seen the end of every turn that ended.
LEMMA SettledLead ==
  ASSUME CodexInv, Settled
  PROVE  /\ Lead = begun + ended
         /\ begun = ended => turnID = 0 /\ lastFinishedTurn = ended
         /\ begun > ended => turnID = begun /\ lastFinishedTurn = ended
<1> USE DEF CodexInv
<1>1. PICK f \in Nat, b \in Nat, e \in Nat : f = lastFinishedTurn /\ b = begun /\ e = ended
  BY DEF CodexTypes
<1>2. PICK q \in speaks : q \in Protocols
  BY DEF CodexTypes
<1>3. reports[q] = b + e /\ reports[q] <= Lead /\ Lead <= b + e
  BY <1>1, <1>2 DEF Settled, TurnOK
<1>4. \/ turnID = 0 /\ Lead = 2 * f
      \/ turnID = f + 1 /\ Lead = 2 * f + 1
  BY <1>1 DEF TurnOK, Lead
<1>5. e <= b /\ b <= e + 1
  BY <1>1 DEF CodexTypes
<1>6. Lead = b + e
  BY <1>3, <1>4
<1>7. b = e \/ b = e + 1
  BY <1>5
<1>8. CASE b = e
  BY <1>1, <1>4, <1>6, <1>8
<1>9. CASE b = e + 1
  BY <1>1, <1>4, <1>6, <1>9
<1> QED
  BY <1>7, <1>8, <1>9

\* What the session shows, running or idle, is what codex does once everything has
\* been reported, unless an "idle" of a compaction has crossed a turn: refusals,
\* late starts and ends of either protocol, and errors leave it right.
THEOREM CodexShownTrue == CodexSpec => []ShownAsRunsUnlessCrossed
<1>1. CodexInv => ShownAsRunsUnlessCrossed
  <2> SUFFICES ASSUME CodexInv, Settled, ~idleCrossed
               PROVE  reported = IF begun > ended THEN "running" ELSE "idle"
    BY DEF ShownAsRunsUnlessCrossed
  <2>0. begun \in Nat /\ ended \in Nat /\ ended <= begun
    BY DEF CodexInv, CodexTypes
  <2>1. CASE begun > ended
    <3>1. turnID # 0
      BY <2>0, <2>1, SettledLead
    <3> QED
      BY <2>1, <3>1 DEF CodexInv, AwaitedOK, StatusOK
  <2>2. CASE begun = ended
    <3>1. turnID = 0 /\ Lead = begun + ended /\ inbox = <<>>
      BY <2>2, SettledLead DEF Settled
    <3>2. ~(Lead < begun + ended)
      BY <2>0, <3>1
    <3>3. ~turnActive
      BY <3>1, <3>2 DEF CodexInv, AwaitedOK
    <3>4. compaction = "none" /\ notices = {} /\ ~compactIdle
      BY DEF Settled, Free
    <3> QED
      BY <2>0, <2>2, <3>3, <3>4 DEF CodexInv, StatusOK
  <2> QED
    BY <2>0, <2>1, <2>2
<1> QED
  BY <1>1, CodexInvariant, PTL

\* A failed turn has exactly one error card and every other turn none, whichever
\* protocol told of the failure, how often, and whether before or after the end.
THEOREM CodexOneError == CodexSpec => []OneErrorPerTurn
<1>1. CodexInv => OneErrorPerTurn
  <2> SUFFICES ASSUME CodexInv, Settled, NEW t \in 1..ended
               PROVE  cards[t] = IF t \in bad THEN 1 ELSE 0
    BY DEF OneErrorPerTurn
  <2>0. begun \in Nat /\ ended \in Nat /\ ended <= begun /\ begun <= ended + 1 /\ begun <= MaxTurns
    BY DEF CodexInv, CodexTypes
  <2>1. lastFinishedTurn = ended
    BY <2>0, SettledLead
  <2>2. t \in 1..MaxTurns /\ t \in Nat
    BY <2>0, CodexAssumption DEF CodexAssumption
  <2>3. reports[Teller] >= 2 * lastFinishedTurn
    <3>1. reports[Teller] = begun + ended
      BY TellerSpeaks DEF CodexInv, Settled
    <3> QED
      BY <2>0, <2>1, <3>1
  <2>4. CASE t < ended
    BY <2>1, <2>2, <2>4 DEF CodexInv, CardsOK
  <2>5. CASE t = ended
    BY <2>1, <2>2, <2>3, <2>5 DEF CodexInv, CardsOK
  <2> QED
    BY <2>0, <2>4, <2>5
<1> QED
  BY <1>1, CodexInvariant, PTL

-----------------------------------------------------------------------------
(***************************************************************************)
(* Approvals: the requests of a CLI and their answers.                     *)
(***************************************************************************)
Words == {"none", "allow", "deny", "answer"}
Call  == [step : {"idle", "sweep", "resolve", "append"}, req : Requests \cup {"none"},
          verdict : Words \cup {"session"}, by : {"user", "sweep"}, todo : SUBSET Requests]
Row   == [kind : {"card", "approve", "answer"}, req : Requests, verdict : Words \cup {"cancel"}]
ApTypeOK ==
  /\ cli \in {"claude", "codex", "pi"} /\ asked \in [Requests -> {"perm", "ask", "blank"}]
  /\ pending \in SUBSET Requests /\ closing \in SUBSET Requests
  /\ decision \in [Requests -> Words] /\ told \in [Requests -> Words]
  /\ waiter \in [Requests -> {"new", "emit", "wait", "reply", "card", "done"}]
  /\ events \in Seq(Requests) /\ rows \in SUBSET Row
  /\ call \in [Callers -> Call]

\* Who answers a request says what its user could say.
CallsOK ==
  \A c \in Callers :
    /\ call[c].step = "sweep" => call[c].by = "sweep"
    /\ call[c].step \in {"resolve", "append"} =>
         /\ call[c].req \in Requests
         /\ call[c].by = "sweep" => call[c].verdict = "allow"
         /\ call[c].by = "user"  => call[c].verdict \in Verdicts(call[c].req)

\* What users have said of a request: the rows that are there and those that a call
\* is about to append.
Adds(c, r) == c \in Callers /\ call[c].step = "append" /\ call[c].req = r
IsSaid(w, r) == w.req = r /\ w.kind # "card" /\ w.verdict # "cancel"
Said(r) == {w \in rows : IsSaid(w, r)} \cup {RowOf(c) : c \in {x \in Callers : Adds(x, r)}}
OnItsWay(r) == \E i \in 1..Len(events) : events[i] = r
Carded(r) == Card(r) \in rows \/ OnItsWay(r)
\* Answered without a card.
AtOnce(r) == ~Carded(r) /\ waiter[r] \in {"reply", "done"}

\* A request is answered by the one who takes it out of the map, and what he says
\* is what the goroutine has in hand, and what the CLI is told.
RequestOK(r) ==
  /\ waiter[r] = "new" => ~Carded(r) /\ r \notin pending
  /\ waiter[r] = "new" \/ r \in pending => Said(r) = {} /\ told[r] = "none" /\ decision[r] = "none"
  /\ \A w, x \in Said(r) : w = x
  /\ \A w \in Said(r) : /\ w.kind = ResultKind(r) \/ (r \in Asks /\ w.kind = "approve")
                        /\ w.kind = ResultKind(r) => /\ decision[r] \in {"none", w.verdict}
                                                     /\ told[r] \in {"none", w.verdict}
                                                     /\ r \in Asks => w.verdict \in {"answer", "deny"}
  /\ decision[r] # "none" \/ told[r] # "none" => Said(r) # {} \/ AtOnce(r) \/ (~up /\ told[r] = "none")
  /\ waiter[r] = "reply" => decision[r] # "none"
  /\ up /\ (Carded(r) \/ waiter[r] \in {"emit", "wait", "card"}) => r \in pending \/ Said(r) # {}
  /\ waiter[r] \in {"emit", "wait"} /\ decision[r] = "none" =>
       NobodyWaits(r) \/ (r \in pending /\ (up \/ (cli = "claude" /\ r \in Perms)))

\* The process that takes over closes what it finds open.
TakeoverOK ==
  /\ ~reconciled => mapped # "next" /\ closing = {} /\ \A w \in rows : w.verdict # "cancel"
  /\ mapped = "next" => OpenCards \subseteq closing \cup late

ApInv == ApTypeOK /\ CallsOK /\ TakeoverOK /\ \A r \in Requests : RequestOK(r)
-----------------------------------------------------------------------------
(***************************************************************************)
(* What the actions do.                                                    *)
(***************************************************************************)
\* A request that a step leaves alone.
LEMMA Untouched ==
  ASSUME NEW r \in Requests, RequestOK(r), UNCHANGED <<cli, asked, up>>,
         waiter'[r] = waiter[r], told'[r] = told[r], decision'[r] = decision[r],
         r \in pending' <=> r \in pending, Carded(r)' <=> Carded(r), Said(r)' = Said(r)
  PROVE  RequestOK(r)'
  BY DEF RequestOK, AtOnce, ResultKind, Asks, NobodyWaits, Perms

LEMMA SameSays ==
  ASSUME NEW r \in Requests, UNCHANGED <<rows, asked>>,
         \A c \in Callers : \/ ~Adds(c, r) /\ ~Adds(c, r)'
                            \/ Adds(c, r) /\ call'[c] = call[c]
  PROVE  Said(r)' = Said(r)
<1>1. {c \in Callers : Adds(c, r)'} = {c \in Callers : Adds(c, r)}
  BY DEF Adds
<1>2. \A c \in Callers : Adds(c, r) => RowOf(c)' = RowOf(c)
  BY DEF RowOf, ResultKind, Asks
<1>3. \A w : w \in Said(r)' <=> w \in Said(r)
  BY <1>1, <1>2 DEF Said
<1> QED
  BY <1>3

LEMMA SameCarded ==
  ASSUME UNCHANGED <<rows, events>>, NEW r
  PROVE  Carded(r)' <=> Carded(r)
  BY DEF Carded, OnItsWay

\* The goroutine of a request begins.
Serves(r) == ClaudePerm(r) \/ CodexPerm(r) \/ PiPerm(r) \/ ClaudeAsk(r) \/ CodexAsk(r) \/ PiAsk(r)
LEMMA ServesFacts ==
  ASSUME ApTypeOK, NEW r \in Requests, Serves(r)
  PROVE  /\ waiter[r] = "new" /\ KeepCard
         /\ \/ Registers(r) /\ (up \/ (cli = "claude" /\ r \in Perms))
            \/ \E v \in {"allow", "deny"} : AnswersAtOnce(r, v)
            \/ GivesUp(r)
<1>1. CASE ClaudePerm(r)
  BY <1>1 DEF ClaudePerm, Served
<1>2. CASE CodexPerm(r)
  BY <1>2 DEF CodexPerm, Served
<1>3. CASE PiPerm(r)
  BY <1>3 DEF PiPerm, Served
<1>4. CASE ClaudeAsk(r)
  BY <1>4 DEF ClaudeAsk, Served, MayAsk
<1>5. CASE CodexAsk(r)
  BY <1>5 DEF CodexAsk, Served
<1>6. CASE PiAsk(r)
  BY <1>6 DEF PiAsk, Served
<1> QED
  BY <1>1, <1>2, <1>3, <1>4, <1>5, <1>6 DEF Serves

LEMMA ApEmitFacts ==
  ASSUME ApTypeOK, NEW r \in Requests, EmitCard(r)
  PROVE  /\ waiter[r] = "emit" /\ UNCHANGED <<cli, asked, up, pending, decision, told, sessVars, rows, call>>
         /\ waiter' = [waiter EXCEPT ![r] = IF NobodyWaits(r) THEN "card" ELSE "wait"]
         /\ events' \in Seq(Requests)
         /\ \A q \in Requests \ {r} : Carded(q)' <=> Carded(q)
<1>1. /\ waiter[r] = "emit" /\ UNCHANGED <<cli, asked, up, pending, decision, told, sessVars, rows, call>>
      /\ waiter' = [waiter EXCEPT ![r] = IF NobodyWaits(r) THEN "card" ELSE "wait"]
      /\ events' = events \/ events' = Append(events, r)
  BY DEF EmitCard, Emits
<1>2. events \in Seq(Requests)
  BY DEF ApTypeOK
<1>3. CASE events' = events
  BY <1>1, <1>2, <1>3 DEF Carded, OnItsWay
<1>4. CASE events' = Append(events, r)
  <2>1. /\ events' \in Seq(Requests) /\ Len(events') = Len(events) + 1 /\ Len(events) \in Nat
        /\ events'[Len(events) + 1] = r /\ \A i \in 1..Len(events) : events'[i] = events[i]
    BY <1>2, <1>4
  <2>2. ASSUME NEW q \in Requests \ {r} PROVE OnItsWay(q)' <=> OnItsWay(q)
    <3>1. ASSUME OnItsWay(q) PROVE OnItsWay(q)'
      BY <2>1, <3>1 DEF OnItsWay
    <3>2. ASSUME OnItsWay(q)' PROVE OnItsWay(q)
      BY <2>1, <2>2, <3>2 DEF OnItsWay
    <3> QED
      BY <3>1, <3>2
  <2> QED
    BY <1>1, <2>1, <2>2 DEF Carded
<1> QED
  BY <1>1, <1>3, <1>4

LEMMA PumpFacts ==
  ASSUME ApTypeOK, Pump
  PROVE  /\ UNCHANGED <<cli, asked, up, pending, decision, waiter, told, mapped, closing, reconciled, call>>
         /\ events' \in Seq(Requests)
         /\ \E q \in Requests : rows' = rows \cup {Card(q)} /\ late' = (IF reconciled THEN late \cup {q} ELSE late)
         /\ \A r \in Requests : Carded(r)' <=> Carded(r)
         /\ \A r \in Requests : Said(r)' = Said(r)
<1>1. /\ UNCHANGED <<cli, asked, up, pending, decision, waiter, told, mapped, closing, reconciled, call>>
      /\ events # <<>> /\ events' = Tail(events) /\ rows' = rows \cup {Card(Head(events))}
      /\ late' = (IF reconciled THEN late \cup {Head(events)} ELSE late)
  BY DEF Pump
<1>2. /\ events \in Seq(Requests) /\ Len(events) \in Nat /\ Len(events) >= 1
      /\ Head(events) = events[1] /\ events[1] \in Requests
      /\ events' \in Seq(Requests) /\ Len(events') = Len(events) - 1
      /\ \A i \in 1..Len(events) - 1 : events'[i] = events[i + 1]
  BY <1>1 DEF ApTypeOK
<1>3. PICK h \in Requests : h = Head(events)
  BY <1>2
<1>4. ASSUME NEW r \in Requests PROVE Carded(r)' <=> Carded(r)
  <2>1. OnItsWay(r) <=> r = h \/ OnItsWay(r)'
    <3>1. ASSUME OnItsWay(r), r # h PROVE OnItsWay(r)'
      <4>1. PICK i \in 1..Len(events) : events[i] = r
        BY <3>1 DEF OnItsWay
      <4>2. i # 1 /\ i - 1 \in 1..Len(events) - 1
        BY <1>2, <1>3, <3>1, <4>1
      <4>3. events'[i - 1] = r
        BY <1>2, <4>1, <4>2
      <4> QED
        BY <1>2, <4>2, <4>3 DEF OnItsWay
    <3>2. ASSUME OnItsWay(r)' PROVE OnItsWay(r)
      <4>1. PICK i \in 1..Len(events') : events'[i] = r
        BY <3>2 DEF OnItsWay
      <4>2. i + 1 \in 1..Len(events) /\ events[i + 1] = r
        BY <1>2, <4>1
      <4> QED
        BY <4>2 DEF OnItsWay
    <3>3. OnItsWay(h)
      BY <1>2, <1>3 DEF OnItsWay
    <3> QED
      BY <3>1, <3>2, <3>3
  <2>2. Card(r) \in rows' <=> Card(r) \in rows \/ r = h
    BY <1>1, <1>3 DEF Card
  <2> QED
    BY <2>1, <2>2 DEF Carded
<1>5. ASSUME NEW r \in Requests PROVE Said(r)' = Said(r)
  <2>1. \A w : w \in rows' /\ IsSaid(w, r) <=> w \in rows /\ IsSaid(w, r)
    BY <1>1, <1>3 DEF Card, IsSaid
  <2>2. \A c : (Adds(c, r)' <=> Adds(c, r)) /\ RowOf(c)' = RowOf(c)
    BY <1>1 DEF Adds, RowOf, ResultKind, Asks
  <2>3. \A w : w \in Said(r)' <=> w \in Said(r)
    BY <2>1, <2>2 DEF Said
  <2> QED
    BY <2>3
<1> QED
  BY <1>1, <1>2, <1>3, <1>4, <1>5

LEMMA ReceiveFacts ==
  ASSUME ApTypeOK, NEW r \in Requests, Receive(r)
  PROVE  /\ waiter[r] = "wait" /\ decision[r] # "none"
         /\ UNCHANGED <<cli, asked, up, pending, told, events, sessVars, rows, call>>
         /\ \/ /\ waiter' = [waiter EXCEPT ![r] = "done"] /\ decision' = [decision EXCEPT ![r] = "none"]
            \/ waiter' = [waiter EXCEPT ![r] = "reply"] /\ decision' = decision
  BY DEF Receive

LEMMA ReplyFacts ==
  ASSUME ApTypeOK, NEW r \in Requests, WriteReply(r)
  PROVE  /\ UNCHANGED <<cli, asked, up, pending, events, sessVars, rows, call>> /\ HasReply(r)
         /\ waiter' = (IF waiter[r] = "emit" THEN waiter ELSE [waiter EXCEPT ![r] = "done"])
         /\ decision' = [decision EXCEPT ![r] = "none"]
         /\ IF up THEN told' = [told EXCEPT ![r] = Reply(r)] ELSE told' = told
         /\ Reply(r) \in Words
<1>1. decision[r] \in Words
  BY DEF ApTypeOK
<1> QED
  BY <1>1 DEF WriteReply, Reaches, Reply, AnswerOf, Words

LEMMA ExitFacts ==
  ASSUME ApTypeOK, Exit
  PROVE  /\ up /\ ~up' /\ UNCHANGED <<cli, asked, waiter, told, events, sessVars, rows, call>>
         /\ pending' = {} /\ decision' \in [Requests -> Words]
         /\ \A r \in Requests : decision'[r] = IF r \in pending /\ ~NobodyWaits(r) /\ decision[r] = "none"
                                               THEN "deny" ELSE decision[r]
<1>1. up /\ ~up' /\ UNCHANGED <<cli, asked, waiter, told, events, sessVars, rows, call>>
      /\ pending' = {} /\ decision' = Woken
  BY DEF Exit
<1>2. Woken \in [Requests -> Words]
  BY DEF Woken, Words, ApTypeOK
<1> QED
  BY <1>1, <1>2 DEF Woken

LEMMA IdleFacts ==
  /\ Idle \in Call /\ Idle.step = "idle" /\ Idle.by = "user"
  /\ \A S \in SUBSET Requests :
       LET i == [Idle EXCEPT !.step = "sweep", !.by = "sweep", !.todo = S]
       IN i \in Call /\ i.step = "sweep" /\ i.by = "sweep"
  BY DEF Idle, Call, Words

Between(i) == i.step = "idle" \/ (i.step = "sweep" /\ i.by = "sweep")

\* Calls begin, and the sweep takes the next request.
CallBegins ==
  \/ \E c \in Callers, r \in Requests : \E v \in Verdicts(r) : Decide(c, r, v)
  \/ \E c \in Callers, accept \in BOOLEAN : ChangeMode(c, accept)
  \/ \E c \in Callers : Sweep(c)
LEMMA BeginFacts ==
  ASSUME ApTypeOK, CallBegins
  PROVE  /\ UNCHANGED <<cli, asked, up, pending, decision, waiter, told, events, rows,
                        mapped, closing, reconciled, late>>
         /\ call' \in [Callers -> Call]
         /\ \E c \in Callers :
              /\ \A d \in Callers \ {c} : call'[d] = call[d]
              /\ call[c].step \in {"idle", "sweep"}
              /\ \/ Between(call'[c])
                 \/ /\ call'[c].step = "resolve" /\ call'[c].req \in Requests
                    /\ \/ call'[c].by = "user" /\ call'[c].verdict \in Verdicts(call'[c].req)
                       \/ call[c].step = "sweep" /\ call'[c].by = call[c].by /\ call'[c].verdict = "allow"
<1>0. call \in [Callers -> Call] /\ pending \in SUBSET Requests
  BY DEF ApTypeOK
<1>2. ASSUME NEW c \in Callers, NEW r \in Requests, NEW v \in Verdicts(r), Decide(c, r, v)
      PROVE  /\ UNCHANGED <<procVars, sessVars, rows>>
             /\ call' \in [Callers -> Call] /\ \A d \in Callers \ {c} : call'[d] = call[d]
             /\ call[c].step = "idle" /\ call'[c].step = "resolve" /\ call'[c].req = r /\ call'[c].verdict = v
             /\ call'[c].by = "user"
  <2> DEFINE i == [Idle EXCEPT !.step = "resolve", !.req = r, !.verdict = v]
  <2>1. UNCHANGED <<procVars, sessVars, rows>> /\ call[c] = Idle /\ call' = [call EXCEPT ![c] = i]
    BY <1>2 DEF Decide, Start
  <2>2. v \in Words \cup {"session"}
    BY DEF Verdicts, Words
  <2>3. i \in Call /\ i.step = "resolve" /\ i.req = r /\ i.verdict = v /\ i.by = "user"
    BY <2>2 DEF Idle, Call, Words
  <2> HIDE DEF i
  <2> QED
    BY <1>0, <2>1, <2>3, IdleFacts
<1>3. ASSUME NEW c \in Callers, NEW accept \in BOOLEAN, ChangeMode(c, accept)
      PROVE  /\ UNCHANGED <<cli, asked, up, pending, decision, waiter, told, events, rows,
                            mapped, closing, reconciled, late>>
             /\ call' \in [Callers -> Call] /\ \A d \in Callers \ {c} : call'[d] = call[d]
             /\ call[c].step = "idle" /\ Between(call'[c])
  <2> DEFINE s == [Idle EXCEPT !.step = "sweep", !.by = "sweep", !.todo = Listed]
  <2>1. Listed \in SUBSET Requests
    BY <1>0 DEF Listed, OnlyPerms
  <2>2. s \in Call /\ s.step = "sweep" /\ s.by = "sweep"
    BY <2>1, IdleFacts
  <2>3. call[c] = Idle /\ call' = [call EXCEPT ![c] = IF accept THEN s ELSE Idle]
        /\ UNCHANGED <<cli, asked, up, pending, decision, waiter, told, events, rows,
                       mapped, closing, reconciled, late>>
    BY <1>3 DEF ChangeMode, Start
  <2> HIDE DEF s
  <2> QED
    BY <1>0, <2>2, <2>3, IdleFacts DEF Between
<1>4. ASSUME NEW c \in Callers, Sweep(c)
      PROVE  /\ UNCHANGED <<procVars, sessVars, rows>> /\ call[c].step = "sweep"
             /\ call' \in [Callers -> Call] /\ \A d \in Callers \ {c} : call'[d] = call[d]
             /\ \/ call'[c].step = "idle"
                \/ /\ call'[c].step = "resolve" /\ call'[c].req \in Requests /\ call'[c].by = call[c].by
                   /\ call'[c].verdict = "allow"
  <2>0. call[c] \in Call /\ call[c].step = "sweep" /\ UNCHANGED <<procVars, sessVars, rows>>
    BY <1>0, <1>4 DEF Sweep
  <2>1. CASE call' = [call EXCEPT ![c] = Idle]
    BY <1>0, <2>0, <2>1, IdleFacts
  <2>2. ASSUME NEW r \in call[c].todo,
               call' = [call EXCEPT ![c].step = "resolve", ![c].req = r, ![c].verdict = "allow",
                                    ![c].todo = @ \ {r}]
        PROVE  /\ call' \in [Callers -> Call] /\ \A d \in Callers \ {c} : call'[d] = call[d]
               /\ call'[c].step = "resolve" /\ call'[c].req \in Requests /\ call'[c].by = call[c].by
               /\ call'[c].verdict = "allow"
    <3> DEFINE i == [call[c] EXCEPT !.step = "resolve", !.req = r, !.verdict = "allow", !.todo = @ \ {r}]
    <3>1. call' = [call EXCEPT ![c] = i]
      BY <1>0, <2>2
    <3>2. r \in Requests
      BY <2>0, <2>2 DEF Call
    <3>3. i \in Call /\ i.step = "resolve" /\ i.req = r /\ i.verdict = "allow" /\ i.by = call[c].by
      BY <2>0, <3>2 DEF Call, Words
    <3> HIDE DEF i
    <3> QED
      BY <1>0, <3>1, <3>2, <3>3
  <2> QED
    BY <1>4, <2>0, <2>1, <2>2 DEF Sweep
<1>5. CASE \E c \in Callers, r \in Requests : \E v \in Verdicts(r) : Decide(c, r, v)
  <2>1. PICK c \in Callers, r \in Requests : \E v \in Verdicts(r) : Decide(c, r, v)
    BY <1>5
  <2>2. PICK v \in Verdicts(r) : Decide(c, r, v)
    BY <2>1
  <2>3. /\ UNCHANGED <<procVars, sessVars, rows>>
        /\ call' \in [Callers -> Call] /\ \A d \in Callers \ {c} : call'[d] = call[d]
        /\ call[c].step = "idle" /\ call'[c].step = "resolve" /\ call'[c].req = r /\ call'[c].verdict = v
        /\ call'[c].by = "user"
    BY <1>2, <2>2
  <2> QED
    BY <2>3 DEF procVars, sessVars
<1>6. CASE \E c \in Callers, accept \in BOOLEAN : ChangeMode(c, accept)
  BY <1>3, <1>6
<1>7. CASE \E c \in Callers : Sweep(c)
  BY <1>4, <1>7 DEF procVars, sessVars, Between
<1> QED
  BY <1>5, <1>6, <1>7 DEF CallBegins

LEMMA Next1Facts ==
  ASSUME ApTypeOK, NEW c \in Callers
  PROVE  Next1(c) \in Call /\ Between(Next1(c))
<1>1. call[c] \in Call
  BY DEF ApTypeOK
<1>2. [call[c] EXCEPT !.step = "sweep", !.req = "none", !.verdict = "none"] \in Call
      /\ [call[c] EXCEPT !.step = "sweep", !.req = "none", !.verdict = "none"].step = "sweep"
      /\ [call[c] EXCEPT !.step = "sweep", !.req = "none", !.verdict = "none"].by = call[c].by
  BY <1>1 DEF Call, Words
<1> QED
  BY <1>2, IdleFacts DEF Next1, Between

LEMMA ResolveFacts ==
  ASSUME ApTypeOK, NEW c \in Callers, Resolve(c)
  PROVE  /\ call[c].step = "resolve" /\ UNCHANGED <<cli, asked, up, waiter, told, events, sessVars, rows>>
         /\ call' \in [Callers -> Call] /\ \A d \in Callers \ {c} : call'[d] = call[d]
         /\ \/ /\ call[c].req \in pending /\ pending' = pending \ {call[c].req}
               /\ decision' = [decision EXCEPT ![call[c].req] = Given(call[c].verdict)]
               /\ call'[c].step = "append" /\ call'[c].req = call[c].req
               /\ call'[c].verdict = call[c].verdict /\ call'[c].by = call[c].by
            \/ UNCHANGED <<pending, decision>> /\ Between(call'[c])
<1>0. call \in [Callers -> Call] /\ call[c] \in Call
  BY DEF ApTypeOK
<1>1. call[c].step = "resolve" /\ UNCHANGED <<cli, asked, up, waiter, told, events, sessVars, rows>>
  BY DEF Resolve
<1>2. CASE call[c].req \in pending
  <2> DEFINE i == [call[c] EXCEPT !.step = "append"]
  <2>1. pending' = pending \ {call[c].req} /\ decision' = [decision EXCEPT ![call[c].req] = Given(call[c].verdict)]
        /\ call' = [call EXCEPT ![c] = i]
    BY <1>2 DEF Resolve, Taken
  <2>2. i \in Call /\ i.step = "append" /\ i.req = call[c].req /\ i.verdict = call[c].verdict /\ i.by = call[c].by
    BY <1>0 DEF Call
  <2> HIDE DEF i
  <2> QED
    BY <1>0, <1>1, <1>2, <2>1, <2>2
<1>3. CASE call[c].req \notin pending
  <2>1. call' = [call EXCEPT ![c] = Next1(c)] /\ UNCHANGED <<pending, decision>>
    BY <1>3 DEF Resolve
  <2> QED
    BY <1>0, <1>1, <2>1, Next1Facts
<1> QED
  BY <1>2, <1>3

LEMMA AppendFacts ==
  ASSUME ApTypeOK, NEW c \in Callers, AppendResult(c)
  PROVE  /\ call[c].step = "append"
         /\ UNCHANGED <<cli, asked, up, pending, decision, waiter, told, events, sessVars>>
         /\ rows' = rows \cup {RowOf(c)}
         /\ call' \in [Callers -> Call] /\ \A d \in Callers \ {c} : call'[d] = call[d]
         /\ Between(call'[c])
<1>0. call \in [Callers -> Call]
  BY DEF ApTypeOK
<1>1. /\ call[c].step = "append" /\ rows' = rows \cup {RowOf(c)} /\ call' = [call EXCEPT ![c] = Next1(c)]
      /\ UNCHANGED <<cli, asked, up, pending, decision, waiter, told, events, sessVars>>
  BY DEF AppendResult, procVars
<1> QED
  BY <1>0, <1>1, Next1Facts

\* The row that a call appends.
LEMMA RowFacts ==
  ASSUME ApTypeOK, CallsOK, NEW c \in Callers, call[c].step \in {"resolve", "append"}
  PROVE  /\ Given(call[c].verdict) \in Words \ {"none"}
         /\ RowOf(c) \in Row /\ RowOf(c).kind \in {"approve", "answer"} /\ RowOf(c).req = call[c].req
         /\ RowOf(c).verdict = Given(call[c].verdict) /\ RowOf(c).verdict \notin {"cancel", "none"}
         /\ RowOf(c).kind = ResultKind(call[c].req) \/ (call[c].req \in Asks /\ RowOf(c).kind = "approve")
         /\ RowOf(c).kind = ResultKind(call[c].req) /\ call[c].req \in Asks => RowOf(c).verdict \in {"answer", "deny"}
<1>1. /\ call[c].req \in Requests /\ call[c].by \in {"user", "sweep"}
      /\ call[c].by = "sweep" => call[c].verdict = "allow"
      /\ call[c].by = "user"  => call[c].verdict \in Verdicts(call[c].req)
  BY DEF CallsOK, ApTypeOK, Call
<1>2. Given(call[c].verdict) \in Words \ {"none"}
      /\ (call[c].by = "user" /\ call[c].req \in Asks => Given(call[c].verdict) \in {"answer", "deny"})
  BY <1>1 DEF Given, Verdicts, Words
<1> QED
  BY <1>1, <1>2 DEF RowOf, Result, ResultKind, Row, Words

\* The other actions: the end of the process and the one that follows it.
LEMMA TurnFacts ==
  /\ CloseEvents => UNCHANGED <<cli, asked, up, pending, decision, waiter, told, events, sessVars, rows, call>>
  /\ PumpEnds => /\ UNCHANGED <<cli, asked, up, pending, decision, waiter, told, events, rows, call>>
                 /\ UNCHANGED <<closing, reconciled, late>> /\ mapped = "this" /\ mapped' = "none"
  /\ Restart => /\ UNCHANGED <<cli, asked, up, pending, decision, waiter, told, events, rows, call>>
                /\ UNCHANGED <<closing, reconciled, late>> /\ mapped = "this" /\ mapped' = "none"
  /\ Register => /\ UNCHANGED <<cli, asked, up, pending, decision, waiter, told, events, rows, call, late>>
                 /\ mapped' = "next" /\ reconciled' /\ closing' = OpenCards
  BY DEF CloseEvents, PumpEnds, Restart, Register, ToClose, procVars

LEMMA CloseFacts ==
  ASSUME NEW r \in Requests, CloseCard(r)
  PROVE  /\ UNCHANGED <<cli, asked, up, pending, decision, waiter, told, events, call, mapped, reconciled, late>>
         /\ closing' = closing \ {r} /\ rows' = rows \cup {Result(ResultKind(r), r, "cancel")}
  BY DEF CloseCard, procVars

\* The steps of ApprovalNext, calls that begin taken together.
LEMMA ApSteps ==
  ApprovalNext => \/ \E r \in Requests : Serves(r) \/ EmitCard(r) \/ Receive(r) \/ WriteReply(r) \/ CloseCard(r)
                  \/ Exit \/ CloseEvents \/ Pump \/ PumpEnds \/ Restart \/ Register
                  \/ CallBegins \/ \E c \in Callers : Resolve(c) \/ AppendResult(c)
  BY DEF ApprovalNext, Serves, CallBegins

-----------------------------------------------------------------------------
LEMMA ApTyped == ApTypeOK /\ CallsOK /\ ApprovalNext => ApTypeOK'
<1> SUFFICES ASSUME ApTypeOK, CallsOK, ApprovalNext PROVE ApTypeOK'
  OBVIOUS
<1>0. /\ pending \in SUBSET Requests /\ decision \in [Requests -> Words] /\ told \in [Requests -> Words]
      /\ waiter \in [Requests -> {"new", "emit", "wait", "reply", "card", "done"}]
  BY DEF ApTypeOK
<1>1. ASSUME NEW r \in Requests, Serves(r) PROVE ApTypeOK'
  <2>1. UNCHANGED <<cli, asked, told, events, rows, call, closing>>
    BY <1>1, ServesFacts DEF KeepCard, sessVars
  <2>2. /\ pending' \in SUBSET Requests /\ decision' \in [Requests -> Words]
        /\ waiter' \in [Requests -> {"new", "emit", "wait", "reply", "card", "done"}]
    BY <1>0, <1>1, ServesFacts DEF Registers, AnswersAtOnce, GivesUp, Words
  <2> QED
    BY <2>1, <2>2 DEF ApTypeOK
<1>2. ASSUME NEW r \in Requests, EmitCard(r) PROVE ApTypeOK'
  BY <1>2, ApEmitFacts DEF ApTypeOK, sessVars
<1>3. ASSUME NEW r \in Requests, Receive(r) PROVE ApTypeOK'
  <2>1. UNCHANGED <<cli, asked, told, pending, events, rows, call, closing>>
    BY <1>3, ReceiveFacts DEF sessVars
  <2>2. /\ decision' \in [Requests -> Words]
        /\ waiter' \in [Requests -> {"new", "emit", "wait", "reply", "card", "done"}]
    BY <1>0, <1>3, ReceiveFacts DEF Words
  <2> QED
    BY <2>1, <2>2 DEF ApTypeOK
<1>4. ASSUME NEW r \in Requests, WriteReply(r) PROVE ApTypeOK'
  <2>1. UNCHANGED <<cli, asked, pending, events, rows, call, closing>>
    BY <1>4, ReplyFacts DEF sessVars
  <2>2. /\ decision' \in [Requests -> Words] /\ told' \in [Requests -> Words]
        /\ waiter' \in [Requests -> {"new", "emit", "wait", "reply", "card", "done"}]
    BY <1>0, <1>4, ReplyFacts DEF Words
  <2> QED
    BY <2>1, <2>2 DEF ApTypeOK
<1>5. ASSUME NEW r \in Requests, CloseCard(r) PROVE ApTypeOK'
  <2>1. Result(ResultKind(r), r, "cancel") \in Row
    BY DEF Result, ResultKind, Row
  <2> QED
    BY <1>5, <2>1, CloseFacts DEF ApTypeOK
<1>6. CASE Exit
  BY <1>6, ExitFacts DEF ApTypeOK, sessVars
<1>7. CASE Pump
  <2>1. \A q \in Requests : Card(q) \in Row
    BY DEF Card, Row, Words
  <2> QED
    BY <1>7, <2>1, PumpFacts DEF ApTypeOK
<1>8. CASE CloseEvents \/ PumpEnds \/ Restart \/ Register
  <2>1. closing' \in SUBSET Requests
    BY <1>8, TurnFacts DEF ApTypeOK, OpenCards, sessVars
  <2> QED
    BY <1>8, <2>1, TurnFacts DEF ApTypeOK
<1>9. CASE CallBegins
  BY <1>9, BeginFacts DEF ApTypeOK
<1>10. ASSUME NEW c \in Callers, Resolve(c) PROVE ApTypeOK'
  <2>1. UNCHANGED <<cli, asked, told, waiter, events, rows, closing>> /\ call' \in [Callers -> Call]
    BY <1>10, ResolveFacts DEF sessVars
  <2>2. call[c].step = "resolve" => Given(call[c].verdict) \in Words
    BY RowFacts
  <2>3. pending' \in SUBSET Requests /\ decision' \in [Requests -> Words]
    BY <1>0, <1>10, <2>2, ResolveFacts
  <2> QED
    BY <2>1, <2>3 DEF ApTypeOK
<1>11. ASSUME NEW c \in Callers, AppendResult(c) PROVE ApTypeOK'
  <2>1. RowOf(c) \in Row
    BY <1>11, AppendFacts, RowFacts
  <2> QED
    BY <1>11, <2>1, AppendFacts DEF ApTypeOK, sessVars
<1> QED
  BY ApSteps, <1>1, <1>2, <1>3, <1>4, <1>5, <1>6, <1>7, <1>8, <1>9, <1>10, <1>11

LEMMA CallsKept == ApTypeOK /\ CallsOK /\ ApprovalNext => CallsOK'
<1> SUFFICES ASSUME ApTypeOK, CallsOK, ApprovalNext PROVE CallsOK'
  OBVIOUS
<1>k. ASSUME UNCHANGED <<call, asked>> PROVE CallsOK'
  BY <1>k DEF CallsOK, Verdicts, Asks
<1>t. \A c \in Callers : call[c].by \in {"user", "sweep"}
  BY DEF ApTypeOK, Call
<1>v. asked' = asked => \A r : Verdicts(r)' = Verdicts(r)
  BY DEF Verdicts, Asks
<1>1. ASSUME NEW r \in Requests, Serves(r) \/ EmitCard(r) \/ Receive(r) \/ WriteReply(r) \/ CloseCard(r)
      PROVE  CallsOK'
  BY <1>1, <1>k, ServesFacts, ApEmitFacts, ReceiveFacts, ReplyFacts, CloseFacts DEF KeepCard
<1>2. CASE Exit \/ CloseEvents \/ Pump \/ PumpEnds \/ Restart \/ Register
  BY <1>2, <1>k, ExitFacts, PumpFacts, TurnFacts
<1>3. CASE CallBegins
  <2>1. PICK c \in Callers :
          /\ asked' = asked /\ \A d \in Callers \ {c} : call'[d] = call[d]
          /\ call[c].step \in {"idle", "sweep"}
          /\ \/ Between(call'[c])
             \/ /\ call'[c].step = "resolve" /\ call'[c].req \in Requests
                /\ \/ call'[c].by = "user" /\ call'[c].verdict \in Verdicts(call'[c].req)
                   \/ call[c].step = "sweep" /\ call'[c].by = call[c].by /\ call'[c].verdict = "allow"
    BY <1>3, BeginFacts
  <2> QED
    <3>1. CASE Between(call'[c])
      BY <2>1, <3>1, <1>v DEF CallsOK, Between
    <3>2. CASE call'[c].step = "resolve" /\ call'[c].by = "user"
      BY <2>1, <3>2, <1>v DEF CallsOK, Between
    <3>3. CASE call'[c].step = "resolve" /\ call[c].step = "sweep" /\ call'[c].by = call[c].by
               /\ call'[c].verdict = "allow"
      <4>1. call'[c].by = "sweep"
        BY <3>3 DEF CallsOK
      <4>2. asked' = asked /\ (\A d \in Callers \ {c} : call'[d] = call[d]) /\ call'[c].req \in Requests
        BY <2>1, <3>3 DEF Between
      <4>3. ASSUME NEW d \in Callers
            PROVE  /\ call'[d].step = "sweep" => call'[d].by = "sweep"
                   /\ call'[d].step \in {"resolve", "append"} =>
                        /\ call'[d].req \in Requests
                        /\ call'[d].by = "sweep" => call'[d].verdict = "allow"
                        /\ call'[d].by = "user"  => call'[d].verdict \in Verdicts(call'[d].req)
        <5>1. CASE d = c
          BY <3>3, <4>1, <4>2, <5>1
        <5>2. CASE d # c
          <6>1. call'[d] = call[d]
            BY <4>2, <5>2
          <6> QED
            BY <6>1 DEF CallsOK
        <5> QED
          BY <5>1, <5>2
      <4> QED
        BY <4>2, <4>3, <1>v DEF CallsOK
    <3> QED
      BY <2>1, <3>1, <3>2, <3>3
<1>4. ASSUME NEW c \in Callers, Resolve(c) PROVE CallsOK'
  <2>1. /\ call[c].step = "resolve" /\ asked' = asked /\ \A d \in Callers \ {c} : call'[d] = call[d]
        /\ \/ /\ call'[c].req = call[c].req /\ call'[c].verdict = call[c].verdict /\ call'[c].by = call[c].by
              /\ call'[c].step = "append"
           \/ Between(call'[c])
    BY <1>4, ResolveFacts
  <2> QED
    BY <2>1, <1>v DEF CallsOK, Between
<1>5. ASSUME NEW c \in Callers, AppendResult(c) PROVE CallsOK'
  <2>1. /\ asked' = asked /\ \A d \in Callers \ {c} : call'[d] = call[d]
        /\ Between(call'[c])
    BY <1>5, AppendFacts
  <2> QED
    BY <2>1, <1>v DEF CallsOK, Between
<1> QED
  BY ApSteps, <1>1, <1>2, <1>3, <1>4, <1>5

LEMMA TakeoverKept == ApTypeOK /\ CallsOK /\ TakeoverOK /\ ApprovalNext => TakeoverOK'
<1> SUFFICES ASSUME ApTypeOK, CallsOK, TakeoverOK, ApprovalNext PROVE TakeoverOK'
  OBVIOUS
\* Rows may come, but no card and no cancellation.
<1>k. ASSUME UNCHANGED <<asked, mapped, closing, reconciled, late>>, rows \subseteq rows',
             \A w \in rows' : w \in rows \/ (w.kind # "card" /\ w.verdict # "cancel")
      PROVE  TakeoverOK'
  <2>1. OpenCards' \subseteq OpenCards
    BY <1>k DEF OpenCards, Results, ResultKind, Asks, Card
  <2> QED
    BY <1>k, <2>1 DEF TakeoverOK
<1>1. ASSUME NEW r \in Requests, Serves(r) \/ EmitCard(r) \/ Receive(r) \/ WriteReply(r) PROVE TakeoverOK'
  <2>1. UNCHANGED <<asked, mapped, closing, reconciled, late, rows>>
    BY <1>1, ServesFacts, ApEmitFacts, ReceiveFacts, ReplyFacts DEF KeepCard, sessVars
  <2> QED
    BY <2>1, <1>k
<1>2. ASSUME NEW r \in Requests, CloseCard(r) PROVE TakeoverOK'
  <2> DEFINE x == Result(ResultKind(r), r, "cancel")
  <2>1. /\ UNCHANGED <<asked, mapped, reconciled, late>> /\ closing' = closing \ {r} /\ rows' = rows \cup {x}
        /\ x.kind = ResultKind(r) /\ x.req = r /\ x.kind # "card" /\ r \in closing
    BY <1>2, CloseFacts DEF Result, ResultKind, CloseCard
  <2>2. OpenCards' \subseteq OpenCards \ {r}
    <3>1. r \notin OpenCards'
      BY <2>1 DEF OpenCards, Results, ResultKind, Asks
    <3>2. OpenCards' \subseteq OpenCards
      <4> HIDE DEF x
      <4> QED
        BY <2>1 DEF OpenCards, Results, ResultKind, Asks, Card
    <3> QED
      BY <3>1, <3>2
  <2> QED
    BY <2>1, <2>2, <1>2 DEF TakeoverOK
<1>3. CASE Exit \/ CloseEvents
  <2>1. UNCHANGED <<asked, mapped, closing, reconciled, late, rows>>
    BY <1>3, ExitFacts, TurnFacts DEF sessVars
  <2> QED
    BY <2>1, <1>k
<1>4. CASE Pump
  <2>1. PICK q \in Requests : /\ rows' = rows \cup {Card(q)}
                              /\ late' = (IF reconciled THEN late \cup {q} ELSE late)
                              /\ UNCHANGED <<asked, mapped, closing, reconciled>>
    BY <1>4, PumpFacts
  <2>2. OpenCards' \subseteq OpenCards \cup {q}
    BY <2>1 DEF OpenCards, Results, ResultKind, Asks, Card
  <2>3. Card(q).verdict = "none"
    BY DEF Card
  <2> QED
    BY <2>1, <2>2, <2>3 DEF TakeoverOK
<1>5. CASE PumpEnds \/ Restart
  BY <1>5, TurnFacts DEF TakeoverOK
<1>6. CASE Register
  <2>1. OpenCards' = OpenCards
    BY <1>6, TurnFacts DEF OpenCards, Results, ResultKind, Asks, Card
  <2> QED
    BY <1>6, <2>1, TurnFacts DEF TakeoverOK
<1>7. CASE CallBegins
  BY <1>7, <1>k, BeginFacts
<1>8. ASSUME NEW c \in Callers, Resolve(c) PROVE TakeoverOK'
  <2>1. UNCHANGED <<asked, mapped, closing, reconciled, late, rows>>
    BY <1>8, ResolveFacts DEF sessVars
  <2> QED
    BY <2>1, <1>k
<1>9. ASSUME NEW c \in Callers, AppendResult(c) PROVE TakeoverOK'
  <2>1. UNCHANGED <<asked, mapped, closing, reconciled, late>> /\ rows' = rows \cup {RowOf(c)}
    BY <1>9, AppendFacts DEF sessVars
  <2>2. RowOf(c).kind # "card" /\ RowOf(c).verdict # "cancel"
    BY <1>9, AppendFacts, RowFacts
  <2> QED
    BY <2>1, <2>2, <1>k
<1> QED
  BY ApSteps, <1>1, <1>2, <1>3, <1>4, <1>5, <1>6, <1>7, <1>8, <1>9

LEMMA RequestsKept == ApInv /\ ApTypeOK' /\ ApprovalNext => \A r \in Requests : RequestOK(r)'
<1> SUFFICES ASSUME ApInv, ApTypeOK', ApprovalNext, NEW q \in Requests PROVE RequestOK(q)'
  OBVIOUS
<1>0. ApTypeOK /\ CallsOK /\ RequestOK(q) /\ (\A r \in Requests : RequestOK(r))
      /\ pending \in SUBSET Requests /\ decision \in [Requests -> Words] /\ told \in [Requests -> Words]
      /\ waiter \in [Requests -> {"new", "emit", "wait", "reply", "card", "done"}]
      /\ call \in [Callers -> Call]
  BY DEF ApInv, ApTypeOK
<1>1. ASSUME NEW r \in Requests, Serves(r) PROVE RequestOK(q)'
  <2>0. UNCHANGED <<cli, asked, up, told, events, rows, call>> /\ waiter[r] = "new"
    BY <1>0, <1>1, ServesFacts DEF KeepCard
  <2>1. Said(q)' = Said(q) /\ (Carded(q)' <=> Carded(q))
    BY <2>0, SameSays, SameCarded DEF Adds
  <2>2. CASE q # r
    <3>1. waiter'[q] = waiter[q] /\ decision'[q] = decision[q] /\ (q \in pending' <=> q \in pending)
      BY <1>0, <1>1, <2>2, ServesFacts DEF Registers, AnswersAtOnce, GivesUp
    <3> QED
      BY <1>0, <2>0, <2>1, <3>1, Untouched
  <2>3. CASE q = r
    <3>1. Said(q) = {} /\ told[q] = "none" /\ decision[q] = "none" /\ q \notin pending /\ ~Carded(q)
      BY <1>0, <2>0, <2>3 DEF RequestOK
    <3>2. \/ /\ waiter'[q] = "emit" /\ decision'[q] = "none" /\ q \in pending'
             /\ up \/ (cli = "claude" /\ q \in Perms)
          \/ waiter'[q] = "reply" /\ decision'[q] # "none" /\ q \notin pending'
          \/ waiter'[q] = "done" /\ decision'[q] = "none" /\ q \notin pending'
      BY <1>0, <1>1, <2>3, <3>1, ServesFacts DEF Registers, AnswersAtOnce, GivesUp
    <3>3. Perms' = Perms
      BY <2>0 DEF Perms
    <3> QED
      BY <2>0, <2>1, <3>1, <3>2, <3>3 DEF RequestOK, AtOnce
  <2> QED
    BY <2>2, <2>3
<1>2. ASSUME NEW r \in Requests, EmitCard(r) PROVE RequestOK(q)'
  <2>0. /\ UNCHANGED <<cli, asked, up, pending, decision, told, rows, call>> /\ waiter[r] = "emit"
        /\ waiter' = [waiter EXCEPT ![r] = IF NobodyWaits(r) THEN "card" ELSE "wait"]
        /\ \A x \in Requests \ {r} : Carded(x)' <=> Carded(x)
    BY <1>0, <1>2, ApEmitFacts
  <2>1. Said(q)' = Said(q)
    BY <2>0, SameSays DEF Adds
  <2>2. CASE q # r
    BY <1>0, <2>0, <2>1, <2>2, Untouched
  <2>3. CASE q = r
    <3>1. waiter[q] = "emit" /\ waiter'[q] = (IF NobodyWaits(q) THEN "card" ELSE "wait")
      BY <1>0, <2>0, <2>3
    <3>2. (NobodyWaits(q)' <=> NobodyWaits(q)) /\ Asks' = Asks /\ ResultKind(q)' = ResultKind(q) /\ Perms' = Perms
      BY <2>0 DEF NobodyWaits, Perms, Asks, ResultKind
    <3> QED
      BY <1>0, <2>0, <2>1, <3>1, <3>2 DEF RequestOK, AtOnce
  <2> QED
    BY <2>2, <2>3
<1>3. ASSUME NEW r \in Requests, Receive(r) PROVE RequestOK(q)'
  <2>0. /\ UNCHANGED <<cli, asked, up, pending, told, events, rows, call>>
        /\ waiter[r] = "wait" /\ decision[r] # "none"
        /\ \/ waiter' = [waiter EXCEPT ![r] = "done"] /\ decision' = [decision EXCEPT ![r] = "none"]
           \/ waiter' = [waiter EXCEPT ![r] = "reply"] /\ decision' = decision
    BY <1>0, <1>3, ReceiveFacts
  <2>1. Said(q)' = Said(q) /\ (Carded(q)' <=> Carded(q))
    BY <2>0, SameSays, SameCarded DEF Adds
  <2>2. CASE q # r
    BY <1>0, <2>0, <2>1, <2>2, Untouched
  <2>3. CASE q = r
    <3>1. /\ waiter[q] = "wait" /\ decision[q] # "none"
          /\ \/ waiter'[q] = "done" /\ decision'[q] = "none"
             \/ waiter'[q] = "reply" /\ decision'[q] = decision[q]
      BY <1>0, <2>0, <2>3
    <3>2. Asks' = Asks /\ ResultKind(q)' = ResultKind(q)
      BY <2>0 DEF Asks, ResultKind
    <3> QED
      BY <1>0, <2>0, <2>1, <3>1, <3>2 DEF RequestOK, AtOnce
  <2> QED
    BY <2>2, <2>3
<1>4. ASSUME NEW r \in Requests, WriteReply(r) PROVE RequestOK(q)'
  <2>0. /\ UNCHANGED <<cli, asked, up, pending, events, rows, call>> /\ HasReply(r)
        /\ waiter' = (IF waiter[r] = "emit" THEN waiter ELSE [waiter EXCEPT ![r] = "done"])
        /\ decision' = [decision EXCEPT ![r] = "none"]
        /\ IF up THEN told' = [told EXCEPT ![r] = Reply(r)] ELSE told' = told
    BY <1>0, <1>4, ReplyFacts
  <2>1. Said(q)' = Said(q) /\ (Carded(q)' <=> Carded(q))
    BY <2>0, SameSays, SameCarded DEF Adds
  <2>2. CASE q # r
    <3>1. waiter'[q] = waiter[q] /\ decision'[q] = decision[q] /\ told'[q] = told[q]
      BY <1>0, <2>0, <2>2
    <3> QED
      BY <1>0, <2>0, <2>1, <3>1, Untouched
  <2>3. CASE q = r
    <3>1. /\ waiter'[q] = (IF waiter[q] = "emit" THEN "emit" ELSE "done") /\ decision'[q] = "none"
          /\ (IF up THEN told'[q] = Reply(q) ELSE told'[q] = told[q])
      BY <1>0, <2>0, <2>3
    <3>2. decision[q] # "none" /\ (waiter[q] = "emit" => NobodyWaits(q))
      BY <1>0, <2>0, <2>3 DEF HasReply, RequestOK
    <3>3. Asks' = Asks /\ ResultKind(q)' = ResultKind(q) /\ (NobodyWaits(q)' <=> NobodyWaits(q))
      BY <2>0 DEF Asks, ResultKind, NobodyWaits, Perms
    <3>4. waiter[q] # "new" /\ q \notin pending
      BY <1>0, <3>2 DEF RequestOK
    <3>5. up => \A w \in Said(q) : w.kind = ResultKind(q) => Reply(q) = w.verdict
      BY <1>0, <3>2 DEF RequestOK, Reply, AnswerOf
    <3>6. up => Said(q) # {} \/ AtOnce(q)
      BY <1>0, <3>2 DEF RequestOK
    <3>7. ~up => told[q] = "none" \/ Said(q) # {} \/ AtOnce(q)
      BY <1>0, <3>2 DEF RequestOK
    <3>8. AtOnce(q) => AtOnce(q)'
      BY <2>1, <3>1 DEF AtOnce
    <3>9. \A w \in Said(q) : w.kind = ResultKind(q) => told'[q] \in {"none", w.verdict}
      BY <1>0, <3>1, <3>5 DEF RequestOK
    <3>10. \A w, x \in Said(q) : w = x
      BY <1>0 DEF RequestOK
    <3>11. \A w \in Said(q) : /\ w.kind = ResultKind(q) \/ (q \in Asks /\ w.kind = "approve")
                              /\ w.kind = ResultKind(q) => (q \in Asks => w.verdict \in {"answer", "deny"})
      BY <1>0 DEF RequestOK
    <3>12. up /\ (Carded(q) \/ waiter[q] \in {"emit", "wait", "card"}) => Said(q) # {}
      BY <1>0, <3>4 DEF RequestOK
    <3> QED
      BY <2>0, <2>1, <3>1, <3>2, <3>3, <3>4, <3>6, <3>7, <3>8, <3>9, <3>10, <3>11, <3>12 DEF RequestOK
  <2> QED
    BY <2>2, <2>3
<1>5. ASSUME NEW r \in Requests, CloseCard(r) PROVE RequestOK(q)'
  <2> DEFINE x == Result(ResultKind(r), r, "cancel")
  <2>0. /\ UNCHANGED <<cli, asked, up, pending, decision, waiter, told, events, call>> /\ rows' = rows \cup {x}
        /\ x.verdict = "cancel" /\ x.kind # "card" /\ \A y : x # Card(y)
    BY <1>5, CloseFacts DEF Result, ResultKind, Card
  <2> HIDE DEF x
  <2>1. Carded(q)' <=> Carded(q)
    BY <2>0 DEF Carded, OnItsWay
  <2>2. Said(q)' = Said(q)
    <3>1. \A c : (Adds(c, q)' <=> Adds(c, q)) /\ RowOf(c)' = RowOf(c)
      BY <2>0 DEF Adds, RowOf, ResultKind, Asks
    <3>2. \A w : w \in Said(q)' <=> w \in Said(q)
      BY <2>0, <3>1 DEF Said, IsSaid
    <3> QED
      BY <3>2
  <2> QED
    BY <1>0, <2>0, <2>1, <2>2, Untouched
<1>6. CASE Exit
  <2>0. /\ up /\ ~up' /\ UNCHANGED <<cli, asked, waiter, told, events, rows, call>> /\ pending' = {}
        /\ decision'[q] = IF q \in pending /\ ~NobodyWaits(q) /\ decision[q] = "none" THEN "deny" ELSE decision[q]
    BY <1>0, <1>6, ExitFacts
  <2>1. Said(q)' = Said(q) /\ (Carded(q)' <=> Carded(q))
    BY <2>0, SameSays, SameCarded DEF Adds
  <2>2. Asks' = Asks /\ ResultKind(q)' = ResultKind(q) /\ (NobodyWaits(q)' <=> NobodyWaits(q))
    BY <2>0 DEF Asks, ResultKind, NobodyWaits, Perms
  <2>3. AtOnce(q)' <=> AtOnce(q)
    BY <2>0, <2>1 DEF AtOnce
  <2>4. CASE q \in pending
    <3>1. Said(q) = {} /\ told[q] = "none" /\ decision[q] = "none" /\ waiter[q] # "new" /\ waiter[q] # "reply"
      BY <1>0, <2>4 DEF RequestOK
    <3> QED
      BY <2>0, <2>1, <2>2, <2>4, <3>1 DEF RequestOK
  <2>5. CASE q \notin pending
    <3>1. decision'[q] = decision[q]
      BY <2>0, <2>5
    <3> QED
      BY <1>0, <2>0, <2>1, <2>2, <2>3, <2>5, <3>1 DEF RequestOK
  <2> QED
    BY <2>4, <2>5
<1>7. CASE CloseEvents \/ PumpEnds \/ Restart \/ Register
  <2>0. UNCHANGED <<cli, asked, up, pending, decision, waiter, told, events, rows, call>>
    BY <1>7, TurnFacts
  <2>1. Said(q)' = Said(q) /\ (Carded(q)' <=> Carded(q))
    BY <2>0, SameSays, SameCarded DEF Adds
  <2> QED
    BY <1>0, <2>0, <2>1, Untouched
<1>8. CASE Pump
  <2>0. UNCHANGED <<cli, asked, up, pending, decision, waiter, told>> /\ Said(q)' = Said(q) /\ (Carded(q)' <=> Carded(q))
    BY <1>0, <1>8, PumpFacts
  <2> QED
    BY <1>0, <2>0, Untouched
<1>9. CASE CallBegins
  <2>0. /\ UNCHANGED <<cli, asked, up, pending, decision, waiter, told, events, rows>>
        /\ \E c \in Callers : /\ \A d \in Callers \ {c} : call'[d] = call[d]
                              /\ call[c].step # "append" /\ call'[c].step # "append"
    BY <1>0, <1>9, BeginFacts DEF Between
  <2>1. Said(q)' = Said(q) /\ (Carded(q)' <=> Carded(q))
    BY <2>0, SameSays, SameCarded DEF Adds
  <2> QED
    BY <1>0, <2>0, <2>1, Untouched
<1>10. ASSUME NEW c \in Callers, Resolve(c) PROVE RequestOK(q)'
  <2>0. /\ UNCHANGED <<cli, asked, up, waiter, told, events, rows>> /\ call[c].step = "resolve"
        /\ \A d \in Callers \ {c} : call'[d] = call[d]
    BY <1>0, <1>10, ResolveFacts
  <2>1. PICK r \in Requests : r = call[c].req
    BY <1>0, <2>0 DEF CallsOK
  <2>c. Carded(q)' <=> Carded(q)
    BY <2>0, SameCarded
  <2>2. CASE UNCHANGED <<pending, decision>> /\ Between(call'[c])
    <3>1. Said(q)' = Said(q)
      BY <2>0, <2>2, SameSays DEF Adds, Between
    <3> QED
      BY <1>0, <2>0, <2>2, <2>c, <3>1, Untouched
  <2>3. CASE /\ r \in pending /\ pending' = pending \ {r}
             /\ decision' = [decision EXCEPT ![r] = Given(call[c].verdict)]
             /\ call'[c].step = "append" /\ call'[c].req = r
             /\ call'[c].verdict = call[c].verdict /\ call'[c].by = call[c].by
    <3>1. CASE q # r
      <4>1. Said(q)' = Said(q)
        BY <2>0, <2>1, <2>3, <3>1, SameSays DEF Adds
      <4> QED
        BY <1>0, <2>0, <2>3, <2>c, <3>1, <4>1, Untouched
    <3>2. CASE q = r
      <4>1. Said(q) = {} /\ told[q] = "none" /\ decision[q] = "none" /\ waiter[q] # "new"
        BY <1>0, <2>3, <3>2 DEF RequestOK
      <4>2. RowOf(c)' = RowOf(c)
        BY <2>0, <2>1, <2>3 DEF RowOf, ResultKind, Asks
      <4>3. Said(q)' = {RowOf(c)}
        <5>1. \A d \in Callers : Adds(d, q)' <=> d = c
          <6>1. Adds(c, q)'
            BY <2>3, <3>2 DEF Adds
          <6>2. ASSUME NEW d \in Callers \ {c} PROVE ~Adds(d, q)'
            BY <2>0, <4>1 DEF Adds, Said
          <6> QED
            BY <6>1, <6>2
        <5>2. \A w \in rows' : ~IsSaid(w, q)
          BY <2>0, <4>1 DEF Said
        <5>3. \A w : w \in Said(q)' <=> w = RowOf(c)
          BY <4>2, <5>1, <5>2 DEF Said, Adds
        <5> QED
          BY <5>3
      <4>4. decision'[q] = Given(call[c].verdict) /\ q \notin pending'
        BY <1>0, <2>3, <3>2
      <4>5. /\ RowOf(c).verdict = decision'[q] /\ decision'[q] # "none"
            /\ RowOf(c).kind = ResultKind(q) \/ (q \in Asks /\ RowOf(c).kind = "approve")
            /\ RowOf(c).kind = ResultKind(q) /\ q \in Asks => RowOf(c).verdict \in {"answer", "deny"}
        BY <1>0, <2>0, <2>1, <3>2, <4>4, RowFacts
      <4>6. Asks' = Asks /\ ResultKind(q)' = ResultKind(q)
        BY <2>0 DEF Asks, ResultKind
      <4> QED
        BY <2>0, <4>1, <4>3, <4>4, <4>5, <4>6 DEF RequestOK
    <3> QED
      BY <3>1, <3>2
  <2> QED
    BY <1>0, <1>10, <2>1, <2>2, <2>3, ResolveFacts
<1>11. ASSUME NEW c \in Callers, AppendResult(c) PROVE RequestOK(q)'
  <2>0. /\ UNCHANGED <<cli, asked, up, pending, decision, waiter, told, events>> /\ call[c].step = "append"
        /\ rows' = rows \cup {RowOf(c)} /\ call'[c].step # "append"
        /\ \A d \in Callers \ {c} : call'[d] = call[d]
    BY <1>0, <1>11, AppendFacts DEF Between
  <2>1. RowOf(c).kind # "card" /\ RowOf(c).verdict # "cancel" /\ RowOf(c).req = call[c].req
    BY <1>0, <2>0, RowFacts
  <2>2. Carded(q)' <=> Carded(q)
    <3>1. Card(q) # RowOf(c)
      BY <2>1 DEF Card
    <3> QED
      BY <2>0, <3>1 DEF Carded, OnItsWay
  <2>3. Said(q)' = Said(q)
    <3>1. \A d \in Callers \ {c} : (Adds(d, q)' <=> Adds(d, q)) /\ RowOf(d)' = RowOf(d)
      BY <2>0 DEF Adds, RowOf, ResultKind, Asks
    <3>2. ~Adds(c, q)' /\ (Adds(c, q) <=> RowOf(c).req = q)
      BY <2>0, <2>1 DEF Adds
    <3>3. \A w : w \in rows' /\ IsSaid(w, q) <=> (w \in rows /\ IsSaid(w, q)) \/ (w = RowOf(c) /\ Adds(c, q))
      BY <2>0, <2>1, <3>2 DEF IsSaid
    <3>4. \A w : (\E d \in Callers : Adds(d, q) /\ w = RowOf(d))
                 <=> (\E d \in Callers \ {c} : Adds(d, q) /\ w = RowOf(d)) \/ (w = RowOf(c) /\ Adds(c, q))
      OBVIOUS
    <3>5. \A w : (\E d \in Callers : Adds(d, q)' /\ w = RowOf(d)')
                 <=> (\E d \in Callers \ {c} : Adds(d, q) /\ w = RowOf(d))
      BY <3>1, <3>2
    <3>6. \A w : w \in Said(q) <=> (w \in rows /\ IsSaid(w, q)) \/ \E d \in Callers : Adds(d, q) /\ w = RowOf(d)
      BY DEF Said
    <3>7. \A w : w \in Said(q)' <=> (w \in rows' /\ IsSaid(w, q)) \/ \E d \in Callers : Adds(d, q)' /\ w = RowOf(d)'
      BY DEF Said
    <3>8. \A w : w \in Said(q)' <=> w \in Said(q)
      BY <3>3, <3>4, <3>5, <3>6, <3>7
    <3> QED
      BY <3>8
  <2> QED
    BY <1>0, <2>0, <2>2, <2>3, Untouched
<1> QED
  BY ApSteps, <1>1, <1>2, <1>3, <1>4, <1>5, <1>6, <1>7, <1>8, <1>9, <1>10, <1>11

-----------------------------------------------------------------------------
LEMMA ApInitially == ApprovalInit => ApInv
<1> SUFFICES ASSUME ApprovalInit PROVE ApInv
  OBVIOUS
<1>1. /\ up = TRUE /\ pending = {} /\ events = <<>> /\ rows = {} /\ closing = {} /\ reconciled = FALSE /\ mapped = "this"
      /\ decision = [r \in Requests |-> "none"] /\ waiter = [r \in Requests |-> "new"]
      /\ told = [r \in Requests |-> "none"] /\ call = [c \in Callers |-> Idle]
  BY DEF ApprovalInit
<1>2. events \in Seq(Requests) /\ Len(events) = 0
  BY <1>1
<1>3. ApTypeOK
  <2>1. cli \in {"claude", "codex", "pi"} /\ asked \in [Requests -> {"perm", "ask", "blank"}]
    BY DEF ApprovalInit
  <2>2. /\ decision \in [Requests -> Words] /\ told \in [Requests -> Words]
        /\ waiter \in [Requests -> {"new", "emit", "wait", "reply", "card", "done"}]
    BY <1>1 DEF Words
  <2>3. call \in [Callers -> Call]
    BY <1>1, IdleFacts
  <2> QED
    BY <1>1, <1>2, <2>1, <2>2, <2>3 DEF ApTypeOK
<1>4. CallsOK /\ TakeoverOK
  BY <1>1, IdleFacts DEF CallsOK, TakeoverOK
<1>5. ASSUME NEW r \in Requests PROVE RequestOK(r)
  <2>1. ~Carded(r) /\ Said(r) = {}
    <3>1. \A c : ~Adds(c, r)
      BY <1>1, IdleFacts DEF Adds
    <3>2. ~OnItsWay(r)
      BY <1>2 DEF OnItsWay
    <3> QED
      BY <1>1, <3>1, <3>2 DEF Carded, Said
  <2>2. waiter[r] = "new" /\ told[r] = "none" /\ decision[r] = "none" /\ r \notin pending
    BY <1>1
  <2> QED
    BY <2>1, <2>2 DEF RequestOK
<1> QED
  BY <1>3, <1>4, <1>5 DEF ApInv

LEMMA ApKept == ApInv /\ [ApprovalNext]_approvalVars => ApInv'
<1>1. CASE ApprovalNext
  BY <1>1, ApTyped, CallsKept, TakeoverKept, RequestsKept DEF ApInv
<1>2. ASSUME UNCHANGED approvalVars, ApInv PROVE ApInv'
  <2>1. UNCHANGED <<cli, asked, up, pending, decision, waiter, told, events, rows, call, mapped, closing, reconciled, late>>
    BY <1>2 DEF approvalVars, procVars, sessVars
  <2>2. ApTypeOK' /\ CallsOK' /\ TakeoverOK'
    BY <1>2, <2>1 DEF ApInv, ApTypeOK, CallsOK, Verdicts, Asks, TakeoverOK, OpenCards, Results, ResultKind, Card
  <2>3. ASSUME NEW r \in Requests PROVE RequestOK(r)'
    <3>1. Said(r)' = Said(r) /\ (Carded(r)' <=> Carded(r))
      BY <2>1, SameSays, SameCarded DEF Adds
    <3> QED
      BY <1>2, <2>1, <3>1, Untouched DEF ApInv
  <2> QED
    BY <2>2, <2>3 DEF ApInv
<1> QED
  BY <1>1, <1>2

\* What the timeline says of a request is what the CLI was told of it, one result
\* and the users' own, whatever answers it: users, a change of the mode, the exit
\* (Resolve, Answer, Approve, waitExit, reconcilePending).
THEOREM AnswersAreTold == ApprovalSpec => []RecordedAsTold
<1>1. ApInv => RecordedAsTold
  <2> SUFFICES ASSUME ApInv, NEW r \in Requests, told[r] # "none", Card(r) \in rows, ~UnderWay(r), r \notin Swept
               PROVE  {w.verdict : w \in {x \in Results(r) : x.verdict # "cancel" \/ ~reconciled}} = {told[r]}
    BY DEF RecordedAsTold
  <2>0. RequestOK(r) /\ told[r] # "none" /\ (~reconciled => \A w \in rows : w.verdict # "cancel")
    BY DEF ApInv, TakeoverOK
  <2>1. Said(r) # {}
    BY <2>0 DEF RequestOK, AtOnce, Carded
  <2>2. \A w : w \in Said(r) <=> w \in rows /\ IsSaid(w, r)
    BY DEF Said, Adds, UnderWay
  <2>3. \A w \in Said(r) : w.kind = ResultKind(r)
    BY <2>0, <2>2 DEF RequestOK, Swept, IsSaid
  <2>4. \A w \in Said(r) : w.verdict = told[r]
    BY <2>0, <2>3 DEF RequestOK
  <2>5. ResultKind(r) # "card"
    BY DEF ResultKind
  <2>6. \A w : w \in Said(r) <=> w \in {x \in Results(r) : x.verdict # "cancel" \/ ~reconciled}
    BY <2>0, <2>2, <2>3, <2>5 DEF IsSaid, Results
  <2> QED
    BY <2>1, <2>4, <2>6
<1> QED
  BY <1>1, ApInitially, ApKept, PTL DEF ApprovalSpec

\* Whoever waits for an answer can still get it, and every card that stands open
\* can still be answered or is closed by the process that takes over (emit,
\* waitExit, reconcilePending).
THEOREM NobodyIsForgotten == ApprovalSpec => []CardsAndWaitersAgree
<1>1. ApInv => CardsAndWaitersAgree
  <2> SUFFICES ASSUME ApInv PROVE OpenCardAnswerable /\ NoWaiterForgotten
    BY DEF CardsAndWaitersAgree
  <2>1. NoWaiterForgotten
    BY DEF ApInv, RequestOK, NoWaiterForgotten
  <2>2. ASSUME NEW r \in OpenCards, up PROVE r \in pending \/ UnderWay(r) \/ r \in Swept
    <3>0. r \in Requests /\ Card(r) \in rows /\ Results(r) = {} /\ RequestOK(r)
      BY <2>2 DEF OpenCards, ApInv
    <3>1. r \in pending \/ \E w : w \in Said(r)
      BY <2>2, <3>0 DEF RequestOK, Carded
    <3>2. ASSUME NEW w \in Said(r), ~UnderWay(r) PROVE r \in Swept
      <4>1. w \in rows /\ IsSaid(w, r)
        BY <3>2 DEF Said, Adds, UnderWay
      <4>2. w.kind # ResultKind(r)
        BY <3>0, <4>1 DEF Results, IsSaid
      <4>3. r \in Asks /\ w.kind = "approve"
        BY <3>0, <4>2 DEF RequestOK
      <4> QED
        BY <4>1, <4>3 DEF Swept, IsSaid
    <3> QED
      BY <3>1, <3>2
  <2>3. mapped = "next" => OpenCards \subseteq closing \cup late
    BY DEF ApInv, TakeoverOK
  <2> QED
    BY <2>1, <2>2, <2>3 DEF OpenCardAnswerable
<1> QED
  BY <1>1, ApInitially, ApKept, PTL DEF ApprovalSpec
=============================================================================
