----------------------------- MODULE HostProofs -----------------------------
(***************************************************************************)
(* What holds of the host's components for every number of commands,       *)
(* pages and requests.  They share no state; each has its part here.       *)
(***************************************************************************)
EXTENDS GitCredentials, SystemMonitor, FileWrites, TermLimits, AIProfiles, FiniteSetTheorems, TLAPS

-----------------------------------------------------------------------------
(***************************************************************************)
(* GitCredentials: prompts of git and the answers of pages.                *)
(***************************************************************************)
Fates == Unseen \cup {"cancelled", "disconnected"}
CredTypeOK ==
  /\ gitAt \in [GitCommands -> {"none", "runs", "asks", "gone"}]
  /\ given \in [GitCommands -> Seq(Nat)]
  /\ pending \subseteq GitCommands
  /\ reply \in [GitCommands -> SUBSET Nat]
  /\ popup \in [Pages -> SUBSET GitCommands] /\ handler \subseteq Pages
  /\ typed \in Seq(GitCommands)
  /\ link \in [Pages -> {"off", "on", "dead", "closing"}]
  /\ fate \in [GitCommands -> SUBSET Fates]

Forgotten(g) == fate[g] \cap {"cancelled", "disconnected"} # {}
OwnAnswer(g, n) == n <= Len(typed) /\ typed[n] = g

\* An answer is the command's own; a blank one means that somebody gave up.
RepliesOK ==
  \A g \in GitCommands :
    /\ \A m, n \in reply[g] : m = n
    /\ \A n \in reply[g] : IF n = 0 THEN Forgotten(g) \/ gitAt[g] = "gone" ELSE OwnAnswer(g, n)

\* So is what git was given; as long as nobody gives up, the entry is there and
\* holds the answer to the first prompt.
GivenOK ==
  \A g \in GitCommands :
    /\ \A i \in DOMAIN given[g] :
         IF given[g][i] = 0 THEN Forgotten(g) ELSE OwnAnswer(g, given[g][i])
    /\ Len(given[g]) <= 2 /\ (gitAt[g] = "asks" => Len(given[g]) < 2)
    /\ Len(given[g]) = 2 /\ ~Forgotten(g) => given[g][1] = given[g][2]
    /\ ~Forgotten(g) /\ gitAt[g] # "gone" /\ Len(given[g]) > 0 => g \in pending /\ reply[g] = {given[g][1]}
    /\ ~Forgotten(g) /\ gitAt[g] = "asks" => g \in pending

\* A prompt without an answer is in the broker's map and, but for what may
\* befall it, on a page.
PromptsOK ==
  /\ \A b \in Pages : \A g, h \in popup[b] : g = h
  /\ \A g \in GitCommands : gitAt[g] = "asks" /\ reply[g] = {} => g \in pending
  /\ PromptSeen

CredInv == CredTypeOK /\ RepliesOK /\ GivenOK /\ PromptsOK

-----------------------------------------------------------------------------
LEMMA UpToTwo == \A k \in Nat : k < 2 => k = 0 \/ k = 1
OBVIOUS

LEMMA CredTyped == CredTypeOK /\ CredNext => CredTypeOK'
<1> SUFFICES ASSUME CredTypeOK, CredNext PROVE CredTypeOK'
  OBVIOUS
<1> USE DEF CredTypeOK, git, page
<1>1. ASSUME NEW g \in GitCommands, RunWithCreds(g) PROVE CredTypeOK'
  BY <1>1 DEF RunWithCreds
<1>2. ASSUME NEW g \in GitCommands, Ask(g) PROVE CredTypeOK'
  <2>1. popup' \in [Pages -> SUBSET GitCommands]
    BY <1>2 DEF Ask, Tell
  <2>2. fate' \in [GitCommands -> SUBSET Fates]
    BY <1>2 DEF Ask, Tell, Fates, Unseen
  <2> QED
    BY <1>2, <2>1, <2>2 DEF Ask, Registered
<1>3. ASSUME NEW g \in GitCommands, AwaitReturns(g) PROVE CredTypeOK'
  <2>1. given' = given \/ \E n \in reply[g] : given' = [given EXCEPT ![g] = Append(given[g], n)]
    BY <1>3 DEF AwaitReturns
  <2>2. given' \in [GitCommands -> Seq(Nat)]
    <3>1. ASSUME NEW n \in reply[g] PROVE Append(given[g], n) \in Seq(Nat)
      <4>1. n \in Nat /\ given[g] \in Seq(Nat)
        OBVIOUS
      <4> QED
        BY <4>1
    <3>2. ASSUME NEW s \in Seq(Nat), given' = [given EXCEPT ![g] = s]
          PROVE  given' \in [GitCommands -> Seq(Nat)]
      BY <3>2
    <3> QED
      BY <2>1, <3>1, <3>2
  <2>3. gitAt' \in [GitCommands -> {"none", "runs", "asks", "gone"}]
    BY <1>3 DEF AwaitReturns
  <2> QED
    BY <1>3, <2>2, <2>3 DEF AwaitReturns
<1>4. ASSUME NEW g \in GitCommands, GitEnds(g) PROVE CredTypeOK'
  BY <1>4 DEF GitEnds
<1>5. ASSUME NEW S \in SUBSET GitCommands, Dismiss(S)
      PROVE  pending' \subseteq GitCommands /\ reply' \in [GitCommands -> SUBSET Nat]
  BY <1>5 DEF Dismiss
<1>6. ASSUME NEW g \in GitCommands, TimesOut(g) PROVE CredTypeOK'
  BY <1>5, <1>6 DEF TimesOut
<1>7. ASSUME NEW b \in Pages, Submit(b) PROVE CredTypeOK'
  BY <1>7 DEF Submit
<1>8. ASSUME NEW S \in SUBSET GitCommands, NEW what \in Fates, Befalls(S, what)
      PROVE  fate' \in [GitCommands -> SUBSET Fates]
  BY <1>8 DEF Befalls
<1>9. ASSUME NEW b \in Pages, Cancel(b) PROVE CredTypeOK'
  <2>1. popup[b] \in SUBSET GitCommands /\ "cancelled" \in Fates
    BY DEF Fates
  <2> QED
    BY <1>9, <1>5, <1>8, <2>1 DEF Cancel
<1>10. ASSUME NEW b \in Pages, CancelAll(b) PROVE CredTypeOK'
  <2>1. pending \in SUBSET GitCommands /\ "disconnected" \in Fates
    BY DEF Fates
  <2> QED
    BY <1>10, <1>5, <1>8, <2>1 DEF CancelAll
<1>11. ASSUME NEW b \in Pages, Connect(b) \/ Drop(b) \/ HalfOpen(b) PROVE CredTypeOK'
  <2>1. popup' \in [Pages -> SUBSET GitCommands]
    <3>1. CASE Drop(b)
      <4>1. PICK keep \in {popup[b], {}} : popup' = [popup EXCEPT ![b] = keep]
        BY <3>1 DEF Drop
      <4> QED
        BY <4>1
    <3> QED
      BY <1>11, <3>1 DEF Connect, HalfOpen
  <2>2. link' \in [Pages -> {"off", "on", "dead", "closing"}]
    BY <1>11 DEF Connect, Drop, HalfOpen
  <2>3. handler' \subseteq Pages /\ UNCHANGED <<pending, reply, typed, fate, git>>
    BY <1>11 DEF Connect, Drop, HalfOpen
  <2> QED
    BY <2>1, <2>2, <2>3
<1> QED
  BY <1>1, <1>2, <1>3, <1>4, <1>6, <1>7, <1>9, <1>10, <1>11 DEF CredNext

-----------------------------------------------------------------------------
\* Whoever gave up has given up, an answer that was typed stays the command's.
LEMMA CredGrows ==
  ASSUME CredTypeOK, CredNext
  PROVE  /\ \A g \in GitCommands : Forgotten(g) => Forgotten(g)'
         /\ \A g \in GitCommands : \A n \in Nat \ {0} : OwnAnswer(g, n) => OwnAnswer(g, n)'
         /\ \A g \in GitCommands : gitAt[g] = "gone" => gitAt'[g] = "gone"
<1> USE DEF CredTypeOK, git, page
<1>1. ASSUME NEW g \in GitCommands, Forgotten(g) PROVE Forgotten(g)'
  <2>1. fate[g] \cap {"cancelled", "disconnected"} \subseteq fate'[g]
    <3>1. ASSUME NEW h \in GitCommands, Tell(h) PROVE fate[g] \cap {"cancelled", "disconnected"} \subseteq fate'[g]
      BY <3>1 DEF Tell, Unseen
    <3>2. ASSUME NEW S, NEW what, Befalls(S, what) PROVE fate[g] \cap {"cancelled", "disconnected"} \subseteq fate'[g]
      BY <3>2 DEF Befalls
    <3>3. \/ fate' = fate
          \/ \E h \in GitCommands : Tell(h)
          \/ \E S, what : Befalls(S, what)
      BY DEF CredNext, RunWithCreds, Ask, AwaitReturns, GitEnds, TimesOut, Submit, Cancel, Connect,
             Drop, CancelAll, HalfOpen
    <3> QED
      BY <3>1, <3>2, <3>3
  <2> QED
    BY <1>1, <2>1 DEF Forgotten
<1>2. typed' = typed \/ \E g \in GitCommands : typed' = Append(typed, g)
  BY DEF CredNext, RunWithCreds, Ask, AwaitReturns, GitEnds, TimesOut, Submit,
         Cancel, Connect, Drop, CancelAll, HalfOpen
<1>3. ASSUME NEW g \in GitCommands, NEW n \in Nat \ {0}, OwnAnswer(g, n) PROVE OwnAnswer(g, n)'
  <2>1. CASE typed' = typed
    BY <1>3, <2>1 DEF OwnAnswer
  <2>2. ASSUME NEW h \in GitCommands, typed' = Append(typed, h) PROVE OwnAnswer(g, n)'
    <3>1. Len(typed') = Len(typed) + 1 /\ Len(typed) \in Nat /\ \A i \in 1..Len(typed) : typed'[i] = typed[i]
      BY <2>2
    <3> QED
      BY <1>3, <3>1 DEF OwnAnswer
  <2> QED
    BY <1>2, <2>1, <2>2
<1>4. ASSUME NEW g \in GitCommands, gitAt[g] = "gone" PROVE gitAt'[g] = "gone"
  BY <1>4 DEF CredNext, RunWithCreds, Ask, AwaitReturns, GitEnds, TimesOut, Submit,
              Cancel, Connect, Drop, CancelAll, HalfOpen
<1> QED
  BY <1>1, <1>3, <1>4

\* What Dismiss leaves of an entry's answers.
LEMMA Dismissed ==
  ASSUME CredTypeOK, NEW S \in SUBSET GitCommands, Dismiss(S)
  PROVE  /\ pending' = pending \ S
         /\ \A g \in GitCommands : g \notin S => reply'[g] = reply[g]
         /\ \A g \in GitCommands : reply[g] # {} => reply'[g] = reply[g]
         /\ \A g \in GitCommands : reply'[g] = reply[g] \/ reply'[g] = {0}
         /\ \A g \in S : g \in pending => reply'[g] # {}
BY DEF Dismiss, CredTypeOK

LEMMA RepliesKept == CredInv /\ CredTypeOK' /\ CredNext => RepliesOK'
<1> SUFFICES ASSUME CredInv, CredTypeOK', CredNext PROVE RepliesOK'
  OBVIOUS
<1> DEFINE Fine(g, R) == /\ \A m, n \in R : m = n
                         /\ \A n \in R : IF n = 0 THEN Forgotten(g) \/ gitAt[g] = "gone" ELSE OwnAnswer(g, n)
<1>0. /\ CredTypeOK /\ \A g \in GitCommands : Fine(g, reply[g])
      /\ \A g \in GitCommands : reply[g] \subseteq Nat
  BY DEF CredInv, RepliesOK, CredTypeOK
<1>1. ASSUME NEW g \in GitCommands, reply'[g] = reply[g] \/ reply'[g] = {}
      PROVE  Fine(g, reply[g])'
  BY <1>0, <1>1, CredGrows DEF OwnAnswer
<1>2. ASSUME NEW g \in GitCommands, reply'[g] = {0}, Forgotten(g)' \/ gitAt'[g] = "gone"
      PROVE  Fine(g, reply[g])'
  BY <1>2
<1>3. ASSUME NEW g \in GitCommands, RunWithCreds(g) \/ AwaitReturns(g) \/ GitEnds(g) \/ Ask(g)
      PROVE  \A h \in GitCommands : reply'[h] = reply[h] \/ reply'[h] = {}
  BY <1>3, <1>0 DEF RunWithCreds, AwaitReturns, GitEnds, Ask, Registered, page, CredTypeOK
<1>4. ASSUME NEW g \in GitCommands, TimesOut(g)
      PROVE  \A h \in GitCommands : Fine(h, reply[h])'
  <2>1. Dismiss({g}) /\ gitAt'[g] = "gone"
    BY <1>4 DEF TimesOut, git
  <2> QED
    BY <2>1, <1>0, <1>1, <1>2, Dismissed
<1>5. ASSUME NEW b \in Pages, Submit(b)
      PROVE  \A h \in GitCommands : Fine(h, reply[h])'
  <2>1. PICK g \in popup[b] : /\ typed' = Append(typed, g)
                              /\ reply' = IF g \in pending /\ reply[g] = {} THEN [reply EXCEPT ![g] = {Len(typed')}] ELSE reply
    BY <1>5 DEF Submit
  <2>2. g \in GitCommands /\ Len(typed') \in Nat \ {0} /\ typed'[Len(typed')] = g
    BY <2>1, <1>0 DEF CredTypeOK
  <2>3. ASSUME NEW h \in GitCommands, h # g \/ reply' = reply PROVE Fine(h, reply[h])'
    BY <2>1, <2>2, <2>3, <1>0, <1>1 DEF CredTypeOK
  <2>4. CASE reply'[g] = {Len(typed')}
    <3>1. OwnAnswer(g, Len(typed))'
      BY <2>2 DEF OwnAnswer
    <3>2. Fine(g, reply[g])'
      BY <2>4, <2>2, <3>1
    <3> QED
      BY <2>3, <3>2
  <2> QED
    BY <2>1, <2>2, <2>3, <2>4, <1>0 DEF CredTypeOK
<1>6. ASSUME NEW b \in Pages, Cancel(b)
      PROVE  \A h \in GitCommands : Fine(h, reply[h])'
  <2>1. popup[b] \in SUBSET GitCommands /\ Dismiss(popup[b])
    BY <1>6, <1>0 DEF Cancel, CredTypeOK
  <2>2. \A g \in popup[b] : Forgotten(g)'
    BY <1>6, <2>1 DEF Cancel, Befalls, Forgotten
  <2> QED
    BY <2>1, <2>2, <1>0, <1>1, <1>2, Dismissed
<1>7. ASSUME NEW b \in Pages, CancelAll(b)
      PROVE  \A h \in GitCommands : Fine(h, reply[h])'
  <2>1. pending \in SUBSET GitCommands /\ Dismiss(pending)
    BY <1>7, <1>0 DEF CancelAll, CredTypeOK
  <2>2. \A g \in pending : Forgotten(g)'
    BY <1>7, <2>1 DEF CancelAll, Befalls, Forgotten
  <2> QED
    BY <2>1, <2>2, <1>0, <1>1, <1>2, Dismissed
<1>8. ASSUME NEW b \in Pages, Connect(b) \/ Drop(b) \/ HalfOpen(b) PROVE reply' = reply
  BY <1>8 DEF Connect, Drop, HalfOpen
<1>9. \A h \in GitCommands : Fine(h, reply[h])'
  <2> HIDE DEF Fine
  <2> QED
    BY <1>1, <1>3, <1>4, <1>5, <1>6, <1>7, <1>8 DEF CredNext
<1> QED
  BY <1>9 DEF RepliesOK

LEMMA GivenKept == CredInv /\ CredTypeOK' /\ CredNext => GivenOK'
<1> SUFFICES ASSUME CredInv, CredTypeOK', CredNext PROVE GivenOK'
  OBVIOUS
<1> DEFINE
  A(g) == \A i \in DOMAIN given[g] : IF given[g][i] = 0 THEN Forgotten(g) ELSE OwnAnswer(g, given[g][i])
  B(g) == Len(given[g]) <= 2 /\ (gitAt[g] = "asks" => Len(given[g]) < 2)
  C(g) == Len(given[g]) = 2 /\ ~Forgotten(g) => given[g][1] = given[g][2]
  D(g) == ~Forgotten(g) /\ gitAt[g] # "gone" /\ Len(given[g]) > 0 => g \in pending /\ reply[g] = {given[g][1]}
  E(g) == ~Forgotten(g) /\ gitAt[g] = "asks" => g \in pending
<1>0. CredTypeOK /\ \A g \in GitCommands : A(g) /\ B(g) /\ C(g) /\ D(g) /\ E(g)
  BY DEF CredInv, GivenOK
<1>1. \A g \in GitCommands : /\ given[g] \in Seq(Nat) /\ reply[g] \subseteq Nat
                             /\ DOMAIN given[g] = 1..Len(given[g]) /\ Len(given[g]) \in Nat
                             /\ \A i \in DOMAIN given[g] : given[g][i] \in Nat
  BY <1>0 DEF CredTypeOK
\* What a command was given it keeps, and nothing that is no news to it changes it.
<1>2. ASSUME NEW g \in GitCommands, given'[g] = given[g] PROVE A(g)' /\ C(g)'
  BY <1>0, <1>1, <1>2, CredGrows
<1>3. ASSUME NEW g \in GitCommands, given'[g] = given[g],
             gitAt'[g] = gitAt[g] \/ gitAt'[g] = "gone",
             \/ Forgotten(g)'
             \/ gitAt'[g] = "gone"
             \/ (g \in pending => g \in pending') /\ (reply[g] # {} => reply'[g] = reply[g])
      PROVE  A(g)' /\ B(g)' /\ C(g)' /\ D(g)' /\ E(g)'
  BY <1>0, <1>1, <1>2, <1>3, CredGrows
<1>4. ASSUME NEW g \in GitCommands, NEW h \in GitCommands, RunWithCreds(g)
      PROVE  A(h)' /\ B(h)' /\ C(h)' /\ D(h)' /\ E(h)'
  <2>1. given' = given /\ pending' = pending /\ reply' = reply /\ gitAt'[g] = "runs"
    BY <1>4, <1>0 DEF RunWithCreds, CredTypeOK
  <2>2. h # g => gitAt'[h] = gitAt[h]
    BY <1>4, <1>0 DEF RunWithCreds, CredTypeOK
  <2>3. CASE h = g
    BY <2>1, <2>3, <1>0, <1>2, CredGrows, <1>4 DEF RunWithCreds
  <2> QED
    BY <2>1, <2>2, <2>3, <1>3
<1>5. ASSUME NEW g \in GitCommands, NEW h \in GitCommands, Ask(g)
      PROVE  A(h)' /\ B(h)' /\ C(h)' /\ D(h)' /\ E(h)'
  <2>1. /\ given' = given /\ pending' = pending \cup {g} /\ gitAt'[g] = "asks" /\ gitAt[g] = "runs"
        /\ h # g => gitAt'[h] = gitAt[h] /\ reply'[h] = reply[h]
        /\ g \in pending => reply' = reply
        /\ Len(given[g]) < 2
    BY <1>5, <1>0 DEF Ask, Registered, CredTypeOK
  <2>2. CASE h = g
    BY <2>1, <2>2, <1>0, <1>2, CredGrows
  <2> QED
    BY <2>1, <2>2, <1>3
<1>6. ASSUME NEW g \in GitCommands, NEW h \in GitCommands, AwaitReturns(g)
      PROVE  A(h)' /\ B(h)' /\ C(h)' /\ D(h)' /\ E(h)'
  <2>1. pending' = pending /\ reply' = reply /\ fate' = fate /\ typed' = typed /\ reply[g] # {}
    BY <1>6 DEF AwaitReturns
  <2>2. CASE gitAt[g] # "asks" \/ h # g
    <3>1. given'[h] = given[h] /\ gitAt'[h] = gitAt[h]
      BY <1>6, <2>2, <1>0 DEF AwaitReturns, CredTypeOK
    <3> QED
      BY <3>1, <2>1, <1>3
  <2>3. CASE gitAt[g] = "asks" /\ h = g
    <3>1. PICK n \in reply[g] : given' = [given EXCEPT ![g] = Append(@, n)]
      BY <1>6, <2>3 DEF AwaitReturns
    <3>2. given'[g] = Append(given[g], n) /\ gitAt'[g] = "runs" /\ n \in Nat
      BY <3>1, <1>6, <2>3, <1>0, <1>1 DEF AwaitReturns, CredTypeOK
    <3>3. /\ Len(given'[g]) = Len(given[g]) + 1 /\ given'[g][Len(given[g]) + 1] = n
          /\ DOMAIN given'[g] = 1..(Len(given[g]) + 1)
          /\ \A i \in 1..Len(given[g]) : given'[g][i] = given[g][i]
      BY <3>2, <1>1
    <3>4. /\ \A m \in reply[g] : m = n
          /\ IF n = 0 THEN Forgotten(g) ELSE OwnAnswer(g, n)
      BY <3>1, <2>3 DEF CredInv, RepliesOK
    <3>5. (Forgotten(g)' <=> Forgotten(g)) /\ \A m : OwnAnswer(g, m)' <=> OwnAnswer(g, m)
      BY <2>1 DEF Forgotten, OwnAnswer
    <3>6. reply[g] = {n}
      BY <3>1, <3>4
    <3> HIDE DEF OwnAnswer
    <3>7. A(g)'
      BY <3>3, <3>4, <3>5, <1>0, <1>1, SMTT(30)
    <3>8. B(g)' /\ E(g)'
      BY <3>2, <3>3, <1>0, <1>1, <2>3
    <3>9. ASSUME ~Forgotten(g) PROVE g \in pending /\ given'[g][1] = n /\ (Len(given[g]) > 0 => given'[g][2] = n)
      <4>1. g \in pending
        BY <1>0, <2>3, <3>9
      <4>2. CASE Len(given[g]) = 0
        BY <3>3, <4>1, <4>2
      <4>3. CASE Len(given[g]) = 1
        <5>1. reply[g] = {given[g][1]}
          BY <4>3, <1>0, <2>3, <3>9
        <5> QED
          BY <3>3, <3>6, <4>1, <4>3, <5>1
      <4>4. Len(given[g]) < 2 /\ Len(given[g]) \in Nat
        BY <1>0, <1>1, <2>3
      <4>5. Len(given[g]) = 0 \/ Len(given[g]) = 1
        BY <4>4, UpToTwo, Zenon
      <4> QED
        BY <4>2, <4>3, <4>5, Zenon
    <3>10. C(g)'
      BY <3>3, <3>5, <3>9, <1>1
    <3>11. D(g)'
      BY <3>5, <3>6, <3>9, <2>1
    <3> QED
      BY <2>3, <3>7, <3>8, <3>10, <3>11
  <2> QED
    BY <2>2, <2>3
<1>7. ASSUME NEW g \in GitCommands, NEW h \in GitCommands, GitEnds(g)
      PROVE  A(h)' /\ B(h)' /\ C(h)' /\ D(h)' /\ E(h)'
  BY <1>7, <1>3, <1>0 DEF GitEnds, CredTypeOK
<1>8. ASSUME NEW g \in GitCommands, NEW h \in GitCommands, TimesOut(g)
      PROVE  A(h)' /\ B(h)' /\ C(h)' /\ D(h)' /\ E(h)'
  <2>1. Dismiss({g}) /\ gitAt'[g] = "gone" /\ given' = given /\ gitAt' = gitAt
    BY <1>8 DEF TimesOut, git
  <2> HIDE DEF A, B, C, D, E
  <2> QED
    BY <2>1, <1>0, <1>3, Dismissed
<1>9. ASSUME NEW b \in Pages, NEW h \in GitCommands, Submit(b)
      PROVE  A(h)' /\ B(h)' /\ C(h)' /\ D(h)' /\ E(h)'
  <2>1. given' = given /\ gitAt' = gitAt /\ pending' = pending
    BY <1>9 DEF Submit, git
  <2>2. reply[h] # {} => reply'[h] = reply[h]
    BY <1>9, <1>0 DEF Submit, CredTypeOK
  <2> HIDE DEF A, B, C, D, E
  <2> QED
    BY <2>1, <2>2, <1>3
<1>10. ASSUME NEW b \in Pages, NEW h \in GitCommands, Cancel(b)
      PROVE  A(h)' /\ B(h)' /\ C(h)' /\ D(h)' /\ E(h)'
  <2>1. popup[b] \in SUBSET GitCommands /\ Dismiss(popup[b]) /\ given' = given /\ gitAt' = gitAt
    BY <1>10, <1>0 DEF Cancel, CredTypeOK, git
  <2>2. h \in popup[b] => Forgotten(h)'
    BY <1>10, <2>1 DEF Cancel, Befalls, Forgotten
  <2> HIDE DEF A, B, C, D, E
  <2> QED
    BY <2>1, <2>2, <1>0, <1>3, Dismissed
<1>11. ASSUME NEW b \in Pages, NEW h \in GitCommands, CancelAll(b)
      PROVE  A(h)' /\ B(h)' /\ C(h)' /\ D(h)' /\ E(h)'
  <2>1. pending \in SUBSET GitCommands /\ Dismiss(pending) /\ given' = given /\ gitAt' = gitAt
    BY <1>11, <1>0 DEF CancelAll, CredTypeOK, git
  <2>2. h \in pending => Forgotten(h)'
    BY <1>11, <2>1 DEF CancelAll, Befalls, Forgotten
  <2> HIDE DEF A, B, C, D, E
  <2> QED
    BY <2>1, <2>2, <1>0, <1>3, Dismissed
<1>12. ASSUME NEW b \in Pages, NEW h \in GitCommands, Connect(b) \/ Drop(b) \/ HalfOpen(b)
      PROVE  A(h)' /\ B(h)' /\ C(h)' /\ D(h)' /\ E(h)'
  <2>1. given' = given /\ gitAt' = gitAt /\ pending' = pending /\ reply' = reply
    BY <1>12 DEF Connect, Drop, HalfOpen, git
  <2> HIDE DEF A, B, C, D, E
  <2> QED
    BY <2>1, <1>3
<1>13. \A h \in GitCommands : A(h)' /\ B(h)' /\ C(h)' /\ D(h)' /\ E(h)'
  <2> HIDE DEF A, B, C, D, E
  <2> QED
    BY <1>4, <1>5, <1>6, <1>7, <1>8, <1>9, <1>10, <1>11, <1>12 DEF CredNext
<1> QED
  BY <1>13 DEF GivenOK

LEMMA PromptsKept == CredInv /\ CredTypeOK' /\ CredNext => PromptsOK'
<1> SUFFICES ASSUME CredInv, CredTypeOK', CredNext PROVE PromptsOK'
  OBVIOUS
<1> DEFINE
  Waits(g) == gitAt[g] = "asks" /\ reply[g] = {}
  Shown(g) == \/ \E b \in Pages : g \in popup[b] \/ link[b] = "closing"
              \/ fate[g] \cap Unseen # {}
  OnePopup == \A b \in Pages : \A g, h \in popup[b] : g = h
<1>0. /\ CredTypeOK /\ OnePopup
      /\ \A g \in GitCommands : Waits(g) => g \in pending /\ Shown(g)
  BY DEF CredInv, PromptsOK, PromptSeen
\* A prompt that waited, and that nothing has taken from the pages.
<1>1. ASSUME NEW g \in GitCommands, Waits(g) \/ ~Waits(g)', pending \subseteq pending' \/ ~Waits(g)',
             \/ ~Waits(g)'
             \/ /\ \A b \in Pages : g \in popup[b] => g \in popup'[b] \/ link'[b] = "closing"
                /\ \A b \in Pages : link[b] = "closing" => link'[b] = "closing"
                /\ fate[g] \subseteq fate'[g]
      PROVE  Waits(g)' => (g \in pending)' /\ Shown(g)'
  BY <1>0, <1>1
<1> DEFINE Goal == OnePopup' /\ \A h \in GitCommands : Waits(h)' => (h \in pending)' /\ Shown(h)'
<1>2. ASSUME NEW g \in GitCommands, RunWithCreds(g) \/ AwaitReturns(g) \/ GitEnds(g) PROVE Goal
  <2>1. UNCHANGED <<pending, popup, fate, link, reply>>
    BY <1>2 DEF RunWithCreds, AwaitReturns, GitEnds, page
  <2>2. \A h \in GitCommands : Waits(h)' => Waits(h)
    BY <1>2, <1>0 DEF RunWithCreds, AwaitReturns, GitEnds, page, CredTypeOK
  <2> QED
    BY <2>1, <2>2, <1>0
<1>3. ASSUME NEW g \in GitCommands, Ask(g) PROVE Goal
  <2> DEFINE seen == {b \in handler : link[b] = "on"}
  <2>1. /\ Tell(g) /\ pending' = pending \cup {g} /\ UNCHANGED <<handler, link>>
        /\ \A h \in GitCommands \ {g} : gitAt'[h] = gitAt[h] /\ reply'[h] = reply[h]
    BY <1>3, <1>0 DEF Ask, Registered, page, CredTypeOK
  <2>2. /\ \A b \in Pages : popup'[b] = IF b \in seen THEN {g} ELSE popup[b]
        /\ seen = {} => \E x \in Unseen : x \in fate'[g]
    BY <2>1 DEF Tell, Unseen
  <2>6. ASSUME NEW h \in GitCommands, h # g
        PROVE  /\ fate[h] \subseteq fate'[h]
               /\ (\E b \in seen : h \in popup[b]) => "overwritten" \in fate'[h]
    BY <2>1, <2>6 DEF Tell
  <2>3. OnePopup'
    BY <2>2, <1>0
  <2>4. ASSUME NEW h \in GitCommands, h # g, Waits(h)' PROVE (h \in pending)' /\ Shown(h)'
    <3>1. h \in pending /\ Shown(h)
      BY <2>1, <2>4, <1>0
    <3>2. CASE \E b \in Pages : link[b] = "closing"
      BY <2>1, <3>1, <3>2
    <3>3. CASE fate[h] \cap Unseen # {}
      <4>1. fate'[h] \cap Unseen # {}
        BY <2>4, <2>6, <3>3
      <4> QED
        BY <2>1, <3>1, <4>1
    <3>4. ASSUME NEW b \in Pages, h \in popup[b] PROVE Shown(h)'
      <4>1. CASE b \in seen
        <5>1. \E c \in seen : h \in popup[c]
          BY <3>4, <4>1
        <5>2. "overwritten" \in fate'[h]
          BY <2>4, <2>6, <5>1
        <5>3. "overwritten" \in Unseen
          BY DEF Unseen
        <5> QED
          BY <5>2, <5>3
      <4>2. CASE b \notin seen
        <5>1. h \in popup'[b]
          BY <2>2, <3>4, <4>2
        <5> QED
          BY <5>1
      <4> QED
        BY <4>1, <4>2
    <3> QED
      BY <2>1, <3>1, <3>2, <3>3, <3>4
  <2>5. (g \in pending)' /\ Shown(g)'
    <3>1. CASE seen = {}
      BY <2>1, <2>2, <3>1
    <3>2. CASE seen \cap Pages # {}
      BY <2>1, <2>2, <3>2
    <3> QED
      BY <2>1, <3>1, <3>2, <1>0 DEF CredTypeOK
  <2> QED
    BY <2>3, <2>4, <2>5
<1>4. ASSUME NEW S \in SUBSET GitCommands, Dismiss(S), UNCHANGED gitAt, NEW h \in GitCommands, Waits(h)'
      PROVE  h \notin S /\ Waits(h) /\ h \in pending'
  BY <1>4, <1>0, Dismissed
<1>5. ASSUME NEW g \in GitCommands, TimesOut(g) PROVE Goal
  <2>1. Dismiss({g}) /\ UNCHANGED <<gitAt, popup, fate, link>>
    BY <1>5 DEF TimesOut, git, page
  <2> QED
    BY <2>1, <1>0, <1>4
<1>6. ASSUME NEW b \in Pages, Submit(b) PROVE Goal
  <2>1. PICK g \in popup[b] :
          reply' = IF g \in pending /\ reply[g] = {} THEN [reply EXCEPT ![g] = {Len(typed')}] ELSE reply
    BY <1>6 DEF Submit
  <2>2. /\ UNCHANGED <<gitAt, pending, fate, link>> /\ g \in GitCommands
        /\ \A c \in Pages : popup'[c] = IF c = b THEN {} ELSE popup[c]
        /\ popup[b] = {g}
    BY <1>6, <2>1, <1>0 DEF Submit, git, page, CredTypeOK
  <2>3. \A h \in GitCommands : Waits(h)' => Waits(h) /\ h # g
    BY <2>1, <2>2, <1>0 DEF CredTypeOK
  <2> QED
    BY <2>2, <2>3, <1>0
<1>7. ASSUME NEW b \in Pages, Cancel(b) PROVE Goal
  <2>1. /\ Dismiss(popup[b]) /\ UNCHANGED <<gitAt, link>> /\ popup[b] \in SUBSET GitCommands
        /\ \A c \in Pages : popup'[c] = IF c = b THEN {} ELSE popup[c]
        /\ \A g \in GitCommands : fate[g] \subseteq fate'[g]
        /\ \A g \in GitCommands : (g \in pending)' => g \in pending
    BY <1>7, Dismissed, <1>0 DEF Cancel, Befalls, git, page, CredTypeOK
  <2>2. \A h \in GitCommands : Waits(h)' => h \notin popup[b] /\ Waits(h) /\ h \in pending'
    BY <2>1, <1>4
  <2> QED
    BY <2>1, <2>2, <1>0
<1>8. ASSUME NEW b \in Pages, CancelAll(b) PROVE Goal
  <2>1. /\ Dismiss(pending) /\ UNCHANGED <<gitAt, popup>> /\ pending \in SUBSET GitCommands
    BY <1>8, <1>0 DEF CancelAll, git, CredTypeOK
  <2>2. \A h \in GitCommands : ~Waits(h)'
    BY <2>1, <1>0, <1>4
  <2> QED
    BY <2>1, <2>2, <1>0
<1>9. ASSUME NEW b \in Pages, Connect(b) \/ Drop(b) \/ HalfOpen(b) PROVE Goal
  <2>1. /\ UNCHANGED <<gitAt, reply, pending, fate>>
        /\ \A c \in Pages : popup'[c] = popup[c] \/ (popup'[c] = {} /\ link'[c] = "closing")
        /\ \A c \in Pages : link[c] = "closing" => link'[c] = "closing"
    BY <1>9, <1>0 DEF Connect, Drop, HalfOpen, git, CredTypeOK
  <2>2. OnePopup'
    BY <2>1, <1>0
  <2>3. ASSUME NEW h \in GitCommands, Waits(h)' PROVE (h \in pending)' /\ Shown(h)'
    <3>1. h \in pending /\ Shown(h)
      BY <2>1, <2>3, <1>0
    <3>2. CASE \E c \in Pages : h \in popup[c] \/ link[c] = "closing"
      BY <2>1, <3>1, <3>2
    <3> QED
      BY <2>1, <3>1, <3>2
  <2> QED
    BY <2>2, <2>3
<1>10. Goal
  <2> HIDE DEF Goal
  <2> QED
    BY <1>2, <1>3, <1>5, <1>6, <1>7, <1>8, <1>9 DEF CredNext
<1> QED
  BY <1>10 DEF PromptsOK, PromptSeen

\* Whatever git is given was typed for this command, or is blank because somebody
\* gave up; user name and password belong together; a prompt that waits is seen.
THEOREM CredentialsRight == CredSpec => []CredentialsSound
<1>1. CredInit => CredInv
  BY DEF CredInit, CredInv, CredTypeOK, RepliesOK, GivenOK, PromptsOK, PromptSeen
<1>2. CredInv /\ [CredNext]_credVars => CredInv'
  <2>1. CASE CredNext
    BY <2>1, CredTyped, RepliesKept, GivenKept, PromptsKept DEF CredInv
  <2>2. CASE UNCHANGED credVars
    BY <2>2, ZenonT(60) DEF credVars, CredInv, CredTypeOK, RepliesOK, GivenOK, PromptsOK, PromptSeen, Forgotten, OwnAnswer
  <2> QED
    BY <2>1, <2>2
<1>3. CredInv => CredentialsSound
  <2> SUFFICES ASSUME CredInv PROVE CredentialsSound
    OBVIOUS
  <2>1. OwnAnswers
    BY DEF CredInv, CredTypeOK, GivenOK, OwnAnswers, OwnAnswer, Forgotten
  <2>2. OnePair
    BY DEF CredInv, GivenOK, OnePair, Forgotten
  <2> QED
    BY <2>1, <2>2 DEF CredInv, PromptsOK, CredentialsSound
<1> QED
  BY <1>1, <1>2, <1>3, PTL DEF CredSpec

-----------------------------------------------------------------------------
(***************************************************************************)
(* SystemMonitor: the list of processes and its kill button.               *)
(***************************************************************************)
Process  == [born : Nat, at : Nat, name : ProcNames \cup {NoName}, used : Nat]
ShownRow == [born : Nat, at : Nat, name : ProcNames \cup {NoName}, cpu : Nat]
Listing  == [since : Nat, at : Nat, list : [Pids -> ShownRow]]
KillOrder == [pc : {"none", "check", "signal"}, pid : SUBSET Pids, row : ShownRow, seen : Nat]

MonTypeOK ==
  /\ procs \in [Pids -> Process] /\ clock \in Nat /\ births \in Nat
  /\ worked \subseteq Nat \X Nat
  /\ last \in [at : Nat, procs : [Pids -> Process]] /\ first \subseteq Viewers
  /\ rows \in [Viewers -> Listing]
  /\ order \in [Viewers -> KillOrder]
  /\ struck \in [row : ShownRow, proc : Process, seen : Nat]

\* The ticks after i and up to j that a process has used.
TicksOf(W, b, i, j) == {t \in (i + 1)..j : <<b, t>> \in W}

\* A process is born once, and before now.
BirthsOK ==
  /\ clock # 0
  /\ \A p \in Pids : procs[p].born <= births /\ procs[p].at <= clock
  /\ \A p \in Pids : procs[p].born = 0 => procs[p].at = 0
  /\ \A p, q \in Pids : procs[p].born # 0 /\ procs[p].born = procs[q].born => p = q
  /\ \A v \in Viewers : order[v].seen <= births

\* What a process has used are the ticks it had, none before its birth.
WorkOK ==
  /\ \A b, t \in Nat : <<b, t>> \in worked => b # 0 /\ b <= births /\ t # 0 /\ t <= clock
  /\ \A p \in Pids : procs[p].born # 0 =>
       /\ \A t \in Nat : <<procs[p].born, t>> \in worked => t > procs[p].at
       /\ procs[p].used = Cardinality(TicksOf(worked, procs[p].born, 0, clock))

\* So it was in the last sample; who has the pid now is the same process or was
\* born later.
SampleOK ==
  /\ last.at <= clock /\ (first # {} => last.at # 0)
  /\ \A p \in Pids :
       /\ last.procs[p].born <= births /\ last.procs[p].at <= last.at
       /\ last.procs[p].born = 0 => last.procs[p].at = 0
       /\ last.procs[p].born # 0 => \A t \in Nat : <<last.procs[p].born, t>> \in worked => t > last.procs[p].at
       /\ last.procs[p].born # 0 =>
            last.procs[p].used = Cardinality(TicksOf(worked, last.procs[p].born, 0, last.at))
       /\ procs[p].born = last.procs[p].born => procs[p].at = last.procs[p].at
       /\ procs[p].born = 0 \/ procs[p].born = last.procs[p].born \/ procs[p].at >= last.at

RowsOK == (\A v \in Viewers : rows[v].at <= clock) /\ UsageIsItsOwn /\ WindowHonest

\* The pid of an order that has passed the look at the name is of a process with
\* that name, or of another one by now.
NamesOK ==
  /\ \A v \in Viewers :
       /\ \A p, q \in order[v].pid : p = q
       /\ order[v].pc = "signal" => \A p \in order[v].pid :
            procs[p].born # 0 /\ procs[p].born = order[v].seen => procs[p].name = order[v].row.name
  /\ StrikesAsShown

MonInv == MonTypeOK /\ BirthsOK /\ WorkOK /\ SampleOK /\ RowsOK /\ NamesOK

-----------------------------------------------------------------------------
LEMMA TicksFinite ==
  ASSUME NEW W, NEW b, NEW i \in Nat, NEW j \in Nat
  PROVE  /\ IsFiniteSet(TicksOf(W, b, i, j)) /\ Cardinality(TicksOf(W, b, i, j)) \in Nat
         /\ i >= j => Cardinality(TicksOf(W, b, i, j)) = 0
<1>1. IsFiniteSet((i + 1)..j) /\ TicksOf(W, b, i, j) \in SUBSET ((i + 1)..j)
  BY FS_Interval DEF TicksOf
<1>2. IsFiniteSet(TicksOf(W, b, i, j))
  BY <1>1, FS_Subset
<1>3. i >= j => TicksOf(W, b, i, j) = {}
  BY DEF TicksOf
<1> QED
  BY <1>2, <1>3, FS_CardinalityType, FS_EmptySet

LEMMA TicksSplit ==
  ASSUME NEW W, NEW b, NEW i \in Nat, NEW j \in Nat, NEW k \in Nat, i <= j, j <= k
  PROVE  Cardinality(TicksOf(W, b, i, k)) = Cardinality(TicksOf(W, b, i, j)) + Cardinality(TicksOf(W, b, j, k))
<1> DEFINE A == TicksOf(W, b, i, j)
           B == TicksOf(W, b, j, k)
<1>1. TicksOf(W, b, i, k) = A \cup B /\ A \cap B = {}
  BY DEF TicksOf
<1>2. IsFiniteSet(A) /\ IsFiniteSet(B) /\ Cardinality(A) \in Nat /\ Cardinality(B) \in Nat
  BY TicksFinite
<1>3. Cardinality(A \cup B) = Cardinality(A) + Cardinality(B) - Cardinality(A \cap B)
  BY <1>2, FS_Union
<1>4. Cardinality(A \cap B) = 0
  BY <1>1, FS_EmptySet
<1> QED
  BY <1>1, <1>2, <1>3, <1>4

LEMMA TicksKept ==
  ASSUME NEW V, NEW W, NEW b, NEW i \in Nat, NEW j \in Nat,
         \A t \in (i + 1)..j : <<b, t>> \in V <=> <<b, t>> \in W
  PROVE  TicksOf(V, b, i, j) = TicksOf(W, b, i, j)
BY DEF TicksOf

LEMMA TicksAdd ==
  ASSUME NEW W, NEW b, NEW c \in Nat, <<b, c + 1>> \notin W
  PROVE  Cardinality(TicksOf(W \cup {<<b, c + 1>>}, b, 0, c + 1)) = Cardinality(TicksOf(W, b, 0, c)) + 1
<1> DEFINE A == TicksOf(W, b, 0, c)
<1>1. TicksOf(W \cup {<<b, c + 1>>}, b, 0, c + 1) = A \cup {c + 1} /\ c + 1 \notin A
  BY DEF TicksOf
<1>2. IsFiniteSet(A)
  BY TicksFinite
<1> QED
  BY <1>1, <1>2, FS_AddElement

-----------------------------------------------------------------------------
\* What a tick does.
LEMMA TickFacts ==
  ASSUME MonTypeOK, Ticks
  PROVE  \E S \in SUBSET Pids :
           /\ \A p, q \in S : p = q
           /\ \A p \in S : procs[p].born # 0
           /\ \A p \in Pids : /\ procs'[p] \in Process
                              /\ procs'[p].born = procs[p].born /\ procs'[p].at = procs[p].at
                              /\ procs'[p].name = procs[p].name
                              /\ procs'[p].used = IF p \in S THEN procs[p].used + 1 ELSE procs[p].used
           /\ procs' \in [Pids -> Process]
           /\ worked' = worked \cup {<<procs[p].born, clock + 1>> : p \in S}
           /\ clock' = clock + 1 /\ UNCHANGED <<last, first, rows, order, struck, births>>
<1>1. PICK S \in {{}} \cup {{p} : p \in {q \in Pids : procs[q].born # 0}} :
        /\ procs' = [p \in Pids |-> IF p \in S THEN [procs[p] EXCEPT !.used = @ + 1] ELSE procs[p]]
        /\ worked' = worked \cup {<<procs[p].born, clock'>> : p \in S}
  BY DEF Ticks
<1>2. S \in SUBSET Pids /\ (\A p, q \in S : p = q) /\ (\A p \in S : procs[p].born # 0)
  OBVIOUS
<1>3. clock' = clock + 1 /\ UNCHANGED <<last, first, rows, order, struck, births>>
  BY DEF Ticks
<1>4. ASSUME NEW p \in Pids
      PROVE  /\ procs'[p] \in Process
             /\ procs'[p].born = procs[p].born /\ procs'[p].at = procs[p].at
             /\ procs'[p].name = procs[p].name
             /\ procs'[p].used = IF p \in S THEN procs[p].used + 1 ELSE procs[p].used
  <2>1. procs[p] \in Process /\ procs'[p] = IF p \in S THEN [procs[p] EXCEPT !.used = @ + 1] ELSE procs[p]
    BY <1>1 DEF MonTypeOK
  <2> QED
    BY <2>1 DEF Process
<1>5. procs' \in [Pids -> Process]
  BY <1>1, <1>4
<1>6. worked' = worked \cup {<<procs[p].born, clock + 1>> : p \in S}
  BY <1>1, <1>3
<1> QED
  <2> WITNESS S \in SUBSET Pids
  <2> QED
    BY <1>2, <1>3, <1>4, <1>5, <1>6

\* What else may happen to a process.
LEMMA ProcsElse ==
  ASSUME MonTypeOK, MonitorNext, ~Ticks
  PROVE  /\ clock' = clock /\ worked' = worked /\ births' >= births /\ births' \in Nat
         /\ procs' \in [Pids -> Process]
         /\ \A p \in Pids :
              \/ procs'[p] = procs[p]
              \/ procs'[p] = NoProc
              \/ procs[p].born = 0 /\ procs'[p].born = births + 1 /\ births' = births + 1
                 /\ procs'[p].at = clock /\ procs'[p].used = 0
                 /\ UNCHANGED <<last, first, rows, order, struck>>
                 /\ \A q \in Pids \ {p} : procs'[q] = procs[q]
<1>1. NoProc \in Process
  BY DEF NoProc, Process
<1>2. CASE procs' = procs
  <2>1. clock' = clock /\ worked' = worked /\ (births' = births \/ births' = births + 1)
    BY DEF MonitorNext, Born, Snapshot, SecondSample, Click, CheckName, Signal, Exits
  <2>2. births \in Nat /\ procs \in [Pids -> Process]
    BY DEF MonTypeOK
  <2> QED
    BY <1>2, <2>1, <2>2
<1>3. ASSUME NEW q \in Pids, procs' = [procs EXCEPT ![q] = NoProc] PROVE
         /\ procs' \in [Pids -> Process] /\ \A p \in Pids : procs'[p] = procs[p] \/ procs'[p] = NoProc
  BY <1>1, <1>3 DEF MonTypeOK
<1>4. ASSUME NEW q \in Pids, Exits(q) \/ \E v \in Viewers : Signal(v, q)
      PROVE  /\ clock' = clock /\ worked' = worked /\ births' = births
             /\ procs' \in [Pids -> Process] /\ \A p \in Pids : procs'[p] = procs[p] \/ procs'[p] = NoProc
  BY <1>3, <1>4 DEF Exits, Signal, MonTypeOK
<1>5. ASSUME NEW q \in Pids, Born(q)
      PROVE  /\ clock' = clock /\ worked' = worked /\ births' = births + 1
             /\ UNCHANGED <<last, first, rows, order, struck>>
             /\ procs' \in [Pids -> Process] /\ procs[q].born = 0
             /\ procs'[q].born = births + 1 /\ procs'[q].at = clock /\ procs'[q].used = 0
             /\ \A p \in Pids \ {q} : procs'[p] = procs[p]
  <2>1. PICK n \in ProcNames : procs' = [procs EXCEPT ![q] = [born |-> births', at |-> clock, name |-> n, used |-> 0]]
    BY <1>5 DEF Born
  <2>2. births' = births + 1 /\ births' \in Nat
    BY <1>5 DEF Born, MonTypeOK
  <2>3. [born |-> births', at |-> clock, name |-> n, used |-> 0] \in Process
    BY <2>2 DEF Process, MonTypeOK
  <2> QED
    BY <1>5, <2>1, <2>2, <2>3 DEF Born, MonTypeOK
<1>6. \/ procs' = procs
      \/ \E q \in Pids : Exits(q) \/ \E v \in Viewers : Signal(v, q)
      \/ \E q \in Pids : Born(q)
  BY DEF MonitorNext, Snapshot, SecondSample, Click, CheckName
<1> QED
  BY <1>2, <1>4, <1>5, <1>6 DEF MonTypeOK

LEMMA RowTyped ==
  ASSUME NEW b \in Process, NEW p \in Process
  PROVE  /\ Row(b, p) \in ShownRow
         /\ p.born = 0 => Row(b, p).born = 0
         /\ p.born # 0 => /\ Row(b, p).born = p.born /\ Row(b, p).at = p.at
                          /\ Row(b, p).cpu = IF SameProcess(b, p) /\ p.used > b.used THEN p.used - b.used ELSE 0
<1>1. Unlisted \in ShownRow /\ Unlisted.born = 0
  BY DEF Unlisted, ShownRow
<1> DEFINE n == IF SameProcess(b, p) /\ p.used > b.used THEN p.used - b.used ELSE 0
<1>2. n \in Nat
  BY DEF Process
<1>3. p.born # 0 => Row(b, p) = [born |-> p.born, at |-> p.at, name |-> p.name, cpu |-> n]
  BY DEF Row
<1>4. p.born = 0 => Row(b, p) = Unlisted
  BY DEF Row
<1> HIDE DEF n
<1>5. [born |-> p.born, at |-> p.at, name |-> p.name, cpu |-> n] \in ShownRow
  BY <1>2 DEF Process, ShownRow
<1>6. p.born # 0 => Row(b, p).born = p.born /\ Row(b, p).at = p.at /\ Row(b, p).cpu = n
  BY <1>3
<1> QED
  BY <1>1, <1>3, <1>4, <1>5, <1>6 DEF n

\* What Snapshot shows.
LEMMA ShowFacts ==
  ASSUME MonTypeOK, NEW v \in Viewers, Show(v)
  PROVE  /\ last' \in [at : Nat, procs : [Pids -> Process]] /\ rows' \in [Viewers -> Listing]
         /\ last'.at = clock /\ last'.procs = procs
         /\ rows'[v].since = last.at /\ rows'[v].at = clock
         /\ \A p \in Pids : rows'[v].list[p] = Row(last.procs[p], procs[p])
         /\ \A w \in Viewers \ {v} : rows'[w] = rows[w]
<1> DEFINE list == [p \in Pids |-> Row(last.procs[p], procs[p])]
           r == [since |-> last.at, at |-> clock, list |-> list]
<1>1. \A p \in Pids : last.procs[p] \in Process /\ procs[p] \in Process
  BY DEF MonTypeOK
<1>2. list \in [Pids -> ShownRow] /\ \A p \in Pids : list[p] = Row(last.procs[p], procs[p])
  BY <1>1, RowTyped
<1>3. rows' = [rows EXCEPT ![v] = r] /\ last' = [at |-> clock, procs |-> procs]
  BY DEF Show, Sampled
<1>4. clock \in Nat /\ last.at \in Nat /\ procs \in [Pids -> Process] /\ rows \in [Viewers -> Listing]
  BY DEF MonTypeOK
<1> HIDE DEF list
<1>5. r \in Listing /\ r.since = last.at /\ r.at = clock /\ r.list = list
  BY <1>2, <1>4 DEF Listing
<1> HIDE DEF r
<1>6. rows' \in [Viewers -> Listing] /\ rows'[v] = r /\ \A w \in Viewers \ {v} : rows'[w] = rows[w]
  BY <1>3, <1>4, <1>5
<1> QED
  BY <1>2, <1>3, <1>4, <1>5, <1>6

LEMMA KillFacts ==
  ASSUME MonTypeOK, MonitorNext
  PROVE  /\ order' \in [Viewers -> KillOrder]
         /\ struck' \in [row : ShownRow, proc : Process, seen : Nat]
<1>0. NoKill \in KillOrder /\ Unlisted \in ShownRow /\ procs \in [Pids -> Process]
  BY DEF NoKill, KillOrder, Unlisted, ShownRow, MonTypeOK
<1>1. ASSUME NEW v \in Viewers, NEW p \in Pids, Click(v, p)
      PROVE  order' \in [Viewers -> KillOrder] /\ UNCHANGED struck
  <2>1. rows[v].list[p] \in ShownRow
    BY DEF MonTypeOK, Listing
  <2>2. [pc |-> "check", pid |-> {p}, row |-> rows[v].list[p], seen |-> 0] \in KillOrder
    BY <2>1 DEF KillOrder
  <2> QED
    BY <1>1, <2>2 DEF Click, MonTypeOK
<1>2. ASSUME NEW v \in Viewers, NEW p \in Pids, CheckName(v, p)
      PROVE  order' \in [Viewers -> KillOrder] /\ UNCHANGED struck
  <2>1. order[v] \in KillOrder /\ procs[p].born \in Nat
    BY DEF MonTypeOK, Process
  <2>2. [[order[v] EXCEPT !.pc = "signal"] EXCEPT !.seen = procs[p].born] \in KillOrder
    BY <2>1 DEF KillOrder
  <2>3. \/ order' = [order EXCEPT ![v] = NoKill]
        \/ order' = [order EXCEPT ![v] = [[order[v] EXCEPT !.pc = "signal"] EXCEPT !.seen = procs[p].born]]
    BY <1>2 DEF CheckName, MonTypeOK
  <2> QED
    BY <1>2, <1>0, <2>2, <2>3 DEF CheckName, MonTypeOK
<1>3. ASSUME NEW v \in Viewers, NEW p \in Pids, Signal(v, p)
      PROVE  /\ order' \in [Viewers -> KillOrder]
             /\ struck' \in [row : ShownRow, proc : Process, seen : Nat]
  <2>1. order[v].row \in ShownRow /\ procs[p] \in Process /\ order[v].seen \in Nat
    BY DEF MonTypeOK, KillOrder
  <2>2. [row |-> order[v].row, proc |-> procs[p], seen |-> order[v].seen] \in [row : ShownRow, proc : Process, seen : Nat]
    BY <2>1
  <2> QED
    BY <1>3, <1>0, <2>2 DEF Signal, MonTypeOK
<1>4. \/ UNCHANGED <<order, struck>>
      \/ \E v \in Viewers, p \in Pids : Click(v, p) \/ CheckName(v, p) \/ Signal(v, p)
  BY DEF MonitorNext, Snapshot, SecondSample, Born, Exits, Ticks
<1> QED
  BY <1>1, <1>2, <1>3, <1>4 DEF MonTypeOK

\* What happens to the sample and to the pages.
LEMMA SampleFacts ==
  ASSUME MonTypeOK, MonitorNext
  PROVE  \/ UNCHANGED <<last, first, rows>>
         \/ /\ UNCHANGED <<procs, clock, worked, births, order, struck>> /\ last'.at = clock /\ last'.procs = procs
            /\ last' \in [at : Nat, procs : [Pids -> Process]] /\ first' \subseteq Viewers
            /\ \/ UNCHANGED rows
               \/ \E v \in Viewers : Show(v) /\ (UsableWindow \/ (first # {} /\ clock - last.at >= MinWindow))
<1>1. ASSUME NEW v \in Viewers, Snapshot(v) \/ SecondSample(v)
      PROVE  /\ UNCHANGED <<procs, clock, worked, births, order, struck>> /\ last' = [at |-> clock, procs |-> procs]
             /\ first' \subseteq Viewers
             /\ \/ UNCHANGED rows
                \/ Show(v) /\ (UsableWindow \/ (first # {} /\ clock - last.at >= MinWindow))
  BY <1>1 DEF Snapshot, SecondSample, Show, Sampled, MonTypeOK
<1>2. UNCHANGED <<last, first, rows>> \/ \E v \in Viewers : Snapshot(v) \/ SecondSample(v)
  BY DEF MonitorNext, Click, CheckName, Signal, Born, Exits, Ticks
<1>3. [at |-> clock, procs |-> procs] \in [at : Nat, procs : [Pids -> Process]]
  BY DEF MonTypeOK
<1> QED
  BY <1>1, <1>2, <1>3

LEMMA MonTyped == MonTypeOK /\ MonitorNext => MonTypeOK'
<1> SUFFICES ASSUME MonTypeOK, MonitorNext PROVE MonTypeOK'
  OBVIOUS
<1>1. procs' \in [Pids -> Process] /\ clock' \in Nat /\ births' \in Nat /\ worked' \subseteq Nat \X Nat
  <2>1. CASE Ticks
    <3>1. PICK S \in SUBSET Pids :
            /\ procs' \in [Pids -> Process] /\ clock' = clock + 1 /\ births' = births
            /\ worked' = worked \cup {<<procs[p].born, clock + 1>> : p \in S}
      BY <2>1, TickFacts
    <3>2. \A p \in Pids : <<procs[p].born, clock + 1>> \in Nat \X Nat
      BY DEF MonTypeOK, Process
    <3> QED
      BY <3>1, <3>2 DEF MonTypeOK
  <2> QED
    BY <2>1, ProcsElse DEF MonTypeOK
<1>2. /\ last' \in [at : Nat, procs : [Pids -> Process]] /\ first' \subseteq Viewers
      /\ rows' \in [Viewers -> Listing]
  BY SampleFacts, ShowFacts DEF MonTypeOK
<1> QED
  BY <1>1, <1>2, KillFacts DEF MonTypeOK

\* What happens to an order.
LEMMA OrderFacts ==
  ASSUME MonTypeOK, MonitorNext, NEW v \in Viewers
  PROVE  \/ order'[v] = order[v]
         \/ order'[v].pc # "signal" /\ order'[v].seen = 0 /\ \A p, q \in order'[v].pid : p = q
         \/ \E p \in order[v].pid :
              /\ p \in Pids /\ procs' = procs /\ births' = births
              /\ order'[v].seen = procs[p].born /\ order'[v].pid = order[v].pid
              /\ order'[v].row = order[v].row /\ procs[p].name = order[v].row.name
<1>0. NoKill.pc # "signal" /\ NoKill.seen = 0 /\ NoKill.pid = {}
  BY DEF NoKill
<1>1. \/ order' = order
      \/ \E w \in Viewers, p \in Pids : Click(w, p) \/ CheckName(w, p) \/ Signal(w, p)
  BY DEF MonitorNext, Snapshot, SecondSample, Born, Exits, Ticks
<1>2. ASSUME NEW w \in Viewers, w # v, NEW p \in Pids, Click(w, p) \/ CheckName(w, p) \/ Signal(w, p)
      PROVE  order'[v] = order[v]
  BY <1>2 DEF Click, CheckName, Signal, MonTypeOK
<1>3. ASSUME NEW p \in Pids, Click(v, p)
      PROVE  order'[v].pc # "signal" /\ order'[v].seen = 0 /\ \A x, y \in order'[v].pid : x = y
  BY <1>3 DEF Click, MonTypeOK
<1>4. ASSUME NEW p \in Pids, CheckName(v, p)
      PROVE  \/ order'[v] = NoKill
             \/ /\ p \in order[v].pid /\ procs' = procs /\ births' = births
                /\ order'[v].seen = procs[p].born /\ order'[v].pid = order[v].pid
                /\ order'[v].row = order[v].row /\ procs[p].name = order[v].row.name
  <2>1. order[v] \in KillOrder
    BY DEF MonTypeOK
  <2>2. procs[p].name # order[v].row.name => order'[v] = NoKill
    BY <1>4 DEF CheckName, MonTypeOK
  <2>3. procs[p].name = order[v].row.name =>
          order'[v] = [[order[v] EXCEPT !.pc = "signal"] EXCEPT !.seen = procs[p].born]
    BY <1>4 DEF CheckName, MonTypeOK
  <2> QED
    <3>1. CASE order'[v] = [[order[v] EXCEPT !.pc = "signal"] EXCEPT !.seen = procs[p].born]
      <4>1. order'[v].seen = procs[p].born /\ order'[v].pid = order[v].pid /\ order'[v].row = order[v].row
        BY <2>1, <3>1 DEF KillOrder
      <4>2. p \in order[v].pid /\ procs' = procs /\ births' = births
        BY <1>4 DEF CheckName
      <4> QED
        BY <2>2, <4>1, <4>2
    <3> QED
      BY <2>2, <2>3, <3>1
<1>5. ASSUME NEW p \in Pids, Signal(v, p) PROVE order'[v] = NoKill
  BY <1>5 DEF Signal, MonTypeOK
<1> QED
  BY <1>0, <1>1, <1>2, <1>3, <1>4, <1>5

LEMMA BirthsKept == MonInv /\ MonTypeOK' /\ MonitorNext => BirthsOK'
<1> SUFFICES ASSUME MonInv, MonTypeOK', MonitorNext PROVE BirthsOK'
  OBVIOUS
<1>0. MonTypeOK /\ BirthsOK
  BY DEF MonInv
<1>1. /\ \A p \in Pids : procs[p].born \in Nat /\ procs[p].at \in Nat /\ procs'[p].born \in Nat
      /\ clock \in Nat /\ births \in Nat
  BY <1>0 DEF MonTypeOK, Process
<1>2. NoProc.born = 0 /\ NoProc.at = 0
  BY DEF NoProc
<1>3. clock' # 0 /\ births' \in Nat /\ births' >= births
  BY <1>0, <1>1, TickFacts, ProcsElse DEF BirthsOK
<1>4. \A p \in Pids : procs'[p].born <= births' /\ procs'[p].at <= clock'
  BY <1>0, <1>1, <1>2, TickFacts, ProcsElse DEF BirthsOK
<1>5. ASSUME NEW p \in Pids, NEW q \in Pids, procs'[p].born # 0, procs'[p].born = procs'[q].born PROVE p = q
  <2>1. CASE Ticks
    BY <2>1, <1>0, <1>5, TickFacts DEF BirthsOK
  <2>2. CASE ~Ticks
    <3>1. \/ procs'[p] = procs[p]
          \/ procs[p].born = 0 /\ procs'[p].born = births + 1 /\ (p # q => procs'[q] = procs[q])
      BY <2>2, <1>0, <1>2, <1>5, ProcsElse
    <3>2. \/ procs'[q] = procs[q]
          \/ procs[q].born = 0 /\ procs'[q].born = births + 1 /\ (p # q => procs'[p] = procs[p])
      BY <2>2, <1>0, <1>2, <1>5, ProcsElse
    <3> QED
      BY <3>1, <3>2, <1>0, <1>1, <1>5 DEF BirthsOK
  <2> QED
    BY <2>1, <2>2
<1>6. ASSUME NEW v \in Viewers PROVE order'[v].seen <= births'
  <2>1. order[v] \in KillOrder /\ order'[v] \in KillOrder
    BY <1>0 DEF MonTypeOK
  <2>2. order[v].seen \in Nat /\ order'[v].seen \in Nat /\ order[v].seen <= births
    BY <2>1, <1>0 DEF KillOrder, BirthsOK
  <2> QED
    BY <1>0, <1>1, <1>3, <2>2, OrderFacts DEF BirthsOK
<1>7. \A p \in Pids : procs'[p].born = 0 => procs'[p].at = 0
  BY <1>0, <1>1, <1>2, TickFacts, ProcsElse DEF BirthsOK
<1> QED
  BY <1>3, <1>4, <1>5, <1>6, <1>7 DEF BirthsOK

LEMMA WorkKept == MonInv /\ MonTypeOK' /\ MonitorNext => WorkOK'
<1> SUFFICES ASSUME MonInv, MonTypeOK', MonitorNext PROVE WorkOK'
  OBVIOUS
<1>0. MonTypeOK /\ BirthsOK /\ WorkOK
  BY DEF MonInv
<1>1. /\ \A p \in Pids : procs[p].born \in Nat /\ procs[p].at \in Nat /\ procs[p].used \in Nat
      /\ clock \in Nat /\ births \in Nat
  BY <1>0 DEF MonTypeOK, Process
<1>2. CASE Ticks
  <2>1. PICK S \in SUBSET Pids :
           /\ \A p, q \in S : p = q
           /\ \A p \in S : procs[p].born # 0
           /\ \A p \in Pids : /\ procs'[p].born = procs[p].born /\ procs'[p].at = procs[p].at
                              /\ procs'[p].used = IF p \in S THEN procs[p].used + 1 ELSE procs[p].used
           /\ worked' = worked \cup {<<procs[p].born, clock + 1>> : p \in S}
           /\ clock' = clock + 1 /\ births' = births
    BY <1>2, <1>0, TickFacts
  <2>2. ASSUME NEW b \in Nat, NEW t \in Nat, <<b, t>> \in worked'
        PROVE  <<b, t>> \in worked \/ (t = clock + 1 /\ \E p \in S : procs[p].born = b)
    BY <2>1, <2>2
  <2>3. \A b, t \in Nat : <<b, t>> \in worked' => b # 0 /\ b <= births' /\ t # 0 /\ t <= clock'
    BY <2>1, <2>2, <1>0, <1>1 DEF WorkOK, BirthsOK
  <2>4. ASSUME NEW p \in Pids, procs'[p].born # 0
        PROVE  \A t \in Nat : <<procs'[p].born, t>> \in worked' => t > procs'[p].at
    BY <2>1, <2>2, <2>4, <1>0, <1>1 DEF WorkOK, BirthsOK
  <2>5. ASSUME NEW p \in Pids, procs'[p].born # 0
        PROVE  procs'[p].used = Cardinality(TicksOf(worked', procs'[p].born, 0, clock'))
    <3> DEFINE b == procs[p].born
    <3>1. procs'[p].born = b /\ b # 0 /\ b \in Nat
      BY <2>1, <2>5, <1>1
    <3>2. procs[p].used = Cardinality(TicksOf(worked, b, 0, clock))
      BY <3>1, <1>0 DEF WorkOK
    <3>3. CASE p \in S
      <4>1. worked' = worked \cup {<<b, clock + 1>>}
        BY <2>1, <3>3
      <4>2. <<b, clock + 1>> \notin worked
        BY <3>1, <1>0, <1>1 DEF WorkOK
      <4>3. Cardinality(TicksOf(worked \cup {<<b, clock + 1>>}, b, 0, clock + 1)) = Cardinality(TicksOf(worked, b, 0, clock)) + 1
        BY <4>2, <1>1, TicksAdd
      <4> QED
        BY <2>1, <3>1, <3>2, <3>3, <4>1, <4>3
    <3>4. CASE p \notin S
      <4>1. \A t \in Nat : <<b, t>> \in worked' <=> <<b, t>> \in worked
        BY <2>1, <2>2, <3>1, <3>4, <1>0 DEF BirthsOK
      <4>2. <<b, clock + 1>> \notin worked
        BY <3>1, <1>0, <1>1 DEF WorkOK
      <4>3. TicksOf(worked', b, 0, clock + 1) = TicksOf(worked, b, 0, clock)
        BY <4>1, <4>2, <1>1 DEF TicksOf
      <4> QED
        BY <2>1, <3>1, <3>2, <3>4, <4>3
    <3> QED
      BY <3>3, <3>4
  <2> QED
    BY <2>3, <2>4, <2>5 DEF WorkOK
<1>3. CASE ~Ticks
  <2>1. clock' = clock /\ worked' = worked /\ births' >= births /\ births' \in Nat
    BY <1>3, <1>0, ProcsElse
  <2>2. \A b, t \in Nat : <<b, t>> \in worked' => b # 0 /\ b <= births' /\ t # 0 /\ t <= clock'
    BY <2>1, <1>0, <1>1 DEF WorkOK
  <2>3. NoProc.born = 0
    BY DEF NoProc
  <2>4. ASSUME NEW p \in Pids, procs'[p].born # 0, procs'[p] # procs[p]
        PROVE  /\ \A t \in Nat : <<procs'[p].born, t>> \notin worked'
               /\ procs'[p].used = 0
    <3>1. procs'[p].born = births + 1 /\ procs'[p].used = 0
      BY <1>3, <1>0, <2>3, <2>4, ProcsElse
    <3> QED
      BY <3>1, <2>1, <1>0, <1>1 DEF WorkOK
  <2>5. ASSUME NEW p \in Pids, procs'[p].born # 0
        PROVE /\ \A t \in Nat : <<procs'[p].born, t>> \in worked' => t > procs'[p].at
              /\ procs'[p].used = Cardinality(TicksOf(worked', procs'[p].born, 0, clock'))
    <3>1. CASE procs'[p] = procs[p]
      BY <2>1, <2>5, <3>1, <1>0 DEF WorkOK
    <3>2. CASE procs'[p] # procs[p]
      <4>1. TicksOf(worked', procs'[p].born, 0, clock') = {}
        BY <2>1, <2>4, <2>5, <3>2, <1>1 DEF TicksOf
      <4> QED
        BY <2>4, <2>5, <3>2, <4>1, FS_EmptySet
    <3> QED
      BY <3>1, <3>2
  <2> QED
    BY <2>2, <2>5 DEF WorkOK
<1> QED
  BY <1>2, <1>3

\* Work of later ticks does not count for what was.
LEMMA PastKept ==
  ASSUME MonInv, MonitorNext, NEW b \in Nat, NEW i \in Nat, NEW j \in Nat, j <= clock
  PROVE  TicksOf(worked', b, i, j) = TicksOf(worked, b, i, j)
<1>0. MonTypeOK /\ clock \in Nat
  BY DEF MonInv, MonTypeOK
<1>1. CASE Ticks
  <2>1. PICK S \in SUBSET Pids : worked' = worked \cup {<<procs[p].born, clock + 1>> : p \in S}
    BY <1>0, <1>1, TickFacts
  <2>2. \A t \in (i + 1)..j : t # clock + 1
    BY <1>0
  <2>3. \A t \in (i + 1)..j : <<b, t>> \in worked' <=> <<b, t>> \in worked
    BY <2>1, <2>2
  <2> QED
    BY <2>3, TicksKept
<1>2. CASE ~Ticks
  BY <1>0, <1>2, ProcsElse
<1> QED
  BY <1>1, <1>2

LEMMA SampleKept == MonInv /\ MonTypeOK' /\ MonitorNext => SampleOK'
<1> SUFFICES ASSUME MonInv, MonTypeOK', MonitorNext PROVE SampleOK'
  OBVIOUS
<1>0. MonTypeOK /\ BirthsOK /\ WorkOK /\ SampleOK
  BY DEF MonInv
<1>1. /\ \A p \in Pids : /\ procs[p].born \in Nat /\ procs[p].at \in Nat /\ procs'[p].born \in Nat /\ procs'[p].at \in Nat
                         /\ last.procs[p].born \in Nat /\ last.procs[p].at \in Nat /\ last.procs[p].used \in Nat
      /\ clock \in Nat /\ clock' \in Nat /\ births \in Nat /\ births' \in Nat /\ last.at \in Nat
  BY <1>0 DEF MonTypeOK, Process
<1>2. CASE UNCHANGED <<last, first>>
  <2>1. clock <= clock' /\ births <= births'
    BY <1>0, <1>1, TickFacts, ProcsElse
  <2>2. last'.at <= clock' /\ (first' # {} => last'.at # 0)
    BY <2>1, <1>0, <1>1, <1>2 DEF SampleOK
  <2>3. ASSUME NEW p \in Pids
        PROVE  /\ last'.procs[p].born <= births' /\ last'.procs[p].at <= last'.at
               /\ last'.procs[p].born = 0 => last'.procs[p].at = 0
               /\ last'.procs[p].born # 0 =>
                    last'.procs[p].used = Cardinality(TicksOf(worked', last'.procs[p].born, 0, last'.at))
    <3>1. TicksOf(worked', last.procs[p].born, 0, last.at) = TicksOf(worked, last.procs[p].born, 0, last.at)
      BY <1>0, <1>1, PastKept DEF SampleOK
    <3> QED
      BY <2>1, <3>1, <1>0, <1>1, <1>2 DEF SampleOK
  <2>5. ASSUME NEW p \in Pids, NEW t \in Nat, last'.procs[p].born # 0, <<last'.procs[p].born, t>> \in worked'
        PROVE  t > last'.procs[p].at
    <3>1. last.procs[p].at <= last.at /\ last.at <= clock /\ last.procs[p].born # 0 /\ last'.procs[p] = last.procs[p]
      BY <1>0, <1>2, <2>5 DEF SampleOK
    <3>2. <<last.procs[p].born, t>> \in worked \/ t = clock + 1
      BY <1>0, <1>2, <2>5, TickFacts, ProcsElse
    <3> QED
      BY <3>1, <3>2, <1>0, <1>1, <1>2 DEF SampleOK
  <2>4. ASSUME NEW p \in Pids
        PROVE  /\ procs'[p].born = last'.procs[p].born => procs'[p].at = last'.procs[p].at
               /\ procs'[p].born = 0 \/ procs'[p].born = last'.procs[p].born \/ procs'[p].at >= last'.at
    <3>1. CASE procs'[p].born = procs[p].born /\ procs'[p].at = procs[p].at
      BY <3>1, <1>0, <1>2 DEF SampleOK
    <3>2. CASE procs'[p] = NoProc
      BY <3>2, <1>0, <1>1, <1>2 DEF SampleOK, NoProc
    <3>3. CASE procs'[p].born = births + 1 /\ procs'[p].at = clock
      BY <3>3, <1>0, <1>1, <1>2 DEF SampleOK
    <3> QED
      BY <3>1, <3>2, <3>3, <1>0, TickFacts, ProcsElse
  <2> QED
    BY <2>2, <2>3, <2>4, <2>5 DEF SampleOK
<1>3. CASE /\ UNCHANGED <<procs, clock, worked, births>> /\ last'.at = clock /\ last'.procs = procs
  BY <1>0, <1>1, <1>3 DEF SampleOK, BirthsOK, WorkOK
<1> QED
  BY <1>0, <1>2, <1>3, SampleFacts

\* What a page is shown it is shown rightly, and stays right.
LEMMA RowsKept == MonInv /\ MonTypeOK' /\ MonitorNext /\ WindowAssumption => RowsOK'
<1> SUFFICES ASSUME MonInv, MonTypeOK', MonitorNext, WindowAssumption PROVE RowsOK'
  OBVIOUS
<1>0. MonTypeOK /\ BirthsOK /\ WorkOK /\ SampleOK /\ RowsOK
  BY DEF MonInv
<1>1. clock \in Nat /\ clock' \in Nat /\ clock <= clock' /\ last.at \in Nat
  BY <1>0, TickFacts, ProcsElse DEF MonTypeOK
<1> DEFINE Fine(R, W, w, p) ==
       R[w].list[p].born # 0 =>
         \/ R[w].list[p].at <= R[w].since
            /\ R[w].list[p].cpu = Cardinality(TicksOf(W, R[w].list[p].born, R[w].since, R[w].at))
         \/ R[w].list[p].at >= R[w].since /\ R[w].list[p].cpu = 0
     Window(R, w) == R[w].at # 0 => R[w].since # 0 /\ R[w].at - R[w].since >= MinWindow
<1>2. \A w \in Viewers : /\ rows[w].at <= clock /\ Window(rows, w) /\ \A p \in Pids : Fine(rows, worked, w, p)
  BY <1>0 DEF RowsOK, UsageIsItsOwn, WindowHonest, TicksOf
<1>3. \A w \in Viewers : /\ rows[w].since \in Nat /\ rows[w].at \in Nat
                         /\ \A p \in Pids : rows[w].list[p].born \in Nat
  BY <1>0 DEF MonTypeOK, Listing, ShownRow
<1>4. ASSUME NEW w \in Viewers, rows'[w] = rows[w]
      PROVE  rows'[w].at <= clock' /\ Window(rows', w) /\ \A p \in Pids : Fine(rows', worked', w, p)
  <2>1. \A p \in Pids : TicksOf(worked', rows[w].list[p].born, rows[w].since, rows[w].at)
                         = TicksOf(worked, rows[w].list[p].born, rows[w].since, rows[w].at)
    BY <1>2, <1>3, PastKept
  <2>2. \A p \in Pids : Fine(rows', worked', w, p)
    BY <2>1, <1>2, <1>4
  <2>3. rows'[w].at <= clock' /\ Window(rows', w)
    BY <1>1, <1>2, <1>3, <1>4
  <2> QED
    BY <2>2, <2>3
<1>5. ASSUME NEW v \in Viewers, Show(v), UNCHANGED <<procs, clock, worked>>,
             UsableWindow \/ (first # {} /\ clock - last.at >= MinWindow)
      PROVE  rows'[v].at <= clock' /\ Window(rows', v) /\ \A p \in Pids : Fine(rows', worked', v, p)
  <2>1. rows'[v].since = last.at /\ rows'[v].at = clock /\ \A p \in Pids : rows'[v].list[p] = Row(last.procs[p], procs[p])
    BY <1>0, <1>5, ShowFacts
  <2>2. last.at # 0 /\ clock - last.at >= MinWindow /\ last.at <= clock
    BY <1>5, <1>0, <1>1 DEF UsableWindow, SampleOK, WindowAssumption
  <2>3. ASSUME NEW p \in Pids, procs[p].born # 0
        PROVE  \/ /\ procs[p].at <= last.at
                  /\ Row(last.procs[p], procs[p]).cpu = Cardinality(TicksOf(worked, procs[p].born, last.at, clock))
               \/ procs[p].at >= last.at /\ Row(last.procs[p], procs[p]).cpu = 0
    <3> DEFINE b == last.procs[p]
               q == procs[p]
               c == Row(b, q).cpu
    <3>1. /\ q.born \in Nat /\ q.at \in Nat /\ q.used \in Nat /\ b.born \in Nat /\ b.at \in Nat /\ b.used \in Nat
          /\ c = IF SameProcess(b, q) /\ q.used > b.used THEN q.used - b.used ELSE 0
      BY <1>0, <2>3, RowTyped DEF MonTypeOK, Process
    <3>2. /\ b.at <= last.at /\ (b.born = 0 => b.at = 0)
          /\ b.born # 0 => b.used = Cardinality(TicksOf(worked, b.born, 0, last.at))
          /\ q.born = b.born => q.at = b.at
          /\ q.born = b.born \/ q.at >= last.at
          /\ q.used = Cardinality(TicksOf(worked, q.born, 0, clock))
      BY <1>0, <2>3 DEF SampleOK, WorkOK
    <3>3. /\ Cardinality(TicksOf(worked, q.born, 0, clock))
               = Cardinality(TicksOf(worked, q.born, 0, last.at)) + Cardinality(TicksOf(worked, q.born, last.at, clock))
          /\ Cardinality(TicksOf(worked, q.born, 0, last.at)) \in Nat
          /\ Cardinality(TicksOf(worked, q.born, last.at, clock)) \in Nat
      BY <1>1, <2>2, <3>1, TicksSplit, TicksFinite
    <3> DEFINE before == Cardinality(TicksOf(worked, q.born, 0, last.at))
               since  == Cardinality(TicksOf(worked, q.born, last.at, clock))
    <3>4. CASE q.born = b.born
      <4>1. SameProcess(b, q) /\ q.at <= last.at /\ b.used = before
        BY <2>3, <3>1, <3>2, <3>4 DEF SameProcess
      <4>2. q.used = before + since /\ before \in Nat /\ since \in Nat
        BY <3>2, <3>3
      <4> HIDE DEF before, since
      <4>3. c = since
        BY <3>1, <4>1, <4>2
      <4> QED
        BY <4>1, <4>3 DEF since
    <3>5. CASE q.born # b.born /\ SameProcess(b, q)
      <4>1. q.at = last.at /\ b.at = last.at
        BY <3>1, <3>2, <3>5, <1>1 DEF SameProcess
      <4>2. \A t \in Nat : <<q.born, t>> \in worked => t > last.at
        BY <1>0, <2>3, <4>1 DEF WorkOK
      <4>3. TicksOf(worked, q.born, 0, last.at) = {}
        BY <4>2, <1>1 DEF TicksOf
      <4>4. before = 0
        BY <4>3, FS_EmptySet
      <4>5. b.used = 0
        <5>1. \A t \in Nat : <<b.born, t>> \in worked => t > last.at
          BY <1>0, <3>1, <3>5, <4>1 DEF SampleOK, SameProcess
        <5>2. TicksOf(worked, b.born, 0, last.at) = {}
          BY <5>1, <1>1 DEF TicksOf
        <5> QED
          BY <3>2, <3>5, <5>2, FS_EmptySet DEF SameProcess
      <4>6. q.used = before + since /\ since \in Nat
        BY <3>2, <3>3
      <4> HIDE DEF before, since
      <4>7. c = since
        BY <3>1, <3>5, <4>4, <4>5, <4>6
      <4> QED
        BY <1>1, <3>1, <4>1, <4>7 DEF since
    <3>6. CASE q.born # b.born /\ ~SameProcess(b, q)
      BY <3>1, <3>2, <3>6
    <3> QED
      BY <3>4, <3>5, <3>6
  <2>4. \A p \in Pids : Fine(rows', worked', v, p)
    <3>1. \A p \in Pids : last.procs[p] \in Process /\ procs[p] \in Process
      BY <1>0 DEF MonTypeOK
    <3>2. \A p \in Pids : /\ procs[p].born = 0 => rows'[v].list[p].born = 0
                          /\ procs[p].born # 0 => rows'[v].list[p].born = procs[p].born /\ rows'[v].list[p].at = procs[p].at
      BY <2>1, <3>1, RowTyped
    <3> QED
      BY <1>5, <2>1, <2>3, <3>2
  <2>5. rows'[v].at <= clock' /\ Window(rows', v)
    BY <1>1, <1>5, <2>1, <2>2
  <2> QED
    BY <2>4, <2>5
<1>6. \A w \in Viewers : rows'[w].at <= clock' /\ Window(rows', w) /\ \A p \in Pids : Fine(rows', worked', w, p)
  <2> HIDE DEF Fine, Window
  <2>1. ASSUME NEW v \in Viewers, Show(v) PROVE \A w \in Viewers \ {v} : rows'[w] = rows[w]
    BY <1>0, <2>1, ShowFacts
  <2> QED
    BY <1>0, <1>4, <1>5, <2>1, SampleFacts
<1> QED
  BY <1>6 DEF RowsOK, UsageIsItsOwn, WindowHonest, TicksOf

LEMMA NamesKept == MonInv /\ MonTypeOK' /\ MonitorNext => NamesOK'
<1> SUFFICES ASSUME MonInv, MonTypeOK', MonitorNext PROVE NamesOK'
  OBVIOUS
<1>0. MonTypeOK /\ BirthsOK /\ NamesOK
  BY DEF MonInv
<1>1. \A p \in Pids : procs[p].born \in Nat /\ procs[p].born <= births /\ births \in Nat
  BY <1>0 DEF MonTypeOK, Process, BirthsOK
<1>2. ASSUME NEW v \in Viewers, order'[v] = order[v], NEW p \in order[v].pid, order[v].pc = "signal",
             procs'[p].born # 0, procs'[p].born = order[v].seen
      PROVE  procs'[p].name = order[v].row.name
  <2>1. p \in Pids /\ order[v].seen \in Nat /\ order[v].seen <= births
    BY <1>0, <1>2 DEF MonTypeOK, KillOrder, BirthsOK
  <2>2. CASE procs'[p].name = procs[p].name /\ procs'[p].born = procs[p].born
    BY <1>0, <1>2, <2>2 DEF NamesOK
  <2>3. NoProc.born = 0
    BY DEF NoProc
  <2> QED
    BY <1>0, <1>1, <1>2, <2>1, <2>2, <2>3, TickFacts, ProcsElse
<1>3. ASSUME NEW v \in Viewers
      PROVE  /\ \A p, q \in order'[v].pid : p = q
             /\ order'[v].pc = "signal" => \A p \in order'[v].pid :
                  procs'[p].born # 0 /\ procs'[p].born = order'[v].seen => procs'[p].name = order'[v].row.name
  <2>1. CASE order'[v] = order[v]
    BY <1>0, <1>2, <2>1 DEF NamesOK
  <2>2. CASE order'[v].pc # "signal" /\ \A p, q \in order'[v].pid : p = q
    BY <2>2
  <2>3. ASSUME NEW p \in order[v].pid, p \in Pids, procs' = procs, order'[v].seen = procs[p].born,
               order'[v].pid = order[v].pid, order'[v].row = order[v].row, procs[p].name = order[v].row.name
        PROVE  /\ \A x, y \in order'[v].pid : x = y
               /\ order'[v].pc = "signal" => \A x \in order'[v].pid :
                    procs'[x].born # 0 /\ procs'[x].born = order'[v].seen => procs'[x].name = order'[v].row.name
    BY <1>0, <2>3 DEF NamesOK
  <2> QED
    BY <1>0, <2>1, <2>2, <2>3, OrderFacts
<1>4. StrikesAsShown'
  <2>1. ASSUME NEW v \in Viewers, NEW p \in Pids, Signal(v, p), struck' # struck
        PROVE  StrikesAsShown'
    <3>1. struck' = [row |-> order[v].row, proc |-> procs[p], seen |-> order[v].seen] /\ procs[p].born # 0
      BY <2>1 DEF Signal
    <3>2. procs[p].born = order[v].seen => procs[p].name = order[v].row.name
      BY <1>0, <2>1, <3>1 DEF NamesOK, Signal
    <3> QED
      BY <3>1, <3>2 DEF StrikesAsShown
  <2>2. struck' = struck \/ \E v \in Viewers, p \in Pids : Signal(v, p)
    BY DEF MonitorNext, Snapshot, SecondSample, Click, CheckName, Born, Exits, Ticks
  <2>3. struck' = struck => StrikesAsShown'
    BY <1>0 DEF NamesOK, StrikesAsShown
  <2> QED
    BY <2>1, <2>2, <2>3
<1> QED
  BY <1>3, <1>4 DEF NamesOK

\* The list shows what each process itself has used in the time it names, whoever
\* had its pid before, and a signal reaches a process of the name that was clicked.
THEOREM ListAndKillTrue == MonitorSpec => []MonitorTrue
<1>1. MonitorInit => MonInv
  <2> SUFFICES ASSUME MonitorInit PROVE MonInv
    OBVIOUS
  <2>0. clock \in Nat /\ clock # 0
    BY WindowAssumption DEF MonitorInit
  <2>1. NoProc \in Process /\ Unlisted \in ShownRow /\ NoKill \in KillOrder
        /\ NoProc.born = 0 /\ NoProc.at = 0 /\ Unlisted.born = 0 /\ NoKill.pc = "none" /\ NoKill.seen = 0 /\ NoKill.pid = {}
    BY DEF NoProc, Process, Unlisted, ShownRow, NoKill, KillOrder
  <2> DEFINE list == [p \in Pids |-> Unlisted]
             shown == [since |-> 0, at |-> 0, list |-> list]
  <2>2. shown \in Listing /\ shown.at = 0 /\ \A p \in Pids : shown.list[p] = Unlisted
    BY <2>1 DEF Listing
  <2>3. /\ procs = None /\ worked = {} /\ last = [at |-> 0, procs |-> None] /\ first = {} /\ births = 0
        /\ rows = [v \in Viewers |-> shown] /\ order = [v \in Viewers |-> NoKill]
        /\ struck = [row |-> Unlisted, proc |-> NoProc, seen |-> 0]
    BY DEF MonitorInit
  <2> HIDE DEF shown
  <2>4. None \in [Pids -> Process] /\ \A p \in Pids : None[p] = NoProc
    BY <2>1 DEF None
  <2>5. MonTypeOK
    BY <2>0, <2>1, <2>2, <2>3, <2>4 DEF MonTypeOK
  <2>6. BirthsOK /\ WorkOK
    BY <2>0, <2>1, <2>3, <2>4 DEF BirthsOK, WorkOK
  <2>7. SampleOK
    BY <2>0, <2>1, <2>3, <2>4 DEF SampleOK
  <2>8. RowsOK
    BY <2>0, <2>1, <2>2, <2>3 DEF RowsOK, UsageIsItsOwn, WindowHonest
  <2>9. NamesOK
    BY <2>1, <2>3 DEF NamesOK, StrikesAsShown
  <2> QED
    BY <2>5, <2>6, <2>7, <2>8, <2>9 DEF MonInv
<1>2. MonInv /\ [MonitorNext]_sysVars => MonInv'
  <2>1. CASE MonitorNext
    BY <2>1, WindowAssumption, MonTyped, BirthsKept, WorkKept, SampleKept, RowsKept, NamesKept DEF MonInv
  <2>2. CASE UNCHANGED sysVars
    <3>1. MonTypeOK <=> MonTypeOK'
      BY <2>2 DEF sysVars, MonTypeOK
    <3>2. (BirthsOK <=> BirthsOK') /\ (WorkOK <=> WorkOK') /\ (SampleOK <=> SampleOK')
      BY <2>2 DEF sysVars, BirthsOK, WorkOK, SampleOK
    <3>3. (RowsOK <=> RowsOK') /\ (NamesOK <=> NamesOK')
      BY <2>2 DEF sysVars, RowsOK, NamesOK, UsageIsItsOwn, WindowHonest, StrikesAsShown
    <3> QED
      BY <3>1, <3>2, <3>3 DEF MonInv
  <2> QED
    BY <2>1, <2>2
<1>3. MonInv => MonitorTrue
  BY DEF MonInv, RowsOK, NamesOK, MonitorTrue
<1> QED
  BY <1>1, <1>2, <1>3, PTL DEF MonitorSpec

-----------------------------------------------------------------------------
(***************************************************************************)
(* FileWrites: requests that change the same files at once.                *)
(***************************************************************************)
Reasons == {"moving", "itself", "two writers", "cut off"}
FsOp == [pc : {"idle", "remove", "rename", "put"}, path : SUBSET Paths, away : SUBSET Paths,
         temp : BOOLEAN, from : Nat, to : Nat, half : Nat, v : Nat]

FsTypeOK ==
  /\ at \in [Paths -> Nat] /\ expected \subseteq Paths
  /\ data \in [Inodes -> [Halves -> SUBSET Nat]]
  /\ torn \in [Inodes -> SUBSET Reasons]
  /\ op \in [FsUsers -> FsOp]
  /\ ops \in Nat /\ inodes \in Nat

\* Whoever has a name, is read or is written is an inode, and there is room for
\* one more for each request that may yet begin.
InodesOK ==
  /\ inodes <= Cardinality(Paths) + ops /\ ops <= MaxOps
  /\ \A p \in Paths : at[p] <= inodes
  /\ \A u \in FsUsers : op[u].pc # "idle" =>
       /\ op[u].to \in 1..inodes /\ op[u].from <= inodes
       /\ op[u].half \in 0..3 /\ (op[u].pc = "put" => op[u].half # 0)

Writes(u, i) == op[u].pc = "put" /\ op[u].to = i
Source(u, h) == IF op[u].from = 0 THEN {op[u].v} ELSE data[op[u].from][h]

\* A writer whose file nothing has torn is alone in it, nobody writes into its
\* source, and what it has written is what the source has.
WriterOK(u) ==
  op[u].pc = "put" /\ torn[op[u].to] = {} =>
    /\ \A x \in FsUsers : Writes(x, op[u].to) => x = u
    /\ op[u].from # 0 => torn[op[u].from] = {} /\ \A x \in FsUsers : ~Writes(x, op[u].from)
    /\ \A h \in Halves : h < op[u].half => data[op[u].to][h] = Source(u, h) \cup Edited(u)

\* A file into which nobody writes, whether it has a name or not, is of one piece.
Settled(i) == (\A x \in FsUsers : ~Writes(x, i)) => Whole(i) \/ torn[i] # {}

FsInv ==
  /\ FsTypeOK /\ InodesOK /\ FileThere
  /\ \A u \in FsUsers : WriterOK(u)
  /\ \A i \in 1..inodes : Settled(i)

-----------------------------------------------------------------------------
LEMMA NoOpFacts ==
  /\ NoOp \in FsOp /\ NoOp.pc = "idle" /\ NoOp.path = {} /\ NoOp.away = {}
BY DEF NoOp, FsOp

\* While a request may begin there is room for its inode.
LEMMA RoomForOne ==
  ASSUME FsTypeOK, InodesOK, ops < MaxOps
  PROVE  New \in Inodes /\ New \in Nat /\ New \notin 1..inodes /\ New <= Cardinality(Paths) + (ops + 1) /\ ops + 1 <= MaxOps
<1>1. Cardinality(Paths) \in Nat /\ MaxOps \in Nat
  BY FilesAssumption, FS_CardinalityType
<1> QED
  BY <1>1 DEF FsTypeOK, InodesOK, New, Inodes

LEMMA KnownInodes ==
  ASSUME FsTypeOK, InodesOK
  PROVE  1..inodes \subseteq Inodes
<1>1. Cardinality(Paths) \in Nat /\ MaxOps \in Nat
  BY FilesAssumption, FS_CardinalityType
<1> QED
  BY <1>1 DEF FsTypeOK, InodesOK, Inodes

\* A request that begins.
LEMMA BeginsFacts ==
  ASSUME FsTypeOK, InodesOK, NEW u \in FsUsers, NEW o \in FsOp, Begins(u, o)
  PROVE  /\ op[u].pc = "idle" /\ op'[u] = o /\ (\A x \in FsUsers \ {u} : op'[x] = op[x])
         /\ op' \in [FsUsers -> FsOp] /\ ops' = ops + 1 /\ ops' \in Nat /\ ops < MaxOps
BY DEF Begins, FsTypeOK

\* What a request begins with.
Starts(u, pc, p, away, from, to, half) ==
  \E o \in FsOp : /\ Begins(u, o) /\ o.pc = pc /\ o.path = {p} /\ o.away = away
                  /\ o.from = from /\ o.to = to /\ o.half = half

LEMMA WriteFacts ==
  ASSUME FsTypeOK, InodesOK, NEW u \in FsUsers, NEW p \in Paths, Write(u, p)
  PROVE  /\ Starts(u, "remove", p, {}, 0, New, 0)
         /\ data' = [data EXCEPT ![New] = All({ops + 1})]
         /\ inodes' = New /\ UNCHANGED <<at, torn, expected>>
<1> DEFINE o == [NoOp EXCEPT !.pc = "remove", !.path = {p}, !.to = New, !.v = ops + 1]
<1>1. New \in Nat /\ ops + 1 \in Nat
  BY DEF FsTypeOK, New
<1>2. o \in FsOp /\ o.pc = "remove" /\ o.path = {p} /\ o.away = {} /\ o.from = 0 /\ o.to = New /\ o.half = 0
  BY <1>1 DEF NoOp, FsOp
<1>3. Begins(u, o)
  BY DEF Write
<1> HIDE DEF o
<1> QED
  BY <1>2, <1>3 DEF Write, Starts

LEMMA RewriteFacts ==
  ASSUME FsTypeOK, InodesOK, NEW u \in FsUsers, NEW q \in Paths, NEW p \in Paths, Rewrite(u, q, p)
  PROVE  /\ Starts(u, "put", p, {}, at[q], New, 1)
         /\ torn' = [torn EXCEPT ![New] = torn[at[q]] \cup (IF Writing(at[q]) # {} THEN {"moving"} ELSE {})]
         /\ inodes' = New /\ UNCHANGED <<at, data, expected>>
<1> DEFINE o == [NoOp EXCEPT !.pc = "put", !.path = {p}, !.temp = TRUE, !.from = at[q], !.to = New,
                             !.half = 1, !.v = ops + 1]
<1>1. New \in Nat /\ ops + 1 \in Nat /\ at[q] \in Nat
  BY DEF FsTypeOK, New
<1>2. o \in FsOp /\ o.pc = "put" /\ o.path = {p} /\ o.away = {} /\ o.from = at[q] /\ o.to = New /\ o.half = 1
  BY <1>1 DEF NoOp, FsOp
<1>3. Begins(u, o)
  BY DEF Rewrite
<1> HIDE DEF o
<1> QED
  BY <1>2, <1>3 DEF Rewrite, Starts

LEMMA OpenFacts ==
  ASSUME FsTypeOK, InodesOK, NEW u \in FsUsers, NEW p \in Paths, NEW from \in Nat, NEW away \in SUBSET Paths, OpenOver(u, p, from, away)
  PROVE  LET i == IF at[p] = 0 THEN New ELSE at[p] IN
         /\ Starts(u, "put", p, away, from, i, 1)
         /\ at' = [at EXCEPT ![p] = i] /\ inodes' = (IF at[p] = 0 THEN New ELSE inodes)
         /\ data' = [data EXCEPT ![i] = NoData] /\ expected' = expected \cup {p}
<1> DEFINE i == IF at[p] = 0 THEN New ELSE at[p]
           o == [NoOp EXCEPT !.pc = "put", !.path = {p}, !.away = away, !.from = from, !.to = i,
                             !.half = 1, !.v = ops + 1]
<1>1. i \in Nat /\ ops + 1 \in Nat
  BY DEF FsTypeOK, New
<1>2. Begins(u, o)
  BY DEF OpenOver
<1>3. /\ at' = [at EXCEPT ![p] = i] /\ inodes' = (IF at[p] = 0 THEN New ELSE inodes)
      /\ data' = [data EXCEPT ![i] = NoData] /\ expected' = expected \cup {p}
  BY DEF OpenOver
<1> HIDE DEF i
<1>4. o \in FsOp /\ o.pc = "put" /\ o.path = {p} /\ o.away = away /\ o.from = from /\ o.to = i /\ o.half = 1
  BY <1>1 DEF NoOp, FsOp
<1> HIDE DEF o
<1>5. Starts(u, "put", p, away, from, i, 1)
  BY <1>2, <1>4 DEF Starts
<1> QED
  BY <1>3, <1>5 DEF i

\* The steps of a request under way: what becomes of its record.
LEMMA ProceedsFacts ==
  ASSUME FsTypeOK, NEW u \in FsUsers, NEW pc \in {"remove", "rename"}, Proceeds(u, pc)
  PROVE  /\ op'[u] \in FsOp /\ op'[u].pc = pc /\ op'[u].path = op[u].path /\ op'[u].to = op[u].to
         /\ op'[u].from = op[u].from /\ op'[u].half = op[u].half
         /\ (\A x \in FsUsers \ {u} : op'[x] = op[x]) /\ op' \in [FsUsers -> FsOp] /\ ops' = ops
<1>1. op[u] \in FsOp /\ op'[u] = [op[u] EXCEPT !.pc = pc] /\ ops' = ops
      /\ \A x \in FsUsers \ {u} : op'[x] = op[x] /\ op[x] \in FsOp
  BY DEF Proceeds, FsTypeOK
<1>2. [op[u] EXCEPT !.pc = pc] \in FsOp
  BY <1>1 DEF FsOp
<1>3. op' \in [FsUsers -> FsOp]
  BY <1>2 DEF Proceeds, FsTypeOK
<1> QED
  BY <1>1, <1>2, <1>3 DEF FsOp

LEMMA EndsFacts ==
  ASSUME FsTypeOK, NEW u \in FsUsers, Ends(u)
  PROVE  /\ op'[u] = NoOp /\ (\A x \in FsUsers \ {u} : op'[x] = op[x])
         /\ op' \in [FsUsers -> FsOp] /\ ops' = ops
BY NoOpFacts DEF Ends, FsTypeOK

\* What a writer writes.
LEMMA PutFacts ==
  ASSUME FsTypeOK, InodesOK, NEW u \in FsUsers, Put(u)
  PROVE  LET i == op[u].to
             h == op[u].half IN
         /\ op[u].pc = "put" /\ h \in Halves /\ i \in Inodes
         /\ op'[u] \in FsOp /\ op'[u].pc = "put" /\ op'[u].to = i /\ op'[u].from = op[u].from
         /\ op'[u].half = h + 1 /\ op'[u].temp = op[u].temp /\ op'[u].v = op[u].v /\ op'[u].path = op[u].path
         /\ (\A x \in FsUsers \ {u} : op'[x] = op[x]) /\ op' \in [FsUsers -> FsOp]
         /\ \A k \in Inodes : k # i => data'[k] = data[k]
         /\ \A k \in Halves : data'[i][k] = IF k = h THEN Source(u, h) \cup Edited(u) ELSE data[i][k]
         /\ data' \in [Inodes -> [Halves -> SUBSET Nat]]
         /\ UNCHANGED <<at, torn, expected, ops, inodes>>
<1> DEFINE i == op[u].to
           h == op[u].half
<1>1. op[u] \in FsOp /\ op[u].pc = "put" /\ i \in 1..inodes /\ op[u].from \in 0..inodes
  BY DEF Put, FsTypeOK, InodesOK, FsOp
<1>2. h \in Halves /\ Piece(u) = Source(u, h)
  BY DEF Put, Piece, Source
<1>3. i \in Inodes /\ (op[u].from # 0 => op[u].from \in Inodes)
  BY <1>1, KnownInodes DEF FsTypeOK
<1>4. Source(u, h) \cup Edited(u) \in SUBSET Nat
  BY <1>1, <1>2, <1>3 DEF Source, Edited, FsTypeOK, FsOp
<1> DEFINE d == Source(u, h) \cup Edited(u)
<1>5. data' = [data EXCEPT ![i] = [data[i] EXCEPT ![h] = d]] /\ data[i] \in [Halves -> SUBSET Nat]
  BY <1>2, <1>3 DEF Put, FsTypeOK
<1>6. /\ data' \in [Inodes -> [Halves -> SUBSET Nat]]
      /\ \A k \in Inodes : k # i => data'[k] = data[k]
      /\ \A k \in Halves : data'[i][k] = IF k = h THEN d ELSE data[i][k]
  <2> HIDE DEF d, i, h
  <2>1. [data[i] EXCEPT ![h] = d] \in [Halves -> SUBSET Nat]
        /\ \A k \in Halves : [data[i] EXCEPT ![h] = d][k] = IF k = h THEN d ELSE data[i][k]
    BY <1>2, <1>4, <1>5 DEF d
  <2>2. data \in [Inodes -> [Halves -> SUBSET Nat]]
    BY DEF FsTypeOK
  <2>3. data'[i] = [data[i] EXCEPT ![h] = d] /\ \A k \in Inodes : k # i => data'[k] = data[k]
    BY <1>3, <1>5, <2>2
  <2>4. data' \in [Inodes -> [Halves -> SUBSET Nat]]
    <3> DEFINE f == [data[i] EXCEPT ![h] = d]
    <3>1. f \in [Halves -> SUBSET Nat] /\ data' = [data EXCEPT ![i] = f]
      BY <1>5, <2>1
    <3> HIDE DEF f
    <3> QED
      BY <3>1, <2>2
  <2> QED
    BY <2>1, <2>3, <2>4
<1>7. op'[u] = [op[u] EXCEPT !.half = h + 1] /\ \A x \in FsUsers \ {u} : op'[x] = op[x] /\ op[x] \in FsOp
  BY DEF Put, FsTypeOK
<1>8. h + 1 \in Nat
  BY <1>2 DEF Halves
<1>9. [op[u] EXCEPT !.half = h + 1] \in FsOp
  BY <1>1, <1>8 DEF FsOp
<1>10. op' \in [FsUsers -> FsOp]
  BY <1>9 DEF Put, FsTypeOK
<1>11. /\ op'[u].pc = "put" /\ op'[u].to = i /\ op'[u].from = op[u].from
       /\ op'[u].half = h + 1 /\ op'[u].temp = op[u].temp /\ op'[u].v = op[u].v /\ op'[u].path = op[u].path
  BY <1>1, <1>7 DEF FsOp
<1> QED
  BY <1>1, <1>2, <1>3, <1>6, <1>7, <1>9, <1>10, <1>11 DEF Put

LEMMA PutEndsFacts ==
  ASSUME FsTypeOK, InodesOK, NEW u \in FsUsers, PutEnds(u)
  PROVE  /\ op[u].pc = "put" /\ Piece(u) = {}
         /\ op'[u] = NoOp \/ (/\ op'[u].pc = "remove" /\ op'[u].path = op[u].path /\ op'[u].to = op[u].to
                              /\ op'[u].from = op[u].from /\ op'[u].half = op[u].half)
         /\ (\A x \in FsUsers \ {u} : op'[x] = op[x]) /\ op' \in [FsUsers -> FsOp] /\ ops' = ops
         /\ at' = [p \in Paths |-> IF p \in op[u].away THEN 0 ELSE at[p]]
         /\ expected' = expected \ op[u].away
         /\ UNCHANGED <<data, torn, inodes>>
<1>1. Proceeds(u, "remove") \/ Ends(u)
  BY DEF PutEnds
<1> QED
  BY <1>1, ProceedsFacts, EndsFacts DEF PutEnds

LEMMA FaultFacts ==
  ASSUME FsTypeOK, NEW S \in SUBSET FsUsers, Fault(S)
  PROVE  /\ \A x \in FsUsers : op'[x] = IF x \in S THEN NoOp ELSE op[x]
         /\ op' \in [FsUsers -> FsOp]
         /\ torn' \in [Inodes -> SUBSET Reasons]
         /\ \A i \in Inodes : /\ torn[i] \subseteq torn'[i]
                              /\ (\E x \in S : Writes(x, i)) => torn'[i] # {}
                              /\ (\A x \in S : ~Writes(x, i)) => torn'[i] = torn[i]
<1>1. /\ \A x \in FsUsers : op'[x] = IF x \in S THEN NoOp ELSE op[x]
      /\ op' \in [FsUsers -> FsOp]
  BY NoOpFacts DEF Fault, FsTypeOK
<1>2. ASSUME NEW i \in Inodes PROVE torn'[i] = torn[i] \cup (IF Writing(i) \cap S # {} THEN {"cut off"} ELSE {})
  BY DEF Fault
<1>3. \A i \in Inodes : Writing(i) \cap S # {} <=> \E x \in S : Writes(x, i)
  BY DEF Writing, Writes
<1>4. torn' \in [Inodes -> SUBSET Reasons]
  BY DEF Fault, FsTypeOK, Reasons
<1> QED
  BY <1>1, <1>2, <1>3, <1>4

\* A request of one system call.
LEMMA OneCallFacts ==
  ASSUME FsTypeOK, InodesOK, NEW u \in FsUsers, Begins(u, NoOp)
  PROVE  /\ op[u].pc = "idle" /\ op'[u].pc = "idle"
         /\ (\A x \in FsUsers \ {u} : op'[x] = op[x])
         /\ op' \in [FsUsers -> FsOp] /\ ops' = ops + 1 /\ ops' \in Nat /\ ops < MaxOps
BY BeginsFacts, NoOpFacts

-----------------------------------------------------------------------------
\* Types and bounds, action by action.
FsShape == FsTypeOK /\ InodesOK

LEMMA FsShapeKept == FsShape /\ FilesNext => FsShape'
<1> SUFFICES ASSUME FsShape, FilesNext PROVE FsShape'
  OBVIOUS
<1>0. FsTypeOK /\ InodesOK
  BY DEF FsShape
<1>1. /\ at \in [Paths -> Nat] /\ expected \subseteq Paths /\ data \in [Inodes -> [Halves -> SUBSET Nat]]
      /\ torn \in [Inodes -> SUBSET Reasons] /\ op \in [FsUsers -> FsOp] /\ ops \in Nat /\ inodes \in Nat
      /\ Cardinality(Paths) \in Nat /\ MaxOps \in Nat
  BY <1>0, FilesAssumption, FS_CardinalityType DEF FsTypeOK
<1>2. \A i \in 1..inodes : i \in Inodes
  BY <1>0, KnownInodes
<1> DEFINE Bounds(x) == op[x].pc # "idle" =>
                          /\ op[x].to \in 1..inodes /\ op[x].from <= inodes
                          /\ op[x].half \in 0..3 /\ (op[x].pc = "put" => op[x].half # 0)
<1>3. /\ inodes <= Cardinality(Paths) + ops /\ ops <= MaxOps /\ (\A p \in Paths : at[p] <= inodes)
      /\ \A x \in FsUsers : Bounds(x) /\ op[x] \in FsOp /\ op[x].from \in Nat
  BY <1>0, <1>1 DEF InodesOK, FsOp
<1>4. NoData \in [Halves -> SUBSET Nat] /\ \A n \in Nat : All({n}) \in [Halves -> SUBSET Nat]
  BY DEF NoData, All
<1>5. ASSUME NEW x \in FsUsers, op'[x] = op[x], inodes' \in Nat, inodes' >= inodes PROVE Bounds(x)'
  BY <1>1, <1>3, <1>5
\* A temporary file, or a new one.
<1>6. ASSUME NEW u \in FsUsers, NEW p \in Paths, Write(u, p) PROVE FsShape'
  <2>1. /\ Starts(u, "remove", p, {}, 0, New, 0) /\ data' = [data EXCEPT ![New] = All({ops + 1})]
        /\ inodes' = New /\ UNCHANGED <<at, torn, expected>>
    BY <1>0, <1>6, WriteFacts
  <2>2. /\ op'[u].pc = "remove" /\ op'[u].from = 0 /\ op'[u].to = New /\ op'[u].half = 0
        /\ (\A x \in FsUsers \ {u} : op'[x] = op[x])
        /\ op' \in [FsUsers -> FsOp] /\ ops' = ops + 1 /\ ops' \in Nat /\ ops < MaxOps
    BY <1>0, <2>1, BeginsFacts DEF Starts
  <2>3. New \in Inodes /\ New = inodes + 1 /\ ops + 1 \in Nat
    BY <1>0, <1>1, <2>2, RoomForOne DEF New
  <2>4. data' \in [Inodes -> [Halves -> SUBSET Nat]]
    BY <1>1, <1>4, <2>1, <2>3
  <2>5. FsTypeOK'
    <3>1. inodes' \in Nat /\ UNCHANGED <<at, torn, expected>>
      BY <1>1, <2>1, <2>3
    <3> QED
      BY <1>1, <2>2, <2>4, <3>1 DEF FsTypeOK
  <2>6. \A x \in FsUsers : Bounds(x)'
    BY <1>1, <1>5, <2>1, <2>2, <2>3
  <2>7. InodesOK'
    BY <1>1, <1>3, <2>1, <2>2, <2>3, <2>6 DEF InodesOK
  <2> QED
    BY <2>5, <2>7 DEF FsShape
<1>7. ASSUME NEW u \in FsUsers, NEW q \in Paths, NEW p \in Paths, Rewrite(u, q, p), at[q] # 0 PROVE FsShape'
  <2>1. /\ Starts(u, "put", p, {}, at[q], New, 1)
        /\ torn' = [torn EXCEPT ![New] = torn[at[q]] \cup (IF Writing(at[q]) # {} THEN {"moving"} ELSE {})]
        /\ inodes' = New /\ UNCHANGED <<at, data, expected>>
    BY <1>0, <1>7, RewriteFacts
  <2>2. /\ op'[u].pc = "put" /\ op'[u].from = at[q] /\ op'[u].to = New /\ op'[u].half = 1
        /\ (\A x \in FsUsers \ {u} : op'[x] = op[x])
        /\ op' \in [FsUsers -> FsOp] /\ ops' = ops + 1 /\ ops' \in Nat /\ ops < MaxOps
    BY <1>0, <2>1, BeginsFacts DEF Starts
  <2>3. New \in Inodes /\ New = inodes + 1 /\ at[q] \in 1..inodes /\ at[q] \in Inodes
    BY <1>0, <1>1, <1>2, <1>3, <1>7, <2>2, RoomForOne DEF New
  <2>4. torn' \in [Inodes -> SUBSET Reasons]
    BY <1>1, <2>1, <2>3 DEF Reasons
  <2>5. FsTypeOK'
    BY <1>1, <2>1, <2>2, <2>3, <2>4 DEF FsTypeOK
  <2>6. \A x \in FsUsers : Bounds(x)'
    BY <1>1, <1>5, <2>1, <2>2, <2>3
  <2>7. InodesOK'
    BY <1>1, <1>3, <2>1, <2>2, <2>3, <2>6 DEF InodesOK
  <2> QED
    BY <2>5, <2>7 DEF FsShape
<1>8. ASSUME NEW u \in FsUsers, NEW p \in Paths, NEW from \in 0..inodes, NEW away \in SUBSET Paths,
             OpenOver(u, p, from, away)
      PROVE  FsShape'
  <2> DEFINE i == IF at[p] = 0 THEN New ELSE at[p]
  <2>0. from \in Nat
    BY <1>1
  <2>1. /\ Starts(u, "put", p, away, from, i, 1)
        /\ at' = [at EXCEPT ![p] = i] /\ inodes' = (IF at[p] = 0 THEN New ELSE inodes)
        /\ data' = [data EXCEPT ![i] = NoData] /\ expected' = expected \cup {p}
    BY <1>0, <1>8, <2>0, OpenFacts, Zenon
  <2>2. /\ op'[u].pc = "put" /\ op'[u].from = from /\ op'[u].to = i /\ op'[u].half = 1
        /\ (\A x \in FsUsers \ {u} : op'[x] = op[x])
        /\ op' \in [FsUsers -> FsOp] /\ ops' = ops + 1 /\ ops' \in Nat /\ ops < MaxOps
    BY <1>0, <2>1, BeginsFacts DEF Starts
  <2>3. New \in Inodes /\ New = inodes + 1 /\ at[p] \in 0..inodes
    BY <1>0, <1>1, <1>3, <2>2, RoomForOne DEF New
  <2>4. i \in Inodes /\ i \in 1..inodes' /\ inodes' \in Nat /\ inodes' >= inodes /\ inodes' <= inodes + 1
    BY <1>1, <1>2, <2>1, <2>3
  <2>5. torn' \in [Inodes -> SUBSET Reasons]
    <3>1. from # 0 => torn[from] \in SUBSET Reasons
      BY <1>1, <1>2
    <3>2. torn' = [k \in Inodes |->
              IF k = i THEN (IF from = 0 THEN {} ELSE torn[from])
                            \cup (IF from = i THEN {"itself"} ELSE {})
                            \cup (IF Writing(i) # {} THEN {"two writers"} ELSE {})
                            \cup (IF from # 0 /\ Writing(from) # {} THEN {"moving"} ELSE {})
              ELSE torn[k] \cup (IF \E x \in Reading(i) : op[x].to = k THEN {"moving"} ELSE {})]
      BY <1>8 DEF OpenOver
    <3> HIDE DEF i
    <3>3. \A k \in Inodes : torn'[k] \in SUBSET Reasons
      BY <1>1, <3>1, <3>2 DEF Reasons
    <3> QED
      BY <3>2, <3>3
  <2> HIDE DEF i
  <2>6. data' \in [Inodes -> [Halves -> SUBSET Nat]] /\ at' \in [Paths -> Nat] /\ \A r \in Paths : at'[r] <= inodes'
    BY <1>1, <1>3, <1>4, <2>1, <2>4
  <2>7. FsTypeOK'
    BY <1>1, <2>1, <2>2, <2>4, <2>5, <2>6 DEF FsTypeOK
  <2>8. \A x \in FsUsers : Bounds(x)'
    BY <1>1, <1>5, <2>1, <2>2, <2>4
  <2>9. InodesOK'
    BY <1>1, <1>3, <2>2, <2>4, <2>6, <2>8 DEF InodesOK
  <2> QED
    BY <2>7, <2>9 DEF FsShape
<1>9. ASSUME NEW u \in FsUsers, Remove(u) PROVE FsShape'
  <2>1. /\ op[u].pc = "remove" /\ op'[u].pc = "rename" /\ op'[u].to = op[u].to
        /\ op'[u].from = op[u].from /\ op'[u].half = op[u].half
        /\ (\A x \in FsUsers \ {u} : op'[x] = op[x]) /\ op' \in [FsUsers -> FsOp] /\ ops' = ops
    BY <1>0, <1>9, ProceedsFacts DEF Remove
  <2>2. /\ at' = [p \in Paths |-> IF p \in op[u].path THEN 0 ELSE at[p]]
        /\ UNCHANGED <<data, torn, expected, inodes>>
    BY <1>9 DEF Remove
  <2>3. \A x \in FsUsers : Bounds(x)'
    BY <1>1, <1>3, <1>5, <2>1, <2>2
  <2> QED
    BY <1>1, <1>3, <2>1, <2>2, <2>3 DEF FsShape, FsTypeOK, InodesOK
<1>10. ASSUME NEW u \in FsUsers, TakeName(u) PROVE FsShape'
  <2>1. op'[u] = NoOp /\ (\A x \in FsUsers \ {u} : op'[x] = op[x]) /\ op' \in [FsUsers -> FsOp] /\ ops' = ops
    BY <1>0, <1>10, EndsFacts DEF TakeName
  <2>2. /\ at' = [p \in Paths |-> IF p \in op[u].path THEN op[u].to ELSE at[p]]
        /\ expected' = expected \cup op[u].path /\ UNCHANGED <<data, torn, inodes>>
        /\ op[u].path \subseteq Paths /\ op[u].to \in 1..inodes
    BY <1>10, <1>3 DEF TakeName, FsOp
  <2>3. \A x \in FsUsers : Bounds(x)'
    BY <1>1, <1>5, <2>1, <2>2, NoOpFacts
  <2> QED
    BY <1>1, <1>3, <2>1, <2>2, <2>3 DEF FsShape, FsTypeOK, InodesOK
<1>11. ASSUME NEW u \in FsUsers, Put(u) PROVE FsShape'
  <2>1. /\ op[u].pc = "put" /\ op[u].half \in Halves
        /\ op'[u].pc = "put" /\ op'[u].to = op[u].to /\ op'[u].from = op[u].from
        /\ op'[u].half = op[u].half + 1
        /\ (\A x \in FsUsers \ {u} : op'[x] = op[x]) /\ op' \in [FsUsers -> FsOp]
        /\ data' \in [Inodes -> [Halves -> SUBSET Nat]]
        /\ UNCHANGED <<at, torn, expected, ops, inodes>>
    BY <1>0, <1>11, PutFacts
  <2>2. \A x \in FsUsers : Bounds(x)'
    BY <1>1, <1>3, <1>5, <2>1 DEF Halves
  <2> QED
    BY <1>1, <1>3, <2>1, <2>2 DEF FsShape, FsTypeOK, InodesOK
<1>12. ASSUME NEW u \in FsUsers, PutEnds(u) PROVE FsShape'
  <2>1. /\ op[u].pc = "put"
        /\ op'[u] = NoOp \/ (/\ op'[u].pc = "remove" /\ op'[u].to = op[u].to
                             /\ op'[u].from = op[u].from /\ op'[u].half = op[u].half)
        /\ (\A x \in FsUsers \ {u} : op'[x] = op[x]) /\ op' \in [FsUsers -> FsOp] /\ ops' = ops
        /\ at' = [p \in Paths |-> IF p \in op[u].away THEN 0 ELSE at[p]]
        /\ expected' = expected \ op[u].away
        /\ UNCHANGED <<data, torn, inodes>>
    BY <1>0, <1>12, PutEndsFacts
  <2>2. \A x \in FsUsers : Bounds(x)'
    BY <1>1, <1>3, <1>5, <2>1, NoOpFacts
  <2> QED
    BY <1>1, <1>3, <2>1, <2>2 DEF FsShape, FsTypeOK, InodesOK
<1>13. ASSUME NEW u \in FsUsers, NEW p \in Paths, TouchFile(u, p) PROVE FsShape'
  <2>1. /\ op'[u].pc = "idle" /\ (\A x \in FsUsers \ {u} : op'[x] = op[x])
        /\ op' \in [FsUsers -> FsOp] /\ ops' = ops + 1 /\ ops' \in Nat /\ ops < MaxOps
    BY <1>0, <1>13, OneCallFacts DEF TouchFile
  <2>2. New \in Inodes /\ New = inodes + 1 /\ ops + 1 \in Nat
    BY <1>0, <1>1, <2>1, RoomForOne DEF New
  <2>3. /\ at' = [at EXCEPT ![p] = New] /\ inodes' = New
        /\ data' = [data EXCEPT ![New] = All({ops + 1})] /\ expected' = expected \cup {p} /\ torn' = torn
    BY <1>13 DEF TouchFile
  <2>4. data' \in [Inodes -> [Halves -> SUBSET Nat]] /\ at' \in [Paths -> Nat] /\ \A r \in Paths : at'[r] <= inodes'
    BY <1>1, <1>3, <1>4, <2>2, <2>3
  <2>5. \A x \in FsUsers : Bounds(x)'
    BY <1>1, <1>5, <2>1, <2>2, <2>3
  <2>6. FsTypeOK'
    <3>1. inodes' \in Nat /\ torn' = torn /\ expected' \subseteq Paths
      BY <1>1, <2>2, <2>3
    <3> QED
      BY <1>1, <2>1, <2>4, <3>1 DEF FsTypeOK
  <2>7. InodesOK'
    BY <1>1, <1>3, <2>1, <2>2, <2>3, <2>4, <2>5 DEF InodesOK
  <2> QED
    BY <2>6, <2>7 DEF FsShape
<1>14. ASSUME NEW u \in FsUsers, NEW q \in Paths, NEW p \in Paths, Rename(u, q, p) \/ DeleteFile(u, p) PROVE FsShape'
  <2>1. /\ op'[u].pc = "idle" /\ (\A x \in FsUsers \ {u} : op'[x] = op[x])
        /\ op' \in [FsUsers -> FsOp] /\ ops' = ops + 1 /\ ops' \in Nat /\ ops < MaxOps
    BY <1>0, <1>14, OneCallFacts DEF Rename, DeleteFile
  <2>2. /\ at' \in [Paths -> Nat] /\ \A r \in Paths : at'[r] \in {0, at[q], at[r]}
        /\ expected' \subseteq Paths /\ UNCHANGED <<data, torn, inodes>>
    BY <1>1, <1>14 DEF Rename, DeleteFile
  <2>3. \A x \in FsUsers : Bounds(x)'
    BY <1>1, <1>5, <2>1, <2>2
  <2>4. \A r \in Paths : at'[r] <= inodes'
    BY <1>1, <1>3, <2>2
  <2> QED
    BY <1>1, <1>3, <2>1, <2>2, <2>3, <2>4 DEF FsShape, FsTypeOK, InodesOK
<1>15. ASSUME NEW S \in SUBSET FsUsers, Fault(S), UNCHANGED <<at, data, ops, inodes>>, expected' \subseteq expected
       PROVE  FsShape'
  <2>1. /\ \A x \in FsUsers : op'[x] = IF x \in S THEN NoOp ELSE op[x]
        /\ op' \in [FsUsers -> FsOp] /\ torn' \in [Inodes -> SUBSET Reasons]
    BY <1>0, <1>15, FaultFacts
  <2>2. \A x \in FsUsers : Bounds(x)'
    BY <1>1, <1>5, <1>15, <2>1, NoOpFacts
  <2> QED
    BY <1>1, <1>3, <1>15, <2>1, <2>2 DEF FsShape, FsTypeOK, InodesOK
<1>16. ASSUME NEW u \in FsUsers, NEW q \in Paths, NEW p \in Paths,
              Replace(u, p) \/ CreateArchive(u, q, p) \/ Extract(u, p) \/ Copy(u, q, p) \/ MoveOver(u, q, p)
       PROVE  FsShape'
  <2>1. at[q] \in 0..inodes /\ 0 \in 0..inodes
    BY <1>1, <1>3
  <2> QED
    BY <1>7, <1>8, <1>16, <2>1 DEF Replace, CreateArchive, Extract, Copy, MoveOver
<1>17. ASSUME NEW u \in FsUsers, PutFails(u) PROVE FsShape'
  BY <1>15, <1>17 DEF PutFails
<1>18. ASSUME Crash PROVE FsShape'
  <2>1. Fault(FsUsers) /\ UNCHANGED <<at, data, ops, inodes>> /\ expected' \subseteq expected
    BY <1>18 DEF Crash
  <2> QED
    BY <1>15, <2>1
<1> QED
  BY <1>6, <1>9, <1>10, <1>11, <1>12, <1>13, <1>14, <1>16, <1>17, <1>18 DEF FilesNext

-----------------------------------------------------------------------------
\* What FileThere promises of a path.
There(p) == at[p] # 0 \/ \E u \in FsUsers : op[u].pc = "rename" /\ p \in op[u].path

LEMMA FileThereKept == FsInv /\ FilesNext => FileThere'
<1> SUFFICES ASSUME FsInv, FilesNext PROVE FileThere'
  OBVIOUS
<1>0. FsTypeOK /\ InodesOK /\ (\A p \in expected : There(p)) /\ expected \subseteq Paths
      /\ at \in [Paths -> Nat] /\ inodes \in Nat
  BY DEF FsInv, FileThere, There, FsTypeOK
\* Nobody who is about to take a name stops, and no path loses its file.
<1>1. ASSUME \A x \in FsUsers : op'[x] = op[x] \/ op[x].pc # "rename",
             \A p \in expected' : (p \in expected /\ (at[p] # 0 => at'[p] # 0)) \/ at'[p] # 0
      PROVE  FileThere'
  BY <1>0, <1>1 DEF FileThere, There
<1>2. \A x \in FsUsers : op[x].pc # "idle" => op[x].to # 0
  BY <1>0 DEF InodesOK
<1>3. New # 0
  BY <1>0 DEF New
<1>4. ASSUME NEW u \in FsUsers, NEW o, Begins(u, o) PROVE \A x \in FsUsers : op'[x] = op[x] \/ op[x].pc # "rename"
  BY <1>0, <1>4 DEF Begins, FsTypeOK
<1>5. ASSUME NEW u \in FsUsers, NEW q \in Paths, NEW p \in Paths, Write(u, p) \/ Rewrite(u, q, p) PROVE FileThere'
  <2>1. at' = at /\ expected' = expected
    BY <1>5 DEF Write, Rewrite
  <2>2. \A x \in FsUsers : op'[x] = op[x] \/ op[x].pc # "rename"
    BY <1>5, <1>0 DEF Write, Rewrite, Begins, FsTypeOK
  <2> QED
    BY <1>1, <2>1, <2>2
<1>6. ASSUME NEW u \in FsUsers, NEW p \in Paths, NEW from, NEW away, OpenOver(u, p, from, away) PROVE FileThere'
  <2>1. at' = [at EXCEPT ![p] = IF at[p] = 0 THEN New ELSE at[p]] /\ expected' = expected \cup {p}
    BY <1>6 DEF OpenOver
  <2>2. \A x \in FsUsers : op'[x] = op[x] \/ op[x].pc # "rename"
    BY <1>6, <1>0 DEF OpenOver, Begins, FsTypeOK
  <2>3. \A r \in Paths : (at[r] # 0 => at'[r] # 0) /\ at'[p] # 0
    BY <1>0, <1>3, <2>1
  <2> QED
    BY <1>0, <1>1, <2>1, <2>2, <2>3
<1>7. ASSUME NEW u \in FsUsers, Remove(u) PROVE FileThere'
  <2>1. /\ op[u].pc = "remove" /\ op'[u].pc = "rename" /\ op'[u].path = op[u].path
        /\ (\A x \in FsUsers \ {u} : op'[x] = op[x])
        /\ \A p \in Paths : at'[p] = IF p \in op[u].path THEN 0 ELSE at[p]
        /\ expected' = expected
    BY <1>0, <1>7, ProceedsFacts DEF Remove
  <2> QED
    BY <1>0, <2>1 DEF FileThere, There
<1>8. ASSUME NEW u \in FsUsers, TakeName(u) PROVE FileThere'
  <2>1. /\ op[u].pc = "rename"
        /\ (\A x \in FsUsers \ {u} : op'[x] = op[x])
        /\ \A p \in Paths : at'[p] = IF p \in op[u].path THEN op[u].to ELSE at[p]
        /\ expected' = expected \cup op[u].path /\ op[u].path \subseteq Paths
    BY <1>0, <1>8, EndsFacts DEF TakeName, FsTypeOK, FsOp
  <2> QED
    BY <1>0, <1>2, <2>1 DEF FileThere, There
<1>9. ASSUME NEW u \in FsUsers, Put(u) PROVE FileThere'
  <2>1. at' = at /\ expected' = expected /\ op[u].pc = "put" /\ (\A x \in FsUsers \ {u} : op'[x] = op[x])
    BY <1>0, <1>9, PutFacts
  <2> QED
    BY <1>1, <2>1
<1>10. ASSUME NEW u \in FsUsers, PutEnds(u) PROVE FileThere'
  <2>1. /\ op[u].pc = "put" /\ (\A x \in FsUsers \ {u} : op'[x] = op[x])
        /\ at' = [p \in Paths |-> IF p \in op[u].away THEN 0 ELSE at[p]]
        /\ expected' = expected \ op[u].away
    BY <1>0, <1>10, PutEndsFacts
  <2> QED
    BY <1>0, <1>1, <2>1
<1>11. ASSUME NEW u \in FsUsers, NEW q \in Paths, NEW p \in Paths,
              TouchFile(u, p) \/ Rename(u, q, p) \/ DeleteFile(u, p)
       PROVE  FileThere'
  <2>1. \A x \in FsUsers : op'[x] = op[x] \/ op[x].pc # "rename"
    BY <1>4, <1>11 DEF TouchFile, Rename, DeleteFile
  <2>2. \A r \in expected' : (r \in expected /\ (at[r] # 0 => at'[r] # 0)) \/ at'[r] # 0
    BY <1>0, <1>3, <1>11 DEF TouchFile, Rename, DeleteFile
  <2> QED
    BY <1>1, <2>1, <2>2
<1>12. ASSUME NEW u \in FsUsers, PutFails(u) PROVE FileThere'
  <2>1. op[u].pc = "put" /\ (\A x \in FsUsers \ {u} : op'[x] = op[x]) /\ UNCHANGED <<at, expected>>
    BY <1>0, <1>12, FaultFacts DEF PutFails
  <2> QED
    BY <1>1, <2>1
<1>13. ASSUME Crash PROVE FileThere'
  <2>1. /\ expected' = {p \in expected : at[p] # 0 \/ \A u \in FsUsers : op[u].pc = "rename" => p \notin op[u].path}
        /\ at' = at
    BY <1>13 DEF Crash
  <2> QED
    BY <1>0, <2>1 DEF FileThere, There
<1> QED
  BY <1>5, <1>6, <1>7, <1>8, <1>9, <1>10, <1>11, <1>12, <1>13
  DEF FilesNext, Replace, CreateArchive, Extract, Copy, MoveOver

-----------------------------------------------------------------------------
\* What the steps keep of writers and of files.
Sound == (\A u \in FsUsers : WriterOK(u)) /\ (\A i \in 1..inodes : Settled(i))

\* Who does not write, and who changes no file that there was, disturbs nobody.
LEMMA CalmSteps ==
  ASSUME FsInv, FsShape', torn' = torn, inodes' \in {inodes, New},
         \A x \in FsUsers : op'[x] = op[x] \/ (op[x].pc # "put" /\ op'[x].pc # "put"),
         \A i \in 1..inodes : data'[i] = data[i],
         inodes' # inodes => Whole(inodes)'
  PROVE  Sound'
<1>1. /\ FsTypeOK /\ InodesOK /\ inodes \in Nat
      /\ \A x \in FsUsers : WriterOK(x)
      /\ \A i \in 1..inodes : Settled(i)
  BY DEF FsInv, FsTypeOK
<1>2. \A x \in FsUsers : \A i : Writes(x, i)' <=> Writes(x, i)
  BY DEF Writes
<1>3. ASSUME NEW u \in FsUsers, op'[u].pc = "put", torn'[op'[u].to] = {} PROVE WriterOK(u)'
  <2>1. op'[u] = op[u] /\ op[u].pc = "put" /\ op[u].to \in 1..inodes /\ op[u].from \in 0..inodes /\ WriterOK(u)
    BY <1>1, <1>3 DEF InodesOK, FsTypeOK, FsOp
  <2>2. Edited(u)' = Edited(u) /\ \A h : Source(u, h)' = Source(u, h)
    BY <2>1 DEF Edited, Source
  <2> QED
    BY <1>2, <1>3, <2>1, <2>2 DEF WriterOK
<1>4. ASSUME NEW i \in 1..inodes' PROVE Settled(i)'
  <2>1. CASE i \in 1..inodes
    <3>1. Whole(i)' <=> Whole(i)
      BY <2>1 DEF Whole
    <3> QED
      BY <1>1, <1>2, <2>1, <3>1 DEF Settled
  <2>2. CASE i \notin 1..inodes
    <3>1. i = inodes' /\ inodes' # inodes
      BY <1>1, <2>2 DEF New
    <3> QED
      BY <3>1 DEF Settled, Whole
  <2> QED
    BY <2>1, <2>2
<1> QED
  BY <1>3, <1>4 DEF Sound, WriterOK

\* The three writers of the model, one that begins in a temporary file, ...
LEMMA RewriteSound ==
  ASSUME FsInv, FsShape', NEW u \in FsUsers, NEW q \in Paths, NEW p \in Paths, Rewrite(u, q, p), at[q] # 0
  PROVE  Sound'
<1>1. /\ FsTypeOK /\ InodesOK /\ inodes \in Nat
      /\ \A x \in FsUsers : WriterOK(x)
      /\ \A i \in 1..inodes : Settled(i)
      /\ torn \in [Inodes -> SUBSET Reasons]
  BY DEF FsInv, FsTypeOK
<1>n. PICK n \in Nat : n = New
  BY DEF FsInv, FsTypeOK, New
<1>2. /\ op[u].pc = "idle" /\ op'[u].pc = "put" /\ op'[u].from = at[q] /\ op'[u].to = n /\ op'[u].half = 1
      /\ (\A x \in FsUsers \ {u} : op'[x] = op[x]) /\ ops < MaxOps
      /\ torn' = [torn EXCEPT ![n] = torn[at[q]] \cup (IF Writing(at[q]) # {} THEN {"moving"} ELSE {})]
      /\ inodes' = n /\ data' = data
  BY <1>1, <1>n, RewriteFacts, BeginsFacts DEF Starts
<1>3. n \in Inodes /\ n = inodes + 1 /\ at[q] \in 1..inodes /\ 1..inodes \subseteq Inodes
  BY <1>1, <1>2, <1>n, RoomForOne, KnownInodes DEF New, FsTypeOK, InodesOK
<1>4. /\ \A i \in 1..inodes : torn'[i] = torn[i]
      /\ torn'[n] = {} => torn[at[q]] = {} /\ \A x \in FsUsers : ~Writes(x, at[q])
  BY <1>1, <1>2, <1>3 DEF Writing, Writes
<1>5. \A x \in FsUsers : \A i \in 1..inodes : Writes(x, i)' <=> Writes(x, i)
  BY <1>1, <1>2, <1>3 DEF Writes
<1>6. \A x \in FsUsers : Writes(x, n)' <=> x = u
  BY <1>1, <1>2, <1>3 DEF Writes, InodesOK
<1>7. WriterOK(u)'
  BY <1>2, <1>3, <1>4, <1>5, <1>6 DEF WriterOK, Halves
<1>8. ASSUME NEW x \in FsUsers, x # u, op'[x].pc = "put", torn'[op'[x].to] = {} PROVE WriterOK(x)'
  <2>1. op'[x] = op[x] /\ op[x].pc = "put" /\ op[x].to \in 1..inodes /\ op[x].from \in 0..inodes /\ WriterOK(x)
    BY <1>1, <1>2, <1>8 DEF InodesOK, FsTypeOK, FsOp
  <2>2. Edited(x)' = Edited(x) /\ \A h : Source(x, h)' = Source(x, h)
    BY <1>2, <2>1 DEF Edited, Source
  <2> QED
    BY <1>2, <1>4, <1>5, <1>8, <2>1, <2>2 DEF WriterOK
<1>9. ASSUME NEW i \in 1..inodes' PROVE Settled(i)'
  <2>1. CASE i = n
    BY <1>6, <2>1 DEF Settled
  <2>2. CASE i \in 1..inodes
    BY <1>1, <1>2, <1>4, <1>5, <2>2 DEF Settled, Whole
  <2> QED
    BY <1>1, <1>2, <1>3, <2>1, <2>2
<1> QED
  BY <1>7, <1>8, <1>9 DEF Sound, WriterOK

\* ... one that begins in the file that has the name, ...
LEMMA OpenSound ==
  ASSUME FsInv, FsShape', NEW u \in FsUsers, NEW p \in Paths, NEW from \in Nat, from <= inodes,
         NEW away \in SUBSET Paths, OpenOver(u, p, from, away)
  PROVE  Sound'
<1>0. (IF at[p] = 0 THEN New ELSE at[p]) \in Nat
  BY DEF FsInv, FsTypeOK, New
<1>i. PICK i \in Nat : i = IF at[p] = 0 THEN New ELSE at[p]
  BY <1>0
<1>1. /\ FsTypeOK /\ InodesOK /\ inodes \in Nat /\ data \in [Inodes -> [Halves -> SUBSET Nat]]
      /\ \A x \in FsUsers : WriterOK(x)
      /\ \A k \in 1..inodes : Settled(k)
      /\ torn \in [Inodes -> SUBSET Reasons]
  BY DEF FsInv, FsTypeOK
<1>2. /\ op[u].pc = "idle" /\ op'[u].pc = "put" /\ op'[u].from = from /\ op'[u].to = i /\ op'[u].half = 1
      /\ (\A x \in FsUsers \ {u} : op'[x] = op[x]) /\ ops < MaxOps
      /\ inodes' = (IF at[p] = 0 THEN New ELSE inodes)
      /\ data' = [data EXCEPT ![i] = NoData]
  <2> DEFINE j == IF at[p] = 0 THEN New ELSE at[p]
  <2>0. Starts(u, "put", p, away, from, j, 1)
    BY <1>1, OpenFacts
  <2>j. j = i
    BY <1>i
  <2> HIDE DEF j
  <2>1. PICK o \in FsOp : Begins(u, o) /\ o.pc = "put" /\ o.from = from /\ o.to = i /\ o.half = 1
    BY <2>0, <2>j DEF Starts
  <2>2. /\ inodes' = (IF at[p] = 0 THEN New ELSE inodes)
        /\ data' = [data EXCEPT ![i] = NoData]
    BY <1>i DEF OpenOver
  <2> QED
    BY <1>1, <2>1, <2>2, BeginsFacts
<1>3. New \in Inodes /\ New = inodes + 1 /\ i \in 1..inodes' /\ i \in Inodes /\ 1..inodes \subseteq Inodes
      /\ \A k \in 1..inodes' : k \in 1..inodes \/ k = i
  <2>1. New \in Inodes /\ New = inodes + 1 /\ 1..inodes \subseteq Inodes
    BY <1>1, <1>2, RoomForOne, KnownInodes DEF New
  <2>2. CASE at[p] = 0
    <3>1. i = inodes + 1 /\ inodes' = inodes + 1 /\ i \in Inodes
      BY <2>1, <2>2, <1>2, <1>i
    <3> QED
      BY <2>1, <3>1, <1>1
  <2>3. CASE at[p] # 0
    <3>1. i \in 1..inodes
      BY <2>3, <1>1, <1>i DEF FsTypeOK, InodesOK
    <3> QED
      BY <2>1, <2>3, <3>1, <1>2
  <2> QED
    BY <2>2, <2>3
<1>4. torn' = [k \in Inodes |->
              IF k = i THEN (IF from = 0 THEN {} ELSE torn[from])
                            \cup (IF from = i THEN {"itself"} ELSE {})
                            \cup (IF Writing(i) # {} THEN {"two writers"} ELSE {})
                            \cup (IF from # 0 /\ Writing(from) # {} THEN {"moving"} ELSE {})
              ELSE torn[k] \cup (IF \E x \in Reading(i) : op[x].to = k THEN {"moving"} ELSE {})]
  BY <1>i DEF OpenOver
<1>5. torn'[i] = {} =>
        /\ from # i /\ \A x \in FsUsers : ~Writes(x, i)
        /\ from # 0 => torn[from] = {} /\ \A x \in FsUsers : ~Writes(x, from)
  BY <1>3, <1>4 DEF Writing, Writes
<1>6. \A k \in Inodes : k # i =>
        /\ torn[k] \subseteq torn'[k]
        /\ (\E x \in FsUsers : Writes(x, k) /\ op[x].from = i) => torn'[k] # {}
        /\ (\A x \in FsUsers : ~Writes(x, k)) => torn'[k] = torn[k]
  BY <1>4 DEF Reading, Writes
<1>7. \A x \in FsUsers : \A k : Writes(x, k)' <=> IF x = u THEN k = i ELSE Writes(x, k)
  BY <1>2 DEF Writes
<1>8. \A k \in Inodes : k # i => data'[k] = data[k]
  BY <1>1, <1>2, <1>3
<1>9. ASSUME torn'[i] = {} PROVE WriterOK(u)'
  <2>1. from # 0 => torn'[from] = {} /\ \A x \in FsUsers : ~Writes(x, from)'
    BY <1>3, <1>5, <1>6, <1>7, <1>9, <1>2
  <2>2. \A x \in FsUsers : Writes(x, i)' => x = u
    BY <1>5, <1>7, <1>9
  <2> QED
    BY <1>2, <2>1, <2>2 DEF WriterOK, Halves
<1>10. ASSUME NEW x \in FsUsers, x # u, op'[x].pc = "put", torn'[op'[x].to] = {} PROVE WriterOK(x)'
  <2>1. op'[x] = op[x] /\ op[x].pc = "put" /\ op[x].to \in 1..inodes /\ op[x].from \in 0..inodes /\ WriterOK(x)
        /\ Writes(x, op[x].to)
    BY <1>1, <1>2, <1>10 DEF InodesOK, FsTypeOK, FsOp, Writes
  <2>2. op[x].to # i /\ op[x].to \in Inodes /\ torn[op[x].to] = {} /\ op[x].from # i
    BY <1>3, <1>5, <1>6, <1>10, <2>1
  <2>3. Edited(x)' = Edited(x) /\ \A h : Source(x, h)' = Source(x, h)
    BY <1>3, <1>8, <2>1, <2>2 DEF Edited, Source
  <2>4. data'[op[x].to] = data[op[x].to]
    BY <1>8, <2>2
  <2>5. /\ \A y \in FsUsers : Writes(y, op[x].to)' => y = x
        /\ op[x].from # 0 => torn'[op[x].from] = {} /\ \A y \in FsUsers : ~Writes(y, op[x].from)'
    BY <1>3, <1>6, <1>7, <2>1, <2>2 DEF WriterOK
  <2> QED
    BY <2>1, <2>2, <2>3, <2>4, <2>5 DEF WriterOK
<1>11. ASSUME NEW k \in 1..inodes' PROVE Settled(k)'
  <2>1. CASE k = i
    BY <1>7, <2>1 DEF Settled
  <2>2. CASE k \in 1..inodes /\ k # i
    <3>1. Whole(k)' <=> Whole(k)
      BY <1>3, <1>8, <2>2 DEF Whole
    <3>2. (\A x \in FsUsers : ~Writes(x, k)') => (\A x \in FsUsers : ~Writes(x, k))
      BY <1>2, <1>7 DEF Writes
    <3> QED
      BY <1>1, <1>3, <1>6, <2>2, <3>1, <3>2 DEF Settled
  <2> QED
    BY <1>3, <2>1, <2>2
<1> QED
  BY <1>2, <1>9, <1>10, <1>11 DEF Sound, WriterOK

\* ... and one that writes on.
LEMMA PutSound ==
  ASSUME FsInv, FsShape', NEW u \in FsUsers, Put(u)
  PROVE  Sound'
<1>i. PICK i \in Nat, h \in Nat : i = op[u].to /\ h = op[u].half
  BY DEF FsInv, FsTypeOK, FsOp
<1>1. /\ FsTypeOK /\ InodesOK /\ inodes \in Nat
      /\ \A x \in FsUsers : WriterOK(x)
      /\ \A k \in 1..inodes : Settled(k)
  BY DEF FsInv, FsTypeOK
<1>2. /\ op[u].pc = "put" /\ h \in Halves /\ i \in Inodes
      /\ op'[u].pc = "put" /\ op'[u].to = i /\ op'[u].from = op[u].from
      /\ op'[u].half = h + 1 /\ op'[u].temp = op[u].temp /\ op'[u].v = op[u].v
      /\ (\A x \in FsUsers \ {u} : op'[x] = op[x])
      /\ \A k \in Inodes : k # i => data'[k] = data[k]
      /\ \A k \in Halves : data'[i][k] = IF k = h THEN Source(u, h) \cup Edited(u) ELSE data[i][k]
      /\ UNCHANGED <<torn, inodes>>
  BY <1>1, <1>i, PutFacts
<1>3. \A x \in FsUsers : \A k : Writes(x, k)' <=> Writes(x, k)
  BY <1>2, <1>i DEF Writes
<1>4. Writes(u, i) /\ 1..inodes \subseteq Inodes /\ op[u].to = i
  BY <1>1, <1>2, <1>i, KnownInodes DEF Writes
<1>5. ASSUME torn[i] = {} PROVE WriterOK(u)'
  <2>1. WriterOK(u) /\ op[u].from \in 0..inodes
    BY <1>1, <1>2 DEF InodesOK, FsTypeOK, FsOp
  <2>2. op[u].from # i
    BY <1>1, <1>2, <1>4, <1>5, <2>1 DEF WriterOK, InodesOK
  <2>3. \A k \in Halves : Source(u, k)' = Source(u, k)
    BY <1>2, <1>4, <2>1, <2>2 DEF Source
  <2>4. Edited(u)' = Edited(u)
    BY <1>2 DEF Edited
  <2>5. \A k \in Halves : k < h + 1 => data'[i][k] = Source(u, k) \cup Edited(u)
    BY <1>2, <1>4, <1>5, <1>i, <2>1 DEF WriterOK, Halves
  <2> QED
    BY <1>2, <1>3, <1>4, <1>5, <2>1, <2>3, <2>4, <2>5 DEF WriterOK
<1>6. ASSUME NEW x \in FsUsers, x # u, op[x].pc = "put", torn[op[x].to] = {} PROVE WriterOK(x)'
  <2>1. op'[x] = op[x] /\ op[x].to \in 1..inodes /\ op[x].from \in 0..inodes /\ WriterOK(x)
    BY <1>1, <1>2, <1>6 DEF InodesOK, FsTypeOK, FsOp
  <2>2. op[x].to # i /\ (op[x].from # 0 => op[x].from # i)
    BY <1>4, <1>6, <2>1 DEF WriterOK
  <2>3. Edited(x)' = Edited(x) /\ (\A k : Source(x, k)' = Source(x, k)) /\ data'[op[x].to] = data[op[x].to]
    BY <1>2, <1>4, <2>1, <2>2 DEF Edited, Source
  <2> QED
    BY <1>2, <1>3, <2>1, <2>3 DEF WriterOK
<1>7. ASSUME NEW k \in 1..inodes PROVE Settled(k)'
  BY <1>1, <1>2, <1>3, <1>4 DEF Settled, Whole
<1> QED
  BY <1>2, <1>5, <1>6, <1>7 DEF Sound, WriterOK

\* One that reaches the end of its source has written all of it.
LEMMA PutEndsSound ==
  ASSUME FsInv, FsShape', NEW u \in FsUsers, PutEnds(u)
  PROVE  Sound'
<1> DEFINE i == op[u].to
<1>1. /\ FsTypeOK /\ InodesOK /\ inodes \in Nat
      /\ \A x \in FsUsers : WriterOK(x)
      /\ \A k \in 1..inodes : Settled(k)
  BY DEF FsInv, FsTypeOK
<1>2. /\ op[u].pc = "put" /\ Piece(u) = {} /\ op'[u].pc # "put"
      /\ (\A x \in FsUsers \ {u} : op'[x] = op[x]) /\ UNCHANGED <<data, torn, inodes>>
  BY <1>1, PutEndsFacts, NoOpFacts
<1>3. \A x \in FsUsers : \A k : Writes(x, k)' <=> Writes(x, k) /\ x # u
  BY <1>2 DEF Writes
<1>4. i \in 1..inodes /\ op[u].from \in 0..inodes /\ op[u].half \in 1..3 /\ Writes(u, i)
  BY <1>1, <1>2 DEF InodesOK, FsTypeOK, FsOp, Writes
<1>5. ASSUME torn[i] = {} PROVE Whole(i)
  <2>1. /\ op[u].from # 0 => torn[op[u].from] = {} /\ \A x \in FsUsers : ~Writes(x, op[u].from)
        /\ \A h \in Halves : h < op[u].half => data[i][h] = Source(u, h) \cup Edited(u)
    BY <1>1, <1>2, <1>5 DEF WriterOK
  <2>2. op[u].from # 0 => Whole(op[u].from)
    BY <1>1, <1>4, <2>1 DEF Settled
  <2>3. Source(u, 1) = Source(u, 2) /\ Source(u, 1) # {}
    BY <2>2 DEF Source, Whole
  <2>4. op[u].half \notin Halves
    BY <1>2, <1>4, <2>3 DEF Piece, Source, Halves
  <2>5. data[i][1] = Source(u, 1) \cup Edited(u) /\ data[i][2] = Source(u, 2) \cup Edited(u)
    BY <1>4, <2>1, <2>4 DEF Halves
  <2> QED
    BY <2>3, <2>5 DEF Whole
<1>6. ASSUME NEW x \in FsUsers, op'[x].pc = "put" PROVE WriterOK(x)'
  <2>1. op'[x] = op[x] /\ WriterOK(x)
    BY <1>1, <1>2, <1>6
  <2>2. Edited(x)' = Edited(x) /\ \A h : Source(x, h)' = Source(x, h)
    BY <1>2, <2>1 DEF Edited, Source
  <2> QED
    BY <1>2, <1>3, <2>1, <2>2 DEF WriterOK
<1>7. ASSUME NEW k \in 1..inodes PROVE Settled(k)'
  <2>1. Whole(k)' <=> Whole(k)
    BY <1>2 DEF Whole
  <2>2. CASE k = i
    BY <1>2, <1>5, <2>1, <2>2 DEF Settled
  <2>3. CASE k # i
    BY <1>1, <1>2, <1>3, <2>1, <2>3 DEF Settled, Writes
  <2> QED
    BY <2>2, <2>3
<1> QED
  BY <1>2, <1>6, <1>7 DEF Sound, WriterOK

LEMMA FaultSound ==
  ASSUME FsInv, FsShape', NEW S \in SUBSET FsUsers, Fault(S), UNCHANGED <<data, inodes>>
  PROVE  Sound'
<1>1. /\ FsTypeOK /\ InodesOK /\ inodes \in Nat /\ 1..inodes \subseteq Inodes
      /\ \A x \in FsUsers : WriterOK(x)
      /\ \A k \in 1..inodes : Settled(k)
  BY KnownInodes DEF FsInv, FsTypeOK
<1>2. /\ \A x \in FsUsers : IF x \in S THEN op'[x].pc # "put" ELSE op'[x] = op[x]
      /\ \A k \in Inodes : /\ torn[k] \subseteq torn'[k]
                           /\ (\E x \in S : Writes(x, k)) => torn'[k] # {}
                           /\ (\A x \in S : ~Writes(x, k)) => torn'[k] = torn[k]
  BY <1>1, FaultFacts, NoOpFacts
<1>3. \A x \in FsUsers : \A k : Writes(x, k)' <=> Writes(x, k) /\ x \notin S
  BY <1>2 DEF Writes
<1>4. ASSUME NEW x \in FsUsers, op'[x].pc = "put", torn'[op'[x].to] = {} PROVE WriterOK(x)'
  <2>1. x \notin S /\ op'[x] = op[x] /\ op[x].to \in 1..inodes /\ op[x].from \in 0..inodes /\ WriterOK(x)
    BY <1>1, <1>2, <1>4 DEF InodesOK, FsTypeOK, FsOp
  <2>2. torn[op[x].to] = {}
    BY <1>1, <1>2, <1>4, <2>1
  <2>3. Edited(x)' = Edited(x) /\ \A h : Source(x, h)' = Source(x, h)
    BY <2>1 DEF Edited, Source
  <2>4. op[x].from # 0 => torn'[op[x].from] = {}
    BY <1>1, <1>2, <1>4, <2>1, <2>2 DEF WriterOK
  <2> QED
    BY <1>3, <1>4, <2>1, <2>2, <2>3, <2>4 DEF WriterOK
<1>5. ASSUME NEW k \in 1..inodes PROVE Settled(k)'
  <2>1. (Whole(k)' <=> Whole(k)) /\ k \in Inodes
    BY <1>1 DEF Whole
  <2>2. CASE \E x \in S : Writes(x, k)
    BY <1>2, <2>1, <2>2 DEF Settled
  <2>3. CASE \A x \in S : ~Writes(x, k)
    BY <1>1, <1>2, <1>3, <2>1, <2>3 DEF Settled
  <2> QED
    BY <2>2, <2>3
<1> QED
  BY <1>4, <1>5 DEF Sound, WriterOK

LEMMA SoundKept == FsInv /\ FsShape' /\ FilesNext => Sound'
<1> SUFFICES ASSUME FsInv, FsShape', FilesNext PROVE Sound'
  OBVIOUS
<1>0. FsTypeOK /\ InodesOK /\ FsShape /\ inodes \in Nat /\ data \in [Inodes -> [Halves -> SUBSET Nat]]
      /\ \A p \in Paths : at[p] \in Nat /\ at[p] <= inodes
  BY DEF FsInv, FsShape, FsTypeOK, InodesOK
<1>1. ASSUME NEW u \in FsUsers, NEW p \in Paths, Write(u, p) \/ TouchFile(u, p) PROVE Sound'
  <2>1. /\ torn' = torn /\ inodes' = New /\ data' = [data EXCEPT ![New] = All({ops + 1})]
    BY <1>0, <1>1, WriteFacts DEF TouchFile
  <2>2. /\ op[u].pc # "put" /\ op'[u].pc # "put" /\ (\A x \in FsUsers \ {u} : op'[x] = op[x]) /\ ops < MaxOps
    BY <1>0, <1>1, WriteFacts, BeginsFacts, NoOpFacts DEF TouchFile, Starts
  <2>3. New \in Inodes /\ New \notin 1..inodes /\ 1..inodes \subseteq Inodes
    BY <1>0, <2>2, RoomForOne, KnownInodes
  <2>4. (\A i \in 1..inodes : data'[i] = data[i]) /\ data'[New] = All({ops + 1})
    BY <1>0, <2>1, <2>3
  <2>5. data'[New][1] = {ops + 1} /\ data'[New][2] = {ops + 1}
    BY <2>4 DEF All, Halves
  <2>6. Whole(inodes)'
    BY <2>1, <2>5 DEF Whole
  <2> QED
    BY <2>1, <2>2, <2>4, <2>6, CalmSteps
<1>2. ASSUME NEW u \in FsUsers, NEW q \in Paths, NEW p \in Paths, Rename(u, q, p) \/ DeleteFile(u, p)
      PROVE  Sound'
  <2>1. UNCHANGED <<torn, inodes, data>>
    BY <1>2 DEF Rename, DeleteFile
  <2>2. op[u].pc # "put" /\ op'[u].pc # "put" /\ (\A x \in FsUsers \ {u} : op'[x] = op[x])
    BY <1>0, <1>2, OneCallFacts, NoOpFacts DEF Rename, DeleteFile
  <2> QED
    BY <2>1, <2>2, CalmSteps
<1>8. ASSUME NEW u \in FsUsers, Remove(u) \/ TakeName(u) PROVE Sound'
  <2>1. UNCHANGED <<torn, inodes, data>>
    BY <1>8 DEF Remove, TakeName
  <2>2. op[u].pc # "put" /\ op'[u].pc # "put" /\ (\A x \in FsUsers \ {u} : op'[x] = op[x])
    BY <1>0, <1>8, ProceedsFacts, EndsFacts, NoOpFacts DEF Remove, TakeName
  <2> QED
    BY <2>1, <2>2, CalmSteps
<1>3. ASSUME NEW u \in FsUsers, NEW q \in Paths, NEW p \in Paths, Replace(u, p) \/ CreateArchive(u, q, p) PROVE Sound'
  BY <1>3, RewriteSound DEF Replace, CreateArchive
<1>4. ASSUME NEW u \in FsUsers, NEW q \in Paths, NEW p \in Paths, Extract(u, p) \/ Copy(u, q, p) \/ MoveOver(u, q, p) PROVE Sound'
  BY <1>0, <1>4, OpenSound DEF Extract, Copy, MoveOver
<1>5. ASSUME NEW u \in FsUsers, PutFails(u) PROVE Sound'
  BY <1>5, FaultSound DEF PutFails
<1>6. ASSUME Crash PROVE Sound'
  BY <1>6, FaultSound DEF Crash
<1>7. ASSUME NEW u \in FsUsers, Put(u) \/ PutEnds(u) PROVE Sound'
  BY <1>7, PutSound, PutEndsSound
<1> QED
  BY <1>1, <1>2, <1>3, <1>4, <1>5, <1>6, <1>7, <1>8 DEF FilesNext

\* Whoever writes into whose file, a file into which nobody writes any more is of
\* one piece, or of those that the property names; a file nobody has taken away is
\* there.
THEOREM FilesWhole == FilesSpec => []FilesSound
<1>1. FilesInit => FsInv
  <2> SUFFICES ASSUME FilesInit PROVE FsInv
    OBVIOUS
  <2>1. Cardinality(Paths) \in Nat /\ MaxOps \in Nat
    BY FilesAssumption, FS_CardinalityType
  <2>2. /\ inodes = Cardinality(Paths) /\ ops = 0 /\ torn = [k \in Inodes |-> {}]
        /\ op = [u \in FsUsers |-> NoOp]
        /\ data = [k \in Inodes |-> IF k <= Cardinality(Paths) THEN All({0}) ELSE NoData]
        /\ at \in [Paths -> 0..Cardinality(Paths)] /\ expected = {p \in Paths : at[p] # 0}
    BY DEF FilesInit
  <2>3. All({0}) \in [Halves -> SUBSET Nat] /\ NoData \in [Halves -> SUBSET Nat] /\ All({0})[1] = {0} /\ All({0})[2] = {0}
    BY DEF All, NoData, Halves
  <2>4. FsTypeOK
    BY <2>1, <2>2, <2>3, NoOpFacts DEF FsTypeOK
  <2>5. InodesOK
    BY <2>1, <2>2, NoOpFacts DEF InodesOK
  <2>6. FileThere
    BY <2>2 DEF FileThere
  <2>7. \A u \in FsUsers : WriterOK(u)
    BY <2>2, NoOpFacts DEF WriterOK
  <2>8. \A k \in 1..inodes : Settled(k)
    <3>1. \A k \in 1..inodes : data[k] = All({0})
      BY <2>1, <2>2, <2>4, <2>5, KnownInodes
    <3> QED
      BY <2>3, <3>1 DEF Settled, Whole
  <2> QED
    BY <2>4, <2>5, <2>6, <2>7, <2>8 DEF FsInv
<1>2. FsInv /\ [FilesNext]_fsVars => FsInv'
  <2>1. CASE FilesNext
    BY <2>1, FsShapeKept, FileThereKept, SoundKept DEF FsInv, FsShape, Sound
  <2>2. ASSUME UNCHANGED fsVars, FsInv PROVE FsInv'
    <3>1. UNCHANGED <<at, data, torn, op, expected, ops, inodes>>
      BY <2>2 DEF fsVars
    <3>2. FsTypeOK' /\ InodesOK' /\ FileThere'
      BY <2>2, <3>1 DEF FsInv, FsTypeOK, InodesOK, FileThere
    <3>3. /\ \A u \in FsUsers : WriterOK(u)'
          /\ \A i \in 1..inodes' : Settled(i)'
      BY <2>2, <3>1 DEF FsInv, WriterOK, Settled, Writes, Source, Edited, Whole
    <3> QED
      BY <3>2, <3>3 DEF FsInv
  <2> QED
    BY <2>1, <2>2
<1>3. FsInv => FilesSound
  <2> SUFFICES ASSUME FsInv PROVE FilesSound
    OBVIOUS
  <2>1. ASSUME NEW p \in Paths, at[p] # 0, Writing(at[p]) = {} PROVE Whole(at[p]) \/ torn[at[p]] # {}
    <3>1. at[p] \in 1..inodes
      BY <2>1 DEF FsInv, FsTypeOK, InodesOK
    <3>2. \A x \in FsUsers : ~Writes(x, at[p])
      BY <2>1 DEF Writing, Writes
    <3> QED
      BY <3>1, <3>2 DEF FsInv, Settled
  <2> QED
    BY <2>1 DEF FsInv, FileWhole, FilesSound
<1> QED
  BY <1>1, <1>2, <1>3, PTL DEF FilesSpec

-----------------------------------------------------------------------------
(***************************************************************************)
(* TermLimits: groups of limited sessions.                                 *)
(***************************************************************************)
Session  == [pc : {"none", "limiter", "refused", "start", "enter", "attach", "runs", "release",
                   "released", "given up", "old"},
             asked : SUBSET Controllers, got : SUBSET Controllers,
             mode : {"none", "cgroup2", "rlimit"}, tries : Nat]
Everyone == {Program} \cup {Sh(s) : s \in Terms} \cup {Strange(n) : n \in 1..MaxForks}
              \cup {Child(s, n) : s \in Terms, n \in 1..MaxForks}
Kin(s)   == {Sh(s)} \cup {Child(s, n) : n \in 1..MaxForks}

LimTypeOK ==
  /\ machine \in [parent : {"none", "empty", "occupied", "closed"}, offers : SUBSET Controllers,
                  own : SUBSET Controllers, sh : BOOLEAN]
  /\ machine.parent = "none" => machine.own = machine.offers
  /\ base \in [at : {"untried", "vacating", "parent", "own", "failed"}, todo : SUBSET Everyone,
               on : SUBSET Controllers]
  /\ inOwn \subseteq alive /\ alive \subseteq Everyone
  /\ group \in [Terms -> SUBSET Everyone] /\ made \subseteq Terms
  /\ term \in [Terms -> Session]
  /\ raced \in BOOLEAN /\ forks \in Nat /\ forks <= MaxForks

\* Sessions get groups only from a base that is there; one that is being emptied
\* holds who was there when it was read, but for a process that came later.
BaseOK ==
  /\ base.at \notin {"parent", "own"} =>
       base.on = {} /\ \A s \in Terms : term[s].mode = "cgroup2" => term[s].pc = "old"
  /\ base.at = "vacating" => /\ Usable # {} /\ machine.parent \in {"occupied", "closed"}
                             /\ raced \/ inOwn \subseteq base.todo

\* What a session's processes and its group are, from its request to its end.
SessionOK(s) ==
  LET t == term[s]
  IN /\ group[s] \subseteq Of(s)
     /\ t.pc \in {"none", "limiter", "start"} => Of(s) = {}
     /\ t.pc \in {"none", "limiter"} => t.mode = "none"
     /\ t.pc \in {"enter", "attach"} => t.mode = "cgroup2"
     /\ t.pc = "enter" => Of(s) \subseteq {Sh(s)}
     /\ t.pc = "attach" => ~machine.sh
     /\ t.mode # "cgroup2" => group[s] = {}
     /\ t.pc \in {"start", "enter", "attach", "runs"} =>
          /\ t.mode # "cgroup2" => t.asked \subseteq t.got
          /\ t.mode = "cgroup2" => s \in made /\ t.got \subseteq base.on
     /\ t.mode = "cgroup2" /\ t.pc = "runs" /\ machine.sh => Of(s) \subseteq group[s]

LimInv == LimTypeOK /\ BaseOK /\ BaseFound /\ LimitedAsAsked /\ GroupsGo /\ \A s \in Terms : SessionOK(s)

\* Processes are told apart by what they are and whose.
LEMMA ProcessNames ==
  /\ \A s, t \in Terms : s # t => Kin(s) \cap Kin(t) = {}
  /\ \A s \in Terms : Program \notin Kin(s) /\ \A n \in Nat : Strange(n) \notin Kin(s)
  /\ \A s \in Terms, n \in Nat : Sh(s) # Child(s, n)
  /\ \A s \in Terms : Of(s) = alive \cap Kin(s)
<1>1. ASSUME NEW s, NEW t, s # t, NEW n, NEW m
      PROVE  /\ Sh(s) # Sh(t) /\ Sh(s) # Child(t, m) /\ Child(s, n) # Child(t, m)
             /\ Sh(s) # Strange(n) /\ Child(s, n) # Strange(m) /\ Sh(s) # Program /\ Child(s, n) # Program
             /\ Sh(s) # Child(s, n)
  BY <1>1 DEF Sh, Child, Strange, Program
<1>2. ASSUME NEW s PROVE /\ \A n : Sh(s) # Strange(n) /\ Sh(s) # Child(s, n)
                         /\ \A n, m : Child(s, n) # Strange(m)
                         /\ Sh(s) # Program /\ \A n : Child(s, n) # Program
  BY DEF Sh, Child, Strange, Program
<1> QED
  BY <1>1, <1>2 DEF Kin, Of

LEMMA NewSession == NoTerm \in Session /\ NoTerm.pc = "none" /\ NoTerm.mode = "none"
  BY DEF NoTerm, Session

\* cgroupBase is done: what becomes of it and of the groups of the last run.
LEMMA PreparedFacts ==
  ASSUME NEW where \in {"parent", "own", "failed"}, NEW on \in SUBSET Controllers, Prepared(where, on)
  PROVE  /\ base'.at = (IF on = {} THEN "failed" ELSE where) /\ base'.on = on /\ base'.todo = {}
         /\ base' \in [at : {"untried", "vacating", "parent", "own", "failed"}, todo : SUBSET Everyone,
                       on : SUBSET Controllers]
         /\ made' \subseteq made /\ \A s \in made : group[s] # {} => s \in made'
<1>1. CASE on = {}
  BY <1>1 DEF Prepared, Fresh
<1>2. CASE on # {}
  BY <1>2 DEF Prepared, Collected
<1> QED
  BY <1>1, <1>2

LEMMA FindBaseFacts ==
  ASSUME LimTypeOK, NEW s \in Terms, FindBase(s)
  PROVE  /\ base.at = "untried" /\ UNCHANGED <<inOwn, group, term, alive, raced, forks, machine>>
         /\ base' \in [at : {"untried", "vacating", "parent", "own", "failed"}, todo : SUBSET Everyone,
                       on : SUBSET Controllers]
         /\ base'.at # "untried" /\ (base'.at \in {"vacating", "failed"} => base'.on = {})
         /\ base'.at = "vacating" => /\ Usable # {} /\ machine.parent \in {"occupied", "closed"}
                                     /\ base'.todo = inOwn
         /\ base'.at = "failed" => Usable = {}
         /\ made' \subseteq made /\ \A t \in made : group[t] # {} => t \in made'
<1> USE DEF LimTypeOK
<1>0. base.at = "untried" /\ UNCHANGED <<inOwn, group, term, alive, raced, forks, machine>>
  BY DEF FindBase, host
<1>1. CASE Usable = {}
  <2>1. Prepared("failed", {})
    BY <1>1 DEF FindBase
  <2> QED
    BY <1>0, <1>1, <2>1, PreparedFacts
<1>2. CASE Usable # {} /\ machine.parent = "empty"
  <2>1. Prepared("parent", machine.offers)
    BY <1>2 DEF FindBase
  <2>2. machine.offers \in SUBSET Controllers /\ machine.offers # {}
    BY <1>2 DEF Usable
  <2> QED
    BY <1>0, <2>1, <2>2, PreparedFacts
<1>3. CASE Usable # {} /\ machine.parent = "none"
  <2>1. Prepared("own", machine.own)
    BY <1>3 DEF FindBase
  <2>2. machine.own \in SUBSET Controllers /\ machine.own # {}
    BY <1>3 DEF Usable
  <2> QED
    BY <1>0, <2>1, <2>2, PreparedFacts
<1>4. CASE Usable # {} /\ machine.parent \notin {"empty", "none"}
  <2>1. base' = [Fresh EXCEPT !.at = "vacating", !.todo = inOwn] /\ UNCHANGED made
    BY <1>4 DEF FindBase
  <2> QED
    BY <1>0, <1>4, <2>1 DEF Fresh
<1> QED
  BY <1>1, <1>2, <1>3, <1>4

LEMMA VacateFacts ==
  ASSUME LimTypeOK, BaseOK, VacateEnds
  PROVE  /\ base.at = "vacating" /\ UNCHANGED <<inOwn, group, term, alive, raced, forks, machine>>
         /\ base' \in [at : {"untried", "vacating", "parent", "own", "failed"}, todo : SUBSET Everyone,
                       on : SUBSET Controllers]
         /\ base'.at \in {"own", "failed"} /\ (base'.at = "failed" => base'.on = {})
         /\ base'.at = "failed" => raced \/ machine.parent = "occupied"
         /\ made' \subseteq made /\ \A t \in made : group[t] # {} => t \in made'
<1> DEFINE on == IF inOwn = {} THEN machine.own ELSE {}
<1>1. on \in SUBSET Controllers /\ Prepared("own", on)
  BY DEF VacateEnds, LimTypeOK
<1>2. base.at = "vacating" /\ base.todo = {} /\ UNCHANGED <<inOwn, group, term, alive, raced, forks, machine>>
  BY DEF VacateEnds, host
<1>3. on = {} => raced \/ machine.parent = "occupied"
  BY <1>2 DEF BaseOK, Usable
<1> HIDE DEF on
<1> QED
  BY <1>1, <1>2, <1>3, PreparedFacts

\* What each other action does.
LEMMA AskFacts ==
  ASSUME LimTypeOK, NEW s \in Terms, NEW l \in SUBSET Controllers, AskLimits(s, l)
  PROVE  /\ UNCHANGED <<base, inOwn, group, made, alive, raced, forks, machine>> /\ term[s].pc = "none"
         /\ term' \in [Terms -> Session] /\ \A t \in Terms \ {s} : term'[t] = term[t]
         /\ term'[s].pc \in {"start", "limiter"} /\ term'[s].mode = "none"
         /\ term'[s].asked = l /\ (term'[s].pc = "start" => l = {}) /\ term'[s].got = {}
<1> DEFINE r == [NoTerm EXCEPT !.asked = l, !.pc = IF l = {} THEN "start" ELSE "limiter"]
<1>1. r \in Session /\ r.pc \in {"start", "limiter"} /\ (r.pc = "start" => l = {}) /\ r.mode = "none"
      /\ r.asked = l /\ r.got = {}
  BY DEF NoTerm, Session
<1>2. term' = [term EXCEPT ![s] = r] /\ term[s].pc = "none" /\ term \in [Terms -> Session]
      /\ UNCHANGED <<base, inOwn, group, made, alive, raced, forks, machine>>
  BY DEF AskLimits, host, LimTypeOK
<1> HIDE DEF r
<1> QED
  BY <1>1, <1>2

LEMMA LimiterFacts ==
  ASSUME LimTypeOK, BaseOK, NEW s \in Terms, NewLimiter(s)
  PROVE  /\ UNCHANGED <<base, inOwn, group, alive, raced, forks, machine>> /\ term[s].pc = "limiter"
         /\ term' \in [Terms -> Session] /\ \A t \in Terms \ {s} : term'[t] = term[t]
         /\ term'[s].asked = term[s].asked
         /\ \/ /\ term'[s].pc = "start" /\ term'[s].mode = "cgroup2" /\ made' = made \cup {s}
               /\ term'[s].got = term[s].asked \cap base.on /\ term'[s].got # {} /\ base.at \in {"parent", "own"}
            \/ /\ term'[s].pc = "start" /\ term'[s].mode = "rlimit" /\ made' = made
               /\ term[s].asked = {"memory"} /\ term'[s].got = {"memory"}
            \/ term'[s].pc = "refused" /\ term'[s].mode = term[s].mode /\ made' = made
<1> DEFINE got == term[s].asked \cap base.on
<1>1. UNCHANGED <<base, inOwn, group, alive, raced, forks, machine>> /\ term[s].pc = "limiter"
      /\ base.at \notin {"untried", "vacating"} /\ made' = (IF got # {} THEN made \cup {s} ELSE made)
      /\ term[s] \in Session /\ got \in SUBSET Controllers /\ term \in [Terms -> Session]
  BY DEF NewLimiter, host, LimTypeOK, Session
<1>2. CASE got # {}
  <2>1. term' = [term EXCEPT ![s] = [term[s] EXCEPT !.pc = "start", !.got = got, !.mode = "cgroup2"]]
    BY <1>2 DEF NewLimiter
  <2>2. base.at \in {"parent", "own"}
    BY <1>1, <1>2 DEF BaseOK
  <2>3. [term[s] EXCEPT !.pc = "start", !.got = got, !.mode = "cgroup2"] \in Session
    BY <1>1 DEF Session
  <2> QED
    BY <1>1, <1>2, <2>1, <2>2, <2>3 DEF Session
<1>3. CASE got = {} /\ term[s].asked = {"memory"} /\ machine.sh
  <2>1. term' = [term EXCEPT ![s] = [term[s] EXCEPT !.pc = "start", !.got = {"memory"}, !.mode = "rlimit"]]
    BY <1>3 DEF NewLimiter
  <2>3. [term[s] EXCEPT !.pc = "start", !.got = {"memory"}, !.mode = "rlimit"] \in Session
    BY <1>1 DEF Session, Controllers
  <2> QED
    BY <1>1, <1>3, <2>1, <2>3 DEF Session
<1>4. CASE got = {} /\ ~(term[s].asked = {"memory"} /\ machine.sh)
  <2>1. term' = [term EXCEPT ![s] = [term[s] EXCEPT !.pc = "refused"]]
    BY <1>4 DEF NewLimiter
  <2>3. [term[s] EXCEPT !.pc = "refused"] \in Session
    BY <1>1 DEF Session
  <2> QED
    BY <1>1, <1>4, <2>1, <2>3 DEF Session
<1> QED
  BY <1>2, <1>3, <1>4

LEMMA TurnsFacts ==
  ASSUME LimTypeOK, NEW s \in Terms,
         NEW pc \in {"start", "enter", "attach", "runs", "release", "released", "given up"}, Turns(s, pc)
  PROVE  /\ term' \in [Terms -> Session] /\ \A t \in Terms \ {s} : term'[t] = term[t]
         /\ term'[s].pc = pc /\ term'[s].mode = term[s].mode /\ term'[s].asked = term[s].asked
         /\ term'[s].got = term[s].got
<1>1. [term[s] EXCEPT !.pc = pc] \in Session /\ term' = [term EXCEPT ![s] = [term[s] EXCEPT !.pc = pc]]
      /\ term[s] \in Session /\ term \in [Terms -> Session]
  BY ZenonT(60) DEF LimTypeOK, Session, Turns
<1> QED
  BY <1>1 DEF Session

LEMMA StartFacts ==
  ASSUME LimTypeOK, NEW s \in Terms, StartTerm(s)
  PROVE  /\ UNCHANGED <<base, group, made, forks, machine>> /\ term[s].pc = "start"
         /\ term' \in [Terms -> Session] /\ \A t \in Terms \ {s} : term'[t] = term[t]
         /\ term'[s].mode = term[s].mode /\ term'[s].asked = term[s].asked /\ term'[s].got = term[s].got
         /\ term'[s].pc = (IF term[s].mode # "cgroup2" THEN "runs" ELSE IF machine.sh THEN "enter" ELSE "attach")
         /\ alive' = alive \cup {Sh(s)}
         /\ inOwn' = (IF Program \in inOwn THEN inOwn \cup {Sh(s)} ELSE inOwn)
         /\ raced' \in BOOLEAN /\ (raced => raced')
         /\ base.at = "vacating" /\ Program \in inOwn => raced'
<1> DEFINE pc == IF term[s].mode # "cgroup2" THEN "runs" ELSE IF machine.sh THEN "enter" ELSE "attach"
<1>1. Turns(s, pc) /\ pc \in {"runs", "enter", "attach"}
  BY DEF StartTerm, Wraps
<1>2. raced' = (raced \/ (base.at = "vacating" /\ Program \in inOwn)) /\ term[s].pc = "start"
      /\ alive' = alive \cup {Sh(s)} /\ Joins(Sh(s), Program) /\ UNCHANGED <<base, group, made, forks, machine>>
  BY DEF StartTerm, host
<1>3. raced \in BOOLEAN
  BY DEF LimTypeOK
<1>4. raced' \in BOOLEAN /\ (raced => raced') /\ (base.at = "vacating" /\ Program \in inOwn => raced')
  BY <1>2, <1>3
<1> HIDE DEF pc
<1>5. /\ term' \in [Terms -> Session] /\ \A t \in Terms \ {s} : term'[t] = term[t]
      /\ term'[s].pc = pc /\ term'[s].mode = term[s].mode /\ term'[s].asked = term[s].asked
      /\ term'[s].got = term[s].got
  BY <1>1, TurnsFacts
<1> QED
  BY <1>2, <1>4, <1>5 DEF Joins, pc

LEMMA OneMore == \A k \in Nat : k + 1 \in Nat
  OBVIOUS

LEMMA ReleaseFacts ==
  ASSUME LimTypeOK, NEW s \in Terms, Release(s)
  PROVE  /\ UNCHANGED <<base, inOwn, group, alive, raced, forks, machine>> /\ term[s].pc = "release"
         /\ term' \in [Terms -> Session] /\ \A t \in Terms \ {s} : term'[t] = term[t]
         /\ term'[s].mode = term[s].mode
         /\ \/ /\ term'[s].pc = "released" /\ made' = made \ {s}
               /\ term[s].mode # "cgroup2" \/ group[s] = {}
            \/ term'[s].pc \in {"release", "given up"} /\ made' = made
<1>1. UNCHANGED <<base, inOwn, group, alive, raced, forks, machine>> /\ term[s].pc = "release"
      /\ term[s] \in Session /\ term \in [Terms -> Session]
  BY DEF Release, host, LimTypeOK
<1>2. CASE term[s].mode # "cgroup2" \/ group[s] = {}
  <2>1. Turns(s, "released") /\ made' = made \ {s}
    BY <1>2 DEF Release
  <2> QED
    BY <1>1, <1>2, <2>1, TurnsFacts
<1>3. CASE ~(term[s].mode # "cgroup2" \/ group[s] = {})
  <2>1. PICK pc \in {"release", "given up"} :
          term' = [term EXCEPT ![s] = [term[s] EXCEPT !.tries = @ + 1, !.pc = pc]] /\ made' = made
    BY <1>1, <1>3 DEF Release
  <2>2. PICK n \in Nat : n = term[s].tries + 1
    <3>1. term[s].tries \in Nat
      BY <1>1 DEF Session
    <3>3. term[s].tries + 1 \in Nat
      BY <3>1, OneMore, Zenon
    <3> QED
      BY <3>3, Zenon
  <2> DEFINE r == [term[s] EXCEPT !.tries = n, !.pc = pc]
  <2>3. term' = [term EXCEPT ![s] = r]
    BY <2>1, <2>2
  <2>4. r \in Session /\ r.pc = pc /\ r.mode = term[s].mode
    BY <1>1 DEF Session
  <2> HIDE DEF r
  <2> QED
    BY <1>1, <2>1, <2>3, <2>4
<1> QED
  BY <1>2, <1>3

LEMMA DiesFacts ==
  ASSUME LimTypeOK, NEW x \in alive, ProcessDies(x)
  PROVE  /\ UNCHANGED <<base, made, raced, forks, machine>>
         /\ alive' = alive \ {x} /\ inOwn' = inOwn \ {x}
         /\ group' \in [Terms -> SUBSET Everyone] /\ \A s \in Terms : group'[s] = group[s] \ {x}
         /\ term' \in [Terms -> Session]
         /\ \A s \in Terms : /\ term'[s].mode = term[s].mode /\ term'[s].asked = term[s].asked
                             /\ term'[s].got = term[s].got
                             /\ \/ term'[s].pc = term[s].pc
                                \/ term'[s].pc = "release" /\ term[s].pc \in {"enter", "attach", "runs"}
                             /\ x = Sh(s) => term'[s].pc \notin {"enter", "attach", "runs"}
<1>1. /\ UNCHANGED <<base, made, raced, forks, machine>> /\ Dies({x})
      /\ term' = [s \in Terms |->
           IF x = Sh(s) THEN [term[s] EXCEPT !.pc = IF @ \in {"enter", "attach", "runs"} THEN "release" ELSE @] ELSE term[s]]
  BY DEF ProcessDies, host
<1>2. ASSUME NEW s \in Terms
      PROVE  /\ term'[s] \in Session
             /\ term'[s].mode = term[s].mode /\ term'[s].asked = term[s].asked
             /\ term'[s].got = term[s].got
             /\ \/ term'[s].pc = term[s].pc
                \/ term'[s].pc = "release" /\ term[s].pc \in {"enter", "attach", "runs"}
             /\ x = Sh(s) => term'[s].pc \notin {"enter", "attach", "runs"}
  <2>1. term[s] \in Session
    BY DEF LimTypeOK
  <2>2. CASE x = Sh(s)
    <3> DEFINE pc == IF term[s].pc \in {"enter", "attach", "runs"} THEN "release" ELSE term[s].pc
    <3>1. term'[s] = [term[s] EXCEPT !.pc = pc]
      BY <1>1, <2>2
    <3>2. [term[s] EXCEPT !.pc = pc] \in Session
      BY <2>1 DEF Session
    <3> QED
      BY <2>1, <3>1, <3>2, ZenonT(60) DEF Session
  <2>3. CASE x # Sh(s)
    BY <1>1, <2>1, <2>3
  <2> QED
    BY <2>2, <2>3
<1>3. group' \in [Terms -> SUBSET Everyone] /\ \A s \in Terms : group'[s] = group[s] \ {x}
  BY <1>1 DEF Dies, LimTypeOK
<1>4. term' \in [Terms -> Session]
  BY <1>1, <1>2
<1> QED
  BY <1>1, <1>2, <1>3, <1>4 DEF Dies

LEMMA AgainFacts ==
  ASSUME LimTypeOK, StartAgain
  PROVE  /\ base' = Fresh /\ raced' = FALSE /\ UNCHANGED <<machine, forks>>
         /\ inOwn' = {Program} /\ alive' \subseteq {Program} \cup UNION {group[s] : s \in Terms}
         /\ Program \in alive'
         /\ group' \in [Terms -> SUBSET Everyone]
         /\ \A s \in Terms : group'[s] \subseteq group[s] /\ group'[s] \subseteq alive'
         /\ made' \subseteq made /\ \A s \in Terms : group'[s] # {} => group[s] # {} /\ (s \in made => s \in made')
         /\ term' \in [Terms -> Session]
         /\ \A s \in Terms : \/ term[s].pc = "none" /\ term'[s] = NoTerm
                             \/ term[s].pc # "none" /\ term'[s].pc = "old" /\ term'[s].mode = term[s].mode
<1> DEFINE below == base.at = "parent"
           kept  == IF below THEN UNION {group[s] : s \in Terms} \ {Sh(s) : s \in Terms} ELSE {}
<1>1. /\ alive' = {Program} \cup kept /\ inOwn' = {Program}
      /\ group' = [s \in Terms |-> group[s] \cap kept]
      /\ made' = (IF below THEN made ELSE {})
      /\ term' = [s \in Terms |-> IF term[s].pc = "none" THEN NoTerm ELSE [term[s] EXCEPT !.pc = "old"]]
      /\ base' = Fresh /\ raced' = FALSE /\ UNCHANGED <<machine, forks>>
  BY DEF StartAgain
<1>2. kept \subseteq UNION {group[s] : s \in Terms} /\ (kept # {} => below)
  OBVIOUS
<1> HIDE DEF below, kept
<1>3. \A s \in Terms : term'[s] \in Session
                       /\ \/ term[s].pc = "none" /\ term'[s] = NoTerm
                          \/ term[s].pc # "none" /\ term'[s].pc = "old" /\ term'[s].mode = term[s].mode
  BY <1>1, NewSession DEF LimTypeOK, Session
<1>4. term' \in [Terms -> Session]
  BY <1>1, <1>3
<1>5. group' \in [Terms -> SUBSET Everyone] /\ \A s \in Terms : group'[s] = group[s] \cap kept
  BY <1>1 DEF LimTypeOK
<1> QED
  BY <1>1, <1>2, <1>3, <1>4, <1>5

LEMMA MoveFacts ==
  ASSUME LimTypeOK, MovePid
  PROVE  \E x \in base.todo : base' = [base EXCEPT !.todo = @ \ {x}] /\ inOwn' = inOwn \ {x} /\ base.at = "vacating"
                              /\ UNCHANGED <<group, made, term, alive, raced, forks, machine>>
                              /\ base'.at = "vacating" /\ base'.on = base.on /\ base'.todo = base.todo \ {x}
                              /\ base' \in [at : {"untried", "vacating", "parent", "own", "failed"},
                                            todo : SUBSET Everyone, on : SUBSET Controllers]
<1>1. PICK x \in base.todo : base' = [base EXCEPT !.todo = @ \ {x}] /\ inOwn' = inOwn \ {x}
  BY DEF MovePid
<1> QED
  BY <1>1 DEF MovePid, host, LimTypeOK

\* A process comes, of a shell or of nobody's.
LEMMA ForkFacts ==
  ASSUME LimTypeOK, NEW s \in Terms, ForkChild(s)
  PROVE  /\ UNCHANGED <<base, made, term, machine>> /\ forks + 1 \in 1..MaxForks /\ forks' = forks + 1
         /\ term[s].pc \in {"attach", "runs"} /\ Sh(s) \in alive /\ alive' = alive \cup {Child(s, forks + 1)}
         /\ group' \in [Terms -> SUBSET Everyone] /\ \A t \in Terms \ {s} : group'[t] = group[t]
         /\ raced' \in BOOLEAN /\ (raced => raced')
         /\ \/ /\ Sh(s) \in group[s] /\ group'[s] = group[s] \cup {Child(s, forks + 1)} /\ inOwn' = inOwn
            \/ /\ Sh(s) \notin group[s] /\ group'[s] = group[s]
               /\ inOwn' = inOwn \/ (inOwn' = inOwn \cup {Child(s, forks + 1)} /\ (base.at = "vacating" => raced'))
<1>1. /\ UNCHANGED <<base, made, term, machine>> /\ forks < MaxForks /\ forks' = forks + 1
      /\ term[s].pc \in {"attach", "runs"} /\ Sh(s) \in alive /\ alive' = alive \cup {Child(s, forks')}
  BY DEF ForkChild, host
<1>2. forks + 1 \in 1..MaxForks /\ Child(s, forks + 1) \in Everyone
  BY <1>1, LimitsAssumption DEF LimTypeOK, Everyone
<1>3. CASE Sh(s) \in group[s]
  <2>1. group' = [group EXCEPT ![s] = @ \cup {Child(s, forks')}] /\ UNCHANGED <<inOwn, raced>>
    BY <1>3 DEF ForkChild
  <2> QED
    BY <1>1, <1>2, <1>3, <2>1 DEF LimTypeOK
<1>4. CASE Sh(s) \notin group[s]
  <2>1. Joins(Child(s, forks'), Sh(s)) /\ UNCHANGED group
        /\ raced' = (raced \/ (base.at = "vacating" /\ Sh(s) \in inOwn))
    BY <1>4 DEF ForkChild
  <2>2. raced' \in BOOLEAN /\ (raced => raced') /\ (base.at = "vacating" /\ Sh(s) \in inOwn => raced')
    BY <2>1 DEF LimTypeOK
  <2>3. group \in [Terms -> SUBSET Everyone]
    BY DEF LimTypeOK
  <2> QED
    BY <1>1, <1>2, <1>4, <2>1, <2>2, <2>3 DEF Joins
<1> QED
  BY <1>3, <1>4

LEMMA StrayFacts ==
  ASSUME LimTypeOK, Stray
  PROVE  /\ UNCHANGED <<base, group, made, term, machine>> /\ forks + 1 \in 1..MaxForks /\ forks' = forks + 1
         /\ Strange(forks + 1) \in Everyone
         /\ alive' = alive \cup {Strange(forks + 1)} /\ inOwn' = inOwn \cup {Strange(forks + 1)}
         /\ raced' \in BOOLEAN /\ (raced => raced') /\ (base.at = "vacating" => raced')
<1>1. /\ UNCHANGED <<base, group, made, term, machine>> /\ forks < MaxForks /\ forks' = forks + 1
      /\ alive' = alive \cup {Strange(forks')} /\ inOwn' = inOwn \cup {Strange(forks')}
      /\ raced' = (raced \/ base.at = "vacating")
  BY DEF Stray, host
<1>2. forks + 1 \in 1..MaxForks /\ Strange(forks + 1) \in Everyone
  BY <1>1, LimitsAssumption DEF LimTypeOK, Everyone
<1>3. raced' \in BOOLEAN /\ (raced => raced') /\ (base.at = "vacating" => raced')
  BY <1>1 DEF LimTypeOK
<1> QED
  BY <1>1, <1>2, <1>3

LEMMA EnterFacts ==
  ASSUME LimTypeOK, NEW s \in Terms, EnterGroup(s)
  PROVE  /\ UNCHANGED <<base, made, alive, raced, forks, machine>> /\ term[s].pc \in {"enter", "attach"}
         /\ Sh(s) \in alive /\ inOwn' = inOwn \ {Sh(s)}
         /\ group' \in [Terms -> SUBSET Everyone] /\ \A t \in Terms \ {s} : group'[t] = group[t]
         /\ group'[s] = group[s] \cup {Sh(s)}
         /\ term' \in [Terms -> Session] /\ \A t \in Terms \ {s} : term'[t] = term[t]
         /\ term'[s].pc = "runs" /\ term'[s].mode = term[s].mode /\ term'[s].asked = term[s].asked
         /\ term'[s].got = term[s].got
<1>1. /\ UNCHANGED <<base, made, alive, raced, forks, machine>> /\ term[s].pc \in {"enter", "attach"}
      /\ Sh(s) \in alive /\ inOwn' = inOwn \ {Sh(s)} /\ group' = [group EXCEPT ![s] = @ \cup {Sh(s)}]
      /\ Turns(s, "runs")
  BY DEF EnterGroup, host
<1>2. group \in [Terms -> SUBSET Everyone] /\ Sh(s) \in Everyone
  BY DEF LimTypeOK, Everyone
<1> QED
  BY <1>1, <1>2, TurnsFacts

LEMMA LimTyped == LimTypeOK /\ BaseOK /\ LimitsNext => LimTypeOK'
<1> SUFFICES ASSUME LimTypeOK, BaseOK, LimitsNext PROVE LimTypeOK'
  OBVIOUS
<1>0. machine' = machine
  BY FindBaseFacts, VacateFacts, AskFacts, LimiterFacts, StartFacts, EnterFacts, ForkFacts, ReleaseFacts,
     DiesFacts, MoveFacts, StrayFacts, AgainFacts DEF LimitsNext
<1>u. inOwn \subseteq alive /\ alive \subseteq Everyone /\ made \subseteq Terms /\ forks \in Nat /\ forks <= MaxForks
      /\ group \in [Terms -> SUBSET Everyone] /\ raced \in BOOLEAN
  BY DEF LimTypeOK
<1>1. ASSUME NEW s \in Terms, FindBase(s) PROVE LimTypeOK'
  BY <1>0, <1>1, FindBaseFacts DEF LimTypeOK
<1>2. ASSUME NEW s \in Terms, NewLimiter(s) PROVE LimTypeOK'
  BY <1>0, <1>2, LimiterFacts DEF LimTypeOK
<1>3. ASSUME NEW s \in Terms, StartTerm(s) PROVE LimTypeOK'
  <2>1. Sh(s) \in Everyone
    BY DEF Everyone
  <2> QED
    BY <1>0, <1>3, <2>1, StartFacts DEF LimTypeOK
<1>4. ASSUME NEW s \in Terms, EnterGroup(s) PROVE LimTypeOK'
  BY <1>0, <1>4, EnterFacts DEF LimTypeOK
<1>5. ASSUME NEW s \in Terms, ForkChild(s) PROVE LimTypeOK'
  <2>1. forks + 1 \in 1..MaxForks /\ Child(s, forks + 1) \in Everyone
    BY <1>5, ForkFacts DEF Everyone
  <2>2. inOwn' \subseteq inOwn \cup {Child(s, forks + 1)} /\ alive' = alive \cup {Child(s, forks + 1)}
        /\ UNCHANGED <<base, made, term>> /\ forks' = forks + 1 /\ raced' \in BOOLEAN
        /\ group' \in [Terms -> SUBSET Everyone]
    BY <1>5, ForkFacts
  <2> QED
    BY <1>0, <1>u, <2>1, <2>2 DEF LimTypeOK
<1>6. ASSUME NEW s \in Terms, Release(s) PROVE LimTypeOK'
  BY <1>0, <1>6, ReleaseFacts DEF LimTypeOK
<1>7. ASSUME NEW s \in Terms, NEW l \in SUBSET Controllers, AskLimits(s, l) PROVE LimTypeOK'
  BY <1>0, <1>7, AskFacts DEF LimTypeOK
<1>8. ASSUME NEW x \in alive, ProcessDies(x) PROVE LimTypeOK'
  BY <1>0, <1>8, DiesFacts DEF LimTypeOK
<1>9. CASE MovePid
  BY <1>0, <1>9, MoveFacts DEF LimTypeOK
<1>10. CASE VacateEnds
  BY <1>0, <1>10, VacateFacts DEF LimTypeOK
<1>11. CASE Stray
  BY <1>0, <1>11, StrayFacts DEF LimTypeOK
<1>12. CASE StartAgain
  <2>1. Fresh \in [at : {"untried", "vacating", "parent", "own", "failed"}, todo : SUBSET Everyone,
                   on : SUBSET Controllers]
    BY DEF Fresh
  <2>2. Program \in Everyone
    BY DEF Everyone
  <2>3. alive' \subseteq Everyone
    <3>1. UNION {group[s] : s \in Terms} \subseteq Everyone
      BY <1>u
    <3> QED
      BY <1>12, <2>2, <3>1, AgainFacts
  <2> QED
    BY <1>0, <1>12, <2>1, <2>3, AgainFacts DEF LimTypeOK
<1> QED
  BY <1>1, <1>2, <1>3, <1>4, <1>5, <1>6, <1>7, <1>8, <1>9, <1>10, <1>11, <1>12 DEF LimitsNext

\* The base that is found, and what becomes of it.
LEMMA BaseKept == LimInv /\ LimitsNext => BaseOK' /\ BaseFound'
<1> SUFFICES ASSUME LimInv, LimitsNext PROVE BaseOK' /\ BaseFound'
  OBVIOUS
<1>0. LimTypeOK /\ BaseOK /\ BaseFound
  BY DEF LimInv
\* Steps that leave the base: no new member of a group, and nobody into the own
\* group unnoticed.
<1>a. ASSUME UNCHANGED <<base, machine>>, raced => raced',
             \A t \in Terms : term'[t].mode = "cgroup2" =>
                \/ term[t].mode = "cgroup2" /\ (term[t].pc = "old" => term'[t].pc = "old")
                \/ base.at \in {"parent", "own"},
             base.at = "vacating" => inOwn' \subseteq inOwn \/ raced'
      PROVE  BaseOK' /\ BaseFound'
  <2>1. BaseFound'
    BY <1>0, <1>a DEF BaseFound, Usable
  <2>2. BaseOK'
    BY <1>0, <1>a DEF BaseOK, Usable
  <2> QED
    BY <2>1, <2>2
<1>1. ASSUME NEW s \in Terms, FindBase(s) PROVE BaseOK' /\ BaseFound'
  <2>1. base.at = "untried" /\ term' = term /\ inOwn' = inOwn /\ raced' = raced /\ machine' = machine
    BY <1>0, <1>1, FindBaseFacts
  <2>2. /\ base'.at # "untried" /\ base'.at \in {"untried", "vacating", "parent", "own", "failed"}
        /\ (base'.at \in {"vacating", "failed"} => base'.on = {})
        /\ base'.at = "vacating" => /\ Usable # {} /\ machine.parent \in {"occupied", "closed"}
                                    /\ base'.todo = inOwn
        /\ base'.at = "failed" => Usable = {}
    BY <1>0, <1>1, FindBaseFacts
  <2>3. Usable' = Usable
    BY <2>1 DEF Usable
  <2> QED
    BY <1>0, <2>1, <2>2, <2>3 DEF BaseOK, BaseFound
<1>2. ASSUME NEW s \in Terms, NewLimiter(s) PROVE BaseOK' /\ BaseFound'
  BY <1>0, <1>2, <1>a, LimiterFacts
<1>3. ASSUME NEW s \in Terms, StartTerm(s) PROVE BaseOK' /\ BaseFound'
  <2>1. /\ UNCHANGED <<base, machine>> /\ (raced => raced') /\ term[s].pc = "start" /\ term'[s].mode = term[s].mode
        /\ \A t \in Terms \ {s} : term'[t] = term[t]
    BY <1>0, <1>3, StartFacts
  <2>2. base.at = "vacating" => inOwn' \subseteq inOwn \/ raced'
    BY <1>0, <1>3, StartFacts
  <2> QED
    BY <2>1, <2>2, <1>a
<1>4. ASSUME NEW s \in Terms, EnterGroup(s) PROVE BaseOK' /\ BaseFound'
  <2>1. /\ UNCHANGED <<base, machine>> /\ (raced => raced') /\ term[s].pc \in {"enter", "attach"}
        /\ term'[s].mode = term[s].mode /\ inOwn' \subseteq inOwn
        /\ \A t \in Terms \ {s} : term'[t] = term[t]
    BY <1>0, <1>4, EnterFacts
  <2> QED
    BY <2>1, <1>a
<1>5. ASSUME NEW s \in Terms, ForkChild(s) PROVE BaseOK' /\ BaseFound'
  <2>1. UNCHANGED <<base, machine, term>> /\ (raced => raced')
    BY <1>0, <1>5, ForkFacts
  <2>2. base.at = "vacating" => inOwn' \subseteq inOwn \/ raced'
    BY <1>0, <1>5, ForkFacts
  <2> QED
    BY <2>1, <2>2, <1>a
<1>6. ASSUME NEW s \in Terms, Release(s) PROVE BaseOK' /\ BaseFound'
  BY <1>0, <1>6, <1>a, ReleaseFacts
<1>7. ASSUME NEW s \in Terms, NEW l \in SUBSET Controllers, AskLimits(s, l) PROVE BaseOK' /\ BaseFound'
  BY <1>0, <1>7, <1>a, AskFacts
<1>8. ASSUME NEW x \in alive, ProcessDies(x) PROVE BaseOK' /\ BaseFound'
  <2>1. /\ UNCHANGED <<base, machine>> /\ (raced => raced') /\ inOwn' \subseteq inOwn
        /\ \A t \in Terms : term'[t].mode = term[t].mode
                            /\ (term'[t].pc = term[t].pc \/ term[t].pc \in {"enter", "attach", "runs"})
    BY <1>0, <1>8, DiesFacts
  <2> QED
    BY <2>1, <1>a
<1>9. CASE MovePid
  <2>1. PICK x \in base.todo :
          /\ inOwn' = inOwn \ {x} /\ base.at = "vacating" /\ UNCHANGED <<term, raced, machine>>
          /\ base'.at = "vacating" /\ base'.on = base.on /\ base'.todo = base.todo \ {x}
    BY <1>0, <1>9, MoveFacts
  <2>2. Usable' = Usable
    BY <2>1 DEF Usable
  <2> QED
    BY <1>0, <2>1, <2>2 DEF BaseOK, BaseFound
<1>10. CASE VacateEnds
  <2>1. /\ base.at = "vacating" /\ UNCHANGED <<term, raced, machine>>
        /\ base'.at \in {"own", "failed"} /\ (base'.at = "failed" => base'.on = {})
        /\ base'.at = "failed" => raced \/ machine.parent = "occupied"
    BY <1>0, <1>10, VacateFacts
  <2> QED
    BY <1>0, <2>1 DEF BaseOK, BaseFound
<1>11. CASE Stray
  <2>1. UNCHANGED <<base, machine, term>> /\ (raced => raced') /\ (base.at = "vacating" => raced')
    BY <1>0, <1>11, StrayFacts
  <2> QED
    BY <2>1, <1>a
<1>12. CASE StartAgain
  <2>1. /\ base' = Fresh
        /\ \A s \in Terms : \/ term[s].pc = "none" /\ term'[s] = NoTerm
                            \/ term[s].pc # "none" /\ term'[s].pc = "old" /\ term'[s].mode = term[s].mode
    BY <1>0, <1>12, AgainFacts
  <2> QED
    BY <2>1, NewSession DEF BaseOK, BaseFound, Fresh
<1> QED
  BY <1>1, <1>2, <1>3, <1>4, <1>5, <1>6, <1>7, <1>8, <1>9, <1>10, <1>11, <1>12 DEF LimitsNext

\* A session whose processes and settings a step leaves alone.
LEMMA SessionStays ==
  ASSUME NEW t \in Terms, SessionOK(t), machine' = machine, Of(t)' = Of(t), group'[t] = group[t],
         \/ term'[t] = term[t]
         \/ /\ term'[t].mode = term[t].mode
            /\ term'[t].pc \in {"release", "released", "given up"},
         term[t].mode = "cgroup2" /\ term[t].pc \in {"start", "enter", "attach", "runs"} =>
            base'.on = base.on /\ (t \in made => t \in made')
  PROVE  SessionOK(t)'
  BY DEF SessionOK

LEMMA SessionsKept ==
  LimInv /\ LimTypeOK' /\ LimitsNext => LimitedAsAsked' /\ GroupsGo' /\ \A t \in Terms : SessionOK(t)'
<1> SUFFICES ASSUME LimInv, LimTypeOK', LimitsNext
             PROVE  LimitedAsAsked' /\ GroupsGo' /\ \A t \in Terms : SessionOK(t)'
  OBVIOUS
<1>0. LimTypeOK /\ BaseOK /\ LimitedAsAsked /\ GroupsGo /\ (\A t \in Terms : SessionOK(t))
      /\ term \in [Terms -> Session] /\ made \subseteq Terms
  BY DEF LimInv, LimTypeOK
<1> DEFINE Asked(t) == term[t].pc \in {"start", "enter", "attach", "runs"} =>
                         /\ term[t].asked # {} => term[t].got # {}
                         /\ (term[t].asked \ term[t].got) \cap base.on = {}
           Goes(t)  == /\ group[t] # {} => t \in made
                       /\ t \in made => term[t].pc \in {"start", "enter", "attach", "runs", "release", "given up", "old"}
           Fine(t)  == Asked(t)' /\ Goes(t)' /\ SessionOK(t)'
<1>g. ASSUME NEW t \in Terms PROVE SessionOK(t) /\ Asked(t) /\ Goes(t)
  BY <1>0 DEF LimitedAsAsked, GroupsGo
\* A session that is passed by.
<1>p. ASSUME NEW t \in Terms, machine' = machine, Of(t)' = Of(t), group'[t] = group[t], term'[t] = term[t],
             base' = base, t \in made' <=> t \in made
      PROVE  Fine(t)
  BY <1>p, <1>g, SessionStays
<1> SUFFICES \A t \in Terms : Fine(t)
  BY DEF LimitedAsAsked, GroupsGo
\* The base comes: only old sessions have groups.
<1>b. ASSUME base.at \notin {"parent", "own"}, UNCHANGED <<term, group, alive, machine>>,
             made' \subseteq made, \A t \in made : group[t] # {} => t \in made',
             NEW t \in Terms
      PROVE  Fine(t)
  <2>1. term[t].mode = "cgroup2" => term[t].pc = "old"
    BY <1>0, <1>b DEF BaseOK
  <2>2. Of(t)' = Of(t)
    BY <1>b DEF Of
  <2>3. SessionOK(t)'
    BY <1>b, <2>1, <2>2, <1>g, SessionStays
  <2>4. Asked(t)'
    BY <1>b, <2>1, <1>g DEF SessionOK
  <2>5. Goes(t)'
    BY <1>b, <1>g
  <2> QED
    BY <2>3, <2>4, <2>5
<1>1. ASSUME NEW s \in Terms, FindBase(s), NEW t \in Terms PROVE Fine(t)
  <2>1. /\ base.at = "untried" /\ UNCHANGED <<group, term, alive, machine>>
        /\ made' \subseteq made /\ \A r \in made : group[r] # {} => r \in made'
    BY <1>0, <1>1, FindBaseFacts
  <2> QED
    BY <2>1, <1>b
<1>10. ASSUME VacateEnds, NEW t \in Terms PROVE Fine(t)
  <2>1. /\ base.at = "vacating" /\ UNCHANGED <<group, term, alive, machine>>
        /\ made' \subseteq made /\ \A r \in made : group[r] # {} => r \in made'
    BY <1>0, <1>10, VacateFacts
  <2> QED
    BY <2>1, <1>b
<1>9. ASSUME MovePid, NEW t \in Terms PROVE Fine(t)
  <2>1. base.at = "vacating" /\ UNCHANGED <<group, term, alive, machine, made>>
    BY <1>0, <1>9, MoveFacts
  <2> QED
    BY <2>1, <1>b
<1>2. ASSUME NEW s \in Terms, NewLimiter(s), NEW t \in Terms PROVE Fine(t)
  <2>1. /\ UNCHANGED <<base, group, alive, machine>> /\ (\A r \in Terms \ {s} : term'[r] = term[r])
        /\ term[s].pc = "limiter" /\ term'[s].asked = term[s].asked /\ term'[s] \in Session
        /\ \/ /\ term'[s].pc = "start" /\ term'[s].mode = "cgroup2" /\ made' = made \cup {s}
              /\ term'[s].got = term[s].asked \cap base.on /\ term'[s].got # {}
           \/ /\ term'[s].pc = "start" /\ term'[s].mode = "rlimit" /\ made' = made
              /\ term[s].asked = {"memory"} /\ term'[s].got = {"memory"}
           \/ term'[s].pc = "refused" /\ term'[s].mode = term[s].mode /\ made' = made
    BY <1>0, <1>2, LimiterFacts
  <2>2. \A r \in Terms : Of(r)' = Of(r)
    BY <2>1 DEF Of
  <2>3. CASE t # s
    BY <2>1, <2>2, <2>3, <1>p
  <2>4. CASE t = s
    <3>1. SessionOK(s)'
      BY <2>1, <2>2, <1>g DEF SessionOK
    <3>2. Asked(s)' /\ Goes(s)'
      BY <2>1, <1>g DEF SessionOK
    <3> QED
      BY <2>4, <3>1, <3>2
  <2> QED
    BY <2>3, <2>4
<1>3. ASSUME NEW s \in Terms, StartTerm(s), NEW t \in Terms PROVE Fine(t)
  <2>1. /\ UNCHANGED <<base, group, made, machine>> /\ term[s].pc = "start"
        /\ \A r \in Terms \ {s} : term'[r] = term[r]
        /\ term'[s].mode = term[s].mode /\ term'[s].asked = term[s].asked /\ term'[s].got = term[s].got
        /\ term'[s].pc = (IF term[s].mode # "cgroup2" THEN "runs" ELSE IF machine.sh THEN "enter" ELSE "attach")
        /\ alive' = alive \cup {Sh(s)}
    BY <1>0, <1>3, StartFacts
  <2>2. (t # s => Of(t)' = Of(t)) /\ Of(s)' \subseteq Of(s) \cup {Sh(s)} /\ Of(s) \subseteq Of(s)'
    <3>1. Sh(s) \in Kin(s)
      BY DEF Kin
    <3> QED
      BY <2>1, <3>1, ProcessNames DEF Of, Kin
  <2>3. CASE t # s
    BY <2>1, <2>2, <2>3, <1>p
  <2>4. CASE t = s
    <3>1. SessionOK(s)'
      BY <2>1, <2>2, <1>g DEF SessionOK
    <3>2. Asked(s)' /\ Goes(s)'
      BY <2>1, <1>g DEF SessionOK
    <3> QED
      BY <2>4, <3>1, <3>2
  <2> QED
    BY <2>3, <2>4
<1>4. ASSUME NEW s \in Terms, EnterGroup(s), NEW t \in Terms PROVE Fine(t)
  <2>1. /\ UNCHANGED <<base, made, alive, machine>> /\ term[s].pc \in {"enter", "attach"}
        /\ Sh(s) \in alive /\ (\A r \in Terms \ {s} : group'[r] = group[r] /\ term'[r] = term[r])
        /\ group'[s] = group[s] \cup {Sh(s)}
        /\ term'[s].pc = "runs" /\ term'[s].mode = term[s].mode /\ term'[s].asked = term[s].asked
        /\ term'[s].got = term[s].got
    BY <1>0, <1>4, EnterFacts
  <2>2. (\A r \in Terms : Of(r)' = Of(r)) /\ Sh(s) \in Of(s)
    BY <2>1 DEF Of
  <2>3. CASE t # s
    BY <2>1, <2>2, <2>3, <1>p
  <2>4. CASE t = s
    <3>3. /\ group[s] \subseteq Of(s) /\ term[s].mode = "cgroup2"
          /\ term[s].pc = "enter" => Of(s) \subseteq {Sh(s)}
          /\ term[s].pc = "attach" => ~machine.sh
          /\ s \in made /\ term[s].got \subseteq base.on
      BY <2>1, <1>g DEF SessionOK
    <3>4. group'[s] \subseteq Of(s)' /\ (machine.sh => Of(s)' \subseteq group'[s])
      BY <2>1, <2>2, <3>3
    <3>1. SessionOK(s)'
      BY <2>1, <3>3, <3>4 DEF SessionOK
    <3>2. Asked(s)' /\ Goes(s)'
      BY <2>1, <1>g DEF SessionOK
    <3> QED
      BY <2>4, <3>1, <3>2
  <2> QED
    BY <2>3, <2>4
<1>5. ASSUME NEW s \in Terms, ForkChild(s), NEW t \in Terms PROVE Fine(t)
  <2>0. PICK n \in 1..MaxForks : n = forks + 1
    BY <1>0, <1>5, ForkFacts
  <2>1. /\ UNCHANGED <<base, made, term, machine>> /\ alive' = alive \cup {Child(s, n)}
        /\ term[s].pc \in {"attach", "runs"} /\ Sh(s) \in alive
        /\ \A r \in Terms \ {s} : group'[r] = group[r]
        /\ \/ Sh(s) \in group[s] /\ group'[s] = group[s] \cup {Child(s, n)}
           \/ Sh(s) \notin group[s] /\ group'[s] = group[s]
    BY <1>0, <1>5, <2>0, ForkFacts
  <2>2. (t # s => Of(t)' = Of(t)) /\ Of(s)' = Of(s) \cup {Child(s, n)} /\ Sh(s) \in Of(s)
    <3>1. Child(s, n) \in Kin(s) /\ Sh(s) \in Kin(s)
      BY DEF Kin
    <3>2. Of(t)' = alive' \cap Kin(t) /\ Of(s)' = alive' \cap Kin(s)
      BY DEF Of, Kin
    <3> QED
      BY <2>1, <3>1, <3>2, ProcessNames
  <2>3. CASE t # s
    BY <2>1, <2>2, <2>3, <1>p
  <2>4. CASE t = s
    <3>1. SessionOK(s)'
      BY <2>1, <2>2, <1>g DEF SessionOK
    <3>2. Asked(s)' /\ Goes(s)'
      BY <2>1, <1>g DEF SessionOK
    <3> QED
      BY <2>4, <3>1, <3>2
  <2> QED
    BY <2>3, <2>4
<1>6. ASSUME NEW s \in Terms, Release(s), NEW t \in Terms PROVE Fine(t)
  <2>1. /\ UNCHANGED <<base, group, alive, machine>> /\ term[s].pc = "release"
        /\ (\A r \in Terms \ {s} : term'[r] = term[r]) /\ term'[s].mode = term[s].mode
        /\ \/ /\ term'[s].pc = "released" /\ made' = made \ {s}
              /\ term[s].mode # "cgroup2" \/ group[s] = {}
           \/ term'[s].pc \in {"release", "given up"} /\ made' = made
    BY <1>0, <1>6, ReleaseFacts
  <2>2. \A r \in Terms : Of(r)' = Of(r)
    BY <2>1 DEF Of
  <2>3. CASE t # s
    BY <2>1, <2>2, <2>3, <1>p
  <2>4. CASE t = s
    <3>1. SessionOK(s)'
      BY <2>1, <2>2, <1>g, SessionStays
    <3>2. Asked(s)' /\ Goes(s)'
      BY <2>1, <1>g DEF SessionOK
    <3> QED
      BY <2>4, <3>1, <3>2
  <2> QED
    BY <2>3, <2>4
<1>7. ASSUME NEW s \in Terms, NEW l \in SUBSET Controllers, AskLimits(s, l), NEW t \in Terms PROVE Fine(t)
  <2>1. /\ UNCHANGED <<base, group, made, alive, machine>> /\ term[s].pc = "none"
        /\ (\A r \in Terms \ {s} : term'[r] = term[r])
        /\ term'[s].pc \in {"start", "limiter"} /\ term'[s].mode = "none"
        /\ term'[s].asked = l /\ (term'[s].pc = "start" => l = {}) /\ term'[s].got = {}
    BY <1>0, <1>7, AskFacts
  <2>2. \A r \in Terms : Of(r)' = Of(r)
    BY <2>1 DEF Of
  <2>3. CASE t # s
    BY <2>1, <2>2, <2>3, <1>p
  <2>4. CASE t = s
    <3>1. SessionOK(s)'
      BY <2>1, <2>2, <1>g DEF SessionOK
    <3>2. Asked(s)' /\ Goes(s)'
      BY <2>1, <1>g DEF SessionOK
    <3> QED
      BY <2>4, <3>1, <3>2
  <2> QED
    BY <2>3, <2>4
<1>8. ASSUME NEW x \in alive, ProcessDies(x), NEW t \in Terms PROVE Fine(t)
  <2>1. /\ UNCHANGED <<base, made, machine>> /\ alive' = alive \ {x} /\ group'[t] = group[t] \ {x}
        /\ term'[t].mode = term[t].mode /\ term'[t].asked = term[t].asked /\ term'[t].got = term[t].got
        /\ \/ term'[t].pc = term[t].pc
           \/ term'[t].pc = "release" /\ term[t].pc \in {"enter", "attach", "runs"}
    BY <1>0, <1>8, DiesFacts
  <2>2. Of(t)' = Of(t) \ {x}
    BY <2>1, ProcessNames DEF Of
  <2>3. SessionOK(t)'
    BY <2>1, <2>2, <1>g DEF SessionOK
  <2>4. Asked(t)' /\ Goes(t)'
    BY <2>1, <1>g
  <2> QED
    BY <2>3, <2>4
<1>11. ASSUME Stray, NEW t \in Terms PROVE Fine(t)
  <2>0. PICK n \in Nat : n = forks + 1 /\ n \in 1..MaxForks
    BY <1>0, <1>11, StrayFacts
  <2>1. UNCHANGED <<base, group, made, term, machine>> /\ alive' = alive \cup {Strange(n)}
    BY <1>0, <1>11, <2>0, StrayFacts
  <2>2. Of(t)' = Of(t)
    BY <2>1, ProcessNames DEF Of, Kin
  <2> QED
    BY <2>1, <2>2, <1>p
<1>12. ASSUME StartAgain, NEW t \in Terms PROVE Fine(t)
  <2>1. /\ machine' = machine /\ alive' \subseteq {Program} \cup UNION {group[s] : s \in Terms}
        /\ group'[t] \subseteq group[t] /\ group'[t] \subseteq alive'
        /\ made' \subseteq made /\ (group'[t] # {} => group[t] # {} /\ (t \in made => t \in made'))
        /\ \/ term[t].pc = "none" /\ term'[t] = NoTerm
           \/ term[t].pc # "none" /\ term'[t].pc = "old" /\ term'[t].mode = term[t].mode
    BY <1>0, <1>12, AgainFacts
  <2>2. Of(t)' \subseteq group[t]
    <3>1. ASSUME NEW x \in Of(t)' PROVE x \in group[t]
      <4>1. x \in alive' /\ x \in Kin(t)
        BY <3>1 DEF Of, Kin
      <4>2. PICK s \in Terms : x \in group[s]
        BY <2>1, <4>1, ProcessNames
      <4>3. x \in Kin(s)
        BY <4>2, <1>g, ProcessNames DEF SessionOK
      <4> QED
        BY <4>1, <4>2, <4>3, ProcessNames
    <3> QED
      BY <3>1
  <2>3. group'[t] \subseteq Of(t)'
    <3>1. group[t] \subseteq Kin(t)
      BY <1>g, ProcessNames DEF SessionOK
    <3> QED
      BY <2>1, <3>1 DEF Of, Kin
  <2>4. SessionOK(t)'
    BY <2>1, <2>2, <2>3, <1>g, NewSession DEF SessionOK
  <2>5. Asked(t)' /\ Goes(t)'
    BY <2>1, <1>g, NewSession DEF SessionOK
  <2> QED
    BY <2>4, <2>5
<1> HIDE DEF Fine
<1> QED
  BY <1>1, <1>2, <1>3, <1>4, <1>5, <1>6, <1>7, <1>8, <1>9, <1>10, <1>11, <1>12 DEF LimitsNext

\* Sessions are confined to their groups, get what they asked for or are told what
\* not, a base is found where there can be one, and groups go with their processes
\* (limits_linux.go): for any number of sessions, processes and starts.
THEOREM LimitsKept == LimitsSpec => []LimitsHold
<1>1. LimitsInit => LimInv
  <2> SUFFICES ASSUME LimitsInit PROVE LimInv
    OBVIOUS
  <2>1. /\ base = Fresh /\ inOwn = {Program} /\ alive = {Program} /\ raced = FALSE
        /\ group = [s \in Terms |-> {}] /\ made = {}
        /\ term = [s \in Terms |-> NoTerm] /\ forks = 0
    BY DEF LimitsInit
  <2>2. Fresh.at = "untried" /\ Fresh.on = {} /\ Program \in Everyone
        /\ Fresh \in [at : {"untried", "vacating", "parent", "own", "failed"}, todo : SUBSET Everyone,
                      on : SUBSET Controllers]
    BY DEF Fresh, Everyone
  <2>3. \A s \in Terms : term[s] = NoTerm /\ group[s] = {} /\ Of(s) = {}
    BY <2>1, ProcessNames
  <2>4. LimTypeOK
    <3>1. machine \in [parent : {"none", "empty", "occupied", "closed"}, offers : SUBSET Controllers,
                       own : SUBSET Controllers, sh : BOOLEAN]
          /\ (machine.parent = "none" => machine.own = machine.offers)
      BY DEF LimitsInit
    <3>2. group \in [Terms -> SUBSET Everyone] /\ term \in [Terms -> Session] /\ forks \in Nat /\ forks <= MaxForks
      BY <2>1, NewSession, LimitsAssumption
    <3> QED
      BY <2>1, <2>2, <3>1, <3>2 DEF LimTypeOK
  <2>5. BaseOK /\ BaseFound /\ LimitedAsAsked /\ GroupsGo
    BY <2>1, <2>2, <2>3, NewSession DEF BaseOK, BaseFound, LimitedAsAsked, GroupsGo
  <2>6. \A s \in Terms : SessionOK(s)
    BY <2>1, <2>3, NewSession DEF SessionOK
  <2> QED
    BY <2>4, <2>5, <2>6 DEF LimInv
<1>2. LimInv /\ [LimitsNext]_limitVars => LimInv'
  <2>1. CASE LimitsNext
    BY <2>1, LimTyped, BaseKept, SessionsKept DEF LimInv
  <2>2. ASSUME UNCHANGED limitVars, LimInv PROVE LimInv'
    <3>1. UNCHANGED <<machine, base, inOwn, group, made, term, alive, raced, forks>>
      BY <2>2 DEF limitVars, host
    <3> QED
      BY <2>2, <3>1 DEF LimInv, LimTypeOK, BaseOK, BaseFound, LimitedAsAsked, GroupsGo, SessionOK, Of, Usable
  <2> QED
    BY <2>1, <2>2
<1>3. LimInv => LimitsHold
  <2> SUFFICES ASSUME LimInv PROVE Confined
    BY DEF LimInv, LimitsHold
  <2>1. ASSUME NEW s \in Terms, term[s].mode = "cgroup2", term[s].pc = "runs", machine.sh
        PROVE  Of(s) = group[s] /\ s \in made /\ term[s].got \subseteq base.on
    BY <2>1 DEF LimInv, SessionOK
  <2> QED
    BY <2>1 DEF LimInv, SessionOK, Confined
<1> QED
  BY <1>1, <1>2, <1>3, PTL DEF LimitsSpec

-----------------------------------------------------------------------------
(***************************************************************************)
(* AIProfiles: the rows of one CLI, the mark and the live files.           *)
(***************************************************************************)
Config == [main : Texts, auth : Texts]
Unread == [main : Texts \cup {Absent}, auth : Texts \cup {Absent}]
JobRecord ==
  [pc : {"idle", "seed", "update", "current", "backfill", "main", "auth", "clear", "mark"},
   id : Profiles \cup {Absent}, cfg : Unread, old : Profiles \cup {Absent},
   then : {"none", "write", "stop", "clear"}]
ProfilesTypeOK ==
  /\ tool \in {"claude", "codex", "pi"}
  /\ profile \in [Profiles -> Config \cup {Absent}] /\ marked \subseteq Rows
  /\ past \subseteq Profiles \ Rows
  /\ live \in Unread /\ byHand \subseteq {"main", "auth"}
  /\ job \in [ProfileUsers -> JobRecord]
  /\ tool = "claude" => live.auth = Absent /\ byHand \subseteq {"main"}

\* What a request has in hand.
JobOK(u) ==
  /\ job[u].pc \notin {"idle", "seed"} => job[u].id \in Rows \cup past /\ job[u].cfg \in Config
  /\ job[u].pc \in {"current", "backfill", "clear", "mark"} => job[u].then = "clear"
  /\ job[u].pc \in {"main", "auth"} => job[u].then \in {"write", "clear"}
  /\ job[u].pc = "update" => job[u].then \in {"write", "stop"}
  /\ job[u].pc = "backfill" => job[u].old \in Profiles /\ job[u].old # job[u].id

\* The mark.
MarkOK ==
  ~Excused({"marking", "seeded"}) =>
    /\ \A p, q \in marked : p = q
    /\ \A u \in ProfileUsers : job[u].pc = "mark" => marked = {} \/ job[u].id \in past
    /\ \A u, v \in ProfileUsers : job[u].pc = "mark" /\ job[v].pc = "mark" => u = v

\* As long as requests come one after the other and none fails.
InTurn == ~Excused({"crossed", "failed", "stopped"})
Switching(u) == job[u].then = "clear" /\ job[u].pc \in {"main", "auth", "clear", "mark"}
Updating(u)   == job[u].then = "write" /\ job[u].pc \in {"main", "auth"}
Switched(u) ==
  /\ job[u].pc \in {"auth", "clear", "mark"} /\ WritesMain(job[u].cfg) => live.main = job[u].cfg.main
  /\ job[u].pc \in {"clear", "mark"} /\ WritesAuth(job[u].cfg) => live.auth = job[u].cfg.auth
AloneOK(u) ==
  /\ job[u].pc = "seed" => Rows = {}
  /\ job[u].pc \notin {"idle", "seed"} => job[u].id \in Rows
  /\ job[u].pc = "update" => (job[u].then = "write" <=> job[u].id \in marked)
  /\ job[u].pc = "backfill" => job[u].old \in marked
  /\ Updating(u) => job[u].id \in marked
  /\ Updating(u) \/ job[u].pc \in {"current", "backfill"} \/ Switching(u) => job[u].cfg = profile[job[u].id]
  /\ Switched(u)
InFiles(p) ==
  /\ WritesMain(profile[p]) => Text(live.main) \in {profile[p].main, Hand, Broken}
  /\ WritesAuth(profile[p]) => live.auth \in {profile[p].auth, Hand, Broken}
InTurnOK ==
  InTurn => /\ ~Excused({"marking", "seeded"})
            /\ \A u, v \in ProfileUsers : Working(u) /\ Working(v) => u = v
            /\ \A u \in ProfileUsers : Working(u) => AloneOK(u)
            /\ (\A u \in ProfileUsers : ~Switching(u) /\ ~Updating(u)) => \A p \in marked : InFiles(p)

\* What was written by hand.
Handled == Excused({"crossed", "failed", "stopped", "homeless", "unmarked", "again", "updated", "deleted"})
RowHas(f) == \E p \in Rows : profile[p][f] = Hand
\* A file into which people wrote has that, or what the current row says.
HandInFiles(p) ==
  /\ "main" \in byHand /\ WritesMain(profile[p]) => Text(live.main) \in {profile[p].main, Hand}
  /\ "auth" \in byHand /\ WritesAuth(profile[p]) => live.auth \in {profile[p].auth, Hand}
HandOK ==
  ~Handled =>
    /\ \A u \in ProfileUsers : job[u].pc # "update" /\ ~Updating(u)
    /\ \A f \in byHand : live[f] = Hand \/ RowHas(f)
    /\ \A u \in ProfileUsers : Switching(u) => \A f \in byHand : RowHas(f)
    /\ (\A u \in ProfileUsers : ~Switching(u)) => \A p \in marked : HandInFiles(p)
    /\ tool = "codex" /\ live.main = Absent =>
         live.auth \in {Absent, Hand, Broken} /\ \A p \in marked : profile[p].auth \in {Blank, Hand}

\* What rows and files have of each other.
Owned(p) == {Absent, Blank, Hand, Broken, <<p, 1>>, <<p, 2>>}
OwnOK ==
  ~Excused({"left alone", "crossed", "failed", "stopped"}) =>
    /\ \A p \in Rows \ {seeded} : {profile[p].main, profile[p].auth} \subseteq Owned(p)
    /\ (\A u \in ProfileUsers : ~Switching(u)) =>
         \A p \in marked \ {seeded} : {live.main, live.auth} \subseteq Owned(p)
    /\ \A u \in ProfileUsers :
         /\ job[u].pc = "update" \/ Updating(u) => {job[u].cfg.main, job[u].cfg.auth} \subseteq Owned(job[u].id)
         /\ (Switching(u) \/ job[u].pc \in {"current", "backfill"}) /\ tool # "claude" =>
              Blank \notin {job[u].cfg.main, job[u].cfg.auth}

JobsOK == \A u \in ProfileUsers : JobOK(u)
ProfInv == ProfilesTypeOK /\ JobsOK /\ MarkOK /\ InTurnOK /\ HandOK /\ OwnOK

-----------------------------------------------------------------------------
LEMMA TextFacts ==
  /\ Absent \notin Texts /\ Absent \notin Config /\ Blank # Absent /\ Hand # Absent /\ Broken # Absent
  /\ Blank # Hand /\ Blank # Broken /\ Hand # Broken
  /\ Blank \in Texts /\ Hand \in Texts /\ Broken \in Texts
BY ProfilesAssumption DEF Config, Texts

LEMMA Contained ==
  ASSUME tool \in {"claude", "codex", "pi"}, NEW p \in Profiles, NEW v \in {1, 2}, NEW cfg \in Contents(p, v)
  PROVE  cfg \in Config /\ cfg.main \in {<<p, v>>, Blank} /\ cfg.auth \in {<<p, v>>, Blank}
<1>1. <<p, v>> \in Texts /\ Blank \in Texts
  BY DEF Texts
<1>2. cfg.main \in {<<p, v>>, Blank} /\ cfg.auth \in {<<p, v>>, Blank} /\ cfg = [main |-> cfg.main, auth |-> cfg.auth]
  BY DEF Contents
<1> QED
  BY <1>1, <1>2 DEF Config

\* What seedFromLive and backfill take from the files.
LEMMA Taken ==
  ASSUME ProfilesTypeOK, ReadLive # Absent
  PROVE  /\ ReadLive \in Config
         /\ WritesMain(ReadLive) => Text(live.main) = ReadLive.main
         /\ WritesAuth(ReadLive) => live.auth = ReadLive.auth
         /\ ReadLive.main \in {live.main, Blank} /\ ReadLive.auth \in {live.auth, Blank}
<1> USE TextFacts
<1>1. live \in Unread /\ live.main \in Texts \cup {Absent} /\ live.auth \in Texts \cup {Absent}
  BY DEF ProfilesTypeOK, JobRecord, Unread
<1>2. Text(live.main) \in Texts /\ Json(live.main) \in Texts /\ Json(live.auth) \in Texts
  BY <1>1 DEF Text, Json
<1>3. CASE tool = "claude"
  <2>1. live.main \notin {Absent, Broken} /\ ReadLive = [main |-> live.main, auth |-> Blank]
    BY <1>3 DEF ReadLive
  <2> QED
    BY <1>1, <1>3, <2>1 DEF Config, WritesMain, WritesAuth, Text
<1>4. CASE tool = "codex"
  <2>1. ReadLive = [main |-> Text(live.main), auth |-> Json(live.auth)]
    BY <1>4 DEF ReadLive
  <2> QED
    BY <1>1, <1>2, <1>4, <2>1 DEF Config, WritesMain, WritesAuth, Text, Json
<1>5. CASE tool = "pi"
  <2>1. ReadLive = [main |-> Json(live.main), auth |-> Json(live.auth)]
    BY <1>5 DEF ReadLive
  <2> QED
    BY <1>1, <1>2, <1>5, <2>1 DEF Config, WritesMain, WritesAuth, Text, Json
<1> QED
  BY <1>3, <1>4, <1>5 DEF ProfilesTypeOK, JobRecord

LEMMA Written ==
  ASSUME NEW files \in Unread, NEW cfg \in Config
  PROVE  /\ MainWritten(files, cfg) \in Unread /\ AuthWritten(files, cfg) \in Unread
         /\ MainWritten(files, cfg).main = (IF WritesMain(cfg) THEN cfg.main ELSE files.main)
         /\ MainWritten(files, cfg).auth = files.auth
         /\ AuthWritten(files, cfg).main = files.main
         /\ AuthWritten(files, cfg).auth = (IF WritesAuth(cfg) THEN cfg.auth ELSE files.auth)
BY DEF Unread, Config, MainWritten, AuthWritten

LEMMA JobSteps ==
  ASSUME ProfilesTypeOK, NEW u \in ProfileUsers, NEW pc, Step(u, pc)
  PROVE  /\ job'[u].pc = pc /\ job'[u].id = job[u].id /\ job'[u].cfg = job[u].cfg
         /\ job'[u].old = job[u].old /\ job'[u].then = job[u].then
         /\ \A v \in ProfileUsers : v # u => job'[v] = job[v]
BY DEF Step, ProfilesTypeOK, JobRecord

LEMMA JobEnds ==
  ASSUME ProfilesTypeOK, NEW u \in ProfileUsers, End(u)
  PROVE  /\ job'[u] = NoJob /\ job'[u].pc = "idle" /\ job'[u].id = Absent /\ job'[u].then = "none"
         /\ \A v \in ProfileUsers : v # u => job'[v] = job[v]
BY DEF End, ProfilesTypeOK, JobRecord, NoJob

LEMMA JobEnters ==
  ASSUME NEW u \in ProfileUsers, NEW S, Enter(u, S)
  PROVE  /\ job[u].pc = "idle" /\ S \subseteq oddly'
         /\ \A v \in ProfileUsers : v # u => job[v].pc = "idle" \/ "crossed" \in oddly'
BY DEF Enter, Others, Working

LEMMA OddlyGrows == ProfilesNext => oddly \subseteq oddly'
BY DEF ProfilesNext, List, Seed, UpdateRow, ReadCurrent, Backfill, WriteMain, WriteAuth, ClearMarks, Mark,
  ProfileFails, UpsertProfile, CreateProfile, UpdateProfile, DeleteProfile, Switch, EditFile, StartServer, Enter
LEMMA ToolStays == ProfilesNext => tool' = tool
BY DEF ProfilesNext, List, Seed, UpdateRow, ReadCurrent, Backfill, WriteMain, WriteAuth, ClearMarks, Mark, rest,
  ProfileFails, UpsertProfile, CreateProfile, UpdateProfile, DeleteProfile, Switch, EditFile, StartServer

LEMMA ConfigUnread == Config \subseteq Unread
BY DEF Config, Unread
LEMMA NoJobTyped == NoJob \in JobRecord
BY DEF NoJob, JobRecord, Nothing, Unread

LEMMA ProfilesTyped == ProfilesTypeOK /\ JobsOK /\ ProfilesNext => ProfilesTypeOK' /\ JobsOK'
<1> SUFFICES ASSUME ProfilesTypeOK, JobsOK, ProfilesNext PROVE ProfilesTypeOK' /\ JobsOK'
  OBVIOUS
<1> DEFINE Same == UNCHANGED <<tool, live, byHand>>
<1>t. /\ tool \in {"claude", "codex", "pi"}
      /\ profile \in [Profiles -> Config \cup {Absent}] /\ marked \subseteq Rows
      /\ past \subseteq Profiles \ Rows /\ live \in Unread /\ byHand \subseteq {"main", "auth"}
      /\ job \in [ProfileUsers -> JobRecord]
      /\ tool = "claude" => live.auth = Absent /\ byHand \subseteq {"main"}
  BY DEF ProfilesTypeOK, JobRecord
<1>n. ASSUME /\ tool' = tool /\ profile' \in [Profiles -> Config \cup {Absent}] /\ marked' \subseteq Rows'
             /\ past' \subseteq Profiles \ Rows' /\ live' \in Unread /\ byHand' \subseteq {"main", "auth"}
             /\ job' \in [ProfileUsers -> JobRecord]
             /\ tool = "claude" => live'.auth = Absent /\ byHand' \subseteq {"main"}
             /\ Rows \cup past \subseteq Rows' \cup past'
      PROVE  ProfilesTypeOK'
  BY <1>t, <1>n DEF ProfilesTypeOK, JobRecord
<1>j. ASSUME NEW u \in ProfileUsers, Rows \cup past \subseteq Rows' \cup past',
             \A v \in ProfileUsers : v # u => job'[v] = job[v], JobOK(u)'
      PROVE  JobsOK'
  BY <1>j DEF JobsOK, JobOK
<1>k. ASSUME job' = job, Rows \cup past \subseteq Rows' \cup past' PROVE JobsOK'
  BY <1>k DEF JobsOK, JobOK
<1>e. ASSUME NEW u \in ProfileUsers, End(u), Rows \cup past \subseteq Rows' \cup past'
      PROVE  JobsOK' /\ job' \in [ProfileUsers -> JobRecord]
  <2>1. JobOK(u)'
    BY <1>e, JobEnds DEF JobOK
  <2>2. job' \in [ProfileUsers -> JobRecord]
    BY <1>e, <1>t, NoJobTyped DEF End
  <2> QED
    BY <2>1, <2>2, <1>e, <1>j, JobEnds
<1>s. ASSUME NEW u \in ProfileUsers,
             NEW pc \in {"idle", "seed", "update", "current", "backfill", "main", "auth", "clear", "mark"},
             Step(u, pc), Rows \cup past \subseteq Rows' \cup past',
             pc = "seed" \/ (job[u].pc \notin {"idle", "seed"} /\
               (IF pc \in {"clear", "mark"} THEN job[u].then = "clear"
                ELSE pc \in {"main", "auth"} /\ job[u].then \in {"write", "clear"}))
      PROVE  JobsOK' /\ job' \in [ProfileUsers -> JobRecord]
  <2>1. JobOK(u)'
    BY <1>s, JobSteps DEF JobsOK, JobOK
  <2>2. job' \in [ProfileUsers -> JobRecord]
    BY <1>s, <1>t DEF Step, JobRecord
  <2> QED
    BY <2>1, <2>2, <1>s, <1>j, JobSteps
<1>1. ASSUME NEW u \in ProfileUsers, List(u) PROVE ProfilesTypeOK' /\ JobsOK'
  <2>1. Step(u, "seed") /\ UNCHANGED <<profile, marked, live, tool, past, byHand>> /\ Rows' = Rows
    BY <1>1 DEF List, Rows
  <2> QED
    BY <2>1, <1>t, <1>n, <1>s
<1>2. ASSUME NEW u \in ProfileUsers, Seed(u) PROVE ProfilesTypeOK' /\ JobsOK'
  <2>1. End(u) /\ UNCHANGED <<live, tool, past, byHand>>
    BY <1>2 DEF Seed
  <2>2. CASE ReadLive = Absent \/ seeded \in Rows
    <3>1. UNCHANGED <<profile, marked>> /\ Rows' = Rows
      BY <1>2, <2>2 DEF Seed, Rows
    <3> QED
      BY <2>1, <3>1, <1>t, <1>n, <1>e
  <2>3. CASE ~(ReadLive = Absent \/ seeded \in Rows)
    <3>1. PICK p \in Profiles \ (Rows \cup past) :
            profile' = [profile EXCEPT ![p] = ReadLive] /\ marked' = marked \cup {p}
      BY <1>2, <2>3 DEF Seed
    <3>2. ReadLive \in Config
      BY <2>3, Taken
    <3>3. \A x : x \in Rows' <=> x \in Rows \/ x = p
      BY <3>1, <3>2, <1>t, TextFacts DEF Rows
    <3> QED
      BY <2>1, <3>1, <3>2, <3>3, <1>t, <1>n, <1>e
  <2> QED
    BY <2>2, <2>3
<1>3. ASSUME NEW u \in ProfileUsers, UpdateRow(u) PROVE ProfilesTypeOK' /\ JobsOK'
  <2>1. job[u].pc = "update" /\ JobOK(u) /\ UNCHANGED <<marked, live, tool, past, byHand>>
    BY <1>3 DEF UpdateRow, JobsOK, rest
  <2>2. job[u].cfg \in Config /\ job[u].then \in {"write", "stop"}
    BY <2>1 DEF JobOK
  <2>3. profile' \in [Profiles -> Config \cup {Absent}] /\ (\A x : x \in Rows' <=> x \in Rows)
    BY <1>3, <2>2, <1>t, TextFacts DEF UpdateRow, Rows
  <2>4. (job[u].then = "write" /\ Step(u, "main")) \/ End(u)
    BY <1>3 DEF UpdateRow
  <2>5. JobsOK' /\ job' \in [ProfileUsers -> JobRecord]
    BY <2>1, <2>3, <2>4, <1>s, <1>e
  <2> QED
    BY <2>1, <2>3, <2>5, <1>t, <1>n
<1>4. ASSUME NEW u \in ProfileUsers, ReadCurrent(u) PROVE ProfilesTypeOK' /\ JobsOK'
  <2>1. /\ job[u].pc = "current" /\ job[u].then = "clear" /\ UNCHANGED <<profile, marked, live, tool, past, byHand>>
        /\ Rows' = Rows /\ JobOK(u)
    BY <1>4 DEF ReadCurrent, JobsOK, JobOK, rest, Rows
  <2>2. CASE Step(u, "main")
    BY <2>1, <2>2, <1>t, <1>n, <1>s
  <2>3. ASSUME NEW c \in marked \ {job[u].id}, job' = [job EXCEPT ![u].old = c, ![u].pc = "backfill"]
        PROVE  ProfilesTypeOK' /\ JobsOK'
    <3>1. c \in Profiles
      BY <1>t, <2>3 DEF Rows
    <3>b. job[u] \in JobRecord /\ [job[u] EXCEPT !.old = c, !.pc = "backfill"] \in JobRecord
      BY <3>1, <1>t DEF JobRecord
    <3>a. job' = [job EXCEPT ![u] = [job[u] EXCEPT !.old = c, !.pc = "backfill"]]
      BY <2>3, <1>t
    <3>2. job' \in [ProfileUsers -> JobRecord] /\ (\A v \in ProfileUsers : v # u => job'[v] = job[v])
      BY <3>b, <3>a, <1>t
    <3>3. JobOK(u)'
      <4>1. /\ job'[u].pc = "backfill" /\ job'[u].old = c /\ job'[u].id = job[u].id
            /\ job'[u].cfg = job[u].cfg /\ job'[u].then = job[u].then
        BY <2>3, <1>t DEF JobRecord
      <4> QED
        BY <4>1, <2>1, <2>3, <3>1 DEF JobOK
    <3>4. JobsOK'
      BY <3>2, <3>3, <2>1, <1>j
    <3> QED
      BY <3>2, <3>4, <2>1, <1>t, <1>n
  <2> QED
    BY <1>4, <2>2, <2>3 DEF ReadCurrent
<1>5. ASSUME NEW u \in ProfileUsers, Backfill(u) PROVE ProfilesTypeOK' /\ JobsOK'
  <2>1. /\ job[u].pc = "backfill" /\ job[u].then = "clear" /\ UNCHANGED <<marked, live, tool, past, byHand>>
        /\ Step(u, "main") /\ JobOK(u)
    BY <1>5 DEF Backfill, JobsOK, JobOK, rest
  <2>2. profile' \in [Profiles -> Config \cup {Absent}] /\ (\A x : x \in Rows' <=> x \in Rows)
    <3>1. CASE job[u].old \in Rows /\ ReadLive # Absent
      <4>1. profile' = [profile EXCEPT ![job[u].old] = ReadLive] /\ ReadLive \in Config
        BY <1>5, <3>1, Taken DEF Backfill, Backfilled
      <4> QED
        BY <3>1, <4>1, <1>t, TextFacts DEF Rows
    <3>2. CASE ~(job[u].old \in Rows /\ ReadLive # Absent)
      <4>1. profile' = profile
        BY <1>5, <3>2 DEF Backfill, Backfilled
      <4> QED
        BY <4>1, <1>t DEF Rows
    <3> QED
      BY <3>1, <3>2
  <2>3. JobsOK' /\ job' \in [ProfileUsers -> JobRecord]
    BY <2>1, <2>2, <1>s
  <2> QED
    BY <2>1, <2>2, <2>3, <1>t, <1>n
<1>6. ASSUME NEW u \in ProfileUsers, WriteMain(u) PROVE ProfilesTypeOK' /\ JobsOK'
  <2>1. /\ job[u].pc = "main" /\ UNCHANGED <<profile, marked, tool, past, byHand>> /\ Rows' = Rows
        /\ Step(u, "auth") /\ JobOK(u) /\ live' = MainWritten(live, job[u].cfg)
    BY <1>6 DEF WriteMain, JobsOK, rest, Rows
  <2>2. job[u].then \in {"write", "clear"} /\ job[u].cfg \in Config
    BY <2>1 DEF JobOK
  <2>3. JobsOK' /\ job' \in [ProfileUsers -> JobRecord]
    BY <2>1, <2>2, <1>s
  <2>4. live' \in Unread /\ live'.auth = live.auth
    BY <2>1, <2>2, <1>t, Written
  <2> QED
    BY <2>1, <2>3, <2>4, <1>t, <1>n
<1>7. ASSUME NEW u \in ProfileUsers, WriteAuth(u) PROVE ProfilesTypeOK' /\ JobsOK'
  <2>1. /\ job[u].pc = "auth" /\ UNCHANGED <<profile, marked, tool, past, byHand>> /\ Rows' = Rows
        /\ JobOK(u) /\ live' = AuthWritten(live, job[u].cfg)
        /\ (job[u].then = "clear" /\ Step(u, "clear")) \/ End(u)
    BY <1>7 DEF WriteAuth, JobsOK, rest, Rows
  <2>2. job[u].cfg \in Config
    BY <2>1 DEF JobOK
  <2>3. JobsOK' /\ job' \in [ProfileUsers -> JobRecord]
    BY <2>1, <2>2, <1>s, <1>e
  <2>4. live' \in Unread /\ (tool = "claude" => live'.auth = live.auth)
    BY <2>1, <2>2, <1>t, Written DEF WritesAuth
  <2> QED
    BY <2>1, <2>3, <2>4, <1>t, <1>n
<1>8. ASSUME NEW u \in ProfileUsers, ClearMarks(u) PROVE ProfilesTypeOK' /\ JobsOK'
  <2>1. /\ job[u].pc = "clear" /\ job[u].then = "clear" /\ UNCHANGED <<profile, live, tool, past, byHand>>
        /\ Step(u, "mark") /\ Rows' = Rows /\ marked' = {}
    BY <1>8 DEF ClearMarks, JobsOK, JobOK, rest, Rows
  <2> QED
    BY <2>1, <1>t, <1>n, <1>s
<1>9. ASSUME NEW u \in ProfileUsers, Mark(u) PROVE ProfilesTypeOK' /\ JobsOK'
  <2>1. /\ UNCHANGED <<profile, live, tool, past, byHand>>
        /\ End(u) /\ Rows' = Rows /\ marked' \subseteq marked \cup Rows
    BY <1>9 DEF Mark, rest, Rows
  <2> QED
    BY <2>1, <1>t, <1>n, <1>e
<1>10. ASSUME NEW u \in ProfileUsers, ProfileFails(u) PROVE ProfilesTypeOK' /\ JobsOK'
  <2>1. /\ UNCHANGED <<profile, marked, live, tool, past, byHand>> /\ Rows' = Rows
        /\ (job[u].pc \in {"current", "backfill"} /\ Step(u, "main")) \/ End(u)
    BY <1>10 DEF ProfileFails, Rows
  <2>2. job[u].pc \in {"current", "backfill"} => job[u].then = "clear"
    BY DEF JobsOK, JobOK
  <2> QED
    BY <2>1, <2>2, <1>t, <1>n, <1>s, <1>e
<1>11. ASSUME NEW u \in ProfileUsers, NEW p \in Profiles, CreateProfile(u, p) PROVE ProfilesTypeOK' /\ JobsOK'
  <2>1. p \notin Rows /\ p \notin past /\ UNCHANGED <<marked, live, job, tool, past, byHand>>
    BY <1>11 DEF CreateProfile, Rows
  <2>2. PICK cfg \in Contents(p, 1) : profile' = [profile EXCEPT ![p] = cfg]
    BY <1>11 DEF CreateProfile
  <2>3. cfg \in Config
    BY <2>2, <1>t, Contained
  <2>4. \A x : x \in Rows' <=> x \in Rows \/ x = p
    BY <2>2, <2>3, <1>t, TextFacts DEF Rows
  <2> QED
    BY <2>1, <2>2, <2>3, <2>4, <1>t, <1>n, <1>k
<1>12. ASSUME NEW u \in ProfileUsers, NEW p \in Profiles, UpdateProfile(u, p) PROVE ProfilesTypeOK' /\ JobsOK'
  <2>1. p \in Rows /\ UNCHANGED <<profile, marked, live, tool, past, byHand>> /\ Rows' = Rows
    BY <1>12 DEF UpdateProfile, Rows
  <2>2. PICK cfg \in Contents(p, 2) :
           job' = [job EXCEPT ![u] = [pc |-> "update", id |-> p, cfg |-> cfg, old |-> Absent,
                                      then |-> IF p \in marked THEN "write" ELSE "stop"]]
    BY <1>12 DEF UpdateProfile
  <2>3. cfg \in Config
    BY <2>2, <1>t, Contained
  <2>4. job' \in [ProfileUsers -> JobRecord] /\ (\A v \in ProfileUsers : v # u => job'[v] = job[v])
    BY <2>2, <2>3, <1>t, ConfigUnread DEF JobRecord
  <2>5. JobOK(u)'
    BY <2>1, <2>2, <2>3, <1>t DEF JobOK
  <2> QED
    BY <2>1, <2>4, <2>5, <1>t, <1>n, <1>j
<1>13. ASSUME NEW u \in ProfileUsers, NEW p \in Profiles, DeleteProfile(u, p) PROVE ProfilesTypeOK' /\ JobsOK'
  <2>1. /\ p \in Rows /\ UNCHANGED <<live, job, tool, byHand>>
        /\ profile' = [profile EXCEPT ![p] = Absent] /\ past' = past \cup {p} /\ marked' = marked \ {p}
    BY <1>13 DEF DeleteProfile
  <2>2. \A x : x \in Rows' <=> x \in Rows /\ x # p
    BY <2>1, <1>t DEF Rows
  <2> QED
    BY <2>1, <2>2, <1>t, <1>n, <1>k
<1>14. ASSUME NEW u \in ProfileUsers, NEW p \in Profiles, Switch(u, p) PROVE ProfilesTypeOK' /\ JobsOK'
  <2>1. /\ p \in Rows /\ UNCHANGED <<profile, marked, live, tool, past, byHand>> /\ Rows' = Rows
        /\ job' = [job EXCEPT ![u] = [pc |-> "current", id |-> p, cfg |-> profile[p], old |-> Absent, then |-> "clear"]]
    BY <1>14 DEF Switch, Rows
  <2>3. profile[p] \in Config
    BY <2>1, <1>t DEF Rows
  <2>4. job' \in [ProfileUsers -> JobRecord] /\ (\A v \in ProfileUsers : v # u => job'[v] = job[v])
    BY <2>1, <2>3, <1>t, ConfigUnread DEF JobRecord
  <2>5. JobOK(u)'
    BY <2>1, <2>3, <1>t DEF JobOK
  <2> QED
    BY <2>1, <2>4, <2>5, <1>t, <1>n, <1>j
<1>15. ASSUME EditFile PROVE ProfilesTypeOK' /\ JobsOK'
  <2>1. UNCHANGED <<tool, profile, past, marked, job>> /\ Rows' = Rows
    BY <1>15 DEF EditFile, Rows
  <2>2. PICK c \in {Hand, Broken}, f \in {"main"} \cup (IF tool = "claude" THEN {} ELSE {"auth"}) :
          /\ live' = [live EXCEPT ![f] = c]
          /\ byHand' = IF c = Hand THEN byHand \cup {f} ELSE byHand \ {f}
    BY <1>15 DEF EditFile
  <2>3. /\ live' \in Unread /\ byHand' \subseteq {"main", "auth"}
        /\ tool = "claude" => live'.auth = live.auth /\ byHand' \subseteq {"main"}
    BY <2>2, <1>t, TextFacts DEF Unread
  <2> QED
    BY <2>1, <2>3, <1>t, <1>n, <1>k
<1>16. ASSUME NEW home \in {live, Nothing}, StartServer(home) PROVE ProfilesTypeOK' /\ JobsOK'
  <2>1. UNCHANGED <<tool, profile, past, marked, byHand>> /\ Rows' = Rows /\ job' = [u \in ProfileUsers |-> NoJob]
    BY <1>16 DEF StartServer, Rows
  <2>2. home \in Unread /\ (tool = "claude" => home.auth = Absent)
    BY <1>t DEF Nothing, Unread
  <2>3. live' = home \/ (\E c \in marked : live' = AuthWritten(MainWritten(home, profile[c]), profile[c]))
    BY <1>16 DEF StartServer
  <2>4. live' \in Unread /\ (tool = "claude" => live'.auth = Absent)
    <3>1. ASSUME NEW c \in marked, live' = AuthWritten(MainWritten(home, profile[c]), profile[c])
          PROVE  live' \in Unread /\ (tool = "claude" => live'.auth = Absent)
      <4>1. profile[c] \in Config
        BY <1>t, <3>1 DEF Rows
      <4>2. MainWritten(home, profile[c]) \in Unread /\ MainWritten(home, profile[c]).auth = home.auth
        BY <4>1, <2>2, Written
      <4> QED
        BY <3>1, <4>1, <4>2, <2>2, Written DEF WritesAuth
    <3> QED
      BY <2>2, <2>3, <3>1
  <2>5. job' \in [ProfileUsers -> JobRecord] /\ JobsOK'
    BY <2>1, NoJobTyped DEF JobsOK, JobOK, NoJob
  <2> QED
    BY <2>1, <2>4, <2>5, <1>t, <1>n
<1> QED
  BY <1>1, <1>2, <1>3, <1>4, <1>5, <1>6, <1>7, <1>8, <1>9, <1>10, <1>11, <1>12, <1>13, <1>14, <1>15, <1>16
  DEF ProfilesNext, UpsertProfile

\* Only Seed and Mark mark a row, only ClearMarks lets a request go on to mark one.
LEMMA MarkKept == ProfilesTypeOK /\ JobsOK /\ MarkOK /\ ProfilesTypeOK' /\ ProfilesNext => MarkOK'
<1> SUFFICES ASSUME ProfilesTypeOK, JobsOK, MarkOK, ProfilesTypeOK', ProfilesNext,
                    ~Excused({"marking", "seeded"})'
             PROVE  /\ \A p, q \in marked' : p = q
                    /\ \A u \in ProfileUsers : job'[u].pc = "mark" => marked' = {} \/ job'[u].id \in past'
                    /\ \A u, v \in ProfileUsers : job'[u].pc = "mark" /\ job'[v].pc = "mark" => u = v
  BY DEF MarkOK
<1> DEFINE Goal == /\ \A p, q \in marked' : p = q
                   /\ \A u \in ProfileUsers : job'[u].pc = "mark" => marked' = {} \/ job'[u].id \in past'
                   /\ \A u, v \in ProfileUsers : job'[u].pc = "mark" /\ job'[v].pc = "mark" => u = v
<1>o. "marking" \notin oddly' /\ "seeded" \notin oddly' /\ ~Excused({"marking", "seeded"})
  BY OddlyGrows DEF Excused
<1>m. /\ \A p, q \in marked : p = q
      /\ \A u \in ProfileUsers : job[u].pc = "mark" => marked = {} \/ job[u].id \in past
      /\ \A u, v \in ProfileUsers : job[u].pc = "mark" /\ job[v].pc = "mark" => u = v
  BY <1>o DEF MarkOK
\* No row gets the mark and no request gets near to it.
<1>n. ASSUME marked' \subseteq marked, past \subseteq past',
             \A u \in ProfileUsers : job'[u].pc = "mark" => job'[u] = job[u]
      PROVE  Goal
  BY <1>m, <1>n
<1>e. ASSUME NEW u \in ProfileUsers, End(u), marked' \subseteq marked, past \subseteq past' PROVE Goal
  <2>1. job'[u].pc = "idle" /\ \A v \in ProfileUsers : v # u => job'[v] = job[v]
    BY <1>e, JobEnds
  <2> QED
    BY <2>1, <1>e, <1>n
<1>s. ASSUME NEW u \in ProfileUsers, NEW pc, pc # "mark", Step(u, pc), marked' \subseteq marked, past \subseteq past' PROVE Goal
  <2>1. job'[u].pc = pc /\ \A v \in ProfileUsers : v # u => job'[v] = job[v]
    BY <1>s, JobSteps
  <2> QED
    BY <2>1, <1>s, <1>n
<1> HIDE DEF Goal
<1>1. ASSUME NEW u \in ProfileUsers, List(u) PROVE Goal
  BY <1>1, <1>s DEF List
<1>2. ASSUME NEW u \in ProfileUsers, Seed(u) PROVE Goal
  <2>1. End(u) /\ past' = past
    BY <1>2 DEF Seed
  <2>2. CASE ReadLive = Absent \/ seeded \in Rows
    BY <1>2, <2>1, <2>2, <1>e DEF Seed
  <2>3. CASE ~(ReadLive = Absent \/ seeded \in Rows)
    <3>1. PICK p \in Profiles \ (Rows \cup past) :
            marked' = marked \cup {p} /\ oddly' = oddly \cup (IF Rows # {} THEN {"seeded"} ELSE {})
      BY <1>2, <2>3 DEF Seed
    <3>2. Rows = {} /\ marked' = {p}
      BY <3>1, <1>o DEF ProfilesTypeOK, JobRecord
    <3>3. job'[u].pc = "idle" /\ \A v \in ProfileUsers : v # u => job'[v] = job[v]
      BY <2>1, JobEnds
    <3>4. \A v \in ProfileUsers : job[v].pc = "mark" => job[v].id \in past
      BY <3>2 DEF JobsOK, JobOK
    <3> QED
      BY <2>1, <3>2, <3>3, <3>4, <1>m DEF Goal
  <2> QED
    BY <2>2, <2>3
<1>3. ASSUME NEW u \in ProfileUsers, UpdateRow(u) PROVE Goal
  BY <1>3, <1>s, <1>e DEF UpdateRow, rest
<1>4. ASSUME NEW u \in ProfileUsers, ReadCurrent(u) PROVE Goal
  <2>1. UNCHANGED <<marked, past>>
    BY <1>4 DEF ReadCurrent, rest
  <2>2. ASSUME NEW c, job' = [job EXCEPT ![u].old = c, ![u].pc = "backfill"] PROVE Goal
    <3>1. job'[u].pc = "backfill" /\ \A v \in ProfileUsers : v # u => job'[v] = job[v]
      BY <2>2 DEF ProfilesTypeOK, JobRecord
    <3> QED
      BY <3>1, <2>1, <1>n
  <2> QED
    BY <2>1, <2>2, <1>4, <1>s DEF ReadCurrent
<1>5. ASSUME NEW u \in ProfileUsers, Backfill(u) PROVE Goal
  BY <1>5, <1>s DEF Backfill, rest
<1>6. ASSUME NEW u \in ProfileUsers, WriteMain(u) PROVE Goal
  BY <1>6, <1>s DEF WriteMain, rest
<1>7. ASSUME NEW u \in ProfileUsers, WriteAuth(u) PROVE Goal
  BY <1>7, <1>s, <1>e DEF WriteAuth, rest
<1>8. ASSUME NEW u \in ProfileUsers, ClearMarks(u) PROVE Goal
  <2>1. /\ Step(u, "mark") /\ marked' = {} /\ job[u].pc = "clear"
        /\ \A x \in Others(u) : job[x].pc # "mark"
    BY <1>8, <1>o DEF ClearMarks
  <2>2. \A v \in ProfileUsers : v # u => job'[v] = job[v] /\ job[v].pc # "mark"
    BY <2>1, JobSteps DEF Others, Working
  <2> QED
    BY <2>1, <2>2 DEF Goal
<1>9. ASSUME NEW u \in ProfileUsers, Mark(u) PROVE Goal
  <2>1. End(u) /\ marked' = marked \cup ({job[u].id} \cap Rows) /\ past' = past /\ job[u].pc = "mark"
    BY <1>9 DEF Mark, rest
  <2>2. \A p, q \in marked' : p = q
    BY <2>1, <1>m DEF ProfilesTypeOK, JobRecord
  <2>3. \A v \in ProfileUsers : job'[v].pc # "mark"
    BY <2>1, <1>m, JobEnds
  <2> QED
    BY <2>2, <2>3 DEF Goal
<1>10. ASSUME NEW u \in ProfileUsers, ProfileFails(u) PROVE Goal
  BY <1>10, <1>s, <1>e DEF ProfileFails
<1>11. ASSUME NEW u \in ProfileUsers, NEW p \in Profiles, CreateProfile(u, p) PROVE Goal
  BY <1>11, <1>n DEF CreateProfile
<1>12. ASSUME NEW u \in ProfileUsers, NEW p \in Profiles, UpdateProfile(u, p) PROVE Goal
  <2>1. job'[u].pc = "update" /\ \A v \in ProfileUsers : v # u => job'[v] = job[v]
    BY <1>12 DEF UpdateProfile, ProfilesTypeOK, JobRecord
  <2> QED
    BY <2>1, <1>12, <1>n DEF UpdateProfile
<1>13. ASSUME NEW u \in ProfileUsers, NEW p \in Profiles, DeleteProfile(u, p) PROVE Goal
  BY <1>13, <1>n DEF DeleteProfile
<1>14. ASSUME NEW u \in ProfileUsers, NEW p \in Profiles, Switch(u, p) PROVE Goal
  <2>1. job'[u].pc = "current" /\ \A v \in ProfileUsers : v # u => job'[v] = job[v]
    BY <1>14 DEF Switch, ProfilesTypeOK, JobRecord
  <2> QED
    BY <2>1, <1>14, <1>n DEF Switch
<1>15. ASSUME EditFile PROVE Goal
  BY <1>15, <1>n DEF EditFile
<1>16. ASSUME NEW home, StartServer(home) PROVE Goal
  BY <1>16, <1>n DEF StartServer, NoJob
<1> QED
  BY <1>1, <1>2, <1>3, <1>4, <1>5, <1>6, <1>7, <1>8, <1>9, <1>10, <1>11, <1>12, <1>13, <1>14, <1>15, <1>16
  DEF ProfilesNext, UpsertProfile, Goal

\* Requests that come one after the other and succeed: the files follow the mark.
LEMMA InTurnKept ==
  ProfilesTypeOK /\ JobsOK /\ MarkOK /\ InTurnOK /\ ProfilesTypeOK' /\ MarkOK' /\ ProfilesNext => InTurnOK'
<1> DEFINE AllIn == \A p \in marked : InFiles(p)
           Goal == /\ ~Excused({"marking", "seeded"})'
                   /\ \A u, v \in ProfileUsers : Working(u)' /\ Working(v)' => u = v
                   /\ \A u \in ProfileUsers : Working(u)' => AloneOK(u)'
                   /\ (\A u \in ProfileUsers : ~Switching(u)' /\ ~Updating(u)') => AllIn'
<1> SUFFICES ASSUME ProfilesTypeOK, JobsOK, MarkOK, InTurnOK, ProfilesTypeOK', MarkOK', ProfilesNext, InTurn'
             PROVE  Goal
  BY DEF InTurnOK
<1>o. /\ "crossed" \notin oddly' /\ "failed" \notin oddly' /\ "stopped" \notin oddly'
      /\ oddly \subseteq oddly' /\ InTurn
  BY OddlyGrows DEF InTurn, Excused
<1>c. /\ "marking" \notin oddly /\ "seeded" \notin oddly
      /\ \A u, v \in ProfileUsers : Working(u) /\ Working(v) => u = v
      /\ \A u \in ProfileUsers : Working(u) => AloneOK(u)
      /\ (\A u \in ProfileUsers : ~Switching(u) /\ ~Updating(u)) => AllIn
  BY <1>o DEF InTurnOK, Excused
<1>m. /\ \A p, q \in marked : p = q
      /\ \A u \in ProfileUsers : job[u].pc = "mark" => marked = {} \/ job[u].id \in past
  BY <1>c DEF MarkOK, Excused
<1>t. /\ tool' = tool /\ live \in Unread /\ profile \in [Profiles -> Config \cup {Absent}]
      /\ marked \subseteq Rows /\ Rows \subseteq Profiles /\ past \cap Rows = {}
      /\ \A p \in Rows : profile[p] \in Config
  BY ToolStays DEF ProfilesTypeOK, JobRecord, Rows
<1>w. \A cfg : (WritesMain(cfg)' <=> WritesMain(cfg)) /\ (WritesAuth(cfg)' <=> WritesAuth(cfg))
  BY <1>t DEF WritesMain, WritesAuth
<1>g. ASSUME NEW u \in ProfileUsers, oddly' \cap {"marking", "seeded"} = {}, \A v \in ProfileUsers : v # u => job'[v].pc = "idle",
             Working(u)' => AloneOK(u)', ~Switching(u)' /\ ~Updating(u)' => AllIn'
      PROVE  Goal
  BY <1>g DEF Working, Excused
\* A request enters: nobody else works on the profiles.
<1>f. ASSUME NEW u \in ProfileUsers, NEW S, Enter(u, S)
      PROVE  /\ \A v \in ProfileUsers : job[v].pc = "idle"
             /\ AllIn /\ oddly' = oddly \cup S
  <2>1. \A v \in ProfileUsers : job[v].pc = "idle"
    BY <1>f, <1>o, JobEnters
  <2> QED
    BY <2>1, <1>f, <1>c, <1>o DEF Switching, Updating, Enter, Others, Working
\* A request goes on: nobody else works on them either.
<1>h. ASSUME NEW u \in ProfileUsers, Working(u)
      PROVE  AloneOK(u) /\ \A v \in ProfileUsers : v # u => job[v].pc = "idle"
  BY <1>h, <1>c DEF Working
<1> HIDE DEF Goal
<1>1. ASSUME NEW u \in ProfileUsers, List(u) PROVE Goal
  <2>1. /\ Rows = {} /\ Step(u, "seed") /\ Enter(u, {}) /\ UNCHANGED <<profile, marked, live>>
    BY <1>1 DEF List
  <2>0. oddly' = oddly /\ \A v \in ProfileUsers : job[v].pc = "idle"
    BY <2>1, <1>f
  <2>2. /\ \A v \in ProfileUsers : v # u => job'[v].pc = "idle"
        /\ job'[u].pc = "seed"
    BY <2>0, <2>1, JobSteps
  <2>4. Rows' = {} /\ marked' = {}
    BY <2>1, <1>t DEF Rows
  <2>3. AloneOK(u)' /\ AllIn'
    BY <2>2, <2>4 DEF AloneOK, Updating, Switching, Switched
  <2> QED
    BY <2>0, <2>2, <2>3, <1>c, <1>g
<1>2. ASSUME NEW u \in ProfileUsers, Seed(u) PROVE Goal
  <2>1. End(u) /\ live' = live /\ job[u].pc = "seed"
    BY <1>2 DEF Seed
  <2>2. /\ \A v \in ProfileUsers : job'[v].pc = "idle"
        /\ Rows = {} /\ marked = {} /\ ~Working(u)'
    BY <2>1, <1>h, <1>t, JobEnds DEF Working, AloneOK
  <2>3. CASE ReadLive = Absent \/ seeded \in Rows
    <3>1. marked' = marked /\ oddly' = oddly
      BY <1>2, <2>3 DEF Seed
    <3> QED
      BY <3>1, <2>2, <1>c, <1>g
  <2>4. CASE ~(ReadLive = Absent \/ seeded \in Rows)
    <3>1. PICK p \in Profiles \ (Rows \cup past) :
            profile' = [profile EXCEPT ![p] = ReadLive] /\ marked' = {p} /\ oddly' = oddly
      BY <1>2, <2>2, <2>4 DEF Seed
    <3>2. profile'[p] = ReadLive
      BY <3>1, <1>t
    <3>3. InFiles(p)'
      BY <3>2, <2>1, <2>4, <1>w, Taken DEF InFiles, Text
    <3> QED
      BY <3>1, <3>3, <2>2, <1>c, <1>g
  <2> QED
    BY <2>3, <2>4
<1>3. ASSUME NEW u \in ProfileUsers, UpdateRow(u) PROVE Goal
  <2>1. /\ job[u].pc = "update" /\ Working(u) /\ UNCHANGED <<marked, live, oddly>>
        /\ profile' = IF job[u].id \in Rows THEN [profile EXCEPT ![job[u].id] = job[u].cfg] ELSE profile
    BY <1>3 DEF UpdateRow, Working
  <2>2. /\ AloneOK(u) /\ \A v \in ProfileUsers : v # u => job[v].pc = "idle"
    BY <2>1, <1>h
  <2>3. /\ job[u].id \in Rows /\ (job[u].then = "write" <=> job[u].id \in marked) /\ job[u].cfg \in Config
    BY <2>1, <2>2 DEF AloneOK, JobsOK, JobOK
  <2>4. /\ profile'[job[u].id] = job[u].cfg /\ job[u].id \in Rows'
        /\ \A p \in Profiles \ {job[u].id} : profile'[p] = profile[p]
    BY <2>1, <2>3, <1>t, TextFacts DEF Rows
  <2>5. CASE job[u].then = "write"
    <3>1. Step(u, "main")
      BY <1>3, <2>5 DEF UpdateRow
    <3>2. /\ job'[u].pc = "main" /\ job'[u].then = "write" /\ job'[u].cfg = job[u].cfg /\ job'[u].id = job[u].id
          /\ \A v \in ProfileUsers : v # u => job'[v].pc = "idle"
      BY <3>1, <2>2, <2>5, JobSteps
    <3>3. AloneOK(u)' /\ Updating(u)'
      BY <3>2, <2>1, <2>3, <2>4, <2>5 DEF AloneOK, Updating, Switching, Switched
    <3> QED
      BY <3>2, <3>3, <2>1, <1>c, <1>g
  <2>6. CASE job[u].then # "write"
    <3>1. End(u)
      BY <1>3, <2>6 DEF UpdateRow
    <3>2. \A v \in ProfileUsers : job'[v].pc = "idle"
      BY <3>1, <2>2, JobEnds
    <3>3. AllIn
      BY <2>1, <2>2, <1>c DEF Switching, Updating
    <3>4. AllIn'
      BY <3>3, <2>1, <2>3, <2>4, <2>6, <1>t, <1>w DEF InFiles, Text
    <3> QED
      BY <3>2, <3>4, <2>1, <1>c, <1>g DEF Working
  <2> QED
    BY <2>5, <2>6
<1>4. ASSUME NEW u \in ProfileUsers, ReadCurrent(u) PROVE Goal
  <2>1. /\ job[u].pc = "current" /\ Working(u) /\ UNCHANGED <<profile, marked, live>>
        /\ oddly' \subseteq oddly \cup {"unmarked", "again"} /\ Rows' = Rows
    BY <1>4 DEF ReadCurrent, Working, Rows
  <2>2. /\ AloneOK(u) /\ \A v \in ProfileUsers : v # u => job[v].pc = "idle"
    BY <2>1, <1>h
  <2>3. job[u].id \in Rows /\ job[u].cfg = profile[job[u].id] /\ job[u].then = "clear"
    BY <2>1, <2>2 DEF AloneOK, JobsOK, JobOK
  <2>4. AllIn'
    <3>1. AllIn
      BY <2>1, <2>2, <1>c DEF Switching, Updating
    <3> QED
      BY <3>1, <2>1, <1>w DEF InFiles, Text
  <2>5. ASSUME NEW c \in marked \ {job[u].id}, job' = [job EXCEPT ![u].old = c, ![u].pc = "backfill"] PROVE Goal
    <3>1. /\ job'[u].pc = "backfill" /\ job'[u].old = c /\ job'[u].id = job[u].id /\ job'[u].cfg = job[u].cfg
          /\ \A v \in ProfileUsers : v # u => job'[v].pc = "idle"
      BY <2>5, <2>2 DEF ProfilesTypeOK, JobRecord
    <3>2. AloneOK(u)'
      BY <3>1, <2>1, <2>3, <2>5 DEF AloneOK, Updating, Switching, Switched
    <3> QED
      BY <3>1, <3>2, <2>1, <2>4, <1>c, <1>g
  <2>6. CASE Step(u, "main")
    <3>1. /\ job'[u].pc = "main" /\ job'[u].then = "clear" /\ job'[u].id = job[u].id /\ job'[u].cfg = job[u].cfg
          /\ \A v \in ProfileUsers : v # u => job'[v].pc = "idle"
      BY <2>6, <2>2, <2>3, JobSteps
    <3>2. AloneOK(u)'
      BY <3>1, <2>1, <2>3 DEF AloneOK, Updating, Switching, Switched
    <3> QED
      BY <3>1, <3>2, <2>1, <2>4, <1>c, <1>g
  <2> QED
    BY <2>5, <2>6, <1>4 DEF ReadCurrent
<1>5. ASSUME NEW u \in ProfileUsers, Backfill(u) PROVE Goal
  <2>1. /\ job[u].pc = "backfill" /\ Working(u) /\ UNCHANGED <<marked, live, oddly>> /\ Step(u, "main")
    BY <1>5 DEF Backfill, Working
  <2>2. /\ AloneOK(u) /\ \A v \in ProfileUsers : v # u => job[v].pc = "idle"
    BY <2>1, <1>h
  <2>3. /\ job[u].id \in Rows /\ job[u].cfg = profile[job[u].id] /\ job[u].then = "clear" /\ job[u].old # job[u].id
        /\ job[u].cfg \in Config
    BY <2>1, <2>2 DEF AloneOK, JobsOK, JobOK
  <2>4. profile'[job[u].id] = profile[job[u].id] /\ job[u].id \in Rows'
    BY <1>5, <2>3, <1>t, TextFacts DEF Backfill, Backfilled, Rows
  <2>5. /\ job'[u].pc = "main" /\ job'[u].then = "clear" /\ job'[u].id = job[u].id /\ job'[u].cfg = job[u].cfg
        /\ \A v \in ProfileUsers : v # u => job'[v].pc = "idle"
    BY <2>1, <2>2, <2>3, JobSteps
  <2>6. AloneOK(u)' /\ Switching(u)'
    BY <2>5, <2>3, <2>4 DEF AloneOK, Updating, Switching, Switched
  <2> QED
    BY <2>5, <2>6, <2>1, <1>c, <1>g
<1>6. ASSUME NEW u \in ProfileUsers, WriteMain(u) PROVE Goal
  <2>1. /\ job[u].pc = "main" /\ Working(u) /\ UNCHANGED <<profile, marked, oddly>> /\ Step(u, "auth")
        /\ live' = MainWritten(live, job[u].cfg) /\ Rows' = Rows
    BY <1>6 DEF WriteMain, Working, Rows
  <2>2. /\ AloneOK(u) /\ \A v \in ProfileUsers : v # u => job[v].pc = "idle"
    BY <2>1, <1>h
  <2>3. job[u].id \in Rows /\ job[u].then \in {"write", "clear"} /\ job[u].cfg \in Config
    BY <2>1, <2>2 DEF AloneOK, JobsOK, JobOK
  <2>4. /\ job'[u].pc = "auth" /\ job'[u].then = job[u].then /\ job'[u].id = job[u].id /\ job'[u].cfg = job[u].cfg
        /\ \A v \in ProfileUsers : v # u => job'[v].pc = "idle"
    BY <2>1, <2>2, <2>3, JobSteps
  <2>5. WritesMain(job[u].cfg) => live'.main = job[u].cfg.main
    BY <2>1, <2>3, <1>t, Written
  <2>6. AloneOK(u)' /\ (Switching(u)' \/ Updating(u)')
    BY <2>1, <2>2, <2>3, <2>4, <2>5, <1>w DEF AloneOK, Updating, Switching, Switched
  <2> QED
    BY <2>4, <2>6, <2>1, <1>c, <1>g
<1>7. ASSUME NEW u \in ProfileUsers, WriteAuth(u) PROVE Goal
  <2>1. /\ job[u].pc = "auth" /\ Working(u) /\ UNCHANGED <<profile, marked, oddly>>
        /\ live' = AuthWritten(live, job[u].cfg) /\ Rows' = Rows
    BY <1>7 DEF WriteAuth, Working, Rows
  <2>2. /\ AloneOK(u) /\ \A v \in ProfileUsers : v # u => job[v].pc = "idle"
    BY <2>1, <1>h
  <2>3. /\ job[u].id \in Rows /\ job[u].then \in {"write", "clear"} /\ job[u].cfg \in Config
        /\ job[u].cfg = profile[job[u].id] /\ (WritesMain(job[u].cfg) => live.main = job[u].cfg.main)
        /\ (job[u].then = "write" => job[u].id \in marked)
    BY <2>1, <2>2 DEF AloneOK, JobsOK, JobOK, Switched, Switching, Updating
  <2>4. /\ WritesMain(job[u].cfg) => live'.main = job[u].cfg.main
        /\ WritesAuth(job[u].cfg) => live'.auth = job[u].cfg.auth
    BY <2>1, <2>3, <1>t, Written
  <2>5. CASE job[u].then = "clear"
    <3>1. Step(u, "clear")
      BY <1>7, <2>5 DEF WriteAuth
    <3>2. /\ job'[u].pc = "clear" /\ job'[u].then = "clear" /\ job'[u].id = job[u].id /\ job'[u].cfg = job[u].cfg
          /\ \A v \in ProfileUsers : v # u => job'[v].pc = "idle"
      BY <3>1, <2>2, <2>5, JobSteps
    <3>3. AloneOK(u)' /\ Switching(u)'
      BY <3>2, <2>1, <2>3, <2>4, <1>w DEF AloneOK, Updating, Switching, Switched
    <3> QED
      BY <3>2, <3>3, <2>1, <1>c, <1>g
  <2>6. CASE job[u].then = "write"
    <3>1. End(u)
      BY <1>7, <2>6 DEF WriteAuth
    <3>2. \A v \in ProfileUsers : job'[v].pc = "idle"
      BY <3>1, <2>2, JobEnds
    <3>3. PICK c \in Rows : c = job[u].id
      BY <2>3
    <3>4. marked' = {c} /\ job[u].cfg.main # Absent
      BY <2>1, <2>3, <2>6, <3>3, <1>m, TextFacts DEF Config
    <3>5. InFiles(c)'
      BY <2>1, <2>3, <2>4, <3>3, <3>4, <1>w DEF InFiles, Text
    <3> QED
      BY <3>2, <3>4, <3>5, <2>1, <1>c, <1>g DEF Working
  <2> QED
    BY <2>3, <2>5, <2>6
<1>8. ASSUME NEW u \in ProfileUsers, ClearMarks(u) PROVE Goal
  <2>1. /\ job[u].pc = "clear" /\ Working(u) /\ UNCHANGED <<profile, live>> /\ Step(u, "mark")
        /\ marked' = {} /\ Rows' = Rows
    BY <1>8 DEF ClearMarks, Working, Rows
  <2>2. /\ AloneOK(u) /\ \A v \in ProfileUsers : v # u => job[v].pc = "idle"
    BY <2>1, <1>h
  <2>3. oddly' = oddly
    BY <1>8, <2>2 DEF ClearMarks, Others, Working
  <2>4. /\ job[u].id \in Rows /\ job[u].then = "clear" /\ job[u].cfg = profile[job[u].id]
        /\ (WritesMain(job[u].cfg) => live.main = job[u].cfg.main)
        /\ (WritesAuth(job[u].cfg) => live.auth = job[u].cfg.auth)
    BY <2>1, <2>2 DEF AloneOK, JobsOK, JobOK, Switched, Switching, Updating
  <2>5. /\ job'[u].pc = "mark" /\ job'[u].then = "clear" /\ job'[u].id = job[u].id /\ job'[u].cfg = job[u].cfg
        /\ \A v \in ProfileUsers : v # u => job'[v].pc = "idle"
    BY <2>1, <2>2, <2>4, JobSteps
  <2>6. AloneOK(u)' /\ AllIn'
    BY <2>1, <2>4, <2>5, <1>w DEF AloneOK, Updating, Switching, Switched
  <2> QED
    BY <2>3, <2>5, <2>6, <1>c, <1>g
<1>9. ASSUME NEW u \in ProfileUsers, Mark(u) PROVE Goal
  <2>1. /\ job[u].pc = "mark" /\ Working(u) /\ UNCHANGED <<profile, live, oddly>> /\ End(u)
        /\ marked' = marked \cup ({job[u].id} \cap Rows)
    BY <1>9 DEF Mark, Working, rest
  <2>2. /\ AloneOK(u) /\ \A v \in ProfileUsers : v # u => job[v].pc = "idle"
    BY <2>1, <1>h
  <2>3. /\ job[u].id \in Rows /\ job[u].then = "clear" /\ job[u].cfg = profile[job[u].id]
        /\ (WritesMain(job[u].cfg) => live.main = job[u].cfg.main)
        /\ (WritesAuth(job[u].cfg) => live.auth = job[u].cfg.auth)
    BY <2>1, <2>2 DEF AloneOK, JobsOK, JobOK, Switched, Switching, Updating
  <2>4. \A v \in ProfileUsers : job'[v].pc = "idle"
    BY <2>1, <2>2, JobEnds
  <2>5. PICK c \in Rows : c = job[u].id
    BY <2>3
  <2>6. marked' = {c} /\ profile[c].main # Absent
    BY <2>1, <2>3, <2>5, <1>m, <1>t, TextFacts DEF Config
  <2>7. InFiles(c)'
    BY <2>1, <2>3, <2>5, <2>6, <1>w DEF InFiles, Text
  <2> QED
    BY <2>1, <2>4, <2>6, <2>7, <1>c, <1>g DEF Working
<1>10. ASSUME NEW u \in ProfileUsers, ProfileFails(u) PROVE Goal
  BY <1>10, <1>o DEF ProfileFails
<1>11. ASSUME NEW u \in ProfileUsers, NEW p \in Profiles, CreateProfile(u, p) PROVE Goal
  <2>1. p \notin Rows /\ Enter(u, {}) /\ UNCHANGED <<marked, live, job>> /\ \E cfg : profile' = [profile EXCEPT ![p] = cfg]
    BY <1>11 DEF CreateProfile, Rows
  <2>2. AllIn /\ oddly' = oddly /\ \A v \in ProfileUsers : job'[v].pc = "idle"
    BY <2>1, <1>f
  <2>3. AllIn'
    BY <2>1, <2>2, <1>t, <1>w DEF InFiles, Text
  <2> QED
    BY <2>2, <2>3, <1>c, <1>g DEF Working
<1>12. ASSUME NEW u \in ProfileUsers, NEW p \in Profiles, UpdateProfile(u, p) PROVE Goal
  <2>1. p \in Rows /\ Enter(u, {"updated"}) /\ UNCHANGED <<profile, marked, live>> /\ Rows' = Rows
    BY <1>12 DEF UpdateProfile, Rows
  <2>2. AllIn /\ oddly' = oddly \cup {"updated"} /\ \A v \in ProfileUsers : job[v].pc = "idle"
    BY <2>1, <1>f
  <2>3. /\ job'[u].pc = "update" /\ job'[u].id = p /\ (job'[u].then = "write" <=> p \in marked)
        /\ \A v \in ProfileUsers : v # u => job'[v].pc = "idle"
    BY <1>12, <2>2 DEF UpdateProfile, ProfilesTypeOK, JobRecord
  <2>4. AloneOK(u)'
    BY <2>1, <2>3 DEF AloneOK, Updating, Switching, Switched
  <2>5. AllIn'
    BY <2>1, <2>2, <1>w DEF InFiles, Text
  <2> QED
    BY <2>2, <2>3, <2>4, <2>5, <1>c, <1>g
<1>13. ASSUME NEW u \in ProfileUsers, NEW p \in Profiles, DeleteProfile(u, p) PROVE Goal
  <2>1. /\ Enter(u, {"deleted"}) /\ UNCHANGED <<live, job>> /\ profile' = [profile EXCEPT ![p] = Absent] /\ marked' = marked \ {p}
    BY <1>13 DEF DeleteProfile
  <2>2. AllIn /\ oddly' = oddly \cup {"deleted"} /\ \A v \in ProfileUsers : job'[v].pc = "idle"
    BY <2>1, <1>f
  <2>3. AllIn'
    BY <2>1, <2>2, <1>t, <1>w DEF InFiles, Text
  <2> QED
    BY <2>2, <2>3, <1>c, <1>g DEF Working
<1>14. ASSUME NEW u \in ProfileUsers, NEW p \in Profiles, Switch(u, p) PROVE Goal
  <2>1. PICK S \in {{}, {"left alone"}} :
          p \in Rows /\ Enter(u, S) /\ UNCHANGED <<profile, marked, live>> /\ Rows' = Rows
    BY <1>14 DEF Switch, Rows
  <2>2. AllIn /\ oddly' = oddly \cup S /\ \A v \in ProfileUsers : job[v].pc = "idle"
    BY <2>1, <1>f
  <2>3. /\ job'[u].pc = "current" /\ job'[u].id = p /\ job'[u].then = "clear" /\ job'[u].cfg = profile[p]
        /\ \A v \in ProfileUsers : v # u => job'[v].pc = "idle"
    BY <1>14, <2>2 DEF Switch, ProfilesTypeOK, JobRecord
  <2>4. AloneOK(u)'
    BY <2>1, <2>3 DEF AloneOK, Updating, Switching, Switched
  <2>5. AllIn'
    BY <2>1, <2>2, <1>w DEF InFiles, Text
  <2> QED
    BY <2>2, <2>3, <2>4, <2>5, <1>c, <1>g
<1>15. ASSUME EditFile PROVE Goal
  <2>1. UNCHANGED <<profile, marked, job>> /\ oddly' = oddly /\ \A v \in ProfileUsers : job[v].pc = "idle"
    BY <1>15, <1>o DEF EditFile, Working
  <2>2. PICK c \in {Hand, Broken}, f \in {"main", "auth"} : live' = [live EXCEPT ![f] = c]
    BY <1>15 DEF EditFile
  <2>3. /\ live'.main \in {live.main, Hand, Broken} /\ live'.auth \in {live.auth, Hand, Broken}
    BY <2>2, <1>t DEF Unread
  <2>4. AllIn
    BY <2>1, <1>c DEF Switching, Updating
  <2>5. AllIn'
    BY <2>1, <2>3, <2>4, <1>w, TextFacts DEF InFiles, Text
  <2> QED
    BY <2>1, <2>5, <1>c DEF Goal, Excused, Working
<1>16. ASSUME NEW home \in {live, Nothing}, StartServer(home) PROVE Goal
  <2>1. /\ UNCHANGED <<profile, marked>> /\ oddly' \subseteq oddly \cup {"stopped", "homeless"}
        /\ \A v \in ProfileUsers : job'[v].pc = "idle" /\ job[v].pc = "idle"
    BY <1>16, <1>o DEF StartServer, Working, NoJob
  <2>2. AllIn
    BY <2>1, <1>c DEF Switching, Updating
  <2>3. home \in Unread /\ (home = live \/ ~LiveExists(home))
    BY <1>t, TextFacts DEF Nothing, Unread, LiveExists
  <2>4. AllIn'
    <3>1. CASE LiveExists(home) \/ marked = {}
      <4>1. live' = home /\ (marked = {} \/ home = live)
        BY <1>16, <3>1, <2>3 DEF StartServer
      <4> QED
        BY <4>1, <2>1, <2>2, <1>w DEF InFiles, Text
    <3>2. CASE ~(LiveExists(home) \/ marked = {})
      <4>1. PICK c \in marked : live' = AuthWritten(MainWritten(home, profile[c]), profile[c])
        BY <1>16, <3>2 DEF StartServer
      <4>2. profile[c] \in Config /\ marked' = {c} /\ profile[c].main # Absent
        BY <2>1, <1>m, <1>t, TextFacts DEF Config
      <4>3. MainWritten(home, profile[c]) \in Unread
            /\ (WritesMain(profile[c]) => MainWritten(home, profile[c]).main = profile[c].main)
        BY <2>3, <4>2, Written
      <4>4. /\ WritesMain(profile[c]) => live'.main = profile[c].main
            /\ WritesAuth(profile[c]) => live'.auth = profile[c].auth
        BY <4>1, <4>2, <4>3, Written
      <4>5. InFiles(c)'
        BY <2>1, <4>2, <4>4, <1>w DEF InFiles, Text
      <4> QED
        BY <4>2, <4>5
    <3> QED
      BY <3>1, <3>2
  <2> QED
    BY <2>1, <2>4, <1>c DEF Goal, Excused, Working
<1> QED
  BY <1>1, <1>2, <1>3, <1>4, <1>5, <1>6, <1>7, <1>8, <1>9, <1>10, <1>11, <1>12, <1>13, <1>14, <1>15, <1>16
  DEF ProfilesNext, UpsertProfile

\* What was written by hand goes from the files to the row that was current before
\* anything is written over it.
LEMMA HandStays ==
  ProfilesTypeOK /\ JobsOK /\ MarkOK /\ InTurnOK /\ HandOK /\ ProfilesTypeOK' /\ ProfilesNext => HandOK'
<1> DEFINE NoneWrites == \A u \in ProfileUsers : job[u].pc # "update" /\ ~Updating(u)
           Somewhere == \A f \in byHand : live[f] = Hand \/ RowHas(f)
           InRows == \A f \in byHand : RowHas(f)
           InFilesToo == \A p \in marked : HandInFiles(p)
           NoMain == tool = "codex" /\ live.main = Absent =>
                       live.auth \in {Absent, Hand, Broken} /\ \A p \in marked : profile[p].auth \in {Blank, Hand}
           Goal == /\ NoneWrites' /\ Somewhere' /\ NoMain'
                   /\ \A u \in ProfileUsers : Switching(u)' => InRows'
                   /\ (\A u \in ProfileUsers : ~Switching(u)') => InFilesToo'
<1> SUFFICES ASSUME ProfilesTypeOK, JobsOK, MarkOK, InTurnOK, HandOK, ProfilesTypeOK', ProfilesNext, ~Handled'
             PROVE  Goal
  BY DEF HandOK
<1>o. /\ oddly' \cap {"crossed", "failed", "stopped", "homeless", "unmarked", "again", "updated", "deleted"} = {}
      /\ ~Handled /\ InTurn
  BY OddlyGrows DEF Handled, InTurn, Excused
<1>c. /\ \A u, v \in ProfileUsers : Working(u) /\ Working(v) => u = v
      /\ \A u \in ProfileUsers : Working(u) => AloneOK(u)
  BY <1>o DEF InTurnOK
<1>m. /\ \A p, q \in marked : p = q
      /\ \A u \in ProfileUsers : job[u].pc = "mark" => marked = {} \/ job[u].id \in past
  BY <1>o DEF MarkOK, InTurnOK
<1>b. /\ NoneWrites /\ Somewhere /\ NoMain
      /\ \A u \in ProfileUsers : Switching(u) => InRows
      /\ (\A u \in ProfileUsers : ~Switching(u)) => InFilesToo
  BY <1>o DEF HandOK
<1>t. /\ tool' = tool /\ tool \in {"claude", "codex", "pi"}
      /\ live \in Unread /\ profile \in [Profiles -> Config \cup {Absent}]
      /\ marked \subseteq Rows /\ Rows \subseteq Profiles /\ past \cap Rows = {}
      /\ \A p \in Rows : profile[p] \in Config
      /\ byHand \subseteq {"main", "auth"} /\ byHand' \subseteq {"main", "auth"}
      /\ tool = "claude" => byHand \subseteq {"main"}
  BY ToolStays DEF ProfilesTypeOK, JobRecord, Rows
<1>w. \A cfg : (WritesMain(cfg)' <=> WritesMain(cfg)) /\ (WritesAuth(cfg)' <=> WritesAuth(cfg))
  BY <1>t DEF WritesMain, WritesAuth
<1>g. ASSUME NEW u \in ProfileUsers, \A v \in ProfileUsers : v # u => job'[v].pc = "idle",
             job'[u].pc # "update", ~Updating(u)', Somewhere', NoMain',
             Switching(u)' => InRows', ~Switching(u)' => InFilesToo'
      PROVE  Goal
  BY <1>g DEF Updating, Switching
<1>i. ASSUME \A v \in ProfileUsers : job'[v].pc = "idle", Somewhere', NoMain', InFilesToo' PROVE Goal
  BY <1>i DEF Updating, Switching
<1>f. ASSUME NEW u \in ProfileUsers, NEW S, Enter(u, S) PROVE \A v \in ProfileUsers : job[v].pc = "idle"
  BY <1>f, <1>o, JobEnters
<1>h. ASSUME NEW u \in ProfileUsers, Working(u)
      PROVE  AloneOK(u) /\ \A v \in ProfileUsers : v # u => job[v].pc = "idle"
  BY <1>h, <1>c DEF Working
<1>q. ASSUME \A v \in ProfileUsers : ~Switching(v) PROVE InFilesToo
  BY <1>q, <1>b
<1>r. ASSUME \A p \in Rows : p \in Rows' /\ profile'[p] = profile[p] PROVE \A f : RowHas(f) => RowHas(f)'
  BY <1>r DEF RowHas
\* Rows, files and mark are as they were.
<1>n. ASSUME UNCHANGED <<profile, marked, live, byHand>>
      PROVE  Somewhere' /\ NoMain' /\ (InRows => InRows') /\ (InFilesToo => InFilesToo')
  <2>1. Rows' = Rows
    BY <1>n DEF Rows
  <2>2. \A f : RowHas(f)' <=> RowHas(f)
    BY <1>n, <2>1 DEF RowHas
  <2>3. \A p : HandInFiles(p)' <=> HandInFiles(p)
    BY <1>n, <1>w DEF HandInFiles, Text
  <2> QED
    BY <2>2, <2>3, <1>n, <1>b, <1>t
<1> HIDE DEF Goal, InFilesToo, InRows, Somewhere, NoMain
<1>1. ASSUME NEW u \in ProfileUsers, List(u) PROVE Goal
  <2>1. Step(u, "seed") /\ Enter(u, {}) /\ UNCHANGED <<profile, marked, live, byHand>>
    BY <1>1 DEF List
  <2>2. \A v \in ProfileUsers : job[v].pc = "idle"
    BY <2>1, <1>f
  <2>3. (\A v \in ProfileUsers : v # u => job'[v].pc = "idle") /\ job'[u].pc = "seed"
    BY <2>1, <2>2, JobSteps
  <2>4. InFilesToo
    BY <2>2, <1>q DEF Switching
  <2> QED
    BY <2>1, <2>3, <2>4, <1>n, <1>g DEF Updating, Switching
<1>2. ASSUME NEW u \in ProfileUsers, Seed(u) PROVE Goal
  <2>1. End(u) /\ live' = live /\ job[u].pc = "seed" /\ byHand' = byHand
    BY <1>2 DEF Seed
  <2>2. /\ \A v \in ProfileUsers : job'[v].pc = "idle" /\ ~Switching(v)
        /\ Rows = {} /\ marked = {}
    <3>1. Rows = {} /\ marked = {} /\ \A v \in ProfileUsers : v # u => job[v].pc = "idle"
      BY <2>1, <1>h, <1>t DEF Working, AloneOK
    <3>2. \A v \in ProfileUsers : job'[v].pc = "idle"
      BY <2>1, <3>1, JobEnds
    <3> QED
      BY <2>1, <3>1, <3>2 DEF Switching
  <2>3. CASE ReadLive = Absent \/ seeded \in Rows
    <3>1. UNCHANGED <<profile, marked, live, byHand>>
      BY <1>2, <2>1, <2>3 DEF Seed
    <3> QED
      BY <3>1, <2>2, <1>n, <1>i, <1>q
  <2>4. CASE ~(ReadLive = Absent \/ seeded \in Rows)
    <3>1. PICK p \in Profiles \ (Rows \cup past) :
            profile' = [profile EXCEPT ![p] = ReadLive] /\ marked' = {p}
      BY <1>2, <2>2, <2>4 DEF Seed
    <3>2. profile'[p] = ReadLive
      BY <3>1, <1>t
    <3>3. HandInFiles(p)'
      BY <3>2, <2>1, <2>4, <1>w, Taken DEF HandInFiles, Text
    <3>4. Somewhere'
      BY <2>1, <2>2, <1>b DEF Somewhere, RowHas
    <3>5. NoMain'
      <4>1. ASSUME tool = "codex", live.main = Absent PROVE ReadLive.auth \in {Blank, Hand} /\ live.auth \in {Absent, Hand, Broken}
        <5>1. live.auth \in {Absent, Hand, Broken}
          BY <4>1, <1>b DEF NoMain
        <5>2. ReadLive.auth = Json(live.auth)
          BY <4>1, <2>4 DEF ReadLive
        <5> QED
          BY <5>1, <5>2 DEF Json
      <4> QED
        BY <4>1, <3>1, <3>2, <2>1, <1>t DEF NoMain
    <3> QED
      BY <3>1, <3>3, <3>4, <3>5, <2>2, <1>i DEF InFilesToo
  <2> QED
    BY <2>3, <2>4
<1>3. ASSUME NEW u \in ProfileUsers, UpdateRow(u) PROVE Goal
  BY <1>3, <1>b DEF UpdateRow
<1>4. ASSUME NEW u \in ProfileUsers, ReadCurrent(u) PROVE Goal
  <2>1. /\ job[u].pc = "current" /\ Working(u) /\ UNCHANGED <<profile, marked, live, byHand>>
        /\ marked # {} /\ marked # {job[u].id}
    BY <1>4, <1>o DEF ReadCurrent, Working, rest
  <2>2. \A v \in ProfileUsers : v # u => job[v].pc = "idle"
    BY <2>1, <1>h
  <2>3. job[u].id \notin marked
    BY <2>1, <1>m
  <2>4. PICK c : job' = [job EXCEPT ![u].old = c, ![u].pc = "backfill"]
    BY <1>4, <2>1, <2>3 DEF ReadCurrent
  <2>5. job'[u].pc = "backfill" /\ \A v \in ProfileUsers : v # u => job'[v].pc = "idle"
    BY <2>4, <2>2 DEF ProfilesTypeOK, JobRecord
  <2>6. InFilesToo
    BY <2>1, <2>2, <1>q DEF Switching
  <2> QED
    BY <2>1, <2>5, <2>6, <1>n, <1>g DEF Updating, Switching
<1>5. ASSUME NEW u \in ProfileUsers, Backfill(u) PROVE Goal
  <2>1. /\ job[u].pc = "backfill" /\ Working(u) /\ UNCHANGED <<marked, live, byHand>> /\ Step(u, "main")
    BY <1>5 DEF Backfill, Working, rest
  <2>2. /\ AloneOK(u) /\ \A v \in ProfileUsers : v # u => job[v].pc = "idle"
    BY <2>1, <1>h
  <2>3. PICK c \in marked : c = job[u].old
    BY <2>1, <2>2 DEF AloneOK
  <2>4. /\ c \in Rows /\ profile[c] \in Config /\ marked = {c} /\ HandInFiles(c) /\ job[u].then = "clear"
    <3>1. InFilesToo
      BY <2>1, <2>2, <1>q DEF Switching
    <3> QED
      BY <3>1, <2>1, <2>3, <1>m, <1>t DEF InFilesToo, JobsOK, JobOK
  <2>5. /\ job'[u].pc = "main" /\ job'[u].then = "clear"
        /\ \A v \in ProfileUsers : v # u => job'[v].pc = "idle"
    BY <2>1, <2>2, <2>4, JobSteps
  <2>6. CASE ReadLive = Absent
    <3>1. profile' = profile
      BY <1>5, <2>3, <2>6 DEF Backfill, Backfilled
    <3>2. \A f \in byHand : live[f] # Hand
      <4>1. CASE tool = "claude"
        BY <2>6, <4>1, <1>t, TextFacts DEF ReadLive, Config
      <4>2. CASE tool # "claude"
        <5>1. Text(live.main) \in Texts /\ Json(live.main) \in Texts /\ Json(live.auth) \in Texts
          BY <1>t, TextFacts DEF Text, Json, Unread
        <5>2. \A m \in Texts, a \in Texts : [main |-> m, auth |-> a] # Absent
          BY TextFacts DEF Config
        <5>3. live = Nothing
          BY <2>6, <4>2, <5>1, <5>2 DEF ReadLive
        <5>4. live.main = Absent /\ live.auth = Absent
          BY <5>3 DEF Nothing
        <5>5. live["main"] # Hand /\ live["auth"] # Hand
          BY <5>4, TextFacts
        <5> QED
          BY <5>5, <1>t
      <4> QED
        BY <4>1, <4>2
    <3>3. InRows
      BY <3>2, <1>b DEF Somewhere, InRows
    <3> QED
      BY <3>1, <3>3, <2>1, <2>5, <1>n, <1>g DEF Updating, Switching
  <2>7. CASE ReadLive # Absent
    <3>1. /\ profile' = [profile EXCEPT ![c] = ReadLive] /\ ReadLive \in Config
      BY <1>5, <2>3, <2>4, <2>7, Taken DEF Backfill, Backfilled
    <3>2. /\ profile'[c] = ReadLive /\ c \in Rows'
          /\ \A q \in Rows : q # c => q \in Rows' /\ profile'[q] = profile[q]
      BY <3>1, <2>4, <1>t, TextFacts DEF Rows
    <3>3. "main" \in byHand => RowHas("main")'
      <4>1. CASE live.main = Hand
        <5>1. ReadLive.main = Hand
          BY <4>1, <2>7, <1>t, TextFacts DEF ReadLive, Text, Json
        <5> QED
          BY <5>1, <3>2 DEF RowHas
      <4>2. CASE live.main # Hand /\ "main" \in byHand
        <5>1. profile[c].main # Hand
          BY <4>2, <2>4, TextFacts DEF HandInFiles, WritesMain, Text
        <5>2. RowHas("main")
          BY <4>2, <1>b DEF Somewhere
        <5> QED
          BY <5>1, <5>2, <3>2 DEF RowHas
      <4> QED
        BY <4>1, <4>2
    <3>4. "auth" \in byHand => RowHas("auth")'
      <4> SUFFICES ASSUME "auth" \in byHand PROVE RowHas("auth")'
        OBVIOUS
      <4>0. tool # "claude"
        BY <1>t
      <4>1. CASE live.auth = Hand
        <5>1. ReadLive.auth = Hand
          BY <4>0, <4>1, <2>7, <1>t, TextFacts DEF ReadLive, Json
        <5> QED
          BY <5>1, <3>2 DEF RowHas
      <4>2. CASE live.auth # Hand
        <5>1. profile[c].auth # Hand
          BY <4>0, <4>2, <2>4, TextFacts DEF HandInFiles, WritesAuth
        <5>2. RowHas("auth")
          BY <4>2, <1>b DEF Somewhere
        <5> QED
          BY <5>1, <5>2, <3>2 DEF RowHas
      <4> QED
        BY <4>1, <4>2
    <3>5. InRows' /\ Somewhere'
      BY <3>3, <3>4, <2>1, <1>t DEF InRows, Somewhere
    <3>6. NoMain'
      <4>1. ASSUME tool = "codex", live.main = Absent PROVE ReadLive.auth \in {Blank, Hand} /\ live.auth \in {Absent, Hand, Broken}
        <5>1. live.auth \in {Absent, Hand, Broken}
          BY <4>1, <1>b DEF NoMain
        <5>2. ReadLive.auth = Json(live.auth)
          BY <4>1, <2>7 DEF ReadLive
        <5> QED
          BY <5>1, <5>2 DEF Json
      <4> QED
        BY <4>1, <3>2, <2>1, <2>4, <1>t DEF NoMain
    <3> QED
      BY <3>5, <3>6, <2>5, <1>g DEF Updating, Switching
  <2> QED
    BY <2>6, <2>7
<1>6. ASSUME NEW u \in ProfileUsers, WriteMain(u) PROVE Goal
  <2>1. /\ job[u].pc = "main" /\ Working(u) /\ UNCHANGED <<profile, marked, byHand>> /\ Step(u, "auth")
        /\ live' = MainWritten(live, job[u].cfg)
    BY <1>6 DEF WriteMain, Working, rest
  <2>2. /\ AloneOK(u) /\ \A v \in ProfileUsers : v # u => job[v].pc = "idle"
    BY <2>1, <1>h
  <2>3. job[u].then = "clear" /\ job[u].cfg \in Config
    BY <2>1, <1>b DEF JobsOK, JobOK, Updating
  <2>4. /\ job'[u].pc = "auth" /\ job'[u].then = "clear"
        /\ \A v \in ProfileUsers : v # u => job'[v].pc = "idle"
    BY <2>1, <2>2, <2>3, JobSteps
  <2>5. InRows /\ \A f : RowHas(f) => RowHas(f)'
    BY <2>1, <2>3, <1>b DEF Switching, RowHas, Rows
  <2>6. tool = "codex" => live'.main # Absent
    BY <2>1, <2>3, <1>t, Written, TextFacts DEF WritesMain, Config
  <2>7. InRows' /\ Somewhere' /\ NoMain'
    BY <2>1, <2>5, <2>6, <1>t DEF InRows, Somewhere, NoMain
  <2> QED
    BY <2>4, <2>7, <1>g DEF Updating, Switching
<1>7. ASSUME NEW u \in ProfileUsers, WriteAuth(u) PROVE Goal
  <2>1. /\ job[u].pc = "auth" /\ Working(u) /\ UNCHANGED <<profile, marked, byHand>>
        /\ live' = AuthWritten(live, job[u].cfg)
    BY <1>7 DEF WriteAuth, Working, rest
  <2>2. /\ AloneOK(u) /\ \A v \in ProfileUsers : v # u => job[v].pc = "idle"
    BY <2>1, <1>h
  <2>3. /\ job[u].then = "clear" /\ job[u].cfg \in Config
        /\ (WritesMain(job[u].cfg) => live.main = job[u].cfg.main)
    BY <2>1, <2>2, <1>b DEF JobsOK, JobOK, Updating, AloneOK, Switched
  <2>4. Step(u, "clear")
    BY <1>7, <2>3 DEF WriteAuth
  <2>5. /\ job'[u].pc = "clear" /\ job'[u].then = "clear"
        /\ \A v \in ProfileUsers : v # u => job'[v].pc = "idle"
    BY <2>2, <2>3, <2>4, JobSteps
  <2>6. InRows /\ \A f : RowHas(f) => RowHas(f)'
    BY <2>1, <2>3, <1>b DEF Switching, RowHas, Rows
  <2>7. tool = "codex" => live'.main # Absent
    BY <2>1, <2>3, <1>t, Written, TextFacts DEF WritesMain, Config
  <2>8. InRows' /\ Somewhere' /\ NoMain'
    BY <2>1, <2>6, <2>7, <1>t DEF InRows, Somewhere, NoMain
  <2> QED
    BY <2>5, <2>8, <1>g DEF Updating, Switching
<1>8. ASSUME NEW u \in ProfileUsers, ClearMarks(u) PROVE Goal
  <2>1. /\ job[u].pc = "clear" /\ Working(u) /\ UNCHANGED <<profile, live, byHand>> /\ Step(u, "mark") /\ marked' = {}
    BY <1>8 DEF ClearMarks, Working, rest
  <2>2. /\ job[u].then = "clear" /\ \A v \in ProfileUsers : v # u => job[v].pc = "idle"
    BY <2>1, <1>h DEF JobsOK, JobOK
  <2>3. /\ job'[u].pc = "mark" /\ job'[u].then = "clear"
        /\ \A v \in ProfileUsers : v # u => job'[v].pc = "idle"
    BY <2>1, <2>2, JobSteps
  <2>4. InRows /\ \A f : RowHas(f) => RowHas(f)'
    BY <2>1, <2>2, <1>b DEF Switching, RowHas, Rows
  <2>5. InRows' /\ Somewhere'
    BY <2>1, <2>4 DEF InRows, Somewhere
  <2>6. NoMain'
    BY <2>1, <1>b, <1>t DEF NoMain
  <2> QED
    BY <2>3, <2>5, <2>6, <1>g DEF Updating, Switching
<1>9. ASSUME NEW u \in ProfileUsers, Mark(u) PROVE Goal
  <2>1. /\ job[u].pc = "mark" /\ Working(u) /\ UNCHANGED <<profile, live, byHand>> /\ End(u)
        /\ marked' = marked \cup ({job[u].id} \cap Rows)
    BY <1>9 DEF Mark, Working, rest
  <2>2. /\ AloneOK(u) /\ \A v \in ProfileUsers : v # u => job[v].pc = "idle"
    BY <2>1, <1>h
  <2>3. /\ job[u].id \in Rows /\ job[u].then = "clear" /\ job[u].cfg = profile[job[u].id]
        /\ (WritesMain(job[u].cfg) => live.main = job[u].cfg.main)
        /\ (WritesAuth(job[u].cfg) => live.auth = job[u].cfg.auth)
    BY <2>1, <2>2 DEF AloneOK, JobsOK, JobOK, Switched, Switching, Updating
  <2>4. \A v \in ProfileUsers : job'[v].pc = "idle"
    BY <2>1, <2>2, JobEnds
  <2>5. PICK c \in Rows : c = job[u].id
    BY <2>3
  <2>6. marked' = {c} /\ profile[c].main # Absent
    BY <2>1, <2>3, <2>5, <1>m, <1>t, TextFacts DEF Config
  <2>7. HandInFiles(c)'
    BY <2>1, <2>3, <2>5, <2>6, <1>w DEF HandInFiles, Text
  <2>8. InRows /\ \A f : RowHas(f) => RowHas(f)'
    BY <2>1, <2>3, <1>b DEF Switching, RowHas, Rows
  <2>9. Somewhere' /\ NoMain'
    BY <2>1, <2>3, <2>5, <2>6, <2>8, <1>t DEF InRows, Somewhere, NoMain, WritesMain
  <2> QED
    BY <2>4, <2>6, <2>7, <2>9, <1>i DEF InFilesToo
<1>10. ASSUME NEW u \in ProfileUsers, ProfileFails(u) PROVE Goal
  BY <1>10, <1>o DEF ProfileFails
<1>11. ASSUME NEW u \in ProfileUsers, NEW p \in Profiles, CreateProfile(u, p) PROVE Goal
  <2>1. /\ p \notin Rows /\ Enter(u, {}) /\ UNCHANGED <<marked, live, job, byHand>>
        /\ \E cfg \in Contents(p, 1) : profile' = [profile EXCEPT ![p] = cfg]
    BY <1>11 DEF CreateProfile, Rows
  <2>2. \A v \in ProfileUsers : job'[v].pc = "idle" /\ ~Switching(v)
    BY <2>1, <1>f DEF Switching
  <2>3. \A q \in Rows : q \in Rows' /\ profile'[q] = profile[q]
    BY <2>1, <1>t DEF Rows
  <2>4. \A f : RowHas(f) => RowHas(f)'
    BY <2>3, <1>r
  <2>5. Somewhere' /\ NoMain'
    BY <2>1, <2>3, <2>4, <1>b, <1>t DEF Somewhere, NoMain
  <2>6. InFilesToo'
    BY <2>1, <2>2, <2>3, <1>q, <1>t, <1>w DEF InFilesToo, HandInFiles, Text
  <2> QED
    BY <2>2, <2>5, <2>6, <1>i
<1>12. ASSUME NEW u \in ProfileUsers, NEW p \in Profiles, UpdateProfile(u, p) PROVE Goal
  BY <1>12, <1>o, JobEnters DEF UpdateProfile
<1>13. ASSUME NEW u \in ProfileUsers, NEW p \in Profiles, DeleteProfile(u, p) PROVE Goal
  BY <1>13, <1>o, JobEnters DEF DeleteProfile
<1>14. ASSUME NEW u \in ProfileUsers, NEW p \in Profiles, Switch(u, p) PROVE Goal
  <2>1. \E S : Enter(u, S) /\ UNCHANGED <<profile, marked, live, byHand>>
    BY <1>14 DEF Switch
  <2>2. \A v \in ProfileUsers : job[v].pc = "idle"
    BY <2>1, <1>f
  <2>3. /\ job'[u].pc = "current" /\ \A v \in ProfileUsers : v # u => job'[v].pc = "idle"
    BY <1>14, <2>2 DEF Switch, ProfilesTypeOK, JobRecord
  <2>4. InFilesToo
    BY <2>2, <1>q DEF Switching
  <2> QED
    BY <2>1, <2>3, <2>4, <1>n, <1>g DEF Updating, Switching
<1>15. ASSUME EditFile PROVE Goal
  <2>1. /\ UNCHANGED <<profile, marked, job>> /\ \A v \in ProfileUsers : job'[v].pc = "idle" /\ ~Switching(v)
    BY <1>15, <1>o DEF EditFile, Working, Switching
  <2>2. PICK c \in {Hand, Broken}, f \in {"main", "auth"} :
          /\ live' = [live EXCEPT ![f] = c]
          /\ byHand' = IF c = Hand THEN byHand \cup {f} ELSE byHand \ {f}
    BY <1>15 DEF EditFile
  <2>3. \A g : RowHas(g) => RowHas(g)'
    BY <2>1 DEF RowHas, Rows
  <2>4. InFilesToo
    BY <2>1, <1>q
  <2>5. CASE f = "main"
    <3>1. live'.main = c /\ live'.auth = live.auth
      BY <2>2, <2>5, <1>t DEF Unread
    <3>2. Somewhere'
      BY <2>2, <2>3, <2>5, <3>1, <1>b, <1>t DEF Somewhere
    <3>3. NoMain'
      BY <3>1, TextFacts DEF NoMain
    <3>4. InFilesToo'
      BY <2>1, <2>2, <2>4, <2>5, <3>1, <1>t, <1>w, TextFacts DEF InFilesToo, HandInFiles, Text
    <3> QED
      BY <3>2, <3>3, <3>4, <2>1, <1>i
  <2>6. CASE f = "auth"
    <3>1. live'.auth = c /\ live'.main = live.main
      BY <2>2, <2>6, <1>t DEF Unread
    <3>2. Somewhere'
      BY <2>2, <2>3, <2>6, <3>1, <1>b, <1>t DEF Somewhere
    <3>3. NoMain'
      BY <2>1, <3>1, <1>b, <1>t DEF NoMain
    <3>4. InFilesToo'
      BY <2>1, <2>2, <2>4, <2>6, <3>1, <1>t, <1>w, TextFacts DEF InFilesToo, HandInFiles, Text
    <3> QED
      BY <3>2, <3>3, <3>4, <2>1, <1>i
  <2> QED
    BY <2>5, <2>6
<1>16. ASSUME NEW home \in {live, Nothing}, StartServer(home) PROVE Goal
  <2>1. /\ UNCHANGED <<profile, marked, byHand>> /\ home = live
        /\ \A v \in ProfileUsers : job'[v].pc = "idle" /\ ~Switching(v)
    BY <1>16, <1>o DEF StartServer, Working, NoJob, Switching
  <2>2. InFilesToo
    BY <2>1, <1>q
  <2>3. CASE LiveExists(home) \/ marked = {}
    <3>1. live' = live
      BY <1>16, <2>1, <2>3 DEF StartServer
    <3> QED
      BY <3>1, <2>1, <2>2, <1>n, <1>i
  <2>4. CASE ~(LiveExists(home) \/ marked = {})
    <3>1. PICK c \in marked : live' = AuthWritten(MainWritten(live, profile[c]), profile[c])
      BY <1>16, <2>1, <2>4 DEF StartServer
    <3>2. profile[c] \in Config /\ marked' = {c} /\ profile[c].main # Absent
      BY <2>1, <3>1, <1>m, <1>t, TextFacts DEF Config
    <3>3. MainWritten(live, profile[c]) \in Unread
          /\ (WritesMain(profile[c]) => MainWritten(live, profile[c]).main = profile[c].main)
          /\ MainWritten(live, profile[c]).auth = live.auth
      BY <3>2, <1>t, Written
    <3>4. /\ WritesMain(profile[c]) => live'.main = profile[c].main
          /\ live'.auth = IF WritesAuth(profile[c]) THEN profile[c].auth ELSE live.auth
      BY <3>1, <3>2, <3>3, Written
    <3>5. HandInFiles(c)'
      BY <2>1, <3>2, <3>4, <1>w DEF HandInFiles, Text
    <3>6. \A g : RowHas(g) => RowHas(g)'
      BY <2>1 DEF RowHas, Rows
    <3>7. live.main = Absent /\ (tool = "pi" => live.auth # Hand)
      BY <2>1, <2>4, TextFacts DEF LiveExists
    <3>8. "main" \in byHand => RowHas("main")
      BY <3>7, <1>b, TextFacts DEF Somewhere
    <3>9. "auth" \in byHand => live'.auth = Hand \/ RowHas("auth")
      <4>1. CASE RowHas("auth")
        BY <4>1
      <4>2. CASE live.auth = Hand /\ "auth" \in byHand
        <5>1. tool = "codex" /\ profile[c].auth \in {Blank, Hand}
          BY <3>1, <3>7, <4>2, <1>b, <1>t DEF NoMain
        <5> QED
          BY <5>1, <3>4, <4>2 DEF WritesAuth
      <4> QED
        BY <4>1, <4>2, <1>b DEF Somewhere
    <3>10. Somewhere'
      BY <3>6, <3>8, <3>9, <2>1, <1>t DEF Somewhere
    <3>11. NoMain'
      BY <3>2, <3>4, <1>t DEF NoMain, WritesMain
    <3> QED
      BY <3>2, <3>5, <3>10, <3>11, <2>1, <1>i DEF InFilesToo
  <2> QED
    BY <2>3, <2>4
<1> QED
  BY <1>1, <1>2, <1>3, <1>4, <1>5, <1>6, <1>7, <1>8, <1>9, <1>10, <1>11, <1>12, <1>13, <1>14, <1>15, <1>16
  DEF ProfilesNext, UpsertProfile

\* A switch replaces the other row's content in the files by its own, part by part.
LEMMA OwnKept ==
  ProfilesTypeOK /\ JobsOK /\ MarkOK /\ InTurnOK /\ OwnOK /\ ProfilesTypeOK' /\ ProfilesNext => OwnOK'
<1> DEFINE RowOwn(p) == profile[p].main \in Owned(p) /\ profile[p].auth \in Owned(p)
           LiveOwn(p) == live.main \in Owned(p) /\ live.auth \in Owned(p)
           RowsOwn == \A p \in Rows : p # seeded => RowOwn(p)
           FilesOwn == \A p \in marked : p # seeded => LiveOwn(p)
           JobOwn(u) == /\ job[u].pc = "update" \/ Updating(u) =>
                             job[u].cfg.main \in Owned(job[u].id) /\ job[u].cfg.auth \in Owned(job[u].id)
                        /\ (Switching(u) \/ job[u].pc \in {"current", "backfill"}) /\ tool # "claude" =>
                             Blank \notin {job[u].cfg.main, job[u].cfg.auth}
           Goal == /\ RowsOwn' /\ \A u \in ProfileUsers : JobOwn(u)'
                   /\ (\A u \in ProfileUsers : ~Switching(u)') => FilesOwn'
<1> SUFFICES ASSUME ProfilesTypeOK, JobsOK, MarkOK, InTurnOK, OwnOK, ProfilesTypeOK', ProfilesNext,
                    ~Excused({"left alone", "crossed", "failed", "stopped"})'
             PROVE  Goal
  BY DEF OwnOK
<1>o. /\ oddly' \cap {"left alone", "crossed", "failed", "stopped"} = {}
      /\ ~Excused({"left alone", "crossed", "failed", "stopped"}) /\ InTurn
  BY OddlyGrows DEF InTurn, Excused
<1>c. /\ \A u, v \in ProfileUsers : Working(u) /\ Working(v) => u = v
      /\ \A u \in ProfileUsers : Working(u) => AloneOK(u)
  BY <1>o DEF InTurnOK
<1>m. /\ \A p, q \in marked : p = q
      /\ \A u \in ProfileUsers : job[u].pc = "mark" => marked = {} \/ job[u].id \in past
  BY <1>o DEF MarkOK, InTurnOK
<1>b. /\ RowsOwn /\ \A u \in ProfileUsers : JobOwn(u)
      /\ (\A u \in ProfileUsers : ~Switching(u)) => FilesOwn
  BY <1>o DEF OwnOK
<1>t. /\ tool' = tool /\ tool \in {"claude", "codex", "pi"}
      /\ live \in Unread /\ profile \in [Profiles -> Config \cup {Absent}]
      /\ marked \subseteq Rows /\ Rows \subseteq Profiles /\ past \cap Rows = {}
      /\ \A p \in Rows : profile[p] \in Config
      /\ tool = "claude" => live.auth = Absent
  BY ToolStays DEF ProfilesTypeOK, JobRecord, Rows
<1>p. \A p : Absent \in Owned(p) /\ Blank \in Owned(p) /\ Hand \in Owned(p) /\ Broken \in Owned(p)
             /\ <<p, 1>> \in Owned(p) /\ <<p, 2>> \in Owned(p)
  BY DEF Owned
<1>f. ASSUME NEW u \in ProfileUsers, NEW S, Enter(u, S) PROVE \A v \in ProfileUsers : job[v].pc = "idle"
  BY <1>f, <1>o, JobEnters
<1>h. ASSUME NEW u \in ProfileUsers, Working(u)
      PROVE  AloneOK(u) /\ \A v \in ProfileUsers : v # u => job[v].pc = "idle"
  BY <1>h, <1>c DEF Working
<1>g. ASSUME NEW u \in ProfileUsers, \A v \in ProfileUsers : v # u => job'[v].pc = "idle",
             RowsOwn', JobOwn(u)', ~Switching(u)' => FilesOwn'
      PROVE  Goal
  BY <1>g DEF Updating, Switching
<1>i. ASSUME \A v \in ProfileUsers : job'[v].pc = "idle", RowsOwn', FilesOwn' PROVE Goal
  BY <1>i DEF Updating, Switching
<1>q. ASSUME \A v \in ProfileUsers : ~Switching(v) PROVE FilesOwn
  BY <1>q, <1>b
<1>n. ASSUME UNCHANGED <<profile, seeded>> PROVE RowsOwn'
  BY <1>n, <1>b DEF Rows
<1>l. ASSUME UNCHANGED <<live, marked, seeded>>, FilesOwn PROVE FilesOwn'
  BY <1>l
\* The rows that are neither new nor changed.
<1>r. ASSUME NEW p, seeded' = seeded, p = seeded \/ RowOwn(p)',
             \A q \in Rows' : q # p => q \in Rows /\ profile'[q] = profile[q]
      PROVE  RowsOwn'
  <2>1. ASSUME NEW q \in Rows', q # seeded', q # p PROVE RowOwn(q)'
    <3>1. q \in Rows /\ profile'[q] = profile[q] /\ q # seeded
      BY <1>r, <2>1
    <3>2. RowOwn(q)
      BY <3>1, <1>b
    <3> QED
      BY <3>1, <3>2
  <2> QED
    BY <2>1, <1>r
<1> HIDE DEF Goal, FilesOwn, RowsOwn
<1>1. ASSUME NEW u \in ProfileUsers, List(u) PROVE Goal
  <2>1. Step(u, "seed") /\ Enter(u, {}) /\ UNCHANGED <<profile, marked, live, seeded>>
    BY <1>1 DEF List
  <2>2. \A v \in ProfileUsers : job[v].pc = "idle"
    BY <2>1, <1>f
  <2>3. (\A v \in ProfileUsers : v # u => job'[v].pc = "idle") /\ job'[u].pc = "seed"
    BY <2>1, <2>2, JobSteps
  <2>4. RowsOwn' /\ FilesOwn'
    BY <2>1, <2>2, <1>q, <1>n, <1>l DEF Switching
  <2> QED
    BY <2>3, <2>4, <1>g DEF Updating, Switching
<1>2. ASSUME NEW u \in ProfileUsers, Seed(u) PROVE Goal
  <2>1. End(u) /\ live' = live /\ job[u].pc = "seed"
    BY <1>2 DEF Seed
  <2>2. /\ \A v \in ProfileUsers : job'[v].pc = "idle" /\ ~Switching(v)
        /\ Rows = {} /\ marked = {}
    <3>1. Rows = {} /\ marked = {} /\ \A v \in ProfileUsers : v # u => job[v].pc = "idle"
      BY <2>1, <1>h, <1>t DEF Working, AloneOK
    <3>2. \A v \in ProfileUsers : job'[v].pc = "idle"
      BY <2>1, <3>1, JobEnds
    <3> QED
      BY <2>1, <3>1, <3>2 DEF Switching
  <2>3. CASE ReadLive = Absent \/ seeded \in Rows
    <3>1. UNCHANGED <<profile, marked, live, seeded>>
      BY <1>2, <2>1, <2>3 DEF Seed
    <3> QED
      BY <3>1, <2>2, <1>n, <1>l, <1>i, <1>q
  <2>4. CASE ~(ReadLive = Absent \/ seeded \in Rows)
    <3>1. PICK p \in Profiles \ (Rows \cup past) :
            profile' = [profile EXCEPT ![p] = ReadLive] /\ marked' = {p} /\ seeded' = p
      BY <1>2, <2>2, <2>4 DEF Seed
    <3>2. \A q \in Rows' : q = p
      BY <3>1, <2>2, <1>t DEF Rows
    <3> QED
      BY <3>1, <3>2, <2>2, <1>i DEF RowsOwn, FilesOwn
  <2> QED
    BY <2>3, <2>4
<1>3. ASSUME NEW u \in ProfileUsers, UpdateRow(u) PROVE Goal
  <2>1. /\ job[u].pc = "update" /\ Working(u) /\ UNCHANGED <<marked, live, seeded>>
        /\ profile' = IF job[u].id \in Rows THEN [profile EXCEPT ![job[u].id] = job[u].cfg] ELSE profile
    BY <1>3 DEF UpdateRow, Working, rest
  <2>2. /\ AloneOK(u) /\ \A v \in ProfileUsers : v # u => job[v].pc = "idle"
    BY <2>1, <1>h
  <2>3. PICK c \in Rows : c = job[u].id
    BY <2>1, <2>2 DEF AloneOK
  <2>4. job[u].cfg.main \in Owned(c) /\ job[u].cfg.auth \in Owned(c) /\ job[u].then \in {"write", "stop"}
    BY <2>1, <2>3, <1>b DEF JobsOK, JobOK
  <2>5. profile'[c] = job[u].cfg /\ \A q \in Rows' : q # c => q \in Rows /\ profile'[q] = profile[q]
    BY <2>1, <2>3, <1>t DEF Rows
  <2>6. RowsOwn' /\ FilesOwn'
    <3>1. FilesOwn
      BY <2>1, <2>2, <1>q DEF Switching
    <3> QED
      BY <3>1, <2>1, <2>4, <2>5, <1>r, <1>l
  <2>7. CASE job[u].then = "write"
    <3>1. Step(u, "main")
      BY <1>3, <2>7 DEF UpdateRow
    <3>2. /\ job'[u].pc = "main" /\ job'[u].then = "write" /\ job'[u].cfg = job[u].cfg /\ job'[u].id = c
          /\ \A v \in ProfileUsers : v # u => job'[v].pc = "idle"
      BY <3>1, <2>2, <2>3, <2>7, JobSteps
    <3>3. JobOwn(u)'
      BY <3>2, <2>4 DEF Updating, Switching
    <3> QED
      BY <3>2, <3>3, <2>6, <1>g
  <2>8. CASE job[u].then # "write"
    <3>1. End(u)
      BY <1>3, <2>8 DEF UpdateRow
    <3>2. \A v \in ProfileUsers : job'[v].pc = "idle"
      BY <3>1, <2>2, JobEnds
    <3> QED
      BY <3>2, <2>6, <1>i
  <2> QED
    BY <2>7, <2>8
<1>4. ASSUME NEW u \in ProfileUsers, ReadCurrent(u) PROVE Goal
  <2>1. /\ job[u].pc = "current" /\ Working(u) /\ UNCHANGED <<profile, marked, live, seeded>>
    BY <1>4 DEF ReadCurrent, Working, rest
  <2>2. \A v \in ProfileUsers : v # u => job[v].pc = "idle"
    BY <2>1, <1>h
  <2>3. tool # "claude" => Blank \notin {job[u].cfg.main, job[u].cfg.auth}
    BY <2>1, <1>b
  <2>4. RowsOwn' /\ FilesOwn' /\ job[u].then = "clear"
    BY <2>1, <2>2, <1>q, <1>n, <1>l DEF Switching, JobsOK, JobOK
  <2>5. ASSUME NEW c, job' = [job EXCEPT ![u].old = c, ![u].pc = "backfill"] PROVE Goal
    <3>1. /\ job'[u].pc = "backfill" /\ job'[u].cfg = job[u].cfg
          /\ \A v \in ProfileUsers : v # u => job'[v].pc = "idle"
      <4>1. job' = [job EXCEPT ![u] = [job[u] EXCEPT !.old = c, !.pc = "backfill"]]
        BY <2>5 DEF ProfilesTypeOK, JobRecord
      <4>2. job'[u] = [job[u] EXCEPT !.old = c, !.pc = "backfill"]
            /\ \A v \in ProfileUsers : v # u => job'[v] = job[v]
        BY <4>1 DEF ProfilesTypeOK, JobRecord
      <4>3. job[u] \in JobRecord
        BY DEF ProfilesTypeOK, JobRecord
      <4>4. job'[u].pc = "backfill" /\ job'[u].cfg = job[u].cfg
        BY <4>2, <4>3 DEF JobRecord
      <4> QED
        BY <4>2, <4>4, <2>2
    <3>2. JobOwn(u)'
      BY <3>1, <2>3, <1>t DEF Updating, Switching
    <3> QED
      BY <3>1, <3>2, <2>4, <1>g
  <2>6. CASE Step(u, "main")
    <3>1. /\ job'[u].pc = "main" /\ job'[u].then = "clear" /\ job'[u].cfg = job[u].cfg
          /\ \A v \in ProfileUsers : v # u => job'[v].pc = "idle"
      BY <2>2, <2>4, <2>6, JobSteps
    <3>2. JobOwn(u)'
      BY <3>1, <2>3, <1>t DEF Updating, Switching
    <3> QED
      BY <3>1, <3>2, <2>4, <1>g
  <2> QED
    BY <2>5, <2>6, <1>4 DEF ReadCurrent
<1>5. ASSUME NEW u \in ProfileUsers, Backfill(u) PROVE Goal
  <2>1. /\ job[u].pc = "backfill" /\ Working(u) /\ UNCHANGED <<marked, live, seeded>> /\ Step(u, "main")
    BY <1>5 DEF Backfill, Working, rest
  <2>2. /\ AloneOK(u) /\ \A v \in ProfileUsers : v # u => job[v].pc = "idle"
    BY <2>1, <1>h
  <2>3. PICK c \in marked : c = job[u].old
    BY <2>1, <2>2 DEF AloneOK
  <2>4. /\ job[u].then = "clear" /\ (tool # "claude" => Blank \notin {job[u].cfg.main, job[u].cfg.auth})
    BY <2>1, <1>b DEF JobsOK, JobOK
  <2>5. /\ job'[u].pc = "main" /\ job'[u].then = "clear" /\ job'[u].cfg = job[u].cfg
        /\ \A v \in ProfileUsers : v # u => job'[v].pc = "idle"
    BY <2>1, <2>2, <2>4, JobSteps
  <2>6. RowsOwn'
    <3>1. CASE ReadLive = Absent
      <4>1. profile' = profile
        BY <1>5, <2>3, <3>1 DEF Backfill, Backfilled
      <4> QED
        BY <4>1, <2>1, <1>n
    <3>2. CASE ReadLive # Absent
      <4>1. c \in Rows /\ c \in Profiles /\ profile' = [profile EXCEPT ![c] = ReadLive]
        BY <1>5, <2>3, <3>2, <1>t DEF Backfill, Backfilled
      <4>2. profile'[c] = ReadLive /\ \A q \in Rows' : q # c => q \in Rows /\ profile'[q] = profile[q]
        BY <4>1, <1>t DEF Rows
      <4>3. c # seeded => LiveOwn(c)
        BY <2>1, <2>2, <2>3, <1>q DEF Switching, FilesOwn
      <4>4. c # seeded => RowOwn(c)'
        BY <4>2, <4>3, <3>2, <1>p, Taken
      <4> QED
        BY <4>2, <4>4, <2>1, <1>r
    <3> QED
      BY <3>1, <3>2
  <2>7. JobOwn(u)' /\ Switching(u)'
    BY <2>4, <2>5, <1>t DEF Updating, Switching
  <2> QED
    BY <2>5, <2>6, <2>7, <1>g
<1>6. ASSUME NEW u \in ProfileUsers, WriteMain(u) PROVE Goal
  <2>1. /\ job[u].pc = "main" /\ Working(u) /\ UNCHANGED <<profile, marked, seeded>> /\ Step(u, "auth")
        /\ live' = MainWritten(live, job[u].cfg)
    BY <1>6 DEF WriteMain, Working, rest
  <2>2. /\ AloneOK(u) /\ \A v \in ProfileUsers : v # u => job[v].pc = "idle"
    BY <2>1, <1>h
  <2>3. job[u].cfg \in Config /\ job[u].then \in {"write", "clear"}
    BY <2>1 DEF JobsOK, JobOK
  <2>4. /\ job'[u].pc = "auth" /\ job'[u].then = job[u].then /\ job'[u].cfg = job[u].cfg /\ job'[u].id = job[u].id
        /\ \A v \in ProfileUsers : v # u => job'[v].pc = "idle"
    BY <2>1, <2>2, JobSteps
  <2>5. RowsOwn' /\ JobOwn(u)'
    BY <2>1, <2>4, <1>n, <1>b, <1>t DEF Updating, Switching
  <2>6. CASE job[u].then = "clear"
    BY <2>4, <2>5, <2>6, <1>g DEF Switching
  <2>7. CASE job[u].then = "write"
    <3>1. PICK c \in marked : c = job[u].id
      BY <2>1, <2>2, <2>7 DEF AloneOK, Updating
    <3>2. job[u].cfg.main \in Owned(c) /\ marked' = {c}
      BY <2>1, <2>7, <3>1, <1>b, <1>m DEF Updating
    <3>3. c # seeded => LiveOwn(c)
      BY <2>1, <2>2, <2>7, <3>1, <1>q DEF Switching, FilesOwn
    <3>4. live'.main \in {job[u].cfg.main, live.main} /\ live'.auth = live.auth
      BY <2>1, <2>3, <1>t, Written
    <3>5. FilesOwn'
      BY <3>2, <3>3, <3>4, <2>1 DEF FilesOwn
    <3> QED
      BY <2>4, <2>5, <3>5, <1>g
  <2> QED
    BY <2>3, <2>6, <2>7
<1>7. ASSUME NEW u \in ProfileUsers, WriteAuth(u) PROVE Goal
  <2>1. /\ job[u].pc = "auth" /\ Working(u) /\ UNCHANGED <<profile, marked, seeded>>
        /\ live' = AuthWritten(live, job[u].cfg)
    BY <1>7 DEF WriteAuth, Working, rest
  <2>2. /\ AloneOK(u) /\ \A v \in ProfileUsers : v # u => job[v].pc = "idle"
    BY <2>1, <1>h
  <2>3. job[u].cfg \in Config /\ job[u].then \in {"write", "clear"} /\ RowsOwn'
    BY <2>1, <1>n DEF JobsOK, JobOK
  <2>4. CASE job[u].then = "clear"
    <3>1. Step(u, "clear")
      BY <1>7, <2>4 DEF WriteAuth
    <3>2. /\ job'[u].pc = "clear" /\ job'[u].then = "clear" /\ job'[u].cfg = job[u].cfg
          /\ \A v \in ProfileUsers : v # u => job'[v].pc = "idle"
      BY <3>1, <2>2, <2>4, JobSteps
    <3>3. JobOwn(u)' /\ Switching(u)'
      BY <2>1, <2>4, <3>2, <1>b, <1>t DEF Updating, Switching
    <3> QED
      BY <3>2, <3>3, <2>3, <1>g
  <2>5. CASE job[u].then = "write"
    <3>1. PICK c \in marked : c = job[u].id
      BY <2>1, <2>2, <2>5 DEF AloneOK, Updating
    <3>2. job[u].cfg.auth \in Owned(c) /\ marked' = {c}
      BY <2>1, <2>5, <3>1, <1>b, <1>m DEF Updating
    <3>3. c # seeded => LiveOwn(c)
      BY <2>1, <2>2, <2>5, <3>1, <1>q DEF Switching, FilesOwn
    <3>4. live'.auth \in {job[u].cfg.auth, live.auth} /\ live'.main = live.main
      BY <2>1, <2>3, <1>t, Written
    <3>5. FilesOwn'
      BY <3>2, <3>3, <3>4, <2>1 DEF FilesOwn
    <3>6. End(u)
      BY <1>7, <2>5 DEF WriteAuth
    <3>7. \A v \in ProfileUsers : job'[v].pc = "idle"
      BY <3>6, <2>2, JobEnds
    <3> QED
      BY <2>3, <3>5, <3>7, <1>i
  <2> QED
    BY <2>3, <2>4, <2>5
<1>8. ASSUME NEW u \in ProfileUsers, ClearMarks(u) PROVE Goal
  <2>1. /\ job[u].pc = "clear" /\ Working(u) /\ UNCHANGED <<profile, live, seeded>> /\ Step(u, "mark") /\ marked' = {}
    BY <1>8 DEF ClearMarks, Working, rest
  <2>2. /\ job[u].then = "clear" /\ \A v \in ProfileUsers : v # u => job[v].pc = "idle"
    BY <2>1, <1>h DEF JobsOK, JobOK
  <2>3. /\ job'[u].pc = "mark" /\ job'[u].then = "clear" /\ job'[u].cfg = job[u].cfg
        /\ \A v \in ProfileUsers : v # u => job'[v].pc = "idle"
    BY <2>1, <2>2, JobSteps
  <2>4. JobOwn(u)' /\ RowsOwn'
    BY <2>1, <2>2, <2>3, <1>b, <1>n, <1>t DEF Updating, Switching
  <2> QED
    BY <2>1, <2>3, <2>4, <1>g DEF FilesOwn
<1>9. ASSUME NEW u \in ProfileUsers, Mark(u) PROVE Goal
  <2>1. /\ job[u].pc = "mark" /\ Working(u) /\ UNCHANGED <<profile, live, seeded>> /\ End(u)
        /\ marked' = marked \cup ({job[u].id} \cap Rows)
    BY <1>9 DEF Mark, Working, rest
  <2>2. /\ AloneOK(u) /\ \A v \in ProfileUsers : v # u => job[v].pc = "idle"
    BY <2>1, <1>h
  <2>3. /\ job[u].id \in Rows /\ job[u].then = "clear" /\ job[u].cfg = profile[job[u].id]
        /\ (WritesMain(job[u].cfg) => live.main = job[u].cfg.main)
        /\ (WritesAuth(job[u].cfg) => live.auth = job[u].cfg.auth)
    BY <2>1, <2>2 DEF AloneOK, JobsOK, JobOK, Switched, Switching, Updating
  <2>4. \A v \in ProfileUsers : job'[v].pc = "idle"
    BY <2>1, <2>2, JobEnds
  <2>5. PICK c \in Rows : c = job[u].id
    BY <2>3
  <2>6. marked' = {c}
    BY <2>1, <2>3, <2>5, <1>m, <1>t
  <2>7. tool # "claude" => Blank \notin {job[u].cfg.main, job[u].cfg.auth}
    BY <2>1, <2>3, <1>b DEF Switching
  <2>8. live.main = profile[c].main /\ live.auth \in {profile[c].auth, Absent}
    BY <2>3, <2>5, <2>7, <1>t DEF WritesMain, WritesAuth
  <2>9. FilesOwn'
    BY <2>1, <2>6, <2>8, <1>b, <1>p DEF FilesOwn, RowsOwn
  <2> QED
    BY <2>1, <2>4, <2>9, <1>n, <1>i
<1>10. ASSUME NEW u \in ProfileUsers, ProfileFails(u) PROVE Goal
  BY <1>10, <1>o DEF ProfileFails
<1>11. ASSUME NEW u \in ProfileUsers, NEW p \in Profiles, CreateProfile(u, p) PROVE Goal
  <2>1. /\ p \notin Rows /\ Enter(u, {}) /\ UNCHANGED <<marked, live, job, seeded>>
    BY <1>11 DEF CreateProfile, Rows
  <2>2. PICK cfg \in Contents(p, 1) : profile' = [profile EXCEPT ![p] = cfg]
    BY <1>11 DEF CreateProfile
  <2>3. \A v \in ProfileUsers : job'[v].pc = "idle" /\ ~Switching(v)
    BY <2>1, <1>f DEF Switching
  <2>4. cfg.main \in Owned(p) /\ cfg.auth \in Owned(p)
    BY <1>p, <1>t, Contained
  <2>5. profile'[p] = cfg /\ \A q \in Rows' : q # p => q \in Rows /\ profile'[q] = profile[q]
    BY <2>2, <1>t DEF Rows
  <2> QED
    BY <2>1, <2>3, <2>4, <2>5, <1>r, <1>l, <1>q, <1>i
<1>12. ASSUME NEW u \in ProfileUsers, NEW p \in Profiles, UpdateProfile(u, p) PROVE Goal
  <2>1. p \in Rows /\ Enter(u, {"updated"}) /\ UNCHANGED <<profile, marked, live, seeded>>
    BY <1>12 DEF UpdateProfile
  <2>2. \A v \in ProfileUsers : job[v].pc = "idle" /\ ~Switching(v)
    BY <2>1, <1>f DEF Switching
  <2>3. PICK cfg \in Contents(p, 2) :
           job' = [job EXCEPT ![u] = [pc |-> "update", id |-> p, cfg |-> cfg, old |-> Absent,
                                      then |-> IF p \in marked THEN "write" ELSE "stop"]]
    BY <1>12 DEF UpdateProfile
  <2>4. /\ job'[u].pc = "update" /\ job'[u].id = p /\ job'[u].cfg = cfg
        /\ \A v \in ProfileUsers : v # u => job'[v].pc = "idle"
    BY <2>2, <2>3 DEF ProfilesTypeOK, JobRecord
  <2>5. cfg.main \in Owned(p) /\ cfg.auth \in Owned(p)
    BY <1>p, <1>t, Contained
  <2>6. JobOwn(u)'
    BY <2>4, <2>5 DEF Updating, Switching
  <2> QED
    BY <2>1, <2>2, <2>4, <2>6, <1>n, <1>l, <1>q, <1>g
<1>13. ASSUME NEW u \in ProfileUsers, NEW p \in Profiles, DeleteProfile(u, p) PROVE Goal
  <2>1. /\ Enter(u, {"deleted"}) /\ UNCHANGED <<live, job, seeded>> /\ profile' = [profile EXCEPT ![p] = Absent] /\ marked' = marked \ {p}
    BY <1>13 DEF DeleteProfile
  <2>2. \A v \in ProfileUsers : job'[v].pc = "idle" /\ ~Switching(v)
    BY <2>1, <1>f DEF Switching
  <2>3. \A q \in Rows' : q \in Rows /\ profile'[q] = profile[q]
    BY <2>1, <1>t DEF Rows
  <2>4. RowsOwn' /\ FilesOwn'
    BY <2>1, <2>2, <2>3, <1>q, <1>b DEF RowsOwn, FilesOwn
  <2> QED
    BY <2>2, <2>4, <1>i
<1>14. ASSUME NEW u \in ProfileUsers, NEW p \in Profiles, Switch(u, p) PROVE Goal
  <2>1. /\ p \in Rows /\ UNCHANGED <<profile, marked, live, seeded>>
        /\ Enter(u, IF Blank \in {profile[p].main, profile[p].auth} /\ tool # "claude" THEN {"left alone"} ELSE {})
    BY <1>14 DEF Switch
  <2>2. \A v \in ProfileUsers : job[v].pc = "idle" /\ ~Switching(v)
    BY <2>1, <1>f DEF Switching
  <2>3. tool # "claude" => Blank \notin {profile[p].main, profile[p].auth}
    BY <2>1, <1>o, JobEnters
  <2>4. /\ job'[u].pc = "current" /\ job'[u].cfg = profile[p]
        /\ \A v \in ProfileUsers : v # u => job'[v].pc = "idle"
    BY <1>14, <2>2 DEF Switch, ProfilesTypeOK, JobRecord
  <2>5. JobOwn(u)'
    BY <2>3, <2>4, <1>t DEF Updating, Switching
  <2> QED
    BY <2>1, <2>2, <2>4, <2>5, <1>n, <1>l, <1>q, <1>g
<1>15. ASSUME EditFile PROVE Goal
  <2>1. /\ UNCHANGED <<profile, marked, job, seeded>> /\ \A v \in ProfileUsers : job'[v].pc = "idle" /\ ~Switching(v)
    BY <1>15, <1>o DEF EditFile, Working, Switching
  <2>2. PICK c \in {Hand, Broken}, f \in {"main", "auth"} : live' = [live EXCEPT ![f] = c]
    BY <1>15 DEF EditFile
  <2>3. /\ live'.main \in {live.main, Hand, Broken} /\ live'.auth \in {live.auth, Hand, Broken}
    BY <2>2, <1>t DEF Unread
  <2>4. FilesOwn'
    BY <2>1, <2>3, <1>q, <1>p DEF FilesOwn
  <2> QED
    BY <2>1, <2>4, <1>n, <1>i
<1>16. ASSUME NEW home \in {live, Nothing}, StartServer(home) PROVE Goal
  <2>1. /\ UNCHANGED <<profile, marked, seeded>>
        /\ \A v \in ProfileUsers : job'[v].pc = "idle" /\ ~Switching(v)
    BY <1>16, <1>o DEF StartServer, Working, NoJob, Switching
  <2>2. home \in Unread /\ home.main \in {live.main, Absent} /\ home.auth \in {live.auth, Absent}
    <3>1. Nothing \in Unread /\ Nothing.main = Absent /\ Nothing.auth = Absent
      BY DEF Nothing, Unread
    <3> QED
      BY <3>1, <1>t
  <2>3. CASE live' = home
    <3>1. FilesOwn'
      BY <2>1, <2>2, <2>3, <1>q, <1>p DEF FilesOwn
    <3> QED
      BY <3>1, <2>1, <1>n, <1>i
  <2>4. ASSUME NEW c \in marked, live' = AuthWritten(MainWritten(home, profile[c]), profile[c]) PROVE Goal
    <3>1. profile[c] \in Config /\ marked' = {c} /\ c \in Rows
      BY <2>1, <1>m, <1>t
    <3>2. MainWritten(home, profile[c]) \in Unread
          /\ MainWritten(home, profile[c]).main \in {home.main, profile[c].main}
          /\ MainWritten(home, profile[c]).auth = home.auth
      BY <2>2, <3>1, Written
    <3>3. live'.main \in {home.main, profile[c].main} /\ live'.auth \in {home.auth, profile[c].auth}
      BY <2>4, <3>1, <3>2, Written
    <3>4. c # seeded => RowOwn(c) /\ LiveOwn(c)
      BY <2>1, <3>1, <1>q, <1>b DEF FilesOwn, RowsOwn
    <3>5. c # seeded => LiveOwn(c)'
      BY <2>2, <3>3, <3>4, <1>p
    <3>6. FilesOwn'
      BY <2>1, <3>1, <3>5 DEF FilesOwn
    <3> QED
      BY <3>6, <2>1, <1>n, <1>i
  <2> QED
    BY <2>3, <2>4, <1>16 DEF StartServer
<1> QED
  BY <1>1, <1>2, <1>3, <1>4, <1>5, <1>6, <1>7, <1>8, <1>9, <1>10, <1>11, <1>12, <1>13, <1>14, <1>15, <1>16
  DEF ProfilesNext, UpsertProfile

\* OneCurrent, CurrentIsLive, HandKept and OwnParts: whatever number of requests, of
\* edits, failures and restarts, in whatever order (Service, live.go).
THEOREM ProfilesAreSound == ProfilesSpec => []ProfilesSound
<1>1. ProfilesInit => ProfInv
  <2> SUFFICES ASSUME ProfilesInit PROVE ProfInv
    OBVIOUS
  <2>1. /\ tool \in {"claude", "codex", "pi"} /\ past = {} /\ marked = {} /\ oddly = {}
        /\ live \in {Nothing, [Nothing EXCEPT !.main = Hand]} /\ byHand = {f \in {"main"} : live[f] = Hand}
        /\ job = [u \in ProfileUsers |-> NoJob] /\ seeded = Absent
    BY DEF ProfilesInit
  <2>2. /\ profile \in [Profiles -> UNION {Contents(p, 1) : p \in Profiles} \cup {Absent}]
        /\ \A p \in Profiles : profile[p] \in Contents(p, 1) \cup {Absent}
    BY DEF ProfilesInit
  <2>3. profile \in [Profiles -> Config \cup {Absent}]
    BY <2>1, <2>2, Contained
  <2>4. \A p \in Rows : profile[p].main \in Owned(p) /\ profile[p].auth \in Owned(p)
    BY <2>1, <2>2, Contained DEF Rows, Owned
  <2>5. /\ live \in Unread /\ live.auth = Absent /\ byHand \subseteq {"main"}
        /\ ("main" \in byHand => live["main"] = Hand)
    BY <2>1, TextFacts DEF Nothing, Unread
  <2>6. job \in [ProfileUsers -> JobRecord] /\ \A u \in ProfileUsers : job[u].pc = "idle"
    BY <2>1, NoJobTyped DEF NoJob
  <2>7. ProfilesTypeOK
    BY <2>1, <2>3, <2>5, <2>6 DEF ProfilesTypeOK, JobRecord
  <2>8. JobsOK /\ MarkOK
    BY <2>1, <2>6 DEF JobsOK, JobOK, MarkOK
  <2>9. InTurnOK
    BY <2>1, <2>6 DEF InTurnOK, Excused, Working
  <2>10. HandOK
    BY <2>1, <2>5, <2>6 DEF HandOK, Updating, Switching
  <2>11. OwnOK
    BY <2>1, <2>4, <2>6 DEF OwnOK, Updating, Switching
  <2> QED
    BY <2>7, <2>8, <2>9, <2>10, <2>11 DEF ProfInv
<1>2. ProfInv /\ [ProfilesNext]_profileVars => ProfInv'
  <2>1. ProfInv /\ ProfilesNext => ProfInv'
    BY ProfilesTyped, MarkKept, InTurnKept, HandStays, OwnKept DEF ProfInv
  <2>2. ProfInv /\ UNCHANGED profileVars => ProfInv'
    <3> SUFFICES ASSUME ProfInv, UNCHANGED profileVars PROVE ProfInv'
      OBVIOUS
    <3>1. UNCHANGED <<tool, profile, past, marked, seeded, live, job, oddly, byHand>>
      BY DEF profileVars
    <3>2. Rows' = Rows
      BY <3>1 DEF Rows
    <3>3. ProfilesTypeOK'
      BY <3>1, <3>2 DEF ProfInv, ProfilesTypeOK, JobRecord
    <3>4. JobsOK' /\ MarkOK'
      BY <3>1, <3>2 DEF ProfInv, JobsOK, JobOK, MarkOK, Excused
    <3>5. \A cfg : (WritesMain(cfg)' <=> WritesMain(cfg)) /\ (WritesAuth(cfg)' <=> WritesAuth(cfg))
      BY <3>1 DEF WritesMain, WritesAuth
    <3>6. \A u \in ProfileUsers : /\ (Switching(u)' <=> Switching(u)) /\ (Updating(u)' <=> Updating(u))
                                  /\ (Working(u)' <=> Working(u))
      BY <3>1 DEF Switching, Updating, Working
    <3>7. \A u \in ProfileUsers : AloneOK(u) => AloneOK(u)'
      BY <3>1, <3>2, <3>5, <3>6 DEF AloneOK, Switched
    <3>8. \A p : (InFiles(p) => InFiles(p)') /\ (HandInFiles(p) => HandInFiles(p)')
      BY <3>1, <3>5 DEF InFiles, HandInFiles, Text
    <3>9. InTurnOK'
      BY <3>1, <3>6, <3>7, <3>8 DEF ProfInv, InTurnOK, InTurn, Excused
    <3>10. \A f : RowHas(f) => RowHas(f)'
      BY <3>1, <3>2 DEF RowHas
    <3>11. HandOK'
      BY <3>1, <3>6, <3>8, <3>10 DEF ProfInv, HandOK, Handled, Excused
    <3>12. OwnOK'
      BY <3>1, <3>2, <3>6 DEF ProfInv, OwnOK, Excused
    <3> QED
      BY <3>3, <3>4, <3>9, <3>11, <3>12 DEF ProfInv
  <2> QED
    BY <2>1, <2>2
<1>3. ProfInv => ProfilesSound
  <2> SUFFICES ASSUME ProfInv PROVE ProfilesSound
    OBVIOUS
  <2>1. OneCurrent
    <3>1. CASE Excused({"marking", "seeded"})
      BY <3>1 DEF OneCurrent
    <3>2. CASE marked = {}
      BY <3>2, FS_EmptySet DEF OneCurrent
    <3>3. ASSUME NEW p \in marked, ~Excused({"marking", "seeded"}) PROVE OneCurrent
      <4>1. marked = {p}
        BY <3>3 DEF ProfInv, MarkOK
      <4>2. Cardinality(marked) = 1
        BY <4>1, FS_Singleton
      <4> QED
        BY <4>2 DEF OneCurrent
    <3> QED
      BY <3>1, <3>2, <3>3
  <2>2. CurrentIsLive
    <3> SUFFICES ASSUME Quiet, InTurn PROVE \A p \in marked : InFiles(p)
      BY DEF CurrentIsLive, InTurn, InFiles
    <3> QED
      BY DEF ProfInv, InTurnOK, Quiet, Working, Switching, Updating
  <2>3. HandKept
    BY DEF ProfInv, HandOK, HandKept, Handled, RowHas
  <2>4. OwnParts
    BY DEF ProfInv, OwnOK, OwnParts, Owned
  <2> QED
    BY <2>1, <2>2, <2>3, <2>4 DEF ProfilesSound
<1> QED
  BY <1>1, <1>2, <1>3, PTL DEF ProfilesSpec

=============================================================================
