-------------------------- MODULE AgentStreamProofs --------------------------
(***************************************************************************)
(* The live stream implements LiveText (FollowsLive of AgentStream), for   *)
(* any number of browsers, deltas, events, lost connections and calls of   *)
(* openSession, and any capacity of the queues.                            *)
(***************************************************************************)
EXTENDS AgentStream, WellFoundedInduction, SequenceTheorems, TLAPS

-----------------------------------------------------------------------------
(***************************************************************************)
(* The text a queue of frames adds up to.                                  *)
(***************************************************************************)
\* A set that has 0 and each next number has them all.
LEMMA CountUp ==
  ASSUME NEW m \in Nat, NEW S, 0 \in S, \A n \in 0..m : n < m /\ n \in S => n + 1 \in S
  PROVE  0..m \subseteq S
<1> SUFFICES ASSUME (0..m) \ S # {} PROVE FALSE
  OBVIOUS
<1> DEFINE R == OpToRel(<, Nat)
           T == (0..m) \ S
<1>1. IsWellFoundedOn(R, Nat)
  BY NatLessThanWellFounded, Zenon
<1>2. \A i, j \in Nat : i < j => <<i, j>> \in R
  BY Zenon DEF OpToRel
<1> HIDE DEF R
<1>3. T \subseteq Nat /\ T # {}
  OBVIOUS
<1>4. \E i \in T : \A j \in T : ~(<<j, i>> \in R)
  BY <1>1, <1>3, WFMin
<1>5. PICK n \in T : \A j \in T : ~(<<j, n>> \in R)
  BY <1>4
<1>6. \A j \in T : ~(j < n)
  BY <1>2, <1>3, <1>5
<1>7. n # 0 /\ n - 1 \in 0..m /\ n - 1 < n /\ n - 1 < m /\ n - 1 + 1 = n
  OBVIOUS
<1>8. n - 1 \in S
  BY <1>6, <1>7
<1> QED
  BY <1>7, <1>8

\* f has the text after each of the frames of q.
IsDue(f, s, q) ==
  f = [n \in 0..Len(q) |-> IF n = 0 THEN s ELSE Applied(f[n - 1], q[n])]

Dues(s, q) == CHOOSE f : IsDue(f, s, q)

LEMMA DueExists ==
  ASSUME NEW s, NEW q, Len(q) \in Nat
  PROVE  \E f : IsDue(f, s, q)
<1> DEFINE Upto(f, m) == f = [n \in 0..m |-> IF n = 0 THEN s ELSE Applied(f[n - 1], q[n])]
           S == {m \in Nat : \E f : Upto(f, m)}
<1>1. 0 \in S
  <2> DEFINE f == [n \in 0..0 |-> s]
  <2>1. Upto(f, 0)
    OBVIOUS
  <2> QED
    BY <2>1
<1>2. ASSUME NEW m \in 0..Len(q), m < Len(q), m \in S PROVE m + 1 \in S
  <2>1. PICK f : Upto(f, m)
    BY <1>2
  <2> DEFINE g == [n \in 0..(m + 1) |-> IF n = m + 1 THEN Applied(f[m], q[m + 1]) ELSE f[n]]
  <2>2. \A n \in 0..m : g[n] = f[n] /\ f[n] = IF n = 0 THEN s ELSE Applied(f[n - 1], q[n])
    BY <2>1
  <2>3. \A n \in 0..(m + 1) : g[n] = IF n = 0 THEN s ELSE Applied(g[n - 1], q[n])
    <3> TAKE n \in 0..(m + 1)
    <3>1. CASE n = m + 1
      <4>1. g[n] = Applied(f[m], q[m + 1]) /\ g[n - 1] = f[m] /\ n # 0
        BY <2>2, <3>1
      <4> QED
        BY <3>1, <4>1
    <3>2. CASE n \in 0..m /\ n # 0
      <4>1. n - 1 \in 0..m
        BY <3>2
      <4> QED
        BY <2>2, <3>2, <4>1
    <3>3. CASE n = 0
      <4>1. 0 \in 0..m /\ 0 # m + 1
        OBVIOUS
      <4>2. g[n] = f[n] /\ f[n] = s
        BY <2>2, <3>3, <4>1
      <4> QED
        BY <3>3, <4>2
    <3> QED
      BY <3>1, <3>2, <3>3
  <2> HIDE DEF g
  <2>4. Upto(g, m + 1)
    BY <2>3 DEF g
  <2> QED
    BY <2>4
<1>3. 0..Len(q) \subseteq S
  BY <1>1, <1>2, CountUp
<1>4. \E f : IsDue(f, s, q)
  BY <1>3 DEF IsDue
<1> QED
  BY <1>4

LEMMA DueSteps ==
  ASSUME NEW s, NEW q, Len(q) \in Nat
  PROVE  /\ Dues(s, q)[0] = s
         /\ \A n \in 1..Len(q) : Dues(s, q)[n] = Applied(Dues(s, q)[n - 1], q[n])
         /\ TextDue(s, q) = Dues(s, q)[Len(q)]
<1> DEFINE f == Dues(s, q)
           F(g, n) == IF n = 0 THEN s ELSE Applied(g[n - 1], q[n])
<1>1. IsDue(f, s, q)
  BY DueExists, Zenon DEF Dues
<1>2. TextDue(s, q) = f[Len(q)]
  BY DEF TextDue, Dues, IsDue
<1> HIDE DEF f
<1>3. f = [n \in 0..Len(q) |-> F(f, n)]
  BY <1>1 DEF IsDue
<1>4. \A n \in 0..Len(q) : f[n] = F(f, n)
  BY <1>3
<1>5. 0 \in 0..Len(q) /\ \A n \in 1..Len(q) : n \in 0..Len(q) /\ n # 0
  OBVIOUS
<1> QED
  BY <1>2, <1>4, <1>5 DEF f

\* The first m frames of the second queue are those of the first from its k-th to its l-th.
Shifted(q, q2, k, m, l) ==
  /\ l = m + k /\ k \in Nat /\ m \in Nat /\ Len(q) \in Nat /\ Len(q2) \in Nat
  /\ m <= Len(q2) /\ k + m <= Len(q) /\ \A n \in 1..m : q2[n] = q[n + k]

LEMMA DueShift ==
  ASSUME NEW s, NEW q, NEW s2, NEW q2, NEW k, NEW m, NEW l,
         Shifted(q, q2, k, m, l),
         s2 = Dues(s, q)[k]
  PROVE  Dues(s2, q2)[m] = Dues(s, q)[l]
<1> USE DEF Shifted
<1> DEFINE f == Dues(s, q)
           f2 == Dues(s2, q2)
           S == {n \in 0..m : f2[n] = f[n + k]}
<1>1. f2[0] = s2 /\ \A n \in 1..Len(q2) : f2[n] = Applied(f2[n - 1], q2[n])
  BY DueSteps
<1>2. \A n \in 1..Len(q) : f[n] = Applied(f[n - 1], q[n])
  BY DueSteps
<1> HIDE DEF f, f2
<1>3. 0 \in S
  <2>1. 0 + k = k /\ 0 \in 0..m /\ s2 = f[k]
    BY DEF f
  <2> QED
    BY <1>1, <2>1
<1>4. ASSUME NEW n \in 0..m, n < m, n \in S PROVE n + 1 \in S
  <2>1. n + 1 \in 1..Len(q2) /\ n + 1 \in 1..m /\ n + 1 + k \in 1..Len(q)
        /\ (n + 1) - 1 = n /\ (n + 1 + k) - 1 = n + k
    BY <1>4
  <2>2. f2[n + 1] = Applied(f2[n], q2[n + 1])
    BY <1>1, <2>1
  <2>3. f[n + 1 + k] = Applied(f[n + k], q[n + 1 + k])
    BY <1>2, <2>1
  <2> QED
    BY <1>4, <2>1, <2>2, <2>3
<1> HIDE DEF S
<1>5. 0..m \subseteq S
  BY <1>3, <1>4, CountUp
<1>6. m \in S
  BY <1>5
<1> QED
  BY <1>6 DEF S, f, f2

\* A frame more at the end of the queue, and one fewer at its beginning.
LEMMA DueAppend ==
  ASSUME NEW s, NEW Frame, NEW q \in Seq(Frame), NEW x \in Frame
  PROVE  TextDue(s, Append(q, x)) = Applied(TextDue(s, q), x)
<1> DEFINE q2 == Append(q, x)
<1>1. /\ Len(q) \in Nat /\ Len(q2) = Len(q) + 1 /\ q2[Len(q) + 1] = x
      /\ \A n \in 1..Len(q) : q2[n] = q[n]
  OBVIOUS
<1> HIDE DEF q2
<1>2. Shifted(q2, q, 0, Len(q), Len(q))
  BY <1>1 DEF Shifted
<1>3. Dues(s, q)[Len(q)] = Dues(s, q2)[Len(q)]
  <2>1. PICK s2 : s2 = s
    OBVIOUS
  <2>2. s2 = Dues(s, q2)[0]
    BY <1>1, <2>1, DueSteps
  <2>3. Dues(s2, q)[Len(q)] = Dues(s, q2)[Len(q)]
    BY <1>2, <2>2, DueShift
  <2> QED
    BY <2>1, <2>3
<1>4. TextDue(s, q) = Dues(s, q)[Len(q)]
  BY <1>1, DueSteps
<1>5. TextDue(s, q2) = Dues(s, q2)[Len(q) + 1]
  BY <1>1, DueSteps
<1>6. Dues(s, q2)[Len(q) + 1] = Applied(Dues(s, q2)[Len(q)], x)
  <2>1. Len(q) + 1 \in 1..Len(q2) /\ Len(q) + 1 - 1 = Len(q)
    BY <1>1
  <2>2. \A n \in 1..Len(q2) : Dues(s, q2)[n] = Applied(Dues(s, q2)[n - 1], q2[n])
    BY <1>1, DueSteps
  <2> QED
    BY <1>1, <2>1, <2>2
<1> QED
  BY <1>3, <1>4, <1>5, <1>6 DEF q2

LEMMA DueHead ==
  ASSUME NEW s, NEW Frame, NEW q \in Seq(Frame), q # <<>>
  PROVE  TextDue(Applied(s, Head(q)), Tail(q)) = TextDue(s, q)
<1> DEFINE q2 == Tail(q)
           s2 == Applied(s, q[1])
<1>1. /\ Len(q) \in Nat \ {0} /\ Len(q2) = Len(q) - 1 /\ Len(q2) \in Nat /\ Head(q) = q[1]
      /\ \A n \in 1..Len(q2) : q2[n] = q[n + 1]
  OBVIOUS
<1> HIDE DEF q2, s2
<1>2. Shifted(q, q2, 1, Len(q2), Len(q))
  BY <1>1 DEF Shifted
<1>3. s2 = Dues(s, q)[1]
  <2>1. 1 \in 1..Len(q) /\ 1 - 1 = 0
    BY <1>1
  <2>2. Dues(s, q)[0] = s /\ \A n \in 1..Len(q) : Dues(s, q)[n] = Applied(Dues(s, q)[n - 1], q[n])
    BY <1>1, DueSteps
  <2> QED
    BY <2>1, <2>2 DEF s2
<1>4. Dues(s2, q2)[Len(q2)] = Dues(s, q)[Len(q)]
  BY <1>2, <1>3, DueShift
<1>5. TextDue(s2, q2) = Dues(s2, q2)[Len(q2)] /\ TextDue(s, q) = Dues(s, q)[Len(q)]
  BY <1>1, DueSteps
<1> QED
  BY <1>1, <1>4, <1>5 DEF q2, s2

LEMMA DueEmpty ==
  ASSUME NEW s
  PROVE  TextDue(s, <<>>) = s
<1>1. Len(<<>>) = 0 /\ 0 \in Nat
  OBVIOUS
<1> QED
  BY <1>1, DueSteps

-----------------------------------------------------------------------------
(***************************************************************************)
(* The end of a text.                                                      *)
(***************************************************************************)
Text   == Seq(Nat)
Frames == [kind : EventKinds \cup {None, "delta", "stream_snapshot"}, text : Text]

Ends(s, t) ==
  Len(s) <= Len(t) /\ \A i \in 1..Len(s) : s[i] = t[Len(t) - Len(s) + i]

LEMMA SuffixIsEnd ==
  ASSUME NEW s \in Text, NEW t \in Text
  PROVE  IsSuffix(s, t) <=> Ends(s, t)
<1> USE DEF Text
<1> DEFINE a == Reverse(s)
           b == Reverse(t)
<1>1. /\ Len(a) = Len(s) /\ Len(s) \in Nat /\ \A i \in 1..Len(s) : a[i] = s[Len(s) - i + 1]
      /\ Len(b) = Len(t) /\ Len(t) \in Nat /\ \A i \in 1..Len(t) : b[i] = t[Len(t) - i + 1]
      /\ a \in Seq(Nat) /\ b \in Seq(Nat)
  <2>1. /\ \A i \in 1..Len(s) : s[Len(s) - i + 1] \in Nat
        /\ \A i \in 1..Len(t) : t[Len(t) - i + 1] \in Nat
    OBVIOUS
  <2> QED
    BY <2>1 DEF Reverse
<1> HIDE DEF a, b
<1>2. IsSuffix(s, t) <=> Len(a) <= Len(b) /\ SubSeq(a, 1, Len(a)) = SubSeq(b, 1, Len(a))
  BY DEF IsSuffix, IsPrefix, a, b
<1>3. Len(a) <= Len(b) =>
        (SubSeq(a, 1, Len(a)) = SubSeq(b, 1, Len(a)) <=> \A i \in 1..Len(a) : a[i] = b[i])
  <2> SUFFICES ASSUME Len(a) <= Len(b)
               PROVE  SubSeq(a, 1, Len(a)) = SubSeq(b, 1, Len(a))
                        <=> \A i \in 1..Len(a) : a[i] = b[i]
    OBVIOUS
  <2> DEFINE c == SubSeq(a, 1, Len(a))
             d == SubSeq(b, 1, Len(a))
  <2>1. /\ c \in Seq(Nat) /\ d \in Seq(Nat) /\ Len(c) = Len(a) /\ Len(d) = Len(a)
        /\ \A i \in 1..Len(a) : c[i] = a[i] /\ d[i] = b[i]
    <3>1. 1 \in Int /\ Len(a) \in Int /\ Len(a) - 1 + 1 = Len(a) /\ (1 <= Len(a) \/ Len(a) = 0)
          /\ \A i \in 1..Len(a) : 1 + i - 1 = i /\ a[i] \in Nat /\ b[i] \in Nat
      <4>1. Len(a) \in Nat /\ Len(b) \in Nat
        BY <1>1
      <4>2. \A i \in 1..Len(a) : 1 + i - 1 = i /\ i \in 1..Len(b)
        BY <4>1
      <4>3. \A i \in 1..Len(a) : a[i] \in Nat /\ b[i] \in Nat
        BY <1>1, <4>2, ElementOfSeq
      <4> QED
        BY <4>1, <4>2, <4>3
    <3>2. /\ c \in Seq(Nat) /\ Len(c) = Len(a)
          /\ \A i \in 1..(Len(a) - 1 + 1) : c[i] = a[1 + i - 1]
      BY <3>1, SubSeqProperties
    <3>3. /\ d \in Seq(Nat) /\ Len(d) = Len(a)
          /\ \A i \in 1..(Len(a) - 1 + 1) : d[i] = b[1 + i - 1]
      BY <3>1, SubSeqProperties
    <3> HIDE DEF c, d
    <3> QED
      BY <3>1, <3>2, <3>3
  <2> HIDE DEF c, d
  <2>2. c = d <=> \A i \in 1..Len(a) : c[i] = d[i]
    BY <2>1, SeqEqual
  <2>3. c = d <=> \A i \in 1..Len(a) : a[i] = b[i]
    BY <2>1, <2>2
  <2> QED
    BY <2>3 DEF c, d
<1>4. Len(a) <= Len(b) =>
        ((\A i \in 1..Len(a) : a[i] = b[i]) <=>
           \A i \in 1..Len(s) : s[i] = t[Len(t) - Len(s) + i])
  <2> SUFFICES ASSUME Len(s) <= Len(t)
               PROVE  (\A i \in 1..Len(s) : a[i] = b[i]) <=>
                        \A i \in 1..Len(s) : s[i] = t[Len(t) - Len(s) + i]
    BY <1>1
  <2>0. Len(s) \in Nat /\ Len(t) \in Nat
    BY <1>1
  <2>1. \A i \in 1..Len(s) : /\ Len(s) - i + 1 \in 1..Len(s) /\ i \in 1..Len(t)
                            /\ Len(t) - (Len(s) - i + 1) + 1 = Len(t) - Len(s) + i
                            /\ Len(s) - (Len(s) - i + 1) + 1 = i
                            /\ Len(t) - i + 1 = Len(t) - Len(s) + (Len(s) - i + 1)
                            /\ Len(s) - i + 1 \in 1..Len(t)
    BY <2>0
  <2>2. ASSUME \A i \in 1..Len(s) : a[i] = b[i], NEW i \in 1..Len(s)
        PROVE  s[i] = t[Len(t) - Len(s) + i]
    <3>1. PICK j \in 1..Len(s) : j = Len(s) - i + 1
      BY <2>1
    <3>2. a[j] = b[j] /\ a[j] = s[Len(s) - j + 1] /\ b[j] = t[Len(t) - j + 1]
      BY <1>1, <2>1, <2>2
    <3>3. Len(s) - j + 1 = i /\ Len(t) - j + 1 = Len(t) - Len(s) + i
      BY <2>0, <3>1
    <3> QED
      BY <3>2, <3>3
  <2>3. ASSUME \A i \in 1..Len(s) : s[i] = t[Len(t) - Len(s) + i], NEW i \in 1..Len(s)
        PROVE  a[i] = b[i]
    <3>1. PICK j \in 1..Len(s) : j = Len(s) - i + 1
      BY <2>1
    <3>2. s[j] = t[Len(t) - Len(s) + j] /\ a[i] = s[j] /\ b[i] = t[Len(t) - i + 1]
      BY <1>1, <2>1, <2>3, <3>1
    <3>3. Len(t) - Len(s) + j = Len(t) - i + 1
      BY <2>0, <3>1
    <3> QED
      BY <3>2, <3>3
  <2> QED
    BY <2>2, <2>3
<1> QED
  BY <1>1, <1>2, <1>3, <1>4 DEF Ends

LEMMA EndsFacts ==
  ASSUME NEW s \in Text, NEW t \in Text
  PROVE  /\ Ends(<<>>, t) /\ Ends(t, t)
         /\ \A d \in Nat : Ends(s, t) => Ends(Append(s, d), Append(t, d))
         /\ \A u \in Text : Ends(s, t) => Ends(s \o u, t \o u)
         /\ \A u \in Text : Ends(s, t) /\ Ends(t, u) => Ends(s, u)
         /\ Ends(s, t) => \E n \in 1..(Len(t) + 1) : s = SubSeq(t, n, Len(t))
<1> USE DEF Text
<1>1. Ends(<<>>, t) /\ Ends(t, t)
  BY DEF Ends
<1>2. ASSUME NEW d \in Nat, Ends(s, t) PROVE Ends(Append(s, d), Append(t, d))
  <2>1. /\ Len(Append(s, d)) = Len(s) + 1 /\ Len(Append(t, d)) = Len(t) + 1
        /\ \A i \in 1..(Len(s) + 1) : Append(s, d)[i] = IF i = Len(s) + 1 THEN d ELSE s[i]
        /\ \A i \in 1..(Len(t) + 1) : Append(t, d)[i] = IF i = Len(t) + 1 THEN d ELSE t[i]
        /\ Len(s) \in Nat /\ Len(t) \in Nat
    OBVIOUS
  <2>2. Len(s) <= Len(t) /\ \A i \in 1..Len(s) : s[i] = t[Len(t) - Len(s) + i]
    BY <1>2 DEF Ends
  <2>3. ASSUME NEW i \in 1..(Len(s) + 1)
        PROVE  Append(s, d)[i] = Append(t, d)[(Len(t) + 1) - (Len(s) + 1) + i]
    <3>1. (Len(t) + 1) - (Len(s) + 1) + i \in 1..(Len(t) + 1)
      BY <2>1, <2>2
    <3>2. PICK j \in 1..(Len(t) + 1) : j = (Len(t) + 1) - (Len(s) + 1) + i
      BY <3>1
    <3>3. (i = Len(s) + 1 /\ j = Len(t) + 1) \/
          (i \in 1..Len(s) /\ i # Len(s) + 1 /\ j # Len(t) + 1 /\ j = Len(t) - Len(s) + i)
      <4>1. Len(s) \in Nat /\ Len(t) \in Nat /\ Len(s) <= Len(t)
        BY <2>1, <2>2
      <4>2. i = Len(s) + 1 \/ i \in 1..Len(s)
        BY <4>1
      <4>3. i = Len(s) + 1 => j = Len(t) + 1
        BY <3>2, <4>1
      <4>4. i \in 1..Len(s) => i # Len(s) + 1 /\ j # Len(t) + 1 /\ j = Len(t) - Len(s) + i
        BY <3>2, <4>1
      <4> QED
        BY <4>2, <4>3, <4>4
    <3> QED
      BY <2>1, <2>2, <3>2, <3>3
  <2>4. Len(Append(s, d)) <= Len(Append(t, d))
    BY <2>1, <2>2
  <2> QED
    BY <2>1, <2>3, <2>4 DEF Ends
<1>3. ASSUME NEW u \in Text, Ends(s, t) PROVE Ends(s \o u, t \o u)
  <2>1. /\ Len(s \o u) = Len(s) + Len(u) /\ Len(t \o u) = Len(t) + Len(u)
        /\ \A i \in 1..(Len(s) + Len(u)) :
             (s \o u)[i] = IF i <= Len(s) THEN s[i] ELSE u[i - Len(s)]
        /\ \A i \in 1..(Len(t) + Len(u)) :
             (t \o u)[i] = IF i <= Len(t) THEN t[i] ELSE u[i - Len(t)]
        /\ Len(s) \in Nat /\ Len(t) \in Nat /\ Len(u) \in Nat
    OBVIOUS
  <2>2. Len(s) <= Len(t) /\ \A i \in 1..Len(s) : s[i] = t[Len(t) - Len(s) + i]
    BY <1>3 DEF Ends
  <2>3. ASSUME NEW i \in 1..(Len(s) + Len(u))
        PROVE  (s \o u)[i] = (t \o u)[(Len(t) + Len(u)) - (Len(s) + Len(u)) + i]
    <3>0. Len(t) - Len(s) + i \in 1..(Len(t) + Len(u))
      <4>1. Len(s) \in Nat /\ Len(t) \in Nat /\ Len(u) \in Nat /\ Len(s) <= Len(t)
        BY <2>1, <2>2
      <4> QED
        BY <4>1
    <3>1. PICK j \in 1..(Len(t) + Len(u)) : j = Len(t) - Len(s) + i
      BY <3>0
    <3>2. ASSUME i <= Len(s) PROVE (s \o u)[i] = (t \o u)[j]
      <4>1. i \in 1..Len(s) /\ j <= Len(t)
        BY <2>1, <3>1, <3>2
      <4> QED
        BY <2>1, <2>2, <3>1, <3>2, <4>1
    <3>3. ASSUME i > Len(s) PROVE (s \o u)[i] = (t \o u)[j]
      <4>1. j > Len(t) /\ j - Len(t) = i - Len(s)
        BY <2>1, <3>1, <3>3
      <4> QED
        BY <2>1, <2>2, <3>1, <3>3, <4>1
    <3>4. j = (Len(t) + Len(u)) - (Len(s) + Len(u)) + i /\ (i <= Len(s) \/ i > Len(s))
      BY <2>1, <3>1
    <3>5. (s \o u)[i] = (t \o u)[j]
      BY <3>2, <3>3, <3>4
    <3> QED
      BY <3>4, <3>5
  <2> QED
    BY <2>1, <2>2, <2>3 DEF Ends
<1>4. ASSUME NEW u \in Text, Ends(s, t), Ends(t, u) PROVE Ends(s, u)
  <2>1. /\ Len(s) <= Len(t) /\ \A i \in 1..Len(s) : s[i] = t[Len(t) - Len(s) + i]
        /\ Len(t) <= Len(u) /\ \A i \in 1..Len(t) : t[i] = u[Len(u) - Len(t) + i]
        /\ Len(s) \in Nat /\ Len(t) \in Nat /\ Len(u) \in Nat
    BY <1>4 DEF Ends
  <2>2. ASSUME NEW i \in 1..Len(s) PROVE s[i] = u[Len(u) - Len(s) + i]
    <3>0. Len(t) - Len(s) + i \in 1..Len(t)
      BY <2>1
    <3>1. PICK j \in 1..Len(t) : j = Len(t) - Len(s) + i
      BY <3>0
    <3>2. Len(u) - Len(t) + j = Len(u) - Len(s) + i
      BY <2>1, <3>1
    <3> QED
      BY <2>1, <3>1, <3>2
  <2> QED
    BY <2>1, <2>2 DEF Ends
<1>5. ASSUME Ends(s, t) PROVE \E n \in 1..(Len(t) + 1) : s = SubSeq(t, n, Len(t))
  <2> DEFINE n == Len(t) - Len(s) + 1
             u == SubSeq(t, n, Len(t))
  <2>1. Len(s) <= Len(t) /\ \A i \in 1..Len(s) : s[i] = t[Len(t) - Len(s) + i]
    BY <1>5 DEF Ends
  <2>2. n \in 1..(Len(t) + 1)
    BY <2>1
  <2>3. /\ u \in Seq(Nat) /\ Len(u) = Len(s)
        /\ \A i \in 1..Len(s) : u[i] = t[Len(t) - Len(s) + i]
    BY <2>1, <2>2
  <2> HIDE DEF u
  <2>4. s = u
    BY <2>1, <2>3, SeqEqual
  <2> QED
    BY <2>2, <2>4 DEF u
<1> QED
  BY <1>1, <1>2, <1>3, <1>4, <1>5

\* What a frame does to a text it does to its end.
LEMMA AppliedFacts ==
  ASSUME NEW s \in Text, NEW f \in Frames
  PROVE  /\ Applied(s, f) \in Text
         /\ \A t \in Text : Ends(s, t) => Ends(Applied(s, f), Applied(t, f))
<1>1. f.text \in Text
  BY DEF Frames
<1>2. \A t \in Text : t \o f.text \in Text
  BY <1>1 DEF Text
<1>3. <<>> \in Text
  BY DEF Text
<1>4. \A t \in Text :
        \/ Applied(t, f) = t \o f.text /\ f.kind = "delta"
        \/ Applied(t, f) = f.text /\ f.kind = "stream_snapshot"
        \/ Applied(t, f) = <<>> /\ f.kind \notin {"delta", "stream_snapshot"} /\ IsBoundary(f.kind)
        \/ Applied(t, f) = t /\ f.kind \notin {"delta", "stream_snapshot"} /\ ~IsBoundary(f.kind)
  <2> TAKE t \in Text
  <2>1. CASE f.kind = "delta"
    BY <2>1 DEF Applied, IsBoundary
  <2>2. CASE f.kind = "stream_snapshot"
    BY <2>2 DEF Applied, IsBoundary
  <2>3. CASE f.kind \notin {"delta", "stream_snapshot"}
    <3>1. Applied(t, f) = IF IsBoundary(f.kind) THEN <<>> ELSE t
      BY <2>3 DEF Applied
    <3> QED
      BY <2>3, <3>1 DEF IsBoundary
  <2> QED
    BY <2>1, <2>2, <2>3
<1>5. Applied(s, f) \in Text
  BY <1>1, <1>2, <1>3, <1>4
<1>6. ASSUME NEW t \in Text, Ends(s, t) PROVE Ends(Applied(s, f), Applied(t, f))
  <2>1. CASE f.kind = "delta"
    <3>1. Applied(s, f) = s \o f.text /\ Applied(t, f) = t \o f.text
      BY <1>4, <2>1
    <3> QED
      BY <1>1, <1>6, <3>1, EndsFacts
  <2>2. CASE f.kind = "stream_snapshot" \/ (f.kind # "delta" /\ IsBoundary(f.kind))
    <3>1. Applied(s, f) = Applied(t, f)
      BY <1>4, <2>2
    <3> QED
      BY <1>5, <3>1, EndsFacts
  <2>3. CASE f.kind \notin {"delta", "stream_snapshot"} /\ ~IsBoundary(f.kind)
    <3>1. Applied(s, f) = s /\ Applied(t, f) = t
      BY <1>4, <2>3
    <3> QED
      BY <1>6, <3>1
  <2> QED
    BY <2>1, <2>2, <2>3
<1> QED
  BY <1>5, <1>6

LEMMA DueType ==
  ASSUME NEW s \in Text, NEW q \in Seq(Frames)
  PROVE  TextDue(s, q) \in Text
<1> DEFINE f == Dues(s, q)
           S == {n \in 0..Len(q) : f[n] \in Text}
<1>0. Len(q) \in Nat /\ \A n \in 1..Len(q) : q[n] \in Frames
  OBVIOUS
<1>1. /\ f[0] = s /\ TextDue(s, q) = f[Len(q)]
      /\ \A n \in 1..Len(q) : f[n] = Applied(f[n - 1], q[n])
  BY <1>0, DueSteps
<1> HIDE DEF f
<1>2. 0 \in S
  BY <1>0, <1>1
<1>3. ASSUME NEW n \in 0..Len(q), n < Len(q), n \in S PROVE n + 1 \in S
  <2>1. n + 1 \in 1..Len(q) /\ n + 1 \in 0..Len(q) /\ n + 1 - 1 = n
    BY <1>0, <1>3
  <2>2. f[n + 1] = Applied(f[n], q[n + 1]) /\ f[n] \in Text
    BY <1>1, <1>3, <2>1
  <2> QED
    BY <1>0, <2>1, <2>2, AppliedFacts
<1> HIDE DEF S
<1>4. 0..Len(q) \subseteq S
  BY <1>0, <1>2, <1>3, CountUp
<1>5. Len(q) \in 0..Len(q)
  BY <1>0
<1> QED
  BY <1>1, <1>4, <1>5 DEF S

\* A text that is cleared goes on as the end of what it would have been.
LEMMA DueCleared ==
  ASSUME NEW s \in Text, NEW q \in Seq(Frames)
  PROVE  Ends(TextDue(<<>>, q), TextDue(s, q))
<1> DEFINE f == Dues(s, q)
           g == Dues(<<>>, q)
           S == {n \in 0..Len(q) : f[n] \in Text /\ g[n] \in Text /\ Ends(g[n], f[n])}
<1>0. Len(q) \in Nat /\ \A n \in 1..Len(q) : q[n] \in Frames
  OBVIOUS
<1>1. /\ f[0] = s /\ TextDue(s, q) = f[Len(q)]
      /\ \A n \in 1..Len(q) : f[n] = Applied(f[n - 1], q[n])
  BY <1>0, DueSteps
<1>2. /\ g[0] = <<>> /\ TextDue(<<>>, q) = g[Len(q)]
      /\ \A n \in 1..Len(q) : g[n] = Applied(g[n - 1], q[n])
  BY <1>0, DueSteps
<1> HIDE DEF f, g
<1>3. 0 \in S
  <2>1. <<>> \in Text
    BY DEF Text
  <2> QED
    BY <1>0, <1>1, <1>2, <2>1, EndsFacts
<1>4. ASSUME NEW n \in 0..Len(q), n < Len(q), n \in S PROVE n + 1 \in S
  <2>1. n + 1 \in 1..Len(q) /\ n + 1 \in 0..Len(q) /\ n + 1 - 1 = n
    BY <1>0, <1>4
  <2>2. /\ f[n + 1] = Applied(f[n], q[n + 1]) /\ f[n] \in Text
        /\ g[n + 1] = Applied(g[n], q[n + 1]) /\ g[n] \in Text /\ Ends(g[n], f[n])
    BY <1>1, <1>2, <1>4, <2>1
  <2> QED
    BY <1>0, <2>1, <2>2, AppliedFacts
<1> HIDE DEF S
<1>5. 0..Len(q) \subseteq S
  BY <1>0, <1>3, <1>4, CountUp
<1>6. Len(q) \in 0..Len(q)
  BY <1>0
<1> QED
  BY <1>1, <1>2, <1>5, <1>6 DEF S

\* Frames that find room in the queue go behind it.
LEMMA SendFacts ==
  ASSUME StreamAssumption, NEW q \in Seq(Frames), NEW fs \in Seq(Frames)
  PROVE  /\ Send(q, fs) \in Seq(Frames)
         /\ AllSent(q, fs) => Send(q, fs) = q \o fs
<1>1. StreamCap \in Nat /\ Len(q) \in Nat /\ Len(fs) \in Nat
  BY DEF StreamAssumption
<1>2. CASE AllSent(q, fs)
  <2>1. Send(q, fs) = q \o SubSeq(fs, 1, Len(fs))
    BY <1>2 DEF Send, AllSent
  <2>2. SubSeq(fs, 1, Len(fs)) = fs
    BY SubSeqFull
  <2>3. q \o fs \in Seq(Frames)
    OBVIOUS
  <2> QED
    BY <2>1, <2>2, <2>3
<1>3. CASE ~AllSent(q, fs)
  <2> DEFINE n == StreamCap - Len(q)
             t == SubSeq(fs, 1, n)
  <2>1. Send(q, fs) = q \o t
    BY <1>3 DEF Send, AllSent
  <2>2. n \in Int /\ \A i \in 1..n : i \in 1..Len(fs)
    BY <1>1, <1>3 DEF AllSent
  <2>3. t \in Seq(Frames)
    BY <2>2, ElementOfSeq, SubSeqProperties
  <2> HIDE DEF t
  <2> QED
    BY <1>3, <2>1, <2>3
<1> QED
  BY <1>2, <1>3

LEMMA SendOne ==
  ASSUME StreamAssumption, NEW q \in Seq(Frames), NEW f \in Frames, AllSent(q, <<f>>), NEW s
  PROVE  TextDue(s, Send(q, <<f>>)) = Applied(TextDue(s, q), f)
<1>1. <<f>> \in Seq(Frames) /\ q \o <<f>> = Append(q, f)
  OBVIOUS
<1>2. Send(q, <<f>>) = Append(q, f)
  BY <1>1, SendFacts
<1>3. TextDue(s, Append(q, f)) = Applied(TextDue(s, q), f)
  BY DueAppend
<1> QED
  BY <1>2, <1>3

LEMMA SendTwo ==
  ASSUME StreamAssumption, NEW q \in Seq(Frames), NEW f \in Frames, NEW g \in Frames,
         AllSent(q, <<f, g>>), NEW s
  PROVE  TextDue(s, Send(q, <<f, g>>)) = Applied(Applied(TextDue(s, q), f), g)
<1> DEFINE q2 == Append(q, f)
<1>1. <<f, g>> \in Seq(Frames) /\ q \o <<f, g>> = Append(q2, g) /\ q2 \in Seq(Frames)
  OBVIOUS
<1>2. Send(q, <<f, g>>) = Append(q2, g)
  BY <1>1, SendFacts
<1>3. TextDue(s, q2) = Applied(TextDue(s, q), f)
  BY DueAppend
<1>4. TextDue(s, Append(q2, g)) = Applied(TextDue(s, q2), g)
  BY <1>1, DueAppend
<1> QED
  BY <1>2, <1>3, <1>4

-----------------------------------------------------------------------------
(***************************************************************************)
(* Readers that follow.                                                    *)
(***************************************************************************)
Due(r) == TextDue(text[r], inbox[r])

StreamTypeOK ==
  /\ count \in Nat /\ partial \in Text /\ turn \in BOOLEAN
  /\ told \in SUBSET Browsers /\ follows \in SUBSET told
  /\ stage \in [Senders -> {"free", "status", "append", "send"}]
  /\ sent \in [Senders -> EventKinds \cup {None}]
  /\ untold \in [Senders -> SUBSET Browsers]
  /\ inbox \in [Browsers -> Seq(Frames)] /\ text \in [Browsers -> Text]

\* pump has yet to tell r that the block has ended.
Ending(r) ==
  /\ IsBoundary(sent["pump"])
  /\ \/ stage["pump"] \in {"status", "append"}
     \/ stage["pump"] = "send" /\ r \in untold["pump"]

\* The text a reader that follows has due is the end of the block, or of one that has
\* ended, of which it will hear.
FollowAt(r) == r \in follows => Ends(Due(r), partial) \/ Ending(r)
FollowInv == StreamTypeOK /\ \A r \in Browsers : FollowAt(r)

\* Frames are frames.
LEMMA FrameTypes ==
  ASSUME StreamTypeOK
  PROVE  /\ \A d \in Nat : Delta(d) \in Frames /\ Delta(d).kind = "delta" /\ Delta(d).text = <<d>>
         /\ Snapshot(partial) \in Frames /\ Snapshot(partial).kind = "stream_snapshot"
         /\ Snapshot(partial).text = partial
         /\ StatusFrame \in Frames /\ StatusFrame.kind \in {"running", "idle"}
         /\ \A kind \in EventKinds \cup {None} : Stored(kind) \in Frames /\ Stored(kind).kind = kind
<1>1. <<>> \in Text /\ \A d \in Nat : <<d>> \in Text
  BY DEF Text
<1> QED
  BY <1>1 DEF StreamTypeOK, Delta, Snapshot, StatusFrame, Stored, Frames, EventKinds

LEMMA GreetingTypes ==
  ASSUME StreamTypeOK
  PROVE  Greeting \in Seq(Frames)
<1>1. StatusFrame \in Frames /\ Snapshot(partial) \in Frames
  BY FrameTypes
<1>2. <<StatusFrame>> \in Seq(Frames) /\ <<StatusFrame, Snapshot(partial)>> \in Seq(Frames)
  BY <1>1
<1> QED
  BY <1>2 DEF Greeting

LEMMA DueTypes ==
  ASSUME StreamTypeOK, NEW r \in Browsers
  PROVE  Due(r) \in Text
BY DueType DEF StreamTypeOK, Due

\* Steps of the sources keep the types.
LEMMA StreamSourceTypes ==
  ASSUME StreamAssumption, StreamTypeOK
  PROVE  /\ PumpDelta => StreamTypeOK'
         /\ \A kind \in EventKinds : PumpEvent(kind) => StreamTypeOK'
         /\ PumpStatus => StreamTypeOK'
         /\ HandlerEvent => StreamTypeOK'
<1> USE DEF StreamTypeOK, Senders
<1>1. ASSUME PumpDelta PROVE StreamTypeOK'
  <2>1. count' \in Nat /\ partial' \in Text
    BY <1>1 DEF PumpDelta, Text
  <2>2. <<Delta(count')>> \in Seq(Frames)
    <3>1. Delta(count') \in Frames
      BY <2>1, FrameTypes
    <3> QED
      BY <3>1
  <2>3. \A r \in Browsers : Send(inbox[r], <<Delta(count')>>) \in Seq(Frames)
    BY <2>2, SendFacts
  <2>4. inbox' \in [Browsers -> Seq(Frames)]
    BY <1>1, <2>3 DEF PumpDelta
  <2>5. follows' \in SUBSET told'
    BY <1>1 DEF PumpDelta
  <2> QED
    BY <1>1, <2>1, <2>4, <2>5 DEF PumpDelta, broadcasts, screen
<1>2. ASSUME NEW kind \in EventKinds, PumpEvent(kind) PROVE StreamTypeOK'
  <2>1. partial' \in Text
    BY <1>2 DEF PumpEvent, ClearStream, Text
  <2> QED
    BY <1>2, <2>1 DEF PumpEvent, link, screen
<1>3. ASSUME PumpStatus PROVE StreamTypeOK'
  BY <1>3 DEF PumpStatus, link, screen
<1>4. ASSUME HandlerEvent PROVE StreamTypeOK'
  BY <1>4 DEF HandlerEvent, source, link, screen, EventKinds
<1> QED
  BY <1>1, <1>2, <1>3, <1>4

\* So do those of a broadcast.
LEMMA StreamCastTypes ==
  ASSUME StreamAssumption, StreamTypeOK, NEW w \in Senders
  PROVE  /\ CopySubscribers(w) => StreamTypeOK'
         /\ AppendFails(w) => StreamTypeOK'
         /\ \A r \in Browsers : DeliverEvent(w, r) => StreamTypeOK'
<1> USE DEF StreamTypeOK
<1>1. ASSUME CopySubscribers(w) PROVE StreamTypeOK'
  BY <1>1 DEF CopySubscribers, Through, source, link, screen
<1>2. ASSUME AppendFails(w) PROVE StreamTypeOK'
  BY <1>2 DEF AppendFails, source, link, screen
<1>3. ASSUME NEW r \in Browsers, DeliverEvent(w, r) PROVE StreamTypeOK'
  <2>1. Send(inbox[r], <<Stored(sent[w])>>) \in Seq(Frames)
    <3>1. Stored(sent[w]) \in Frames
      BY FrameTypes
    <3>2. <<Stored(sent[w])>> \in Seq(Frames)
      BY <3>1
    <3> QED
      BY <3>2, SendFacts
  <2>2. inbox' = [inbox EXCEPT ![r] = Send(inbox[r], <<Stored(sent[w])>>)]
    BY <1>3 DEF DeliverEvent
  <2>3. inbox' \in [Browsers -> Seq(Frames)]
    BY <2>1, <2>2
  <2> QED
    BY <1>3, <2>3 DEF DeliverEvent, Through, source, screen
<1> QED
  BY <1>1, <1>2, <1>3

\* And those of a connection and a page.
LEMMA StreamPageTypes ==
  ASSUME StreamAssumption, StreamTypeOK, NEW r \in Browsers
  PROVE  /\ OpenConnection(r) \/ LoseConnection(r) => StreamTypeOK'
         /\ Subscribe(r) => StreamTypeOK'
         /\ PageStep(r) => StreamTypeOK'
<1> USE DEF StreamTypeOK
<1>0. <<>> \in Text /\ <<>> \in Seq(Frames)
  BY DEF Text
<1>1. ASSUME OpenConnection(r) PROVE StreamTypeOK'
  BY <1>1 DEF OpenConnection, source, broadcasts
<1>2. ASSUME LoseConnection(r) PROVE StreamTypeOK'
  BY <1>0, <1>2 DEF LoseConnection, screen
<1>3. ASSUME Subscribe(r) PROVE StreamTypeOK'
  <2>1. Send(inbox[r], Greeting) \in Seq(Frames)
    BY GreetingTypes, SendFacts
  <2>2. inbox' = [inbox EXCEPT ![r] = Send(inbox[r], Greeting)]
    BY <1>3 DEF Subscribe
  <2>3. inbox' \in [Browsers -> Seq(Frames)]
    BY <2>1, <2>2
  <2>4. follows' \in SUBSET told'
    BY <1>3 DEF Subscribe
  <2> QED
    BY <1>3, <2>3, <2>4 DEF Subscribe, broadcasts, screen
<1>4. ASSUME ReceiveFrame(r) PROVE StreamTypeOK'
  <2>1. /\ Head(inbox[r]) \in Frames /\ Tail(inbox[r]) \in Seq(Frames) /\ text[r] \in Text
    BY <1>4 DEF ReceiveFrame
  <2>2. Applied(text[r], Head(inbox[r])) \in Text
    BY <2>1, AppliedFacts
  <2>3. /\ inbox' = [inbox EXCEPT ![r] = Tail(inbox[r])]
        /\ text' = [text EXCEPT ![r] = Applied(text[r], Head(inbox[r]))]
    BY <1>4 DEF ReceiveFrame
  <2>4. inbox' \in [Browsers -> Seq(Frames)] /\ text' \in [Browsers -> Text]
    BY <2>1, <2>2, <2>3
  <2> QED
    BY <1>4, <2>4 DEF ReceiveFrame, source, broadcasts
<1>5. ASSUME OpenText(r) PROVE StreamTypeOK'
  BY <1>0, <1>5 DEF OpenText, source, broadcasts, link
<1>6. ASSUME Opened(r) PROVE StreamTypeOK'
  BY <1>6 DEF Opened, source, broadcasts
<1>7. ASSUME NEW found \in BOOLEAN, CatchUpEnds(r, found) PROVE StreamTypeOK'
  BY <1>0, <1>7 DEF CatchUpEnds, source, broadcasts, link
<1> QED
  BY <1>1, <1>2, <1>3, <1>4, <1>5, <1>6, <1>7 DEF PageStep

-----------------------------------------------------------------------------
(***************************************************************************)
(* What a step of the stream is to LiveText.                               *)
(***************************************************************************)
\* The text LiveText speaks of.
Seen == [r \in Browsers |-> IF r \in follows THEN Due(r) ELSE <<>>]

LEMMA SeenFacts ==
  /\ \A r \in Browsers : Seen[r] = IF r \in follows THEN Due(r) ELSE <<>>
  /\ \A r \in Browsers : Seen'[r] = IF r \in follows' THEN Due(r)' ELSE <<>>
  /\ Seen = [r \in Browsers |-> Seen[r]] /\ Seen' = [r \in Browsers |-> Seen'[r]]
BY DEF Seen

LEMMA LiveSteps ==
  /\ Live!vars = <<count, partial, follows, Seen>>
  /\ Live!EndBlock <=> partial' = <<>> /\ UNCHANGED <<count, follows, Seen>>
  /\ \A r \in Browsers :
       Live!Join(r) <=> /\ follows' = follows \cup {r} /\ UNCHANGED <<count, partial>>
                        /\ Seen' = [Seen EXCEPT ![r] = partial]
  /\ \A r \in Browsers :
       Live!Trim(r) <=> /\ r \in follows /\ UNCHANGED <<count, partial, follows>>
                        /\ \E n \in 1..(Len(Seen[r]) + 1) :
                             Seen' = [Seen EXCEPT ![r] = SubSeq(Seen[r], n, Len(Seen[r]))]
  /\ \A R \in SUBSET Browsers :
       Live!Leave(R) <=> /\ follows' = follows \ R /\ UNCHANGED <<count, partial>>
                         /\ Seen' = [r \in Browsers |-> IF r \in R THEN <<>> ELSE Seen[r]]
<1>1. Live!vars = <<count, partial, follows, Seen>>
  BY DEF Live!vars, Seen, Due
<1>2. Live!EndBlock <=> partial' = <<>> /\ UNCHANGED <<count, follows, Seen>>
  BY DEF Live!EndBlock, Seen, Due
<1>3. ASSUME NEW r \in Browsers
      PROVE Live!Join(r) <=> /\ follows' = follows \cup {r} /\ UNCHANGED <<count, partial>>
                             /\ Seen' = [Seen EXCEPT ![r] = partial]
  BY DEF Live!Join, Seen, Due
<1>4. ASSUME NEW r \in Browsers
      PROVE Live!Trim(r) <=> /\ r \in follows /\ UNCHANGED <<count, partial, follows>>
                        /\ \E n \in 1..(Len(Seen[r]) + 1) :
                             Seen' = [Seen EXCEPT ![r] = SubSeq(Seen[r], n, Len(Seen[r]))]
  BY DEF Live!Trim, Seen, Due
<1>5. ASSUME NEW R \in SUBSET Browsers
      PROVE Live!Leave(R) <=> /\ follows' = follows \ R /\ UNCHANGED <<count, partial>>
                         /\ Seen' = [r \in Browsers |-> IF r \in R THEN <<>> ELSE Seen[r]]
  BY DEF Live!Leave, Seen, Due
<1> QED
  BY <1>1, <1>2, <1>3, <1>4, <1>5

LEMMA LiveWrites ==
  ASSUME NEW R \in SUBSET Browsers, \A r \in follows : r \in Browsers /\ IsSuffix(Seen[r], partial),
         count' = count + 1, partial' = Append(partial, count'), follows' = follows \ R,
         \A r \in Browsers : Seen'[r] = IF r \in follows' THEN Append(Seen[r], count')
                                       ELSE IF r \in R THEN <<>> ELSE Seen[r]
  PROVE  Live!Write(R)
<1>1. \A r \in follows : Live!IsSuffix(Seen[r], partial)
  BY DEF IsSuffix, IsPrefix, Reverse, Live!IsSuffix, Live!IsPrefix, Live!Reverse
<1>2. Seen' = [r \in Browsers |-> CASE r \in follows' -> Append(Seen[r], count')
                               [] r \in R -> <<>> [] OTHER -> Seen[r]]
  BY SeenFacts
<1> QED
  BY <1>1, <1>2 DEF Live!Write, Seen, Due

\* The same, said of the texts due.
LEMMA LiveQuiet ==
  ASSUME UNCHANGED <<count, follows>>,
         \A q \in Browsers : q \in follows => Due(q)' = Due(q)
  PROVE  /\ partial' = partial => UNCHANGED Live!vars
         /\ partial' = <<>> => Live!Next
<1>1. Seen' = Seen
  BY SeenFacts
<1>2. partial' = <<>> => Live!EndBlock
  BY <1>1, LiveSteps
<1>3. partial' = partial => UNCHANGED Live!vars
  BY <1>1 DEF Live!vars, Seen, Due
<1>4. Live!EndBlock => Live!Next
  BY DEF Live!Next
<1> QED
  BY <1>2, <1>3, <1>4

LEMMA LiveJoins ==
  ASSUME UNCHANGED <<count, partial>>, NEW r \in Browsers, follows' = follows \cup {r},
         Due(r)' = partial, \A q \in Browsers : q # r /\ q \in follows => Due(q)' = Due(q)
  PROVE  Live!Next
<1>1. \A q \in Browsers : Seen'[q] = IF q = r THEN partial ELSE Seen[q]
  BY SeenFacts
<1>2. Seen' = [Seen EXCEPT ![r] = partial]
  BY <1>1, SeenFacts
<1>3. Live!Join(r)
  BY <1>2, LiveSteps
<1> QED
  BY <1>3 DEF Live!Next

LEMMA LiveTrims ==
  ASSUME StreamTypeOK, StreamTypeOK', UNCHANGED <<count, partial, follows>>, NEW r \in Browsers,
         r \in follows, Ends(Due(r)', Due(r)),
         \A q \in Browsers : q # r /\ q \in follows => Due(q)' = Due(q)
  PROVE  Live!Next
<1>1. Due(r) \in Text /\ Due(r)' \in Text
  <2>1. Due(r) \in Text
    BY DueTypes
  <2>2. text'[r] \in Text /\ inbox'[r] \in Seq(Frames)
    BY DEF StreamTypeOK
  <2> QED
    BY <2>1, <2>2, DueType DEF Due
<1>2. PICK n \in 1..(Len(Due(r)) + 1) : Due(r)' = SubSeq(Due(r), n, Len(Due(r)))
  <2>1. PICK s \in Text, t \in Text : s = Due(r)' /\ t = Due(r)
    BY <1>1
  <2>2. \E n \in 1..(Len(t) + 1) : s = SubSeq(t, n, Len(t))
    BY <2>1, EndsFacts
  <2> QED
    BY <2>1, <2>2
<1>3. Seen[r] = Due(r)
  BY SeenFacts
<1>4. \A q \in Browsers : Seen'[q] = IF q = r THEN SubSeq(Seen[r], n, Len(Seen[r])) ELSE Seen[q]
  BY <1>2, <1>3, SeenFacts
<1>5. Seen' = [Seen EXCEPT ![r] = SubSeq(Seen[r], n, Len(Seen[r]))]
  BY <1>4, SeenFacts
<1>6. n \in 1..(Len(Seen[r]) + 1)
  BY <1>2, <1>3
<1>7. Live!Trim(r)
  BY <1>5, <1>6, LiveSteps
<1> QED
  BY <1>7 DEF Live!Next

LEMMA LiveLeaves ==
  ASSUME UNCHANGED <<count, partial>>, NEW R \in SUBSET Browsers, follows' = follows \ R,
         \A q \in Browsers : q \in follows' => Due(q)' = Due(q)
  PROVE  Live!Next
<1>1. \A q \in Browsers : Seen'[q] = IF q \in R THEN <<>> ELSE Seen[q]
  BY SeenFacts
<1>2. Seen' = [q \in Browsers |-> IF q \in R THEN <<>> ELSE Seen[q]]
  BY <1>1, SeenFacts
<1>3. Live!Leave(R)
  BY <1>2, LiveSteps
<1> QED
  BY <1>3 DEF Live!Next

-----------------------------------------------------------------------------
(***************************************************************************)
(* Step by step.                                                           *)
(***************************************************************************)
\* Every step keeps the invariant and is a step of LiveText, or none.
Refines == (\A r \in Browsers : FollowAt(r)') /\ [Live!Next]_(Live!vars)

\* broadcastDelta: the delta goes behind the end of the block.
LEMMA DeltaRefines ==
  ASSUME StreamAssumption, FollowInv, PumpDelta
  PROVE  Refines
<1> USE DEF FollowInv, StreamTypeOK
<1> DEFINE f == Delta(count')
           lost == {r \in follows : ~AllSent(inbox[r], <<f>>)}
<1>1. /\ count' = count + 1 /\ partial' = Append(partial, count') /\ text' = text
      /\ stage' = stage /\ stage["pump"] = "free" /\ follows' = follows \ lost /\ told' = told
      /\ \A r \in Browsers : r \in follows => inbox'[r] = Send(inbox[r], <<f>>)
  BY DEF PumpDelta, broadcasts, screen
<1>2. count' \in Nat
  BY <1>1
<1>3. f \in Frames /\ f.kind = "delta" /\ f.text = <<count'>>
  BY <1>2, FrameTypes
<1> HIDE DEF f
<1>4. ASSUME NEW r \in Browsers, r \in follows
      PROVE  Due(r) \in Text /\ Ends(Due(r), partial)
    BY <1>1, <1>4, DueTypes DEF FollowAt, Ending
<1>5. ASSUME NEW r \in Browsers, r \in follows'
      PROVE  Due(r)' = Append(Due(r), count')
  <2>1. r \in follows /\ AllSent(inbox[r], <<f>>)
    BY <1>1, <1>5
  <2>2. TextDue(text[r], Send(inbox[r], <<f>>)) = Applied(TextDue(text[r], inbox[r]), f)
    BY <1>3, <2>1, SendOne
  <2>3. Due(r)' = Applied(Due(r), f)
    BY <1>1, <2>1, <2>2 DEF Due
  <2>4. Applied(Due(r), f) = Due(r) \o <<count'>>
    BY <1>3 DEF Applied
  <2>5. Due(r) \in Seq(Nat)
    BY <2>1, <1>4 DEF Text
  <2> QED
    BY <1>2, <2>3, <2>4, <2>5
<1>6. ASSUME NEW r \in Browsers PROVE FollowAt(r)'
  <2> SUFFICES ASSUME r \in follows' PROVE Ends(Due(r)', partial')
    BY DEF FollowAt
  <2>1. r \in follows
    BY <1>1
  <2>2. Ends(Append(Due(r), count'), Append(partial, count'))
    BY <1>2, <1>4, <2>1, EndsFacts
  <2> QED
    BY <1>1, <1>5, <2>2
<1>7. PICK R \in SUBSET Browsers : R = lost
  OBVIOUS
<1>8. Live!Write(R)
  <2>1. \A r \in follows : r \in Browsers /\ IsSuffix(Seen[r], partial)
    BY <1>4, SuffixIsEnd, SeenFacts
  <2>2. \A r \in Browsers : Seen'[r] = IF r \in follows' THEN Append(Seen[r], count')
                                     ELSE IF r \in R THEN <<>> ELSE Seen[r]
    BY <1>1, <1>5, <1>7, SeenFacts
  <2> HIDE DEF lost
  <2> QED
    BY <1>1, <1>7, <2>1, <2>2, LiveWrites
<1>9. Live!Next
  BY <1>8 DEF Live!Next
<1> QED
  BY <1>6, <1>9 DEF Refines

\* A reader whose text and queue a step leaves alone has the same text due.
LEMMA DueSame ==
  ASSUME NEW r \in Browsers, text'[r] = text[r], inbox'[r] = inbox[r]
  PROVE  Due(r)' = Due(r)
BY DEF Due

\* Steps that leave the texts due, the readers that follow and the block alone.
LEMMA QuietRefines ==
  ASSUME FollowInv, UNCHANGED <<count, partial, follows>>,
         \A r \in Browsers : r \in follows => Due(r)' = Due(r),
         \A r \in Browsers : r \in follows /\ Ending(r) => Ending(r)'
  PROVE  Refines
<1>1. \A r \in Browsers : FollowAt(r)'
  BY DEF FollowInv, FollowAt
<1>2. UNCHANGED Live!vars
  BY LiveQuiet
<1> QED
  BY <1>1, <1>2 DEF Refines

\* pump and the handlers take an event.
LEMMA EventRefines ==
  ASSUME FollowInv
  PROVE  /\ \A kind \in EventKinds : PumpEvent(kind) => Refines
         /\ PumpStatus => Refines
         /\ HandlerEvent => Refines
<1> USE DEF FollowInv, StreamTypeOK, Senders
<1>1. ASSUME NEW kind \in EventKinds, PumpEvent(kind) PROVE Refines
  <2>1. /\ count' = count /\ follows' = follows /\ text' = text /\ inbox' = inbox
        /\ stage["pump"] = "free" /\ stage'["pump"] \in {"status", "append"}
        /\ sent'["pump"] = kind
        /\ partial' = IF IsBoundary(kind) THEN <<>> ELSE partial
    BY <1>1 DEF PumpEvent, ClearStream, link, screen
  <2>2. \A r \in Browsers : Due(r)' = Due(r)
    BY <2>1, DueSame
  <2>3. CASE IsBoundary(kind)
    <3>1. \A r \in Browsers : FollowAt(r)'
      BY <2>1, <2>3 DEF FollowAt, Ending
    <3>2. Live!Next
      BY <2>1, <2>2, <2>3, LiveQuiet
    <3> QED
      BY <3>1, <3>2 DEF Refines
  <2>4. CASE ~IsBoundary(kind)
    <3>1. \A r \in Browsers : ~Ending(r)
      BY <2>1 DEF Ending
    <3> QED
      BY <2>1, <2>2, <2>4, <3>1, QuietRefines
  <2> QED
    BY <2>3, <2>4
<1>2. ASSUME PumpStatus PROVE Refines
  <2>1. /\ UNCHANGED <<count, partial, follows>> /\ text' = text /\ inbox' = inbox
        /\ stage["pump"] = "status" /\ stage'["pump"] = "append" /\ sent' = sent
    BY <1>2 DEF PumpStatus, link, screen
  <2>2. \A r \in Browsers : Due(r)' = Due(r) /\ (Ending(r) => Ending(r)')
    BY <2>1, DueSame DEF Ending
  <2> QED
    BY <2>1, <2>2, QuietRefines
<1>3. ASSUME HandlerEvent PROVE Refines
  <2>1. /\ UNCHANGED <<count, partial, follows>> /\ text' = text /\ inbox' = inbox
        /\ stage'["pump"] = stage["pump"] /\ sent'["pump"] = sent["pump"] /\ untold' = untold
    BY <1>3 DEF HandlerEvent, source, link, screen
  <2>2. \A r \in Browsers : Due(r)' = Due(r) /\ (Ending(r) => Ending(r)')
    BY <2>1, DueSame DEF Ending
  <2> QED
    BY <2>1, <2>2, QuietRefines
<1> QED
  BY <1>1, <1>2, <1>3

\* A broadcast: everybody who follows is told that the block has ended.
LEMMA CastRefines ==
  ASSUME StreamAssumption, FollowInv, StreamTypeOK', NEW w \in Senders
  PROVE  /\ CopySubscribers(w) => Refines
         /\ AppendFails(w) => Refines
         /\ \A r \in Browsers : DeliverEvent(w, r) => Refines
<1> USE DEF FollowInv, StreamTypeOK, Senders
<1>1. ASSUME CopySubscribers(w) PROVE Refines
  <2>1. /\ UNCHANGED <<count, partial, follows>> /\ text' = text /\ inbox' = inbox
        /\ sent' = sent /\ stage[w] = "append" /\ untold' = [untold EXCEPT ![w] = told]
        /\ stage' = [stage EXCEPT ![w] = IF told = {} THEN "free" ELSE "send"]
    BY <1>1 DEF CopySubscribers, Through, source, link, screen
  <2>2. ASSUME NEW r \in Browsers, r \in follows, Ending(r) PROVE Ending(r)'
    BY <2>1, <2>2 DEF Ending
  <2>3. \A r \in Browsers : Due(r)' = Due(r)
    BY <2>1, DueSame
  <2> QED
    BY <2>1, <2>2, <2>3, QuietRefines
<1>2. ASSUME AppendFails(w) PROVE Refines
  <2>1. /\ UNCHANGED <<count, partial>> /\ text' = text /\ inbox' = inbox
        /\ follows' = {r \in follows : IsSuffix(TextDue(text[r], inbox[r]), partial)}
    BY <1>2 DEF AppendFails, source, link, screen
  <2>2. \A r \in Browsers : Due(r)' = Due(r)
    BY <2>1, DueSame
  <2>3. ASSUME NEW r \in Browsers PROVE FollowAt(r)'
    <3> SUFFICES ASSUME r \in follows' PROVE Ends(Due(r)', partial')
      BY DEF FollowAt
    <3>1. IsSuffix(Due(r), partial) /\ Due(r) \in Text /\ partial \in Text
      BY <2>1, DueTypes DEF Due
    <3>2. Ends(Due(r), partial)
      BY <3>1, SuffixIsEnd
    <3> QED
      BY <2>1, <2>2, <3>2
  <2>4. PICK R \in SUBSET Browsers : R = follows \ follows'
    OBVIOUS
  <2>5. follows' = follows \ R
    BY <2>1, <2>4
  <2>6. Live!Next
    BY <2>1, <2>2, <2>5, LiveLeaves
  <2> QED
    BY <2>3, <2>6 DEF Refines
<1>3. ASSUME NEW r \in Browsers, DeliverEvent(w, r) PROVE Refines
  <2> DEFINE f == Stored(sent[w])
  <2>1. /\ UNCHANGED <<count, partial, sent>> /\ text' = text
        /\ inbox' = [inbox EXCEPT ![r] = Send(inbox[r], <<f>>)]
        /\ follows' = IF AllSent(inbox[r], <<f>>) THEN follows ELSE follows \ {r}
        /\ stage[w] = "send" /\ untold' = [untold EXCEPT ![w] = untold[w] \ {r}]
        /\ stage' = [stage EXCEPT ![w] = IF untold[w] \ {r} = {} THEN "free" ELSE "send"]
    BY <1>3 DEF DeliverEvent, Through, source, screen
  <2>2. f \in Frames /\ f.kind = sent[w]
    BY FrameTypes
  <2> HIDE DEF f
  <2>3. ASSUME NEW q \in Browsers, q # r PROVE Due(q)' = Due(q)
    BY <2>1, <2>3, DueSame
  <2>4. ASSUME NEW q \in Browsers, q # r \/ w # "pump", Ending(q) PROVE Ending(q)'
    BY <2>1, <2>4 DEF Ending
  <2>5. CASE AllSent(inbox[r], <<f>>)
    <3>1. TextDue(text[r], Send(inbox[r], <<f>>)) = Applied(TextDue(text[r], inbox[r]), f)
      BY <2>2, <2>5, SendOne
    <3>2. Due(r)' = Applied(Due(r), f)
      BY <2>1, <3>1 DEF Due
    <3>3. Due(r)' = IF IsBoundary(sent[w]) THEN <<>> ELSE Due(r)
      BY <2>2, <3>2 DEF Applied, EventKinds, None, IsBoundary
    <3>4. <<>> \in Text /\ Due(r) \in Text
      BY DueTypes DEF Text
    <3>5. ASSUME NEW q \in Browsers PROVE FollowAt(q)'
      <4>1. CASE q # r
        BY <2>1, <2>3, <2>4, <2>5, <4>1 DEF FollowAt
      <4>2. CASE q = r /\ IsBoundary(sent[w])
        <5>1. Ends(<<>>, partial)
          BY EndsFacts DEF Text
        <5> QED
          BY <2>1, <3>3, <4>2, <5>1 DEF FollowAt
      <4>3. CASE q = r /\ ~IsBoundary(sent[w])
        <5>1. Due(r)' = Due(r)
          BY <3>3, <4>3
        <5>2. w = "pump" => ~Ending(r)
          BY <4>3 DEF Ending
        <5> QED
          BY <2>1, <2>4, <2>5, <4>3, <5>1, <5>2 DEF FollowAt
      <4> QED
        BY <4>1, <4>2, <4>3
    <3>6. CASE r \in follows /\ IsBoundary(sent[w])
      <4>1. Ends(Due(r)', Due(r))
        BY <3>3, <3>4, <3>6, EndsFacts
      <4>2. Live!Next
        BY <2>1, <2>3, <2>5, <3>6, <4>1, LiveTrims
      <4> QED
        BY <3>5, <4>2 DEF Refines
    <3>7. CASE ~(r \in follows /\ IsBoundary(sent[w]))
      <4>1. \A q \in Browsers : q \in follows => Due(q)' = Due(q)
        BY <2>3, <3>3, <3>7
      <4>2. UNCHANGED Live!vars
        BY <2>1, <2>5, <4>1, LiveQuiet
      <4> QED
        BY <3>5, <4>2 DEF Refines
    <3> QED
      BY <3>6, <3>7
  <2>6. CASE ~AllSent(inbox[r], <<f>>)
    <3>1. follows' = follows \ {r}
      BY <2>1, <2>6
    <3>2. ASSUME NEW q \in Browsers PROVE FollowAt(q)'
      BY <2>1, <2>3, <2>4, <3>1 DEF FollowAt
    <3>3. {r} \in SUBSET Browsers /\ \A q \in Browsers : q \in follows' => Due(q)' = Due(q)
      BY <2>3, <3>1
    <3>4. Live!Next
      BY <2>1, <3>1, <3>3, LiveLeaves
    <3> QED
      BY <3>2, <3>4 DEF Refines
  <2> QED
    BY <2>5, <2>6
<1> QED
  BY <1>1, <1>2, <1>3

\* A connection comes, goes, and subscribes.
LEMMA ConnectRefines ==
  ASSUME StreamAssumption, FollowInv, StreamTypeOK', NEW r \in Browsers
  PROVE  /\ OpenConnection(r) => Refines
         /\ LoseConnection(r) => Refines
         /\ Subscribe(r) => Refines
<1> USE DEF FollowInv, StreamTypeOK, Senders
<1>0. {r} \in SUBSET Browsers
  OBVIOUS
<1>1. ASSUME OpenConnection(r) PROVE Refines
  <2>1. /\ UNCHANGED <<count, partial, follows>> /\ text' = text /\ inbox' = inbox
        /\ stage' = stage /\ sent' = sent /\ untold' = untold
    BY <1>1 DEF OpenConnection, source, broadcasts
  <2>2. \A q \in Browsers : Due(q)' = Due(q) /\ (Ending(q) => Ending(q)')
    BY <2>1, DueSame DEF Ending
  <2> QED
    BY <2>1, <2>2, QuietRefines
<1>2. ASSUME LoseConnection(r) PROVE Refines
  <2>1. /\ UNCHANGED <<count, partial>> /\ text' = text /\ sent' = sent
        /\ inbox' = [inbox EXCEPT ![r] = <<>>] /\ follows' = follows \ {r}
        /\ untold' = [w \in Senders |-> untold[w] \ {r}]
        /\ stage' = [w \in Senders |-> IF stage[w] = "send" /\ untold[w] \subseteq {r}
                                       THEN "free" ELSE stage[w]]
    BY <1>2 DEF LoseConnection, screen
  <2>2. ASSUME NEW q \in Browsers, q # r PROVE Due(q)' = Due(q)
    BY <2>1, <2>2, DueSame
  <2>3. ASSUME NEW q \in Browsers, q # r, Ending(q) PROVE Ending(q)'
    <3>1. untold'["pump"] = untold["pump"] \ {r}
      BY <2>1
    <3>2. stage'["pump"] = IF stage["pump"] = "send" /\ untold["pump"] \subseteq {r}
                           THEN "free" ELSE stage["pump"]
      BY <2>1
    <3> QED
      BY <2>1, <2>3, <3>1, <3>2 DEF Ending
  <2>4. \A q \in Browsers : FollowAt(q)'
    BY <2>1, <2>2, <2>3 DEF FollowAt
  <2>5. \A q \in Browsers : q \in follows' => Due(q)' = Due(q)
    BY <2>1, <2>2
  <2>6. Live!Next
    BY <1>0, <2>1, <2>5, LiveLeaves
  <2> QED
    BY <2>4, <2>6 DEF Refines
<1>3. ASSUME Subscribe(r) PROVE Refines
  <2>1. /\ UNCHANGED <<count, partial>> /\ text' = text /\ sent' = sent
        /\ stage' = stage /\ untold' = untold
        /\ inbox' = [inbox EXCEPT ![r] = Send(inbox[r], Greeting)]
        /\ follows' = IF AllSent(inbox[r], Greeting)
                         /\ (partial # <<>> \/ TextDue(text[r], inbox'[r]) = <<>>)
                      THEN follows \cup {r}
                      ELSE IF AllSent(inbox[r], Greeting) THEN follows ELSE follows \ {r}
    BY <1>3 DEF Subscribe, broadcasts, screen
  <2>2. ASSUME NEW q \in Browsers, q # r PROVE Due(q)' = Due(q)
    BY <2>1, <2>2, DueSame
  <2>3. \A q \in Browsers : Ending(q) => Ending(q)'
    BY <2>1 DEF Ending
  <2>4. /\ StatusFrame \in Frames /\ StatusFrame.kind \in {"running", "idle"}
        /\ Snapshot(partial) \in Frames /\ Snapshot(partial).kind = "stream_snapshot"
        /\ Snapshot(partial).text = partial
    BY FrameTypes
  <2>5. TextDue(text[r], inbox'[r]) = Due(r)' /\ Due(r)' = TextDue(text[r], Send(inbox[r], Greeting))
    BY <2>1 DEF Due
  <2>6. CASE ~AllSent(inbox[r], Greeting)
    <3>1. follows' = follows \ {r}
      BY <2>1, <2>6
    <3>2. \A q \in Browsers : FollowAt(q)'
      BY <2>1, <2>2, <2>3, <3>1 DEF FollowAt
    <3>3. \A q \in Browsers : q \in follows' => Due(q)' = Due(q)
      BY <2>2, <3>1
    <3>4. Live!Next
      BY <1>0, <2>1, <3>1, <3>3, LiveLeaves
    <3> QED
      BY <3>2, <3>4 DEF Refines
  <2>7. ASSUME AllSent(inbox[r], Greeting), Due(r)' = partial, follows' = follows \cup {r}
        PROVE  Refines
    <3>1. Ends(partial, partial)
      BY EndsFacts
    <3>2. \A q \in Browsers : FollowAt(q)'
      BY <2>1, <2>2, <2>3, <2>7, <3>1 DEF FollowAt
    <3>3. Live!Next
      BY <2>1, <2>2, <2>7, LiveJoins
    <3> QED
      BY <3>2, <3>3 DEF Refines
  <2>8. CASE AllSent(inbox[r], Greeting) /\ partial # <<>>
    <3>1. Greeting = <<StatusFrame, Snapshot(partial)>>
      BY <2>8 DEF Greeting
    <3>2. Due(r)' = Applied(Applied(TextDue(text[r], inbox[r]), StatusFrame), Snapshot(partial))
      BY <2>4, <2>5, <2>8, <3>1, SendTwo
    <3>3. Due(r)' = partial
      BY <2>4, <3>2 DEF Applied
    <3> QED
      BY <2>1, <2>7, <2>8, <3>3
  <2>9. CASE AllSent(inbox[r], Greeting) /\ partial = <<>>
    <3>1. Greeting = <<StatusFrame>>
      BY <2>9 DEF Greeting
    <3>2. Due(r)' = Applied(TextDue(text[r], inbox[r]), StatusFrame)
      BY <2>4, <2>5, <2>9, <3>1, SendOne
    <3>3. Due(r)' = <<>> \/ Due(r)' = Due(r)
      BY <2>4, <3>2 DEF Applied, Due
    <3>4. CASE Due(r)' = <<>>
      BY <2>1, <2>5, <2>7, <2>9, <3>4
    <3>5. CASE Due(r)' # <<>>
      <4>1. follows' = follows
        BY <2>1, <2>5, <2>9, <3>5
      <4>2. \A q \in Browsers : Due(q)' = Due(q)
        BY <2>2, <3>3, <3>5
      <4> QED
        BY <2>1, <2>3, <4>1, <4>2, QuietRefines
    <3> QED
      BY <3>4, <3>5
  <2> QED
    BY <2>6, <2>8, <2>9
<1> QED
  BY <1>1, <1>2, <1>3

\* The page takes a frame, or its text is cleared.
LEMMA PageRefines ==
  ASSUME StreamAssumption, FollowInv, StreamTypeOK', NEW r \in Browsers, PageStep(r)
  PROVE  Refines
<1> USE DEF FollowInv, StreamTypeOK, Senders
<1>1. /\ UNCHANGED <<count, partial, follows>>
      /\ \A q \in Browsers : Ending(q) => Ending(q)'
      /\ \A q \in Browsers : q # r => text'[q] = text[q] /\ inbox'[q] = inbox[q]
      /\ \/ inbox[r] # <<>> /\ inbox'[r] = Tail(inbox[r])
            /\ text'[r] = Applied(text[r], Head(inbox[r]))
         \/ inbox'[r] = inbox[r] /\ text'[r] \in {text[r], <<>>}
  <2>1. CASE ReceiveFrame(r)
    BY <2>1 DEF ReceiveFrame, source, broadcasts, Ending
  <2>2. CASE OpenText(r)
    BY <2>2 DEF OpenText, source, broadcasts, link, Ending
  <2>3. CASE Opened(r)
    BY <2>3 DEF Opened, source, broadcasts, Ending
  <2>4. ASSUME NEW found \in BOOLEAN, CatchUpEnds(r, found)
        PROVE  /\ UNCHANGED <<count, partial, follows, inbox>>
               /\ \A q \in Browsers : Ending(q) => Ending(q)'
               /\ text' = [text EXCEPT ![r] = IF found THEN <<>> ELSE text[r]]
    BY <2>4 DEF CatchUpEnds, source, broadcasts, link, Ending
  <2> QED
    BY <2>1, <2>2, <2>3, <2>4 DEF PageStep
<1>2. ASSUME NEW q \in Browsers, q # r PROVE Due(q)' = Due(q)
  BY <1>1, <1>2, DueSame
<1>3. Ends(Due(r)', Due(r)) /\ Due(r)' \in Text /\ Due(r) \in Text
  <2>1. /\ Due(r) = TextDue(text[r], inbox[r]) /\ Due(r)' = TextDue(text'[r], inbox'[r])
        /\ Due(r) \in Text
    BY DueTypes DEF Due
  <2>2. Due(r)' \in Text
    BY <2>1, DueType
  <2>3. CASE /\ inbox[r] # <<>> /\ inbox'[r] = Tail(inbox[r])
             /\ text'[r] = Applied(text[r], Head(inbox[r]))
    <3>1. TextDue(Applied(text[r], Head(inbox[r])), Tail(inbox[r])) = TextDue(text[r], inbox[r])
      BY <2>3, DueHead
    <3>2. Due(r)' = Due(r)
      BY <2>1, <2>3, <3>1
    <3> QED
      BY <2>1, <2>2, <3>2, EndsFacts
  <2>4. CASE inbox'[r] = inbox[r] /\ text'[r] = text[r]
    <3>1. Due(r)' = Due(r)
      BY <2>1, <2>4
    <3> QED
      BY <2>1, <2>2, <3>1, EndsFacts
  <2>5. CASE inbox'[r] = inbox[r] /\ text'[r] = <<>>
    <3>1. Ends(TextDue(<<>>, inbox[r]), TextDue(text[r], inbox[r]))
      BY DueCleared
    <3> QED
      BY <2>1, <2>2, <2>5, <3>1
  <2> QED
    BY <1>1, <2>3, <2>4, <2>5
<1>4. ASSUME NEW q \in Browsers PROVE FollowAt(q)'
  <2>1. CASE q # r
    BY <1>1, <1>2, <2>1 DEF FollowAt
  <2>2. CASE q = r
    <3> SUFFICES ASSUME r \in follows, ~Ending(r) PROVE Ends(Due(r)', partial')
      BY <1>1, <2>2 DEF FollowAt
    <3>1. Ends(Due(r), partial)
      BY DEF FollowAt
    <3>2. PICK s \in Text, t \in Text : s = Due(r)' /\ t = Due(r)
      BY <1>3
    <3>3. Ends(s, partial)
      BY <1>3, <3>1, <3>2, EndsFacts
    <3> QED
      BY <1>1, <3>2, <3>3
  <2> QED
    BY <2>1, <2>2
<1>5. CASE r \in follows
  <2>1. Live!Next
    BY <1>1, <1>2, <1>3, <1>5, LiveTrims
  <2> QED
    BY <1>4, <2>1 DEF Refines
<1>6. CASE r \notin follows
  <2>1. \A q \in Browsers : q \in follows => Due(q)' = Due(q)
    BY <1>2, <1>6
  <2>2. UNCHANGED Live!vars
    BY <1>1, <2>1, LiveQuiet
  <2> QED
    BY <1>4, <2>2 DEF Refines
<1> QED
  BY <1>5, <1>6

\* Every step of the specification, and the steps that leave it alone.
LEMMA StreamStep ==
  FollowInv /\ [StreamNext]_liveVars => FollowInv' /\ [Live!Next]_(Live!vars)
<1> SUFFICES ASSUME FollowInv, [StreamNext]_liveVars
             PROVE  StreamTypeOK' /\ Refines
  BY DEF FollowInv, Refines
<1>0. StreamAssumption /\ StreamTypeOK
  BY StreamAssumption DEF FollowInv
<1>1. CASE UNCHANGED liveVars
  <2>1. /\ UNCHANGED <<count, partial, turn, told, stage, sent, untold, follows>>
        /\ UNCHANGED <<inbox, text>>
    BY <1>1 DEF liveVars, source, broadcasts, link, screen
  <2>2. \A q \in Browsers : Due(q)' = Due(q) /\ (Ending(q) => Ending(q)')
    BY <2>1, DueSame DEF Ending
  <2>3. StreamTypeOK'
    BY <1>0, <2>1 DEF StreamTypeOK
  <2>4. Refines
    BY <2>1, <2>2, QuietRefines
  <2> QED
    BY <2>3, <2>4
<1>2. CASE PumpDelta
  BY <1>0, <1>2, StreamSourceTypes, DeltaRefines
<1>3. CASE PumpStatus \/ HandlerEvent \/ \E kind \in EventKinds : PumpEvent(kind)
  BY <1>0, <1>3, StreamSourceTypes, EventRefines
<1>4. CASE \E w \in Senders : \/ CopySubscribers(w) \/ AppendFails(w)
                              \/ \E r \in Browsers : DeliverEvent(w, r)
  <2>1. StreamTypeOK'
    BY <1>0, <1>4, StreamCastTypes
  <2> QED
    BY <1>0, <1>4, <2>1, CastRefines
<1>5. CASE \E r \in Browsers : OpenConnection(r) \/ LoseConnection(r) \/ Subscribe(r)
  <2>1. StreamTypeOK'
    BY <1>0, <1>5, StreamPageTypes
  <2> QED
    BY <1>0, <1>5, <2>1, ConnectRefines
<1>6. CASE \E r \in Browsers : PageStep(r)
  <2>1. StreamTypeOK'
    BY <1>0, <1>6, StreamPageTypes
  <2> QED
    BY <1>0, <1>6, <2>1, PageRefines
<1> QED
  BY <1>1, <1>2, <1>3, <1>4, <1>5, <1>6 DEF StreamNext

-----------------------------------------------------------------------------
(***************************************************************************)
(* The stream implements LiveText.                                         *)
(***************************************************************************)
\* The invariant: what a reader that follows has due is the end of the block that runs,
\* or of one of whose end it has yet to hear.
THEOREM FollowersHaveTheEnd == StreamSpec => []FollowInv
<1>1. StreamInit => FollowInv
  <2> SUFFICES ASSUME StreamInit PROVE FollowInv
    OBVIOUS
  <2>1. <<>> \in Text /\ <<>> \in Seq(Frames)
    BY DEF Text
  <2> QED
    BY <2>1 DEF StreamInit, FollowInv, StreamTypeOK, FollowAt, Senders
<1>2. FollowInv /\ [StreamNext]_liveVars => FollowInv'
  BY StreamStep
<1> QED
  BY <1>1, <1>2, PTL DEF StreamSpec

\* LiveText is what the stream promises (manager.go:942): a reader that follows sees each
\* delta of the block once, in order and without a gap.
THEOREM StreamFollowsLive == StreamSpec => FollowsLive
<1>1. StreamInit => Live!Init
  <2> SUFFICES ASSUME StreamInit PROVE Live!Init
    OBVIOUS
  <2>1. /\ count = 0 /\ partial = <<>> /\ follows = {}
    BY DEF StreamInit
  <2> QED
    BY <2>1 DEF Live!Init
<1>2. FollowInv /\ [StreamNext]_liveVars => [Live!Next]_(Live!vars)
  BY StreamStep
<1> QED
  BY <1>1, <1>2, FollowersHaveTheEnd, PTL DEF StreamSpec, FollowsLive, Live!Spec
=============================================================================
