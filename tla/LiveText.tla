------------------------------ MODULE LiveText ------------------------------
(***************************************************************************)
(* What the live stream of a session promises: the agent writes a block of *)
(* text piece by piece, and a reader that follows has the end of the block *)
(* without a gap, a repetition or a change of order, from the moment it    *)
(* joined (then: all of the block so far) or its text was last cleared.    *)
(* No piece of a block is put behind the text of an earlier block.         *)
(***************************************************************************)
EXTENDS Naturals, SequencesExt

CONSTANTS Readers

VARIABLES
  count,    \* pieces written so far; a piece is its number
  block,    \* the block being written: a sequence of pieces
  follows,  \* the readers that follow
  seen      \* the text each of them has; empty for the others

vars == <<count, block, follows, seen>>

Init == /\ count = 0 /\ block = <<>> /\ follows = {}
        /\ seen = [r \in Readers |-> <<>>]

\* A piece reaches every reader that follows, behind the end of its own
\* block; those it does not reach (lost) follow no more.
Write(lost) ==
  /\ \A r \in follows : IsSuffix(seen[r], block)
  /\ count' = count + 1
  /\ block' = Append(block, count')
  /\ follows' = follows \ lost
  /\ seen' = [r \in Readers |-> CASE r \in follows'  -> Append(seen[r], count')
                               [] r \in lost      -> <<>>
                               [] OTHER           -> seen[r]]

EndBlock == block' = <<>> /\ UNCHANGED <<count, follows, seen>>

\* A reader starts to follow, or starts again, with the block as it stands.
Join(r) == /\ follows' = follows \cup {r}
           /\ seen' = [seen EXCEPT ![r] = block]
           /\ UNCHANGED <<count, block>>

\* A reader's text loses its beginning, or is cleared.
Trim(r) == /\ r \in follows
           /\ \E n \in 1..(Len(seen[r]) + 1) :
                seen' = [seen EXCEPT ![r] = SubSeq(@, n, Len(@))]
           /\ UNCHANGED <<count, block, follows>>

\* Readers no longer follow.
Leave(R) == /\ follows' = follows \ R
            /\ seen' = [r \in Readers |-> IF r \in R THEN <<>> ELSE seen[r]]
            /\ UNCHANGED <<count, block>>

Next == \/ EndBlock
        \/ \E r \in Readers : Join(r) \/ Trim(r)
        \/ \E R \in SUBSET Readers : Write(R) \/ Leave(R)

Spec == Init /\ [][Next]_vars
=============================================================================
