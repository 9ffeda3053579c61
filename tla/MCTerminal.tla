----------------------------- MODULE MCTerminal -----------------------------
(***************************************************************************)
(* Terminal with the constants of the runs.                                *)
(***************************************************************************)
EXTENDS Terminal, TLC

\* Replay is what Push leaves of the frames, one after the other.
Queues(n) == UNION {[1..k -> [req : {1, 2}, chunk : {1, 2}]] : k \in 0..n}
ASSUME ReplayIsPushes ==
  \A q \in Queues(QueueCap), k \in 0..BufCap :
    LET b == [i \in 1..k |-> i]
    IN  Replay(q, b, 2) = FoldLeft(LAMBDA acc, n : Push(acc, [req |-> 2, chunk |-> n]), q, b)

\* Sessions and connections play the same part under any renaming; used for
\* the run that checks safety only.
Symmetry == Permutations(Sessions) \cup Permutations(Clients)
=============================================================================
