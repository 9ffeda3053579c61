--------------------------- MODULE MCAgentManager ---------------------------
(***************************************************************************)
(* AgentManager with the constants of the runs.                            *)
(***************************************************************************)
EXTENDS AgentManager, TLC

\* Messages, releaser slots and the rest play the same part under any
\* renaming; used for the runs that check safety only.
Symmetry == Permutations(Msgs) \cup Permutations(Releasers)
=============================================================================
