----------------------------- MODULE MCServices -----------------------------
(***************************************************************************)
(* The life of a session and a backup job.  They share no state: a run     *)
(* explores the one, then the other; part says which.                      *)
(***************************************************************************)
EXTENDS AgentSessions, Backup, TLC

VARIABLE part

Init == /\ part \in {"sessions", "backup"}
        /\ SessionsInit /\ BackupInit
        /\ part = "backup" => ~open
Next == /\ UNCHANGED part
        /\ \/ part = "sessions" /\ SessionsNext /\ UNCHANGED backupVars
           \/ part = "backup" /\ BackupNext /\ UNCHANGED sessionVars

Symmetry == Permutations(Users) \cup Permutations(BackupWorkers)

\* Once a Send has crossed a deletion, or Save has replaced a gate that was
\* shut, nothing more is said of what follows.
FewOddities ==
  /\ "sending" \notin odd /\ Cardinality(odd) <= 1
  /\ "replaced" \notin excuses
=============================================================================
