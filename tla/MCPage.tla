------------------------------- MODULE MCPage -------------------------------
(***************************************************************************)
(* What the page of a session shows: its rows, and the text of the block   *)
(* being written.  A run explores the one, then the other; part says       *)
(* which.                                                                  *)
(***************************************************************************)
EXTENDS AgentTimeline, AgentStream

VARIABLE part

PageInit == part \in {"rows", "text"} /\ Init /\ StreamInit
PageNext == /\ UNCHANGED part
            /\ \/ part = "rows" /\ Next /\ UNCHANGED liveVars
               \/ part = "text" /\ StreamNext /\ UNCHANGED vars
=============================================================================
