----------------------------- MODULE MCDrivers -----------------------------
(***************************************************************************)
(* The parts of the drivers, each with the constants of the runs.  They    *)
(* share no state that matters to what is checked of them, so one run      *)
(* explores the behaviours of each part after the other: part says which.  *)
(***************************************************************************)
EXTENDS Approvals, ClaudeStream, CodexTurns, PiTurns, ToolCards, CliCalls, TLC

VARIABLE part

Init == /\ part \in {"approvals", "stream", "turns", "pi", "cards", "calls"}
        /\ ApprovalInit /\ ClaudeStreamInit /\ CodexInit /\ PiInit /\ CardsInit /\ CallsInit
        /\ part = "approvals" => \E r \in Requests : asked[r] = "perm"
        /\ part # "approvals" => cli = "claude" /\ asked = [r \in Requests |-> "perm"]
        /\ part # "turns" => speaks = Protocols
        /\ part # "cards" => agent = "pi"
        /\ part # "calls" => serves = "pi"
Next == /\ UNCHANGED part
        /\ \/ part = "approvals" /\ ApprovalNext /\ UNCHANGED <<streamVars, codexVars, piVars, cardVars, callVars>>
           \/ part = "stream" /\ ClaudeStreamNext /\ UNCHANGED <<approvalVars, codexVars, piVars, cardVars, callVars>>
           \/ part = "turns" /\ CodexNext /\ UNCHANGED <<approvalVars, streamVars, piVars, cardVars, callVars>>
           \/ part = "pi" /\ PiNext /\ UNCHANGED <<approvalVars, streamVars, codexVars, cardVars, callVars>>
           \/ part = "cards" /\ CardsNext /\ UNCHANGED <<approvalVars, streamVars, codexVars, piVars, callVars>>
           \/ part = "calls" /\ CallsNext /\ UNCHANGED <<approvalVars, streamVars, codexVars, piVars, cardVars>>

Symmetry == Permutations(Requests) \cup Permutations(Callers)
=============================================================================
