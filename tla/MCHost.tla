------------------------------- MODULE MCHost -------------------------------
(***************************************************************************)
(* What the server does for its host besides agents, terminals and         *)
(* backups: provider profiles, git's credentials, exclude lists, file      *)
(* requests, terminal limits, the system monitor.  They share no state; a  *)
(* run explores each by itself, and part says which.                       *)
(***************************************************************************)
EXTENDS ExcludeRules, AIProfiles, GitCredentials, FileWrites, TermLimits, SystemMonitor, TLC

VARIABLE part

MCSegments == {<<"a">>, <<"*">>, <<"?", "b">>, <<"*", "*">>}
\* b, ab, *b, a/a, a/b/a, a/b/ab
MCFiles == {<<<<"b">>>>, <<<<"a", "b">>>>, <<<<"*", "b">>>>, <<<<"a">>, <<"a">>>>,
            <<<<"a">>, <<"b">>, <<"a">>>>, <<<<"a">>, <<"b">>, <<"a", "b">>>>}

\* A part that is not explored has one initial state.
Init == /\ part \in {"excludes", "profiles", "git", "files", "limits", "monitor"}
        /\ MonitorInit /\ CredInit
        /\ part # "excludes" => patterns = <<>>
        /\ part # "profiles" => tool = "pi" /\ profile = [p \in Profiles |-> Absent] /\ live = Nothing
        /\ part # "files"    => at = [p \in Paths |-> 0]
        /\ part # "limits"   => machine = [parent |-> "none", offers |-> {}, own |-> {}, sh |-> TRUE]
        /\ ProfilesInit /\ FilesInit /\ LimitsInit /\ ExcludesInit
Next == /\ UNCHANGED part
        /\ \/ part = "excludes" /\ ExcludesNext
           \/ part = "profiles" /\ ProfilesNext
           \/ part = "git"      /\ CredNext
           \/ part = "files"    /\ FilesNext
           \/ part = "limits"   /\ LimitsNext
           \/ part = "monitor"  /\ MonitorNext
        /\ part # "excludes" => UNCHANGED exclVars
        /\ part # "profiles" => UNCHANGED profileVars
        /\ part # "git"      => UNCHANGED credVars
        /\ part # "files"    => UNCHANGED fsVars
        /\ part # "limits"   => UNCHANGED limitVars
        /\ part # "monitor"  => UNCHANGED sysVars

\* The parts take their objects and their users from the same two sets.
Symmetry == Permutations(Profiles) \cup Permutations(ProfileUsers)

\* Requests for profiles that overlap, a failure or a restart, and an edit by hand
\* are taken one at a time.
OneTrouble ==
  mishaps + handEdits + (IF "crossed" \in oddly THEN 1 ELSE 0) <= 1
=============================================================================
