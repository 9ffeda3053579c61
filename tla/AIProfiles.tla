----------------------------- MODULE AIProfiles -----------------------------
(***************************************************************************)
(* The provider profiles of one CLI (internal/aiprofile): the records of   *)
(* ai_providers, of which one is marked current, and the live files it was *)
(* written to: one file for claude, a main file and auth.json for codex    *)
(* and pi.  Requests run their statements and writes one by one, each of   *)
(* which may fail; people edit the files; the server may be started again, *)
(* with its home directory or without (service.go, live.go, exchange.go).  *)
(*                                                                         *)
(* The content of a file or of a part of a record is Absent, Blank, Hand   *)
(* or Broken (written by hand, Broken being no JSON), or <<p, v>>: version *)
(* v of what was entered for record p.                                     *)
(***************************************************************************)
EXTENDS Naturals, FiniteSets

CONSTANTS Profiles, ProfileUsers, Absent, Blank, Hand, Broken,
          MaxRequests, MaxHandEdits, MaxMishaps

Texts == {Blank, Hand, Broken} \cup (Profiles \X {1, 2})

ASSUME ProfilesAssumption ==
  /\ Blank \notin {Hand, Broken} /\ Hand # Broken /\ Absent \notin Texts
  /\ {Blank, Hand, Broken} \cap (Profiles \X {1, 2}) = {}
  /\ Absent \notin [main : Texts, auth : Texts]

VARIABLES
  tool,     \* which CLI the profiles are for
  profile,  \* [Profiles -> the config of the row, or Absent]
  past,     \* rows that were deleted: no id is given twice (util.ID)
  marked,   \* rows with is_current = 1
  seeded,   \* the row that seedFromLive made (its name is taken while it is there)
  live,     \* [main, auth]: the files
  job,      \* [ProfileUsers -> request under way]
  oddly,    \* what has happened that a property excuses
  byHand,   \* the files into which people wrote something that can be kept
  begun, handEdits, mishaps

spent == <<handEdits, mishaps>>
profileVars == <<tool, profile, past, marked, seeded, live, job, oddly, byHand, begun, spent>>
rest == <<tool, past, seeded, byHand, begun, spent>>

Nothing == [main |-> Absent, auth |-> Absent]
NoJob   == [pc |-> "idle", id |-> Absent, cfg |-> Nothing, old |-> Absent, then |-> "none"]
Rows    == {p \in Profiles : profile[p] # Absent}

\* What validate lets pass.  Codex and pi may leave a part empty.
Contents(p, v) ==
  CASE tool = "claude" -> [main : {<<p, v>>}, auth : {Blank}]
    [] tool = "codex"  -> [main : {<<p, v>>}, auth : {<<p, v>>, Blank}]
    [] tool = "pi"     -> [main : {<<p, v>>, Blank}, auth : {<<p, v>>, Blank}]

ProfilesInit ==
  /\ tool \in {"claude", "codex", "pi"}
  /\ profile \in {f \in [Profiles -> UNION {Contents(p, 1) : p \in Profiles} \cup {Absent}] :
                   \A p \in Profiles : f[p] \in Contents(p, 1) \cup {Absent}}
  /\ past = {} /\ marked = {} /\ seeded = Absent
  /\ live \in {Nothing, [Nothing EXCEPT !.main = Hand]}
  /\ byHand = {f \in {"main"} : live[f] = Hand}
  /\ job = [u \in ProfileUsers |-> NoJob]
  /\ oddly = {} /\ begun = 0 /\ handEdits = 0 /\ mishaps = 0

Working(u)     == job[u].pc # "idle"
Others(u)   == {x \in ProfileUsers \ {u} : Working(x)}
\* A request begins; S is what it may excuse.
Enter(u, S) ==
  /\ job[u].pc = "idle" /\ begun < MaxRequests /\ begun' = begun + 1
  /\ oddly' = oddly \cup S \cup (IF Others(u) # {} THEN {"crossed"} ELSE {})
Step(u, pc) == job' = [job EXCEPT ![u].pc = pc]
End(u)      == job' = [job EXCEPT ![u] = NoJob]

(***************************************************************************)
(* The live files (live.go).                                               *)
(***************************************************************************)
LiveExists(files) == files.main # Absent \/ (tool = "pi" /\ files.auth \notin {Absent, Blank, Broken})

\* config.toml is taken as it is; other files must be JSON.
Text(c) == IF c = Absent THEN Blank ELSE c
Json(c) == IF c \in {Absent, Broken} THEN Blank ELSE c
ReadLive ==
  IF tool = "claude"
  THEN IF live.main \in {Absent, Broken} THEN Absent ELSE [main |-> live.main, auth |-> Blank]
  ELSE IF live = Nothing THEN Absent
  ELSE [main |-> IF tool = "codex" THEN Text(live.main) ELSE Json(live.main), auth |-> Json(live.auth)]

\* writeLive leaves a file alone for which there is nothing to write.
WritesMain(cfg) == tool # "pi" \/ cfg.main # Blank
WritesAuth(cfg) == tool # "claude" /\ cfg.auth # Blank
MainWritten(files, cfg) == IF WritesMain(cfg) THEN [files EXCEPT !.main = cfg.main] ELSE files
AuthWritten(files, cfg) == IF WritesAuth(cfg) THEN [files EXCEPT !.auth = cfg.auth] ELSE files

WriteMain(u) ==
  /\ job[u].pc = "main" /\ Step(u, "auth")
  /\ live' = MainWritten(live, job[u].cfg)
  /\ UNCHANGED <<profile, marked, oddly, rest>>

WriteAuth(u) ==
  /\ job[u].pc = "auth"
  /\ live' = AuthWritten(live, job[u].cfg)
  /\ IF job[u].then = "clear" THEN Step(u, "clear") ELSE End(u)
  /\ UNCHANGED <<profile, marked, oddly, rest>>

(***************************************************************************)
(* Requests (service.go).                                                  *)
(***************************************************************************)
\* List, and Export: seedFromLive counts the rows ...
List(u) ==
  /\ Rows = {}
  /\ Step(u, "seed") /\ Enter(u, {})
  /\ UNCHANGED <<profile, marked, live, tool, past, seeded, byHand, spent>>
\* ... and takes what it finds as the first one, already current.  Its name is
\* unique: the second of two fails.
Seed(u) ==
  /\ job[u].pc = "seed" /\ End(u)
  /\ IF ReadLive = Absent \/ seeded \in Rows THEN UNCHANGED <<profile, marked, seeded, oddly>>
     ELSE \E p \in Profiles \ (Rows \cup past) :
            /\ profile' = [profile EXCEPT ![p] = ReadLive]
            /\ marked' = marked \cup {p} /\ seeded' = p
            /\ oddly' = oddly \cup (IF Rows # {} THEN {"seeded"} ELSE {})
  /\ UNCHANGED <<tool, past, live, byHand, begun, spent>>

\* Create.
CreateProfile(u, p) ==
  /\ profile[p] = Absent /\ p \notin past
  /\ \E cfg \in Contents(p, 1) : profile' = [profile EXCEPT ![p] = cfg]
  /\ Enter(u, {})
  /\ UNCHANGED <<marked, live, job, tool, past, seeded, byHand, spent>>

\* Update: whether the row is current is read first.
UpdateProfile(u, p) ==
  /\ p \in Rows
  /\ \E cfg \in Contents(p, 2) :
       job' = [job EXCEPT ![u] = [pc |-> "update", id |-> p, cfg |-> cfg, old |-> Absent,
                                  then |-> IF p \in marked THEN "write" ELSE "stop"]]
  /\ Enter(u, {"updated"})
  /\ UNCHANGED <<profile, marked, live, tool, past, seeded, byHand, spent>>
UpdateRow(u) ==
  /\ job[u].pc = "update"
  /\ profile' = IF job[u].id \in Rows THEN [profile EXCEPT ![job[u].id] = job[u].cfg] ELSE profile
  /\ IF job[u].then = "write" THEN Step(u, "main") ELSE End(u)
  /\ UNCHANGED <<marked, live, oddly, rest>>

\* Import does the one or the other for each name.
UpsertProfile(u, p) == CreateProfile(u, p) \/ UpdateProfile(u, p)

DeleteProfile(u, p) ==
  /\ p \in Rows
  /\ profile' = [profile EXCEPT ![p] = Absent] /\ past' = past \cup {p} /\ marked' = marked \ {p}
  /\ Enter(u, {"deleted"})
  /\ UNCHANGED <<live, job, tool, seeded, byHand, spent>>

\* Switch: the row, the current row, the files into the current row, the row
\* into the files, the mark off every row and onto this one.
Switch(u, p) ==
  /\ p \in Rows
  /\ job' = [job EXCEPT ![u] = [pc |-> "current", id |-> p, cfg |-> profile[p], old |-> Absent, then |-> "clear"]]
  /\ Enter(u, IF Blank \in {profile[p].main, profile[p].auth} /\ tool # "claude" THEN {"left alone"} ELSE {})
  /\ UNCHANGED <<profile, marked, live, tool, past, seeded, byHand, spent>>
ReadCurrent(u) ==
  /\ job[u].pc = "current"
  /\ \/ \E c \in marked \ {job[u].id} : job' = [job EXCEPT ![u].old = c, ![u].pc = "backfill"]
     \/ (marked = {} \/ job[u].id \in marked) /\ Step(u, "main")
  /\ oddly' = oddly \cup (IF marked = {} THEN {"unmarked"} ELSE IF marked = {job[u].id} THEN {"again"} ELSE {})
  /\ UNCHANGED <<profile, marked, live, rest>>
\* A failing UPDATE is not noticed.  The operator before it forgets to look.
NotBackfilled(c) == profile
Backfilled(c) ==
  IF c \in Rows /\ ReadLive # Absent THEN [profile EXCEPT ![c] = ReadLive] ELSE profile
Backfill(u) ==
  /\ job[u].pc = "backfill" /\ Step(u, "main")
  /\ profile' = Backfilled(job[u].old)
  /\ UNCHANGED <<marked, live, oddly, rest>>
ClearMarks(u) ==
  /\ job[u].pc = "clear" /\ Step(u, "mark")
  /\ marked' = {}
  /\ oddly' = oddly \cup (IF \E x \in Others(u) : job[x].pc = "mark" THEN {"marking"} ELSE {})
  /\ UNCHANGED <<profile, live, rest>>
Mark(u) ==
  /\ job[u].pc = "mark" /\ End(u)
  /\ marked' = marked \cup ({job[u].id} \cap Rows)
  /\ UNCHANGED <<profile, live, oddly, rest>>

\* A statement or a write fails: up to the backfill without a word, of the rest
\* with an error for the user.  What was done before stays.
ProfileFails(u) ==
  /\ mishaps < MaxMishaps /\ mishaps' = mishaps + 1
  /\ job[u].pc \notin {"idle", "seed"}
  /\ IF job[u].pc \in {"current", "backfill"} THEN Step(u, "main") ELSE End(u)
  /\ oddly' = oddly \cup {"failed"}
  /\ UNCHANGED <<tool, profile, past, marked, seeded, live, byHand, begun, handEdits>>

(***************************************************************************)
(* Outside the service.                                                    *)
(***************************************************************************)
EditFile ==
  /\ handEdits < MaxHandEdits /\ handEdits' = handEdits + 1
  /\ \E c \in {Hand, Broken}, f \in {"main"} \cup (IF tool = "claude" THEN {} ELSE {"auth"}) :
       /\ live' = [live EXCEPT ![f] = c]
       /\ byHand' = IF c = Hand THEN byHand \cup {f} ELSE byHand \ {f}
  /\ oddly' = oddly \cup (IF \E u \in ProfileUsers : Working(u) THEN {"crossed"} ELSE {})
  /\ UNCHANGED <<tool, profile, past, marked, seeded, job, begun, mishaps>>

\* The server stops in the middle of anything and starts again, perhaps with a
\* new home directory: RestoreMissing writes the current row if its file is gone.
StartServer(home) ==
  /\ mishaps < MaxMishaps /\ mishaps' = mishaps + 1
  /\ job' = [u \in ProfileUsers |-> NoJob]
  /\ oddly' = oddly \cup (IF \E u \in ProfileUsers : Working(u) THEN {"stopped"} ELSE {})
                    \cup (IF home # live THEN {"homeless"} ELSE {})
  /\ IF LiveExists(home) \/ marked = {} THEN live' = home
     ELSE \E c \in marked : live' = AuthWritten(MainWritten(home, profile[c]), profile[c])
  /\ UNCHANGED <<tool, profile, past, marked, seeded, byHand, begun, handEdits>>

ProfilesNext ==
  \/ \E u \in ProfileUsers :
       \/ List(u) \/ Seed(u) \/ UpdateRow(u) \/ ReadCurrent(u) \/ Backfill(u)
       \/ WriteMain(u) \/ WriteAuth(u) \/ ClearMarks(u) \/ Mark(u) \/ ProfileFails(u)
       \/ \E p \in Profiles : UpsertProfile(u, p) \/ DeleteProfile(u, p) \/ Switch(u, p)
  \/ EditFile \/ StartServer(live) \/ StartServer(Nothing)

ProfilesSpec == ProfilesInit /\ [][ProfilesNext]_profileVars

(***************************************************************************)
(* Properties.                                                             *)
(***************************************************************************)
Quiet == \A u \in ProfileUsers : ~Working(u)
Excused(S) == oddly \cap S # {}

\* At most one row is current, unless two requests moved the mark at once
\* (Switch clears and sets it by two statements, seedFromLive looks and inserts).
OneCurrent == Cardinality(marked) <= 1 \/ Excused({"marking", "seeded"})

\* What the page calls current is what the CLI reads, or was edited by hand since,
\* unless requests overlapped, failed or were cut off (Switch, Update, RestoreMissing).
CurrentIsLive ==
  Quiet /\ ~Excused({"crossed", "failed", "stopped"}) =>
    \A p \in marked :
      /\ WritesMain(profile[p]) => Text(live.main) \in {profile[p].main, Hand, Broken}
      /\ WritesAuth(profile[p]) => live.auth \in {profile[p].auth, Hand, Broken}

\* What was edited by hand is not lost: it is in the files or in a row, as long
\* as it is JSON where it must be, some row was current, and the user did not ask
\* for it to be replaced (backfill, seedFromLive).
HandKept ==
  Excused({"crossed", "failed", "stopped", "homeless", "unmarked", "again", "updated", "deleted"})
    \/ \A f \in byHand : live[f] = Hand \/ \E p \in Rows : profile[p][f] = Hand

\* A row has its own content or what was edited by hand, and no other row's,
\* unless a row leaves a file alone: then what is in the file goes with it.
OwnParts ==
  Excused({"left alone", "crossed", "failed", "stopped"}) \/
    \A p \in Rows \ {seeded} : {profile[p].main, profile[p].auth} \subseteq {Absent, Blank, Hand, Broken, <<p, 1>>, <<p, 2>>}

ProfilesSound == OneCurrent /\ CurrentIsLive /\ HandKept /\ OwnParts
=============================================================================
