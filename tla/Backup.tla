------------------------------- MODULE Backup -------------------------------
(***************************************************************************)
(* internal/backup/service.go and runner.go: one backup job, its row in    *)
(* backup_jobs and its Job objects in memory, the schedule, the gate that  *)
(* backup and restore share, and the snapshots on the WebDAV server.       *)
(*                                                                         *)
(* A version of the source directory stands for its files with their       *)
(* times; the fingerprint of a backup is the version it has walked over    *)
(* and its excludes.  Time is counted in units of a snapshot's name.       *)
(***************************************************************************)
EXTENDS Naturals, Sequences, FiniteSets, FiniteSetsExt

CONSTANTS
  Dests,        \* WebDAV addresses
  Excludes,     \* lists of excludes
  Schedule,     \* times at which the job's cron expression matches
  Horizon,      \* how far ahead next() looks, one year in the code
  Retention,    \* snapshots kept
  BackupWorkers,\* goroutines of RunBackup and StartRestore: as many at a time
  MaxTime, MaxEdits, MaxJobObjects, MaxBackupFaults  \* bounds

ASSUME BackupAssumption ==
  /\ Retention \in Nat \ {0} /\ Schedule \subseteq Nat /\ Horizon \in Nat /\ MaxTime \in Nat
  /\ "none" \notin Dests  \* NoRow is no configuration

Mixed == 0  \* a directory some of whose files a restore has written
Configs == [dest : Dests, excl : Excludes]
NoFP == [excl |-> "none", tree |-> 0]
NoMeta == [tar |-> 0, fp |-> NoFP]
NoRow == [cfg |-> [dest |-> "none", excl |-> "none"], fp |-> NoFP]

VARIABLES
  jobRow,      \* the row of backup_jobs: [cfg, fp], or NoRow
  jobs,     \* Job objects of this server
  current,  \* m.jobs[id]: the index of one of them, or 0
  tree,     \* version of the source directory, or Mixed
  edits,    \* versions there have been
  snaps,    \* snapshots: [dest, at, tar, meta]
  worker,   \* goroutines
  saving,   \* Save or Delete between its statement and the map: [op, cfg, fp]
  now,
  bfaults,
  excuses   \* ghost: what has happened that the properties make exceptions of

requestVars == <<jobRow, current, saving>>
backupVars == <<requestVars, jobs, tree, edits, snaps, worker, now, bfaults, excuses>>

IdleWorker == [pc |-> "idle", job |-> 0, force |-> FALSE, fp |-> NoFP, at |-> 0, tar |-> 0]

NextRunLate(t) ==
  LET ahead == {s \in Schedule : t + 1 < s /\ s <= t + Horizon}
  IN IF ahead = {} THEN 0 ELSE Min(ahead)
\* cron.go next: the first time after t that matches, 0 if it is too far away.
NextRun(t) ==
  LET ahead == {s \in Schedule : t < s /\ s <= t + Horizon}
  IN IF ahead = {} THEN 0 ELSE Min(ahead)

NewJob(cfg, fp) ==
  [cfg |-> cfg, lastFP |-> fp, nextRun |-> NextRun(now), running |-> FALSE, restoring |-> FALSE]

BackupInit ==
  /\ jobRow = NoRow /\ jobs = <<>> /\ current = 0
  /\ tree = 1 /\ edits = 1 /\ snaps = {} /\ saving = {} /\ now = 0 /\ bfaults = 0
  /\ worker = [w \in BackupWorkers |-> IdleWorker]
  /\ excuses = {}

\* The job gets another address: than the row has, or an object that was there.
Moves(cfg) ==
  \/ jobRow # NoRow /\ jobRow.cfg.dest # cfg.dest
  \/ \E o \in DOMAIN jobs : jobs[o].cfg.dest # cfg.dest
Busy(o) == jobs[o].running \/ jobs[o].restoring
Excuse(e, happened) == excuses' = IF happened THEN excuses \cup {e} ELSE excuses
-----------------------------------------------------------------------------
(***************************************************************************)
(* Save and Delete: one statement and one access to the map each.          *)
(***************************************************************************)
\* The fingerprint in the row is kept; that of the request counts for a new row.
SaveRow(cfg, fp) ==
  /\ Len(jobs) + Cardinality(saving) < MaxJobObjects
  /\ jobRow' = [cfg |-> cfg, fp |-> IF jobRow = NoRow THEN fp ELSE jobRow.fp]
  /\ saving' = saving \cup {[op |-> "save", cfg |-> cfg, fp |-> fp]}
  /\ excuses' = excuses \cup {e \in {"crossed"} : saving # {}} \cup {e \in {"moved"} : Moves(cfg)}
  /\ UNCHANGED <<current, jobs, tree, edits, snaps, worker, now, bfaults>>

KeptFP(fp) == IF current = 0 THEN fp ELSE jobs[current].lastFP
Install(s) ==
  /\ s.op = "save" /\ saving' = saving \ {s}
  /\ jobs' = Append(jobs, NewJob(s.cfg, KeptFP(s.fp)))
  /\ current' = Len(jobs')
  /\ excuses' = excuses
       \cup {e \in {"replaced"} : \E o \in 1..Len(jobs) : Busy(o)}
       \cup {e \in {"moved"} : Moves(s.cfg)}
       \cup {e \in {"crossed"} : \E w \in BackupWorkers : worker[w].pc = "update"}
  /\ UNCHANGED <<jobRow, tree, edits, snaps, worker, now, bfaults>>

Forget ==
  /\ current' = 0
  /\ saving' = saving \cup {[op |-> "delete", cfg |-> NoRow.cfg, fp |-> NoFP]}
  /\ excuses' = excuses
       \cup {e \in {"replaced"} : current # 0 /\ Busy(current)}
       \cup {e \in {"crossed"} : saving # {}}
  /\ UNCHANGED <<jobRow, jobs, tree, edits, snaps, worker, now, bfaults>>

DropRow(s) ==
  /\ s.op = "delete" /\ saving' = saving \ {s}
  /\ jobRow' = NoRow
  /\ UNCHANGED <<current, jobs, tree, edits, snaps, worker, now, bfaults, excuses>>
-----------------------------------------------------------------------------
(***************************************************************************)
(* Begin of a backup or a restore.  Who starts one has looked the object   *)
(* up before, and may by now have one that is no longer in the map.        *)
(***************************************************************************)
NotRestoring(o) == ~jobs[o].restoring
GateOpen(o) == ~Busy(o)
Begin(w, o, kind, force) ==
  /\ worker[w].pc = "idle" /\ GateOpen(o)
  /\ worker' = [worker EXCEPT ![w] =
       [IdleWorker EXCEPT !.pc = IF kind = "backup" THEN "walk" ELSE "fetch",
                          !.job = o, !.force = force]]
  /\ excuses' = excuses
       \cup {e \in {"replaced"} : o # current}
       \cup {e \in {"rotating"} : \E z \in BackupWorkers : worker[z].pc = "rotate"}

RunBackup(w, o, force) ==
  /\ Begin(w, o, "backup", force)
  /\ jobs' = [jobs EXCEPT ![o].running = TRUE]
  /\ UNCHANGED <<requestVars, tree, edits, snaps, now, bfaults>>

\* scheduleLoop: a run that finds the gate shut is skipped, not made up for.
Due(o) == jobs[o].nextRun # 0 /\ jobs[o].nextRun <= now
ScheduledBackup(w) ==
  /\ current # 0 /\ Due(current)
  /\ LET o == current
         next == [jobs EXCEPT ![o].nextRun = NextRun(now)] IN
     IF GateOpen(o)
     THEN Begin(w, o, "backup", FALSE) /\ jobs' = [next EXCEPT ![o].running = TRUE]
     ELSE jobs' = next /\ UNCHANGED <<worker, excuses>>
  /\ UNCHANGED <<requestVars, tree, edits, snaps, now, bfaults>>

StartRestore(w, o) ==
  /\ Begin(w, o, "restore", FALSE)
  /\ jobs' = [jobs EXCEPT ![o].restoring = TRUE]
  /\ UNCHANGED <<requestVars, tree, edits, snaps, now, bfaults>>
-----------------------------------------------------------------------------
(***************************************************************************)
(* doBackup and runBackupLocked.                                           *)
(***************************************************************************)
To(w, pc) == worker' = [worker EXCEPT ![w].pc = pc]
Cfg(w) == jobs[worker[w].job].cfg
FP(w, version) == [excl |-> Cfg(w).excl, tree |-> version]
Faults == bfaults < MaxBackupFaults /\ bfaults' = bfaults + 1

\* The files are walked over; what did not change is skipped.
Unchanged(w) == ~worker[w].force /\ FP(w, tree) = jobs[worker[w].job].lastFP
Walk(w) ==
  /\ worker[w].pc = "walk"
  /\ worker' = [worker EXCEPT ![w].pc = IF Unchanged(w) THEN "skipped" ELSE "pack",
                              ![w].force = FALSE,
                              ![w].fp = FP(w, tree), ![w].at = now]
  /\ UNCHANGED <<requestVars, jobs, tree, edits, snaps, now, bfaults, excuses>>

SnapsAt(d, t) == {s \in snaps : s.dest = d /\ s.at = t}
\* tarStream reads the files again; the archive replaces one of the same name.
PutArchive(w) ==
  /\ worker[w].pc = "pack"
  /\ LET here == SnapsAt(Cfg(w).dest, worker[w].at) IN
     snaps' = (snaps \ here) \cup
       {[dest |-> Cfg(w).dest, at |-> worker[w].at, tar |-> tree,
         meta |-> IF here = {} THEN NoMeta ELSE (CHOOSE s \in here : TRUE).meta]}
  /\ worker' = [worker EXCEPT ![w].pc = "describe", ![w].tar = tree]
  /\ UNCHANGED <<requestVars, jobs, tree, edits, now, bfaults, excuses>>

PutMeta(w) ==
  /\ worker[w].pc = "describe"
  /\ worker' = [worker EXCEPT ![w].pc = "store", ![w].tar = 0, ![w].at = 0]
  /\ snaps' = {IF s \in SnapsAt(Cfg(w).dest, worker[w].at)
               THEN [s EXCEPT !.meta = [tar |-> worker[w].tar, fp |-> worker[w].fp]] ELSE s : s \in snaps}
  /\ UNCHANGED <<requestVars, jobs, tree, edits, now, bfaults, excuses>>

\* updateFingerprint: the row of the job, then the object that is current now.
StoreFP(w) ==
  /\ worker[w].pc = "store"
  /\ \/ /\ jobRow' = IF jobRow = NoRow THEN NoRow ELSE [jobRow EXCEPT !.fp = worker[w].fp]
        /\ To(w, "update") /\ UNCHANGED bfaults
     \/ Faults /\ To(w, "done") /\ UNCHANGED jobRow
  /\ UNCHANGED <<current, saving, jobs, tree, edits, snaps, now, excuses>>
UpdateFP(w) ==
  /\ worker[w].pc = "update"
  /\ worker' = [worker EXCEPT ![w].pc = "done", ![w].fp = NoFP]
  /\ jobs' = IF current = 0 THEN jobs ELSE [jobs EXCEPT ![current].lastFP = worker[w].fp]
  /\ Excuse("crossed", current = 0 /\ saving # {})
  /\ UNCHANGED <<requestVars, tree, edits, snaps, now, bfaults>>

\* A request to the WebDAV server that fails ends the backup, or the restore.
RequestFails(w) ==
  /\ Faults
  /\ \/ worker[w].pc \in {"pack", "describe"} /\ To(w, "failed")
     \/ worker[w].pc = "fetch" /\ To(w, "restored")
  /\ UNCHANGED <<requestVars, jobs, tree, edits, snaps, now, excuses>>

\* The gate opens; Rotate comes after it.
EndBackup(w) ==
  /\ worker[w].pc \in {"skipped", "failed", "done"}
  /\ jobs' = [jobs EXCEPT ![worker[w].job].running = FALSE]
  /\ worker' = [worker EXCEPT ![w] =
       IF @.pc = "done" THEN [IdleWorker EXCEPT !.pc = "rotate"] ELSE IdleWorker]
  /\ UNCHANGED <<requestVars, tree, edits, snaps, now, bfaults, excuses>>

\* Rotate: the oldest snapshots at the address of the current object go.
Newer(s) == {z \in snaps : z.dest = s.dest /\ z.at > s.at}
Older(s) == {z \in snaps : z.dest = s.dest /\ z.at < s.at}
NewestSurplus(d) == {s \in snaps : s.dest = d /\ Cardinality(Older(s)) >= Retention}
Surplus(d) == {s \in snaps : s.dest = d /\ Cardinality(Newer(s)) >= Retention}
Rotate(w) ==
  /\ worker[w].pc = "rotate"
  /\ worker' = [worker EXCEPT ![w] = IdleWorker]
  /\ snaps' = snaps \ IF current = 0 THEN {} ELSE Surplus(jobs[current].cfg.dest)
  /\ UNCHANGED <<requestVars, jobs, tree, edits, now, bfaults, excuses>>
-----------------------------------------------------------------------------
(***************************************************************************)
(* A restore: it looks the job up again by its id.                         *)
(***************************************************************************)
\* RestoreLatest or RestoreSnapshot: the archive must match its description,
\* if it has one.  It is unpacked elsewhere and then merged file by file.
Verifies(s) == s.meta = NoMeta \/ s.meta.tar = s.tar
Restorable ==
  IF current = 0 THEN {} ELSE {s \in snaps : s.dest = jobs[current].cfg.dest /\ Verifies(s)}
Fetch(w) ==
  /\ worker[w].pc = "fetch"
  /\ \/ Restorable = {} /\ To(w, "restored") /\ UNCHANGED tree
     \/ \E s \in Restorable :
          /\ worker' = [worker EXCEPT ![w].pc = "merge", ![w].tar = s.tar]
          /\ tree' = Mixed
  /\ UNCHANGED <<requestVars, jobs, edits, snaps, now, bfaults, excuses>>

\* The rest of the files; or an error stops it halfway, which makes a version
\* there was not before.
Merge(w) ==
  /\ worker[w].pc = "merge" /\ To(w, "restored")
  /\ \/ tree' = worker[w].tar /\ UNCHANGED <<edits, bfaults>>
     \/ Faults /\ edits < MaxEdits /\ edits' = edits + 1 /\ tree' = edits'
  /\ UNCHANGED <<requestVars, jobs, snaps, now, excuses>>

EndRestore(w) ==
  /\ worker[w].pc = "restored"
  /\ jobs' = [jobs EXCEPT ![worker[w].job].restoring = FALSE]
  /\ worker' = [worker EXCEPT ![w] = IdleWorker]
  /\ UNCHANGED <<requestVars, tree, edits, snaps, now, bfaults, excuses>>
-----------------------------------------------------------------------------
\* Somebody changes a file.
Edit ==
  /\ tree # Mixed /\ edits < MaxEdits
  /\ edits' = edits + 1 /\ tree' = edits'
  /\ Excuse("edited", \E w \in BackupWorkers : worker[w].pc = "pack")
  /\ UNCHANGED <<requestVars, jobs, snaps, worker, now, bfaults>>

Pass ==
  /\ now < MaxTime /\ now' = now + 1
  /\ UNCHANGED <<requestVars, jobs, tree, edits, snaps, worker, bfaults, excuses>>

\* The server is killed and started again: load reads the row.
RestartBackups ==
  /\ Faults
  /\ worker' = [w \in BackupWorkers |-> IdleWorker] /\ saving' = {}
  /\ jobs' = IF jobRow = NoRow THEN <<>> ELSE <<NewJob(jobRow.cfg, jobRow.fp)>>
  /\ current' = Len(jobs')
  /\ IF tree = Mixed /\ edits < MaxEdits
     THEN edits' = edits + 1 /\ tree' = edits'
     ELSE tree # Mixed /\ UNCHANGED <<edits, tree>>
  /\ UNCHANGED <<jobRow, snaps, now, excuses>>

BackupNext ==
  \/ \E cfg \in Configs, fp \in {NoFP} \cup {jobs[o].lastFP : o \in DOMAIN jobs} : SaveRow(cfg, fp)
  \/ \E s \in saving : Install(s) \/ DropRow(s)
  \/ Forget \/ Edit \/ Pass \/ RestartBackups
  \/ \E w \in BackupWorkers :
       \/ \E o \in DOMAIN jobs : StartRestore(w, o) \/ \E force \in BOOLEAN : RunBackup(w, o, force)
       \/ ScheduledBackup(w)
       \/ Walk(w) \/ PutArchive(w) \/ PutMeta(w) \/ StoreFP(w) \/ UpdateFP(w) \/ RequestFails(w)
       \/ EndBackup(w) \/ Rotate(w) \/ Fetch(w) \/ Merge(w) \/ EndRestore(w)

BackupSpec == BackupInit /\ [][BackupNext]_backupVars
-----------------------------------------------------------------------------
(***************************************************************************)
(* Properties.                                                             *)
(***************************************************************************)
\* No snapshot is made of a directory that a restore is still writing, unless
\* the object that holds the gate was replaced, deleted, or looked up before
\* (RunBackup and StartRestore share the gate of a Job, Save makes a new Job).
WholeSnapshotsUnlessReplaced ==
  "replaced" \notin excuses => \A s \in snaps : s.tar # Mixed

\* A backup that is skipped as unchanged finds its version in a snapshot at the
\* job's address that can be restored, unless Save has replaced a gate that was
\* shut, a file was changed between the walk and the packing, or something
\* began before the rotation of the backup before it, for which the gate is
\* not held (Walk, Rotate, the fingerprint) ...
BackedUp(w) ==
  \E s \in snaps : s.dest = Cfg(w).dest /\ s.tar = worker[w].fp.tree /\ Verifies(s)
SkippedIsBackedUp ==
  excuses \cap {"edited", "replaced", "rotating"} = {} =>
    \A w \in BackupWorkers : worker[w].pc = "skipped" => BackedUp(w)
\* ... and unless Save has changed the address: the fingerprint stays.
SkippedIsBackedUpUnlessMoved == "moved" \notin excuses => SkippedIsBackedUp

\* At rest the job in memory is the one a restart would load, with its
\* fingerprint, unless requests overlapped, or two backups, or one wrote its fingerprint
\* (Save and Delete write the row and the map one after the other).
MemoryIsStoredUnlessCrossed ==
  saving = {} /\ (\A w \in BackupWorkers : worker[w].pc # "update")
    /\ excuses \cap {"crossed", "replaced"} = {} =>
    IF current = 0 THEN jobRow = NoRow
    ELSE jobRow = [cfg |-> jobs[current].cfg, fp |-> jobs[current].lastFP]

\* The next run of the job is never later than the next time its schedule matches: what
\* is saved can run (Save, jobFromConfig, scheduleLoop) ...
ScheduleAlive ==
  current # 0 /\ (\E s \in Schedule : s > now) =>
    /\ jobs[current].nextRun # 0
    /\ \A s \in Schedule : s > now => jobs[current].nextRun <= s

\* ... as long as next() sees, from any time, the time that comes next.
Seen == \A t \in 0..MaxTime : (\E s \in Schedule : t < s) => \E s \in Schedule : t < s /\ s <= t + Horizon

\* Both: no change of a job loses what it has to remember, or its schedule.
JobGoesOn == MemoryIsStoredUnlessCrossed /\ (Seen => ScheduleAlive)

=============================================================================
