----------------------------- MODULE FileWrites -----------------------------
(***************************************************************************)
(* Requests that change the same files at once (internal/fs: ops.go,       *)
(* archive.go, archive_create.go, replaceInFile).  An editor's save, an    *)
(* upload, a new archive and a replacement are written to a temporary file *)
(* that then takes the name; a copy, an extracted entry and a move to      *)
(* another device are written into the file that has the name.             *)
(*                                                                         *)
(* A file that is open is its inode.  Its content has two halves, each the *)
(* set of the requests whose edits are in it; {} is nothing.               *)
(***************************************************************************)
EXTENDS Naturals, FiniteSets

CONSTANTS Paths, FsUsers, MaxOps, MaxFsFaults

ASSUME FilesAssumption == IsFiniteSet(Paths) /\ MaxOps \in Nat

VARIABLES
  at,      \* [Paths -> inode, or 0]
  data,    \* [Inodes -> its halves]
  torn,    \* [Inodes -> why it may not be whole]
  op,      \* [FsUsers -> request under way]
  expected,\* paths that have a file, as far as the users were told
  ops, inodes, fsFaults

fsVars == <<at, data, torn, op, expected, ops, inodes, fsFaults>>

Inodes  == 1..Cardinality(Paths) + MaxOps
Halves  == 1..2
NoData  == [h \in Halves |-> {}]
All(v)  == [h \in Halves |-> v]
Whole(i) == data[i][1] = data[i][2] /\ data[i][1] # {}
NoOp    == [pc |-> "idle", path |-> {}, away |-> {}, temp |-> FALSE, from |-> 0, to |-> 0, half |-> 0, v |-> 0]

FilesInit ==
  /\ \E f \in [Paths -> 0..Cardinality(Paths)] :
       /\ \A p, q \in Paths : f[p] = f[q] => p = q \/ f[p] = 0
       /\ at = f /\ expected = {p \in Paths : f[p] # 0}
  /\ data = [i \in Inodes |-> IF i <= Cardinality(Paths) THEN All({0}) ELSE NoData]
  /\ torn = [i \in Inodes |-> {}]
  /\ op = [u \in FsUsers |-> NoOp]
  /\ ops = 0 /\ inodes = Cardinality(Paths) /\ fsFaults = 0

New == inodes + 1
Begins(u, o) == /\ op[u].pc = "idle" /\ ops < MaxOps /\ ops' = ops + 1
                /\ op' = [op EXCEPT ![u] = o] /\ UNCHANGED fsFaults
Proceeds(u, pc)  == op' = [op EXCEPT ![u].pc = pc] /\ UNCHANGED <<ops, fsFaults>>
Ends(u)      == op' = [op EXCEPT ![u] = NoOp] /\ UNCHANGED <<ops, fsFaults>>
Writing(i)   == {u \in FsUsers : op[u].pc = "put" /\ op[u].to = i}
Reading(i)   == {u \in FsUsers : op[u].pc = "put" /\ op[u].from = i}

(***************************************************************************)
(* A temporary file that takes the name.                                   *)
(***************************************************************************)
\* Write: the body is in the temporary file.  One that fails before leaves nothing.
Write(u, p) ==
  /\ Begins(u, [NoOp EXCEPT !.pc = "remove", !.path = {p}, !.to = New, !.v = ops + 1])
  /\ data' = [data EXCEPT ![New] = All({ops + 1})] /\ inodes' = New
  /\ UNCHANGED <<at, torn, expected>>

\* replaceInFile reads the file and writes it with its edits, CreateArchiveFile
\* packs another one.
Rewrite(u, q, p) ==
  /\ Begins(u, [NoOp EXCEPT !.pc = "put", !.path = {p}, !.temp = TRUE, !.from = at[q], !.to = New,
                            !.half = 1, !.v = ops + 1])
  /\ torn' = [torn EXCEPT ![New] = torn[at[q]] \cup (IF Writing(at[q]) # {} THEN {"moving"} ELSE {})]
  /\ inodes' = New /\ UNCHANGED <<at, data, expected>>
Replace(u, p) == at[p] # 0 /\ data[at[p]] # NoData /\ Rewrite(u, p, p)
CreateArchive(u, q, p) == at[q] # 0 /\ p # q /\ Rewrite(u, q, p)

\* os.Remove: there is no file until the next step.
Remove(u) ==
  /\ op[u].pc = "remove" /\ Proceeds(u, "rename")
  /\ at' = [p \in Paths |-> IF p \in op[u].path THEN 0 ELSE at[p]]
  /\ UNCHANGED <<data, torn, expected, inodes>>
TakeName(u) ==
  /\ op[u].pc = "rename" /\ Ends(u)
  /\ at' = [p \in Paths |-> IF p \in op[u].path THEN op[u].to ELSE at[p]]
  /\ expected' = expected \cup op[u].path
  /\ UNCHANGED <<data, torn, inodes>>

(***************************************************************************)
(* Into the file that has the name.                                        *)
(***************************************************************************)
\* os.Create, O_TRUNC.  from is the open source, 0 for an archive entry.
OpenOver(u, p, from, away) ==
  LET i == IF at[p] = 0 THEN New ELSE at[p]
  IN /\ Begins(u, [NoOp EXCEPT !.pc = "put", !.path = {p}, !.away = away, !.from = from, !.to = i,
                               !.half = 1, !.v = ops + 1])
     /\ at' = [at EXCEPT ![p] = i] /\ inodes' = IF at[p] = 0 THEN New ELSE inodes
     /\ data' = [data EXCEPT ![i] = NoData]
     /\ expected' = expected \cup {p}
     /\ torn' = [k \in Inodes |->
          IF k = i THEN (IF from = 0 THEN {} ELSE torn[from])
                        \cup (IF from = i THEN {"itself"} ELSE {})
                        \cup (IF Writing(i) # {} THEN {"two writers"} ELSE {})
                        \cup (IF from # 0 /\ Writing(from) # {} THEN {"moving"} ELSE {})
          ELSE torn[k] \cup (IF \E x \in Reading(i) : op[x].to = k THEN {"moving"} ELSE {})]

\* writeExtracted, copyFile, and renameCrossDevice where a rename is not possible.
Extract(u, p)    == OpenOver(u, p, 0, {})
Copy(u, q, p)    == at[q] # 0 /\ OpenOver(u, p, at[q], {})
MoveOver(u, q, p) == at[q] # 0 /\ p # q /\ OpenOver(u, p, at[q], {q})

\* io.Copy, one half at a time, each writer at its own place.  Edits go into both;
\* the first operator replaces one match only.
Piece(u) == IF op[u].half \notin Halves THEN {}
            ELSE IF op[u].from = 0 THEN {op[u].v} ELSE data[op[u].from][op[u].half]
EditedOnce(u) == IF op[u].temp /\ op[u].half = 1 THEN {op[u].v} ELSE {}
Edited(u) == IF op[u].temp THEN {op[u].v} ELSE {}
Put(u) ==
  /\ op[u].pc = "put" /\ Piece(u) # {}
  /\ data' = [data EXCEPT ![op[u].to][op[u].half] = Piece(u) \cup Edited(u)]
  /\ op' = [op EXCEPT ![u].half = @ + 1]
  /\ UNCHANGED <<at, torn, expected, ops, inodes, fsFaults>>
\* At the end of the source.  A move takes the name of the source away, whatever
\* file it now is.
PutEnds(u) ==
  /\ op[u].pc = "put" /\ Piece(u) = {}
  /\ IF op[u].temp THEN Proceeds(u, "remove") ELSE Ends(u)
  /\ at' = [p \in Paths |-> IF p \in op[u].away THEN 0 ELSE at[p]]
  /\ expected' = expected \ op[u].away
  /\ UNCHANGED <<data, torn, inodes>>

(***************************************************************************)
(* One system call.                                                        *)
(***************************************************************************)
\* Touch: O_EXCL.
TouchFile(u, p) ==
  /\ at[p] = 0 /\ Begins(u, NoOp)
  /\ at' = [at EXCEPT ![p] = New] /\ inodes' = New
  /\ data' = [data EXCEPT ![New] = All({ops + 1})] /\ expected' = expected \cup {p}
  /\ UNCHANGED torn
Rename(u, q, p) ==
  /\ at[q] # 0 /\ p # q /\ Begins(u, NoOp)
  /\ at' = [at EXCEPT ![p] = at[q], ![q] = 0]
  /\ expected' = (expected \ {q}) \cup {p}
  /\ UNCHANGED <<data, torn, inodes>>
DeleteFile(u, p) ==
  /\ p \in expected /\ Begins(u, NoOp)
  /\ at' = [at EXCEPT ![p] = 0] /\ expected' = expected \ {p}
  /\ UNCHANGED <<data, torn, inodes>>

\* The disk is full, or the program is killed in the middle of everything.
Fault(S) ==
  /\ fsFaults < MaxFsFaults /\ fsFaults' = fsFaults + 1
  /\ op' = [u \in FsUsers |-> IF u \in S THEN NoOp ELSE op[u]]
  /\ torn' = [i \in Inodes |-> torn[i] \cup (IF Writing(i) \cap S # {} THEN {"cut off"} ELSE {})]
PutFails(u) == /\ op[u].pc = "put" /\ Fault({u})
               /\ UNCHANGED <<at, data, expected, ops, inodes>>
Crash == /\ \E u \in FsUsers : op[u] # NoOp
         /\ Fault(FsUsers)
         /\ expected' = {p \in expected : at[p] # 0 \/ \A u \in FsUsers : op[u].pc = "rename" => p \notin op[u].path}
         /\ UNCHANGED <<at, data, ops, inodes>>

FilesNext ==
  \/ \E u \in FsUsers, p \in Paths :
       \/ Write(u, p) \/ Replace(u, p) \/ Extract(u, p) \/ TouchFile(u, p) \/ DeleteFile(u, p)
       \/ \E q \in Paths : CreateArchive(u, q, p) \/ Copy(u, q, p) \/ MoveOver(u, q, p) \/ Rename(u, q, p)
  \/ \E u \in FsUsers : Remove(u) \/ TakeName(u) \/ Put(u) \/ PutEnds(u) \/ PutFails(u)
  \/ Crash

FilesSpec == FilesInit /\ [][FilesNext]_fsVars

(***************************************************************************)
(* Properties.                                                             *)
(***************************************************************************)
\* A file is of one piece when nobody is writing into it, unless one who was has
\* been cut off, two were, its source changed meanwhile or was the file itself
\* (Write, copyFile, renameCrossDevice).
FileWhole ==
  \A p \in Paths : at[p] # 0 /\ Writing(at[p]) = {} => Whole(at[p]) \/ torn[at[p]] # {}

\* A file that nobody has deleted or moved is there, but for the moment between
\* os.Remove and the rename of a save, and for good if the program ends in it.
FileThere ==
  \A p \in expected : at[p] # 0 \/ \E u \in FsUsers : op[u].pc = "rename" /\ p \in op[u].path

FilesSound == FileWhole /\ FileThere
=============================================================================
