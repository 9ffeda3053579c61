---------------------------- MODULE ExcludeRules ----------------------------
(***************************************************************************)
(* What a backup job leaves out (internal/backup: ignore.go, extract.go,   *)
(* the walk of runner.go): a list of patterns in the manner of gitignore   *)
(* decides what the walk packs, what is taken out of the archive, and what *)
(* of that is merged back into the directory.                              *)
(*                                                                         *)
(* A name is a sequence of characters, a path a sequence of names.  A      *)
(* pattern is what newIgnoreMatcher makes of a line.  A path stays a file  *)
(* or a directory; an empty directory is in no archive.                    *)
(***************************************************************************)
EXTENDS Naturals, Sequences, FiniteSets

CONSTANTS Segments,    \* the parts of patterns between two slashes
          Files,       \* the paths of the files
          MaxPatterns  \* of a list

VARIABLES stage, patterns, disk, archive, staged, before
exclVars == <<stage, patterns, disk, archive, staged, before>>

NoFile == 0
AnyStars == <<"*", "*">>
Globs == {<<s>> : s \in Segments} \cup (Segments \X Segments)
\* A slash at the front or in the middle ties a pattern to the root.
Patterns == {q \in [glob : Globs, negate : BOOLEAN, dirOnly : BOOLEAN, anchored : BOOLEAN] :
               Len(q.glob) > 1 => q.anchored}
ExcludeLists == UNION {[1..n -> Patterns] : n \in 0..MaxPatterns}

Parts(path)  == {SubSeq(path, 1, n) : n \in 1..Len(path)}
Folders      == UNION {Parts(f) \ {f} : f \in Files}
Last(path)   == path[Len(path)]

(***************************************************************************)
(* Matching (ignore.go).                                                   *)
(***************************************************************************)
RECURSIVE SimpleMatch(_, _)
SimpleMatch(q, s) ==
  IF s = <<>> THEN \A i \in 1..Len(q) : q[i] = "*"
  ELSE /\ q # <<>>
       /\ IF Head(q) \in {"?", Head(s)} THEN SimpleMatch(Tail(q), Tail(s))
          ELSE Head(q) = "*" /\ \E k \in 0..Len(s) : SimpleMatch(Tail(q), SubSeq(s, k + 1, Len(s)))

\* ** is any number of names, at the end at least one.
RECURSIVE MatchSegments(_, _)
MatchSegments(glob, path) ==
  IF glob = <<>> THEN path = <<>>
  ELSE IF Head(glob) = AnyStars
  THEN \E k \in (IF Len(glob) = 1 THEN 1 ELSE 0)..Len(path) : MatchSegments(Tail(glob), SubSeq(path, k + 1, Len(path)))
  ELSE path # <<>> /\ SimpleMatch(Head(glob), Head(path)) /\ MatchSegments(Tail(glob), Tail(path))

\* The first part of the path that matches decides: what is below it is below a
\* directory.
MatchPattern(q, path, isDir) ==
  LET hits == {n \in 1..Len(path) : MatchSegments(q.glob, IF q.anchored THEN SubSeq(path, 1, n) ELSE <<path[n]>>)}
  IN hits # {} /\ ((\E n \in hits : n < Len(path)) \/ ~q.dirOnly \/ isDir)

\* The last pattern that matches decides.
RECURSIVE IgnoredBy(_, _, _)
IgnoredBy(list, path, isDir) ==
  list # <<>> /\ IF MatchPattern(Last(list), path, isDir) THEN ~Last(list).negate
                 ELSE IgnoredBy(SubSeq(list, 1, Len(list) - 1), path, isDir)
ShouldIgnore(path, isDir) == IgnoredBy(patterns, path, isDir)
HasNegate == \E i \in 1..Len(patterns) : patterns[i].negate

(***************************************************************************)
(* Backup and restore.                                                     *)
(***************************************************************************)
ExcludesInit ==
  /\ stage = "live" /\ patterns \in ExcludeLists
  /\ disk = [f \in Files |-> 1] /\ before = disk
  /\ archive = [f \in Files |-> NoFile] /\ staged = archive

\* The walk does not enter a directory that matches; with a negated pattern it
\* must.  The first operator forgets why.
AlwaysPrunes == TRUE
Prunes == ~HasNegate
Walked == {f \in Files : ~ShouldIgnore(f, FALSE)
             /\ (Prunes => \A d \in Parts(f) \ {f} : ~ShouldIgnore(d, TRUE))}
Pack ==
  /\ stage = "live" /\ stage' = "packed"
  /\ archive' = [f \in Files |-> IF f \in Walked THEN disk[f] ELSE NoFile]
  /\ UNCHANGED <<patterns, disk, staged, before>>

\* Afterwards the directory changes, or the job's list.
ChangeDisk ==
  /\ stage = "packed" /\ stage' = "changed"
  /\ \E v \in {NoFile, 2} : disk' = [f \in Files |-> v]
  /\ UNCHANGED <<patterns, archive, staged, before>>
ChangeList ==
  /\ stage = "changed" /\ Len(patterns) = 1 /\ stage' = "other list"
  /\ \E q \in Patterns : patterns' = <<q>>
  /\ UNCHANGED <<disk, archive, staged, before>>

\* extractTarGz.
Unpack ==
  /\ stage \in {"packed", "changed", "other list"} /\ stage' = "unpacked"
  /\ staged' = [f \in Files |-> IF ShouldIgnore(f, FALSE) THEN NoFile ELSE archive[f]]
  /\ before' = disk
  /\ UNCHANGED <<patterns, disk, archive>>

\* mergeDir leaves out every directory that matches, negated patterns or not.
Merged(f) == /\ staged[f] # NoFile /\ ~ShouldIgnore(f, FALSE)
             /\ \A d \in Parts(f) \ {f} : ~ShouldIgnore(d, TRUE)
MergeStaged ==
  /\ stage = "unpacked" /\ stage' = "restored"
  /\ disk' = [f \in Files |-> IF Merged(f) THEN staged[f] ELSE disk[f]]
  /\ UNCHANGED <<patterns, archive, staged, before>>

ExcludesNext == Pack \/ ChangeDisk \/ ChangeList \/ Unpack \/ MergeStaged

(***************************************************************************)
(* What a pattern means, said without an algorithm: a segment ends at each *)
(* of the places e, and the next begins there.                             *)
(***************************************************************************)
Cuts(n, m) == {e \in [0..n -> 0..m] : e[0] = 0 /\ e[n] = m /\ \A i \in 1..n : e[i - 1] <= e[i]}
NameFits(q, s) ==
  \E e \in Cuts(Len(q), Len(s)) : \A i \in 1..Len(q) :
    q[i] = "*" \/ (e[i] = e[i - 1] + 1 /\ q[i] \in {"?", s[e[i]]})
PathFits(glob, path) ==
  \E e \in Cuts(Len(glob), Len(path)) : \A i \in 1..Len(glob) :
    IF glob[i] = AnyStars THEN i = Len(glob) => e[i] > e[i - 1]
    ELSE e[i] = e[i - 1] + 1 /\ NameFits(glob[i], path[e[i]])
Hits(q, path, isDir) ==
  \E top \in Parts(path) :
    /\ PathFits(q.glob, IF q.anchored THEN top ELSE <<Last(top)>>)
    /\ q.dirOnly => top # path \/ isDir
LeftOut(path, isDir) ==
  \E i \in 1..Len(patterns) :
    /\ ~patterns[i].negate /\ Hits(patterns[i], path, isDir)
    /\ \A j \in i + 1..Len(patterns) : ~Hits(patterns[j], path, isDir)
\* A star in a name is taken for itself even where the pattern's star means more.
PlainName(path) == \A i \in 1..Len(path) : \A j \in 1..Len(path[i]) : path[i][j] # "*"

\* What the matcher leaves out is what the patterns mean, in files and in
\* directories, unless a name has a star in it (shouldIgnore).
MatchesAsMeant ==
  stage = "live" => \A path \in Files \cup Folders : PlainName(path) =>
    (ShouldIgnore(path, path \in Folders) <=> LeftOut(path, path \in Folders))

\* An archive has every file that is not left out: not to enter a directory loses
\* nothing (doBackup).
PackedWhole ==
  stage = "packed" => \A f \in Files : PlainName(f) => (archive[f] = NoFile <=> LeftOut(f, FALSE))

\* A restore brings back what is in the archive and not left out now, and nothing
\* else changes, unless a negated pattern keeps a file of a directory that is left
\* out (mergeDir).
RestoredWhole ==
  stage = "restored" => \A f \in Files :
    IF archive[f] = NoFile \/ ShouldIgnore(f, FALSE) THEN disk[f] = before[f]
    ELSE disk[f] = archive[f] \/ (HasNegate /\ \E d \in Parts(f) \ {f} : LeftOut(d, TRUE))

ExcludesKept == MatchesAsMeant /\ PackedWhole /\ RestoredWhole
=============================================================================
