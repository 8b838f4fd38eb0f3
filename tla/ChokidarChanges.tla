-------------------------- MODULE ChokidarChanges ---------------------------
(* What the local watcher of macOS makes of the events of chokidar: changes, *)
(* found one event after the other by inode and by path, squashed and sorted *)
(* (core/local/chokidar/analysis.js, local_change.js). Two paths that differ *)
(* never have the same id here. A path, record or content that is missing is *)
(* Null, or 0.                                                               *)
EXTENDS TreeMerge, Arrays

CONSTANT NamesAreLong  \* names have lengths that differ, else the same one

ASSUME ChokidarChangesAssumption == NamesAreLong \in BOOLEAN

(* An event, with the inode and the date of its stats, and what prepareEvents *)
(* adds to it: the record at the path, the checksum, and whether the file was *)
(* gone when it was looked at.                                               *)
ChokidarEvent(type, path, ino, mtime) ==
  [type |-> type, path |-> path, ino |-> ino, mtime |-> mtime, md5sum |-> 0,
   old |-> Null, wip |-> FALSE]

Appears(e) == e.type \in {"add", "addDir"}
Vanishes(e) == e.type \in {"unlink", "unlinkDir"}

Old(x) == IF Given(x.old) THEN The(x.old) ELSE NewDoc("none", Null, 0)

GetInode(e) == IF Vanishes(e) THEN Old(e).ino ELSE e.ino

(* A change. key is its place in the map of the changes by path.             *)
LocalChange(type, e) ==
  [type |-> type, path |-> e.path, ino |-> GetInode(e), md5sum |-> e.md5sum,
   old |-> e.old, wip |-> e.wip, update |-> Null, overwrite |-> Null,
   needRefetch |-> FALSE, key |-> 0]

IsDelete(c) == c.type \in {"DirDeletion", "FileDeletion"}
IsAdd(c) == c.type \in {"DirAddition", "FileAddition"}
IsMove(c) == c.type \in {"DirMove", "FileMove"}

NoChange == LocalChange("none", ChokidarEvent("none", Null, 0, 0))
-----------------------------------------------------------------------------
(* LocalChangeMap: the changes by inode, in the order of the first change of *)
(* each, and by path, where a change that was replaced may remain.           *)

NoChanges == [byInode |-> <<>>, byPath |-> <<>>, puts |-> 0, panics |-> FALSE]

PutChange(m, change) ==
  LET c == [change EXCEPT !.key = m.puts + 1]
      i == FirstIndex(IndexesOf(m.byInode, LAMBDA d : d.ino = c.ino))
  IN [m EXCEPT !.puts = @ + 1, !.byPath = (c.path :> c.key) @@ @,
               !.byInode = IF i = 0 THEN Append(@, c) ELSE [@ EXCEPT ![i] = c]]

(* A change found before is modified.                                        *)
Mutate(m, c) ==
  [m EXCEPT !.byInode = [i \in DOMAIN @ |-> IF @[i].key = c.key THEN c ELSE @[i]]]

FirstFound(changes) == IF changes = <<>> THEN NoChange ELSE Head(changes)

FindByInode(m, ino) ==
  FirstFound(SelectSeq(m.byInode, LAMBDA c : c.ino = ino /\ ino # 0))

FindByPath(m, path) ==
  FirstFound(SelectSeq(m.byInode, LAMBDA c :
    path \in DOMAIN m.byPath /\ c.key = m.byPath[path]))

(* With no move made of a deletion and an addition.                          *)
AnalyseAddApart(m, e, same) == PutChange(m, LocalChange("FileAddition", e))

(* includeAddEventInFileMove; the same event again falls through, to become  *)
(* the addition that takes the place of the move.                            *)
SameAdd(c, e) == ~c.wip /\ c.path = e.path /\ c.md5sum = e.md5sum

AnalyseAdd(m, e, same) ==
  CASE same.type = "FileMove" /\ ~SameAdd(same, e) ->
         Mutate(m, [same EXCEPT !.path = e.path, !.md5sum = e.md5sum,
                                !.wip = e.md5sum = 0])
    [] same.type = "FileDeletion" /\ Old(same).path # e.path ->
         PutChange(m, [LocalChange("FileMove", e) EXCEPT
           !.old = same.old,
           !.update = IF e.md5sum \in {0, Old(same).md5sum} THEN Null ELSE Some(e)])
    [] OTHER -> PutChange(m, LocalChange("FileAddition", e))

(* An addDir that repeats a move is what chokidar tells of a folder that was *)
(* overwritten: dirMoveOverwriteOnMacAPFS, which keeps no record of it.      *)
Overwritten == Some(NewDoc("folder", Null, 0))

AnalyseAddDir(m, e, same) ==
  CASE same.type = "DirMove" /\ ~same.wip /\ same.path = e.path ->
         Mutate(m, [same EXCEPT !.overwrite = Overwritten])
    [] same.type = "DirMove" /\ (same.wip \/ same.path # e.path) ->
         Mutate(m, IF Old(same).path = e.path THEN [same EXCEPT !.type = "Ignored"]
                   ELSE [same EXCEPT !.path = e.path, !.wip = e.wip])
    [] same.type = "DirDeletion" /\ Old(same).path # e.path ->
         PutChange(m, [LocalChange("DirMove", e) EXCEPT !.old = same.old])
    [] OTHER -> PutChange(m, LocalChange("DirAddition", e))

AnalyseChange(m, e, same) ==
  CASE same.type = "FileMove" ->
         Mutate(m, [same EXCEPT !.md5sum = e.md5sum,
                                !.update = Some([e EXCEPT !.path = same.path])])
    [] same.type = "FileDeletion" ->
         PutChange(m, [LocalChange("FileMove", e) EXCEPT
           !.old = same.old, !.overwrite = e.old])
    [] OTHER -> PutChange(m, LocalChange("FileUpdate", e))

(* "We should not have both move and unlink changes since checksumless adds  *)
(* and inode-less unlink events are dropped": panic ends the watcher.        *)
Panics(same) == IsMove(same) /\ ~same.wip

MoveFromAdd(m, e, same, type) ==
  PutChange(m, [same EXCEPT !.type = type, !.old = e.old])

(* With the deletion of the source of the move lost.                         *)
EndIncompleteAddition(m, e, c) ==
  IF IsAdd(c) /\ c.wip THEN Mutate(m, [c EXCEPT !.type = "Ignored", !.wip = FALSE])
  ELSE m

(* With the move left incomplete, and the addition, too.                     *)
EndIncompleteLater(m, e, c) == m

(* What was looked for in vain, and is now known to be gone: the move is the *)
(* deletion of its source, the addition is ignored. That of a folder is then *)
(* still said to be incomplete.                                              *)
EndIncomplete(m, e, c) ==
  LET deletion == IF e.type = "unlink" THEN "FileDeletion" ELSE "DirDeletion"
      gone == IF e.type = "unlink" THEN c.md5sum = 0 ELSE c.wip
  IN IF IsMove(c) /\ gone
     THEN Mutate(m, [c EXCEPT !.type = deletion, !.path = Old(c).path, !.wip = FALSE])
     ELSE IF IsAdd(c) /\ c.wip
     THEN Mutate(m, [c EXCEPT !.type = "Ignored", !.wip = e.type = "unlinkDir"])
     ELSE m

(* With no move made of an addition and a deletion.                          *)
AnalyseUnlinkApart(m, e, same) ==
  IF GetInode(e) = 0 THEN EndIncomplete(m, e, FindByPath(m, e.path))
  ELSE PutChange(m, LocalChange(IF e.type = "unlink" THEN "FileDeletion"
                                ELSE "DirDeletion", e))

AnalyseUnlink(m, e, same) ==
  IF Panics(same) THEN [m EXCEPT !.panics = TRUE]
  ELSE IF same.type = "FileAddition" THEN MoveFromAdd(m, e, same, "FileMove")
  ELSE IF same.type = "DirAddition" THEN MoveFromAdd(m, e, same, "DirMove")
  ELSE IF GetInode(e) = 0 THEN EndIncomplete(m, e, FindByPath(m, e.path))
  ELSE PutChange(m, LocalChange(IF e.type = "unlink" THEN "FileDeletion"
                                ELSE "DirDeletion", e))

(* chokidar makes mistakes about what is gone.                               *)
Recategorized(e) ==
  [e EXCEPT !.type = CASE Vanishes(e) /\ Old(e).docType = "file" -> "unlink"
                       [] Vanishes(e) /\ Old(e).docType = "folder" -> "unlinkDir"
                       [] OTHER -> @]

AnalyseEvent(m, event) ==
  LET e == Recategorized(event)
      same == FindByInode(m, GetInode(e))
  IN IF m.panics THEN m
     ELSE CASE e.type = "add" -> AnalyseAdd(m, e, same)
            [] e.type = "addDir" -> AnalyseAddDir(m, e, same)
            [] e.type = "change" -> AnalyseChange(m, e, same)
            [] OTHER -> AnalyseUnlink(m, e, same)

AnalyseEvents(events, pendingChanges) ==
  FoldLeft(AnalyseEvent, FoldLeft(PutChange, NoChanges, pendingChanges), events)
-----------------------------------------------------------------------------
(* The moves come first, by path; those of what a folder has are part of its *)
(* move, or start from where it brings them.                                 *)

SortBeforeSquash(a, b) ==
  FirstOrder(<< <<IsMove(a) /\ ~IsMove(b), -1>>, <<~IsMove(a) /\ IsMove(b), 1>>,
               <<IsMove(a) /\ Lower(a.path, b.path), -1>>,
               <<IsMove(a) /\ Lower(b.path, a.path), 1>> >>)

(* What is beyond a length of a path, as text: the end of the path when      *)
(* another one of the same length starts it.                                 *)
MovedLikewise(a, b) ==
  /\ NamesAreLong => IsPrefix(a.path, b.path)
  /\ Len(b.path) > Len(a.path)
  /\ SubSeq(b.path, Len(a.path) + 1, Len(b.path)) =
       SubSeq(Old(b).path, Len(Old(a).path) + 1, Len(Old(b).path))

(* With the path the file had before its folder was moved.                   *)
UpdateBeforeMove(b) ==
  [LocalChange("FileUpdate", The(b.update)) EXCEPT
     !.path = Old(b).path, !.ino = b.ino, !.wip = FALSE, !.needRefetch = TRUE]

(* The update of a file that was moved with its folder, made last.           *)
UpdateAfterMove(b) ==
  [LocalChange("FileUpdate", The(b.update)) EXCEPT
     !.ino = b.ino, !.wip = FALSE, !.needRefetch = TRUE,
     !.old = Some([Old(b) EXCEPT !.path = The(b.update).path])]

SquashBelow(changes, i) ==
  LET a == changes[i]
      below(j) == /\ j > i /\ a.type = "DirMove" /\ IsMove(changes[j])
                  /\ AreParentChildPaths(Old(a).path, Old(changes[j]).path)
      squashed(j) == below(j) /\ MovedLikewise(a, changes[j])
      updated(j) == squashed(j) /\ changes[j].type = "FileMove" /\ Given(changes[j].update)
      from(b) == [b EXCEPT !.needRefetch = TRUE,
                           !.old[1].path = NewChildPath(@, Old(a).path, a.path)]
      each(j) == IF below(j) THEN from(changes[j]) ELSE changes[j]
      indexes == [j \in DOMAIN changes |-> j]
      left == SelectSeq(indexes, LAMBDA j : ~squashed(j))
      late == SelectSeq(indexes, updated)
  IN [k \in DOMAIN left |-> each(left[k])]
     \o [k \in DOMAIN late |-> UpdateAfterMove(changes[late[k]])]

SquashMoves(changes) ==
  FoldLeft(LAMBDA all, i : IF i <= Len(all) THEN SquashBelow(all, i) ELSE all,
           changes, [i \in DOMAIN changes |-> i])
-----------------------------------------------------------------------------
(* The final order, of paths added, deleted and updated; -1 puts a first.    *)

AddPath(c) == IF IsAdd(c) \/ IsMove(c) THEN c.path ELSE Null
DelPath(c) == IF IsDelete(c) THEN c.path ELSE IF IsMove(c) THEN Old(c).path ELSE Null
UpdatePath(c) == IF c.type = "FileUpdate" THEN c.path ELSE Null

ChildOf(p, c) == p # Null /\ AreParentChildPaths(p, c)
LowerPath(one, two) == one # Null /\ two # Null /\ Lower(one, two)

(* That both paths are missing makes them equal, too.                        *)
SamePath(one, two) == one = two
BothAt(one, two) == one # Null /\ one = two

InitialScanSorter(a, b) ==
  FirstOrder(<< <<a.wip /\ ~b.wip, -1>>, <<b.wip /\ ~a.wip, 1>>,
               <<ChildOf(AddPath(a), AddPath(b)), -1>>,
               <<ChildOf(AddPath(b), AddPath(a)), 1>>,
               <<IsDelete(a) /\ ~IsDelete(b), 1>>, <<IsDelete(b) /\ ~IsDelete(a), -1>>,
               <<LowerPath(AddPath(a), AddPath(b)), -1>>,
               <<LowerPath(AddPath(b), AddPath(a)), 1>>,
               <<LowerPath(AddPath(b), UpdatePath(a)), 1>>,
               <<LowerPath(AddPath(a), UpdatePath(b)), -1>>,
               <<LowerPath(DelPath(b), DelPath(a)), -1>>, <<TRUE, 1>> >>)

DefaultSorter(a, b) ==
  FirstOrder(<< <<a.wip /\ ~b.wip, -1>>, <<b.wip /\ ~a.wip, 1>>,
               <<AddPath(b) = Null /\ ChildOf(AddPath(a), DelPath(b)), 1>>,
               <<AddPath(a) = Null /\ ChildOf(AddPath(b), DelPath(a)), -1>>,
               <<ChildOf(AddPath(a), DelPath(b)), -1>>,
               <<ChildOf(AddPath(b), DelPath(a)), 1>>,
               <<ChildOf(AddPath(a), AddPath(b)), -1>>,
               <<ChildOf(AddPath(a), UpdatePath(b)), -1>>,
               <<ChildOf(DelPath(b), DelPath(a)), -1>>,
               <<ChildOf(AddPath(b), AddPath(a)), 1>>,
               <<ChildOf(AddPath(b), UpdatePath(a)), 1>>,
               <<ChildOf(DelPath(a), DelPath(b)), 1>>,
               <<SamePath(DelPath(a), AddPath(b)), -1>>,
               <<SamePath(DelPath(b), AddPath(a)), 1>>,
               <<BothAt(AddPath(a), AddPath(b)), -1>>,
               <<BothAt(DelPath(a), DelPath(b)), 1>>,
               <<LowerPath(AddPath(a), AddPath(b)), -1>>,
               <<LowerPath(AddPath(b), AddPath(a)), 1>>,
               <<LowerPath(UpdatePath(a), AddPath(b)), -1>>,
               <<LowerPath(AddPath(b), UpdatePath(a)), 1>>,
               <<LowerPath(AddPath(a), UpdatePath(b)), -1>>,
               <<LowerPath(UpdatePath(b), AddPath(a)), 1>>,
               <<LowerPath(UpdatePath(a), UpdatePath(b)), -1>>,
               <<LowerPath(UpdatePath(b), UpdatePath(a)), 1>>,
               <<LowerPath(DelPath(b), DelPath(a)), -1>>, <<TRUE, 1>> >>)

(* Incomplete changes come first; they wait for the next events.             *)
SeparatePendingChanges(changes) ==
  LET complete == IndexesOf(changes, LAMBDA c : ~c.wip)
      n == IF complete = {} THEN Len(changes) ELSE FirstIndex(complete) - 1
  IN [pendingChanges |-> SubSeq(changes, 1, n),
      changes |-> SubSeq(changes, n + 1, Len(changes)), panics |-> FALSE]

Analysis(events, pendingChanges, isInitialScan) ==
  LET found == AnalyseEvents(events, pendingChanges)
      squashed == SquashMoves(NodeSort(found.byInode, SortBeforeSquash))
  IN IF found.panics
     THEN [pendingChanges |-> <<>>, changes |-> <<>>, panics |-> TRUE]
     ELSE SeparatePendingChanges(IF isInitialScan
                                 THEN NodeSort(squashed, InitialScanSorter)
                                 ELSE NodeSort(squashed, DefaultSorter))
-----------------------------------------------------------------------------
(* What Prep is asked of a change, and whether it fails out of the handlers  *)
(* that log their errors (core/local/chokidar/send_to_prep.js): the update   *)
(* of a file, and a move of what has no record any more.                     *)

Refetched(w, c) ==
  IF c.needRefetch /\ Given(c.old) THEN BySyncedPath(w, Old(c).path) ELSE c.old

BuildDoc(c, docType) == BuildLocal(docType, c.path, c.md5sum, c.ino)

OnMove(w, c, old) ==
  LET doc == [BuildDoc(c, IF c.type = "FileMove" THEN "file" ELSE "folder") EXCEPT
                !.remote = The(old).remote, !.overwrite = c.overwrite]
  IN IF c.type = "FileMove" /\ c.md5sum = 0 THEN Fails(w)
     ELSE PrepMove(w, "local", doc, The(old), <<>>)

OnUnlink(w, c) ==
  LET found == BySyncedPath(w, c.path)
      docType == IF c.type = "FileDeletion" THEN "file" ELSE "folder"
  IN IF ~Given(found) THEN w
     ELSE PrepTrash(w, "local", The(found), NewDoc(docType, c.path, 0))

SendChange(w, c) ==
  LET old == Refetched(w, c)
      logged(after) == [after EXCEPT !.ok = TRUE]
  IN CASE c.type = "Ignored" -> w
       [] IsDelete(c) -> logged(OnUnlink(w, c))
       [] IsMove(c) -> IF Given(old) THEN logged(OnMove(w, c, old)) ELSE Fails(w)
       [] c.type = "DirAddition" -> logged(PutFolder(w, "local", BuildDoc(c, "folder")))
       [] c.type = "FileAddition" -> logged(AddFile(w, "local", BuildDoc(c, "file")))
       [] OTHER -> IF c.md5sum = 0 THEN Fails(w)
                   ELSE UpdateFile(w, "local", BuildDoc(c, "file"))
=============================================================================
