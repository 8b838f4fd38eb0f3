----------------------------- MODULE TreeMerge ------------------------------
(* Merge and Prep for trees of files and folders (core/merge.js,             *)
(* core/prep.js): every operation takes a world and gives the one it leaves. *)
(* Paths that differ never have the same id, as on Linux; Cozy Notes,        *)
(* ignored paths and incompatibilities are left out.                         *)
EXTENDS Writers

(* resolveConflictAsync: the doc of the side is renamed on that side, which  *)
(* its watcher will report.                                                  *)
ResolveConflict(w, side, doc) ==
  LET date == w.ids + 1
      given == [w EXCEPT !.ids = date, !.doc = CreateConflictingDoc(doc, date)]
  IN IF side = "remote" THEN RemoteMove(given, doc) ELSE LocalMove(given, doc)

(* What a conflict leaves of the record: it forgets the side that was        *)
(* renamed and stands for the other one.                                     *)
Conflict(w, side, renamed, file) ==
  LET known == IF side = "local" THEN Given(file.local) ELSE Given(file.remote)
      alone == Remark(OtherSide(side), DissociateRecord(side, file))
  IN AndThen(ResolveConflict(w, side, renamed),
             LAMBDA after : IF known THEN Put(after, alone) ELSE after)

(* What is left of the update of a record marked for deletion.               *)
Revived(side, doc, file) ==
  LET over == [doc EXCEPT !.id = file.id, !.rev = file.rev]
  IN IF side = "local"
     THEN MarkRecord(side, [over EXCEPT !.remote = file.remote], Some(file))
     ELSE MarkRecord(side, over, Null)

(* { ...file, ...doc }                                                       *)
Updated(doc, file) ==
  [file EXCEPT !.md5sum = doc.md5sum,
               !.ino = IF doc.ino = 0 THEN @ ELSE doc.ino,
               !.local = OrElse(doc.local, @), !.remote = OrElse(doc.remote, @),
               !.overwrite = OrElse(doc.overwrite, @)]

(* The record is the same but for what it knows of the local side.           *)
SaveLocal(w, side, doc, was) ==
  LET known == [was EXCEPT !.local = doc.local]
      late == OutOfDateSide(was.sides)
  IN IF side = "remote" \/ was.local = doc.local THEN w
     ELSE Put(w, IF late = "none" THEN known ELSE Remark(OtherSide(late), known))

(* An updateFileAsync that overlooks what the other side did meanwhile.      *)
UpdateFileBlindly(w, side, doc) ==
  LET found == BySyncedPath(w, doc.path)
      file == The(found)
  IN IF ~Given(found) THEN Put(w, MarkRecord(side, doc, Null))
     ELSE IF file.docType = "folder" THEN Fails(w)
     ELSE Put(w, MarkRecord(side, Updated(doc, file), found))

UpdateFile(w, side, doc) ==
  LET found == BySyncedPath(w, doc.path)
      file == The(found)
      update == Updated(doc, file)
  IN IF ~Given(found) THEN Put(w, MarkRecord(side, doc, Null))
     ELSE IF file.docType = "folder" THEN Fails(w)
     ELSE IF side = "local" /\ Given(file.local) /\ file.local = doc.local THEN w
     ELSE IF file.deleted THEN Put(w, Revived(side, doc, file))
     ELSE IF SameFile(update, file) THEN SaveLocal(w, side, doc, file)
     ELSE IF /\ ~SameBinary(file.md5sum, update.md5sum)
             /\ ~IsAtLeastUpToDate(side, file.sides)
     THEN Conflict(w, side, IF side = "local" THEN file ELSE update, file)
     ELSE Put(w, MarkRecord(side, update, found))

AddFile(w, side, doc) ==
  LET found == BySyncedPath(w, doc.path)
      file == The(found)
  IN IF ~Given(found) THEN Put(w, MarkRecord(side, doc, Null))
     ELSE IF file.docType = "folder" /\ ~file.deleted
     THEN ResolveConflict(w, side, doc)
     ELSE UpdateFile(w, side, doc)

PutFolder(w, side, doc) ==
  LET found == BySyncedPath(w, doc.path)
      folder == The(found)
      marked == MarkRecord(side, doc, found)
      update == [marked EXCEPT
                   !.id = folder.id, !.rev = folder.rev,
                   !.remote = OrElse(doc.remote, folder.remote),
                   !.local = OrElse(doc.local, folder.local),
                   !.ino = IF doc.ino = 0 THEN folder.ino ELSE doc.ino]
  IN IF ~Given(found) THEN Put(w, marked)
     ELSE IF folder.docType = "file" THEN ResolveConflict(w, side, marked)
     ELSE IF ~folder.deleted /\ SameFolder(folder, update)
     THEN SaveLocal(w, side, update, folder)
     ELSE Put(w, update)
-----------------------------------------------------------------------------
(* Moves *)

(* The destination takes the place of the record that is at its path.        *)
Over(doc, there) == [doc EXCEPT !.id = there.id, !.rev = there.rev,
                                !.overwrite = OrElse(there.overwrite, Some(there))]

(* A moveFileAsync that does not look at what is at the destination.         *)
MoveFileBlindly(w, side, doc, was) ==
  LET moved == Move(side, was, doc, FALSE)
  IN BulkDocs(w, <<moved.src, moved.dst>>)

BulkMove(w, moved) == BulkDocs(w, <<moved.src, moved.dst>>)

MoveOntoFile(w, side, doc, was, moved, file) ==
  IF \/ file.deleted \/ Given(moved.dst.overwrite)
     \/ IsAtLeastUpToDate(side, file.sides)
  THEN BulkMove(w, [moved EXCEPT !.dst = Over(@, file)])
  ELSE IF SameFile(file, moved.dst)
  THEN Put(SaveLocal(w, side, moved.dst, file), moved.src)
  ELSE AndThen(ResolveConflict(w, side, moved.dst), LAMBDA renamed :
         BulkMove(renamed, Move(side, was, renamed.doc, FALSE)))

(* What was never on both sides, or is deleted, is not moved but added.      *)
MoveFile(w, side, doc, was) ==
  LET unmoved == ~WasSynced(was) \/ was.deleted
      found == BySyncedPath(w, doc.path)
      moved == Move(side, was, doc, FALSE)
  IN IF unmoved \/ was.sides[side] = 0
     THEN AndThen(IF unmoved THEN Put(w, MarkAsUnsyncable(was)) ELSE w,
                  LAMBDA v : AddFile(v, side, IF unmoved THEN MarkAsUnmerged(doc, side)
                                              ELSE doc))
     ELSE IF Given(found) THEN MoveOntoFile(w, side, doc, was, moved, The(found))
     ELSE BulkMove(w, moved)

(* What is on one side only is not moved but added there.                    *)
MoveOrAdd(side, doc, dst, isChild) ==
  IF SingleSide(doc) = "none" THEN Move(side, doc, dst, isChild)
  ELSE MoveAddition(SingleSide(doc), doc, dst)

Placed(side, moved, rev) ==
  LET dst == [moved.dst EXCEPT !.rev = rev]
  IN <<moved.src, IF side = "local" /\ dst.sides.local # 0
                  THEN UpdateLocal(dst) ELSE dst>>

(* A descendant moves with the folder that was at oldPath.                   *)
MovedChild(w, side, folder, oldPath, revs, there, child) ==
  LET id == Remote(child).id
      known == IF id \in DOMAIN revs
               THEN [child EXCEPT !.remote[1].rev = revs[id]] ELSE child
      path == NewChildPath(child.path, oldPath, folder.path)
      onto == SelectSeq(there, LAMBDA d : d.path = path)
      free == [known EXCEPT !.path = path, !.overwrite = Null, !.id = 0, !.rev = 0]
      dst == IF Given(folder.overwrite) /\ onto # <<>>
             THEN Over(free, Head(onto)) ELSE free
  IN Placed(side, MoveOrAdd(side, known, dst, TRUE), dst.rev)

(* What already moved below the destination, and Sync has not applied, is    *)
(* marked again so that it moves with its parent.                            *)
MovedAlready(side, there, taken) ==
  LET marked(d) == [Remark(side, d) EXCEPT !.moveFrom[1].childMove = TRUE,
                                           !.overwrite = Null]
      todo(d) == /\ d.path \notin taken
                 /\ OutOfDateSide(d.sides) = OtherSide(side)
                 /\ Given(d.moveFrom)
  IN FoldLeft(LAMBDA acc, d : IF todo(d) THEN Append(acc, marked(d)) ELSE acc,
              <<>>, there)

(* top is the move of the folder, children those of its descendants. The     *)
(* former destination is looked at once, after the first of them.            *)
SaveFolderMove(w, side, top, children, there) ==
  LET first == <<top.src, top.dst>> \o SubSeq(children, 1, IF children = <<>> THEN 0 ELSE 2)
      marked == IF Given(top.dst.overwrite) /\ children # <<>>
                THEN MovedAlready(side, there, {d.path : d \in ToSet(first)}) ELSE <<>>
  IN BulkDocs(w, first \o marked \o SubSeq(children, 3, Len(children)))

MoveChildren(w, side, top, oldPath, revs, there) ==
  LET live == SelectSeq(ByRecursivePath(w, oldPath), LAMBDA d : ~d.deleted)
  IN SaveFolderMove(w, side, top,
       FoldLeft(LAMBDA acc, d : acc \o
                  MovedChild(w, side, top.dst, oldPath, revs, there, d), <<>>, live),
       there)

MoveFolderRecursively(w, side, folder, was, revs) ==
  MoveChildren(w, side, MoveOrAdd(side, was, folder, FALSE), was.path, revs,
               ByRecursivePath(w, folder.path))

MoveFolder(w, side, doc, was, revs) ==
  LET found == BySyncedPath(w, doc.path)
      folder == The(found)
      overwrites == \/ folder.deleted \/ Given(doc.overwrite)
                    \/ IsAtLeastUpToDate(side, folder.sides)
      to == IF ~Given(found) THEN doc ELSE Over(doc, folder)
  IN IF ~Given(found) \/ overwrites
     THEN MoveFolderRecursively(w, side, to, was, revs)
     ELSE IF SameFolder(folder, doc) THEN Put(w, was)
     ELSE AndThen(ResolveConflict(w, side, doc), LAMBDA renamed :
            MoveFolderRecursively(renamed, side, renamed.doc, was, revs))
-----------------------------------------------------------------------------
(* Trashings and deletions *)

(* The record is marked for deletion. That of something moved gives way to   *)
(* its source, or to what it overwrote.                                      *)
UnmovedSource(side, was) ==
  LET source == [The(was.moveFrom) EXCEPT !.moveTo = Null, !.rev = 0,
                                          !.dead = FALSE]
  IN [Remark(side, source) EXCEPT !.deleted = TRUE]

UnmovedDestination(side, was) ==
  LET overwritten == [RemoveActionHints(The(was.overwrite)) EXCEPT
                        !.deleted = TRUE, !.rev = was.rev]
  IN IF Given(was.overwrite) THEN MarkRecord(side, overwritten, Some(was))
     ELSE MarkAsUnsyncable(was)

DoTrash(w, side, record) ==
  LET was == [record EXCEPT !.errors = 0]
      marked == [Remark(side, was) EXCEPT !.deleted = TRUE]
      orElse(saved) == IF saved.ok THEN saved
                       ELSE Put(w, [marked EXCEPT !.trashed = TRUE])
  IN IF /\ was.deleted /\ IsAtLeastUpToDate(OtherSide(side), was.sides)
        /\ ~IsAtLeastUpToDate(side, was.sides)
     THEN EraseDocument(w, was)
     ELSE IF was.sides[side] = 0 THEN Put(w, [was EXCEPT !.trashed = TRUE])
     ELSE IF Given(was.moveFrom)
     THEN BulkDocs(w, <<UnmovedSource(side, was), UnmovedDestination(side, was)>>)
     ELSE orElse(Put(w, marked))

(* A file that was moved, or changed, on the other side is kept.             *)
TrashFile(w, side, trashed, doc) ==
  LET found == ById(w, trashed.id)
      was == The(found)
      rev == Remote(doc).rev
      changed == /\ Given(was.local) /\ Given(was.remote)
                 /\ ~IsAtLeastUpToDate(side, was.sides)
  IN IF ~Given(found) \/ was.docType # "file" \/ doc.docType # "file" THEN w
     ELSE IF changed /\ Given(was.moveFrom)
     THEN Put(w, IF side = "remote"
                 THEN [was EXCEPT !.remote[1].rev = rev,
                                  !.moveFrom[1].remote[1].rev = rev]
                 ELSE DissociateRecord("local", [was EXCEPT !.moveFrom = Null]))
     ELSE IF changed /\ ~SameBinary(Local(was).md5sum, Remote(was).md5sum)
     THEN Put(w, DissociateRecord(side, was))
     ELSE DoTrash(w, side, was)

(* A folder with files that are not up to date is not trashed: the side is   *)
(* to get it back. Its folders are only said to be deleted.                  *)
TrashFolder(w, side, trashed, doc) ==
  LET found == ById(w, trashed.id)
      was == The(found)
      children == Reverse(ByRecursivePath(w, was.path))
      alone == DissociateRecord(side, was)
      kept == [Remark(OtherSide(side), alone) EXCEPT
                 !.errors = 0, !.trashed = FALSE, !.deleted = FALSE]
      folders == SelectSeq(children, LAMBDA c : c.docType = "folder")
      said == FoldLeft(LAMBDA v, c : LET after == Put(v, [c EXCEPT !.deleted = TRUE])
                                     IN [after EXCEPT !.ok = TRUE], w, folders)
  IN IF ~Given(found) \/ doc.docType # was.docType THEN w
     ELSE IF \E i \in DOMAIN children : /\ children[i].docType = "file"
                                        /\ ~children[i].deleted
                                        /\ ~IsUpToDate(side, children[i].sides)
     THEN Put(w, kept)
     ELSE DoTrash(said, side, was)

DeleteFile(w, side, doc) ==
  LET found == BySyncedPath(w, doc.path)
      was == The(found)
      file == [was EXCEPT !.moveFrom = Null]
  IN IF ~Given(found) THEN w
     ELSE IF Given(was.moveFrom) /\ side = "remote"
     THEN Put(w, DissociateRecord("remote", file))
     ELSE IF file.sides[side] = 0 THEN w
     ELSE Put(w, [Remark(side, file) EXCEPT !.deleted = TRUE, !.errors = 0])

(* What the other side modified stays, as does the folder of what stays. The *)
(* documents of a folder come before it.                                     *)
PreservedBelow(side, docs) ==
  LET stays(kept, i) == /\ ~docs[i].deleted
                        /\ \/ ~IsUpToDate(side, docs[i].sides)
                           \/ \E j \in kept : Dirname(docs[j].path) = docs[i].path
  IN FoldLeft(LAMBDA kept, i : IF stays(kept, i) THEN kept \cup {i} ELSE kept,
              {}, [i \in DOMAIN docs |-> i])

DeleteFolder(w, side, doc) ==
  LET found == BySyncedPath(w, doc.path)
      folder == [The(found) EXCEPT !.moveFrom = Null]
      docs == Reverse(ByRecursivePath(w, folder.path))
      kept == PreservedBelow(side, docs)
      gone(d) == [Remark(side, d) EXCEPT !.deleted = TRUE, !.errors = 0]
      said == [i \in DOMAIN docs |->
                 IF docs[i].deleted THEN docs[i]
                 ELSE IF i \in kept THEN DissociateRecord("remote", docs[i])
                 ELSE gone(docs[i])]
  IN IF ~Given(found) \/ folder.sides[side] = 0 THEN w
     ELSE BulkDocs(w, Append(said, gone(folder)))
-----------------------------------------------------------------------------
(* Prep: a move to the same path is an update, and one of a record that was  *)
(* never saved is refused.                                                   *)
PrepMove(w, side, doc, was, revs) ==
  IF doc.path = was.path
  THEN IF doc.docType = "file" THEN UpdateFile(w, side, doc)
       ELSE PutFolder(w, side, doc)
  ELSE IF was.rev = 0 THEN Fails(w)
  ELSE IF doc.docType = "file" THEN MoveFile(w, side, doc, was)
  ELSE MoveFolder(w, side, doc, was, revs)

PrepTrash(w, side, was, doc) ==
  IF doc.docType = "file" THEN TrashFile(w, side, was, doc)
  ELSE TrashFolder(w, side, was, doc)

PrepDelete(w, side, doc) ==
  IF doc.docType = "file" THEN DeleteFile(w, side, doc)
  ELSE DeleteFolder(w, side, doc)
=============================================================================
