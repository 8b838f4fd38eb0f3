----------------------------- MODULE FileMerge ------------------------------
(* What core/merge.js makes of one change of one file, given the record     *)
(* Pouch has at its path. The file is neither moved nor a Cozy Note; what   *)
(* it holds is a number, and None when there is no file.                    *)
EXTENDS Metadata

None == 0

(* A file on the disk. Its date is <<who wrote it, when>>: dates differ. Its *)
(* inode, <<who made it, when>>, is another one when the file is replaced.   *)
NoFile == [content |-> None, date |-> <<"none", 0>>, ino |-> <<"none", 0>>]

(* doc.remote: the file on the Cozy, as it was when its change was fetched. *)
NoRemote == [id |-> 0, rev |-> 0, content |-> None]

(* A record: local and remote are what it knows of each side, md5sum tells  *)
(* its content, ino the inode that had it, rev its _rev (0 as long as it    *)
(* was not saved).                                                          *)
NoDoc == [rev |-> 0, sides |-> NoSides, md5sum |-> None, ino |-> NoFile.ino,
          local |-> NoFile, remote |-> NoRemote, deleted |-> FALSE,
          trashed |-> FALSE, errors |-> 0]

(* sameFile and sameBinary *)
SameFile(one, two) == /\ one.md5sum = two.md5sum
                      /\ one.ino = two.ino
                      /\ one.remote.id = two.remote.id
                      /\ one.remote.rev = two.remote.rev
                      /\ one.trashed = two.trashed
SameBinary(one, two) == one # None /\ one = two

(* A dissociation that keeps the number of the side.                        *)
DissociateInfo(side, doc) == IF side = "local" THEN [doc EXCEPT !.local = NoFile]
                             ELSE [doc EXCEPT !.remote = NoRemote]

(* dissociateLocal and dissociateRemote *)
Dissociate(side, doc) ==
  LET alone == [doc EXCEPT !.sides = Dissociated(side, doc.sides)]
  IN  IF side = "local" THEN [alone EXCEPT !.local = NoFile]
      ELSE [alone EXCEPT !.remote = NoRemote]

Marked(side, doc) == [doc EXCEPT !.sides = MarkSide(side, doc.sides)]

(* The outcomes of a merge: what it renames to a conflict path, if anything *)
(* and what it saves.                                                       *)
Ignore == [rename |-> "none", op |-> "none", doc |-> NoDoc]
Save(doc) == [rename |-> "none", op |-> "put", doc |-> doc]
Erase(doc) == [rename |-> "none", op |-> "erase", doc |-> doc]

(* The file of the side is renamed. The record forgets it and stands for    *)
(* the other side, unless it did not know it.                               *)
Conflict(side, known, was) ==
  IF known
  THEN [rename |-> side, op |-> "put",
        doc |-> Marked(OtherSide(side), Dissociate(side, was))]
  ELSE [rename |-> side, op |-> "none", doc |-> NoDoc]
-----------------------------------------------------------------------------
(* A file that is as the record knows it, or a new content with the same    *)
(* date: the event is ignored.                                              *)
Overlooked(file, was) == \/ file = was.local
                         \/ /\ ~SameBinary(file.content, was.local.content)
                            /\ file.date = was.local.date

(* An updateFileAsync whose record keeps its own attributes.                *)
LocalUpdateKept(file, was) ==
  IF was = NoDoc
  THEN Save(Marked("local", [was EXCEPT !.md5sum = file.content,
                                        !.ino = file.ino, !.local = file]))
  ELSE IF Overlooked(file, was) THEN Ignore
  ELSE Save(Marked("local", [was EXCEPT !.local = file]))

(* addFileAsync and updateFileAsync, for a file found on the disk.          *)
LocalUpdate(file, was) ==
  LET found == [was EXCEPT !.md5sum = file.content, !.ino = file.ino,
                           !.local = file]
      known == [was EXCEPT !.local = file]
      late == OutOfDateSide(was.sides)
  IN IF was = NoDoc THEN Save(Marked("local", found))
     ELSE IF Overlooked(file, was) THEN Ignore
     ELSE IF was.deleted
     THEN Save([Marked("local", found) EXCEPT
                  !.deleted = FALSE, !.trashed = FALSE, !.errors = 0])
     ELSE IF SameFile(found, was)
     THEN Save(IF late = "none" THEN known ELSE Marked(OtherSide(late), known))
     ELSE IF /\ ~SameBinary(file.content, was.md5sum)
             /\ ~IsAtLeastUpToDate("local", was.sides)
     THEN Conflict("local", was.local # NoFile, was)
     ELSE Save(Marked("local", found))

(* One that overlooks conflicts.                                            *)
RemoteUpdateBlind(remote, was) ==
  LET found == [was EXCEPT !.md5sum = remote.content, !.remote = remote]
  IN IF SameFile(found, was) THEN Ignore ELSE Save(Marked("remote", found))

(* The same for a remote file.                                              *)
RemoteUpdate(remote, was) ==
  LET found == [was EXCEPT !.md5sum = remote.content, !.remote = remote]
      alone == [NoDoc EXCEPT !.rev = was.rev, !.md5sum = remote.content,
                             !.remote = remote]
  IN IF was = NoDoc \/ was.deleted THEN Save(Marked("remote", alone))
     ELSE IF SameFile(found, was) THEN Ignore
     ELSE IF /\ ~SameBinary(remote.content, was.md5sum)
             /\ ~IsAtLeastUpToDate("remote", was.sides)
     THEN Conflict("remote", was.remote # NoRemote, was)
     ELSE Save(Marked("remote", found))

(* trashFileAsync and doTrash. A file that the other side updated is        *)
(* dissociated, for Sync to add it again.                                   *)
Trash(side, was) ==
  LET calm == [was EXCEPT !.errors = 0]
  IN IF /\ was.local # NoFile /\ was.remote # NoRemote
        /\ ~IsAtLeastUpToDate(side, was.sides)
        /\ ~SameBinary(was.local.content, was.remote.content)
     THEN Save(Dissociate(side, was))
     ELSE IF /\ was.deleted
             /\ IsAtLeastUpToDate(OtherSide(side), was.sides)
             /\ ~IsAtLeastUpToDate(side, was.sides)
     THEN Erase(was)
     ELSE IF was.sides[side] # 0
     THEN Save([Marked(side, calm) EXCEPT !.deleted = TRUE])
     ELSE Save([calm EXCEPT !.trashed = TRUE])
=============================================================================
