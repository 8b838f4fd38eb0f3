------------------------------ MODULE Writers -------------------------------
(* Both sides of the synchronization, the disk and the Cozy, and what Sync   *)
(* and Merge ask from their writers (core/local/index.js,                    *)
(* core/remote/index.js). A world is that of Records, with                   *)
(*   disk    what the local folder has at each path: [docType, md5sum, ino]  *)
(*   bin     contents in the trash of the OS                                 *)
(*   events  what the local watcher has found, not merged yet                *)
(*   cozy    the files and folders of the Cozy, by id                        *)
(*   unseen  ids in the changes feed after the remote sequence               *)
(*   doc     the record a writer is given, as it completes it                *)
(* A writer that throws leaves what it did until then.                       *)
EXTENDS Records, FiniteSets

CONSTANT ChildrenFirst  \* folders in a moved folder come before it in the feed

ASSUME WritersAssumption == ChildrenFirst \in BOOLEAN

Root == 0        \* io.cozy.files.root-dir
TrashDir == 1    \* io.cozy.files.trash-dir
TrashName == 0   \* .cozy_trash, before every other name

(* The Cozy *)

PathsOf(cozy) ==
  LET path[id \in DOMAIN cozy \cup {Root, TrashDir}] ==
        CASE id = Root -> <<>>
          [] id = TrashDir -> <<TrashName>>
          [] OTHER -> Append(path[cozy[id].dir], cozy[id].name)
  IN path

InRemoteTrash(path) == path # <<>> /\ path[1] = TrashName

LiveIds(w) == LET path == PathsOf(w.cozy)
              IN {id \in DOMAIN w.cozy : ~InRemoteTrash(path[id])}

LiveDirs(w) == {Root} \cup {id \in LiveIds(w) : w.cozy[id].docType = "folder"}

InDir(w, dir) == {id \in DOMAIN w.cozy : w.cozy[id].dir = dir}

RemoteBelow(w, id) ==
  LET path == PathsOf(w.cozy)
  IN {i \in DOMAIN w.cozy : AreParentChildPaths(path[id], path[i])}

IsTaken(w, dir, name) == \E id \in InDir(w, dir) : w.cozy[id].name = name

(* The changes feed has each document once, where it changed last.           *)
Announce(w, ids) ==
  [w EXCEPT !.unseen = SelectSeq(@, LAMBDA i : i \notin ToSet(ids)) \o ids]

(* Documents of the Cozy get a new revision.                                 *)
Revise(w, ids) ==
  Announce([w EXCEPT !.cozy = [id \in DOMAIN @ |->
              IF id \in ToSet(ids) THEN [@[id] EXCEPT !.rev = @ + 1] ELSE @[id]]],
           ids)

AddRemote(w, docType, dir, name, md5sum) ==
  LET id == w.ids + 1
      new == [docType |-> docType, dir |-> dir, name |-> name,
              md5sum |-> md5sum, rev |-> 1]
  IN Announce([w EXCEPT !.ids = id, !.cozy = @ @@ (id :> new)], <<id>>)

RewriteRemote(w, id, md5sum) ==
  Revise([w EXCEPT !.cozy[id].md5sum = md5sum], <<id>>)

(* The paths of the folders below a folder change with it; files only tell   *)
(* their folder, and whether they are in the trash.                          *)
MoveRemote(w, id, dir, name) ==
  LET below == SetToSortSeq(RemoteBelow(w, id), <)
      announced == SelectSeq(below, LAMBDA i : \/ w.cozy[i].docType = "folder"
                                              \/ dir = TrashDir
                                              \/ w.cozy[id].dir = TrashDir)
  IN Revise([w EXCEPT !.cozy[id].dir = dir, !.cozy[id].name = name],
            IF ChildrenFirst THEN announced \o <<id>> ELSE <<id>> \o announced)

DestroyRemote(w, id) ==
  LET gone == {id} \cup RemoteBelow(w, id)
  IN Announce([w EXCEPT !.cozy = Restrict(@, DOMAIN @ \ gone)],
              SetToSortSeq(gone, <))

(* findDirectoryByPath *)
FindDirectory(w, path) ==
  LET paths == PathsOf(w.cozy) IN {id \in LiveDirs(w) : paths[id] = path}

RemoteInfo(w, id) == Some([id |-> id, rev |-> w.cozy[id].rev,
                           md5sum |-> w.cozy[id].md5sum])

(* updateRemote, with what the Cozy answers                                  *)
UpdateRemote(w, id) == [w EXCEPT !.doc.remote = RemoteInfo(w, id)]
-----------------------------------------------------------------------------
(* The remote writer *)

(* What the Cozy answers to the creation of a document, and to the update of *)
(* one that was at a revision.                                               *)
RefusesNew(w, path) ==
  LET dirs == FindDirectory(w, Dirname(path))
  IN CASE dirs = {} -> "MissingParent"
       [] \E d \in dirs : IsTaken(w, d, Basename(path)) -> "ConflictingName"
       [] OTHER -> "none"

RefusesUpdate(w, remote) ==
  CASE remote.id \notin DOMAIN w.cozy -> "MissingDocument"
    [] w.cozy[remote.id].rev # remote.rev -> "NeedsRemoteMerge"
    [] OTHER -> "none"

RemoteCreate(w, docType) ==
  LET path == w.doc.path
      dir == CHOOSE d \in FindDirectory(w, Dirname(path)) : TRUE
      after == AddRemote(w, docType, dir, Basename(path), w.doc.md5sum)
  IN Unless(w, RefusesNew(w, path), UpdateRemote(after, w.ids + 1))

(* createReadStreamAsync: the file at the path is uploaded, and must be the  *)
(* one of the record. When there is none the record is deleted.              *)
NothingToUpload(w) == w.doc.path \notin DOMAIN w.disk

RemoteAddFile(w) ==
  IF NothingToUpload(w) THEN [w EXCEPT !.doc.deleted = TRUE]
  ELSE IF RefusesNew(w, w.doc.path) # "none" THEN RemoteCreate(w, "file")
  ELSE IF w.disk[w.doc.path].md5sum # w.doc.md5sum
  THEN FailsWith(w, "InvalidMetadata")
  ELSE RemoteCreate(w, "file")

RemoteOverwriteFile(w, ifMatch) ==
  LET id == Remote(w.doc).id
  IN IF NothingToUpload(w) THEN [w EXCEPT !.doc.deleted = TRUE]
     ELSE IF id \notin DOMAIN w.cozy THEN FailsWith(w, "MissingDocument")
     ELSE IF ifMatch \notin {0, w.cozy[id].rev}
     THEN FailsWith(w, "NeedsRemoteMerge")
     ELSE IF w.disk[w.doc.path].md5sum # w.doc.md5sum
     THEN FailsWith(w, "InvalidMetadata")
     ELSE UpdateRemote(RewriteRemote(w, id, w.doc.md5sum), id)

(* What is already in the trash, or gone, is not trashed.                    *)
RemoteTrash(w, doc) ==
  LET id == Remote(doc).id
  IN IF id \notin LiveIds(w) THEN w
     ELSE IF w.cozy[id].rev # Remote(doc).rev THEN FailsWith(w, "NeedsRemoteMerge")
     ELSE MoveRemote(w, id, TrashDir, w.cozy[id].name)

(* A folder that was empty is destroyed, once in the trash.                  *)
RemoteDeleteFolder(w, doc) ==
  LET id == Remote(doc).id
  IN AndThen(RemoteTrash(w, doc), LAMBDA after :
       IF id \notin DOMAIN w.cozy \/ InDir(w, id) # {} THEN after
       ELSE IF w.cozy[id].rev # Remote(doc).rev
       THEN FailsWith(w, "NeedsRemoteMerge")
       ELSE DestroyRemote(after, id))

RemoteUpdateFileMetadata(w) ==
  LET remote == Remote(w.doc)
  IN Unless(w, RefusesUpdate(w, remote),
            UpdateRemote(Revise(w, <<remote.id>>), remote.id))

(* A folder that is not there any more is created.                           *)
RemoteUpdateExisting(w) ==
  IF RefusesUpdate(w, Remote(w.doc)) = "MissingDocument"
  THEN RemoteCreate(w, "folder") ELSE RemoteUpdateFileMetadata(w)

(* A folder that is already there is taken for the one of the record.        *)
RemoteAddFolder(w) ==
  IF RefusesNew(w, w.doc.path) # "ConflictingName" THEN RemoteCreate(w, "folder")
  ELSE LET there == FindDirectory(w, w.doc.path)
       IN IF there = {} THEN FailsWith(w, "MissingParent")
          ELSE RemoteUpdateExisting(UpdateRemote(w, CHOOSE d \in there : TRUE))

RemoteUpdateFolder(w) ==
  IF Given(w.doc.remote) THEN RemoteUpdateExisting(w) ELSE RemoteAddFolder(w)

RemoteAssignNewRemote(w) ==
  IF Remote(w.doc).id \in DOMAIN w.cozy THEN UpdateRemote(w, Remote(w.doc).id)
  ELSE FailsWith(w, "MissingDocument")

(* What the Cozy answers to the move of a document.                          *)
RefusesMove(w, remote, dir, name) ==
  LET refused == RefusesUpdate(w, remote)
      others == InDir(w, dir) \ {remote.id}
  IN CASE refused # "none" -> refused
       [] dir \in {remote.id} \cup RemoteBelow(w, remote.id) -> "InvalidFolderMove"
       [] \E o \in others : w.cozy[o].name = name -> "ConflictingName"
       [] OTHER -> "none"

MoveTo(w, remote, dir) ==
  Unless(w, RefusesMove(w, remote, dir, Basename(w.doc.path)),
         UpdateRemote(MoveRemote(w, remote.id, dir, Basename(w.doc.path)), remote.id))

(* moveAsync, of what was old. What it overwrites is trashed; its references *)
(* to albums, which are then added to what was moved, are left out.          *)
RemoteMove(w, old) ==
  LET dirs == FindDirectory(w, Dirname(w.doc.path))
      overwrite == w.doc.overwrite
      trashes == /\ Given(overwrite) /\ Given(The(overwrite).remote)
                 /\ Remote(The(overwrite)).id # Remote(old).id
  IN IF dirs = {} THEN FailsWith(w, "MissingParent")
     ELSE AndThen(IF trashes THEN RemoteTrash(w, The(overwrite)) ELSE w,
                  LAMBDA v : MoveTo(v, Remote(old), CHOOSE d \in dirs : TRUE))

(* resolveRemoteConflict renames what has the path of the record.            *)
ResolveRemoteConflict(w, doc) ==
  LET dirs == FindDirectory(w, Dirname(doc.path))
      there == {id \in LiveIds(w) : PathsOf(w.cozy)[id] = doc.path}
      id == CHOOSE i \in there : TRUE
  IN IF dirs = {} THEN FailsWith(w, "MissingParent")
     ELSE IF there = {} THEN w
     ELSE MoveRemote([w EXCEPT !.ids = @ + 1], id, w.cozy[id].dir,
                     ConflictName(Basename(doc.path), w.ids + 1))
-----------------------------------------------------------------------------
(* The local writer *)

IsDir(w, path) == path = <<>> \/ (path \in DOMAIN w.disk
                                  /\ w.disk[path].docType = "folder")
DiskBelow(w, path) == {p \in DOMAIN w.disk : AreParentChildPaths(path, p)}
DiskFrom(w, path) == {p \in DOMAIN w.disk : IsPrefix(path, p)}

RemoveDisk(w, path) ==
  [w EXCEPT !.disk = Restrict(@, DOMAIN @ \ DiskFrom(w, path))]

RenameDisk(w, old, new) ==
  LET moved == DiskFrom(w, old)
      from(p) == IF IsPrefix(new, p) THEN NewChildPath(p, new, old) ELSE p
      paths == (DOMAIN w.disk \ moved)
               \cup {NewChildPath(p, old, new) : p \in moved}
  IN [w EXCEPT !.disk = [p \in paths |-> w.disk[from(p)]]]

(* What the watcher of the local folder finds, be it made by a user or by    *)
(* the local writer.                                                         *)
Event(type, path, file) ==
  [type |-> type, docType |-> file.docType, path |-> path, old |-> <<>>,
   md5sum |-> file.md5sum, ino |-> file.ino, overwrite |-> FALSE]

Notice(w, event) == [w EXCEPT !.events = Append(@, event)]

(* ensureDir makes the folders that are missing.                             *)
EnsureDir(w, path) ==
  LET prefixes == [n \in DOMAIN path |-> SubSeq(path, 1, n)]
      make(v, p) ==
        LET dir == [docType |-> "folder", md5sum |-> 0, ino |-> v.ids + 1]
        IN CASE ~v.ok \/ IsDir(v, p) -> v
             [] p \in DOMAIN v.disk -> Fails(v)
             [] OTHER -> Notice([v EXCEPT !.ids = @ + 1, !.disk = (p :> dir) @@ @],
                                Event("created", p, dir))
  IN FoldLeft(make, w, prefixes)

(* A file of the content is copied if a record that is up to date says there *)
(* is one, else it is downloaded; what is got must be the content.           *)
Copies(w) ==
  SelectSeq(Docs(w), LAMBDA d : /\ d.docType = "file" /\ d.md5sum = w.doc.md5sum
                                /\ IsUpToDate("local", d.sides)
                                /\ d.path \in DOMAIN w.disk)
Got(w) == IF Copies(w) # <<>> THEN w.disk[Head(Copies(w)).path].md5sum
          ELSE IF Remote(w.doc).id \in DOMAIN w.cozy
          THEN w.cozy[Remote(w.doc).id].md5sum ELSE 0

LocalAddFile(w) ==
  LET path == w.doc.path
      ino == w.ids + Len(path)
      file == [docType |-> "file", md5sum |-> w.doc.md5sum, ino |-> ino]
      type == IF path \in DOMAIN w.disk THEN "modified" ELSE "created"
  IN IF Copies(w) = <<>> /\ Remote(w.doc).id \notin DOMAIN w.cozy
     THEN FailsWith(w, "MissingDocument")
     ELSE IF Got(w) # w.doc.md5sum THEN Fails(w)
     ELSE AndThen(EnsureDir(w, Dirname(path)), LAMBDA ready :
       IF IsDir(ready, path) THEN Fails(ready)
       ELSE Notice([ready EXCEPT !.ids = ino, !.disk = (path :> file) @@ @,
                                 !.doc = UpdateLocal([w.doc EXCEPT !.ino = ino])],
                   Event(type, path, file)))

LocalAddFolder(w) ==
  AndThen(EnsureDir(w, w.doc.path), LAMBDA ready :
    [ready EXCEPT !.doc = UpdateLocal([w.doc EXCEPT !.ino = ready.disk[w.doc.path].ino])])

LocalUpdateFileMetadata(w) ==
  IF w.doc.path \in DOMAIN w.disk THEN [w EXCEPT !.doc = UpdateLocal(@)]
  ELSE Fails(w)

LocalAssignNewRemote(w) == [w EXCEPT !.doc = UpdateLocal(@)]

(* What the trash of the OS gets; there may be nothing to trash.             *)
LocalTrash(w, doc) ==
  LET files == {p \in DiskFrom(w, doc.path) : w.disk[p].docType = "file"}
  IN IF doc.path \notin DOMAIN w.disk THEN w
     ELSE Notice([RemoveDisk(w, doc.path) EXCEPT
                    !.bin = @ \cup {w.disk[p].md5sum : p \in files}],
                 Event("deleted", doc.path, w.disk[doc.path]))

(* A folder that is not empty goes to the trash too.                         *)
LocalDeleteFolder(w, doc) ==
  IF doc.path \in DOMAIN w.disk /\ ~IsDir(w, doc.path) THEN Fails(w)
  ELSE LocalTrash(w, doc)

(* moveAsync, that does not overwrite what it finds. The watcher makes an    *)
(* overwriting move of a trashing and the move to its path.                  *)
LocalMove(w, old) ==
  LET path == w.doc.path
      overwrite == w.doc.overwrite
      frees == Given(overwrite) /\ The(overwrite).path # old.path
      renamed == [Event("renamed", path, w.disk[old.path]) EXCEPT
                    !.old = old.path, !.overwrite = path \in DOMAIN w.disk]
      rename(freed) ==
        IF \/ path # old.path /\ path \in DOMAIN freed.disk
           \/ old.path \notin DOMAIN freed.disk
           \/ ~IsDir(freed, Dirname(path))
           \/ AreParentChildPaths(old.path, path)
        THEN Fails(freed)
        ELSE Notice([RenameDisk(freed, old.path, path) EXCEPT
                       !.doc = UpdateLocal(w.doc),
                       !.events = IF path \in DOMAIN w.disk THEN w.events ELSE @],
                    renamed)
  IN rename(IF frees THEN LocalTrash(w, The(overwrite)) ELSE w)
=============================================================================
