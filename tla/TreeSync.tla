------------------------------ MODULE TreeSync ------------------------------
(* Files and folders of the disk and of the Cozy, the records Merge makes of *)
(* the changes of both sides, and what Sync does of them                     *)
(* (core/local/atom/dispatch.js, core/remote/watcher/index.js,               *)
(* core/sync/index.js). A step is what is done under the lock of Pouch: the  *)
(* dispatch of an event, a watch of the changes feed, the application of a   *)
(* change with its outcome. FileSync has the steps of which they are made.   *)
EXTENDS RemoteChanges

CONSTANTS
  Tree,               \* the tree at first, by id: [docType, dir, name, md5sum]
  NamesOf,            \* the names that users give to each docType, when
  NamesAreReused,     \* they give more than once the same
  RemoteOps,          \* the kinds of changes made on the Cozy
  LocalOps,           \* and on the disk
  Alone,              \* those made when all is quiet, and until it is again
  MaxOps,             \* the changes that users make
  SyncIsQuick,        \* Sync has applied all between two watches of the feed
  MergedFirst,        \* the sides of which Sync waits for the changes to merge
  MAX_SYNC_ATTEMPTS,
  MaxRetries          \* the changes that are blocked and retried

ASSUME TreeSyncAssumption ==
  /\ \A id \in DOMAIN Tree : id > TrashDir /\ Tree[id].dir \in {Root} \cup DOMAIN Tree
  /\ \A docType \in {"file", "folder"} : NamesOf[docType] \subseteq 1..9
  /\ {NamesAreReused, SyncIsQuick} \subseteq BOOLEAN
  /\ MergedFirst \subseteq {"local", "remote"}
  /\ MaxOps \in Nat /\ MAX_SYNC_ATTEMPTS \in Nat /\ MaxRetries \in Nat

VARIABLES
  disk, bin, events,  \* those of a world
  cozy, unseen,
  db, ids,
  watched,            \* the feed was watched since a change was last blocked
  ops, last,          \* the number of changes made by users, the last one
  contents,           \* the last content that was made
  kept,               \* those users have neither overwritten nor destroyed
  retries

local == <<disk, bin, events>>
remote == <<cozy, unseen>>
pouch == <<db, ids>>
bounds == <<ops, last, contents, kept, retries>>
vars == <<local, remote, pouch, watched, bounds>>

World == [disk |-> disk, bin |-> bin, events |-> events, cozy |-> cozy,
          unseen |-> unseen, db |-> db, ids |-> ids,
          doc |-> NewDoc("file", Null, 0), ok |-> TRUE, code |-> "none"]

(* The world is computed once.                                               *)
Becomes(after) ==
  \E w \in {after} :
    /\ disk' = w.disk /\ bin' = w.bin /\ events' = w.events
    /\ cozy' = w.cozy /\ unseen' = w.unseen
    /\ db' = w.db /\ ids' = w.ids
-----------------------------------------------------------------------------
(* At first both sides have the same tree, and the records say so.           *)

InitialCozy == [id \in DOMAIN Tree |-> Tree[id] @@ ("rev" :> 1)]
InitialPaths == PathsOf(InitialCozy)

InitialRecord(id) ==
  LET doc == [BuildLocal(Tree[id].docType, InitialPaths[id], Tree[id].md5sum, id)
                EXCEPT !.id = id, !.rev = 1,
                       !.remote = Some([id |-> id, rev |-> 1,
                                        md5sum |-> Tree[id].md5sum]),
                       !.sides = [target |-> 2, local |-> 2, remote |-> 2]]
  IN [doc |-> doc, revs |-> <<doc>>, pending |-> FALSE]

Init ==
  /\ cozy = InitialCozy /\ unseen = <<>>
  /\ disk = [path \in {InitialPaths[id] : id \in DOMAIN Tree} |->
       LET id == CHOOSE i \in DOMAIN Tree : InitialPaths[i] = path
       IN [docType |-> Tree[id].docType, md5sum |-> Tree[id].md5sum, ino |-> id]]
  /\ bin = {} /\ events = <<>>
  /\ db = [i \in 1..Cardinality(DOMAIN Tree) |->
             InitialRecord(SetToSortSeq(DOMAIN Tree, <)[i])]
  /\ ids = 20 /\ watched = TRUE /\ ops = 0 /\ last = "none" /\ retries = 0
  /\ contents = Cardinality(DOMAIN Tree)
  /\ kept = {Tree[id].md5sum : id \in DOMAIN Tree} \ {0}
-----------------------------------------------------------------------------
(* What users do on the Cozy.                                                *)

PendingRecords == SelectSeq(db, LAMBDA r : r.pending)
NextChange == Head(PendingRecords).doc
Quiet == PendingRecords = <<>> /\ unseen = <<>> /\ events = <<>>

Does(op, all) == /\ op \in all /\ ops < MaxOps /\ ops' = ops + 1 /\ last' = op
                 /\ {op, last} \cap Alone # {} => Quiet

(* The names given to what has the name old.                                 *)
NewName == 100 + ops
NamesFor(docType, old) ==
  IF NamesAreReused THEN NamesOf[docType] ELSE {old, NewName}

Kept(lost) == kept' = kept \ lost /\ UNCHANGED contents
Rewritten(old) == /\ contents' = contents + 1
                  /\ kept' = (kept \ {old}) \cup {contents'}
SameContents == UNCHANGED <<contents, kept>>
Made(docType) == IF docType = "file" THEN Rewritten(0) ELSE SameContents

RemoteMoves(id, dir, name) ==
  /\ Does("move", RemoteOps)
  /\ id \in LiveIds(World)
  /\ dir \in LiveDirs(World) \ ({id} \cup RemoteBelow(World, id))
  /\ <<dir, name>> # <<cozy[id].dir, cozy[id].name>>
  /\ ~IsTaken(World, dir, name)
  /\ Becomes(MoveRemote(World, id, dir, name))
  /\ SameContents /\ UNCHANGED <<retries, watched>>

RemoteTrashes(id) ==
  /\ Does("trash", RemoteOps)
  /\ id \in LiveIds(World)
  /\ Becomes(MoveRemote(World, id, TrashDir, cozy[id].name))
  /\ SameContents /\ UNCHANGED <<retries, watched>>

RemoteRestores(id, dir) ==
  /\ Does("restore", RemoteOps)
  /\ id \in InDir(World, TrashDir) /\ dir \in LiveDirs(World)
  /\ ~IsTaken(World, dir, cozy[id].name)
  /\ Becomes(MoveRemote(World, id, dir, cozy[id].name))
  /\ SameContents /\ UNCHANGED <<retries, watched>>

RemoteDestroys(id) ==
  /\ Does("destroy", RemoteOps)
  /\ id \in InDir(World, TrashDir)
  /\ Becomes(DestroyRemote(World, id))
  /\ Kept({cozy[i].md5sum : i \in {id} \cup RemoteBelow(World, id)}) /\ UNCHANGED <<retries, watched>>

RemoteWrites(id) ==
  /\ Does("write", RemoteOps)
  /\ id \in LiveIds(World) /\ cozy[id].docType = "file"
  /\ Becomes(RewriteRemote(World, id, contents + 1))
  /\ Rewritten(cozy[id].md5sum) /\ UNCHANGED <<retries, watched>>

RemoteCreates(docType, dir, name) ==
  /\ Does("create", RemoteOps)
  /\ dir \in LiveDirs(World) /\ ~IsTaken(World, dir, name)
  /\ Becomes(AddRemote(World, docType, dir, name,
                       IF docType = "file" THEN contents + 1 ELSE 0))
  /\ Made(docType) /\ UNCHANGED <<retries, watched>>

RemoteUser ==
  \/ \E id \in DOMAIN cozy :
       \/ RemoteTrashes(id) \/ RemoteDestroys(id) \/ RemoteWrites(id)
       \/ \E dir \in LiveDirs(World) :
            \/ RemoteRestores(id, dir)
            \/ \E name \in NamesFor(cozy[id].docType, cozy[id].name) :
                 RemoteMoves(id, dir, name)
  \/ \E docType \in {"file", "folder"}, dir \in LiveDirs(World) :
       \E name \in NamesFor(docType, NewName) : RemoteCreates(docType, dir, name)
-----------------------------------------------------------------------------
(* What users do on the disk, which the local watcher reports in order.      *)

NewFile(docType) ==
  [docType |-> docType, ino |-> ids + 1,
   md5sum |-> IF docType = "file" THEN contents + 1 ELSE 0]

LocalCreates(docType, path) ==
  /\ Does("create", LocalOps)
  /\ path \notin DOMAIN disk
  /\ Becomes(Notice([World EXCEPT !.ids = @ + 1,
                                  !.disk = (path :> NewFile(docType)) @@ @],
                    Event("created", path, NewFile(docType))))
  /\ Made(docType) /\ UNCHANGED <<retries, watched>>

LocalWrites(path) ==
  LET file == [disk[path] EXCEPT !.md5sum = contents + 1]
  IN /\ Does("write", LocalOps)
     /\ path \in DOMAIN disk /\ disk[path].docType = "file"
     /\ Becomes(Notice([World EXCEPT !.disk[path] = file],
                       Event("modified", path, file)))
     /\ Rewritten(disk[path].md5sum) /\ UNCHANGED <<retries, watched>>

LocalMoves(old, path) ==
  /\ Does("move", LocalOps)
  /\ old \in DOMAIN disk /\ ~IsPrefix(old, path) /\ path \notin DOMAIN disk
  /\ Becomes(Notice(RenameDisk(World, old, path),
                    [Event("renamed", path, disk[old]) EXCEPT !.old = old]))
  /\ SameContents /\ UNCHANGED <<retries, watched>>

LocalOverwrites(old, path) ==
  /\ Does("overwrite", LocalOps)
  /\ {old, path} \subseteq DOMAIN disk /\ old # path
  /\ disk[old].docType = "file" /\ disk[path].docType = "file"
  /\ Becomes(Notice(RenameDisk(RemoveDisk(World, path), old, path),
                    [Event("renamed", path, disk[old]) EXCEPT
                       !.old = old, !.overwrite = TRUE]))
  /\ Kept({disk[path].md5sum}) /\ UNCHANGED <<retries, watched>>

(* What is trashed leaves at once, what is deleted from the bottom up.       *)
LocalDiscards(path) ==
  /\ Does("discard", LocalOps)
  /\ path \in DOMAIN disk
  /\ Becomes(LocalTrash(World, NewDoc("file", path, 0)))
  /\ SameContents /\ UNCHANGED <<retries, watched>>

LocalDeletes(path) ==
  LET gone == Reverse(SetToSortSeq(DiskFrom(World, path), Lower))
  IN /\ Does("delete", LocalOps)
     /\ path \in DOMAIN disk
     /\ Becomes(FoldLeft(LAMBDA w, p : Notice(w, Event("deleted", p, disk[p])),
                         RemoveDisk(World, path), gone))
     /\ Kept({disk[p].md5sum : p \in DiskFrom(World, path)})
     /\ UNCHANGED <<retries, watched>>

LocalUser ==
  \/ \E path \in DOMAIN disk :
       \/ LocalWrites(path) \/ LocalDiscards(path) \/ LocalDeletes(path)
       \/ \E old \in DOMAIN disk : LocalOverwrites(old, path)
  \/ \E parent \in {p \in {<<>>} \cup DOMAIN disk : IsDir(World, p)} :
       \/ \E docType \in {"file", "folder"} : \E name \in NamesFor(docType, NewName) :
            LocalCreates(docType, Append(parent, name))
       \/ \E old \in DOMAIN disk : \E name \in NamesFor(disk[old].docType, Basename(old)) :
            LocalMoves(old, Append(parent, name))
-----------------------------------------------------------------------------
(* dispatchEvent                                                             *)

(* docWasAlreadyMoved                                                        *)
DocWasAlreadyMoved(w, src, dst) ==
  LET existing == ByLocalPath(w, dst)
      previous == PreviousRev(w, The(existing).id, 1)
  IN /\ Given(existing) /\ Given(previous)
     /\ Given(The(previous).moveFrom) /\ The(The(previous).moveFrom).path = src

DispatchCreated(w, doc) ==
  IF doc.docType = "file" THEN AddFile(w, "local", doc)
  ELSE PutFolder(w, "local", doc)

DispatchModified(w, doc) ==
  IF doc.docType = "file" THEN UpdateFile(w, "local", doc)
  ELSE PutFolder(w, "local", doc)

DispatchRenamed(w, event, doc) ==
  LET found == ByLocalPath(w, event.old)
      over == IF event.overwrite THEN ByLocalPath(w, event.path) ELSE Null
  IN IF ~Given(found)
     THEN IF DocWasAlreadyMoved(w, event.old, event.path) THEN w
          ELSE DispatchCreated(w, doc)
     ELSE IF The(found).ino # event.ino THEN w
     ELSE PrepMove(w, "local", [doc EXCEPT !.overwrite = over], The(found), <<>>)

DispatchDeleted(w, event) ==
  LET found == ByLocalPath(w, event.path)
  IN IF ~Given(found) \/ The(found).deleted THEN w
     ELSE PrepTrash(w, "local", The(found),
                    [The(found) EXCEPT !.docType = event.docType])

Dispatched(w, event) ==
  LET doc == BuildLocal(event.docType, event.path, event.md5sum, event.ino)
  IN CASE event.type = "created" -> DispatchCreated(w, doc)
       [] event.type = "modified" -> DispatchModified(w, doc)
       [] event.type = "renamed" -> DispatchRenamed(w, event, doc)
       [] event.type = "deleted" -> DispatchDeleted(w, event)

(* An event that cannot be merged is dropped.                                *)
Dispatch ==
  /\ events # <<>>
  /\ Becomes(Dispatched([World EXCEPT !.events = Tail(@)], Head(events)))
  /\ UNCHANGED <<watched, bounds>>

(* A change that is blocked waits for as long as a watch does.               *)
Blocked == PendingRecords # <<>> /\ NextChange.errors > 0 /\ ~watched

MayPoll ==
  /\ unseen # <<>>
  /\ SyncIsQuick \/ "local" \in MergedFirst => events = <<>>
  /\ SyncIsQuick => PendingRecords = <<>> \/ Blocked

Poll == /\ MayPoll
        /\ Becomes(Watch(World))
        /\ watched' = TRUE /\ UNCHANGED bounds
-----------------------------------------------------------------------------
(* Sync *)

For(w, doc) == [w EXCEPT !.doc = doc]

(* What is asked from the writer of a side for the record of the world.      *)
Add(w, side) ==
  CASE side = "local" /\ w.doc.docType = "file" -> LocalAddFile(w)
    [] side = "local" /\ w.doc.docType = "folder" -> LocalAddFolder(w)
    [] side = "remote" /\ w.doc.docType = "file" -> RemoteAddFile(w)
    [] side = "remote" /\ w.doc.docType = "folder" -> RemoteAddFolder(w)

OverwriteFile(w, side, old) ==
  IF side = "local" THEN LocalAddFile(w)
  ELSE RemoteOverwriteFile(w, IF Given(old) THEN Remote(The(old)).rev ELSE 0)

UpdateMetadata(w, side) ==
  CASE side = "local" /\ w.doc.docType = "file" -> LocalUpdateFileMetadata(w)
    [] side = "local" /\ w.doc.docType = "folder" -> LocalAddFolder(w)
    [] side = "remote" /\ w.doc.docType = "file" -> RemoteUpdateFileMetadata(w)
    [] side = "remote" /\ w.doc.docType = "folder" -> RemoteUpdateFolder(w)

AssignNewRemote(w, side) ==
  IF side = "local" THEN LocalAssignNewRemote(w) ELSE RemoteAssignNewRemote(w)

MoveOn(w, side, old) ==
  IF side = "local" THEN LocalMove(w, old) ELSE RemoteMove(w, old)

Delete(w, side) ==
  CASE side = "local" /\ w.doc.docType = "file" -> LocalTrash(w, w.doc)
    [] side = "local" /\ w.doc.docType = "folder" -> LocalDeleteFolder(w, w.doc)
    [] side = "remote" /\ w.doc.docType = "file" -> RemoteTrash(w, w.doc)
    [] side = "remote" /\ w.doc.docType = "folder" -> RemoteDeleteFolder(w, w.doc)

(* A file moved and modified is moved then overwritten. If it fails then, it *)
(* is not moved again.                                                       *)
MoveWritten(w) ==
  IF w.ok THEN w ELSE [w EXCEPT !.doc.moveFrom = Null, !.doc.overwrite = Null]

ApplyMove(w, side) ==
  LET from == The(w.doc.moveFrom)
      within == /\ ~from.childMove
                /\ Given(from.moveFrom) /\ The(from.moveFrom).childMove
      told == IF within THEN AssignNewRemote(For(w, from), side) ELSE For(w, from)
      known == told.doc
      knowing == [w EXCEPT !.doc.moveFrom = Some(known)]
      modified == /\ w.doc.docType = "file"
                  /\ \/ from.md5sum # w.doc.md5sum
                     \/ Local(known).md5sum # Remote(known).md5sum
      move == CASE from.childMove -> AssignNewRemote(w, side)
                [] ~told.ok -> FailsWith(w, told.code)
                [] OTHER -> MoveOn(knowing, side, known)
  IN AndThen(move,
             LAMBDA moved : IF modified
                            THEN MoveWritten(OverwriteFile(moved, side, Some(moved.doc)))
                            ELSE moved)

(* The change is told by the revision the side knows.                        *)
ApplyUpdate(w, side) ==
  LET doc == w.doc
      old == PreviousRev(w, doc.id, doc.sides.target - doc.sides[side])
      same == IF doc.docType = "file" THEN SameFile(The(old), doc)
              ELSE SameFolder(The(old), doc)
  IN IF ~Given(old)
     THEN IF doc.docType = "file" THEN OverwriteFile(w, side, Null) ELSE Add(w, side)
     ELSE IF same THEN w
     ELSE IF doc.docType = "folder" \/ SameBinary(The(old).md5sum, doc.md5sum)
     THEN UpdateMetadata(w, side)
     ELSE OverwriteFile(w, side, old)

ApplyDoc(w, side) ==
  CASE w.doc.deleted /\ w.doc.sides[side] = 0 -> w
    [] Given(w.doc.moveFrom) -> ApplyMove(w, side)
    [] w.doc.deleted /\ w.doc.sides[side] # 0 /\ ~Given(w.doc.moveFrom) -> Delete(w, side)
    [] ~w.doc.deleted /\ w.doc.sides[side] = 0 /\ ~Given(w.doc.moveFrom) -> Add(w, side)
    [] OTHER -> ApplyUpdate(w, side)

(* The folders around a document that are to be trashed on the Cozy, and it  *)
(* with them, by the length of their paths.                                  *)
TrashedAround(w, doc) ==
  LET trashed(n) == LET parent == BySyncedPath(w, SubSeq(doc.path, 1, n))
                    IN /\ Given(parent) /\ The(parent).trashed
                       /\ ~IsUpToDate("remote", The(parent).sides)
  IN {n \in 1..(Len(doc.path) - 1) : \A m \in n..(Len(doc.path) - 1) : trashed(m)}

(* Without the record of the folder of what is trashed, Sync throws.         *)
Orphaned(w, doc) ==
  LET around == TrashedAround(w, doc)
      topmost == IF around = {} THEN Len(doc.path) ELSE Min(around)
  IN topmost > 1 /\ ~Given(BySyncedPath(w, SubSeq(doc.path, 1, topmost - 1)))

TrashWithParentOrByItself(w, doc) ==
  LET around == TrashedAround(w, doc)
      topmost == IF around = {} THEN doc
                 ELSE The(BySyncedPath(w, SubSeq(doc.path, 1, Min(around))))
  IN IF Orphaned(w, doc) THEN Fails(w) ELSE RemoteTrash(w, topmost)

MustTrash(doc) == OutOfDateSide(doc.sides) = "remote" /\ doc.trashed

(* What is trashed with its parent waits for the feed to tell it.            *)
WaitsForParent(doc) == MustTrash(doc) /\ TrashedAround(World, doc) # {}

(* setLocalSeq                                                               *)
SaveSeq(w) ==
  [w EXCEPT !.db = [i \in DOMAIN @ |-> IF @[i].doc.id = NextChange.id
                                       THEN [@[i] EXCEPT !.pending = FALSE] ELSE @[i]]]

UpdateRevs(w) ==
  Put(w, [w.doc EXCEPT !.moveFrom = Null, !.overwrite = Null, !.errors = 0,
                       !.sides = MarkAsUpToDate(@)])

SaveDoc(w) == IF w.doc.deleted THEN EraseDocument(w, w.doc) ELSE UpdateRevs(w)

MayApply == /\ PendingRecords # <<>> /\ ~Blocked
            /\ "local" \in MergedFirst => events = <<>>
            /\ "remote" \in MergedFirst => unseen = <<>>

EraseChange ==
  /\ MayApply /\ ~WasSynced(NextChange) /\ NextChange.deleted
  /\ Becomes(EraseDocument(World, NextChange))
  /\ UNCHANGED <<watched, bounds>>

(* What follows the application of the change, of which after is the outcome.*)
Apply(after) ==
  /\ after.ok
  /\ Becomes(IF WaitsForParent(NextChange) THEN after ELSE SaveDoc(SaveSeq(after)))
  /\ UNCHANGED <<watched, bounds>>

(* blockSyncFor, and updateErrors once it is over                            *)
ForEver == {"InvalidFolderMove", "InvalidMetadata", "NeedsRemoteMerge"}
Attempted(code) == NextChange.errors >= MAX_SYNC_ATTEMPTS /\ code \notin ForEver

(* A block that only ends once there are new changes in the feed.            *)
BlockSyncUntilChanges(after) ==
  /\ ~after.ok /\ ~Attempted(after.code)
  /\ retries < MaxRetries /\ retries' = retries + 1
  /\ watched' = FALSE
  /\ Becomes(Put(after, [after.doc EXCEPT !.errors = @ + 1]))
  /\ UNCHANGED <<ops, last, contents, kept>>

BlockSync(after) ==
  /\ ~after.ok /\ ~Attempted(after.code)
  /\ retries < MaxRetries /\ retries' = retries + 1
  /\ watched' = (unseen = <<>>)
  /\ Becomes(Put(after, [Remark(OtherSide(OutOfDateSide(NextChange.sides)), after.doc)
                          EXCEPT !.errors = @ + 1]))
  /\ UNCHANGED <<ops, last, contents, kept>>

(* A document that is gone is created anew on the Cozy if it is not deleted, *)
(* and else forgotten.                                                       *)
MissingDocument(w, side) ==
  LET lost == [w EXCEPT !.ok = TRUE, !.doc.moveFrom = Null,
                        !.doc.overwrite = Null, !.doc.remote = Null]
  IN IF w.doc.deleted THEN SaveSeq(w)
     ELSE IF side = "remote" THEN AndThen(Add(lost, side), UpdateRevs)
     ELSE EraseDocument(w, w.doc)

(* A parent is created if its record has no remote side.                     *)
MissingParent(w, parent) ==
  IF ~Given(parent) \/ Given(The(parent).remote) THEN SaveSeq(w)
  ELSE RemoteAddFolder(For([w EXCEPT !.ok = TRUE], The(parent)))

GiveUp(after) ==
  /\ ~after.ok /\ Attempted(after.code)
  /\ Becomes(CASE after.code = "ConflictingName" ->
                     ResolveRemoteConflict(after, NextChange)
               [] after.code = "MissingDocument" ->
                     MissingDocument(after, OutOfDateSide(NextChange.sides))
               [] after.code = "MissingParent" ->
                     MissingParent(after, BySyncedPath(World, Dirname(NextChange.path)))
               [] OTHER -> SaveSeq(after))
  /\ UNCHANGED <<watched, bounds>>

Outcome(w) ==
  IF MustTrash(w.doc) THEN TrashWithParentOrByItself(w, w.doc)
  ELSE ApplyDoc(w, OutOfDateSide(w.doc.sides))

(* The outcome is computed once.                                             *)
ApplyNextChange ==
  /\ MayApply /\ (WasSynced(NextChange) \/ ~NextChange.deleted)
  /\ \E after \in {Outcome(For(World, NextChange))} :
       Apply(after) \/ BlockSync(after) \/ GiveUp(after)

Sync == EraseChange \/ ApplyNextChange
-----------------------------------------------------------------------------
Next == RemoteUser \/ LocalUser \/ Dispatch \/ Poll \/ Sync

(* Weak fairness of the watchers and of Sync; what enables their steps is    *)
(* spelled out, as they are too large for TLC to find it.                    *)
MaySync == MayApply /\ retries < MaxRetries
Fairness == /\ []<>(events = <<>>) \/ []<><<Dispatch>>_vars
            /\ []<>(~MayPoll) \/ []<><<Poll>>_vars
            /\ []<>(~MaySync) \/ []<><<Sync>>_vars

Spec == Init /\ [][Next]_vars
FairSpec == Spec /\ Fairness
-----------------------------------------------------------------------------
(* No two records stand for the same path, the same file of the disk or the  *)
(* same document of the Cozy: Merge and both watchers look a record up by    *)
(* one of them and take the first they find (bySyncedPath, byLocalPath,      *)
(* byRemoteIdMaybe in core/pouch/index.js), while moves put records over     *)
(* others (core/merge.js).                                                   *)
RecordsDiffer ==
  \A i, j \in DOMAIN db : i # j =>
    LET one == db[i].doc  two == db[j].doc
    IN /\ one.path # two.path
       /\ Given(one.remote) /\ Given(two.remote) => Remote(one).id # Remote(two).id
       /\ Given(one.local) /\ Given(two.local) => Local(one).path # Local(two).path

RemoteTree == LET path == PathsOf(cozy)
              IN {[path |-> path[id], docType |-> cozy[id].docType,
                   md5sum |-> cozy[id].md5sum] : id \in LiveIds(World)}
DiskTree == {[path |-> path, docType |-> disk[path].docType,
              md5sum |-> disk[path].md5sum] : path \in DOMAIN disk}
Recorded == {[path |-> d.path, docType |-> d.docType, md5sum |-> d.md5sum] :
             d \in {e \in ToSet(Docs(World)) : ~e.deleted /\ Given(e.remote)}}

(* Once the changes of the feed are merged, what the records say of the Cozy *)
(* is what it has, in whatever order moves of folders and of what is in them *)
(* were made and fetched, squashed and sorted (core/remote/watcher/index.js, *)
(* squashMoves.js, core/remote/change.js).                                   *)
Pulled == unseen = <<>> /\ events = <<>> => Recorded = RemoteTree

(* When nothing is left to merge or to apply the two sides are the same,     *)
(* whatever users did on both at once, be it given up by Sync or not.        *)
TreesAreEqual == Quiet => DiskTree = RemoteTree

(* The same, unless Sync gave up a change, which the errors of its record    *)
(* tell: it does for a file moved into a folder that took the place of its   *)
(* own parent (sortMoves in core/remote/change.js has the file first).       *)
GaveUp == \E i \in DOMAIN db : db[i].doc.errors > 0 /\ ~db[i].pending
ConvergedUnlessGivenUp == Quiet /\ ~GaveUp => DiskTree = RemoteTree

(* What users have made, and not overwritten nor destroyed themselves, is on *)
(* the disk, on the Cozy or in the trash of one of them: Merge and Sync give *)
(* a file another name or trash it, but never replace what the other side    *)
(* has not got (core/merge.js, core/sync/index.js).                          *)
NoContentIsLost ==
  kept \subseteq bin \cup {disk[path].md5sum : path \in DOMAIN disk}
                  \cup {cozy[id].md5sum : id \in DOMAIN cozy}

(* Sync trashes a content on a side only if the other side does not have it  *)
(* any more (doTrash and moveFileAsync in core/merge.js mark what Sync will  *)
(* trash long before it does).                                               *)
OnDisk == {disk[path].md5sum : path \in DOMAIN disk} \ {0}
OnCozy == {cozy[id].md5sum : id \in LiveIds(World)} \ {0}
TrashesWhatIsGone ==
  [][Sync => /\ (bin' \ bin) \cap OnCozy = {}
             /\ (OnCozy \ OnCozy') \cap OnDisk = {}]_vars

(* Sync gives up a change, which it then never applies, only if what was to  *)
(* be sent is not there any more (skipChange in core/sync/index.js).         *)
GivenUp(i) == /\ db[i].pending
              /\ \E j \in DOMAIN db' : db'[j].doc = db[i].doc /\ ~db'[j].pending
GoneFromItsSide(doc) ==
  IF OutOfDateSide(doc.sides) = "remote" THEN doc.path \notin DOMAIN disk
  ELSE Remote(doc).id \notin LiveIds(World)
GivesUpWhatIsGone ==
  [][\A i \in DOMAIN db : GivenUp(i) => GoneFromItsSide(db[i].doc)]_vars

(* Once users stop, both watchers and Sync come to an end: no change is sent *)
(* from a side to the other and back, and a blocked change is not retried    *)
(* for ever unless it always fails.                                          *)
SyncSettles == <>[](Quiet \/ retries = MaxRetries)
=============================================================================
