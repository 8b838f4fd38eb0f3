------------------------------ MODULE FileSync ------------------------------
(* One file at one path, from the disk to the Cozy and back: the local and  *)
(* the remote watcher merge its changes into its Pouch record, Sync applies *)
(* the record to the other side. Every merge and every change applied holds *)
(* the Pouch lock; users, faults and retries do not wait for it.            *)
EXTENDS FileMerge, Sequences, FiniteSets

CONSTANTS
  MAX_SYNC_ATTEMPTS,  \* attempts before a change is given up (3)
  Users,              \* the sides where users change the file
  Pace,               \* when they do: "any" time; only so that local changes
                      \*   are "merged" before Sync goes on; or only once the
                      \*   last change is "synced"
  Faults,             \* the kinds of faults that may happen
  MaxFaults,          \* bound: faults in a behaviour
  MaxOps,             \* bound: changes made by users
  MaxRetries,         \* bound: retries of blocked changes
  MaxFound            \* bound: events of the path waiting to be merged

ASSUME FileSyncAssumption ==
  /\ MAX_SYNC_ATTEMPTS \in Nat /\ MaxFaults \in Nat /\ MaxOps \in Nat
  /\ MaxRetries \in Nat /\ MaxFound \in Nat
  /\ Users \subseteq Side /\ Pace \in {"any", "merged", "synced"}
  /\ Faults \subseteq {"crash", "offline", "other"}

VARIABLES
  disk,      \* the file on the local disk
  dirty,     \* the file system has events for the path, not yet read
  found,     \* what the local watcher found, to be merged in this order
  cozy,      \* the files the path had on the Cozy, by id
  unseen,    \* the ids with changes after the remote sequence
  recent,    \* the ids with changes after the fetch under way
  doc,       \* the Pouch record of the path
  history,   \* its revisions, the last one being doc
  pending,   \* doc has a change after the local sequence
  puts,      \* number of revisions written
  owner,     \* who holds the Pouch lock
  merge,     \* the merge under way: its event, and the record it read
  pull,      \* the remote changes being merged
  sync,      \* the change Sync is applying
  blocked,   \* the change whose failure blocks Sync
  copies,    \* contents renamed to a conflict path
  bin,       \* contents in the trash of the OS
  wanted,    \* contents that no user replaced or deleted
  ops, faults, retries

local == <<disk, dirty, found>>
remote == <<cozy, unseen, recent>>
pouch == <<doc, history, pending, puts>>
merging == <<merge, pull>>
kept == <<copies, bin>>
users == <<wanted, ops>>
bounds == <<users, faults, retries>>
vars == <<local, remote, pouch, owner, merging, sync, blocked, kept, bounds>>

NoEvent == [id |-> 0, rev |-> 0, content |-> None, where |-> "live"]
NoMerge == [pc |-> "idle", file |-> NoFile, event |-> NoEvent, was |-> NoDoc]
NoPull == [todo |-> {}, failed |-> {}, progress |-> FALSE]
NoSync == [pc |-> "idle", change |-> NoDoc, side |-> "none"]
NoBlock == [change |-> NoDoc, side |-> "none"]

Init ==
  /\ disk = NoFile /\ dirty = FALSE /\ found = <<>>
  /\ cozy = <<>> /\ unseen = {} /\ recent = {}
  /\ doc = NoDoc /\ history = <<>> /\ pending = FALSE /\ puts = 0
  /\ owner = "none" /\ merge = NoMerge /\ pull = NoPull
  /\ sync = NoSync /\ blocked = NoBlock
  /\ copies = {} /\ bin = {} /\ wanted = {}
  /\ ops = 0 /\ faults = 0 /\ retries = 0
-----------------------------------------------------------------------------
(* The Cozy and the users.                                                  *)

Live == {id \in DOMAIN cozy : cozy[id].where = "live"}
LiveContents == {cozy[id].content : id \in Live}
RemoteInfo(id, file) == [id |-> id, rev |-> file.rev, content |-> file.content]

(* The file gets a new revision, which the changes feed announces.          *)
Revise(id, content, where) ==
  /\ cozy' = [cozy EXCEPT ![id] = [rev |-> @.rev + 1, content |-> content,
                                   where |-> where]]
  /\ unseen' = unseen \cup {id} /\ recent' = recent \cup {id}

Create(content) ==
  LET id == Len(cozy) + 1 IN
  /\ cozy' = Append(cozy, [rev |-> 1, content |-> content, where |-> "live"])
  /\ unseen' = unseen \cup {id} /\ recent' = recent \cup {id}

Quiet == /\ ~dirty /\ found = <<>> /\ unseen = {} /\ ~pending
         /\ owner = "none" /\ blocked = NoBlock

(* The file of the side holds a content instead of others.                  *)
Operates(side, replaced, content) ==
  /\ side \in Users
  /\ Pace = "synced" => Quiet
  /\ ops < MaxOps /\ ops' = ops + 1
  /\ wanted' = (wanted \ (replaced \ {content})) \cup ({content} \cap {ops'})

(* Sync does not overwrite the file while it is being written, if local     *)
(* changes are merged first.                                                *)
LocalUser(file) ==
  /\ Pace = "merged" => ~(owner = "sync" /\ sync.side = "local")
  /\ Operates("local", {disk.content}, file.content)
  /\ disk' = file /\ dirty' = TRUE
  /\ UNCHANGED <<found, remote, pouch, owner, merging, sync, blocked, kept,
                 faults, retries>>

RemoteUser(content) ==
  /\ Operates("remote", LiveContents, content)
  /\ UNCHANGED <<local, pouch, owner, merging, sync, blocked, kept, faults,
                 retries>>

(* Any content written before may come back. The file is written in place,  *)
(* or replaced by one whose inode no file had before.                       *)
LocalWrite ==
  \E content \in 1..(ops + 1),
     ino \in {disk.ino, <<"user", ops + 1>>} \ {NoFile.ino} :
    LocalUser([content |-> content, date |-> <<"user", ops + 1>>, ino |-> ino])

LocalDelete == disk # NoFile /\ LocalUser(NoFile)

(* The content that is there may get a new revision.                        *)
RemoteWrite ==
  \E content \in 1..(ops + 1) :
    /\ RemoteUser(content)
    /\ IF Live = {} THEN Create(content)
       ELSE \E id \in Live : Revise(id, content, "live")

RemoteTrash == /\ RemoteUser(None)
               /\ \E id \in Live : Revise(id, cozy[id].content, "trash")
-----------------------------------------------------------------------------
(* Pouch. A revision is only written on top of the one that was read.       *)

(* metadata.invariants *)
Valid(record) ==
  /\ record.sides # NoSides
  /\ record.sides.remote # 0 => record.remote # NoRemote
  /\ record.sides.local # 0 => record.local # NoFile

Accepts(record) == record.rev = doc.rev

Write(record) ==
  LET saved == [record EXCEPT !.rev = puts + 1] IN
  /\ doc' = saved
  /\ history' = IF record.rev = 0 THEN <<saved>> ELSE Append(history, saved)
  /\ pending' = TRUE
  /\ puts' = puts + 1

EraseDoc == /\ doc' = NoDoc /\ history' = <<>> /\ pending' = FALSE
            /\ UNCHANGED puts

(* The save that ends a merge, if it succeeds.                              *)
Commits(outcome) ==
  CASE outcome.op = "none" -> UNCHANGED pouch
    [] outcome.op = "put" -> /\ Accepts(outcome.doc) /\ Valid(outcome.doc)
                             /\ Write(outcome.doc)
    [] outcome.op = "erase" -> Accepts(outcome.doc) /\ EraseDoc
Refuses(outcome) ==
  \/ outcome.op # "none" /\ ~Accepts(outcome.doc)
  \/ outcome.op = "put" /\ ~Valid(outcome.doc)
-----------------------------------------------------------------------------
(* The local watcher, from the file system events to Merge.                 *)

(* The events of a path are aggregated, then its content is read.           *)
Notice ==
  /\ dirty /\ Len(found) < MaxFound
  /\ dirty' = FALSE
  /\ found' = Append(found, disk)
  /\ UNCHANGED <<disk, remote, pouch, owner, merging, sync, blocked, kept,
                 bounds>>

DispatchLocal ==
  /\ owner = "none" /\ found # <<>>
  /\ owner' = "local"
  /\ found' = Tail(found)
  /\ merge' = [NoMerge EXCEPT !.pc = "read", !.was = doc, !.file = Head(found)]
  /\ UNCHANGED <<disk, dirty, remote, pouch, pull, sync, blocked, kept, bounds>>

LocalOutcome ==
  LET was == merge.was
      file == merge.file
  IN IF file # NoFile THEN LocalUpdate(file, was)
     ELSE IF was.local = NoFile \/ was.deleted THEN Ignore
     ELSE Trash("local", was)

(* The merge may rename the file on the disk first. When that or the save   *)
(* fails, the event is only logged.                                         *)
MergeLocal ==
  /\ owner = "local"
  /\ LET outcome == LocalOutcome
         renames == outcome.rename = "local"
         moves == renames /\ disk # NoFile
     IN /\ IF moves
           THEN /\ disk' = NoFile /\ dirty' = TRUE
                /\ copies' = copies \cup {disk.content}
           ELSE UNCHANGED <<disk, dirty, copies>>
        /\ IF renames /\ ~moves THEN UNCHANGED pouch
           ELSE IF Refuses(outcome) THEN UNCHANGED pouch
           ELSE Commits(outcome)
  /\ owner' = "none" /\ merge' = NoMerge
  /\ UNCHANGED <<found, remote, pull, sync, blocked, bin, bounds>>
-----------------------------------------------------------------------------
(* The remote watcher: watch() fetches the changes and merges them all.     *)

Event(id) == [id |-> id, rev |-> cozy[id].rev, content |-> cozy[id].content,
              where |-> cozy[id].where]

(* A watch that saves the remote sequence before it merges.                 *)
FetchSavingSeq ==
  /\ owner = "none" /\ unseen # {}
  /\ owner' = "remote"
  /\ unseen' = {} /\ recent' = {}
  /\ pull' = [NoPull EXCEPT
                !.todo = {Event(id) : id \in {i \in unseen :
                                                cozy[i].where # "moved"}}]
  /\ UNCHANGED <<local, cozy, pouch, merge, sync, blocked, kept, bounds>>

(* What was renamed to a conflict path is another record's change.          *)
Fetch ==
  /\ owner = "none" /\ unseen # {}
  /\ owner' = "remote"
  /\ recent' = {}
  /\ pull' = [NoPull EXCEPT
                !.todo = {Event(id) : id \in {i \in unseen :
                                                cozy[i].where # "moved"}}]
  /\ UNCHANGED <<local, cozy, unseen, pouch, merge, sync, blocked, kept, bounds>>

(* Trashings come first.                                                    *)
NextEvents ==
  LET trashings == {e \in pull.todo : e.where = "trash"}
  IN IF trashings # {} THEN trashings ELSE pull.todo

ReadRemote ==
  /\ owner = "remote" /\ merge = NoMerge
  /\ \E event \in NextEvents :
       merge' = [NoMerge EXCEPT !.pc = "read", !.was = doc, !.event = event]
  /\ UNCHANGED <<local, remote, pouch, owner, pull, sync, blocked, kept, bounds>>

(* identifyExistingDocChange, then Merge.                                   *)
RemoteOutcome ==
  LET was == merge.was
      event == merge.event
      known == was.remote.id = event.id
  IN IF known /\ was.remote.rev >= event.rev THEN Ignore
     ELSE IF event.where = "trash"
     THEN IF known THEN Trash("remote", was) ELSE Ignore
     ELSE RemoteUpdate(RemoteInfo(event.id, event), was)

(* A change that cannot be merged is tried again with the other failed ones.*)
MergeRemote ==
  /\ owner = "remote" /\ merge # NoMerge
  /\ LET outcome == RemoteOutcome
         event == merge.event
         renames == outcome.rename = "remote"
         moves == renames /\ cozy[event.id].rev = event.rev
         fails == (renames /\ ~moves) \/ Refuses(outcome)
     IN /\ IF moves
           THEN /\ Revise(event.id, event.content, "moved")
                /\ copies' = copies \cup {event.content}
           ELSE UNCHANGED <<remote, copies>>
        /\ IF fails THEN UNCHANGED pouch ELSE Commits(outcome)
        /\ pull' = [todo |-> pull.todo \ {event},
                    failed |-> pull.failed \cup (IF fails THEN {event} ELSE {}),
                    progress |-> pull.progress \/ ~fails]
  /\ merge' = NoMerge
  /\ UNCHANGED <<local, owner, sync, blocked, bin, bounds>>

(* applyAll goes on with what failed as long as something succeeds.         *)
ApplyAllAgain ==
  /\ owner = "remote" /\ merge = NoMerge /\ pull.todo = {}
  /\ pull.failed # {} /\ pull.progress
  /\ pull' = [NoPull EXCEPT !.todo = pull.failed]
  /\ UNCHANGED <<local, remote, pouch, owner, merge, sync, blocked, kept, bounds>>

(* A watch that forgets the changes made since it fetched.                  *)
EndWatchForgetful ==
  /\ owner = "remote" /\ merge = NoMerge /\ pull.todo = {}
  /\ unseen' = {} /\ pull' = NoPull /\ owner' = "none"
  /\ UNCHANGED <<local, cozy, recent, pouch, merge, sync, blocked, kept, bounds>>

(* The remote sequence is only saved when every change was merged.          *)
EndWatch ==
  /\ owner = "remote" /\ merge = NoMerge /\ pull.todo = {}
  /\ pull.failed = {} \/ ~pull.progress
  /\ unseen' = IF pull.failed = {} THEN recent ELSE unseen
  /\ pull' = NoPull
  /\ owner' = "none"
  /\ UNCHANGED <<local, cozy, recent, pouch, merge, sync, blocked, kept, bounds>>
-----------------------------------------------------------------------------
(* Sync: apply, applyDoc and the writers of both sides.                     *)

(* Every local change was merged.                                           *)
LocalIsMerged == ~dirty /\ found = <<>> /\ owner # "local"

PickChange ==
  /\ owner = "none" /\ pending /\ blocked = NoBlock
  /\ Pace # "any" => LocalIsMerged
  /\ owner' = "sync"
  /\ sync' = [pc |-> "apply", change |-> doc, side |-> OutOfDateSide(doc.sides)]
  /\ UNCHANGED <<local, remote, pouch, merging, blocked, kept, bounds>>

Change == sync.change
CurrentRev == Change.sides[sync.side]

(* A getPreviousRev that goes back one revision too far.                    *)
OldOneEarlier ==
  LET index == Len(history) - (Change.sides.target - CurrentRev) - 1
  IN IF index >= 1 THEN history[index] ELSE NoDoc

(* getPreviousRev *)
Old == LET index == Len(history) - (Change.sides.target - CurrentRev)
       IN IF index >= 1 THEN history[index] ELSE NoDoc

Forgotten == Change.deleted /\ ~HasBothSides(Change.sides)

Applies(side) == /\ owner = "sync" /\ sync.pc = "apply"
                 /\ ~Forgotten
                 /\ sync.side = side

(* What is asked from the writer of the side.                               *)
Task ==
  IF sync.side = "remote" /\ Change.trashed THEN "trash"
  ELSE IF Change.deleted THEN IF CurrentRev = 0 THEN "nothing" ELSE "trash"
  ELSE IF CurrentRev = 0 THEN "add"
  ELSE IF Old = NoDoc THEN "overwrite"
  ELSE IF SameFile(Old, Change) THEN "nothing"
  ELSE IF SameBinary(Old.md5sum, Change.md5sum) THEN "metadata"
  ELSE "overwrite"

Does(side, tasks) == Applies(side) /\ Task \in tasks

Succeeds(change) == /\ sync' = [sync EXCEPT !.pc = "seq", !.change = change]
                    /\ UNCHANGED <<pouch, owner, merging, blocked, bounds>>

(* A record to erase, or that neither side misses.                          *)
ApplyToNone ==
  /\ owner = "sync" /\ sync.pc = "apply"
  /\ Forgotten \/ sync.side = "none"
  /\ IF Forgotten THEN EraseDoc
     ELSE pending' = FALSE /\ UNCHANGED <<doc, history, puts>>
  /\ sync' = NoSync /\ owner' = "none"
  /\ UNCHANGED <<local, remote, merging, blocked, kept, bounds>>

ApplyNothing ==
  /\ Does("local", {"nothing"}) \/ Does("remote", {"nothing"})
  /\ Succeeds(Change)
  /\ UNCHANGED <<local, remote, kept>>

(* What Sync leaves on the disk: the temporary file it downloaded.          *)
Now == <<"sync", puts>>
Synced == [content |-> Change.md5sum, date |-> Now, ino |-> Now]

(* addFile and overwriteFile download the remote file, check it, and move   *)
(* it to the path, whatever is there.                                       *)
Download ==
  /\ Does("local", {"add", "overwrite"})
  /\ cozy[Change.remote.id].content = Change.md5sum
  /\ disk' = Synced /\ dirty' = TRUE
  /\ Succeeds([Change EXCEPT !.ino = Now, !.local = Synced])
  /\ UNCHANGED <<found, remote, kept>>

(* chmod and utimes, whatever the file holds.                               *)
UpdateLocalMetadata ==
  /\ Does("local", {"metadata"})
  /\ disk # NoFile
  /\ disk' = [disk EXCEPT !.date = Now] /\ dirty' = TRUE
  /\ Succeeds([Change EXCEPT !.local = [Synced EXCEPT !.ino = Change.ino]])
  /\ UNCHANGED <<found, remote, kept>>

TrashLocal ==
  /\ Does("local", {"trash"})
  /\ disk' = NoFile /\ dirty' = TRUE
  /\ bin' = bin \cup ({disk.content} \ {None})
  /\ Succeeds(Change)
  /\ UNCHANGED <<found, remote, copies>>

(* The writer of the remote side finds no local file to upload.             *)
UploadNothing ==
  /\ Does("remote", {"add", "overwrite"})
  /\ disk = NoFile
  /\ Succeeds([Change EXCEPT !.deleted = TRUE])
  /\ UNCHANGED <<local, remote, kept>>

UploadNew ==
  /\ Does("remote", {"add"})
  /\ disk.content = Change.md5sum /\ Live = {}
  /\ Create(Change.md5sum)
  /\ Succeeds([Change EXCEPT !.remote = RemoteInfo(Len(cozy'), cozy'[Len(cozy')])])
  /\ UNCHANGED <<local, kept>>

(* If-Match; without the previous record there is no such condition.        *)
Matches(rev) == rev \in {0, cozy[Change.remote.id].rev}

(* The remote file of the change gets a new revision.                       *)
Rewrite(content, where) ==
  LET id == Change.remote.id IN
  /\ Revise(id, content, where)
  /\ Succeeds([Change EXCEPT !.remote = RemoteInfo(id, cozy'[id])])
  /\ UNCHANGED <<local, kept>>

Upload ==
  /\ Does("remote", {"overwrite"})
  /\ disk.content = Change.md5sum /\ Matches(Old.remote.rev)
  /\ Rewrite(Change.md5sum, cozy[Change.remote.id].where)

(* The executable flag and the date are sent, with If-Match.                *)
UpdateRemoteMetadata ==
  /\ Does("remote", {"metadata"})
  /\ Matches(Change.remote.rev)
  /\ Rewrite(cozy[Change.remote.id].content, cozy[Change.remote.id].where)

TrashRemote ==
  /\ Does("remote", {"trash"}) /\ Change.remote # NoRemote
  /\ IF cozy[Change.remote.id].where = "trash"
     THEN Succeeds(Change) /\ UNCHANGED <<local, remote, kept>>
     ELSE /\ Matches(Change.remote.rev)
          /\ Rewrite(cozy[Change.remote.id].content, "trash")

(* setLocalSeq *)
SaveSeq ==
  /\ sync.pc = "seq"
  /\ pending' = FALSE
  /\ sync' = [sync EXCEPT !.pc = "save"]
  /\ UNCHANGED <<local, remote, doc, history, puts, owner, merging, blocked,
                 kept, bounds>>

(* eraseDocument, or updateRevs.                                            *)
SaveDoc ==
  /\ sync.pc = "save"
  /\ IF Change.deleted THEN EraseDoc
     ELSE Write([Change EXCEPT !.sides = MarkAsUpToDate(@), !.errors = 0])
  /\ sync' = NoSync /\ owner' = "none"
  /\ UNCHANGED <<local, remote, merging, blocked, kept, bounds>>
-----------------------------------------------------------------------------
(* What makes apply fail, and what follows.                                 *)

Fails(codes) ==
  \/ /\ "UnknownError" \in codes
     /\ \/ /\ Does("local", {"add", "overwrite"})
           /\ cozy[Change.remote.id].content # Change.md5sum
        \/ Does("local", {"metadata"}) /\ disk = NoFile
        \/ Does("remote", {"trash"}) /\ Change.remote = NoRemote
  \/ /\ "InvalidMetadata" \in codes
     /\ Does("remote", {"add", "overwrite"}) /\ disk.content \notin {None, Change.md5sum}
  \/ /\ "ConflictingName" \in codes
     /\ Does("remote", {"add"}) /\ disk.content = Change.md5sum /\ Live # {}
  \/ /\ "NeedsRemoteMerge" \in codes
     /\ \/ Does("remote", {"overwrite"}) /\ disk.content = Change.md5sum /\ ~Matches(Old.remote.rev)
        \/ Does("remote", {"metadata"}) /\ ~Matches(Change.remote.rev)
        \/ /\ Does("remote", {"trash"}) /\ Change.remote # NoRemote
           /\ ~Matches(Change.remote.rev)
           /\ cozy[Change.remote.id].where # "trash"

(* A fault of the network, or of anything else.                             *)
Fault(fault) == /\ fault \in Faults
                /\ faults < MaxFaults
                /\ faults' = faults + 1

(* The Cozy did what it was asked and its answer is lost: updateRemote is   *)
(* not called, and the change is what Pouch still has.                      *)
LosesAnswer == /\ sync.pc = "seq" /\ sync.side = "remote"
               /\ Change.remote # doc.remote
Unanswered == IF LosesAnswer THEN doc ELSE Change

FaultyApply(fault) ==
  /\ \/ (Applies("local") \/ Applies("remote")) /\ Task # "nothing"
     \/ LosesAnswer
  /\ Fault(fault)

Attempted == Change.errors >= MAX_SYNC_ATTEMPTS

BlockSync == /\ blocked' = [change |-> Unanswered, side |-> sync.side]
             /\ sync' = NoSync /\ owner' = "none"
             /\ UNCHANGED <<local, remote, pouch, merging, kept, users, retries>>

(* Errors that are retried for ever.                                        *)
BlockForEver ==
  /\ \/ Fails({"InvalidMetadata", "NeedsRemoteMerge"}) /\ UNCHANGED faults
     \/ FaultyApply("offline")
  /\ BlockSync

BlockForAttempts ==
  /\ \/ Fails({"UnknownError", "ConflictingName"}) /\ UNCHANGED faults
     \/ FaultyApply("other")
  /\ ~Attempted
  /\ BlockSync

(* skipChange *)
GiveUp ==
  /\ \/ Fails({"UnknownError"}) /\ UNCHANGED faults
     \/ FaultyApply("other")
  /\ Attempted
  /\ pending' = FALSE
  /\ sync' = NoSync /\ owner' = "none"
  /\ UNCHANGED <<local, remote, doc, history, puts, merging, blocked, kept, users,
                 retries>>

(* remote.resolveRemoteConflict renames the file that took the name.        *)
ResolveRemoteConflict ==
  /\ Fails({"ConflictingName"}) /\ Attempted
  /\ \E id \in Live : /\ Revise(id, cozy[id].content, "moved")
                      /\ copies' = copies \cup {cozy[id].content}
  /\ sync' = NoSync /\ owner' = "none"
  /\ UNCHANGED <<local, pouch, merging, blocked, bin, bounds>>

Renaming == /\ merge # NoMerge
            /\ \/ owner = "local" /\ LocalOutcome.rename # "none"
               \/ owner = "remote" /\ RemoteOutcome.rename # "none"

(* A retry that saves the record without marking the side of the change.    *)
RetryUnmarked ==
  /\ blocked # NoBlock
  /\ retries < MaxRetries /\ retries' = retries + 1
  /\ ~Renaming
  /\ IF Accepts(blocked.change)
     THEN Write([blocked.change EXCEPT !.errors = @ + 1])
     ELSE UNCHANGED pouch
  /\ blocked' = NoBlock
  /\ UNCHANGED <<local, remote, owner, merging, sync, kept, users, faults>>

(* The retry of blockSyncFor: updateErrors saves the record of the change,  *)
(* without the lock, unless it has a new revision. A retry during a merge   *)
(* that renames a file is left out: it would make the file a moved one.     *)
Retry ==
  /\ blocked # NoBlock
  /\ retries < MaxRetries /\ retries' = retries + 1
  /\ ~Renaming
  /\ Pace # "any" => LocalIsMerged
  /\ IF Accepts(blocked.change)
     THEN Write([Marked(OtherSide(blocked.side), blocked.change) EXCEPT
                   !.errors = @ + 1])
     ELSE UNCHANGED pouch
  /\ blocked' = NoBlock
  /\ UNCHANGED <<local, remote, owner, merging, sync, kept, users, faults>>

(* The client stops anywhere and starts again: the initial scan and its     *)
(* diff with Pouch find the file, or miss it.                               *)
Crash ==
  /\ Fault("crash")
  /\ dirty' = TRUE /\ found' = <<>>
  /\ recent' = {}
  /\ owner' = "none" /\ merge' = NoMerge /\ pull' = NoPull
  /\ sync' = NoSync /\ blocked' = NoBlock
  /\ UNCHANGED <<disk, cozy, unseen, pouch, kept, users, retries>>
-----------------------------------------------------------------------------
UserChanges == LocalWrite \/ LocalDelete \/ RemoteWrite \/ RemoteTrash

LocalWatcher == Notice \/ DispatchLocal \/ MergeLocal

RemoteWatcher == Fetch \/ ReadRemote \/ MergeRemote \/ ApplyAllAgain \/ EndWatch

Apply == \/ ApplyToNone \/ ApplyNothing \/ Download \/ UpdateLocalMetadata
         \/ TrashLocal \/ UploadNothing \/ UploadNew \/ Upload
         \/ UpdateRemoteMetadata \/ TrashRemote

Sync == PickChange \/ Apply \/ SaveSeq \/ SaveDoc

Failure == \/ BlockForEver \/ BlockForAttempts \/ GiveUp
           \/ ResolveRemoteConflict \/ Retry \/ Crash

Next == UserChanges \/ LocalWatcher \/ RemoteWatcher \/ Sync \/ Failure

Spec == Init /\ [][Next]_vars
-----------------------------------------------------------------------------
(* Type invariant.                                                          *)

Stamps == {"none", "user", "sync"} \X Nat
Files == [content : Nat, date : Stamps, ino : Stamps]
RemoteInfos == [id : Nat, rev : Nat, content : Nat]
Docs == [rev : Nat, sides : Sides, md5sum : Nat, ino : Stamps,
         local : Files, remote : RemoteInfos, deleted : BOOLEAN,
         trashed : BOOLEAN, errors : Nat]
Places == {"live", "trash", "moved"}
Events == [id : Nat, rev : Nat, content : Nat, where : Places]

TypeOK ==
  /\ disk \in Files /\ dirty \in BOOLEAN /\ found \in Seq(Files)
  /\ cozy \in Seq([rev : Nat, content : Nat, where : Places])
  /\ unseen \subseteq DOMAIN cozy /\ recent \subseteq unseen
  /\ doc \in Docs /\ history \in Seq(Docs)
  /\ pending \in BOOLEAN /\ puts \in Nat
  /\ owner \in {"none", "local", "remote", "sync"}
  /\ merge \in [pc : {"idle", "read"}, file : Files, event : Events, was : Docs]
  /\ pull.todo \subseteq Events /\ pull.failed \subseteq Events
  /\ pull.progress \in BOOLEAN
  /\ sync \in [pc : {"idle", "apply", "seq", "save"}, change : Docs,
               side : Side \cup {"none"}]
  /\ blocked \in [change : Docs, side : Side \cup {"none"}]
  /\ copies \subseteq Nat /\ bin \subseteq Nat /\ wanted \subseteq Nat
  /\ ops \in 0..MaxOps /\ faults \in 0..MaxFaults /\ retries \in 0..MaxRetries
-----------------------------------------------------------------------------
(* The record.                                                              *)

(* A side never knows more changes than were merged, and the last change    *)
(* merged is known by a side: what isUpToDate, outOfDateSide and            *)
(* getPreviousRev take for granted, through every merge, dissociation,      *)
(* retry and updateRevs. In particular a file that was never moved does not *)
(* get in the situation that the FIXME of isAtLeastUpToDate mitigates.      *)
SidesFollowTarget ==
  /\ \A side \in Side : doc.sides[side] <= doc.sides.target
  /\ doc # NoDoc => \E side \in Side : doc.sides[side] = doc.sides.target

(* The checksum of a record is the content of every side that is not late.  *)
Told(record) ==
  LET late == OutOfDateSide(record.sides) IN
  /\ late # "local" => record.local.content = record.md5sum
  /\ late # "remote" => record.remote.content = record.md5sum

(* Merge marks the record of a side that it does not know as trashed, and   *)
(* the mark stays when the file comes back.                                 *)
NeverTrashed == \A i \in DOMAIN history : ~history[i].trashed

(* The checksum of a record is the content of the side that is ahead, and   *)
(* of both when none is: Sync propagates what the side of the change holds, *)
(* and has nothing left to propagate when it finds a record up to date. It  *)
(* fails for a record that was marked trashed, which Sync trashes instead   *)
(* of updating it (sync/index.js:341).                                      *)
RecordTellsContent == NeverTrashed => Told(doc)

(* metadata.invariants refuses no record that a merge saves, be it          *)
(* dissociated first or not.                                                *)
Outcome == IF owner = "local" THEN LocalOutcome ELSE RemoteOutcome
MergesAreValid == merge # NoMerge /\ Outcome.op = "put" => Valid(Outcome.doc)
-----------------------------------------------------------------------------
(* What Sync does with it.                                                  *)

Applying == owner = "sync" /\ sync.pc = "apply" /\ sync.side # "none"
            /\ ~Forgotten

(* The comparison with the revision that getPreviousRev finds makes Sync    *)
(* skip a new content, or take it for new metadata, only when the side had  *)
(* this content the last time it was up to date; a file of the Cozy has it  *)
(* still, as far as was merged, and a change of the Cozy is never nothing.  *)
(* It would be skipped if a revision was saved without the sides being      *)
(* marked.                                                                  *)
SkipsOnlyWhatIsThere ==
  Applying /\ Task \in {"nothing", "metadata"} /\ ~Change.deleted /\ NeverTrashed =>
    IF sync.side = "local"
    THEN Task = "metadata" /\ Old.local.content = Change.md5sum
    ELSE Change.remote.content = Change.md5sum

(* There is always a previous revision to compare with, and an upload is    *)
(* conditioned by the revision of the remote file that was last merged: the *)
(* "risky overwrite without If-Match" of doOverwrite does not happen.       *)
PreviousIsKnown ==
  Applying /\ CurrentRev # 0 =>
    /\ Old # NoDoc
    /\ sync.side = "remote" /\ Task = "overwrite" =>
         Old.remote.rev = Change.remote.rev /\ Old.remote # NoRemote
-----------------------------------------------------------------------------
(* What users may expect.                                                   *)

(* A content that a user saved, and that no user replaced or deleted where  *)
(* it was, is still somewhere: at the path on either side, in a conflict    *)
(* copy, in the trash of the OS or in the trash of the Cozy.                *)
AllIsSomewhere ==
  wanted \subseteq {disk.content} \cup {cozy[id].content : id \in DOMAIN cozy}
                  \cup copies \cup bin

(* It is so as long as no revision is marked as trashed: Sync then trashes  *)
(* the remote file of a local one that is edited, and forgets the edition.  *)
NothingIsLost == []NeverTrashed => []AllIsSomewhere

(* When there is nothing left to do, both sides have the same file.         *)
Converged == Quiet => LiveContents = {disk.content} \ {None}
=============================================================================
