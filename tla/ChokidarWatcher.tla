-------------------------- MODULE ChokidarWatcher --------------------------
(* The local watcher of macOS (core/local/chokidar/watcher.js): the events   *)
(* of chokidar are buffered until nothing happens for a while, completed     *)
(* with what Pouch and the disk tell of their paths, analysed together into  *)
(* changes, and sent to Prep under the lock of Pouch. Users change the       *)
(* sync directory at any time, the client stops, crashes and starts again.   *)
EXTENDS ChokidarChanges

CONSTANTS
  Disk,               \* the sync directory at first: docType, md5sum and ino by path
  Paths,              \* the paths users create and move to
  DirNames,           \* the names they give to folders only
  UserOps,            \* the kinds of changes they make
  Alone,              \* those made when the watcher is at rest, and until it is again
  ReusePaths,         \* they put something where something else was before
  ReplacesAtOnce,     \* a file takes the place of another one within 100 ms
  DuringScan,         \* users make changes during the initial scan too
  FlushesWhenQuiet,   \* chokidar tells all it has to before the buffer is flushed
  StartsAfterFlush,   \* the flush of a run is over when the client starts again
  SyncWaits,          \* Sync acts only when the watcher is at rest
  NB_OF_DELETABLE_ELEMENT,
  MaxOps,             \* bound: changes made by users
  MaxOffline,         \* bound: those they make while the client does not run
  MaxFlushes,         \* bound: batches that are prepared or sent at the same time
  MaxStops,           \* bound: stops of the client
  MaxCrashes          \* bound: crashes of the client

ASSUME ChokidarWatcherAssumption ==
  /\ {ReusePaths, ReplacesAtOnce, DuringScan, FlushesWhenQuiet, StartsAfterFlush,
      SyncWaits} \subseteq BOOLEAN
  /\ UserOps \subseteq {"create", "write", "delete", "move", "overwrite"}
  /\ Alone \subseteq UserOps
  /\ {NB_OF_DELETABLE_ELEMENT, MaxOps, MaxOffline, MaxFlushes, MaxStops,
      MaxCrashes} \subseteq Nat

VARIABLES
  disk, db, ids,   \* those of a world; ids are inodes and contents, too
  used,            \* the paths where something was
  running,         \* the client runs: chokidar watches the sync directory
  seen,            \* what chokidar has told of it
  buffer, mode,    \* LocalEventBuffer: its events, "idle" or "timeout"
  flushes,         \* the batches being prepared: [events, prepared]
  sends,           \* the changes that wait for the lock: [changes, failed]
  pendingChanges,  \* the changes that are incomplete
  scan,            \* initialScan: [paths, emptyDirRetryCount], if any
  started,         \* the promise of start() is resolved
  failure,         \* the error that ended the watcher: "empty", "panic" or "prep"
  ops, last,       \* the number of changes made by users, the last one
  offline, stops, crashes

world == <<disk, db, ids, used>>
buffering == <<buffer, mode>>
working == <<flushes, sends, pendingChanges>>
starting == <<running, scan, started, failure>>
bounds == <<ops, last, offline, stops, crashes>>
vars == <<world, seen, buffering, working, starting, bounds>>

World == [disk |-> disk, bin |-> {}, events |-> <<>>, cozy |-> <<>>, unseen |-> <<>>,
          db |-> db, ids |-> ids, doc |-> NewDoc("file", Null, 0), ok |-> TRUE,
          code |-> "none"]

Becomes(w) == disk' = w.disk /\ db' = w.db /\ ids' = w.ids
-----------------------------------------------------------------------------
(* At first the records are those of the disk, synchronized.                 *)

InitialRecord(path) ==
  LET file == Disk[path]
      doc == [BuildLocal(file.docType, path, file.md5sum, file.ino) EXCEPT
                !.id = file.ino, !.rev = 1,
                !.remote = Some([id |-> file.ino, rev |-> 1, md5sum |-> file.md5sum]),
                !.sides = [target |-> 2, local |-> 2, remote |-> 2]]
  IN [doc |-> doc, revs |-> <<doc>>, pending |-> FALSE]

Init ==
  /\ disk = Disk /\ used = DOMAIN Disk /\ ids = 20
  /\ db = LET paths == SetToSortSeq(DOMAIN Disk, Lower)
          IN [i \in DOMAIN paths |-> InitialRecord(paths[i])]
  /\ running = FALSE /\ seen = <<>> /\ buffer = <<>> /\ mode = "idle"
  /\ flushes = <<>> /\ sends = <<>> /\ pendingChanges = <<>>
  /\ scan = Null /\ started = FALSE /\ failure = "none"
  /\ ops = 0 /\ last = "none" /\ offline = 0 /\ stops = 0 /\ crashes = 0
-----------------------------------------------------------------------------
(* chokidar compares what it has told with what it finds. Folders come first *)
(* since it holds the unlink of a file for 100 ms, to see if the file comes  *)
(* back, and its add or its change until it is not written any more.         *)

SameAsSeen(path) == path \in DOMAIN disk /\ path \in DOMAIN seen /\ disk[path] = seen[path]
WatchedDir(path) == path = <<>> \/ (SameAsSeen(path) /\ disk[path].docType = "folder")

SeenDirs == {p \in DOMAIN seen : seen[p].docType = "folder"}
LostDirs == {p \in SeenDirs : ~SameAsSeen(p)}
NewDirs == {p \in DOMAIN disk \ DOMAIN seen :
              disk[p].docType = "folder" /\ WatchedDir(Dirname(p))}
LostFiles == {p \in DOMAIN seen \ SeenDirs :
                p \notin DOMAIN disk \/ disk[p].docType = "folder"}
NewFiles == {p \in DOMAIN disk \ DOMAIN seen :
               disk[p].docType = "file" /\ WatchedDir(Dirname(p))}
ChangedFiles == {p \in DOMAIN disk \cap DOMAIN seen :
                   disk[p].docType = "file" /\ seen[p].docType = "file" /\ disk[p] # seen[p]}

QuietDirs == LostDirs = {} /\ NewDirs = {}
QuietFiles == LostFiles = {} /\ NewFiles = {} /\ ChangedFiles = {}
ChokidarIsQuiet == QuietDirs /\ QuietFiles

AtRest == /\ running => ChokidarIsQuiet
          /\ buffer = <<>> /\ flushes = <<>> /\ sends = <<>>
-----------------------------------------------------------------------------
(* Users                                                                     *)

UsersMayAct ==
  /\ ops < MaxOps
  /\ IF running THEN started \/ DuringScan ELSE offline < MaxOffline

UserActs(op) ==
  /\ op \in UserOps /\ UsersMayAct /\ ops' = ops + 1 /\ last' = op
  /\ {op, last} \cap Alone # {} => AtRest
  /\ offline' = IF running THEN offline ELSE offline + 1
  /\ UNCHANGED <<db, seen, buffering, working, starting, stops, crashes>>

Changes(w) == disk' = w.disk /\ used' = used \cup DOMAIN w.disk

Free(path) == path \notin DOMAIN disk /\ (ReusePaths \/ path \notin used)
NameOf(docType, path) == docType = "folder" <=> Basename(path) \in DirNames

UserCreates(docType, path) ==
  LET new == [docType |-> docType, ino |-> ids + 1,
              md5sum |-> IF docType = "file" THEN ids + 1 ELSE 0]
  IN /\ UserActs("create")
     /\ Free(path) /\ NameOf(docType, path) /\ IsDir(World, Dirname(path))
     /\ Changes([World EXCEPT !.disk = (path :> new) @@ @]) /\ ids' = ids + 1

UserWrites(path) ==
  /\ UserActs("write")
  /\ path \in DOMAIN disk /\ disk[path].docType = "file"
  /\ Changes([World EXCEPT !.disk[path].md5sum = ids + 1]) /\ ids' = ids + 1

UserDeletes(path) ==
  /\ UserActs("delete") /\ path \in DOMAIN disk
  /\ Changes(RemoveDisk(World, path)) /\ UNCHANGED ids

UserMoves(old, new) ==
  /\ UserActs("move")
  /\ old \in DOMAIN disk /\ Free(new) /\ NameOf(disk[old].docType, new)
  /\ IsDir(World, Dirname(new)) /\ ~IsPrefix(old, new)
  /\ Changes(RenameDisk(World, old, new)) /\ UNCHANGED ids

(* Only a file takes the place of another one.                               *)
UserOverwrites(old, new) ==
  /\ UserActs("overwrite")
  /\ {old, new} \subseteq DOMAIN disk /\ old # new
  /\ disk[old].docType = "file" /\ disk[new].docType = "file"
  /\ Changes(RenameDisk(RemoveDisk(World, new), old, new)) /\ UNCHANGED ids
-----------------------------------------------------------------------------
(* What chokidar tells, with the stats of the path at that time.             *)
EventAt(type, path) ==
  IF path \in DOMAIN disk /\ type \notin {"unlink", "unlinkDir"}
  THEN ChokidarEvent(type, path, disk[path].ino, disk[path].md5sum)
  ELSE ChokidarEvent(type, path, 0, 0)

Push(type, path) == buffer' = Append(buffer, EventAt(type, path))

Notices(type, path) ==
  /\ running /\ Push(type, path)
  /\ seen' = IF type \in {"unlink", "unlinkDir"} THEN Restrict(seen, DOMAIN seen \ {path})
             ELSE (path :> disk[path]) @@ seen
  /\ UNCHANGED <<world, mode, working, starting, bounds>>

(* The folders in a folder that is gone are gone before it.                  *)
NoticesDir ==
  \/ \E path \in LostDirs :
       /\ ~\E p \in SeenDirs : AreParentChildPaths(path, p)
       /\ Notices("unlinkDir", path)
  \/ \E path \in NewDirs : Notices("addDir", path)

(* A file that was replaced is changed, or was lost for a while.             *)
ReplacedFiles == {p \in ChangedFiles : disk[p].ino # seen[p].ino /\ ~ReplacesAtOnce}

NoticesFile ==
  /\ QuietDirs
  /\ \/ \E path \in LostFiles \cup ReplacedFiles : Notices("unlink", path)
     \/ /\ LostFiles = {}
        /\ \/ \E path \in NewFiles : Notices("add", path)
           \/ \E path \in ChangedFiles : Notices("change", path)
-----------------------------------------------------------------------------
(* start(), the initial scan and the flushes of the buffer                   *)

Start ==
  /\ ~running /\ running' = TRUE /\ failure = "none"
  /\ StartsAfterFlush => flushes = <<>> /\ sends = <<>>
  /\ scan' = Some([paths |-> {}, emptyDirRetryCount |-> 3])
  /\ seen' = <<>> /\ buffer' = Append(buffer, ChokidarEvent("addDir", <<>>, 0, 0))
  /\ started' = FALSE
  /\ UNCHANGED <<world, mode, working, failure, bounds>>

InitialScanDocs ==
  SelectSeq(Docs(World), LAMBDA d : ~d.deleted /\ d.sides.local # 0 /\ Given(d.local))

InScan(paths, d) == d.path \in paths \/ d.trashed
UnappliedMove(paths, d) == /\ ~InScan(paths, d) /\ Given(d.moveFrom)
                           /\ The(d.moveFrom).path \in paths

PretendUnlink(d) ==
  [ChokidarEvent(IF d.docType = "file" THEN "unlink" ELSE "unlinkDir", d.path, 0, 0)
     EXCEPT !.old = Some(d)]

(* detectOfflineUnlinkEvents: the records that chokidar has not seen, the    *)
(* last paths first, unless a move of theirs was not applied yet.            *)
OfflineEvents(paths) ==
  LET gone == SelectSeq(InitialScanDocs, LAMBDA d :
                ~InScan(paths, d) /\ ~UnappliedMove(paths, d))
      unlinks == SortSeq(gone, Before)
  IN Reverse([i \in DOMAIN unlinks |-> PretendUnlink(unlinks[i])])

UnappliedMoves(paths) ==
  {The(d.moveFrom).path : d \in {e \in ToSet(InitialScanDocs) : UnappliedMove(paths, e)}}

(* With the limit counted from the other side.                               *)
EmptySyncDirAbove(paths) ==
  /\ Len(InitialScanDocs) > NB_OF_DELETABLE_ELEMENT + 1
  /\ \A i \in DOMAIN InitialScanDocs : ~InScan(paths, InitialScanDocs[i])

EmptySyncDir(paths) ==
  /\ Len(InitialScanDocs) > NB_OF_DELETABLE_ELEMENT
  /\ \A i \in DOMAIN InitialScanDocs : ~InScan(paths, InitialScanDocs[i])

BelowRoot(events) == SelectSeq(events, LAMBDA e : e.path # <<>>)

Prepares(events) == flushes' = Append(flushes, [events |-> events, prepared |-> <<>>])

(* initial_scan.step, for the batch raw, whose events wait for the next   *)
(* flush when the sync directory is empty.                                   *)
ScanStep(raw) ==
  LET events == BelowRoot(raw)
      paths == The(scan).paths \cup {e.path : e \in {f \in ToSet(events) : Appears(f)}}
      retries == The(scan).emptyDirRetryCount - 1
  IN IF EmptySyncDir(paths)
     THEN /\ scan' = Some([paths |-> paths, emptyDirRetryCount |-> retries])
          /\ buffer' = raw
          /\ started' = (started \/ retries # 0)
          /\ failure' = IF retries = 0 /\ failure = "none" THEN "empty" ELSE failure
          /\ UNCHANGED flushes
     ELSE /\ scan' = Some([The(scan) EXCEPT !.paths = paths])
          /\ buffer' = <<>>
          /\ Prepares(SelectSeq(OfflineEvents(paths) \o events,
                                LAMBDA e : e.path \notin UnappliedMoves(paths)))
          /\ UNCHANGED <<started, failure>>

(* The callback of the flushed buffer, up to the preparation of its events.  *)
OnFlush ==
  IF buffer = <<>> THEN UNCHANGED <<flushes, buffer, scan, started, failure>>
  ELSE IF Given(scan) THEN ScanStep(buffer)
  ELSE Prepares(BelowRoot(buffer)) /\ buffer' = <<>> /\ UNCHANGED <<scan, started, failure>>

CanFlush == Len(flushes) + Len(sends) < MaxFlushes

CanSwitch == running /\ mode = "idle" /\ ChokidarIsQuiet /\ CanFlush

CanTimeOut ==
  /\ running /\ mode = "timeout" /\ buffer # <<>> /\ CanFlush /\ failure = "none"
  /\ FlushesWhenQuiet => ChokidarIsQuiet

Ready ==
  /\ CanSwitch
  /\ OnFlush /\ mode' = "timeout"
  /\ UNCHANGED <<world, seen, sends, pendingChanges, running, bounds>>

Flush ==
  /\ CanTimeOut
  /\ OnFlush
  /\ UNCHANGED <<world, seen, mode, sends, pendingChanges, running, bounds>>

(* Sync stops the watcher once it is started, or because it failed. chokidar *)
(* is asked for what it holds, and the flush of what is buffered goes on.    *)
Stop ==
  /\ running /\ started /\ CanFlush
  /\ FlushesWhenQuiet => ChokidarIsQuiet
  /\ \/ stops < MaxStops /\ stops' = stops + 1
     \/ failure # "none" /\ UNCHANGED stops
  /\ OnFlush /\ mode' = "idle" /\ running' = FALSE /\ seen' = <<>>
  /\ UNCHANGED <<world, sends, pendingChanges, ops, last, offline, crashes>>

Crash ==
  /\ running /\ crashes < MaxCrashes /\ crashes' = crashes + 1
  /\ running' = FALSE /\ seen' = <<>> /\ buffer' = <<>> /\ mode' = "idle"
  /\ flushes' = <<>> /\ sends' = <<>> /\ pendingChanges' = <<>>
  /\ scan' = Null /\ started' = FALSE /\ failure' = "none"
  /\ UNCHANGED <<world, ops, last, offline, stops>>
-----------------------------------------------------------------------------
(* prepareEvents, analysis and sendToPrep                                    *)

OldMetadata(e) ==
  IF Given(e.old) THEN e.old
  ELSE LET found == BySyncedPath(World, e.path)
       IN IF Given(found) /\ ~The(found).deleted THEN found ELSE Null

(* In the initial scan the checksum of a file whose date did not change is   *)
(* the one of its record.                                                    *)
SameDate(e, old) ==
  /\ Given(scan) /\ Given(old) /\ e.path = The(old).path
  /\ Local(The(old)).md5sum # 0 /\ e.mtime = Local(The(old)).md5sum

(* With what is gone not said to be incomplete.                              *)
PreparedAsComplete(e) ==
  LET known == [e EXCEPT !.old = OldMetadata(e)]
  IN IF Appears(e) \/ e.type = "change"
     THEN <<[known EXCEPT !.md5sum = IF e.path \in DOMAIN disk THEN disk[e.path].md5sum
                                     ELSE 0]>>
     ELSE <<known>>

(* The event with what the path has now; a file that became a folder has no  *)
(* checksum, and its event is dropped. The record is read before the disk is *)
(* looked at: both are one step here.                                        *)
Prepared(e) ==
  LET old == OldMetadata(e)
      known == [e EXCEPT !.old = old]
      there == e.path \in DOMAIN disk
  IN CASE e.type \in {"unlink", "unlinkDir"} -> <<known>>
       [] e.type = "addDir" -> <<[known EXCEPT !.wip = ~there]>>
       [] SameDate(e, old) -> <<[known EXCEPT !.md5sum = Local(The(old)).md5sum]>>
       [] ~there -> <<[known EXCEPT !.wip = TRUE]>>
       [] disk[e.path].docType = "file" -> <<[known EXCEPT !.md5sum = disk[e.path].md5sum]>>
       [] OTHER -> <<>>

(* Events are prepared together, at most 50 at a time: in any order, unless  *)
(* nothing can change until they are prepared and it makes no difference.    *)
Unprepared(i) == DOMAIN flushes[i].events \ DOMAIN flushes[i].prepared
NothingChanges == ~UsersMayAct /\ SyncWaits /\ MaxFlushes = 1 /\ StartsAfterFlush

PrepareEvent(i) ==
  /\ \E k \in Unprepared(i) :
       /\ NothingChanges => k = Min(Unprepared(i))
       /\ flushes' = [flushes EXCEPT ![i].prepared = (k :> Prepared(flushes[i].events[k])) @@ @]
  /\ UNCHANGED <<world, seen, buffering, sends, pendingChanges, starting, bounds>>

EndsWith(error) == failure' = IF failure = "none" THEN error ELSE failure

(* With the lock not even acquired when the list of changes is empty.        *)
AnalyseOrReturn(i) ==
  /\ Unprepared(i) = {}
  /\ \E a \in {Analysis(FlattenSeq(flushes[i].prepared), pendingChanges, Given(scan))} :
       /\ pendingChanges' = a.pendingChanges
       /\ sends' = IF a.panics \/ a.changes = <<>> THEN sends
                   ELSE Append(sends, [changes |-> a.changes, failed |-> FALSE])
       /\ IF a.panics THEN EndsWith("panic") ELSE UNCHANGED failure
  /\ flushes' = RemoveAt(flushes, i)
  /\ UNCHANGED <<world, seen, buffering, running, scan, started, bounds>>

Analyse(i) ==
  /\ Unprepared(i) = {}
  /\ \E a \in {Analysis(FlattenSeq(flushes[i].prepared), pendingChanges, Given(scan))} :
       /\ pendingChanges' = a.pendingChanges
       /\ sends' = IF a.panics THEN sends
                   ELSE Append(sends, [changes |-> a.changes, failed |-> FALSE])
       /\ IF a.panics THEN EndsWith("panic") ELSE UNCHANGED failure
  /\ flushes' = RemoveAt(flushes, i)
  /\ UNCHANGED <<world, seen, buffering, running, scan, started, bounds>>

SendNext ==
  /\ sends # <<>> /\ Head(sends).changes # <<>>
  /\ \E w \in {SendChange(World, Head(Head(sends).changes))} :
       /\ Becomes(w)
       /\ sends' = [sends EXCEPT ![1] =
            [changes |-> Tail(@.changes), failed |-> @.failed \/ ~w.ok]]
  /\ used' = used \cup DOMAIN disk'
  /\ UNCHANGED <<seen, buffering, flushes, pendingChanges, starting, bounds>>

EndSend ==
  /\ sends # <<>> /\ Head(sends).changes = <<>>
  /\ sends' = Tail(sends)
  /\ IF Head(sends).failed THEN EndsWith("prep") /\ UNCHANGED <<scan, started>>
     ELSE /\ scan' = Null /\ started' = (started \/ Given(scan))
          /\ UNCHANGED failure
  /\ UNCHANGED <<world, seen, buffering, flushes, pendingChanges, running, bounds>>
-----------------------------------------------------------------------------
(* Sync, that gives a document of the Cozy to each record, and erases those  *)
(* that are marked for deletion with what is below them.                     *)

Synced(record) ==
  LET d == record.doc
      remote == [id |-> IF Given(d.remote) THEN Remote(d).id ELSE d.id,
                 rev |-> Remote(d).rev + 1, md5sum |-> d.md5sum]
      doc == [d EXCEPT !.rev = @ + 1, !.moveFrom = Null, !.overwrite = Null,
                       !.remote = Some(remote), !.sides = MarkAsUpToDate(@)]
  IN IF record.pending THEN [doc |-> doc, revs |-> <<doc>>, pending |-> FALSE] ELSE record

CanSync ==
  /\ running /\ started /\ sends = <<>> /\ (SyncWaits => AtRest)
  /\ \E i \in DOMAIN db : db[i].pending \/ db[i].doc.deleted

SyncApplies ==
  LET gone == {d \in ToSet(Docs(World)) : d.deleted}
      erased(d) == \E g \in gone : IsPrefix(g.path, d.path)
      left == SelectSeq(db, LAMBDA r : ~erased(r.doc))
  IN /\ CanSync
     /\ db' = [i \in DOMAIN left |-> Synced(left[i])]
     /\ UNCHANGED <<disk, ids, used, seen, buffering, working, starting, bounds>>
-----------------------------------------------------------------------------
UserNext ==
  \/ \E path \in Paths \cup DOMAIN Disk :
       \/ \E docType \in {"file", "folder"} : UserCreates(docType, path)
       \/ UserWrites(path) \/ UserDeletes(path)
       \/ \E new \in Paths : UserMoves(path, new) \/ UserOverwrites(path, new)

WatcherNext ==
  \/ Ready \/ Flush
  \/ \E i \in DOMAIN flushes : PrepareEvent(i) \/ Analyse(i)
  \/ SendNext \/ EndSend

ChokidarNext == NoticesDir \/ NoticesFile

Next == \/ UserNext \/ ChokidarNext \/ Start \/ Stop \/ Crash
        \/ WatcherNext \/ SyncApplies

Spec == Init /\ [][Next]_vars

(* The client is started again, chokidar tells what it finds, and what can   *)
(* go on does so at some time; what enables the watcher and Sync is spelled  *)
(* out.                                                                      *)
CanWork == CanSwitch \/ CanTimeOut \/ flushes # <<>> \/ sends # <<>>

FairSpec ==
  /\ Spec /\ WF_vars(Start) /\ WF_vars(ChokidarNext)
  /\ ([]<>~CanWork \/ []<><<WatcherNext>>_vars)
  /\ ([]<>~CanSync \/ []<><<SyncApplies>>_vars)
-----------------------------------------------------------------------------
(* Properties                                                                *)

(* What the records tell of the sync directory, without what is going to be  *)
(* trashed with the folder it is in, and what the sync directory has.        *)
Live(d) ==
  /\ ~d.deleted /\ d.sides.local # 0
  /\ \A e \in ToSet(Docs(World)) : e.deleted => ~AreParentChildPaths(e.path, d.path)

Recorded == {[path |-> d.path, docType |-> d.docType, ino |-> d.ino, md5sum |-> d.md5sum] :
               d \in {e \in ToSet(Docs(World)) : Live(e)}}
OnDisk == {[path |-> p, docType |-> disk[p].docType, ino |-> disk[p].ino,
            md5sum |-> disk[p].md5sum] : p \in DOMAIN disk}

(* A change that is incomplete waits for what chokidar tells of its end; a   *)
(* folder that was gone before it was looked at stays, ignored, and so does  *)
(* what a stop cut off from the next events.                                 *)
Resting ==
  AtRest /\ (stops = 0 => \A c \in Range(pendingChanges) : c.type = "Ignored")
Idle == running /\ started /\ failure = "none" /\ AtRest

(* Once the watcher is at rest everything the sync directory has is in a     *)
(* record, where it is and as it is, whatever was created, written, moved or *)
(* replaced meanwhile, while the client was stopped or before it crashed.    *)
AllIsRecorded == Idle => OnDisk \subseteq Recorded

(* And no record is left of what is gone. What users did when the client did *)
(* not run is told as well as one change allows: from two on, or when a crash *)
(* lost the events of some, a deletion may be applied where its folder was.  *)
NothingLingers ==
  (Idle /\ crashes = 0 /\ offline <= 1) => Recorded \subseteq OnDisk

(* A record is marked for deletion, and Sync trashes its document, only when *)
(* its inode is gone from the sync directory: neither a move, nor a folder   *)
(* that disappears around a file, nor a change during the preparation of the *)
(* events passes for a deletion.                                             *)
DeletesOnlyWhatIsGone ==
  [][\A i \in DOMAIN db : \A j \in DOMAIN db' :
       (/\ db[i].doc.id = db'[j].doc.id /\ ~db[i].doc.deleted /\ db'[j].doc.deleted)
         => \A p \in DOMAIN disk : disk[p].ino # db[i].doc.ino]_vars

(* What has an inode remains the same document of the Cozy, whatever order   *)
(* chokidar tells the end of the old path and the start of the new one in.   *)
KeepsIdentity ==
  [][\A i \in DOMAIN db, j \in DOMAIN db' :
       (/\ db[i].doc.ino = db'[j].doc.ino
        /\ Given(db[i].doc.remote) /\ Given(db'[j].doc.remote))
         => Remote(db[i].doc).id = Remote(db'[j].doc).id]_vars

(* A sync directory found empty at the start, a disk that is not mounted for *)
(* example, does not pass for the deletion of all it had.                    *)
EmptyTrashesNothing ==
  [][(/\ Given(scan) /\ disk = <<>> /\ Len(InitialScanDocs) > NB_OF_DELETABLE_ELEMENT)
       => \A i \in DOMAIN db : ~db[i].doc.deleted =>
            \E j \in DOMAIN db' : db'[j].doc.id = db[i].doc.id /\ ~db'[j].doc.deleted]_vars

(* The watcher ends by itself for an empty sync directory only: no batch has *)
(* a move and an unlink of the same inode, and Prep is asked of no file that *)
(* has no checksum and no move that has no source.                           *)
EndsOnlyWhenEmpty == failure \in {"none", "empty"}

(* What was deleted is applied before what has taken its place: the record   *)
(* of a file that is on the disk, at its path, is never marked for deletion. *)
ReplacedIsKept ==
  \A i \in DOMAIN db : \A p \in DOMAIN disk :
    (/\ Idle /\ db[i].doc.path = p /\ db[i].doc.ino = disk[p].ino)
      => ~db[i].doc.deleted

(* The promise of start() is settled, or the client is stopped.              *)
StartSettles == running ~> (started \/ failure # "none" \/ ~running)

(* The watcher comes to rest, with no change that remains incomplete: there  *)
(* is no timeout for those of which chokidar does not tell the end.          *)
ComesToRest == <>[](failure # "none" \/ Resting)
=============================================================================
