---------------------------- MODULE AtomWatcher ----------------------------
(* The local watcher on Linux: the events of the file system and the entries *)
(* of the scans go through a chain of steps, each with its channel, up to    *)
(* the merge into Pouch. A step that waits for the disk, a checksum or Pouch *)
(* takes one event at a time; between two of them anything may happen. Users *)
(* change the sync directory before the client starts and while it runs.     *)
EXTENDS AtomSteps, FiniteSets

CONSTANTS
  Paths,        \* the paths users create and move to
  DirNames,     \* the names they give to directories only
  Kept,         \* the paths where what they put stays
  Disks,        \* the trees the sync directory may start with
  UserOps,      \* the kinds of changes users make
  ReusePaths,   \* they put something where something else was before
  DuringScan,   \* users make changes during the initial scan too
  KeepUp,       \* the steps are done with the scan before the delay that ends it
  ReuseInodes,  \* the file system gives the inodes of deleted files again
  MaxOps,       \* bound: changes made by users
  MaxOffline,   \* bound: those they make before the client starts
  MaxBurst      \* bound: changes made before the watcher is done with the first

ASSUME AtomWatcherAssumption ==
  /\ MaxOps \in Nat /\ MaxOffline \in Nat /\ MaxBurst \in Nat
  /\ UserOps \subseteq {"file", "dir", "write", "delete", "move"}
  /\ ReusePaths \in BOOLEAN /\ ReuseInodes \in BOOLEAN
  /\ DuringScan \in BOOLEAN /\ KeepUp \in BOOLEAN

VARIABLES
  disk,        \* what is at each path: kind, ino and content
  inodes,      \* the greatest inode ever given
  contents,    \* the greatest content ever written
  used,        \* the paths where something was
  fsEvents,    \* events the file system has not delivered yet
  producer,    \* "stopped", "scanning", "scanned" or "started"
  scans,       \* the scans of directories under way, the initial one first
  channel,     \* the batches each step has not taken yet
  partial,     \* what the steps that wait made of the first of them so far
  writes,      \* awaitWriteFinish: the batches that wait
  diff,        \* initialDiff: its state
  incompletes, \* incompleteFixer: the events it keeps
  fixing,      \* incompleteFixer: the event being compared with them
  pending,     \* overwrite: the batch it keeps, and its deletions by path
  pouch,       \* the records of Pouch, by path
  started,     \* initial-scan-done was emitted: start() has ended
  ops,         \* number of changes made by users
  burst        \* those made since the watcher was last idle

users == <<disk, inodes, contents, used, fsEvents, ops, burst>>
watching == <<producer, scans>>
steps == <<channel, partial, writes, diff, incompletes, fixing, pending>>
vars == <<users, watching, steps, pouch, started>>

Steps == <<"addInfos", "awaitWriteFinish", "initialDiff", "addChecksum",
           "incompleteFixer", "overwrite", "dispatch">>

NoFix == [pc |-> "none", i |-> 0, kept |-> <<>>, out |-> <<>>, added |-> FALSE,
          stats |-> NoStats]

Exists(path) == path \in DOMAIN disk
Below(tree, path) == {p \in DOMAIN tree : IsStrictPrefix(path, p)}
Children(path) == {p \in DOMAIN disk : Len(p) = Len(path) + 1 /\ IsPrefix(path, p)}
InOrder(ps) == SetToSortSeq(ps, PathBefore)
Parent(path) == Front(path)
IsDir(path) == path = Root \/ (Exists(path) /\ disk[path].kind = "directory")

stat(path) ==
  IF Exists(path)
  THEN [kind |-> disk[path].kind, ino |-> disk[path].ino, mtime |-> disk[path].content]
  ELSE NoStats

(* 0 when the file cannot be read                                           *)
checksum(path) ==
  IF Exists(path) /\ disk[path].kind = "file" THEN disk[path].content ELSE 0

HasBatch(step) == channel[step] # <<>>

HasTimer(waiting) == \E k \in DOMAIN waiting : waiting[k].timer

(* push ignores an empty batch *)
Push(ch, step, batch) ==
  IF batch = <<>> THEN ch ELSE [ch EXCEPT ![step] = Append(@, batch)]

PushAll(ch, step, batches) == [ch EXCEPT ![step] = @ \o batches]

----------------------------------------------------------------------------
(* Users, and the events of the file system for what they do                *)

Native(action, kind, path, oldPath) ==
  [Event(action, path, oldPath) EXCEPT !.kind = kind]

Notify(events) == fsEvents' = IF producer = "stopped" THEN <<>> ELSE fsEvents \o events

(* A new directory is watched at some time between its creation and the     *)
(* delivery of it: what happens there before that is missed.                *)
Unwatched(path) ==
  \E i \in DOMAIN fsEvents :
    LET e == fsEvents[i]
        within(f) == IsStrictPrefix(e.path, f.path) \/ IsStrictPrefix(e.path, f.oldPath)
    IN /\ e.action = "created" /\ IsStrictPrefix(e.path, path)
       /\ \A j \in i + 1 .. Len(fsEvents) : ~within(fsEvents[j])

NotifyIfWatched(path, events) ==
  \/ Notify(events)
  \/ Unwatched(path) /\ UNCHANGED fsEvents

Idle ==
  /\ fsEvents = <<>> /\ scans = <<>> /\ producer = "started"
  /\ \A step \in Range(Steps) : ~HasBatch(step)
  /\ ~HasTimer(writes) /\ ~HasTimer(diff.waiting) /\ pending.batch = <<>>

UserActs(op) ==
  /\ op \in UserOps
  /\ producer = "stopped" \/ started \/ DuringScan
  /\ ops < IF producer = "stopped" THEN MaxOffline ELSE MaxOps
  /\ ops' = ops + 1
  /\ producer = "stopped" \/ Idle \/ burst < MaxBurst
  /\ burst' = IF Idle THEN 1 ELSE burst + 1
  /\ UNCHANGED <<watching, steps, pouch, started>>

FreeInodes ==
  {inodes + 1} \cup
  IF ReuseInodes THEN 1 .. inodes \ {disk[p].ino : p \in DOMAIN disk} ELSE {}

Free(path) == ~Exists(path) /\ (ReusePaths \/ path \notin used)

Create(path, kind, content) ==
  /\ Free(path) /\ IsDir(Parent(path))
  /\ \E ino \in FreeInodes :
       /\ disk' = (path :> [kind |-> kind, ino |-> ino, content |-> content]) @@ disk
       /\ inodes' = IF ino > inodes THEN ino ELSE inodes
  /\ contents' = IF content > contents THEN content ELSE contents
  /\ used' = used \cup DOMAIN disk'
  /\ NotifyIfWatched(path, <<Native("created", kind, path, Root)>>)

UserCreatesFile(path) ==
  /\ UserActs("file") /\ Last(path) \notin DirNames
  /\ Create(path, "file", contents + 1)

UserCreatesDir(path) ==
  /\ UserActs("dir") /\ Last(path) \in DirNames
  /\ Create(path, "directory", 0)

UserWrites(path) ==
  /\ UserActs("write") /\ Exists(path) /\ disk[path].kind = "file"
  /\ contents' = contents + 1
  /\ disk' = [disk EXCEPT ![path].content = contents + 1]
  /\ used' = used \cup DOMAIN disk'
  /\ NotifyIfWatched(path, <<Native("modified", "file", path, Root)>>)
  /\ UNCHANGED inodes

(* A tree is deleted from the bottom up                                     *)
UserDeletes(path) ==
  LET gone == Reverse(InOrder({path} \cup Below(disk, path)))
  IN /\ UserActs("delete") /\ Exists(path) /\ path \notin Kept
     /\ disk' = Restrict(disk, DOMAIN disk \ Range(gone))
     /\ NotifyIfWatched(path, [i \in DOMAIN gone |-> Native("deleted", disk[gone[i]].kind, gone[i], Root)])
     /\ UNCHANGED <<inodes, contents, used>>

(* src is renamed to dst with what is below it                              *)
Moved(tree, src, dst) ==
  LET stay == DOMAIN tree \ ({src} \cup Below(tree, src))
      arrive == {Rebase(p, src, dst) : p \in {src} \cup Below(tree, src)}
  IN [p \in stay \cup arrive |->
       IF p \in arrive THEN tree[Rebase(p, dst, src)] ELSE tree[p]]

(* Half of a move that starts or ends where nothing is watched is a creation *)
(* or a deletion                                                            *)
NotifyMove(kind, src, dst) ==
  \/ Notify(<<Native("renamed", kind, dst, src)>>)
  \/ Unwatched(src) /\ ~Unwatched(dst) /\ Notify(<<Native("created", kind, dst, Root)>>)
  \/ Unwatched(dst) /\ ~Unwatched(src) /\ Notify(<<Native("deleted", kind, src, Root)>>)
  \/ Unwatched(src) /\ Unwatched(dst) /\ UNCHANGED fsEvents

UserMoves(src, dst) ==
  /\ UserActs("move") /\ Exists(src) /\ src \notin Kept
  /\ Free(dst) /\ IsDir(Parent(dst))
  /\ ~IsPrefix(src, dst) /\ (Last(src) \in DirNames <=> Last(dst) \in DirNames)
  /\ disk' = Moved(disk, src, dst)
  /\ used' = used \cup DOMAIN disk'
  /\ NotifyMove(disk[src].kind, src, dst)
  /\ UNCHANGED <<inodes, contents>>

(* The file system delivers what it has; process() makes the paths relative *)
FsDelivers ==
  /\ fsEvents # <<>>
  /\ channel' = Push(channel, "addInfos", fsEvents)
  /\ fsEvents' = <<>>
  /\ UNCHANGED <<disk, inodes, contents, used, ops, burst, watching, partial, writes, diff,
                 incompletes, fixing, pending, pouch, started>>

----------------------------------------------------------------------------
(* The producer                                                             *)

NewScan(path) == [todo |-> <<path>>, left |-> <<>>, entries |-> <<>>, open |-> FALSE]

(* start(): the state of the steps is read from Pouch, the watch is set     *)
ProducerStarts ==
  /\ producer = "stopped"
  /\ producer' = "scanning"
  /\ scans' = <<NewScan(Root)>>
  /\ diff' = [diff EXCEPT !.byInode =
       LET docs == {p \in DOMAIN pouch : ~pouch[p].deleted}
       IN [i \in {pouch[p].ino : p \in docs} |->
            LET p == CHOOSE p \in docs : pouch[p].ino = i
            IN [path |-> p, kind |-> pouch[p].kind, md5 |-> pouch[p].md5,
                mtime |-> pouch[p].mtime, moveFrom |-> pouch[p].moveFrom]]]
  /\ UNCHANGED <<users, channel, partial, writes, incompletes, fixing, pending,
                 pouch, started>>

(* readdir: a directory that is no longer there has no entries              *)
ScanReads(i) ==
  LET s == scans[i]
      path == Head(s.todo)
      names == IF IsDir(path) THEN InOrder(Children(path)) ELSE <<>>
  IN /\ ~s.open /\ s.todo # <<>>
     /\ scans' = [scans EXCEPT ![i] =
          [todo |-> Tail(s.todo), left |-> names, entries |-> <<>>, open |-> TRUE]]
     /\ UNCHANGED <<users, producer, steps, pouch, started>>

ScanStats(i) ==
  LET s == scans[i]
      path == Head(s.left)
      e == [WithStats(Event("scan", path, Root), stat(path)) EXCEPT
              !.incomplete = ~Exists(path)]
  IN /\ s.open /\ s.left # <<>>
     /\ scans' = [scans EXCEPT ![i].left = Tail(@),
                               ![i].entries = @ \o filterIgnored(<<e>>)]
     /\ UNCHANGED <<users, producer, steps, pouch, started>>

(* The entries are pushed, then the directories among them are scanned      *)
ScanPushes(i) ==
  LET s == scans[i]
      dirs == SelectSeq(s.entries, LAMBDA e : e.kind = "directory")
      todo == [k \in DOMAIN dirs |-> dirs[k].path] \o s.todo
      initial == producer = "scanning" /\ i = 1
  IN /\ s.open /\ s.left = <<>>
     /\ channel' = Push(channel, "addInfos", s.entries)
     /\ scans' = IF todo = <<>> THEN RemoveAt(scans, i)
                 ELSE [scans EXCEPT ![i] = [NewScan(Root) EXCEPT !.todo = todo]]
     /\ producer' = IF initial /\ todo = <<>> THEN "scanned" ELSE producer
     /\ UNCHANGED <<users, partial, writes, diff, incompletes, fixing, pending,
                    pouch, started>>

(* After a delay that lets the file system deliver its events, longer than   *)
(* the one initialDiff waits for                                            *)
ProducerEndsScan ==
  /\ producer = "scanned" /\ fsEvents = <<>>
  /\ KeepUp => /\ \A step \in {"addInfos", "awaitWriteFinish", "initialDiff"} : ~HasBatch(step)
               /\ ~HasTimer(writes) /\ ~HasTimer(diff.waiting)
  /\ producer' = "started"
  /\ channel' = Push(channel, "addInfos", <<INITIAL_SCAN_DONE>>)
  /\ UNCHANGED <<users, scans, partial, writes, diff, incompletes, fixing,
                 pending, pouch, started>>

----------------------------------------------------------------------------
(* The steps that wait for something: one event, or the batch once it is    *)
(* done                                                                     *)

NextEvent(step) == channel[step][1][1]

(* channel after a step is done with its first event *)
Consumed(step) ==
  [channel EXCEPT ![step] = IF Len(@[1]) = 1 THEN Tail(@) ELSE [@ EXCEPT ![1] = Tail(@)]]

IsLast(step) == Len(channel[step][1]) = 1

(* The step made the events of its first one; at the end of the batch what  *)
(* it made of all of them goes to the next step                             *)
Makes(step, next, events, Sent(_)) ==
  LET out == partial[step] \o events
  IN IF IsLast(step)
     THEN /\ channel' = Push(Consumed(step), next, Sent(out))
          /\ partial' = [partial EXCEPT ![step] = <<>>]
     ELSE /\ channel' = Consumed(step)
          /\ partial' = [partial EXCEPT ![step] = out]

Infos(e) ==
  LET known == e.path \in DOMAIN pouch
      needsStats == e.action \in Writes \cup {"scan"} /\ e.ino = 0
      e1 == IF needsStats /\ Exists(e.path) THEN WithStats(e, stat(e.path)) ELSE e
      needsPouchRecord == e.action = "deleted" \/ e.kind = "unknown"
  IN IF e.action = "initial-scan-done" THEN e
     ELSE IF needsStats /\ ~Exists(e.path) THEN [e EXCEPT !.incomplete = TRUE]
     ELSE IF e1.ino # 0 THEN e1
     ELSE IF needsPouchRecord
     THEN [e EXCEPT !.kind = IF @ # "unknown" THEN @
                             ELSE IF known THEN pouch[e.path].kind ELSE "file",
                    !.deletedIno = IF known THEN pouch[e.path].ino ELSE 0]
     ELSE e

(* addInfos, then filterIgnored and scanFolder, which wait for nothing      *)
addInfos ==
  /\ HasBatch("addInfos")
  /\ Makes("addInfos", "awaitWriteFinish", <<Infos(NextEvent("addInfos"))>>, filterIgnored)
  /\ LET out == filterIgnored(Append(partial["addInfos"], Infos(NextEvent("addInfos"))))
         dirs == SelectSeq(out, LAMBDA e : /\ ~e.incomplete /\ e.action = "created"
                                           /\ e.kind = "directory")
     IN scans' = IF IsLast("addInfos")
                 THEN scans \o [k \in DOMAIN dirs |-> NewScan(dirs[k].path)]
                 ELSE scans
  /\ UNCHANGED <<users, producer, writes, diff, incompletes, fixing, pending, pouch,
                 started>>

addChecksum ==
  LET e == NextEvent("addChecksum")
      wants == /\ ~e.incomplete /\ e.kind = "file" /\ e.md5 = 0
               /\ e.action \in Writes \cup {"scan"}
      sum == checksum(e.path)
      e1 == IF ~wants THEN e ELSE [e EXCEPT !.md5 = sum, !.incomplete = sum = 0]
  IN /\ HasBatch("addChecksum")
     /\ Makes("addChecksum", "incompleteFixer", <<e1>>, LAMBDA b : b)
     /\ UNCHANGED <<users, watching, writes, diff, incompletes, fixing, pending,
                    pouch, started>>

----------------------------------------------------------------------------
(* awaitWriteFinish and initialDiff: the batches wait for a delay, from the *)
(* first one that has candidates on                                         *)

WaitingForNext(batch, nbCandidates) ==
  [batch |-> batch, timer |-> FALSE, nbCandidates |-> nbCandidates]

Waiting(batch, nbCandidates) ==
  [batch |-> batch, timer |-> TRUE, nbCandidates |-> nbCandidates]

awaitWriteFinish ==
  LET batch == aggregateBatch(Head(channel["awaitWriteFinish"]))
      s == debounceWrites(writes, batch)
      waiting == Append(s.waiting, Waiting(s.events, countFileWriteEvents(batch)))
      ready == ReadyBatches(waiting)
  IN /\ HasBatch("awaitWriteFinish")
     /\ writes' = SubSeq(waiting, ready + 1, Len(waiting))
     /\ channel' = PushAll([channel EXCEPT !["awaitWriteFinish"] = Tail(@)],
                           "initialDiff", BatchesOf(SubSeq(waiting, 1, ready)))
     /\ UNCHANGED <<users, watching, partial, diff, incompletes, fixing, pending,
                    pouch, started>>

(* The timers are set in the order of the queue: the first one armed fires, *)
(* and takes the batch at the head.                                         *)
TimerFires(waiting) ==
  LET k == SelectInSeq(waiting, LAMBDA w : w.timer)
      rest == Tail([waiting EXCEPT ![k].timer = FALSE])
      ready == ReadyBatches(rest)
  IN [sent |-> BatchesOf(SubSeq(waiting, 1, ready + 1)),
      rest |-> SubSeq(rest, ready + 1, Len(rest))]

WriteFinished ==
  LET fired == TimerFires(writes)
  IN /\ HasTimer(writes)
     /\ writes' = fired.rest
     /\ channel' = PushAll(channel, "initialDiff", fired.sent)
     /\ UNCHANGED <<users, watching, partial, diff, incompletes, fixing, pending,
                    pouch, started>>

initialDiff ==
  LET events == Head(channel["initialDiff"])
      taken == [channel EXCEPT !["initialDiff"] = Tail(@)]
      s == debounceScans(diff.waiting, events)
      start == [diff EXCEPT !.waiting = s.waiting] @@ [batch |-> <<>>, nbCandidates |-> 0]
      end == FoldLeft(DiffEvent, start, s.events)
      waiting == Append(end.waiting, Waiting(end.batch, end.nbCandidates))
      ready == ReadyBatches(waiting)
  IN /\ HasBatch("initialDiff")
     /\ IF diff.initialScanDone
        THEN channel' = Push(taken, "addChecksum", events) /\ UNCHANGED diff
        ELSE /\ channel' = PushAll(taken, "addChecksum",
                                   BatchesOf(SubSeq(waiting, 1, ready)))
             /\ diff' = [waiting |-> SubSeq(waiting, ready + 1, Len(waiting)),
                         renamedEvents |-> end.renamedEvents,
                         scannedPaths |-> end.scannedPaths, byInode |-> end.byInode,
                         initialScanDone |-> end.initialScanDone]
     /\ UNCHANGED <<users, watching, partial, writes, incompletes, fixing, pending,
                    pouch, started>>

DiffDelayEnds ==
  LET fired == TimerFires(diff.waiting)
  IN /\ HasTimer(diff.waiting)
     /\ diff' = [diff EXCEPT !.waiting = fired.rest]
     /\ channel' = PushAll(channel, "addChecksum", fired.sent)
     /\ UNCHANGED <<users, watching, partial, writes, incompletes, fixing, pending,
                    pouch, started>>
----------------------------------------------------------------------------
(* incompleteFixer: each event of a batch is compared with the incomplete   *)
(* ones kept, which may take a stat and a checksum of the path rebuilt      *)

CompletesByRename(e) == e.action = "renamed"

Completes(e) == e.action \in {"renamed", "deleted", "created"}

FixerTakesEvent ==
  LET e == NextEvent("incompleteFixer")
      new == SelectSeq(Head(channel["incompleteFixer"]),
                       LAMBDA f : f.incomplete /\ f.action # "ignored")
      all == IF fixing.pc = "none"
             THEN incompletes \o [k \in DOMAIN new |-> [event |-> new[k], expired |-> FALSE]]
             ELSE incompletes
      live == SelectSeq(all, LAMBDA item : ~item.expired)
      pc == IF IsLast("incompleteFixer") THEN "none" ELSE "event"
  IN /\ HasBatch("incompleteFixer") /\ fixing.pc \in {"none", "event"}
     /\ incompletes' = live
     /\ IF live = <<>> \/ ~Completes(e)
        THEN /\ Makes("incompleteFixer", "overwrite",
                      IF e.incomplete THEN <<>> ELSE <<e>>, LAMBDA b : b)
             /\ fixing' = [NoFix EXCEPT !.pc = pc]
        ELSE /\ fixing' = [NoFix EXCEPT !.pc = "item", !.i = 1]
             /\ UNCHANGED <<channel, partial>>
     /\ UNCHANGED <<users, watching, writes, diff, pending, pouch, started>>

KeepEvent(f, e) ==
  IF e.incomplete
  THEN [f EXCEPT !.kept = Append(@, [event |-> e, expired |-> FALSE])]
  ELSE [f EXCEPT !.out = Append(@, e)]

(* batch is a set: it holds the completing event once *)
KeepCompleting(f, e) ==
  IF ~e.incomplete /\ f.added THEN f ELSE [KeepEvent(f, e) EXCEPT !.added = TRUE]

(* The incomplete event is now r: what is kept of it and of the event e that *)
(* completes it; when r is incomplete in turn, the item after it is skipped  *)
Completed(item, e, r) ==
  LET saved == /\ item.event.path \in DOMAIN pouch
               /\ ~pouch[item.event.path].deleted
      f == [fixing EXCEPT !.pc = "item", !.i = @ + 1]
  IN /\ fixing' = IF saved /\ item.event.action \in {"created", "scan"}
                  THEN KeepCompleting(f, e)
                  ELSE IF \/ saved /\ item.event.action = "modified"
                          \/ IsStrictPrefix(e.path, r.path)
                  THEN KeepEvent(KeepCompleting(f, e), r)
                  ELSE KeepEvent(f, r)
     /\ incompletes' = IF r.incomplete THEN RemoveAt(incompletes, fixing.i)
                       ELSE incompletes

(* Nothing is rebuilt: the item stays                                       *)
NotCompleted(item, e, matched) ==
  LET f == [fixing EXCEPT !.i = @ + 1, !.kept = Append(@, item)]
  IN /\ fixing' = IF matched \/ e.incomplete THEN f ELSE KeepCompleting(f, e)
     /\ UNCHANGED incompletes

FixerTriesItem ==
  LET item == incompletes[fixing.i]
      e == NextEvent("incompleteFixer")
      paths == completeEventPaths(item.event, e)
      stats == stat(paths.path)
  IN /\ fixing.pc = "item" /\ fixing.i <= Len(incompletes)
     /\ CASE wasRenamedSuccessively(item.event, e) ->
               IF paths.path = paths.oldPath THEN NotCompleted(item, e, TRUE)
               ELSE IF stats.kind = "file"
               THEN fixing' = [fixing EXCEPT !.pc = "checksum", !.stats = stats]
                    /\ UNCHANGED incompletes
               ELSE Completed(item, e, rebuilt(item.event, paths, stats, 0))
          [] /\ ~wasRenamedSuccessively(item.event, e)
             /\ itemDestinationWasDeleted(item.event, e) ->
               Completed(item, e, buildDeletedFromRenamed(item.event))
          [] /\ ~wasRenamedSuccessively(item.event, e)
             /\ renamedItemWasReplaced(item.event, e) ->
               Completed(item, e, buildModifiedFromRenamed(e))
          [] OTHER -> NotCompleted(item, e, FALSE)
     /\ UNCHANGED <<users, watching, channel, partial, writes, diff, pending, pouch,
                    started>>

(* When the checksum fails the item is dropped, and the event e kept only if *)
(* another item keeps it                                                    *)
FixerSums ==
  LET item == incompletes[fixing.i]
      e == NextEvent("incompleteFixer")
      paths == completeEventPaths(item.event, e)
      md5 == checksum(paths.path)
  IN /\ fixing.pc = "checksum"
     /\ IF md5 = 0
        THEN fixing' = [fixing EXCEPT !.pc = "item", !.i = @ + 1] /\ UNCHANGED incompletes
        ELSE Completed(item, e, rebuilt(item.event, paths, fixing.stats, md5))
     /\ UNCHANGED <<users, watching, channel, partial, writes, diff, pending, pouch,
                    started>>

FixerEndsEvent ==
  /\ fixing.pc = "item" /\ fixing.i > Len(incompletes)
  /\ incompletes' = fixing.kept
  /\ Makes("incompleteFixer", "overwrite", fixing.out, LAMBDA b : b)
  /\ fixing' = [NoFix EXCEPT !.pc = IF IsLast("incompleteFixer") THEN "none" ELSE "event"]
  /\ UNCHANGED <<users, watching, writes, diff, pending, pouch, started>>

----------------------------------------------------------------------------
(* overwrite                                                                *)

NoPending == [batch |-> <<>>, deleted |-> <<>>]

overwrite ==
  LET s == overwriteStep(pending.batch, pending.deleted, Head(channel["overwrite"]))
  IN /\ HasBatch("overwrite")
     /\ channel' = Push([channel EXCEPT !["overwrite"] = Tail(@)], "dispatch", s.pending)
     /\ pending' = [batch |-> s.batch, deleted |-> s.deleted]
     /\ UNCHANGED <<users, watching, partial, writes, diff, incompletes, fixing,
                    pouch, started>>

OverwriteDelayKeepsPending ==
  /\ pending.batch # <<>>
  /\ channel' = Push(channel, "dispatch", pending.batch)
  /\ UNCHANGED <<users, watching, partial, writes, diff, incompletes, fixing,
                 pending, pouch, started>>

OverwriteDelayEnds ==
  /\ pending.batch # <<>>
  /\ channel' = Push(channel, "dispatch", pending.batch)
  /\ pending' = NoPending
  /\ UNCHANGED <<users, watching, partial, writes, diff, incompletes, fixing,
                 pouch, started>>

----------------------------------------------------------------------------
(* dispatch, and what Merge makes of the records when the Cozy has no change *)
(* of them that is not synced yet                                           *)

Record(e) ==
  [kind |-> e.kind, ino |-> e.ino, md5 |-> e.md5, mtime |-> e.mtime,
   deleted |-> FALSE, moveFrom |-> Root, movedFrom |-> Root]

Known(path) == path \in DOMAIN pouch

Save(path, doc) == pouch' = (path :> doc) @@ pouch /\ UNCHANGED <<disk, fsEvents>>

Ignore == UNCHANGED <<pouch, disk, fsEvents>>

ConflictPath(path) == Append(Front(path), Last(path) + 10)

(* What is on the disk is renamed; nothing is saved                         *)
ResolveConflict(path) ==
  /\ UNCHANGED pouch
  /\ IF ~Exists(path) THEN UNCHANGED <<disk, fsEvents>>
     ELSE /\ disk' = Moved(disk, path, ConflictPath(path))
          /\ Notify(<<Native("renamed", disk[path].kind, ConflictPath(path), path)>>)

SameLocal(doc, e) == doc.md5 = e.md5 /\ doc.mtime = e.mtime /\ doc.ino = e.ino

updateFile(e) ==
  IF ~Known(e.path) THEN Save(e.path, Record(e))
  ELSE IF pouch[e.path].kind = "directory" THEN Ignore
  ELSE IF \/ SameLocal(pouch[e.path], e)
          \/ pouch[e.path].md5 # e.md5 /\ pouch[e.path].mtime = e.mtime
  THEN Ignore
  ELSE Save(e.path, Record(e))

addFile(e) ==
  IF Known(e.path) /\ ~pouch[e.path].deleted /\ pouch[e.path].kind = "directory"
  THEN ResolveConflict(e.path)
  ELSE updateFile(e)

putFolder(e) ==
  IF Known(e.path) /\ pouch[e.path].kind = "file" THEN ResolveConflict(e.path)
  ELSE Save(e.path, Record(e))

moveFile(e) ==
  LET was == pouch[e.oldPath]
      doc == [Record(e) EXCEPT !.movedFrom = IF was.deleted THEN Root ELSE e.oldPath]
      rest == Restrict(pouch, DOMAIN pouch \ {e.oldPath, e.path})
  IN IF e.oldPath = e.path THEN updateFile(e)
     ELSE pouch' = (e.path :> doc) @@ rest /\ UNCHANGED <<disk, fsEvents>>

(* The children marked for deletion stay, the others move with their parent *)
moveFolder(e) ==
  LET was == pouch[e.oldPath]
      doc == [Record(e) EXCEPT !.movedFrom = e.oldPath, !.deleted = was.deleted]
      leave == {p \in Below(pouch, e.oldPath) : ~pouch[p].deleted}
      stay == DOMAIN pouch \ (leave \cup {e.oldPath})
      arrive == {Rebase(p, e.oldPath, e.path) : p \in leave}
      src(p) == Rebase(p, e.path, e.oldPath)
  IN IF e.oldPath = e.path THEN putFolder(e)
     ELSE /\ pouch' = (e.path :> doc) @@
                      [p \in stay \cup arrive |->
                        IF p \in arrive THEN [pouch[src(p)] EXCEPT !.movedFrom = src(p)]
                        ELSE pouch[p]]
          /\ UNCHANGED <<disk, fsEvents>>

trashFile(path) == Save(path, [pouch[path] EXCEPT !.deleted = TRUE])

(* The folders below are marked with it, the files are left to their events *)
trashFolder(path) ==
  LET trashed == {path} \cup {p \in Below(pouch, path) : pouch[p].kind = "directory"}
  IN /\ pouch' = [p \in DOMAIN pouch |->
                   IF p \in trashed THEN [pouch[p] EXCEPT !.deleted = TRUE] ELSE pouch[p]]
     /\ UNCHANGED <<disk, fsEvents>>

docWasAlreadyMoved(src, dst) == Known(dst) /\ pouch[dst].movedFrom = src

created(e) == IF e.kind = "file" THEN addFile(e) ELSE putFolder(e)

renamed(e) ==
  IF Known(e.oldPath)
  THEN IF pouch[e.oldPath].ino # e.ino THEN Ignore
       ELSE IF e.kind = "file" THEN moveFile(e) ELSE moveFolder(e)
  ELSE IF docWasAlreadyMoved(e.oldPath, e.path) THEN Ignore
  ELSE created(e)

deleted(e) ==
  IF ~Known(e.path) \/ pouch[e.path].deleted \/ pouch[e.path].kind # e.kind THEN Ignore
  ELSE IF e.kind = "file" THEN trashFile(e.path) ELSE trashFolder(e.path)

(* The event that initialDiff still holds loses its old path when it turns  *)
(* out to be a creation                                                     *)
Forgets(e) ==
  LET added == /\ e.action = "renamed" /\ ~Known(e.oldPath)
               /\ ~docWasAlreadyMoved(e.oldPath, e.path)
  IN diff' = [diff EXCEPT !.renamedEvents =
       [k \in DOMAIN @ |-> IF added /\ @[k].path = e.path /\ @[k].oldPath = e.oldPath
                           THEN [@[k] EXCEPT !.oldPath = Root] ELSE @[k]]]

dispatch ==
  LET e == NextEvent("dispatch")
  IN /\ HasBatch("dispatch")
     /\ channel' = Consumed("dispatch")
     /\ CASE e.action = "initial-scan-done" \/ e.action = "ignored" -> Ignore
          [] e.action \in {"created", "scan"} -> created(e)
          [] e.action = "modified" -> IF e.kind = "file" THEN updateFile(e) ELSE putFolder(e)
          [] e.action = "renamed" -> renamed(e)
          [] e.action = "deleted" -> deleted(e)
     /\ started' = (started \/ e.action = "initial-scan-done")
     /\ Forgets(e)
     /\ UNCHANGED <<inodes, contents, used, ops, burst, watching, partial, writes, incompletes,
                    fixing, pending>>

(* Once the Cozy has trashed what is marked for deletion, and what is below  *)
(* it, Sync and the remote watcher erase their records.                     *)
SyncErases ==
  LET marked == {p \in DOMAIN pouch : pouch[p].deleted}
      gone == marked \cup UNION {Below(pouch, p) : p \in marked}
  IN /\ gone # {}
     /\ pouch' = Restrict(pouch, DOMAIN pouch \ gone)
     /\ UNCHANGED <<users, watching, steps, started>>

----------------------------------------------------------------------------

(* The delay after which an incomplete event is dropped is longer than what *)
(* the steps need for the events they have                                  *)
IncompletesExpire ==
  /\ Idle /\ \E i \in DOMAIN incompletes : ~incompletes[i].expired
  /\ incompletes' = [i \in DOMAIN incompletes |-> [incompletes[i] EXCEPT !.expired = TRUE]]
  /\ UNCHANGED <<users, watching, channel, partial, writes, diff, fixing, pending,
                 pouch, started>>

Init ==
  /\ disk \in Disks
  /\ inodes = Max({0} \cup {disk[p].ino : p \in DOMAIN disk})
  /\ contents = Max({0} \cup {disk[p].content : p \in DOMAIN disk})
  /\ fsEvents = <<>> /\ producer = "stopped" /\ scans = <<>>
  /\ channel = [step \in Range(Steps) |-> <<>>]
  /\ partial = [step \in Range(Steps) |-> <<>>]
  /\ writes = <<>> /\ incompletes = <<>> /\ fixing = NoFix /\ pending = NoPending
  /\ diff = [waiting |-> <<>>, renamedEvents |-> <<>>, scannedPaths |-> {},
             byInode |-> <<>>, initialScanDone |-> FALSE]
  /\ pouch = [p \in {q \in DOMAIN disk : ~isIgnored(q)} |->
       [kind |-> disk[p].kind, ino |-> disk[p].ino, md5 |-> disk[p].content,
        mtime |-> disk[p].content, deleted |-> FALSE, moveFrom |-> Root,
        movedFrom |-> Root]]
  /\ used = DOMAIN disk /\ started = FALSE /\ ops = 0 /\ burst = 0

UserNext ==
  \/ \E path \in Paths :
       \/ UserCreatesFile(path) \/ UserCreatesDir(path)
       \/ UserWrites(path) \/ UserDeletes(path)
  \/ \E src \in Paths, dst \in Paths : UserMoves(src, dst)

ScanNext == \E i \in DOMAIN scans : ScanReads(i) \/ ScanStats(i) \/ ScanPushes(i)

StepNext ==
  \/ addInfos \/ awaitWriteFinish \/ WriteFinished \/ initialDiff \/ DiffDelayEnds
  \/ addChecksum \/ FixerTakesEvent \/ FixerTriesItem \/ FixerSums \/ FixerEndsEvent
  \/ overwrite \/ OverwriteDelayEnds \/ dispatch

ProducerNext == ProducerStarts \/ FsDelivers \/ ScanNext \/ ProducerEndsScan

Next == UserNext \/ ProducerNext \/ StepNext \/ IncompletesExpire \/ SyncErases

Spec == Init /\ [][Next]_vars

(* ENABLED StepNext, written out for TLC *)
CanStep ==
  \/ \E step \in Range(Steps) : HasBatch(step)
  \/ HasTimer(writes) \/ HasTimer(diff.waiting) \/ pending.batch # <<>>

(* The scans end, the delays pass and the promises of the steps settle: a step *)
(* that can go on does so at some time.                                       *)
FairSpec ==
  /\ Spec /\ WF_vars(ProducerNext)
  /\ ([]<>~CanStep \/ []<><<StepNext>>_vars)

----------------------------------------------------------------------------

Live(path) ==
  /\ Known(path) /\ ~pouch[path].deleted
  /\ \A p \in DOMAIN pouch : IsStrictPrefix(p, path) => ~pouch[p].deleted

(* Once every step is done with what it has, the live records of Pouch are   *)
(* what is on the disk, path by path, with the same kind, inode and content: *)
(* no change was lost, invented or applied in the wrong order by the         *)
(* aggregation of events, the waiting queues, the completion of incomplete   *)
(* events, the overwrite step and the dispatch (local/atom/*.js).           *)
Mirrored ==
  (Idle /\ started) =>
    /\ \A p \in DOMAIN disk : Live(p) \/ isIgnored(p)
    /\ \A p \in DOMAIN pouch : Live(p) =>
         /\ Exists(p)
         /\ pouch[p].kind = disk[p].kind /\ pouch[p].ino = disk[p].ino
         /\ pouch[p].md5 = disk[p].content

(* The initial scan marks the record of a document for deletion only when    *)
(* the document is gone from the disk: one that was moved while the client   *)
(* was stopped, alone or with its parent, is not trashed on the Cozy         *)
(* (initial_diff.js, "do a diff between what was in pouchdb and the events   *)
(* from the local watcher to find what was deleted").                       *)
TrashesOnlyWhatIsGone ==
  [][\A p \in DOMAIN pouch :
       (~started /\ p \in DOMAIN pouch' /\ ~pouch[p].deleted /\ pouch'[p].deleted)
         => \A q \in DOMAIN disk : \/ isIgnored(q) \/ disk[q].kind # pouch[p].kind
                                   \/ disk[q].ino # pouch[p].ino]_vars

(* start() ends: its promise waits for initial-scan-done to be dispatched,   *)
(* behind the batches that initialDiff keeps waiting (watcher.js, start).   *)
StartEnds == producer # "stopped" ~> started

(* The watcher comes to rest: neither the renamings by which Merge resolves  *)
(* a conflict nor the delays of the steps feed it for ever.                 *)
Settles == <>[](producer = "stopped" \/ ~CanStep)
=============================================================================
