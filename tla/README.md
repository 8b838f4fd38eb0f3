# Formal model of Cozy Desktop

TLA+ modules for the synchronization core of this repository (`src/core`), TLC
configurations that check them on small instances, and TLAPS proofs about them.
Paths and line numbers are those of the repository, under `src/`.

Contents: [the system](#the-system), [the modules](#the-modules), [the
runs](#the-runs), [disagreements found](#disagreements-found), [other behaviours
met](#other-behaviours-met), [the
proofs](#the-proofs), [what is not modelled](#what-is-not-modelled), [the
plan](#the-plan).

## The system

Cozy Desktop keeps a local directory and a remote Cozy in sync. One Node process
runs all of `core/`; everything is asynchronous callbacks and promises on one
thread, so that what interleaves is what happens between two `await`s.

    disk --> local watcher --> Prep --> Merge --> Pouch <-- Merge <-- Prep <-- remote watcher <-- Cozy
                                                    |
                              local writer <-- Sync <-- changes feed
                              remote writer <---'

| Component | State it keeps | Operations |
|---|---|---|
| Pouch (`core/pouch/index.js`) | one record per file or folder with its revisions; the sequences `localSeq` and `remoteSeq`; the lock `_lock`, `nextLockId` | `lock`, `put`, `bulkDocs`, `eraseDocument`, `getPreviousRev`, `getLocalSeq`/`setLocalSeq`, `getRemoteSeq`/`setRemoteSeq`, views by path, parent, local path and remote id |
| Sync (`core/sync/index.js`) | `lifecycle`, `changes`, `retryInterval` | `start`, `stop`, `sync`, `syncBatch`, `apply`, `applyDoc`, `updateRevs`, `updateErrors`, `blockSyncFor` with its closures `retry` and `skip`, `fatal` |
| Life cycle (`core/utils/lifecycle.js`) | `currentState`, `blockedFor` | `begin`, `end`, `transitionedTo`, `blockFor`, `unblockFor`, `ready` |
| Merge (`core/merge.js`) | none of its own | `addFileAsync`, `updateFileAsync`, `moveFileAsync`, `putFolderAsync`, `moveFolderAsync`, `trashFileAsync`, `trashFolderAsync`, `resolveConflictAsync` |
| Metadata (`core/metadata.js`) | the shape of a record: `sides`, `local`, `remote`, `deleted`, `trashed`, `errors`... | `markSide`, `markAsUpToDate`, `dissociateLocal`/`Remote`, `isUpToDate`, `outOfDateSide`, comparisons, invariants |
| Prep (`core/prep.js`) | none | forwards valid changes to Merge |
| Remote watcher (`core/remote/watcher`, `core/remote/change.js`) | `running`, `watchTimeout` | `start`, `stop`, `resetTimeout`, `watch`, `analyse`, `identifyAll`, `identifyChange`, `applyAll`, `apply`, squashing and sorting |
| Remote writer (`core/remote/index.js`) and client (`cozy.js`) | none; the Cozy is a service | `addFileAsync`, `overwriteFileAsync`, `trashAsync`, `moveAsync`, `resolveRemoteConflict`, `ping` |
| Local watcher, atom (`core/local/atom`) | channels; `waiting` lists of the buffering steps; `state` of `win_detect_move`, `initial_diff`... | a chain of loops: producer, addInfos, filterIgnored, winDetectMove, scanFolder, awaitWriteFinish, initialDiff, addChecksum, incompleteFixer, overwrite, dispatch |
| Local watcher, chokidar (`core/local/chokidar`) | `LocalEventBuffer`, `pendingChanges` | buffering of events, analysis of inodes, sending to Prep |
| Local writer (`core/local/index.js`) | temporary files | `addFile`, `overwriteFileAsync`, `updateFileMetadataAsync`, `moveAsync`, `trashAsync`... |
| Checksumer, stater, ignore rules, incompatibilities | a queue of checksums | functions of a path |
| Sync state (`core/syncstate.js`) | what the GUI shows | computed from events |
| Configuration, registration, warning poller, migrations | files and timers of their own | |
| GUI (`gui/`) | windows | asks Sync to stop, retry or skip |

How they interact:

- *shared state*: the watchers, Merge and Sync share the Pouch record of a path.
  They take turns by the Pouch lock; `updateErrors` of a retry does not take it;
- *calls*: a watcher calls Prep, which calls Merge; Sync calls the writers, and
  starts and stops the watchers;
- *events*: `RemoteWatcher:error` and `RemoteWatcher:fatal` reach the listeners of
  Sync, user actions reach the closures of `blockSyncFor`, and `ready`,
  `will-stop`... are events of the life cycle;
- *feeds*: Sync follows the changes of Pouch after `localSeq`, the remote watcher
  those of the Cozy after `remoteSeq`;
- *echoes*: what a writer does on a side comes back by the watcher of that side.

What is hard to get right, and to test:

- *interleavings*: closures of retries with `stop()`, two loops after a restart,
  a merge with a retry, users who write at any moment;
- *failures*: an unreachable Cozy, an upload of a file that is gone, an apply that
  always fails, a crash between any two steps;
- *stale state*: a record read before an error and saved after it, the event of a
  file that Sync has replaced since, an event emitted before one awaits it;
- *ordering*: sequences saved before or after what they stand for; changes fetched at
  once, squashed and sorted by comparisons that are not an order; events of the file
  system that come in any order, and twice;
- *moves*: a folder takes along what is in it, on either side, while the other side
  changes it; an inode, a path or a remote id then stands for another record;
- *arithmetic on revisions*: `getPreviousRev` counts revisions by the distance
  between `target` and the number of a side.

`PROJECT.json` lists each hazard at its line with the properties about it.

### What makes each component correct

- *Pouch lock*: one holder at a time, granted in the order of the calls, each of
  them eventually served.
- *Sync*: errors block it and are lifted; no wake-up is lost; one interval at
  most; the life cycle stays legal; changes are applied one at a time, under the
  lock, and all of them in the end; `stop()` ends, and nothing is done after it.
- *Record*: the sides tell who knows what; what Sync compares with is the revision
  the other side knows; a merge does not save an invalid record.
- *Local watchers*: once they are at rest the records are those of the disk, with their
  identity; nothing is marked for deletion that is still there; `start()` ends.
- *Remote watcher*: once the feed is merged the records are those of the Cozy, whatever
  order the changes were fetched in; no two records stand for the same document.
- *The whole*: no content a user saved is lost, nothing is trashed that the other side
  still has, both sides end equal, and the client comes to rest.

## The modules

| Module | Lines modelled | Depends on |
|---|---|---|
| `FifoMutex` | abstract specification: a lock granted in the order of the requests | |
| `PouchLock` | `lock()` of `core/pouch/index.js` | `FifoMutex` (refined) |
| `PouchLockProofs`, `PouchLockFifoProofs` | proofs about `PouchLock`; that it implements `FifoMutex` | `PouchLock` |
| `SyncLoop` | `core/sync/index.js` (start, stop, loop, blocking), `core/utils/lifecycle.js`, the watch of `core/remote/watcher/index.js` | |
| `SyncLoopProofs` | proofs about `SyncLoop` | `SyncLoop` |
| `Metadata` | the arithmetic of sides in `core/metadata.js` | |
| `FileMerge` | `core/merge.js` for one file, comparisons and invariants of `core/metadata.js` | `Metadata` |
| `FileSync` | the path of a file from disk to Cozy and back: `dispatch.js`, the remote watcher, Pouch, `apply` and `applyDoc` of Sync, both writers | `FileMerge` |
| `FileSyncProofs` | proofs about `FileMerge` and `FileSync`: the shape of records | `FileSync` |
| `FileHistoryProofs` | proofs about `FileSync`: contents and revisions | `FileSyncProofs` |
| `FileSafetyProofs` | proofs about `FileSync`: no content is lost | `FileHistoryProofs` |
| `FileConvergenceProofs` | proofs about `FileSync`: both sides end up the same | `FileSafetyProofs` |
| `AtomSteps` | what each step of `core/local/atom` does with an event or a batch, as operators | |
| `AtomWatcher` | the chain of these steps on Linux, with their channels and timers, from inotify and the scan to Pouch | `AtomSteps` |
| `Records` | records of a tree: `core/metadata.js`, `core/move.js`, and Pouch as an operator on a world | `Metadata` |
| `Writers` | the disk, the Cozy, and what both writers do of them | `Records` |
| `TreeMerge` | `core/merge.js` and `core/prep.js` for files and folders | `Writers` |
| `Arrays` | searches and `Array.prototype.sort` | |
| `RemoteChanges` | identification, squashing, sorting and application of remote changes | `TreeMerge`, `Arrays` |
| `TreeSync` | users of both sides, dispatch, watches of the feed, Sync: the composition | `RemoteChanges` |
| `ChokidarChanges` | `analysis.js`, `local_change.js` and `send_to_prep.js` of `core/local/chokidar` | `TreeMerge`, `Arrays` |
| `ChokidarWatcher` | chokidar, the event buffer, flushes, start, stop and crashes of the watcher of macOS | `ChokidarChanges` |
| `MCSyncLoop`, `MCFileSync`, `MCAtomWatcher`, `MCTreeSync`, `MCChokidarWatcher` | instances for TLC | |

`FileSync` has one file at the grain of input and output, with crashes and faults.
`TreeSync` has a tree, with moves, at the grain of the Pouch lock. `AtomWatcher` and
`ChokidarWatcher` are what precedes the merge of local events, in the one with a plain
record per path, in the other with `TreeMerge` itself.

`PROJECT.json` maps each definition to the lines it translates.

### PouchLock

`_lock` is an object `{id, promise}`. A request reads it, replaces it with its own
id and the promise that the previous one is released (`pCurrent.then(() =>
pReleased)`), and awaits the previous promise. The model keeps, per request, the
request it awaits (`awaited`), whether it was released (`released`), and whether its
promise has settled (`settled`): a promise settles in a microtask of its own, after
the release, which is where a request could overtake. `MaxRequests` bounds the
number of requests. Three clients are the three components that take the lock.

### SyncLoop

A step goes from one `await` on input/output to the next; promises that have already
settled run first (`Microtasks`), since Node runs them before any other event. State
and code:

| Variable | Code |
|---|---|
| `currentState`, `blockedFor` | `lifecycle.currentState`, `lifecycle.blockedFor` |
| `stopping` | a `stop()` that awaits `lifecycle.started()` |
| `pc[s]` | where the call `s` to `start()` and the loop it goes on with are |
| `queue` | requests of the Pouch lock, a FIFO mutex by `PouchLock` |
| `running` | `remote.watcher.running` |
| `causes`, `armed`, `retryInterval`, `listening` | closures of `blockSyncFor`, set intervals, `this.retryInterval`, closures that listen to user actions |
| `run[h]` | closures that are running |
| `open`, `leaked`, `news`, `changes` | live feeds of `waitForNewChanges`, those that nobody cancels any more, those with a change to deliver, `this.changes` |
| `todo` | number of changes after `localSeq` |

What a change says is abstracted: applying it succeeds and advances the sequence
(`Applied`), leaves the sequence where it is (`Postponed`: a file trashed with its
parent, a conflict resolved remotely, a folder to create first), blocks Sync
(`ApplyBlocks`) or is fatal (`ApplyFatal`). Listeners added by each `start()` are never
removed, which the model counts (`listeners`): one error then calls `blockSyncFor` as many
times.

### Metadata, FileMerge, FileSync

One path and one file. A content is a number; users write a new one, or one that
was written before. A file of the disk has a content, a date and an inode; a file of the
Cozy is an id with a revision, a content and a place (live, in the trash, or moved to a
conflict path). The record `doc` has the sides, the checksum, the inode that had it, what
each side has (`local`, `remote`), and the marks `deleted`, `trashed` and `errors`;
`history` is its revision list.

- The local watcher reads the file some time after its events (`Notice`), merges what
  it found, in order and under the lock (`DispatchLocal`, `MergeLocal`), and drops an
  event that it cannot merge, as `dispatch.js` does.
- The remote watcher fetches all the changes after its sequence (`Fetch`), merges them
  with the lock, the trashings first (`ReadRemote`, `MergeRemote`), tries again those
  that failed (`ApplyAllAgain`), and saves the sequence when all were merged (`EndWatch`).
- A merge reads the record, then saves; the conflict it may make is renamed on the
  disk or on the Cozy before that.
- Sync picks the last revision of the record, compares it with the one the other side
  knows, and asks the writer of that side for what `applyDoc` decides (`Task`); then it
  saves `localSeq` (`SaveSeq`), then the record (`SaveDoc`). A crash may come between any
  two of these.
- An apply may fail for what the code checks (checksum, `If-Match`, name taken, file
  gone), or by a fault, before its effect or after it: the Cozy may have done what it was
  asked while its answer is lost (`LosesAnswer`), and the change is then tried again with a
  record that does not know the new revision. A failure after the rename of a downloaded
  file, of Pouch or of `setLocalSeq` has the effects of a crash there, and is only covered by
  `Crash`. The change then blocks Sync until `Retry`, is given up after `MAX_SYNC_ATTEMPTS`,
  or is resolved by renaming the remote file.

Simplifications, all of them of the data: the local file system shows one event per path
at most before it is read (the later steps aggregate them); the date of a file says which
of its writings was the last; an event is ignored when nothing changed, or when only the
content did and not its date (`Overlooked`); a user writes a file in place or
replaces it, and a new inode is one that no file had before. Three races are left out, each of
which makes a file a moved one: a retry, or a crash, between the rename of a conflict and
the save that follows, and what happens to a conflict copy after it was made.

### AtomSteps, AtomWatcher

A path is the sequence of its names, an inode a number, a content the number of the
change that wrote it, which stands for its checksum and for its date. Each step of the
chain `addInfos`, `filterIgnored`, `awaitWriteFinish`, `initialDiff`, `addChecksum`,
`incompleteFixer`, `overwrite`, `dispatch` has its channel of batches; a step that awaits the
disk or Pouch for each event takes one event at a time and keeps in `partial` what it has
made of the batch so far. The steps that wait have their state:

| Variable | Code |
|---|---|
| `channel`, `partial` | the buffers of `channel.js`; the batch that a loop is in the middle of |
| `writes` | `waiting` of `await_write_finish.js`: batches with candidates and a timer |
| `diff` | `byInode`, `waiting`, `renamedEvents`, `scannedPaths`, `initialScanDone` of `initial_diff.js` |
| `incompletes`, `fixing` | the events kept by `incomplete_fixer.js`, and the one being compared with them |
| `pending` | the batch and the deletions kept by `overwrite.js` |
| `producer`, `scans` | the recursive scan of `producer.js`: what is left to read, what was listed |
| `started` | the emission of `initial-scan-done`, which `start()` awaits |

The file system is external: it delivers the events of a directory that is watched, in
order, after a while, and scans list a directory at one moment and stat its entries later.
Timers fire at any time after they are set, except that the delay of the end of a scan is
long enough when `KeepUp` holds. The constants `ReusePaths`, `DuringScan`, `KeepUp` and
`MaxBurst` name what users and the system are assumed to do; without these restrictions
`Mirrored` does not hold of the code, as told in [other behaviours met](#other-behaviours-met).

### Records, Writers, TreeMerge

A *world* is a record with the disk, the Cozy, the records of Pouch and what is being
done: every operation of Pouch, of the writers and of Merge is an operator from a world to
the one it leaves, with `ok` and `code` for an exception, so that a handler is the
composition of the calls it makes and a failure leaves what was done until then. `AndThen`
and `Unless` are the sequence of calls and the early exits.

- `Records`: `put` with `metadata.invariants` and the revision it is made from, `bulkDocs`,
  `eraseDocument`, `getPreviousRev`, the views, `markSide`, the dissociations, `move`, what
  records are built from. Records keep their revisions in `revs`; `pending` says that the
  feed has the record for Sync.
- `Writers`: the Cozy as folders and files with ids and revisions, its trash, name
  conflicts, and the feed; the disk with inodes, its events and the trash of the system;
  then each operation of `core/remote/index.js` and of `core/local/index.js`, but the
  references to albums that a file moved over another one takes from it
  (`core/remote/index.js:325-341`), and their failure. The stack gives new revisions to what is in a moved folder, to files only on trashing and restoring.
- `TreeMerge`: additions, updates, moves of files and of folders with their descendants,
  overwritten destinations, conflicts, trashing, deletions, and what Prep does before.

### RemoteChanges, TreeSync

`RemoteChanges` translates `identifyChange`, `squashMoves.js`, the sort of
`core/remote/change.js` and `applyAll` with its retries. The order of a sort by comparisons
that are not an order depends on the algorithm: `NodeSort` is the one of Node for short
arrays.

`TreeSync` has three kinds of steps, as fine as the lock of Pouch: `Dispatch` merges the
first local event, `Poll` fetches and merges what the feed has, `Sync` applies the first
pending record with its outcome (the writer, then the record and the sequence, or the
errors of `apply`: a block that ends once the feed was watched, or the abandon after
`MAX_SYNC_ATTEMPTS`). Users act between any two of them. What is retried starts from the
record as it was saved.

| Constant | What it assumes or bounds |
|---|---|
| `MergedFirst` | the sides whose changes are merged before Sync goes on |
| `SyncIsQuick` | Sync has applied all between two watches of the feed |
| `Alone` | the changes that users make when all is quiet, and until it is again |
| `NamesOf`, `NamesAreReused` | the names users give |
| `ChildrenFirst` | the order of a moved folder and of its folders in the feed |
| `MaxOps`, `MaxRetries`, `MAX_SYNC_ATTEMPTS` | bounds |

A folder trashed with its parent (`trashWithParentOrByItself`) is in the model, but Merge
does not set `trashed` any more unless a save of the record failed or the side that trashes
does not know the record; none of these happens at the bounds of the runs.

### ChokidarChanges, ChokidarWatcher

chokidar compares what it has told (`seen`) with the disk, and tells folders before files,
the end of a path and the start of another in any order, as `awaitWriteFinish` and
`atomic` make it. Events go to the buffer (`LocalEventBuffer`), whose timeout flushes them;
a flush prepares its events in any order, without the lock (`PrepareEvent`; the code has 50 of
them at once, and what it reads for one of them is read in one step), analyses them
(`Analyse`), then sends the changes under the lock (`SendNext`). Between two of these, users
act, chokidar tells more, the client stops or crashes. When neither users nor Sync can change
anything any more (`NothingChanges`) the order of the preparations makes no difference, and
only the first one is kept. The await of `normalizePaths.step` (`watcher.js:221`), the
incompatible names of the scan (`initial_scan.js:53`) and a sync directory that
`ensureExistsSync` does not find (`watcher.js:206`) are left out; the addition of a file over
another one keeps a placeholder for what it overwrites, where the code has `true` (see
[other behaviours met](#other-behaviours-met)).

| Variable | Code |
|---|---|
| `buffer`, `mode` | `LocalEventBuffer.events`, `mode` |
| `flushes`, `sends` | the calls to `onFlush` under way, before and after the analysis |
| `pendingChanges` | `watcher.pendingChanges`, the changes with `wip` |
| `scan` | `watcher.initialScan` with its paths and `emptyDirRetryCount` |
| `started`, `failure` | how the promise of `start()` was settled; the error that ended the watcher |

`ChokidarChanges` is `analyseEvents` with its map of changes by inode and by path, the
constructors of `local_change.js`, the squashing of moves and the sort. A panic
(`throw` of the analysis, or what Prep refuses) ends the watcher, as `fatal` does. Sync is
reduced to `SyncApplies`, which marks the records as up to date and erases the deleted
ones: it is what the next analyses see.

| Constant | What it assumes |
|---|---|
| `FlushesWhenQuiet` | chokidar has told all it has to before the buffer is flushed |
| `StartsAfterFlush` | the flush of a run is over when the client starts again |
| `SyncWaits` | Sync acts only when the watcher is at rest |
| `DuringScan`, `ReusePaths`, `ReplacesAtOnce`, `Alone` | when and where users make changes |

## The runs

TLC checks deadlock unless users stop at a bound, which may end a behaviour of the
model where the system would wait for input.

### Runs that pass

**PouchLock** (3 clients, 6 requests). Mutual exclusion, order of grants, and the
refinement of `FifoMutex`, whose specification has weak fairness: so every request is
granted if holders release the lock, which all callers do in a `finally`. Six requests for
three clients make each wait behind both others and come back.

**SyncRestarts** (2 starts, 1 closure at a time, 2 error codes, 2 calls to
`blockSyncFor`, 2.9 million states). Everything that concerns safety of the control: one
interval at most, no lost wake-up, changes picked and applied with the lock, legal
transitions, for stops and errors at any moment, and with two loops that go on at once.
A second start is what it takes to have two loops; two codes are needed for one error
to be lifted while another remains.

**SyncLiveness** (1 start, 2 closures at once, 1 code). Blocks are lifted, changes are
applied, `stop()` ends. Fairness: microtasks run; input/output that was started ends;
intervals that are set elapse; the Cozy is reachable at some point (`SF` on
`Reached`); and a change that is picked again and again is applied at some point (`SF` on
`Applied`: what it waits for was done, and no error comes for ever). Nothing obliges a user to
act, a new change to come or an error to happen. These are what Node and the operating
system give, and what the retry policy of the code relies on.

**FileRaces** (users on both sides, 3 operations, 1 crash, 1 retry; 3.6 million
states). The record: sides follow the target, the checksum is that of every side that is
not late, merges save valid records, Sync skips only what the side was at when it was last
up to date, and the previous revision it compares with is known. Three operations give an edition on
each side and one more during their sync. One retry and one crash are enough for each to
meet every state of a merge and of Sync, but not for two of them to add up: the theorems
of `FileSyncProofs` and `FileHistoryProofs`, which state all six properties, hold for any
number of operations, crashes and retries.

**FileMerged** (a crash or a fault, 3 operations, 2 retries; 818 thousand states). When
Sync waits for local changes to be merged, no content that a user saved is lost, whatever
conflicts, crashes, failures and abandons happen, as long as no record is marked as trashed
(`NeverTrashed`). Three operations give an edition on each side and one during their sync. The
theorem `NothingLost` of `FileSafetyProofs` states it for any number of operations and crashes.

**FileSynced** (2 crashes or errors of the network, 3 operations, 2 retries; 283
thousand states). When users wait
for each change to be synced, both sides end with the same file. The theorems `BothConverge`
and `ConvergeUnlessGivenUp` of `FileConvergenceProofs` state it for any number of operations,
crashes and retries, the latter for errors of any kind.

**AtomMirrors** (a directory with a file, and an ignored file; 3 changes, at most 2 while
the client is stopped and 2 before the watcher is done with the first; inodes given
again; 246 thousand states). Once the steps have nothing left, the records are the disk,
path by path (`Mirrored`); the initial scan marks for deletion only what is gone;
`start()` ends; the watcher comes to rest. Two changes at once are what aggregation, the
detection of moves by inode and the completion of incomplete events are for; a third one
meets what they left. Fairness: the scan goes on, and a step that can go on does so at
some time, which the event loop and the timers give.

**TreePulls** (a folder in a folder with a file, and another folder; 3 moves on the Cozy at
any moment; 201 thousand states). Once the feed is merged the records are those of the Cozy
(`Pulled`), no two records stand for the same document, and the disk follows unless Sync
gave up a change. Three moves are enough for a child to leave a folder that moved, and for
the folder to move again.

**TreeMerges** (the same tree; any 2 changes, on either side, among creations, writings,
moves, overwritings, trashings, deletions, restorations and destructions; 24 thousand
states). The changes of both sides are merged before Sync applies them. No content is lost;
Sync trashes only what the other side does not have any more and gives up only what is gone;
both sides end equal; the client comes to rest. Moves, overwritings, restorations and
discards are made alone (`Alone`): with another change at the same time the code loses
some, as `TreeLostEdit` and the list below tell. Fairness: events are dispatched, the feed
is watched, pending changes are applied; what enables these steps is spelled out, as TLC
would have to compute each step to find it.

**ChokidarMirrors** (a folder in a folder with a file; 2 changes, both possibly offline; 1
stop, 1 crash; 246 thousand states). All that is on the disk is recorded, nothing lingers of
what is gone, identities are kept, only what is gone is marked for deletion, an empty sync
directory trashes nothing, the watcher does not end by itself otherwise, `start()` ends and
the watcher comes to rest without incomplete changes. `NB_OF_DELETABLE_ELEMENT` is 2 for three
records, where the code has 3, so that a sync directory that is found empty exceeds it. The
same run passes with one more file (743 thousand states). Fairness: the client is
started, chokidar tells what it finds, what can go on does so.

### Runs that do not

**TreeLostEdit** and **ChokidarReplaced**, below: each violates a statement of the
repository.

## Disagreements found

Each has a run whose counterexample shows it, on the code as it is.

1. `TreeLostEdit`: a file is written on the disk and moved on the Cozy before Sync applies
   either. `moveFileAsync` (`core/merge.js:401`) takes the content of the side that moves;
   the local content is not ahead of anything any more, and is replaced by the former one.
   `doc/usage/limitations.md:25-27` says that conflicting versions are both kept.
2. `ChokidarReplaced`: a file is deleted and another one created at the same path within one
   flush. The sort of `core/local/chokidar/analysis.js:468` compares `delPath(a)` with
   `addPath(b)` where both may be null: the addition comes first, and the deletion then
   marks the new file for deletion, which Sync trashes.

## Other behaviours met

All of these were found with TLC while the models were written, by lifting one of the
restrictions that the constants name. No run keeps them.

*Sync and its life cycle*

- `blockSyncFor` (`core/sync/index.js:782`) clears the interval of the previous error and
  leaves its code in `blockedFor`: when the second error is lifted, the first one still
  blocks Sync, for ever unless a user acts. `SyncLiveness` has one code for this reason.
- A closure that awaits the ping, or the save of errors, while `stop()` runs starts the
  remote watcher of a stopped Sync (`core/sync/index.js:746`).
- A loop that awaits `ready()` in `syncBatch` is resumed by `unblockFor('all')` of `stop()`
  (`core/utils/lifecycle.js:98`), and applies one change of a stopped Sync before it looks
  at the state.
- `stop()` does not wait for the loop: a `start()` during an apply leaves two loops that
  share `this.changes`; one cancels the feed of the other, and both may be left waiting,
  so that `ChangesAreApplied` does not hold with two starts.
- A retry fetches the remote changes only when it has to start the watcher; when the
  watcher still runs, as after a name conflict, Sync goes on without a fetch.
- A change that carries the errors of the previous one (`core/sync/index.js:442`) is given
  up at its first failure.

*A file*

- An upload that finds no file marks the record as deleted and has it erased
  (`core/remote/index.js:197`), while the remote file is still there; the deletion that comes
  next finds no record and is ignored.
- `remote.trashed`, which the condition at `core/merge.js:204` needs to keep the other side,
  is not set by a remote trashing.
- The mark `trashed` (`core/merge.js:715`) stays when the file comes back, and Sync trashes
  the remote file of a local file that exists (`core/sync/index.js:341`). The record may then
  say that both sides have a content that the Cozy has not: after a dissociation, a local file
  that is "known" is recorded without a number for its side, its deletion only marks the
  record, Sync downloads the file again, the next edition trashes the remote one, and a
  deletion followed by the same content sends metadata only. It takes six operations and a
  crash. A content is even lost: the edition that trashed the remote file is nowhere else, and
  a remote file created then is downloaded over it (five operations and a crash, whatever the
  `Pace`), hence the hypothesis of `NothingIsLost`. `RecordTellsContent` and `SkipsOnlyWhatIsThere` are about records that no revision of
  which was marked (`NeverTrashed`).
- "Known" is also said of the local content that the record has after the Cozy went back to it
  (`core/merge.js:234-250`): Sync compares the record with a revision in which the disk had
  it (`core/sync/index.js:640`), updates dates and flags (`core/local/index.js:354`), and
  records both sides as equal, while the disk may have got another content before that, whose
  event was merged too early to count. It takes four operations and no fault; `SkipsOnlyWhatIsThere`
  says for the disk what the side had when it was last up to date, not what it has.
- A file that is trashed on the Cozy, then on the disk by Sync, then restored while a crash keeps
  the record: if the system gives its inode to the file that is created again, `sameFile` says
  that nothing changed. The model gives no inode twice for this reason.
- `updateErrors` (`core/sync/index.js:843`) saves a record without the lock while a merge has
  read it: the merge is refused, and a local event is lost (`dispatch.js:92` logs and goes
  on).
- With `Pace = "any"`, `NothingIsLost` does not hold: a download is renamed onto the path
  whatever was written there since the last merge (`core/local/index.js:299`).
- When users do not wait for their changes to be synced, `Converged` fails for a file with the
  same content on both sides that is trashed on the Cozy before its merge, for a crash between
  a download and the save of the record followed by a deletion, and for a change given up
  after a name conflict. When they wait it only fails for a change given up for an error that is
  neither of the network nor a crash (permissions, disk space...): Sync never tries it again.
- The situation that the FIXME of `isAtLeastUpToDate` (`core/metadata.js:486`) mitigates is
  not reached for a file that is not moved: `SidesFollowTarget`.

*Trees*

- A remote folder moved twice, with a watch in between and before Sync: the disk does not
  follow.
- The update of a descendant two folders below a moved folder is lost
  (`squashMoves.js:151-156`, `watcher/index.js:508-541`); a child moved again is given the
  newest remote revision, which masks a later change; in `squashMoves.js:67` the `break` is
  outside the condition.
- A move into a folder that takes its former place; a folder moved out of one trashed in the
  same watch; a parent and a child that are swapped while a file moves into the new child,
  whose move is sorted first and given up.
- A folder created remotely, synced, then trashed before its local echo is merged: the echo
  revives the record. A file trashed, then restored elsewhere, with a watch after each and
  before Sync: the record is erased and the local file stays. A file trashed and created
  again at its path, merged, then trashed before Sync: it is forgotten.
- A local edition of a file trashed remotely makes Sync ask for a remote merge that never
  comes (`core/sync/index.js:400-415`, `core/merge.js:190-215`), for ever.
- A local folder moved onto the path of a remote creation leaves an orphan on the Cozy.
- A folder trashed remotely and merged, in which the user then creates something: Sync
  trashes it all. `trashFolderAsync` marks the folders in it as deleted without a revision of
  any side (`core/merge.js:842-857`), so that a new local one is forgotten.
- The writers check, then act: what is created in between at the destination of a move is
  overwritten (`core/local/index.js:411`).

*Local watcher, atom*

- A directory that moves during the initial scan is read at neither path: its files are
  marked for deletion (`initial_diff.js:223`, whose comment on lines 3-6 promises the
  contrary); renamed offline with a new one at its old path, its move is dropped
  (`dispatch.js:197-201`, `233-237`).
- A file deleted, created and deleted within the delay of `await_write_finish.js:122`: the
  creation and the second deletion cancel each other, and so does what came before. A write
  followed by a move and a creation drops the move (`await_write_finish.js:110-117`).
- A file created at the path of the record of a deleted directory throws
  (`core/merge.js:179-181`).
- `clearState` (`initial_diff.js:112-126`, `252-260`) cancels every timer, those of batches
  that hold the end of the scan included: `start()` may never end.
- `incomplete_fixer.js:303-308` removes from the list it goes through, and skips an item; a
  checksum that fails drops both the item and the event.
- A batch with `a` renamed to `b`, `b` deleted and `b` created loses the deletion of `a`; one
  with a file moved to and fro twice loses the last move; a file moved out of a directory
  that then moves, and written, leaves a ghost record; a move to an ignored path followed by
  a deletion drops the deletion (`filter_ignored.js:98-108`).
- A file marked for deletion, then restored as it was, is taken for an echo: the comparison of
  the local metadata precedes the look at `deleted` (`core/merge.js:182-199`).

*Local watcher, chokidar*

- A file found by the scan and deleted before its first flush becomes a move onto itself: the
  deletion is lost. A file deleted in a folder that was moved, both offline: the deletion is
  sorted last and looks for the former path (`analysis.js:407-418`).
- Two flushes overlap: a folder created, flushed, then removed before its record is saved
  loses its removal. A flush that goes on after `stop()` resets the `initialScan` of the next
  start. A stop between the end and the start of a moved path makes a deletion.
- A file written then replaced in one batch gets a stale inode. A repeated `addDir` of a moved
  folder saves `overwrite = true`, on which a later deletion throws (`core/merge.js:686-694`).
- A folder moved, from which a child was moved, then deleted while its events are prepared,
  throws a `TypeError` in the analysis; so does `mv p q`, creation and deletion of `p` in one
  flush (`analysis.js:226-231`).
- When the first flush fails the promise of `local.start()` is never settled, and `stop()`
  waits for it. `emptyDirRetryCount` becomes negative after the third empty flush.
- A folder created and removed before it is looked at stays for ever in `pendingChanges` as
  `Ignored`, and so does what was incomplete at a stop.

## The proofs

TLAPS checks these for every value of the constants, from the assumptions named in the
modules (`SyncLoopAssumption`, `MaxRequestsAssumption`, `FileSyncAssumption`).

`PouchLockProofs`: `LockTypeCorrect`, `LockIsMutex`, `LockIsFifo`. Mutual exclusion is not
inductive: the invariant adds that every request awaits the one issued just before it
(`ChainOK`), that promises settle from the beginning of the chain, and only after the
release of what they stand for (`SettledOK`), and that clients have ids of their own, a
holder's predecessor being settled (`ClientsOK`). Of two holders, with ids i < j, the second
has all the ids below j settled, i among them, hence released: it does not hold any more
(`HolderIsOldest`).

`PouchLockFifoProofs`: `LockImplementsFifoMutex`, the safety of the refinement. The queue of
`FifoMutex` is the owners of the requests that were not released (`queueBar`), its holder the
client that holds (`insideBar`). Requests are released from the first one on (`ReleasedOK`),
so that a holder is always the owner of the next one (`HolderIsNext`): `Acquire` is then the
entry of the head of the queue, `Release` removes it, `Lock` appends to the queue, and
`Settle`, which has no counterpart in the abstraction, leaves both alone. That every request
is granted, the liveness of the refinement, stays with TLC.

`SyncLoopProofs`: `SyncTypeCorrect`, `ChangesAreAppliedAlone`, `NoWakeUpIsLost`,
`IntervalIsUnique`, `LifeCycleIsLegal`.

- The inductive invariant is `IInv == TypeOK /\ FeedsOK /\ AppliesWithLock`. A step that
  releases the lock takes the tail of `queue`, which only keeps its type because the loop
  that picks or applies a change is at its head: that is `AppliesWithLock`. A step that
  delivers or cancels a live feed needs that its loop waits for it: that is `FeedsOK`.
  `Steps` says that a step is one of the named actions; each lemma then goes through them.
- `OneInterval` needs no more than its own step: `Block` removes the interval that
  `retryInterval` names, and `ClearInterval` too (lemma `Intervals`).
- `LegalTransitions`: `end('start')` does not look at the state it leaves. `BeginsOK` says
  that at most one call to `start()` is between its `begin` and its `end`, and that the state
  is `will-start` all that time: neither `stop()`, which awaits `started()`, nor a second
  `start()`, which `begin` refuses, gets in between.
- `NoLostWakeUp`: a loop gets to `ready` only with an error that blocks, and each
  `unblockFor` that empties `blockedFor` wakes all of them at once.

`FileSyncProofs`: `FileTypeCorrect`, `SidesFollow`, `MergesValid`, from `FileSyncAssumption`
(the bounds are natural numbers, users and faults of the kinds the model has).

- `SidesFollowTarget` says something of `doc` only. It is not inductive, since what becomes
  `doc` was read before and kept elsewhere: by a merge (`merge.was`), by Sync
  (`sync.change`), by an error that awaits its retry (`blocked.change`). `RecordsOK` says
  that all four are `Good`: a record whose sides follow the target (`Follows`), which has
  data for each side it has a number for (`Tells`, what `metadata.invariants` asks for), and
  whose remote file exists.
- Each operation of `FileMerge` turns a good record into a good one that Pouch accepts
  (`MarkedGood`, `DissociateGood`, `ConflictSound`, `LocalUpdateSound`, `RemoteUpdateSound`,
  `TrashSound`): the dissociation of a side leaves the other one at the target because
  conflicts are only resolved for a side that is behind (`BehindTarget`).
- `updateRevs` gives a number to both sides, hence needs what both have: `SyncOK` keeps it
  from the call of the writer to the save of the record. A retry marks the side opposite to
  the blocked one: `BlockedOK` keeps that this side knows the change. `EventsOK` and
  `MergeOK` say that watchers merge files that exist, with the lock.
- The type of the variables is split (`Types`), so that each step only proves the parts it
  changes (`TypesKept`). There is one lemma per action, and `NextIInv` collects them.

`FileHistoryProofs`: `RecordTells`, `SkipsOnlyThere`, `PreviousKnown`, on top of the
invariant of `FileSyncProofs`. What Sync does of a change depends on a revision that
`getPreviousRev` finds by counting, so that the invariant `HInv` has to say what *every* revision
is, and why nobody counts wrong. Its parts:

- `TracesOK`: the revisions end with the record (`Traces`); going back from it by the number of
  changes that a side misses leads to the revision that this side is at, with the remote file
  that the record knows when the side is the Cozy, and an earlier one (`Before`) when it is
  the disk. And every revision tells the content of its sides (`TellsAll`), unless one
  of them was marked trashed.
- `RevsOK`: a record at hand with the revision of the one of Pouch is that record. It makes
  `put`, which compares revisions only, a comparison of records: what a merge or a retry saves is
  made from the last revision.
- `HoldsOK`: from `PickChange` to `SaveDoc` the record of Pouch is the one that Sync applies, and
  once applied it tells the content of both sides. No error is pending meanwhile, so
  that `updateErrors` saves nothing under it.
- `CozyOK`: what a record knows of a remote file is what the Cozy has, or an older revision
  (`Fetched`), and only the last file created may be at the path (`Numbered`). With `If-Match`, a
  metadata update is then of the content that the record has.
- `PullOK`: the events of a watch that are not trashings are of one file, not older than the
  one of the record: merging them never goes back, whatever fails and is tried again.

`Updates(was, record)` says what may be saved on top of a record: one change more for the side
that misses it, and nothing else. Each operation of `FileMerge` does that (`DissociateUpdates`,
`ConflictUpdates`, `LocalUpdateUpdates`, `RemoteUpdateUpdates`, `TrashUpdates`) and tells the
contents if the record did (`TellsOn`); `WriteTraces` gets `TracesOK` for the next revision from the
two. `MergeCommits` does it for any merge, `SucceedsHInv` and `SyncEndsHInv` for any change
applied. The theorems are then read on the revision found (`OldIs`, `NothingIs`). TLC checked
`HInv` on the bounds of `FileRaces`, and with a fourth operation, before it was proved.

`FileSafetyProofs`: `NothingLost`, which is `Spec => NothingIsLost` for any number of
operations, crashes, faults and retries, under two hypotheses. `Pace # "any"`, local changes are
merged before Sync goes on: without it the code does lose contents, since it does not look at
what a download is renamed onto. And, in the property itself, `[]NeverTrashed`, without which
it loses some at any `Pace` (see *A file* above). A content is `Gone` when nobody would miss it:
no user wants it any more, or it is in a conflict copy or in a trash. Nothing makes a content
that is gone come back among those that are missed (`GoneGrows`), so that the invariant, on top
of `IInv` and `HInv`, says of every place that Sync reads before it overwrites something why
what it overwrites is gone or is the content that it writes:

- `ContentsOK`: `AllIsSomewhere`, and the contents are numbers that users gave.
- `QueueOK`: of the files that were found and wait to be merged, and the one on the disk, each
  was replaced by the next (`Precedes`): its content is the same, or is gone. Two of them with
  the same date, the second of which Merge may ignore (`core/merge.js:184-194`), differ by a
  content that is gone. Dates are past (`Stamped`): the next file has a date of its own.
- `MergingOK`: during a local merge the record read is the one of Pouch (retries wait), and
  the file found comes after the one that the record tells of.
- `TrashOK`, `AnnouncedOK`: what left the path on the Cozy is gone; what a change being merged
  says of a remote file is gone or holds still, and is what the other changes say (`Keeps`).
- `DocSafe`: the sides of the record lead to what is there (`Safe`), and a side that misses
  changes has the content of the other one, or one that may go (`Agrees`), which is what lets
  Sync overwrite it. Each operation of `FileMerge` keeps it: `LocalUpdateAgrees`,
  `RemoteUpdateAgrees`, `TrashAgrees`. The content of the other side, over which a merge lets
  Sync write, is the one of the side merged (`OtherContent`), unless a conflict copy was made.
- `MergedAs(doc.local.content)`: when nothing is left to merge, the disk has what the record
  tells, or what may go.
- `LateOK`: the revision that a late disk is at had the content that the record tells of it,
  or one that is gone: a metadata update, decided by comparing with this revision, writes
  that a side has a content only if it does, or if the one it has may go.
- `AppliedOK`: nothing is to be merged when Sync writes on the disk, and what it is about to
  save after a change is as safe as the record.

There is one lemma per action or group of actions. Those of users (`OperatesGone`) make what is
replaced gone. Those of the writers (`DownloadLInv`, `UpdateLocalMetadataLInv`, `TrashLocalLInv`,
`UploadLInv`, `TrashRemoteLInv`) get from `Agrees` or `LateOK` that what is overwritten may go.
Those of the merges show that what is renamed is in `copies`, and that a remote file that is
not the one of the record came after it left the path (`RemoteOutcomeIs`). Saves go through
`WriteIs`, `EraseIs` and `LateNext`, steps that leave the record alone through `SteadyLInv`. TLC
checked the invariant on the bounds of `FileMerged` before it was proved.

`FileConvergenceProofs`: `ConvergeUnlessGivenUp`, which is
`Spec /\ [][~GiveUp]_vars => []Converged`, and `BothConverge`, which is `Spec => []Converged`
when no fault is of the kind `"other"`. Both suppose `Pace = "synced"`, users change the file
only when nothing is left to do: otherwise the two sides may remain different (see *A file*
above). The premise of the first is needed: TLC finds a change given up after its last attempt
that leaves the sides different. The second one says when it is met: what Sync needs for a
change is always there (`NeverGivesUp`), so that only a crash or the network makes it fail, and
these are retried for ever. `AllKeptUnlessGivenUp` has the hypotheses of the first, and gets
`AllIsSomewhere` without the premise `[]NeverTrashed` of `NothingLost`: at this pace no revision is
ever marked as trashed.

Crashes, losses of the network and retries happen at any step, echoes come back at any time,
and the user may act as soon as all looks quiet, be it after a crash that left the record behind
what Sync did. The invariant `CInv`, on top of `IInv`, `HInv` and `LInv`, says which change on
its way makes up for each difference between the disk, the Cozy and the record:

- `WaitingOK`, `WatchOK`: what waits to be merged is what is there now. There is at most one
  local event, the disk; and one remote file, the last of the Cozy, with changes to merge.
- `KnownOK`: the record was told what the disk has (`HereKnown`: the date of its file) unless a
  local event is to come, and what the Cozy has (`ThereKnown`: the revision of its last file)
  unless the feed has it. It misses one of them at most. There is one exception,
  `Stuck`: a file is back on the disk while the record knows a remote one in the trash.
- `LateLocalOK`, `LateRemoteOK`: a record with a late side is to be synced, or what it says was
  done on that side, a crash or the saved sequence having come before the record; the
  echo of it is then to be merged. The revision that the late side is at differs from the record
  when there is something to do, so that the comparison with it makes Sync skip nothing.
- `DeletedThereOK`, `DeletedHereOK`: the same of a deletion, which stays in a record after Sync is
  done with it, if it was stopped before it erased the record.
- `AppliesOK`: once a writer is done, both sides have what Sync is about to save.
- `FilesOK`, `CalmOK`: equal dates are the same file, inodes are new, and the inode of the
  record is the one of what it knows of the disk; the record is never
  trashed, is deleted only with two sides, and a blocked change is pending.

A merge finds the disk as the record tells it, or a new file (`FoundMerges`, `SeenMerges`), or
none (`MissingMerges`, `TrashingMerges`): in each case it ignores an echo, or marks one side. It
makes no conflict copy, since the other side never has a change of its own (`FoundCInv`,
`MergeRemoteCInv`). Each writer puts on its side what the record tells (`PutOnDiskCInv`,
`PutOnCozyCInv`). `OldNext` follows the revision of the late side through the saves. When all is
quiet the invariant leaves a record that both sides are as told (`QuietIs`), hence are equal
(`QuietConverges`). TLC checked `CInv` with 4 operations and 3 faults, and both conclusions for
errors of any kind without `GiveUp`, before they were proved.

What only TLC checks:

- liveness, `FifoMutex!Spec` included: fairness and `ENABLED` are out of the prover's reach;
- all the properties of `AtomWatcher`, `TreeSync` and `ChokidarWatcher`. Most of them compare
  records with the disk or the Cozy through folds over sequences, whose results would need an
  induction over data. And they do not hold for every value of the constants, which is what a
  theorem would say: `NoContentIsLost` fails in `TreeLostEdit`; `RecordsDiffer` fails
  for a folder moved out of one that is trashed in the same watch, which leaves two records
  for it, and, when names are given again, for a trashing, a creation and a move with a watch
  before the last; the others fail as told in *Other behaviours met*. The
  constants name the restrictions under which TLC finds them to hold.

## What is not modelled

- *Interleavings within an operation on a tree*: a step of `TreeSync` is what is done under
  the lock, or the application of a change. `FileSync` has the finer steps, for one file.
- *The Cozy, inotify, chokidar and the operating system* are external: revisions, `If-Match`,
  name conflicts, the changes feed, the trash and the events are modelled as the code uses
  them.
- *Errors of apply* on trees: permissions, disk space, and the `CozyNotFound` and network
  errors, which `SyncLoop` and `FileSync` have. `bulkDocs` refuses all its
  records when one is invalid, otherwise saves what it can and throws for the rest
  (`core/pouch/index.js:224`), as in the model; no such failure happens under the lock.
- *Two chains of watches* of the remote watcher (`core/remote/watcher/index.js:118`): each
  takes the lock before it reads the sequence, so that they only fetch more often.
- *The conflict of `updateRevs`* (`core/sync/index.js:887`), which needs a save without the
  lock during an apply.
- *Paths that differ by case or encoding only*, ignored paths but the one of `AtomWatcher`,
  incompatible names, Cozy Notes, the executable flag, differential synchronization, the
  steps of the Atom watcher for Windows, and its stop followed by a start in one process.
- *Dates*: a writing gives a file a date of its own; a change of content that keeps its date,
  which the code ignores, only comes from Sync, which sets the date of the file that there is.
- *Checksumer and stater* (input and output), *Sync state* (what the GUI shows),
  *configuration and registration*, *migrations*, *GUI*, *development tools*, logging and
  performance measures: they decide nothing about the records while the client runs.

## The plan

1. Pouch lock and life cycle: done (`PouchLock`, `SyncLoop`), with their proofs.
2. A file in isolation: done (`FileSync`), with the proofs about its records, its revisions and
   its contents.
3. Remote watcher: done (`RemoteChanges`, `TreeSync`); the watch itself is in `SyncLoop`.
4. Local watchers: done for Linux (`AtomWatcher`) and macOS (`ChokidarWatcher`).
5. Folders and moves: done (`TreeMerge`, `TreeSync`).
6. Next: `updateRevs` with its conflict path; `SyncState`; the configuration and its atomic
   save; migrations with a crash between two of them.
7. Proofs: done for all the invariants of `PouchLock`, `SyncLoop` and `FileSync`. Next: what
   the folds of `Records` preserve, then what Merge never refuses in `ChokidarWatcher`
   (`EndsOnlyWhenEmpty`).
