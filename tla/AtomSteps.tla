----------------------------- MODULE AtomSteps -----------------------------
(* The steps of the Atom watcher as operators: what each of them does with   *)
(* an event or a batch of events. A path is the sequence of its names; the   *)
(* contents of a file are numbered, the number standing for its checksum and *)
(* for its modification date. An event without stats has ino 0, one without  *)
(* an old path has the path of the root there.                               *)
EXTENDS Integers, Sequences, SequencesExt, FiniteSetsExt, Functions

CONSTANT Ignored  \* the names that .cozyignore ignores

Root == <<>>

NoStats == [kind |-> "unknown", ino |-> 0, mtime |-> 0]

Event(action, path, oldPath) ==
  [action |-> action, path |-> path, oldPath |-> oldPath, kind |-> "unknown",
   ino |-> 0, mtime |-> 0, md5 |-> 0, deletedIno |-> 0,
   incomplete |-> FALSE, overwrite |-> FALSE]

INITIAL_SCAN_DONE == Event("initial-scan-done", Root, Root)

Writes == {"created", "modified", "renamed"}

WithStats(e, stats) ==
  [e EXCEPT !.kind = stats.kind, !.ino = stats.ino, !.mtime = stats.mtime]

Ino(e) == IF e.ino # 0 THEN e.ino ELSE e.deletedIno

(* path.replace(from, to) when path is from or below it *)
Rebase(path, from, to) == to \o SubSeq(path, Len(from) + 1, Len(path))

areParentChildPaths(p, c) == p # Root /\ c # Root /\ IsStrictPrefix(p, c)

PathBefore(p, q) ==
  \/ IsStrictPrefix(p, q)
  \/ \E i \in 1 .. Len(p) : /\ i <= Len(q) /\ p[i] < q[i]
                            /\ SubSeq(p, 1, i - 1) = SubSeq(q, 1, i - 1)

----------------------------------------------------------------------------
(* filterIgnored                                                            *)

isIgnored(path) == Range(path) \cap Ignored # {}

notIgnoredEvent(e) ==
  IF e.action = "initial-scan-done" THEN <<e>>
  ELSE IF e.action = "renamed" /\ e.oldPath # Root
       THEN CASE isIgnored(e.path) /\ isIgnored(e.oldPath) -> <<>>
              [] isIgnored(e.path) /\ ~isIgnored(e.oldPath) ->
                   <<[e EXCEPT !.action = "deleted", !.path = e.oldPath,
                               !.oldPath = Root]>>
              [] ~isIgnored(e.path) /\ isIgnored(e.oldPath) ->
                   <<[e EXCEPT !.action = "created", !.oldPath = Root]>>
              [] OTHER -> <<e>>
  ELSE IF isIgnored(e.path) THEN <<>> ELSE <<e>>

filterIgnored(batch) == FlattenSeq([i \in DOMAIN batch |-> notIgnoredEvent(batch[i])])

----------------------------------------------------------------------------
(* awaitWriteFinish: one batch, then the batches that wait                  *)

isAggregationCandidate(e, lastWrite) ==
  /\ ~e.incomplete /\ e.kind = "file"
  /\ e.action \in Writes \cup {"deleted"}
  /\ lastWrite.action = "renamed" => Ino(e) = Ino(lastWrite)

(* The event that keeps what older and newer did, or none *)
aggregateEvents(older, newer) ==
  CASE newer.action = "deleted" /\ older.action = "created" -> <<>>
    [] newer.action = "deleted" /\ older.action = "renamed" ->
         <<[newer EXCEPT !.path = older.oldPath]>>
    [] newer.action = "modified" ->
         <<[newer EXCEPT !.action = older.action,
                         !.oldPath = IF older.action = "renamed"
                                     THEN older.oldPath ELSE @]>>
    [] OTHER -> <<newer>>

(* s.out is the aggregated batch; s.last[p] is the last write at p, and its  *)
(* place in s.out, 0 once it is no longer there: the code then replaces the  *)
(* last event of the batch.                                                  *)
AggregateNext(s, e) ==
  LET known == e.path \in DOMAIN s.last
      lastWrite == s.last[e.path].e
      i == IF s.last[e.path].i = 0 THEN Len(s.out) ELSE s.last[e.path].i
      agg == aggregateEvents(lastWrite, e)
      moved(j) == IF j = i THEN 0 ELSE IF agg = <<>> /\ j > i THEN j - 1 ELSE j
      others == [p \in DOMAIN s.last \ {lastWrite.path} |->
                  [s.last[p] EXCEPT !.i = moved(@)]]
      known2 == DOMAIN others \cup {lastWrite.path}
      add(e2, j) == [p \in DOMAIN s.last \cup {e.path} |->
                      IF p = e.path THEN [e |-> e2, i |-> j] ELSE s.last[p]]
  IN IF known /\ isAggregationCandidate(e, lastWrite)
     THEN IF agg = <<>>
          THEN [out |-> RemoveAt(s.out, i), last |-> others]
          ELSE [out |-> IF s.out = <<>> THEN agg ELSE ReplaceAt(s.out, i, agg[1]),
                last |-> [p \in known2 |-> IF p = lastWrite.path
                                           THEN [e |-> agg[1], i |-> i]
                                           ELSE others[p]]]
     ELSE [out |-> Append(s.out, e),
           last |-> IF e.incomplete THEN s.last ELSE add(e, Len(s.out) + 1)]

aggregateBatch(batch) ==
  FoldLeft(AggregateNext, [out |-> <<>>, last |-> <<>>], batch).out

countFileWriteEvents(batch) ==
  Len(SelectSeq(batch, LAMBDA e : /\ ~e.incomplete /\ e.kind = "file"
                                  /\ e.action \in Writes))

(* The first event of a waiting batch that e makes obsolete, 0 if none *)
ObsoleteWrite(w, e) ==
  IF w.nbCandidates = 0 THEN 0
  ELSE SelectInSeq(w.batch, LAMBDA o :
         /\ o.path = e.path
         /\ \/ o.action \in {"created", "modified"}
            \/ o.action = "renamed" /\ Ino(o) = Ino(e))

(* s.e is the event as it is now, at s.i in s.events unless it is dropped   *)
DebounceIn(s, j) ==
  LET k == ObsoleteWrite(s.waiting[j], s.e)
      e == aggregateEvents(s.waiting[j].batch[k], s.e)
      taken == [s.waiting EXCEPT ![j].batch = RemoveAt(@, k), ![j].nbCandidates = @ - 1]
  IN IF k = 0 THEN s
     ELSE IF e = <<>>
     THEN [s EXCEPT !.waiting = taken, !.i = @ - 1, !.dropped = TRUE,
                    !.events = RemoveAt(@, IF s.i = 0 THEN Len(@) ELSE s.i)]
     ELSE [s EXCEPT !.waiting = taken, !.e = e[1],
                    !.events = IF s.dropped THEN @ ELSE ReplaceAt(@, s.i, e[1])]

DebounceWrite(s) ==
  IF s.i >= Len(s.events) THEN s
  ELSE LET e == s.events[s.i + 1]
           start == [s EXCEPT !.i = @ + 1, !.e = e, !.dropped = FALSE]
       IN IF ~e.incomplete /\ e.kind = "file" /\ e.action \in {"modified", "deleted"}
          THEN FoldLeftDomain(DebounceIn, start, s.waiting)
          ELSE start

debounceWrites(waiting, events) ==
  FoldLeft(LAMBDA s, e : DebounceWrite(s),
           [waiting |-> waiting, events |-> events, i |-> 0,
            e |-> INITIAL_SCAN_DONE, dropped |-> FALSE],
           events)

(* The batches at the head of the queue that wait for nothing *)
ReadyBatches(waiting) ==
  LET i == SelectInSeq(waiting, LAMBDA w : w.nbCandidates # 0)
  IN IF i = 0 THEN Len(waiting) ELSE i - 1

BatchesOf(waiting) ==
  SelectSeq([i \in DOMAIN waiting |-> waiting[i].batch], LAMBDA b : b # <<>>)

----------------------------------------------------------------------------
(* initialDiff                                                              *)

(* A scan event of a path that a waiting batch already moves is dropped; the *)
(* loop then skips the event that comes after it.                            *)
DebounceScan(s) ==
  LET e == s.events[s.i + 1]
      overlaps(w) == /\ w.nbCandidates # 0
                     /\ \E o \in Range(w.batch) : o.action = "renamed" /\ o.path = e.path
      hits == {j \in DOMAIN s.waiting : overlaps(s.waiting[j])}
      keep(k) == ~(k \in s.i + 1 .. s.i + Cardinality(hits))
  IN IF s.i >= Len(s.events) THEN s
     ELSE IF e.incomplete \/ e.action # "scan" \/ hits = {} THEN [s EXCEPT !.i = @ + 1]
     ELSE [waiting |-> [j \in DOMAIN s.waiting |->
                         IF j \in hits THEN [s.waiting[j] EXCEPT !.nbCandidates = @ - 1]
                         ELSE s.waiting[j]],
           events |-> LET places == SelectSeq([k \in DOMAIN s.events |-> k], keep)
                      IN [k \in DOMAIN places |-> s.events[places[k]]],
           i |-> s.i + 1]

debounceScans(waiting, events) ==
  FoldLeft(LAMBDA s, e : DebounceScan(s),
           [waiting |-> waiting, events |-> events, i |-> 0], events)

FixPaths(e, r) ==
  LET oldPathFixed == Rebase(e.oldPath, r.oldPath, r.path)
      e1 == IF ~areParentChildPaths(r.oldPath, e.oldPath) THEN e
            ELSE IF e.path = oldPathFixed THEN [e EXCEPT !.action = "scan"]
            ELSE [e EXCEPT !.oldPath = oldPathFixed]
      pathFixed == Rebase(e1.path, r.oldPath, r.path)
  IN IF areParentChildPaths(r.oldPath, e1.path) /\ e1.oldPath # pathFixed
     THEN [e1 EXCEPT !.path = pathFixed]
     ELSE e1

fixPathsAfterParentMove(renamedEvents, e) == FoldLeft(FixPaths, e, renamedEvents)

DeletedDoc(was, ino) ==
  [Event("deleted", was.path, Root) EXCEPT !.kind = was.kind, !.deletedIno = ino]

CompareFileWithPouch(e, was) ==
  IF was.moveFrom = e.path THEN [e EXCEPT !.action = "ignored"]
  ELSE IF was.path # e.path /\ e.kind = "file" /\ was.kind = "file"
  THEN [e EXCEPT !.action = "renamed", !.oldPath = was.path]
  ELSE e

(* What the event found by its inode in Pouch makes of it                   *)
CompareWithPouch(e, was) ==
  IF was.moveFrom = e.path THEN [e EXCEPT !.action = "ignored"]
  ELSE IF was.path # e.path
       THEN IF was.kind = e.kind
            THEN [e EXCEPT !.action = "renamed", !.oldPath = was.path]
            ELSE e
  ELSE IF e.kind = "file" /\ was.md5 # 0 /\ e.mtime = was.mtime
       THEN [e EXCEPT !.md5 = was.md5]
  ELSE e

NotFound(byInode, renamedEvents, scannedPaths) ==
  LET docs == SetToSortSeq(DOMAIN byInode,
                LAMBDA i, j : PathBefore(byInode[i].path, byInode[j].path))
      event(i) == fixPathsAfterParentMove(renamedEvents, DeletedDoc(byInode[i], i))
  IN SelectSeq([k \in DOMAIN docs |-> event(docs[k])],
               LAMBDA e : e.path \notin scannedPaths)

(* s is the state of the step, with the batch it builds and its candidates  *)
DiffEvent(s, e) ==
  LET was == s.byInode[e.ino]
      found == e.action \in {"created", "scan"} /\ e.ino \in DOMAIN s.byInode
      e1 == IF found THEN CompareWithPouch(e, was) ELSE e
      replaced == found /\ e1.action \in {"created", "scan"} /\ was.path # e.path
      seen == e1.action \in Writes \cup {"scan", "ignored"}
      e2 == fixPathsAfterParentMove(s.renamedEvents, e1)
      s1 == [s EXCEPT
        !.nbCandidates = IF found /\ e1.action = "renamed" THEN @ + 1 ELSE @,
        !.byInode = IF seen THEN Restrict(@, DOMAIN @ \ {e.ino}) ELSE @,
        !.scannedPaths = IF seen THEN @ \cup {e.path} ELSE @,
        !.renamedEvents = IF e2.action = "renamed" THEN Append(@, e2) ELSE @,
        !.batch = @ \o (IF replaced THEN <<DeletedDoc(was, e.ino)>> ELSE <<>>)]
      gone == NotFound(s1.byInode, s1.renamedEvents, s1.scannedPaths)
  IN IF e.incomplete THEN [s EXCEPT !.batch = Append(@, e)]
     ELSE IF e.action # "initial-scan-done"
     THEN [s1 EXCEPT !.batch = Append(@, e2)]
     ELSE [s1 EXCEPT !.batch = @ \o Append(gone, e),
                     !.waiting = [j \in DOMAIN @ |-> [@[j] EXCEPT !.timer = FALSE]],
                     !.renamedEvents = <<>>, !.scannedPaths = {},
                     !.byInode = <<>>, !.initialScanDone = TRUE]

----------------------------------------------------------------------------
(* overwrite: deleted[p] is the place of the last deletion of p in a batch  *)

OverwriteNext(s, i) ==
  LET e == s.batch[i]
      ignore(batch, deleted) == [batch EXCEPT ![deleted[e.path]].action = "ignored"]
      here == e.path \in DOMAIN s.deleted
      before == ~here /\ e.path \in DOMAIN s.pendingDeleted
      overwrites == e.action \in {"renamed", "created"}
      s1 == [s EXCEPT !.batch[i].overwrite =
                        @ \/ (e.action = "renamed" /\ (here \/ before))]
  IN CASE e.action = "deleted" ->
            [s EXCEPT !.deleted = [p \in DOMAIN @ \cup {e.path} |->
                                    IF p = e.path THEN i ELSE @[p]]]
       [] overwrites /\ here -> [s1 EXCEPT !.batch = ignore(@, s.deleted)]
       [] overwrites /\ before -> [s1 EXCEPT !.pending = ignore(@, s.pendingDeleted)]
       [] OTHER -> s

overwriteStep(pending, pendingDeleted, batch) ==
  FoldLeftDomain(OverwriteNext,
                 [batch |-> batch, deleted |-> <<>>,
                  pending |-> pending, pendingDeleted |-> pendingDeleted],
                 batch)

----------------------------------------------------------------------------
(* incompleteFixer: what a later event says of an incomplete one            *)

wasRenamedSuccessively(previous, next) ==
  next.oldPath # Root /\ IsPrefix(next.oldPath, previous.path)

itemDestinationWasDeleted(previous, next) ==
  next.action = "deleted" /\ previous.oldPath # Root /\ IsPrefix(next.path, previous.path)

renamedItemWasReplaced(previous, next) ==
  /\ next.action = "created" /\ previous.oldPath # Root
  /\ next.path = previous.oldPath /\ next.kind = previous.kind

completeEventPaths(previous, next) ==
  LET path == Rebase(previous.path, next.oldPath, next.path)
  IN [path |-> path,
      oldPath |-> IF previous.oldPath = Root \/ path = next.path THEN previous.oldPath
                  ELSE ReplaceFirstSubSeq(next.path, next.oldPath, previous.oldPath)]

rebuilt(previous, paths, stats, md5) ==
  [WithStats(Event(previous.action, paths.path, paths.oldPath), stats) EXCEPT
     !.kind = IF stats.ino = 0 THEN previous.kind ELSE @,
     !.md5 = md5, !.incomplete = stats.ino = 0]

buildDeletedFromRenamed(previous) ==
  [Event("deleted", previous.oldPath, Root) EXCEPT !.kind = previous.kind]

buildModifiedFromRenamed(next) == [next EXCEPT !.action = "modified"]
=============================================================================
