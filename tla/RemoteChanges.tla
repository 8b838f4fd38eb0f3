--------------------------- MODULE RemoteChanges ----------------------------
(* What the remote watcher makes of the documents of the changes feed:       *)
(* changes, identified one by one (core/remote/watcher/index.js), squashed   *)
(* (squashMoves.js), sorted (core/remote/change.js) and applied.             *)
EXTENDS TreeMerge, Arrays

(* was is missing when the document is unknown; descendants are the changes  *)
(* a move brings with it.                                                    *)
Change(type, doc, was) ==
  [type |-> type, doc |-> doc, was |-> was, update |-> FALSE,
   needRefetch |-> FALSE, descendants |-> <<>>]

OfType(docType, file, folder) == IF docType = "file" THEN file ELSE folder

(* added, trashed, deleted, updated and upToDate                             *)
Added(doc) == Change(OfType(doc.docType, "FileAddition", "DirAddition"), doc, Null)
Trashed(doc, was) ==
  Change(OfType(doc.docType, "FileTrashing", "DirTrashing"), doc, Some(was))
Deleted(was) ==
  Change(OfType(was.docType, "FileDeletion", "DirDeletion"), was, Null)
UpdatedBy(doc) == Change(OfType(doc.docType, "FileUpdate", "DirUpdate"), doc, Null)
UpToDate(doc, was) == Change("UpToDate", doc, Some(was))
Ignored(doc) == Change("IgnoredChange", doc, Null)

IsDescendant(c) == c.type = "DescendantChange"
IsDelete(c) == c.type \in {"DirDeletion", "FileDeletion"}
IsAdd(c) == c.type \in {"DirAddition", "FileAddition"}
IsTrash(c) == c.type \in {"DirTrashing", "FileTrashing"}

(* Those of descendants are to be told by a docType that no document has.    *)
IsFileMove(c) ==
  \/ c.type = "FileMove"
  \/ IsDescendant(c) /\ c.doc.docType = "File"
IsFolderMove(c) ==
  \/ c.type = "DirMove"
  \/ IsDescendant(c) /\ c.doc.docType = "Folder"
IsMove(c) == IsFileMove(c) \/ IsFolderMove(c)

OldPath(c) == The(c.was).path

IsChildDestination(p, c) ==
  IsFolderMove(p) /\ IsMove(c) /\ Dirname(c.doc.path) = p.doc.path
IsChildSource(p, c) ==
  IsFolderMove(p) /\ IsMove(c) /\ Dirname(OldPath(c)) = OldPath(p)
IsChildMove(p, c) ==
  /\ IsFolderMove(p) /\ c.type \in {"DirMove", "FileMove"}
  /\ IsChildDestination(p, c) \/ IsChildSource(p, c)
IsChildMoveByPaths(p, c) == IsChildSource(p, c) /\ IsChildDestination(p, c)
IsOnlyChildMove(p, c) ==
  /\ IsChildSource(p, c) /\ IsChildDestination(p, c)
  /\ Basename(c.doc.path) = Basename(OldPath(c))
-----------------------------------------------------------------------------
(* squashMoves. The state of an identification has the changes found so far, *)
(* moves, copies of the moves as they were encountered, and squashed, the    *)
(* change being identified.                                                  *)

BuildChange(doc, was) ==
  IF doc.docType = "file"
  THEN [Change("FileMove", doc, Some(was)) EXCEPT !.update = was.md5sum # doc.md5sum]
  ELSE Change("DirMove", doc, Some(was))

(* findParentMoves: the encountered move of a parent, and the change it has  *)
(* become. Without the former, only the first change may be the latter.      *)
ParentMove(p, c) == FirstIndex(IndexesOf(p.moves, LAMBDA m : IsChildMove(m, c)))
SquashedParentMove(p, c) ==
  LET m == ParentMove(p, c)
  IN FirstIndex(IndexesOf(p.changes,
       LAMBDA o : /\ o.type \in {"DirMove", "DescendantChange"}
                  /\ m # 0 /\ o.doc.path = p.moves[m].doc.path))

BuildDescendantChange(c) ==
  [Change("DescendantChange", c.doc, c.was) EXCEPT
     !.update = c.type = "FileMove" /\ c.update]

BuildMoveInsideMove(c, parent) ==
  [Change(c.type, c.doc, c.was) EXCEPT
     !.needRefetch = TRUE,
     !.was[1].path = Append(parent.doc.path, Basename(OldPath(c)))]

(* includeDescendant; a change of a descendant has no descendants.           *)
IncludeDescendant(parent, child) ==
  [parent EXCEPT !.descendants = Append(@, child)]

Encounter(p, c) == [p EXCEPT !.moves = Append(@, c)]

(* squashedWithParent: a child that moves with its parent is included, one   *)
(* that moves from or to its parent is found again once the parent moved.    *)
SquashWithParent(p, change) ==
  LET m == ParentMove(p, change)
      s == SquashedParentMove(p, change)
      parent == IF s # 0 THEN p.changes[s] ELSE p.moves[m]
      child == BuildDescendantChange(change)
      including == IF s # 0
                   THEN [p EXCEPT !.changes[s] = IncludeDescendant(@, child)]
                   ELSE [p EXCEPT !.moves[m] = IncludeDescendant(@, child)]
  IN IF m = 0 THEN [p EXCEPT !.squashed = change]
     ELSE IF IsOnlyChildMove(p.moves[m], change)
     THEN [Encounter(including, child) EXCEPT !.squashed = child]
     ELSE [Encounter(p, change) EXCEPT !.squashed = BuildMoveInsideMove(change, parent)]

(* A move within the move of its parent that is taken as it was found.       *)
ApplyMoveAsFound(parent, c) == c

(* applyMoveInsideMove *)
ApplyMoveInsideMove(parent, c) ==
  [c EXCEPT !.needRefetch = TRUE,
            !.was[1].path = NewChildPath(@, OldPath(parent), parent.doc.path)]

(* squashChildren: the same for the children found before their parent. The  *)
(* descendants a child had stay with it.                                     *)
SquashChildren(p) ==
  LET change == p.squashed
      encountered == IndexesOf(p.moves, LAMBDA m : m.doc.path = change.doc.path)
      original == IF encountered = {} THEN change
                  ELSE p.moves[FirstIndex(encountered)]
      children == {i \in DOMAIN p.changes :
                     /\ p.changes[i].type \in {"FileMove", "DirMove"}
                     /\ \/ IsChildMove(change, p.changes[i])
                        \/ IsChildMove(original, p.changes[i])}
      only == {i \in children : \/ IsOnlyChildMove(change, p.changes[i])
                                \/ IsOnlyChildMove(original, p.changes[i])}
      included == [i \in DOMAIN p.changes |-> BuildDescendantChange(p.changes[i])]
  IN [p EXCEPT
        !.squashed = FoldLeft(LAMBDA c, i : IncludeDescendant(c, included[i]),
                              change, SetToSortSeq(only, <)),
        !.changes = [i \in DOMAIN @ |->
           CASE i \in only ->
                  [included[i] EXCEPT !.descendants = p.changes[i].descendants]
             [] i \in children \ only -> ApplyMoveInsideMove(change, p.changes[i])
             [] OTHER -> p.changes[i]]]

(* squashMoves: a move to the path of what was trashed overwrites it.        *)
SquashMoves(p, doc, was) ==
  LET change == BuildChange(doc, was)
      met == Encounter(p, change)
      trashing == OfType(doc.docType, "FileTrashing", "DirTrashing")
      overwritten == FirstIndex(IndexesOf(p.changes,
        LAMBDA o : o.type = trashing /\ OldPath(o) = doc.path))
      children(squashed) ==
        IF squashed.squashed.type \in {"DirMove", "DescendantChange"}
        THEN SquashChildren(squashed) ELSE squashed
  IN IF overwritten # 0
     THEN [met EXCEPT !.changes[overwritten].type = "IgnoredChange",
                      !.squashed = [change EXCEPT !.doc.overwrite =
                                      p.changes[overwritten].was]]
     ELSE children(SquashWithParent(met, change))

(* What was trashed is overwritten if something moved to its path.           *)
IdentifyTrashing(p, doc, was) ==
  LET onto == FirstIndex(IndexesOf(p.changes, LAMBDA o :
        /\ o.type \in {"DescendantChange", "FileMove", "DirMove"}
        /\ o.doc.path = was.path))
  IN IF onto = 0 THEN [p EXCEPT !.squashed = Trashed(doc, was)]
     ELSE [p EXCEPT !.changes[onto].doc.overwrite = Some(was),
                    !.squashed = Ignored(doc)]

(* identifyChange and identifyExistingDocChange                              *)
IdentifyChange(p, doc, old) ==
  LET was == The(old)
      is(change) == [p EXCEPT !.squashed = change]
  IN IF doc.deleted
     THEN is(IF Given(old) THEN Deleted(was) ELSE Ignored(doc))
     ELSE IF Given(old) /\ Remote(was).rev >= Remote(doc).rev
     THEN is(UpToDate(doc, was))
     ELSE IF InRemoteTrash(doc.path)
     THEN IF Given(old) THEN IdentifyTrashing(p, doc, was) ELSE is(Ignored(doc))
     ELSE IF ~Given(old) THEN is(Added(doc))
     ELSE IF was.path = doc.path THEN is(UpdatedBy(doc))
     ELSE SquashMoves(p, doc, was)

(* identifyAll: the records the documents have are read beforehand.          *)
Found(p) == [p EXCEPT !.changes = Append(@, p.squashed)]
IdentifyAll(w, docs) ==
  LET step(p, doc) == Found(IdentifyChange(p, doc, ByRemoteId(w, Remote(doc).id)))
      start == [changes |-> <<>>, moves |-> <<>>, squashed |-> Ignored(Head(docs))]
  IN FoldLeft(step, start, docs).changes
-----------------------------------------------------------------------------
(* sortChanges. Comparisons are -1, 0 or 1.                                  *)

CreatedPath(c) ==
  IF IsAdd(c) \/ IsMove(c) \/ IsDescendant(c) THEN c.doc.path ELSE Null
DeletedPath(c) ==
  IF IsDelete(c) THEN c.doc.path
  ELSE IF IsMove(c) \/ IsDescendant(c) \/ IsTrash(c) THEN OldPath(c) ELSE Null

(* No document of a change is the root, whose path would be Null.            *)
AreParentChild(p, c) == p # Null /\ AreParentChildPaths(p, c)
AreEqual(one, two) == one # Null /\ one = two
LowerPath(one, two) == one # Null /\ two # Null /\ Lower(one, two)

SortForDelete(del, b, first) ==
  IF IsDelete(b) \/ IsTrash(b)
  THEN FirstOrder(<< <<LowerPath(DeletedPath(del), DeletedPath(b)), first>>,
                    <<LowerPath(DeletedPath(b), DeletedPath(del)), -first>> >>)
  ELSE first

SortForDescendant(desc, b, first) ==
  FirstOrder(<< <<AreParentChild(DeletedPath(desc), CreatedPath(b)), first>>,
               <<AreParentChild(DeletedPath(b), CreatedPath(desc)), -first>>,
               <<AreParentChild(CreatedPath(b), DeletedPath(desc)), first>>,
               <<AreParentChild(CreatedPath(desc), DeletedPath(b)), -first>>,
               <<AreEqual(DeletedPath(desc), CreatedPath(b)), first>>,
               <<AreEqual(DeletedPath(b), CreatedPath(desc)), first>>,
               <<TRUE, -first>> >>)

SortDescendants(one, two, first) ==
  FirstOrder(<< <<AreParentChild(DeletedPath(one), DeletedPath(two)), first>>,
               <<AreParentChild(DeletedPath(two), DeletedPath(one)), -first>>,
               <<AreEqual(DeletedPath(one), CreatedPath(two)), first>>,
               <<AreEqual(DeletedPath(two), CreatedPath(one)), -first>>,
               <<LowerPath(DeletedPath(one), DeletedPath(two)), first>>,
               <<LowerPath(DeletedPath(two), DeletedPath(one)), -first>> >>)

SortMoves(one, two, first) ==
  FirstOrder(<< <<AreParentChild(DeletedPath(two), DeletedPath(one)), first>>,
               <<AreParentChild(DeletedPath(one), DeletedPath(two)), -first>>,
               <<AreParentChild(DeletedPath(two), CreatedPath(one)), first>>,
               <<AreParentChild(DeletedPath(one), CreatedPath(two)), -first>>,
               <<AreParentChild(CreatedPath(one), CreatedPath(two)), first>>,
               <<AreParentChild(CreatedPath(two), CreatedPath(one)), -first>>,
               <<AreParentChild(CreatedPath(one), DeletedPath(two)), first>>,
               <<AreParentChild(CreatedPath(two), DeletedPath(one)), -first>>,
               <<AreEqual(DeletedPath(one), CreatedPath(two)), first>>,
               <<AreEqual(DeletedPath(two), CreatedPath(one)), -first>>,
               <<LowerPath(CreatedPath(one), CreatedPath(two)), first>>,
               <<LowerPath(CreatedPath(two), CreatedPath(one)), -first>> >>)

SortForMove(move, b, first) ==
  CASE ~IsMove(b) /\ ~IsDescendant(b) -> first
    [] IsDescendant(move) /\ IsDescendant(b) -> SortDescendants(move, b, first)
    [] IsDescendant(move) /\ ~IsDescendant(b) -> SortForDescendant(move, b, first)
    [] ~IsDescendant(move) /\ IsDescendant(b) -> SortForDescendant(b, move, -first)
    [] OTHER -> SortMoves(move, b, first)

SortForAdd(add, b, first) ==
  IF IsAdd(b)
  THEN FirstOrder(<< <<AreParentChild(CreatedPath(add), CreatedPath(b)), first>>,
                    <<AreParentChild(CreatedPath(b), CreatedPath(add)), -first>>,
                    <<LowerPath(CreatedPath(add), CreatedPath(b)), first>>,
                    <<LowerPath(CreatedPath(b), CreatedPath(add)), -first>> >>)
  ELSE first

(* Ignored changes come last, by path.                                       *)
IgnoredPath(c) == IF c.type = "IgnoredChange" THEN c.doc.path ELSE Null

SortChanges(a, b) ==
  LET gone(c) == IsDelete(c) \/ IsTrash(c)
      moves(c) == IsMove(c) \/ IsDescendant(c)
  IN IF gone(a) THEN SortForDelete(a, b, -1)
     ELSE IF gone(b) THEN SortForDelete(b, a, 1)
     ELSE IF moves(a) THEN SortForMove(a, b, -1)
     ELSE IF moves(b) THEN SortForMove(b, a, 1)
     ELSE IF IsAdd(a) THEN SortForAdd(a, b, -1)
     ELSE IF IsAdd(b) THEN SortForAdd(b, a, 1)
     ELSE FirstOrder(<< <<LowerPath(IgnoredPath(a), IgnoredPath(b)), -1>>,
                       <<LowerPath(IgnoredPath(b), IgnoredPath(a)), 1>> >>)

(* What has no path comes last.                                              *)
SortByPath(a, b) ==
  FirstOrder(<< <<a.doc.path = Null, 1>>, <<b.doc.path = Null, -1>>,
               <<Lower(a.doc.path, b.doc.path), -1>>,
               <<Lower(b.doc.path, a.doc.path), 1>> >>)

(* An analysis that leaves changes in the order they were identified.        *)
AnalyseUnsorted(w, docs) == IdentifyAll(w, docs)

(* analyse *)
Analyse(w, docs) ==
  NodeSort(NodeSort(IdentifyAll(w, docs), SortByPath), SortChanges)
-----------------------------------------------------------------------------
(* apply: the world it leaves, where ok tells whether it threw.              *)

(* moveFolderAsync is given the new revisions of the descendants. What has a *)
(* new content is updated afterwards.                                        *)
ApplyMoveChange(w, c, was) ==
  LET below == ToSet(c.descendants)
      revs == [id \in {Remote(d.doc).id : d \in below} |->
                 Remote((CHOOSE d \in below : Remote(d.doc).id = id).doc).rev]
      updates == SelectSeq(<<c>> \o c.descendants, LAMBDA d : d.update)
  IN FoldLeft(LAMBDA v, d : IF v.ok THEN UpdateFile(v, "remote", d.doc) ELSE v,
              PrepMove(w, "remote", c.doc, was, revs), updates)

(* What moved with its parent is read again; once nothing was found, every   *)
(* retry fails.                                                              *)
SourceOf(w, c) ==
  IF ~c.needRefetch \/ ~Given(c.was) THEN c.was
  ELSE LET now == ByRemoteId(w, Remote(The(c.was)).id)
       IN IF Given(now) THEN Some([The(now) EXCEPT !.childMove = FALSE]) ELSE Null

ApplyChange(w, c) ==
  LET source == SourceOf(w, c)
  IN CASE IsTrash(c) -> PrepTrash(w, "remote", The(c.was), c.doc)
       [] IsDelete(c) -> PrepDelete(w, "remote", c.doc)
       [] c.type = "FileAddition" -> AddFile(w, "remote", c.doc)
       [] c.type \in {"DirAddition", "DirUpdate"} -> PutFolder(w, "remote", c.doc)
       [] c.type = "FileUpdate" -> UpdateFile(w, "remote", c.doc)
       [] c.type \in {"FileMove", "DirMove"} /\ ~Given(source) -> Fails(w)
       [] c.type \in {"FileMove", "DirMove"} /\ Given(source) ->
            ApplyMoveChange(w, c, The(source))
       [] OTHER -> w

(* applyAll: what failed is applied again as long as something was applied.  *)
(* But for its source, a change that is applied again is as it was first.    *)
ApplyRound(p) ==
  LET read(w, c) == IF IsMove(c) THEN [c EXCEPT !.was = SourceOf(w, c)] ELSE c
      applied(q, c, after) ==
        [w |-> [after EXCEPT !.ok = TRUE],
         todo |-> IF after.ok THEN q.todo ELSE Append(q.todo, read(q.w, c))]
      over(q) == [w |-> q.w, todo |-> q.todo,
                  over |-> q.todo = <<>> \/ Len(q.todo) = Len(p.todo)]
  IN over(FoldLeft(LAMBDA q, c : applied(q, c, ApplyChange(q.w, c)),
                   [w |-> p.w, todo |-> <<>>], p.todo))

ApplyAll(w, changes) ==
  FoldLeft(LAMBDA p, i : IF p.over THEN p ELSE ApplyRound(p),
           [w |-> w, todo |-> changes, over |-> changes = <<>>],
           [i \in DOMAIN changes |-> i])

(* The documents of the feed. One that was destroyed has its id only.        *)
RemoteDocs(w) ==
  LET path == PathsOf(w.cozy)
      doc(id) == IF id \in DOMAIN w.cozy
                 THEN FromRemoteDoc(id, [docType |-> w.cozy[id].docType,
                                         path |-> path[id],
                                         md5sum |-> w.cozy[id].md5sum,
                                         rev |-> w.cozy[id].rev])
                 ELSE [NewDoc("file", Null, 0) EXCEPT
                         !.deleted = TRUE,
                         !.remote = Some([id |-> id, rev |-> 0, md5sum |-> 0])]
  IN [i \in DOMAIN w.unseen |-> doc(w.unseen[i])]

(* watch: the remote sequence is saved if all changes were applied.          *)
Watched(w, pulled) ==
  LET again == SelectSeq(w.unseen, LAMBDA id : id \notin ToSet(pulled.w.unseen))
  IN IF pulled.todo = <<>> THEN pulled.w
     ELSE [pulled.w EXCEPT !.unseen = again \o @]

Watch(w) ==
  Watched(w, ApplyAll([w EXCEPT !.unseen = <<>>], Analyse(w, RemoteDocs(w))))
=============================================================================
