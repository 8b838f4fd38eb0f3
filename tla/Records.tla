------------------------------ MODULE Records -------------------------------
(* The records of files and folders, and Pouch, where they are saved         *)
(* (core/metadata.js, core/move.js, core/pouch/index.js). A path is the      *)
(* sequence of its names, which are numbers; the order of numbers is that of *)
(* names. What may be missing is a sequence of at most one element.          *)
EXTENDS Metadata, SequencesExt

Null == <<>>
Some(x) == <<x>>
Given(maybe) == maybe # Null
The(maybe) == maybe[1]

(* Paths *)
Dirname(path) == Front(path)
Basename(path) == Last(path)

AreParentChildPaths(parent, child) == IsStrictPrefix(parent, child)

NewChildPath(path, oldParent, newParent) ==
  newParent \o SubSeq(path, Len(oldParent) + 1, Len(path))

(* The order of strings, where a separator comes before names.               *)
Lower(one, two) ==
  \/ IsStrictPrefix(one, two)
  \/ \E i \in DOMAIN one \cap DOMAIN two :
       /\ SubSeq(one, 1, i - 1) = SubSeq(two, 1, i - 1)
       /\ one[i] < two[i]

(* The name of a conflict copy tells when it was given, and replaces that of *)
(* a former conflict.                                                        *)
ConflictName(name, date) == (name % 1000) + 1000 * date
CreateConflictingDoc(doc, date) ==
  [doc EXCEPT !.path = Append(Dirname(doc.path),
                              ConflictName(Basename(doc.path), date))]
-----------------------------------------------------------------------------
(* A record. id and rev are those of Pouch, 0 until it is saved; dead stands *)
(* for _deleted; local is [path, md5sum, ino], remote [id, rev, md5sum].     *)
NewDoc(docType, path, md5sum) ==
  [id |-> 0, rev |-> 0, dead |-> FALSE, docType |-> docType, path |-> path,
   md5sum |-> md5sum, ino |-> 0, local |-> Null, remote |-> Null,
   sides |-> NoSides, deleted |-> FALSE, trashed |-> FALSE, moveFrom |-> Null,
   moveTo |-> Null, childMove |-> FALSE, overwrite |-> Null, errors |-> 0]

UpdateLocal(doc) ==
  [doc EXCEPT !.local = Some([path |-> doc.path, md5sum |-> doc.md5sum,
                              ino |-> doc.ino])]

(* buildFile and buildDir *)
BuildLocal(docType, path, md5sum, ino) ==
  UpdateLocal([NewDoc(docType, path, md5sum) EXCEPT !.ino = ino])

(* fromRemoteDoc *)
FromRemoteDoc(id, remote) ==
  [NewDoc(remote.docType, remote.path, remote.md5sum) EXCEPT
     !.remote = Some([id |-> id, rev |-> remote.rev, md5sum |-> remote.md5sum])]

Remote(doc) == IF Given(doc.remote) THEN doc.remote[1]
               ELSE [id |-> 0, rev |-> 0, md5sum |-> 0]
Local(doc) == IF Given(doc.local) THEN doc.local[1]
              ELSE [path |-> <<>>, md5sum |-> 0, ino |-> 0]

SameBinary(one, two) == one = two
SameFile(one, two) ==
  /\ one.path = two.path /\ one.docType = two.docType
  /\ one.md5sum = two.md5sum /\ one.trashed = two.trashed /\ one.ino = two.ino
  /\ Remote(one).id = Remote(two).id /\ Remote(one).rev = Remote(two).rev
SameFolder(one, two) ==
  /\ one.path = two.path /\ one.docType = two.docType
  /\ one.trashed = two.trashed /\ one.ino = two.ino
  /\ Remote(one) = Remote(two)

(* markSide: prev is the record whose change is made, if there is one.       *)
MarkRecord(side, doc, prev) ==
  LET known == IF Given(prev) THEN The(prev).sides ELSE NoSides
      kept == IF doc.sides = NoSides THEN known ELSE doc.sides
      next == known.target + 1
  IN [doc EXCEPT !.sides = [kept EXCEPT ![side] = next, !.target = next]]

Remark(side, doc) == MarkRecord(side, doc, Some(doc))

DissociateRecord(side, doc) ==
  LET alone == [doc EXCEPT !.sides = Dissociated(side, doc.sides)]
  IN IF side = "local" THEN [alone EXCEPT !.local = Null]
     ELSE [alone EXCEPT !.remote = Null]

RemoveActionHints(doc) ==
  [doc EXCEPT !.sides = NoSides, !.moveFrom = Null, !.moveTo = Null]

MarkAsUnsyncable(doc) ==
  [RemoveActionHints(doc) EXCEPT !.overwrite = Null, !.local = Null,
                                 !.remote = Null, !.dead = TRUE]

MarkAsUnmerged(doc, side) ==
  DissociateRecord(OtherSide(side),
    [RemoveActionHints(doc) EXCEPT !.id = 0, !.rev = 0, !.dead = FALSE])

WasSynced(doc) == HasBothSides(doc.sides) \/ Given(doc.moveFrom)

(* The only side of a record, if it has one only.                            *)
SingleSide(doc) == IF doc.sides.local = 0 /\ doc.sides.remote = 0 THEN "none"
                   ELSE CASE doc.sides.remote = 0 -> "local"
                          [] doc.sides.local = 0 -> "remote"
                          [] OTHER -> "none"

OrElse(maybe, default) == IF Given(maybe) THEN maybe ELSE default

(* move: what dst lacks is copied from src, action hints and the attributes  *)
(* of Pouch excepted.                                                        *)
MoveDst(side, src, dst) ==
  LET filled == [dst EXCEPT
        !.local = OrElse(dst.local, src.local),
        !.remote = OrElse(dst.remote, src.remote),
        !.sides = IF dst.sides = NoSides THEN src.sides ELSE dst.sides,
        !.ino = IF dst.ino = 0 THEN src.ino ELSE dst.ino,
        !.deleted = dst.deleted \/ src.deleted,
        !.childMove = dst.childMove \/ src.childMove,
        !.errors = 0, !.trashed = FALSE]
      fresh == IF Given(dst.overwrite) THEN filled
               ELSE [filled EXCEPT !.id = 0, !.rev = 0]
  IN MarkRecord(side, fresh, Some(src))

(* A move that lets the source of a child be moved by itself.                *)
MoveAlone(side, source, dst, isChild) ==
  LET src == [source EXCEPT !.moveTo = Some(dst.path), !.dead = TRUE,
                            !.errors = 0]
  IN [src |-> src,
      dst |-> [MoveDst(side, source, dst) EXCEPT !.moveFrom = Some(src)]]

(* move, and child for what moves with its parent                            *)
Move(side, source, dst, isChild) ==
  LET src == [source EXCEPT !.moveTo = Some(dst.path), !.dead = TRUE,
                            !.errors = 0,
                            !.childMove = isChild \/ source.childMove]
  IN [src |-> src,
      dst |-> [MoveDst(side, source, dst) EXCEPT !.moveFrom = Some(src)]]

(* convertToDestinationAddition *)
MoveAddition(side, src, dst) ==
  [src |-> MarkAsUnsyncable(src),
   dst |-> MarkRecord(side, MarkAsUnmerged(dst, side), Null)]
-----------------------------------------------------------------------------
(* Pouch. A world has the saved records db, in the order of their changes,   *)
(* each with its revisions, and pending if Sync has to deal with the last of *)
(* them; ids, the last number given. Whatever fails makes ok false and *)
(* tells the code of the error.                                              *)
FailsWith(w, code) == [w EXCEPT !.ok = FALSE, !.code = code]
Fails(w) == FailsWith(w, "Unknown")

(* What follows a step, unless it failed; and a step that may be refused.    *)
AndThen(w, Next(_)) == IF w.ok THEN Next(w) ELSE w
Unless(w, refusal, after) == IF refusal = "none" THEN after ELSE FailsWith(w, refusal)

Saved(w, id) == SelectSeq(w.db, LAMBDA r : r.doc.id = id)

Unlisted(w, id) ==
  [w EXCEPT !.db = SelectSeq(w.db, LAMBDA r : r.doc.id # id)]

(* metadata.invariants *)
Valid(doc) ==
  \/ doc.dead /\ ~Given(doc.moveTo)
  \/ /\ doc.sides # NoSides
     /\ doc.sides.remote # 0 => Given(doc.remote)
     /\ doc.sides.local # 0 => Given(doc.local)

(* A revision is accepted on top of the one it was made from.                *)
Accepts(w, doc) ==
  LET known == Saved(w, doc.id)
  IN doc.rev = IF known = Null THEN 0 ELSE The(known).doc.rev

(* Sync has something to do of a record one side of which is late, or that   *)
(* is deleted and was never on both.                                         *)
ForSync(doc) == \/ OutOfDateSide(doc.sides) # "none"
                \/ doc.deleted /\ ~WasSynced(doc)

Write(w, doc) ==
  LET id == IF doc.id = 0 THEN w.ids + 1 ELSE doc.id
      saved == [doc EXCEPT !.id = id, !.rev = @ + 1]
      known == Saved(w, id)
      entry == [doc |-> saved, pending |-> ForSync(saved),
                revs |-> IF known = Null THEN <<saved>>
                         ELSE Append(The(known).revs, saved)]
  IN [Unlisted(w, id) EXCEPT !.ids = IF doc.id = 0 THEN @ + 1 ELSE @,
                             !.db = IF doc.dead THEN @ ELSE Append(@, entry)]

(* put; an erased record leaves nothing Sync would act upon.                 *)
Put(w, doc) == IF Valid(doc) /\ Accepts(w, doc) THEN Write(w, doc) ELSE Fails(w)

(* getPreviousRev, of a record that is saved                                 *)
PreviousRev(w, id, revDiff) ==
  LET revs == The(Saved(w, id)).revs
  IN IF revDiff \in 0..(Len(revs) - 1) THEN Some(revs[Len(revs) - revDiff])
     ELSE Null

EraseDocument(w, doc) ==
  IF Accepts(w, doc) THEN Unlisted(w, doc.id) ELSE Fails(w)

(* bulkDocs is not a transaction: it saves what it can.                      *)
BulkDocs(w, docs) ==
  IF \E i \in DOMAIN docs : ~Valid(docs[i]) THEN Fails(w)
  ELSE FoldLeft(LAMBDA v, doc : IF Accepts(v, doc) THEN Write(v, doc)
                                ELSE Fails(v), w, docs)

Docs(w) == [i \in DOMAIN w.db |-> w.db[i].doc]

FirstOf(docs) == IF docs = <<>> THEN Null ELSE Some(Head(docs))

ById(w, id) == FirstOf(SelectSeq(Docs(w), LAMBDA d : d.id = id))
BySyncedPath(w, path) == FirstOf(SelectSeq(Docs(w), LAMBDA d : d.path = path))
ByLocalPath(w, path) ==
  FirstOf(SelectSeq(Docs(w), LAMBDA d : Given(d.local) /\ Local(d).path = path))
ByRemoteId(w, id) == FirstOf(SelectSeq(Docs(w), LAMBDA d : Remote(d).id = id))

(* byRecursivePath sorts by the path of the parent, then by name.            *)
Before(one, two) ==
  \/ Lower(Dirname(one.path), Dirname(two.path))
  \/ Dirname(one.path) = Dirname(two.path) /\ Basename(one.path) < Basename(two.path)

ByRecursivePath(w, path) ==
  SortSeq(SelectSeq(Docs(w), LAMBDA d : AreParentChildPaths(path, d.path)), Before)
=============================================================================
