--------------------------- MODULE FileSyncProofs ---------------------------
(* Invariants of the record of a file, for any number of changes, faults    *)
(* and retries.                                                             *)
EXTENDS FileSync, TLAPS

(* Records *)

Follows(sides) == /\ sides.local <= sides.target
                  /\ sides.remote <= sides.target
                  /\ sides.local = sides.target \/ sides.remote = sides.target

(* What the record of a side that knows the file tells of it.               *)
Tells(record) == /\ record.sides.remote # 0 => record.remote # NoRemote
                 /\ record.sides.local # 0 => record.local # NoFile

(* Good holds of every record at hand, NoDoc included; ids are the files    *)
(* the Cozy had.                                                            *)
Good(record, ids) ==
  /\ record \in Docs
  /\ Follows(record.sides)
  /\ record # NoDoc => record.sides # NoSides
  /\ Tells(record)
  /\ record.remote # NoRemote => record.remote.id \in ids

(* NoDoc is good. *)
LEMMA NoDocGood == ASSUME NEW ids PROVE Good(NoDoc, ids)
BY DEF Good, NoDoc, NoSides, NoFile, NoRemote, None, Docs, Sides, Files,
       Stamps, RemoteInfos, Follows, Tells

(* A record stays good when the Cozy has more files. *)
LEMMA GoodKept ==
  ASSUME NEW ids, NEW more, ids \subseteq more, NEW record, Good(record, ids)
  PROVE  Good(record, more)
BY DEF Good

(* What a record becomes when some of it changes. *)
LEMMA SidesWith ==
  ASSUME NEW sides \in Sides, NEW n \in Nat
  PROVE  /\ \A side \in Side : [sides EXCEPT ![side] = n] \in Sides
         /\ [sides EXCEPT !.target = n] \in Sides
BY DEF Sides, Side

LEMMA DocWith ==
  ASSUME NEW record \in Docs
  PROVE  /\ \A sides \in Sides : [record EXCEPT !.sides = sides] \in Docs
         /\ \A file \in Files : [record EXCEPT !.local = file] \in Docs
         /\ \A ino \in Stamps : [record EXCEPT !.ino = ino] \in Docs
         /\ \A info \in RemoteInfos : [record EXCEPT !.remote = info] \in Docs
         /\ \A n \in Nat : /\ [record EXCEPT !.rev = n] \in Docs
                           /\ [record EXCEPT !.md5sum = n] \in Docs
                           /\ [record EXCEPT !.errors = n] \in Docs
         /\ [record EXCEPT !.errors = @ + 1] \in Docs
         /\ \A b \in BOOLEAN : /\ [record EXCEPT !.deleted = b] \in Docs
                               /\ [record EXCEPT !.trashed = b] \in Docs
BY DEF Docs

LEMMA MarkSideIs ==
  ASSUME NEW sides \in Sides, NEW side \in Side
  PROVE  /\ MarkSide(side, sides) \in Sides
         /\ MarkSide(side, sides).target = sides.target + 1
         /\ MarkSide(side, sides)[side] = sides.target + 1
         /\ MarkSide(side, sides)[OtherSide(side)] = sides[OtherSide(side)]
<1>1. sides.target + 1 \in Nat
  BY DEF Sides
<1>2. MarkSide(side, sides) \in Sides
  BY <1>1, SidesWith DEF MarkSide
<1> QED
  BY <1>2 DEF MarkSide, OtherSide, Side, Sides

LEMMA MarkedIs ==
  ASSUME NEW record \in Docs, NEW side \in Side
  PROVE  LET marked == Marked(side, record) IN
         /\ marked \in Docs
         /\ marked.sides = MarkSide(side, record.sides)
         /\ marked.local = record.local /\ marked.remote = record.remote
<1>1. MarkSide(side, record.sides) \in Sides
  BY MarkSideIs DEF Docs
<1> QED
  BY <1>1 DEF Marked, Docs

(* A mark on a side whose file is told makes a good record that Pouch       *)
(* accepts, whatever sides were up to date before.                          *)
LEMMA MarkedGood ==
  ASSUME NEW ids, NEW record \in Docs, NEW side \in Side,
         record.sides.local <= record.sides.target,
         record.sides.remote <= record.sides.target,
         Tells(record),
         record.remote # NoRemote => record.remote.id \in ids,
         side = "local" => record.local # NoFile,
         side = "remote" => record.remote # NoRemote
  PROVE  Good(Marked(side, record), ids) /\ Valid(Marked(side, record))
<1> DEFINE marked == Marked(side, record)
<1>1. /\ marked \in Docs /\ marked.sides \in Sides /\ record.sides \in Sides
      /\ marked.local = record.local /\ marked.remote = record.remote
      /\ marked.sides.target = record.sides.target + 1
      /\ marked.sides[side] = record.sides.target + 1
      /\ marked.sides[OtherSide(side)] = record.sides[OtherSide(side)]
  BY MarkedIs, MarkSideIs DEF Docs
<1> HIDE DEF marked
<1>2. marked.sides # NoSides
  BY <1>1 DEF Sides, NoSides
<1>3. Follows(marked.sides) /\ Tells(marked)
  BY <1>1 DEF Sides, Side, OtherSide, Follows, Tells
<1>4. Good(marked, ids) /\ Valid(marked)
  BY <1>1, <1>2, <1>3 DEF Good, Valid, Tells
<1> QED
  BY <1>4 DEF marked

(* Merges *)

(* What a merge saves or erases is a good record, and Pouch accepts it.     *)
Sound(outcome, ids) ==
  /\ outcome.op \in {"none", "put", "erase"}
  /\ Good(outcome.doc, ids)
  /\ outcome.op = "put" => Valid(outcome.doc)

LEMMA SimpleOutcomes ==
  ASSUME NEW ids, NEW record, Good(record, ids)
  PROVE  /\ Sound(Ignore, ids) /\ Sound(Erase(record), ids)
         /\ Valid(record) => Sound(Save(record), ids)
BY NoDocGood DEF Sound, Ignore, Erase, Save

(* The side that stays knows the last change. *)
LEMMA DissociateGood ==
  ASSUME NEW ids, NEW was, Good(was, ids), NEW side \in Side,
         was.sides[side] < was.sides.target
  PROVE  LET alone == Dissociate(side, was) IN
         /\ Good(alone, ids) /\ Valid(alone)
         /\ alone.sides = Dissociated(side, was.sides)
         /\ alone.sides.target = was.sides.target
         /\ side = "local" => alone.remote = was.remote
         /\ side = "remote" => alone.local = was.local
<1> DEFINE alone == Dissociate(side, was)
           half == [was EXCEPT !.sides = Dissociated(side, was.sides)]
<1>1. /\ was \in Docs /\ was.sides \in Sides
      /\ NoFile \in Files /\ NoRemote \in RemoteInfos
  BY DEF Good, Docs, Files, Stamps, RemoteInfos, NoFile, NoRemote, None
<1>2. /\ Dissociated(side, was.sides) \in Sides
      /\ Dissociated(side, was.sides).target = was.sides.target
      /\ Dissociated(side, was.sides)[side] = 0
      /\ Dissociated(side, was.sides)[OtherSide(side)] = was.sides[OtherSide(side)]
  BY <1>1, SidesWith DEF Dissociated, Sides, Side, OtherSide
<1>3. /\ half \in Docs /\ half.sides = Dissociated(side, was.sides)
      /\ half.local = was.local /\ half.remote = was.remote
  BY <1>1, <1>2 DEF Docs
<1>4. /\ alone \in Docs /\ alone.sides = Dissociated(side, was.sides)
      /\ side = "local" => alone.local = NoFile /\ alone.remote = was.remote
      /\ side = "remote" => alone.remote = NoRemote /\ alone.local = was.local
  <2> HIDE DEF half
  <2>1. alone = IF side = "local" THEN [half EXCEPT !.local = NoFile]
                ELSE [half EXCEPT !.remote = NoRemote]
    BY DEF Dissociate, half
  <2> HIDE DEF alone
  <2> QED
    BY <1>1, <1>3, <2>1 DEF Docs, Side
<1> HIDE DEF alone, half
<1>5. was.sides[OtherSide(side)] = was.sides.target /\ was.sides.target # 0
  BY <1>1 DEF Good, Follows, Sides, Side, OtherSide
<1>6. Follows(alone.sides) /\ alone.sides # NoSides
  BY <1>1, <1>2, <1>4, <1>5 DEF Follows, Sides, Side, OtherSide, NoSides
<1>7. Tells(alone)
  BY <1>1, <1>2, <1>4, <1>5 DEF Good, Tells, Sides, Side, OtherSide
<1>8. alone.remote # NoRemote => alone.remote.id \in ids
  BY <1>4 DEF Good, Side
<1>9. Good(alone, ids) /\ Valid(alone)
  BY <1>4, <1>6, <1>7, <1>8 DEF Good, Valid, Tells
<1> QED
  BY <1>2, <1>4, <1>9 DEF alone

(* A side that is not up to date is behind the target, which the other side *)
(* has reached.                                                             *)
LEMMA BehindTarget ==
  ASSUME NEW ids, NEW was, Good(was, ids), was # NoDoc, NEW side \in Side,
         ~IsAtLeastUpToDate(side, was.sides)
  PROVE  /\ was.sides[side] < was.sides.target
         /\ was.sides[OtherSide(side)] = was.sides.target
         /\ was.sides.target \in Nat \ {0}
<1>1. was.sides \in Sides /\ Follows(was.sides) /\ was.sides # NoSides
  BY DEF Good, Docs
<1>2. was.sides.target # 0
  BY <1>1 DEF Follows, Sides, NoSides
<1> QED
  BY <1>1, <1>2 DEF IsAtLeastUpToDate, HasBothSides, Follows, Sides, Side,
                    OtherSide

(* Renaming a conflict leaves a record of the other side. *)
LEMMA ConflictSound ==
  ASSUME NEW ids, NEW was, Good(was, ids), was # NoDoc, NEW side \in Side,
         ~IsAtLeastUpToDate(side, was.sides), NEW known \in BOOLEAN
  PROVE  Sound(Conflict(side, known, was), ids)
<1> DEFINE alone == Dissociate(side, was)
           other == OtherSide(side)
<1>1. /\ was.sides[side] < was.sides.target
      /\ was.sides[other] = was.sides.target
      /\ was.sides.target \in Nat \ {0}
  BY BehindTarget
<1>2. /\ Good(alone, ids) /\ alone.sides = Dissociated(side, was.sides)
      /\ side = "local" => alone.remote = was.remote
      /\ side = "remote" => alone.local = was.local
  BY <1>1, DissociateGood
<1>3. other \in Side /\ other # side
  BY DEF Side, OtherSide
<1>4. /\ other = "local" => alone.local # NoFile
      /\ other = "remote" => alone.remote # NoRemote
  BY <1>1, <1>2 DEF Good, Tells, OtherSide, Side
<1>5. Good(Marked(other, alone), ids) /\ Valid(Marked(other, alone))
  <2> HIDE DEF alone, other
  <2> QED
    BY <1>2, <1>3, <1>4, MarkedGood DEF Good, Follows
<1> QED
  BY <1>5, NoDocGood DEF Conflict, Sound

LEMMA LocalUpdateSound ==
  ASSUME NEW ids, NEW was, Good(was, ids), NEW file \in Files, file # NoFile
  PROVE  Sound(LocalUpdate(file, was), ids)
<1> DEFINE seen == [was EXCEPT !.md5sum = file.content, !.ino = file.ino,
                               !.local = file]
           known == [was EXCEPT !.local = file]
           late == OutOfDateSide(was.sides)
           marked == Marked("local", seen)
           revived == [marked EXCEPT !.deleted = FALSE, !.trashed = FALSE,
                                     !.errors = 0]
<1>1. /\ was \in Docs /\ was.sides \in Sides
      /\ file.content \in Nat /\ file.ino \in Stamps
  BY DEF Good, Files, Docs
<1>2. /\ seen \in Docs /\ seen.sides = was.sides
      /\ seen.local = file /\ seen.remote = was.remote
  BY <1>1, DocWith DEF Docs
<1>3. /\ known \in Docs /\ known.sides = was.sides
      /\ known.local = file /\ known.remote = was.remote
  BY <1>1, DocWith DEF Docs
<1>4. Good(marked, ids) /\ Valid(marked)
  <2> HIDE DEF seen
  <2> QED
    BY <1>2, MarkedGood DEF Good, Tells, Follows, Side
<1>5. Good(revived, ids) /\ Valid(revived)
  <2>1. marked \in Docs /\ marked.sides # NoSides
    BY <1>4 DEF Good, Valid
  <2> HIDE DEF marked
  <2>2. /\ revived \in Docs /\ revived.sides = marked.sides
        /\ revived.local = marked.local /\ revived.remote = marked.remote
    BY <2>1, DocWith DEF Docs
  <2> HIDE DEF revived
  <2> QED
    BY <1>4, <2>1, <2>2 DEF Good, Valid, Tells
<1>6. was # NoDoc => Good(known, ids) /\ Valid(known)
  <2> HIDE DEF known
  <2> QED
    BY <1>3 DEF Good, Valid, Tells
<1>7. was # NoDoc /\ late # "none" =>
        /\ Good(Marked(OtherSide(late), known), ids)
        /\ Valid(Marked(OtherSide(late), known))
  <2> SUFFICES ASSUME was # NoDoc, late # "none"
               PROVE  /\ Good(Marked(OtherSide(late), known), ids)
                      /\ Valid(Marked(OtherSide(late), known))
    OBVIOUS
  <2>1. /\ OtherSide(late) \in Side
        /\ OtherSide(late) = "remote" => was.sides.remote # 0
    BY <1>1 DEF OutOfDateSide, OtherSide, Side, Sides
  <2>2. OtherSide(late) = "remote" => known.remote # NoRemote
    BY <1>3, <2>1 DEF Good, Tells
  <2> HIDE DEF known, late
  <2> QED
    BY <1>3, <2>1, <2>2, MarkedGood DEF Good, Tells, Follows
<1>8. was # NoDoc /\ ~IsAtLeastUpToDate("local", was.sides) =>
        Sound(Conflict("local", was.local # NoFile, was), ids)
  BY ConflictSound DEF Side
<1> HIDE DEF seen, known, late, marked, revived
<1>9. Sound(Ignore, ids) /\ Sound(Save(marked), ids) /\ Sound(Save(revived), ids)
  BY <1>4, <1>5, SimpleOutcomes
<1>10. was # NoDoc => /\ Sound(Save(known), ids)
                      /\ late # "none" => Sound(Save(Marked(OtherSide(late), known)), ids)
  BY <1>6, <1>7, SimpleOutcomes
<1> QED
  BY <1>8, <1>9, <1>10
     DEF LocalUpdate, seen, known, late, marked, revived

LEMMA RemoteUpdateSound ==
  ASSUME NEW ids, NEW was, Good(was, ids),
         NEW info \in RemoteInfos, info # NoRemote, info.id \in ids
  PROVE  Sound(RemoteUpdate(info, was), ids)
<1> DEFINE seen == [was EXCEPT !.md5sum = info.content, !.remote = info]
           alone == [NoDoc EXCEPT !.rev = was.rev, !.md5sum = info.content,
                                  !.remote = info]
<1>1. /\ was \in Docs /\ info.content \in Nat /\ was.rev \in Nat
      /\ NoDoc \in Docs
  BY NoDocGood DEF Good, RemoteInfos, Docs
<1>2. /\ seen \in Docs /\ seen.sides = was.sides
      /\ seen.local = was.local /\ seen.remote = info
  BY <1>1, DocWith DEF Docs
<1>3. /\ alone \in Docs /\ alone.sides = NoSides
      /\ alone.local = NoFile /\ alone.remote = info
  <2>1. alone \in Docs
    BY <1>1, DocWith
  <2> QED
    BY <2>1 DEF NoDoc
<1>4. Good(Marked("remote", seen), ids) /\ Valid(Marked("remote", seen))
  <2> HIDE DEF seen
  <2> QED
    BY <1>2, MarkedGood DEF Good, Tells, Follows, Side
<1>5. Good(Marked("remote", alone), ids) /\ Valid(Marked("remote", alone))
  <2>1. Follows(alone.sides) /\ Tells(alone)
    BY <1>3 DEF Follows, Tells, NoSides
  <2> HIDE DEF alone
  <2> QED
    BY <1>3, <2>1, MarkedGood DEF Follows, Side
<1>6. was # NoDoc /\ ~IsAtLeastUpToDate("remote", was.sides) =>
        Sound(Conflict("remote", was.remote # NoRemote, was), ids)
  BY ConflictSound DEF Side
<1> HIDE DEF seen, alone
<1>7. /\ Sound(Ignore, ids) /\ Sound(Save(Marked("remote", seen)), ids)
      /\ Sound(Save(Marked("remote", alone)), ids)
  BY <1>4, <1>5, SimpleOutcomes
<1> QED
  BY <1>6, <1>7 DEF RemoteUpdate, seen, alone

LEMMA TrashSound ==
  ASSUME NEW ids, NEW was, Good(was, ids), was # NoDoc, NEW side \in Side
  PROVE  Sound(Trash(side, was), ids)
<1> DEFINE calm == [was EXCEPT !.errors = 0]
           deleted == [Marked(side, calm) EXCEPT !.deleted = TRUE]
           trashed == [calm EXCEPT !.trashed = TRUE]
<1>1. was \in Docs /\ was.sides \in Sides /\ was.sides # NoSides
  BY DEF Good, Docs
<1>2. /\ calm \in Docs /\ calm.sides = was.sides
      /\ calm.local = was.local /\ calm.remote = was.remote
  BY <1>1, DocWith DEF Docs
<1>3. ~IsAtLeastUpToDate(side, was.sides) => Sound(Save(Dissociate(side, was)), ids)
  <2> SUFFICES ASSUME ~IsAtLeastUpToDate(side, was.sides)
               PROVE  Sound(Save(Dissociate(side, was)), ids)
    OBVIOUS
  <2>1. was.sides[side] < was.sides.target
    BY BehindTarget
  <2>2. Good(Dissociate(side, was), ids) /\ Valid(Dissociate(side, was))
    BY <2>1, DissociateGood
  <2> QED
    BY <2>2, SimpleOutcomes
<1>4. was.sides[side] # 0 => Good(deleted, ids) /\ Valid(deleted)
  <2> SUFFICES ASSUME was.sides[side] # 0
               PROVE  Good(deleted, ids) /\ Valid(deleted)
    OBVIOUS
  <2> DEFINE marked == Marked(side, calm)
  <2>1. Good(marked, ids) /\ Valid(marked)
    <3>1. /\ side = "local" => calm.local # NoFile
          /\ side = "remote" => calm.remote # NoRemote
      BY <1>2 DEF Good, Tells
    <3> HIDE DEF calm
    <3> QED
      BY <1>2, <3>1, MarkedGood DEF Good, Tells, Follows
  <2>2. marked \in Docs /\ marked.sides # NoSides
    BY <2>1 DEF Good, Valid
  <2> HIDE DEF marked
  <2>3. [marked EXCEPT !.deleted = TRUE] \in Docs
    BY <2>2, DocWith
  <2>4. Good([marked EXCEPT !.deleted = TRUE], ids)
        /\ Valid([marked EXCEPT !.deleted = TRUE])
    BY <2>1, <2>2, <2>3 DEF Good, Valid, Tells, Docs, NoDoc
  <2> QED
    BY <2>4 DEF marked
<1>5. Good(trashed, ids) /\ Valid(trashed)
  <2> HIDE DEF calm
  <2>1. /\ trashed \in Docs /\ trashed.sides = calm.sides
        /\ trashed.local = calm.local /\ trashed.remote = calm.remote
    BY <1>2, DocWith DEF Docs
  <2> HIDE DEF trashed
  <2> QED
    BY <1>1, <1>2, <2>1 DEF Good, Valid, Tells
<1> HIDE DEF calm, deleted, trashed
<1>6. was.sides[side] # 0 => Sound(Save(deleted), ids)
  BY <1>4, SimpleOutcomes
<1>7. Sound(Save(trashed), ids) /\ Sound(Erase(was), ids)
  BY <1>5, SimpleOutcomes
<1> QED
  BY <1>3, <1>6, <1>7 DEF Trash, calm, deleted, trashed

(* The invariant *)

(* All the records at hand are good: the one of Pouch, the one a merge has  *)
(* read, those of the change that Sync applies and of the one that failed.  *)
RecordsOK == /\ Good(doc, DOMAIN cozy)
             /\ Good(merge.was, DOMAIN cozy)
             /\ Good(sync.change, DOMAIN cozy)
             /\ Good(blocked.change, DOMAIN cozy)

(* The events being merged are those of files the Cozy has. *)
EventsOK == \A event \in pull.todo \cup pull.failed : event.id \in DOMAIN cozy

(* Only watchers that hold the lock merge. *)
MergeOK == merge # NoMerge =>
             \/ owner = "local"
             \/ owner = "remote" /\ merge.event.id \in DOMAIN cozy

(* Sync applies a change with the lock. When it records it as done on both  *)
(* sides, the record tells what each of them has.                           *)
SyncOK ==
  /\ sync.pc # "idle" => owner = "sync"
  /\ sync.pc = "apply" => sync.side = OutOfDateSide(sync.change.sides)
  /\ sync.pc \in {"apply", "seq"} => /\ blocked = NoBlock
                                     /\ sync.side = OutOfDateSide(doc.sides)
  /\ sync.pc \in {"seq", "save"} =>
       \/ sync.change.deleted
       \/ sync.change.local # NoFile /\ sync.change.remote # NoRemote

BlockedOK == blocked # NoBlock =>
               /\ blocked.side \in Side
               /\ blocked.side = OutOfDateSide(blocked.change.sides)

IInv == TypeOK /\ RecordsOK /\ EventsOK /\ MergeOK /\ SyncOK /\ BlockedOK

LEMMA InitIInv == Init => IInv
<1> SUFFICES ASSUME Init PROVE IInv
  OBVIOUS
<1>1. /\ cozy = <<>> /\ doc = NoDoc /\ merge.was = NoDoc
      /\ sync.change = NoDoc /\ blocked.change = NoDoc
      /\ NoDoc \in Docs /\ NoFile \in Files /\ NoEvent \in Events
  BY NoDocGood DEF Init, NoMerge, NoSync, NoBlock, Good, Files, Stamps, NoFile,
                   None, Events, NoEvent, Places
<1>2. RecordsOK
  BY <1>1, NoDocGood DEF RecordsOK
<1>3. EventsOK /\ MergeOK /\ SyncOK /\ BlockedOK
  BY DEF Init, EventsOK, NoPull, MergeOK, SyncOK, NoSync, BlockedOK
<1>4. TypeOK
  <2>1. /\ cozy \in Seq([rev : Nat, content : Nat, where : Places])
        /\ found \in Seq(Files) /\ history \in Seq(Docs)
        /\ unseen \subseteq DOMAIN cozy /\ recent \subseteq unseen
    BY DEF Init
  <2>2. /\ merge \in [pc : {"idle", "read"}, file : Files, event : Events,
                     was : Docs]
        /\ sync \in [pc : {"idle", "apply", "seq", "save"}, change : Docs,
                    side : Side \cup {"none"}]
        /\ blocked \in [change : Docs, side : Side \cup {"none"}]
        /\ pull.todo = {} /\ pull.failed = {} /\ pull.progress = FALSE
    BY <1>1 DEF Init, NoMerge, NoPull, NoSync, NoBlock
  <2>3. /\ disk \in Files /\ dirty \in BOOLEAN /\ doc \in Docs
        /\ pending \in BOOLEAN /\ puts \in Nat /\ owner = "none"
        /\ copies = {} /\ bin = {} /\ wanted = {}
    BY <1>1 DEF Init
  <2>4. ops \in 0..MaxOps /\ faults \in 0..MaxFaults /\ retries \in 0..MaxRetries
    BY FileSyncAssumption DEF Init
  <2> QED
    BY <2>1, <2>2, <2>3, <2>4 DEF TypeOK
<1> QED
  BY <1>2, <1>3, <1>4 DEF IInv

(* The Cozy *)

File == [rev : Nat, content : Nat, where : Places]

RemoteTypes == /\ cozy \in Seq(File)
               /\ unseen \subseteq DOMAIN cozy /\ recent \subseteq unseen

LEMMA ReviseTypes ==
  ASSUME RemoteTypes, NEW id \in DOMAIN cozy, NEW content \in Nat,
         NEW where \in Places, Revise(id, content, where)
  PROVE  /\ RemoteTypes' /\ DOMAIN cozy' = DOMAIN cozy
         /\ RemoteInfo(id, cozy'[id]) \in RemoteInfos
<1>0. cozy[id] \in File
  BY DEF RemoteTypes
<1>1. [rev |-> cozy[id].rev + 1, content |-> content, where |-> where] \in File
  BY <1>0 DEF File
<1>2. cozy' \in Seq(File) /\ DOMAIN cozy' = DOMAIN cozy
  BY <1>1 DEF Revise, RemoteTypes
<1>3. unseen' \subseteq DOMAIN cozy' /\ recent' \subseteq unseen'
  BY <1>2 DEF Revise, RemoteTypes
<1>4. id \in Nat /\ cozy'[id] \in File
  BY <1>2 DEF RemoteTypes
<1> QED
  BY <1>2, <1>3, <1>4 DEF RemoteTypes, RemoteInfo, RemoteInfos, File

LEMMA CreateTypes ==
  ASSUME RemoteTypes, NEW content \in Nat, Create(content)
  PROVE  /\ RemoteTypes' /\ DOMAIN cozy \subseteq DOMAIN cozy'
         /\ Len(cozy') \in DOMAIN cozy' /\ Len(cozy') # 0
         /\ RemoteInfo(Len(cozy'), cozy'[Len(cozy')]) \in RemoteInfos
<1>1. [rev |-> 1, content |-> content, where |-> "live"] \in File
  BY DEF File, Places
<1>2. /\ cozy' \in Seq(File) /\ Len(cozy') = Len(cozy) + 1
      /\ DOMAIN cozy = 1..Len(cozy) /\ DOMAIN cozy' = 1..Len(cozy')
      /\ Len(cozy) \in Nat
  BY <1>1 DEF Create, RemoteTypes
<1>3. unseen' \subseteq DOMAIN cozy' /\ recent' \subseteq unseen'
  BY <1>2 DEF Create, RemoteTypes
<1>4. cozy'[Len(cozy')] \in File
  BY <1>2
<1> QED
  BY <1>2, <1>3, <1>4 DEF RemoteTypes, RemoteInfo, RemoteInfos, File

(* Pouch *)

PouchTypes == /\ doc \in Docs /\ history \in Seq(Docs)
              /\ pending \in BOOLEAN /\ puts \in Nat

LEMMA WriteGood ==
  ASSUME PouchTypes, NEW ids, NEW record, Good(record, ids),
         record.sides # NoSides, Write(record)
  PROVE  PouchTypes' /\ Good(doc', ids)
<1> DEFINE saved == [record EXCEPT !.rev = puts + 1]
<1>0. record \in Docs /\ puts + 1 \in Nat
  BY DEF PouchTypes, Good
<1>1. /\ saved \in Docs /\ saved.sides = record.sides
      /\ saved.local = record.local /\ saved.remote = record.remote
  BY <1>0, DocWith DEF Docs
<1>2. doc' = saved /\ pending' = TRUE /\ puts' = puts + 1
      /\ (history' = <<saved>> \/ history' = Append(history, saved))
  BY DEF Write
<1> HIDE DEF saved
<1>3. history' \in Seq(Docs)
  <2>1. <<saved>> \in Seq(Docs)
    BY <1>1
  <2>2. Append(history, saved) \in Seq(Docs)
    BY <1>1 DEF PouchTypes
  <2> QED
    BY <1>2, <2>1, <2>2
<1>4. Good(saved, ids)
  BY <1>0, <1>1 DEF Good, Tells
<1> QED
  BY <1>1, <1>2, <1>3, <1>4 DEF PouchTypes

LEMMA EraseGood ==
  ASSUME PouchTypes, NEW ids, EraseDoc
  PROVE  PouchTypes' /\ Good(doc', ids)
<1>1. doc' = NoDoc /\ history' = <<>> /\ pending' = FALSE /\ puts' = puts
  BY DEF EraseDoc
<1>2. Good(NoDoc, ids) /\ NoDoc \in Docs
  BY NoDocGood DEF Good
<1>3. <<>> \in Seq(Docs)
  OBVIOUS
<1> QED
  BY <1>1, <1>2, <1>3 DEF PouchTypes

LEMMA CommitsGood ==
  ASSUME PouchTypes, NEW ids, Good(doc, ids), NEW outcome,
         Sound(outcome, ids), Commits(outcome)
  PROVE  PouchTypes' /\ Good(doc', ids)
<1>1. CASE outcome.op = "none"
  BY <1>1 DEF Commits, pouch, PouchTypes
<1>2. CASE outcome.op = "put"
  <2>1. Valid(outcome.doc) /\ Write(outcome.doc)
    BY <1>2 DEF Commits
  <2> QED
    BY <2>1, WriteGood DEF Sound, Valid
<1>3. CASE outcome.op = "erase"
  BY <1>3, EraseGood DEF Commits
<1> QED
  BY <1>1, <1>2, <1>3 DEF Sound

(* Frames *)

LocalTypes == disk \in Files /\ dirty \in BOOLEAN /\ found \in Seq(Files)

MergeTypes ==
  /\ owner \in {"none", "local", "remote", "sync"}
  /\ merge \in [pc : {"idle", "read"}, file : Files, event : Events, was : Docs]
  /\ pull.todo \subseteq Events /\ pull.failed \subseteq Events
  /\ pull.progress \in BOOLEAN

SyncTypes ==
  /\ sync \in [pc : {"idle", "apply", "seq", "save"}, change : Docs,
               side : Side \cup {"none"}]
  /\ blocked \in [change : Docs, side : Side \cup {"none"}]

KeptTypes == copies \subseteq Nat /\ bin \subseteq Nat

CountTypes == /\ wanted \subseteq Nat /\ ops \in 0..MaxOps
              /\ faults \in 0..MaxFaults /\ retries \in 0..MaxRetries

Types == /\ LocalTypes /\ RemoteTypes /\ PouchTypes /\ MergeTypes
         /\ SyncTypes /\ KeptTypes /\ CountTypes

LEMMA TypeParts == TypeOK <=> Types
BY DEF TypeOK, Types, LocalTypes, RemoteTypes, PouchTypes, MergeTypes,
       SyncTypes, KeptTypes, CountTypes, File

LEMMA TypePartsNext == TypeOK' <=> Types'
BY DEF TypeOK, Types, LocalTypes, RemoteTypes, PouchTypes, MergeTypes,
       SyncTypes, KeptTypes, CountTypes, File

(* The parts of the types that a step leaves alone. *)
LEMMA TypesKept ==
  ASSUME Types
  PROVE  /\ UNCHANGED local => LocalTypes'
         /\ UNCHANGED remote => RemoteTypes'
         /\ UNCHANGED pouch => PouchTypes'
         /\ UNCHANGED <<owner, merging>> => MergeTypes'
         /\ UNCHANGED <<sync, blocked>> => SyncTypes'
         /\ UNCHANGED kept => KeptTypes'
         /\ UNCHANGED bounds => CountTypes'
BY DEF Types, LocalTypes, RemoteTypes, PouchTypes, MergeTypes, SyncTypes,
       KeptTypes, CountTypes, local, remote, pouch, merging, kept, bounds, users

(* Records stay good when they are left alone, or replaced by good ones.    *)
LEMMA RecordsKept ==
  ASSUME RecordsOK, DOMAIN cozy \subseteq DOMAIN cozy',
         doc' = doc \/ Good(doc', DOMAIN cozy'),
         merge' = merge \/ Good(merge'.was, DOMAIN cozy'),
         sync' = sync \/ Good(sync'.change, DOMAIN cozy'),
         blocked' = blocked \/ Good(blocked'.change, DOMAIN cozy')
  PROVE  RecordsOK'
<1>1. \A record : Good(record, DOMAIN cozy) => Good(record, DOMAIN cozy')
  BY GoodKept
<1> QED
  BY <1>1 DEF RecordsOK

LEMMA WatchersKept ==
  ASSUME EventsOK, MergeOK, DOMAIN cozy \subseteq DOMAIN cozy',
         UNCHANGED <<pull, merge, owner>>
  PROVE  EventsOK' /\ MergeOK'
BY DEF EventsOK, MergeOK

LEMMA SyncKept ==
  ASSUME SyncOK, BlockedOK, UNCHANGED <<doc, sync, blocked, owner>>
  PROVE  SyncOK' /\ BlockedOK'
BY DEF SyncOK, BlockedOK

(* Users *)

LEMMA FilesOfCozy ==
  ASSUME RemoteTypes
  PROVE  /\ Live \subseteq DOMAIN cozy /\ LiveContents \subseteq Nat
         /\ \A id \in DOMAIN cozy :
              cozy[id].content \in Nat /\ cozy[id].rev \in Nat
<1>1. \A id \in DOMAIN cozy : cozy[id] \in File
  BY DEF RemoteTypes
<1> QED
  BY <1>1 DEF Live, LiveContents, File

LEMMA OperatesTypes ==
  ASSUME CountTypes, NEW side, NEW replaced, NEW content \in Nat,
         Operates(side, replaced, content), UNCHANGED <<faults, retries>>
  PROVE  CountTypes'
<1>1. ops' \in 0..MaxOps
  BY FileSyncAssumption DEF CountTypes, Operates
<1>2. wanted' \subseteq Nat
  BY DEF CountTypes, Operates
<1> QED
  BY <1>1, <1>2 DEF CountTypes

LEMMA LocalUserIInv ==
  ASSUME IInv, LocalWrite \/ LocalDelete PROVE IInv'
<1>0. Types
  BY TypeParts DEF IInv
<1>1. PICK file \in Files : LocalUser(file)
  <2>1. CASE LocalDelete
    BY <2>1 DEF LocalDelete, Files, Stamps, NoFile, None
  <2>2. CASE LocalWrite
    <3> DEFINE now == <<"user", ops + 1>>
    <3>1. PICK content \in 1..(ops + 1), ino \in {disk.ino, now} :
            LocalUser([content |-> content, date |-> now, ino |-> ino])
      BY <2>2 DEF LocalWrite
    <3>2. content \in Nat /\ now \in Stamps /\ disk.ino \in Stamps
      BY <1>0, FileSyncAssumption DEF Types, CountTypes, LocalTypes, Files, Stamps
    <3> HIDE DEF now
    <3> QED
      BY <3>1, <3>2 DEF Files
  <2> QED
    BY <2>1, <2>2
<1>2. LocalTypes' /\ CountTypes'
  <2>1. file.content \in Nat
    BY DEF Files
  <2> QED
    BY <1>0, <1>1, <2>1, OperatesTypes DEF LocalUser, Types, LocalTypes
<1>3. TypeOK'
  BY <1>0, <1>1, <1>2, TypesKept, TypePartsNext DEF LocalUser, Types
<1>4. RecordsOK' /\ EventsOK' /\ MergeOK' /\ SyncOK' /\ BlockedOK'
  BY <1>1, RecordsKept, WatchersKept, SyncKept
     DEF IInv, LocalUser, remote, pouch, merging
<1> QED
  BY <1>3, <1>4 DEF IInv

LEMMA RemoteUserIInv ==
  ASSUME IInv, RemoteWrite \/ RemoteTrash PROVE IInv'
<1>0. Types
  BY TypeParts DEF IInv
<1>1. PICK content \in Nat :
        /\ RemoteUser(content)
        /\ \/ Create(content)
           \/ \E id \in DOMAIN cozy, kind \in Nat, where \in Places :
                Revise(id, kind, where)
  <2>1. CASE RemoteTrash
    <3>1. PICK id \in Live : Revise(id, cozy[id].content, "trash")
      BY <2>1 DEF RemoteTrash
    <3>2. cozy[id].content \in Nat /\ id \in DOMAIN cozy
      BY <1>0, FilesOfCozy DEF Types
    <3> QED
      BY <2>1, <3>1, <3>2 DEF RemoteTrash, None, Places
  <2>2. CASE RemoteWrite
    <3>1. PICK content \in 1..(ops + 1) :
            /\ RemoteUser(content)
            /\ IF Live = {} THEN Create(content)
               ELSE \E id \in Live : Revise(id, content, "live")
      BY <2>2 DEF RemoteWrite
    <3>2. content \in Nat /\ Live \subseteq DOMAIN cozy
      BY <1>0, FilesOfCozy, FileSyncAssumption DEF Types, CountTypes
    <3> QED
      BY <3>1, <3>2 DEF Places
  <2> QED
    BY <2>1, <2>2
<1>2. RemoteTypes' /\ DOMAIN cozy \subseteq DOMAIN cozy'
  BY <1>0, <1>1, ReviseTypes, CreateTypes DEF Types
<1>3. CountTypes'
  BY <1>0, <1>1, OperatesTypes DEF RemoteUser, Types
<1>4. TypeOK'
  BY <1>0, <1>1, <1>2, <1>3, TypesKept, TypePartsNext DEF RemoteUser, Types
<1>5. RecordsOK' /\ EventsOK' /\ MergeOK' /\ SyncOK' /\ BlockedOK'
  BY <1>1, <1>2, RecordsKept, WatchersKept, SyncKept
     DEF IInv, RemoteUser, pouch, merging
<1> QED
  BY <1>4, <1>5 DEF IInv

(* The local watcher *)

LEMMA NoticeIInv == ASSUME IInv, Notice PROVE IInv'
<1>0. Types
  BY TypeParts DEF IInv
<1>1. LocalTypes'
  <2>1. /\ disk' = disk /\ dirty' = FALSE /\ found' = Append(found, disk)
        /\ disk \in Files /\ found \in Seq(Files)
    BY <1>0 DEF Notice, Types, LocalTypes
  <2>2. Append(found, disk) \in Seq(Files)
    BY <2>1
  <2> QED
    BY <2>1, <2>2 DEF LocalTypes
<1>2. TypeOK'
  BY <1>0, <1>1, TypesKept, TypePartsNext DEF Notice, Types
<1>3. RecordsOK' /\ EventsOK' /\ MergeOK' /\ SyncOK' /\ BlockedOK'
  BY RecordsKept, WatchersKept, SyncKept DEF IInv, Notice, remote, pouch, merging
<1> QED
  BY <1>2, <1>3 DEF IInv

LEMMA DispatchLocalIInv == ASSUME IInv, DispatchLocal PROVE IInv'
<1>0. Types
  BY TypeParts DEF IInv
<1>1. /\ Head(found) \in Files /\ found' \in Seq(Files)
      /\ NoMerge.event \in Events /\ doc \in Docs
  BY <1>0 DEF DispatchLocal, Types, LocalTypes, PouchTypes, NoMerge, NoEvent,
              Events, Places, None
<1>2. /\ merge' = [pc |-> "read", file |-> Head(found), event |-> NoEvent,
                   was |-> doc]
      /\ owner' = "local"
  BY DEF DispatchLocal, NoMerge
<1>3. LocalTypes' /\ MergeTypes'
  <2>1. NoEvent \in Events
    BY <1>1 DEF NoMerge
  <2> QED
    BY <1>0, <1>1, <1>2, <2>1 DEF DispatchLocal, Types, LocalTypes, MergeTypes
<1>4. TypeOK'
  BY <1>0, <1>3, TypesKept, TypePartsNext DEF DispatchLocal, Types, remote, users
<1>5. RecordsOK'
  BY <1>2, RecordsKept DEF IInv, RecordsOK, DispatchLocal, remote, pouch
<1>6. EventsOK' /\ MergeOK' /\ SyncOK' /\ BlockedOK'
  BY <1>2 DEF IInv, EventsOK, MergeOK, SyncOK, BlockedOK, DispatchLocal, remote
<1> QED
  BY <1>4, <1>5, <1>6 DEF IInv

(* A local merge is sound: only a file that is there updates the record,    *)
(* and only a record of a file that was there is trashed.                   *)
LEMMA LocalOutcomeSound ==
  ASSUME IInv PROVE Sound(LocalOutcome, DOMAIN cozy)
<1>1. Good(merge.was, DOMAIN cozy) /\ merge.file \in Files
  BY TypeParts DEF IInv, RecordsOK, Types, MergeTypes
<1>2. CASE merge.file # NoFile
  BY <1>1, <1>2, LocalUpdateSound DEF LocalOutcome
<1>3. CASE merge.file = NoFile
  <2>1. merge.was # NoDoc => Sound(Trash("local", merge.was), DOMAIN cozy)
    BY <1>1, TrashSound DEF Side
  <2>2. Sound(Ignore, DOMAIN cozy)
    BY <1>1, SimpleOutcomes
  <2> QED
    BY <1>3, <2>1, <2>2 DEF LocalOutcome, NoDoc
<1> QED
  BY <1>2, <1>3

LEMMA MergeLocalIInv == ASSUME IInv, MergeLocal PROVE IInv'
<1>0. Types
  BY TypeParts DEF IInv
<1>1. /\ LocalTypes' /\ KeptTypes'
  <2>1. disk.content \in Nat /\ NoFile \in Files
    BY <1>0 DEF Types, LocalTypes, Files, Stamps, NoFile, None
  <2>2. \/ disk' = NoFile /\ dirty' = TRUE /\ copies' = copies \cup {disk.content}
        \/ UNCHANGED <<disk, dirty, copies>>
    BY DEF MergeLocal
  <2> QED
    BY <1>0, <2>1, <2>2 DEF MergeLocal, Types, LocalTypes, KeptTypes
<1>2. UNCHANGED pouch \/ Commits(LocalOutcome)
  BY DEF MergeLocal
<1>3. PouchTypes' /\ Good(doc', DOMAIN cozy)
  BY <1>0, <1>2, LocalOutcomeSound, CommitsGood
     DEF IInv, RecordsOK, Types, PouchTypes, pouch
<1>4. NoMerge \in [pc : {"idle", "read"}, file : Files, event : Events, was : Docs]
      /\ NoMerge.was = NoDoc
  BY NoDocGood DEF NoMerge, NoEvent, Events, Places, Files, Stamps, NoFile, None,
                   Good
<1>5. MergeTypes'
  BY <1>0, <1>4 DEF MergeLocal, Types, MergeTypes
<1>6. TypeOK'
  BY <1>0, <1>1, <1>3, <1>5, TypesKept, TypePartsNext DEF MergeLocal, Types
<1>7. RecordsOK'
  <2>1. cozy' = cozy /\ Good(merge'.was, DOMAIN cozy')
    BY <1>4, NoDocGood DEF MergeLocal, remote
  <2> QED
    BY <1>3, <2>1, RecordsKept DEF IInv, MergeLocal
<1>8. EventsOK' /\ MergeOK' /\ SyncOK' /\ BlockedOK'
  BY DEF IInv, EventsOK, MergeOK, SyncOK, BlockedOK, MergeLocal, remote
<1> QED
  BY <1>6, <1>7, <1>8 DEF IInv

(* The remote watcher *)

LEMMA FetchIInv == ASSUME IInv, Fetch PROVE IInv'
<1>0. Types
  BY TypeParts DEF IInv
<1> DEFINE ids == {i \in unseen : cozy[i].where # "moved"}
<1>1. pull' = [todo |-> {Event(id) : id \in ids}, failed |-> {}, progress |-> FALSE]
  BY DEF Fetch, NoPull
<1>2. /\ \A id \in ids : Event(id) \in Events /\ Event(id).id = id
      /\ ids \subseteq DOMAIN cozy
  <2>1. \A id \in DOMAIN cozy : cozy[id] \in File /\ id \in Nat
    BY <1>0 DEF Types, RemoteTypes
  <2>2. ids \subseteq DOMAIN cozy
    BY <1>0 DEF Types, RemoteTypes
  <2> QED
    BY <2>1, <2>2 DEF Event, Events, File
<1> HIDE DEF ids
<1>3. RemoteTypes' /\ MergeTypes'
  <2>1. /\ pull'.todo = {Event(id) : id \in ids} /\ pull'.failed = {}
        /\ pull'.progress = FALSE
    BY <1>1
  <2>2. RemoteTypes'
    BY <1>0 DEF Fetch, Types, RemoteTypes
  <2>3. pull'.todo \subseteq Events
    BY <1>2, <2>1
  <2>4. MergeTypes'
    BY <1>0, <2>1, <2>3 DEF Fetch, Types, MergeTypes
  <2> QED
    BY <2>2, <2>4
<1>4. TypeOK'
  BY <1>0, <1>3, TypesKept, TypePartsNext DEF Fetch, Types
<1>5. RecordsOK'
  BY RecordsKept DEF IInv, Fetch, pouch
<1>6. EventsOK' /\ MergeOK' /\ SyncOK' /\ BlockedOK'
  BY <1>1, <1>2 DEF IInv, EventsOK, MergeOK, SyncOK, BlockedOK, Fetch
<1> QED
  BY <1>4, <1>5, <1>6 DEF IInv

LEMMA ReadRemoteIInv == ASSUME IInv, ReadRemote PROVE IInv'
<1>0. Types
  BY TypeParts DEF IInv
<1>1. PICK event \in pull.todo :
        merge' = [pc |-> "read", file |-> NoFile, event |-> event, was |-> doc]
  BY DEF ReadRemote, NextEvents, NoMerge
<1>2. MergeTypes'
  BY <1>0, <1>1 DEF ReadRemote, Types, MergeTypes, PouchTypes, Files, Stamps,
                   NoFile, None
<1>3. TypeOK'
  BY <1>0, <1>2, TypesKept, TypePartsNext DEF ReadRemote, Types
<1>4. RecordsOK'
  BY <1>1, RecordsKept DEF IInv, RecordsOK, ReadRemote, remote, pouch
<1>5. EventsOK' /\ MergeOK' /\ SyncOK' /\ BlockedOK'
  BY <1>1 DEF IInv, EventsOK, MergeOK, SyncOK, BlockedOK, ReadRemote, remote
<1> QED
  BY <1>3, <1>4, <1>5 DEF IInv

(* A remote merge is sound: the event is the one of a file of the Cozy.     *)
LEMMA RemoteOutcomeSound ==
  ASSUME IInv, merge.event.id \in DOMAIN cozy
  PROVE  Sound(RemoteOutcome, DOMAIN cozy)
<1> DEFINE event == merge.event
           info == RemoteInfo(event.id, event)
<1>1. /\ Good(merge.was, DOMAIN cozy) /\ event \in Events
      /\ event.id # 0
  BY TypeParts DEF IInv, RecordsOK, Types, MergeTypes, RemoteTypes
<1>2. /\ info \in RemoteInfos /\ info # NoRemote /\ info.id = event.id
  BY <1>1 DEF Events, RemoteInfo, RemoteInfos, NoRemote
<1>3. Sound(RemoteUpdate(info, merge.was), DOMAIN cozy)
  <2> HIDE DEF info
  <2> QED
    BY <1>1, <1>2, RemoteUpdateSound
<1>4. merge.was.remote.id = event.id =>
        Sound(Trash("remote", merge.was), DOMAIN cozy)
  <2>1. merge.was.remote.id = event.id => merge.was # NoDoc
    BY <1>1 DEF NoDoc, NoRemote
  <2> QED
    BY <1>1, <2>1, TrashSound DEF Side
<1>5. Sound(Ignore, DOMAIN cozy)
  BY <1>1, SimpleOutcomes
<1> QED
  BY <1>3, <1>4, <1>5 DEF RemoteOutcome

LEMMA MergeRemoteIInv == ASSUME IInv, MergeRemote PROVE IInv'
<1>0. Types
  BY TypeParts DEF IInv
<1>1. merge.event.id \in DOMAIN cozy /\ merge.event \in Events
  BY <1>0 DEF IInv, MergeOK, MergeRemote, Types, MergeTypes
<1>2. \/ Revise(merge.event.id, merge.event.content, "moved")
        /\ copies' = copies \cup {merge.event.content}
     \/ UNCHANGED <<remote, copies>>
  BY DEF MergeRemote
<1>3. RemoteTypes' /\ DOMAIN cozy' = DOMAIN cozy /\ KeptTypes'
  <2>1. merge.event.content \in Nat /\ "moved" \in Places
    BY <1>1 DEF Events, Places
  <2>2. CASE UNCHANGED <<remote, copies>>
    BY <1>0, <2>2 DEF MergeRemote, Types, RemoteTypes, KeptTypes, remote
  <2>3. CASE Revise(merge.event.id, merge.event.content, "moved")
             /\ copies' = copies \cup {merge.event.content}
    BY <1>0, <1>1, <2>1, <2>3, ReviseTypes DEF MergeRemote, Types, KeptTypes
  <2> QED
    BY <1>2, <2>2, <2>3
<1>4. PouchTypes' /\ Good(doc', DOMAIN cozy)
  <2>1. UNCHANGED pouch \/ Commits(RemoteOutcome)
    BY DEF MergeRemote
  <2> QED
    BY <1>0, <1>1, <2>1, RemoteOutcomeSound, CommitsGood
       DEF IInv, RecordsOK, Types, PouchTypes, pouch
<1>5. NoMerge \in [pc : {"idle", "read"}, file : Files, event : Events, was : Docs]
      /\ NoMerge.was = NoDoc
  BY NoDocGood DEF NoMerge, NoEvent, Events, Places, Files, Stamps, NoFile, None,
                   Good
<1>6. PICK fails \in BOOLEAN :
        pull' = [todo |-> pull.todo \ {merge.event},
                 failed |-> pull.failed \cup (IF fails THEN {merge.event} ELSE {}),
                 progress |-> pull.progress \/ ~fails]
  BY DEF MergeRemote
<1>7. /\ pull'.todo \subseteq pull.todo /\ pull'.progress \in BOOLEAN
      /\ pull'.failed \subseteq pull.failed \cup {merge.event}
  BY <1>6
<1>8. MergeTypes'
  BY <1>0, <1>1, <1>5, <1>7 DEF MergeRemote, Types, MergeTypes
<1>9. TypeOK'
  BY <1>0, <1>3, <1>4, <1>8, TypesKept, TypePartsNext DEF MergeRemote, Types
<1>10. RecordsOK'
  <2>1. Good(merge'.was, DOMAIN cozy')
    BY <1>5, NoDocGood DEF MergeRemote
  <2> QED
    BY <1>3, <1>4, <2>1, RecordsKept DEF IInv, MergeRemote
<1>11. EventsOK' /\ MergeOK' /\ SyncOK' /\ BlockedOK'
  BY <1>1, <1>3, <1>7 DEF IInv, EventsOK, MergeOK, SyncOK, BlockedOK, MergeRemote
<1> QED
  BY <1>9, <1>10, <1>11 DEF IInv

LEMMA ApplyAllAgainIInv == ASSUME IInv, ApplyAllAgain PROVE IInv'
<1>0. Types
  BY TypeParts DEF IInv
<1>1. pull' = [todo |-> pull.failed, failed |-> {}, progress |-> FALSE]
  BY DEF ApplyAllAgain, NoPull
<1>2. MergeTypes'
  <2>1. /\ pull'.todo = pull.failed /\ pull'.failed = {} /\ pull'.progress = FALSE
    BY <1>1
  <2> QED
    BY <1>0, <2>1 DEF ApplyAllAgain, Types, MergeTypes
<1>3. TypeOK'
  BY <1>0, <1>2, TypesKept, TypePartsNext DEF ApplyAllAgain, Types
<1>4. RecordsOK'
  BY RecordsKept DEF IInv, ApplyAllAgain, remote, pouch
<1>5. EventsOK' /\ MergeOK' /\ SyncOK' /\ BlockedOK'
  BY <1>1 DEF IInv, EventsOK, MergeOK, SyncOK, BlockedOK, ApplyAllAgain, remote
<1> QED
  BY <1>3, <1>4, <1>5 DEF IInv

LEMMA EndWatchIInv == ASSUME IInv, EndWatch PROVE IInv'
<1>0. Types
  BY TypeParts DEF IInv
<1>1. RemoteTypes' /\ MergeTypes'
  BY <1>0 DEF EndWatch, Types, RemoteTypes, MergeTypes, NoPull
<1>2. TypeOK'
  BY <1>0, <1>1, TypesKept, TypePartsNext DEF EndWatch, Types
<1>3. RecordsOK'
  BY RecordsKept DEF IInv, EndWatch, pouch
<1>4. EventsOK' /\ MergeOK' /\ SyncOK' /\ BlockedOK'
  BY DEF IInv, EventsOK, MergeOK, SyncOK, BlockedOK, EndWatch, NoPull
<1> QED
  BY <1>2, <1>3, <1>4 DEF IInv

(* Sync *)

LEMMA PickChangeIInv == ASSUME IInv, PickChange PROVE IInv'
<1>0. Types
  BY TypeParts DEF IInv
<1>1. sync' = [pc |-> "apply", change |-> doc, side |-> OutOfDateSide(doc.sides)]
      /\ owner' = "sync"
  BY DEF PickChange
<1>2. OutOfDateSide(doc.sides) \in Side \cup {"none"}
  <2>1. doc.sides \in Sides
    BY <1>0 DEF Types, PouchTypes, Docs
  <2> QED
    BY <2>1 DEF OutOfDateSide, Side, Sides
<1>3. SyncTypes' /\ MergeTypes'
  BY <1>0, <1>1, <1>2 DEF PickChange, Types, SyncTypes, PouchTypes, MergeTypes,
                          merging
<1>4. TypeOK'
  BY <1>0, <1>3, TypesKept, TypePartsNext DEF PickChange, Types
<1>5. RecordsOK'
  BY <1>1, RecordsKept DEF IInv, RecordsOK, PickChange, remote, pouch, merging
<1>6. EventsOK' /\ MergeOK' /\ SyncOK' /\ BlockedOK'
  BY <1>1 DEF IInv, EventsOK, MergeOK, SyncOK, BlockedOK, PickChange, remote,
              pouch, merging
<1> QED
  BY <1>4, <1>5, <1>6 DEF IInv

(* The change that Sync applies is a good record, behind on one side.       *)
LEMMA ChangeIsGood ==
  ASSUME IInv
  PROVE  /\ Good(Change, DOMAIN cozy) /\ Change \in Docs
         /\ Change.md5sum \in Nat /\ Change.sides \in Sides
         /\ Applies("local") => Change.local # NoFile \/ Change.sides.local = 0
         /\ Applies("local") => /\ Change.remote # NoRemote
                                /\ Change.sides.remote # 0
         /\ Applies("remote") => /\ Change.local # NoFile
                                 /\ Change.sides.local # 0
         /\ Change.remote # NoRemote => Change.remote.id \in DOMAIN cozy
<1>1. Good(Change, DOMAIN cozy) /\ Change \in Docs
  BY DEF IInv, RecordsOK, Change, Good
<1>2. Change.md5sum \in Nat /\ Change.sides \in Sides
  BY <1>1 DEF Docs
<1>3. /\ Applies("local") => Change.sides.remote > Change.sides.local
      /\ Applies("remote") => Change.sides.local > Change.sides.remote
  BY <1>2 DEF IInv, SyncOK, Applies, Change, OutOfDateSide, Sides
<1> QED
  BY <1>1, <1>2, <1>3 DEF Good, Tells, Sides

(* A change applied has the sides it had, and good data.                    *)
LEMMA SucceedsIInv ==
  ASSUME IInv, Types, owner = "sync", sync.pc = "apply", NEW change,
         Succeeds(change), LocalTypes', RemoteTypes', KeptTypes', DOMAIN cozy \subseteq DOMAIN cozy',
         Good(change, DOMAIN cozy'),
         change.deleted \/ (change.local # NoFile /\ change.remote # NoRemote)
  PROVE  IInv'
<1>1. /\ sync'.pc = "seq" /\ sync'.change = change /\ sync'.side = sync.side
      /\ sync' \in [pc : {"idle", "apply", "seq", "save"}, change : Docs,
                    side : Side \cup {"none"}]
  BY DEF Succeeds, Types, SyncTypes, Good
<1>2. SyncTypes'
  BY <1>1 DEF Succeeds, Types, SyncTypes
<1>3. TypeOK'
  BY <1>2, TypesKept, TypePartsNext DEF Succeeds, Types
<1>4. RecordsOK'
  BY <1>1, RecordsKept DEF IInv, Succeeds, pouch, merging
<1>5. EventsOK' /\ MergeOK' /\ SyncOK' /\ BlockedOK'
  BY <1>1, WatchersKept DEF IInv, SyncOK, BlockedOK, Succeeds, merging, pouch
<1> QED
  BY <1>3, <1>4, <1>5 DEF IInv

LEMMA ApplyToNoneIInv == ASSUME IInv, ApplyToNone PROVE IInv'
<1>0. Types
  BY TypeParts DEF IInv
<1>1. PouchTypes' /\ Good(doc', DOMAIN cozy)
  BY <1>0, EraseGood DEF IInv, RecordsOK, ApplyToNone, Types, PouchTypes
<1>2. sync' = [pc |-> "idle", change |-> NoDoc, side |-> "none"] /\ NoDoc \in Docs
  BY NoDocGood DEF ApplyToNone, NoSync, Good
<1>3. SyncTypes' /\ MergeTypes'
  BY <1>0, <1>2 DEF ApplyToNone, Types, SyncTypes, MergeTypes, merging
<1>4. TypeOK'
  BY <1>0, <1>1, <1>3, TypesKept, TypePartsNext DEF ApplyToNone, Types
<1>5. RecordsOK'
  <2>1. Good(sync'.change, DOMAIN cozy')
    BY <1>2, NoDocGood
  <2> QED
    BY <1>1, <2>1, RecordsKept DEF IInv, ApplyToNone, remote, merging
<1>6. EventsOK' /\ MergeOK' /\ SyncOK' /\ BlockedOK'
  BY <1>2 DEF IInv, EventsOK, MergeOK, SyncOK, BlockedOK, ApplyToNone, remote,
              merging
<1> QED
  BY <1>4, <1>5, <1>6 DEF IInv

LEMMA ApplyNothingIInv == ASSUME IInv, ApplyNothing PROVE IInv'
<1>0. Types
  BY TypeParts DEF IInv
<1>1. (Applies("local") \/ Applies("remote")) /\ owner = "sync"
      /\ sync.pc = "apply"
  BY DEF ApplyNothing, Does, Applies
<1>2. Change.deleted \/ (Change.local # NoFile /\ Change.remote # NoRemote)
  <2>1. Task = "nothing"
    BY DEF ApplyNothing, Does
  <2>2. Change.deleted \/ CurrentRev # 0
    BY <2>1 DEF Task
  <2>3. CurrentRev # 0 => Change.local # NoFile /\ Change.remote # NoRemote
    <3>1. CASE Applies("local")
      <4>1. CurrentRev = Change.sides.local
        BY <3>1 DEF Applies, CurrentRev
      <4> QED
        BY <3>1, <4>1, ChangeIsGood
    <3>2. CASE Applies("remote")
      <4>1. CurrentRev = Change.sides.remote
        BY <3>2 DEF Applies, CurrentRev
      <4>2. Tells(Change)
        BY ChangeIsGood DEF Good
      <4> QED
        BY <3>2, <4>1, <4>2, ChangeIsGood DEF Tells
    <3> QED
      BY <1>1, <3>1, <3>2
  <2> QED
    BY Zenon, <2>2, <2>3
<1>3. /\ LocalTypes' /\ RemoteTypes' /\ KeptTypes' /\ cozy' = cozy
  BY <1>0, TypesKept DEF ApplyNothing, remote
<1> QED
  BY <1>0, <1>1, <1>2, <1>3, ChangeIsGood, SucceedsIInv DEF ApplyNothing

(* A change that tells what Sync leaves on the disk is good. *)
LEMMA LocalKnownGood ==
  ASSUME IInv, Applies("local"), NEW ino \in Stamps,
         NEW file \in Files, file # NoFile
  PROVE  LET change == [Change EXCEPT !.ino = ino, !.local = file] IN
         /\ Good(change, DOMAIN cozy)
         /\ change.local # NoFile /\ change.remote # NoRemote
<1>1. /\ Good(Change, DOMAIN cozy) /\ Change \in Docs /\ Change # NoDoc
      /\ Change.remote # NoRemote
  BY ChangeIsGood DEF NoDoc, NoSides
<1> DEFINE change == [Change EXCEPT !.ino = ino, !.local = file]
<1>2. /\ change \in Docs /\ change.sides = Change.sides
      /\ change.local = file /\ change.remote = Change.remote
  BY <1>1, DocWith DEF Docs
<1> HIDE DEF change
<1>3. Good(change, DOMAIN cozy)
  BY <1>1, <1>2 DEF Good, Tells
<1> QED
  BY <1>1, <1>2, <1>3 DEF change

LEMMA SyncedTypes ==
  ASSUME IInv, Types
  PROVE  /\ Now \in Stamps /\ Synced \in Files
         /\ Synced.date # NoFile.date
         /\ Change.ino \in Stamps
         /\ [Synced EXCEPT !.ino = Change.ino] \in Files
         /\ [Synced EXCEPT !.ino = Change.ino].date # NoFile.date
         /\ [disk EXCEPT !.date = Now] \in Files
<1>1. Change.md5sum \in Nat /\ puts \in Nat /\ Change \in Docs /\ disk \in Files
  BY ChangeIsGood DEF Types, PouchTypes, LocalTypes
<1>2. Now \in Stamps /\ Now # NoFile.date
  BY <1>1 DEF Now, Stamps, NoFile
<1>3. Change.ino \in Stamps
  BY <1>1 DEF Docs
<1> QED
  BY <1>1, <1>2, <1>3 DEF Synced, Files

LEMMA DownloadIInv == ASSUME IInv, Download PROVE IInv'
<1>0. Types
  BY TypeParts DEF IInv
<1>1. Applies("local") /\ owner = "sync" /\ sync.pc = "apply"
  BY DEF Download, Does, Applies
<1> DEFINE change == [Change EXCEPT !.ino = Now, !.local = Synced]
<1>2. /\ Good(change, DOMAIN cozy)
      /\ change.local # NoFile /\ change.remote # NoRemote
  BY <1>0, <1>1, SyncedTypes, LocalKnownGood
<1>3. Succeeds(change)
  BY DEF Download
<1> HIDE DEF change
<1>4. LocalTypes'
  BY <1>0, SyncedTypes DEF Download, Types, LocalTypes
<1>5. RemoteTypes' /\ KeptTypes' /\ cozy' = cozy
  BY <1>0, TypesKept DEF Download, remote
<1> QED
  BY <1>0, <1>1, <1>2, <1>3, <1>4, <1>5, SucceedsIInv

LEMMA UpdateLocalMetadataIInv ==
  ASSUME IInv, UpdateLocalMetadata PROVE IInv'
<1>0. Types
  BY TypeParts DEF IInv
<1>1. Applies("local") /\ owner = "sync" /\ sync.pc = "apply"
  BY DEF UpdateLocalMetadata, Does, Applies
<1> DEFINE file == [Synced EXCEPT !.ino = Change.ino]
           change == [Change EXCEPT !.ino = Change.ino, !.local = file]
<1>2. file \in Files /\ file # NoFile /\ Change.ino \in Stamps
  BY <1>0, SyncedTypes
<1> HIDE DEF file
<1>3. /\ Good(change, DOMAIN cozy)
      /\ change.local # NoFile /\ change.remote # NoRemote
  BY <1>1, <1>2, LocalKnownGood
<1>4. Succeeds(change)
  <2>1. change = [Change EXCEPT !.local = file]
    BY ChangeIsGood DEF Docs
  <2> QED
    BY <2>1 DEF UpdateLocalMetadata, file
<1> HIDE DEF change
<1>5. LocalTypes'
  BY <1>0, SyncedTypes DEF UpdateLocalMetadata, Types, LocalTypes
<1>6. RemoteTypes' /\ KeptTypes' /\ cozy' = cozy
  BY <1>0, TypesKept DEF UpdateLocalMetadata, remote
<1> QED
  BY <1>0, <1>1, <1>3, <1>4, <1>5, <1>6, SucceedsIInv

LEMMA TrashLocalIInv == ASSUME IInv, TrashLocal PROVE IInv'
<1>0. Types
  BY TypeParts DEF IInv
<1>1. Applies("local") /\ owner = "sync" /\ sync.pc = "apply" /\ Task = "trash"
  BY DEF TrashLocal, Does, Applies
<1>2. /\ LocalTypes' /\ RemoteTypes' /\ KeptTypes' /\ cozy' = cozy
  <2>1. disk.content \in Nat /\ NoFile \in Files
    BY <1>0 DEF Types, LocalTypes, Files, Stamps, NoFile, None
  <2> QED
    BY <1>0, <2>1, TypesKept DEF TrashLocal, Types, LocalTypes, KeptTypes, remote
<1>3. Change.deleted
  BY <1>1 DEF Task, Applies
<1> QED
  BY <1>0, <1>1, <1>2, <1>3, ChangeIsGood, SucceedsIInv DEF TrashLocal

LEMMA UploadNothingIInv == ASSUME IInv, UploadNothing PROVE IInv'
<1>0. Types
  BY TypeParts DEF IInv
<1>1. Applies("remote") /\ owner = "sync" /\ sync.pc = "apply"
  BY DEF UploadNothing, Does, Applies
<1> DEFINE change == [Change EXCEPT !.deleted = TRUE]
<1>2. change.deleted /\ Good(change, DOMAIN cozy)
  <2>1. Good(Change, DOMAIN cozy) /\ Change # NoDoc
    BY <1>1, ChangeIsGood DEF NoDoc
  <2>2. /\ change \in Docs /\ change.sides = Change.sides /\ change.deleted
        /\ change.local = Change.local /\ change.remote = Change.remote
    BY <2>1, DocWith DEF Docs, Good
  <2> HIDE DEF change
  <2> QED
    BY <2>1, <2>2 DEF Good, Tells
<1>3. /\ LocalTypes' /\ RemoteTypes' /\ KeptTypes' /\ cozy' = cozy
  BY <1>0, TypesKept DEF UploadNothing, remote
<1>4. Succeeds(change)
  BY DEF UploadNothing
<1> HIDE DEF change
<1> QED
  BY <1>0, <1>1, <1>2, <1>3, <1>4, SucceedsIInv

(* A change that learns what the Cozy now has is good. *)
LEMMA RemoteKnownGood ==
  ASSUME IInv, Applies("remote"), NEW info \in RemoteInfos, NEW ids,
         DOMAIN cozy \subseteq ids, info.id \in ids, info # NoRemote
  PROVE  /\ Good([Change EXCEPT !.remote = info], ids)
         /\ [Change EXCEPT !.remote = info].remote # NoRemote
         /\ [Change EXCEPT !.remote = info].local # NoFile
<1> DEFINE change == [Change EXCEPT !.remote = info]
<1>1. Good(Change, ids) /\ Change # NoDoc /\ Change.local # NoFile
  BY ChangeIsGood, GoodKept DEF NoDoc
<1>2. /\ change \in Docs /\ change.sides = Change.sides
      /\ change.local = Change.local /\ change.remote = info
  BY <1>1, DocWith DEF Docs, Good
<1> HIDE DEF change
<1>3. Good(change, ids)
  BY <1>1, <1>2 DEF Good, Tells
<1> QED
  BY <1>1, <1>2, <1>3 DEF change

LEMMA UploadNewIInv == ASSUME IInv, UploadNew PROVE IInv'
<1>0. Types
  BY TypeParts DEF IInv
<1>1. Applies("remote") /\ owner = "sync"
      /\ sync.pc = "apply" /\ Create(Change.md5sum)
  BY DEF UploadNew, Does, Applies
<1> DEFINE info == RemoteInfo(Len(cozy'), cozy'[Len(cozy')])
           change == [Change EXCEPT !.remote = info]
<1>2. /\ RemoteTypes' /\ DOMAIN cozy \subseteq DOMAIN cozy'
      /\ Len(cozy') \in DOMAIN cozy' /\ Len(cozy') # 0
      /\ info \in RemoteInfos
  BY <1>0, <1>1, ChangeIsGood, CreateTypes DEF Types
<1>3. info.id = Len(cozy') /\ info # NoRemote
  BY <1>2 DEF RemoteInfo, NoRemote
<1>4. Succeeds(change)
  BY DEF UploadNew
<1> HIDE DEF info
<1>5. /\ Good(change, DOMAIN cozy') /\ change.remote # NoRemote
      /\ change.local # NoFile
  BY <1>1, <1>2, <1>3, RemoteKnownGood
<1>6. LocalTypes' /\ KeptTypes'
  BY <1>0, TypesKept DEF UploadNew
<1> HIDE DEF change
<1> QED
  BY <1>0, <1>1, <1>2, <1>4, <1>5, <1>6, SucceedsIInv

LEMMA RewriteIInv ==
  ASSUME IInv, Types, Applies("remote"), Change.remote # NoRemote,
         NEW content \in Nat, NEW where \in Places, Rewrite(content, where)
  PROVE  IInv'
<1> DEFINE id == Change.remote.id
           info == RemoteInfo(id, cozy'[id])
           change == [Change EXCEPT !.remote = info]
<1>1. id \in DOMAIN cozy /\ owner = "sync" /\ sync.pc = "apply"
  BY ChangeIsGood DEF Applies
<1>2. Revise(id, content, where) /\ Succeeds(change)
  BY DEF Rewrite
<1>3. /\ RemoteTypes' /\ DOMAIN cozy' = DOMAIN cozy /\ info \in RemoteInfos
  BY <1>1, <1>2, ReviseTypes DEF Types
<1>4. info.id = id /\ id # 0
  BY <1>1 DEF RemoteInfo, Types, RemoteTypes
<1>5. info # NoRemote
  BY <1>4 DEF NoRemote
<1> HIDE DEF info
<1>6. /\ Good(change, DOMAIN cozy') /\ change.remote # NoRemote
      /\ change.local # NoFile
  BY <1>1, <1>3, <1>4, <1>5, RemoteKnownGood
<1>7. LocalTypes' /\ KeptTypes'
  BY TypesKept DEF Rewrite
<1> HIDE DEF change
<1> QED
  BY <1>1, <1>2, <1>3, <1>6, <1>7, SucceedsIInv

LEMMA UploadIInv == ASSUME IInv, Upload PROVE IInv'
<1>0. Types
  BY TypeParts DEF IInv
<1>1. Applies("remote") /\ Task = "overwrite"
  BY DEF Upload, Does
<1>2. Change.sides.remote # 0
  BY <1>1 DEF Task, CurrentRev, Applies
<1>3. Change.remote # NoRemote /\ Change.remote.id \in DOMAIN cozy
  BY <1>2, ChangeIsGood DEF Good, Tells
<1>4. cozy[Change.remote.id].where \in Places
  <2>1. cozy[Change.remote.id] \in File
    BY <1>0, <1>3 DEF Types, RemoteTypes
  <2> QED
    BY <2>1 DEF File
<1> QED
  BY <1>0, <1>1, <1>3, <1>4, ChangeIsGood, RewriteIInv DEF Upload

LEMMA UpdateRemoteMetadataIInv ==
  ASSUME IInv, UpdateRemoteMetadata PROVE IInv'
<1>0. Types
  BY TypeParts DEF IInv
<1>1. Applies("remote") /\ Task = "metadata"
  BY DEF UpdateRemoteMetadata, Does
<1>2. Change.sides.remote # 0
  BY <1>1 DEF Task, CurrentRev, Applies
<1>3. Change.remote # NoRemote /\ Change.remote.id \in DOMAIN cozy
  BY <1>2, ChangeIsGood DEF Good, Tells
<1>4. /\ cozy[Change.remote.id].content \in Nat
      /\ cozy[Change.remote.id].where \in Places
  <2>1. cozy[Change.remote.id] \in File
    BY <1>0, <1>3 DEF Types, RemoteTypes
  <2> QED
    BY <2>1 DEF File
<1> QED
  BY <1>0, <1>1, <1>3, <1>4, RewriteIInv DEF UpdateRemoteMetadata

LEMMA TrashRemoteIInv == ASSUME IInv, TrashRemote PROVE IInv'
<1>0. Types
  BY TypeParts DEF IInv
<1>1. /\ Applies("remote") /\ owner = "sync"
      /\ sync.pc = "apply" /\ Change.remote # NoRemote
  BY DEF TrashRemote, Does, Applies
<1>2. /\ Change.remote.id \in DOMAIN cozy /\ Good(Change, DOMAIN cozy)
      /\ Change.local # NoFile
  BY <1>1, ChangeIsGood
<1>3. CASE Succeeds(Change) /\ UNCHANGED <<local, remote, kept>>
  <2>1. LocalTypes' /\ RemoteTypes' /\ KeptTypes' /\ cozy' = cozy
    BY <1>0, <1>3, TypesKept DEF remote
  <2> QED
    BY <1>0, <1>1, <1>2, <1>3, <2>1, SucceedsIInv
<1>4. CASE Rewrite(cozy[Change.remote.id].content, "trash")
  <2>1. cozy[Change.remote.id].content \in Nat /\ "trash" \in Places
    BY <1>0, <1>2, FilesOfCozy DEF Types, Places
  <2> QED
    BY <1>0, <1>1, <1>4, <2>1, RewriteIInv
<1> QED
  BY <1>3, <1>4 DEF TrashRemote

(* A change is only recorded as done on both sides when the record tells    *)
(* what both have.                                                          *)
LEMMA SaveSeqIInv == ASSUME IInv, SaveSeq PROVE IInv'
<1>0. Types
  BY TypeParts DEF IInv
<1>1. /\ sync'.pc = "save" /\ sync'.change = sync.change /\ sync.pc = "seq"
      /\ sync' \in [pc : {"idle", "apply", "seq", "save"}, change : Docs,
                    side : Side \cup {"none"}]
  BY <1>0 DEF SaveSeq, Types, SyncTypes
<1>2. SyncTypes' /\ PouchTypes'
  BY <1>0, <1>1 DEF SaveSeq, Types, SyncTypes, PouchTypes
<1>3. TypeOK'
  BY <1>0, <1>2, TypesKept, TypePartsNext DEF SaveSeq, Types
<1>4. RecordsOK'
  BY <1>1, RecordsKept DEF IInv, RecordsOK, SaveSeq, remote, merging
<1>5. EventsOK' /\ MergeOK' /\ SyncOK' /\ BlockedOK'
  BY <1>1, WatchersKept DEF IInv, SyncOK, BlockedOK, SaveSeq, merging, remote
<1> QED
  BY <1>3, <1>4, <1>5 DEF IInv

(* Sync lets the lock go. *)
LEMMA SyncEndsIInv ==
  ASSUME IInv, Types, sync' = NoSync, owner' = "none", owner = "sync",
         DOMAIN cozy \subseteq DOMAIN cozy', RemoteTypes', PouchTypes',
         KeptTypes', CountTypes', UNCHANGED <<local, merging>>,
         Good(doc', DOMAIN cozy'),
         \/ blocked' = blocked
         \/ /\ blocked' = [change |-> doc, side |-> sync.side]
            /\ sync.pc = "seq" /\ sync.side \in Side
         \/ /\ blocked' = [change |-> Change, side |-> sync.side]
            /\ sync.pc = "apply" /\ sync.side \in Side
  PROVE  IInv'
<1>1. sync' = [pc |-> "idle", change |-> NoDoc, side |-> "none"]
      /\ NoDoc \in Docs /\ Change \in Docs /\ doc \in Docs
  BY NoDocGood, ChangeIsGood DEF NoSync, Good, Types, PouchTypes
<1>2. blocked' \in [change : Docs, side : Side \cup {"none"}]
  BY <1>1 DEF Types, SyncTypes
<1>3. SyncTypes' /\ MergeTypes'
  BY <1>1, <1>2 DEF Types, SyncTypes, MergeTypes, merging
<1>4. TypeOK'
  BY <1>3, TypesKept, TypePartsNext DEF Types
<1>5. RecordsOK'
  <2>1. Good(Change, DOMAIN cozy') /\ Good(doc, DOMAIN cozy')
    BY ChangeIsGood, GoodKept DEF IInv, RecordsOK
  <2>2. blocked' = blocked \/ blocked'.change \in {Change, doc}
    OBVIOUS
  <2>3. Good(sync'.change, DOMAIN cozy')
    BY <1>1, NoDocGood
  <2> QED
    BY <2>1, <2>2, <2>3, RecordsKept DEF IInv, merging
<1>6. SyncOK' /\ BlockedOK'
  BY <1>1 DEF IInv, SyncOK, BlockedOK, Change
<1>7. EventsOK' /\ MergeOK'
  BY DEF IInv, EventsOK, MergeOK, merging
<1> QED
  BY <1>4, <1>5, <1>6, <1>7 DEF IInv

(* A change that is recorded as done on both sides is a good record. *)
LEMMA SavedGood ==
  ASSUME IInv, sync.pc = "save", ~Change.deleted
  PROVE  LET saved == [Change EXCEPT !.sides = MarkAsUpToDate(@), !.errors = 0]
         IN /\ Good(saved, DOMAIN cozy) /\ saved.rev = Change.rev
            /\ saved.sides = MarkAsUpToDate(Change.sides)
            /\ saved.sides \in Sides /\ saved.sides # NoSides
            /\ saved.local = Change.local /\ saved.remote = Change.remote
            /\ saved.md5sum = Change.md5sum /\ saved.trashed = Change.trashed
<1> DEFINE sides == MarkAsUpToDate(Change.sides)
           even == [Change EXCEPT !.sides = sides]
           saved == [even EXCEPT !.errors = 0]
<1>1. Change \in Docs /\ Good(Change, DOMAIN cozy)
  BY ChangeIsGood
<1>2. sides \in Sides /\ Follows(sides) /\ sides # NoSides
  <2>1. Change.sides.target + 1 \in Nat /\ Change.sides.target + 1 # 0
    BY <1>1 DEF Docs, Sides
  <2> QED
    BY <2>1 DEF MarkAsUpToDate, Follows, Sides, NoSides
<1> HIDE DEF sides
<1>3. /\ even \in Docs /\ even.sides = sides /\ even.rev = Change.rev
      /\ even.local = Change.local /\ even.remote = Change.remote
      /\ even.md5sum = Change.md5sum /\ even.trashed = Change.trashed
  BY <1>1, <1>2, DocWith DEF Docs
<1> HIDE DEF even
<1>4. /\ saved \in Docs /\ saved.sides = sides /\ saved.rev = Change.rev
      /\ saved.local = Change.local /\ saved.remote = Change.remote
      /\ saved.md5sum = Change.md5sum /\ saved.trashed = Change.trashed
  BY <1>3, DocWith DEF Docs
<1> HIDE DEF saved
<1>5. Change.local # NoFile /\ Change.remote # NoRemote
  BY DEF IInv, SyncOK, Change
<1>6. Good(saved, DOMAIN cozy)
  BY <1>1, <1>2, <1>4, <1>5 DEF Good, Tells
<1>7. saved = [Change EXCEPT !.sides = MarkAsUpToDate(@), !.errors = 0]
  BY <1>1 DEF saved, even, sides, Docs
<1> QED
  BY <1>2, <1>4, <1>6, <1>7 DEF sides

LEMMA SaveDocIInv == ASSUME IInv, SaveDoc PROVE IInv'
<1>0. Types /\ owner = "sync"
  BY TypeParts DEF IInv, SyncOK, SaveDoc
<1>1. PouchTypes' /\ Good(doc', DOMAIN cozy)
  <2>1. CASE Change.deleted
    BY <1>0, <2>1, EraseGood DEF SaveDoc, Types
  <2>2. CASE ~Change.deleted
    <3> DEFINE saved == [Change EXCEPT !.sides = MarkAsUpToDate(@), !.errors = 0]
    <3>1. Good(saved, DOMAIN cozy) /\ saved.sides # NoSides
      BY <2>2, SavedGood DEF SaveDoc
    <3>2. Write(saved)
      BY <2>2 DEF SaveDoc
    <3> HIDE DEF saved
    <3> QED
      BY <1>0, <3>1, <3>2, WriteGood DEF Types
  <2> QED
    BY <2>1, <2>2
<1>2. /\ RemoteTypes' /\ KeptTypes' /\ CountTypes' /\ cozy' = cozy
  BY <1>0, TypesKept DEF SaveDoc, remote
<1> QED
  BY <1>0, <1>1, <1>2, SyncEndsIInv DEF SaveDoc

(* Failures *)

LEMMA FailsApplies ==
  ASSUME NEW codes, Fails(codes)
  PROVE  Applies("local") \/ Applies("remote")
BY DEF Fails, Does

LEMMA FaultTypes ==
  ASSUME CountTypes, UNCHANGED <<wanted, ops, retries>>,
         faults' = faults \/ \E fault : Fault(fault)
  PROVE  CountTypes'
BY FileSyncAssumption DEF CountTypes, Fault

LEMMA BlockIInv ==
  ASSUME IInv, BlockForEver \/ BlockForAttempts PROVE IInv'
<1>0. Types
  BY TypeParts DEF IInv
<1>1. BlockSync /\ (Applies("local") \/ Applies("remote") \/ LosesAnswer)
  BY FailsApplies DEF BlockForEver, BlockForAttempts, FaultyApply
<1>2. /\ sync.side \in Side /\ owner = "sync"
      /\ blocked' = [change |-> IF sync.pc = "seq" THEN doc ELSE Change,
                     side |-> sync.side]
      /\ sync.pc \in {"apply", "seq"}
  BY <1>1 DEF Applies, Side, BlockSync, LosesAnswer, Unanswered, IInv, SyncOK
<1>3. CountTypes'
  BY <1>0, <1>1, FaultTypes
     DEF BlockForEver, BlockForAttempts, FaultyApply, BlockSync, users, Types
<1>4. /\ RemoteTypes' /\ PouchTypes' /\ KeptTypes' /\ cozy' = cozy
      /\ doc' = doc
  BY <1>0, <1>1, TypesKept DEF BlockSync, remote, pouch
<1>5. Good(doc', DOMAIN cozy')
  BY <1>4 DEF IInv, RecordsOK
<1> QED
  BY <1>0, <1>1, <1>2, <1>3, <1>4, <1>5, SyncEndsIInv DEF BlockSync

LEMMA GiveUpIInv == ASSUME IInv, GiveUp PROVE IInv'
<1>0. Types
  BY TypeParts DEF IInv
<1>1. owner = "sync"
  BY FailsApplies DEF GiveUp, FaultyApply, Applies, LosesAnswer, IInv, SyncOK
<1>2. CountTypes'
  BY <1>0, FaultTypes DEF GiveUp, FaultyApply, users, Types
<1>3. /\ RemoteTypes' /\ KeptTypes' /\ PouchTypes'
      /\ cozy' = cozy /\ doc' = doc
  BY <1>0, TypesKept DEF GiveUp, remote, Types, PouchTypes
<1>4. Good(doc', DOMAIN cozy')
  BY <1>3 DEF IInv, RecordsOK
<1> QED
  BY <1>0, <1>1, <1>2, <1>3, <1>4, SyncEndsIInv DEF GiveUp

LEMMA ResolveRemoteConflictIInv ==
  ASSUME IInv, ResolveRemoteConflict PROVE IInv'
<1>0. Types
  BY TypeParts DEF IInv
<1>1. owner = "sync"
  BY FailsApplies DEF ResolveRemoteConflict, Applies
<1>2. PICK id \in Live : /\ Revise(id, cozy[id].content, "moved")
                         /\ copies' = copies \cup {cozy[id].content}
  BY DEF ResolveRemoteConflict
<1>3. id \in DOMAIN cozy /\ cozy[id].content \in Nat /\ "moved" \in Places
  BY <1>0, FilesOfCozy DEF Types, Places
<1>4. RemoteTypes' /\ DOMAIN cozy' = DOMAIN cozy
  BY <1>0, <1>2, <1>3, ReviseTypes DEF Types
<1>5. KeptTypes'
  BY <1>0, <1>2, <1>3 DEF ResolveRemoteConflict, Types, KeptTypes
<1>6. PouchTypes' /\ CountTypes' /\ doc' = doc
  BY <1>0, TypesKept DEF ResolveRemoteConflict, pouch
<1>7. Good(doc', DOMAIN cozy')
  BY <1>4, <1>6 DEF IInv, RecordsOK
<1> QED
  BY <1>0, <1>1, <1>4, <1>5, <1>6, <1>7, SyncEndsIInv DEF ResolveRemoteConflict

(* The record of a retry stays good: the side it marks is the one that      *)
(* knows the change.                                                        *)
LEMMA RetriedGood ==
  ASSUME IInv, blocked # NoBlock
  PROVE  LET was == blocked.change
             marked == Marked(OtherSide(blocked.side), was)
             again == [marked EXCEPT !.errors = @ + 1]
         IN /\ Good(was, DOMAIN cozy) /\ marked \in Docs
            /\ Good(again, DOMAIN cozy) /\ again.sides # NoSides
            /\ again.rev = marked.rev /\ again.sides = marked.sides
            /\ again.local = marked.local /\ again.remote = marked.remote
            /\ again.md5sum = marked.md5sum
            /\ again.deleted = marked.deleted /\ again.trashed = marked.trashed
<1> DEFINE was == blocked.change
           side == OtherSide(blocked.side)
           marked == Marked(side, was)
           again == [marked EXCEPT !.errors = @ + 1]
<1>1. /\ Good(was, DOMAIN cozy) /\ was.sides \in Sides
      /\ blocked.side \in Side /\ blocked.side = OutOfDateSide(was.sides)
  BY DEF IInv, RecordsOK, BlockedOK, Good, Docs
<1>2. side \in Side /\ was.sides[side] # 0
  BY <1>1 DEF OutOfDateSide, OtherSide, Side, Sides
<1>3. /\ side = "local" => was.local # NoFile
      /\ side = "remote" => was.remote # NoRemote
  BY <1>1, <1>2 DEF Good, Tells
<1> HIDE DEF was, side
<1>4. Good(marked, DOMAIN cozy) /\ Valid(marked)
  BY <1>1, <1>2, <1>3, MarkedGood DEF Good, Follows
<1> HIDE DEF marked
<1>5. /\ again \in Docs /\ again.rev = marked.rev /\ again.sides = marked.sides
      /\ again.local = marked.local /\ again.remote = marked.remote
      /\ again.md5sum = marked.md5sum
      /\ again.deleted = marked.deleted /\ again.trashed = marked.trashed
  BY <1>4, DocWith DEF Docs, Good
<1> HIDE DEF again
<1>6. Good(again, DOMAIN cozy) /\ again.sides # NoSides
  BY <1>4, <1>5 DEF Good, Valid, Tells
<1> QED
  BY <1>1, <1>4, <1>5, <1>6 DEF was, side, marked, again, Good

LEMMA RetryIInv == ASSUME IInv, Retry PROVE IInv'
<1>0. Types /\ Good(doc, DOMAIN cozy)
  BY TypeParts DEF IInv, RecordsOK
<1>1. PouchTypes' /\ Good(doc', DOMAIN cozy)
  <2> DEFINE again == [Marked(OtherSide(blocked.side), blocked.change) EXCEPT
                         !.errors = @ + 1]
  <2>1. CASE UNCHANGED pouch
    BY <1>0, <2>1, TypesKept DEF pouch
  <2>2. CASE Write(again)
    <3>1. Good(again, DOMAIN cozy) /\ again.sides # NoSides
      BY RetriedGood DEF Retry
    <3> HIDE DEF again
    <3> QED
      BY <1>0, <2>2, <3>1, WriteGood DEF Types
  <2> QED
    BY <2>1, <2>2 DEF Retry
<1>2. blocked' = [change |-> NoDoc, side |-> "none"] /\ NoDoc \in Docs
  BY NoDocGood DEF Retry, NoBlock, Good
<1>3. SyncTypes'
  BY <1>0, <1>2 DEF Retry, Types, SyncTypes
<1>4. CountTypes'
  BY <1>0, FileSyncAssumption DEF Retry, users, Types, CountTypes
<1>5. TypeOK'
  BY <1>0, <1>1, <1>3, <1>4, TypesKept, TypePartsNext DEF Retry, Types
<1>6. RecordsOK'
  BY <1>1, <1>2, NoDocGood, RecordsKept DEF IInv, Retry, remote, merging
<1>7. EventsOK' /\ MergeOK'
  BY WatchersKept DEF IInv, Retry, remote, merging
<1>8. SyncOK' /\ BlockedOK'
  BY DEF IInv, SyncOK, BlockedOK, Retry
<1> QED
  BY <1>5, <1>6, <1>7, <1>8 DEF IInv

LEMMA CrashIInv == ASSUME IInv, Crash PROVE IInv'
<1>0. Types
  BY TypeParts DEF IInv
<1>1. /\ LocalTypes' /\ RemoteTypes'
  BY <1>0 DEF Crash, Types, LocalTypes, RemoteTypes
<1>2. /\ NoDoc \in Docs /\ NoFile \in Files /\ NoEvent \in Events
      /\ Good(NoDoc, DOMAIN cozy')
  BY NoDocGood DEF Good, Files, Stamps, NoFile, None, Events, NoEvent, Places
<1>3. MergeTypes' /\ SyncTypes'
  BY <1>2 DEF Crash, MergeTypes, SyncTypes, NoMerge, NoPull, NoSync, NoBlock
<1>4. CountTypes'
  BY <1>0, FaultTypes DEF Crash, users, Types
<1>5. TypeOK'
  BY <1>0, <1>1, <1>3, <1>4, TypesKept, TypePartsNext DEF Crash, Types
<1>6. RecordsOK'
  BY <1>2, RecordsKept
     DEF IInv, Crash, pouch, NoMerge, NoSync, NoBlock
<1>7. EventsOK' /\ MergeOK' /\ SyncOK' /\ BlockedOK'
  BY DEF Crash, EventsOK, MergeOK, SyncOK, BlockedOK, NoPull, NoSync
<1> QED
  BY <1>5, <1>6, <1>7 DEF IInv

LEMMA NextIInv == IInv /\ [Next]_vars => IInv'
<1> SUFFICES ASSUME IInv, [Next]_vars PROVE IInv'
  OBVIOUS
<1>1. CASE UserChanges
  BY <1>1, LocalUserIInv, RemoteUserIInv DEF UserChanges
<1>2. CASE LocalWatcher
  BY <1>2, NoticeIInv, DispatchLocalIInv, MergeLocalIInv DEF LocalWatcher
<1>3. CASE RemoteWatcher
  BY <1>3, FetchIInv, ReadRemoteIInv, MergeRemoteIInv, ApplyAllAgainIInv,
     EndWatchIInv DEF RemoteWatcher
<1>4. CASE Apply
  BY <1>4, ApplyToNoneIInv, ApplyNothingIInv, DownloadIInv,
     UpdateLocalMetadataIInv, TrashLocalIInv, UploadNothingIInv, UploadNewIInv,
     UploadIInv, UpdateRemoteMetadataIInv, TrashRemoteIInv DEF Apply
<1>5. CASE PickChange \/ SaveSeq \/ SaveDoc
  BY <1>5, PickChangeIInv, SaveSeqIInv, SaveDocIInv
<1>6. CASE Failure
  BY <1>6, BlockIInv, GiveUpIInv, ResolveRemoteConflictIInv, RetryIInv,
     CrashIInv DEF Failure
<1>7. CASE UNCHANGED vars
  <2>1. Types
    BY TypeParts DEF IInv
  <2>2. TypeOK'
    BY <1>7, <2>1, TypesKept, TypePartsNext DEF vars, Types
  <2>3. RecordsOK' /\ EventsOK' /\ MergeOK' /\ SyncOK' /\ BlockedOK'
    BY <1>7, RecordsKept, WatchersKept, SyncKept
       DEF IInv, vars, remote, pouch, merging
  <2> QED
    BY <2>2, <2>3 DEF IInv
<1> QED
  BY <1>1, <1>2, <1>3, <1>4, <1>5, <1>6, <1>7 DEF Next, Sync

(* The theorems *)

(* Every reachable state has the invariant. *)
LEMMA AlwaysIInv == Spec => []IInv
<1> QED
  BY InitIInv, NextIInv, PTL DEF Spec

(* The variables keep their types: among others, the remote sequence never  *)
(* skips a file the Cozy does not have, and records have the shape that     *)
(* metadata.js gives them, whatever is merged, retried and recorded.        *)
THEOREM FileTypeCorrect == Spec => []TypeOK
<1>1. IInv => TypeOK
  BY DEF IInv
<1> QED
  BY <1>1, AlwaysIInv, PTL

(* No side of a record is ever above its target and one is always at it,    *)
(* through any number of merges, conflicts, dissociations, retries, crashes *)
(* and changes applied: what isUpToDate, outOfDateSide and getPreviousRev   *)
(* rely on.                                                                 *)
THEOREM SidesFollow == Spec => []SidesFollowTarget
<1>1. IInv => SidesFollowTarget
  BY DEF IInv, RecordsOK, Good, Follows, SidesFollowTarget, Side
<1> QED
  BY <1>1, AlwaysIInv, PTL

(* Whatever a watcher is about to save at the end of a merge,               *)
(* metadata.invariants accepts it.                                          *)
THEOREM MergesValid == Spec => []MergesAreValid
<1>1. IInv => MergesAreValid
  <2> SUFFICES ASSUME IInv, merge # NoMerge, Outcome.op = "put"
               PROVE  Valid(Outcome.doc)
    BY DEF MergesAreValid
  <2>1. CASE owner = "local"
    BY <2>1, LocalOutcomeSound DEF Outcome, Sound
  <2>2. CASE owner # "local"
    BY <2>2, RemoteOutcomeSound DEF Outcome, Sound, IInv, MergeOK
  <2> QED
    BY <2>1, <2>2
<1> QED
  BY <1>1, AlwaysIInv, PTL
=============================================================================
