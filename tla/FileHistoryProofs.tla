------------------------- MODULE FileHistoryProofs -------------------------
(* What the revisions of the record of a file tell Sync: the content that   *)
(* each side has, and the revision to compare the record with.              *)
EXTENDS FileSyncProofs

(* Remote files are numbered, and so are their revisions. *)
Before(one, two) == \/ one.id < two.id
                    \/ one.id = two.id /\ one.rev < two.rev

(* The side was not told the last changes, unless it does not exist.        *)
Late(side, record) == record.sides[side] \notin {0, record.sides.target}

(* The revisions of a record end with it. Going back from it by the number  *)
(* of changes that a side misses leads to the one that the side is at, with *)
(* the remote file that the record knows, or one before it.                 *)
Traces(revisions, record) ==
  /\ record = NoDoc => revisions = <<>>
  /\ record # NoDoc => /\ Len(revisions) # 0
                       /\ revisions[Len(revisions)] = record
  /\ \A side \in Side : Late(side, record) =>
       LET number == record.sides[side]
           index == Len(revisions) - (record.sides.target - number)
       IN /\ index >= 1
          /\ revisions[index].sides[side] = number
          /\ OutOfDateSide(revisions[index].sides) # side
          /\ side = "remote" => revisions[index].remote = record.remote
          /\ side = "local" /\ ~record.deleted =>
               Before(revisions[index].remote, record.remote)

(* What a revision may be, on top of a record.                              *)
Updates(was, record) ==
  /\ record.rev = was.rev
  /\ \A side \in Side : Late(side, record) =>
       /\ record.sides[side] = was.sides[side]
       /\ record.sides.target = was.sides.target + 1
  /\ Late("remote", record) => record.remote = was.remote
  /\ Late("local", record) /\ ~record.deleted =>
       /\ ~was.deleted
       /\ \/ Before(was.remote, record.remote)
          \/ record.remote = was.remote /\ Late("local", was)

(* A revision that tells the content of its sides, if the one before did.   *)
TellsOn(was, record) == ~was.trashed /\ Told(was) => record.trashed \/ Told(record)

(* Records and their marks *)

(* What a dissociation leaves. *)
LEMMA DissociatedIs ==
  ASSUME NEW was \in Docs, NEW side \in Side
  PROVE  LET alone == Dissociate(side, was) IN
         /\ alone \in Docs
         /\ alone.rev = was.rev /\ alone.md5sum = was.md5sum
         /\ alone.deleted = was.deleted /\ alone.trashed = was.trashed
         /\ alone.sides = Dissociated(side, was.sides)
         /\ side = "local" => alone.local = NoFile /\ alone.remote = was.remote
         /\ side = "remote" => alone.remote = NoRemote /\ alone.local = was.local
<1> DEFINE half == [was EXCEPT !.sides = Dissociated(side, was.sides)]
<1>1. NoFile \in Files /\ NoRemote \in RemoteInfos /\ was.sides \in Sides
  BY DEF Docs, Files, Stamps, RemoteInfos, NoFile, NoRemote, None
<1>2. Dissociated(side, was.sides) \in Sides
  BY <1>1, SidesWith DEF Dissociated
<1>3. /\ half \in Docs /\ half.sides = Dissociated(side, was.sides)
      /\ half.local = was.local /\ half.remote = was.remote
      /\ half.rev = was.rev /\ half.md5sum = was.md5sum
      /\ half.deleted = was.deleted /\ half.trashed = was.trashed
  BY <1>2 DEF Docs
<1> HIDE DEF half
<1>4. Dissociate(side, was) = IF side = "local" THEN [half EXCEPT !.local = NoFile]
                              ELSE [half EXCEPT !.remote = NoRemote]
  BY DEF Dissociate, half
<1> QED
  BY <1>1, <1>3, <1>4 DEF Docs, Side

(* A mark leaves the other side as late as it was, or makes it late. *)
LEMMA MarkedLate ==
  ASSUME NEW record \in Docs, NEW side \in Side,
         record.sides.local <= record.sides.target,
         record.sides.remote <= record.sides.target
  PROVE  LET marked == Marked(side, record)
             other == OtherSide(side)
         IN /\ marked \in Docs
            /\ OutOfDateSide(marked.sides) = other
            /\ ~Late(side, marked)
            /\ marked.sides[other] = record.sides[other]
            /\ marked.sides.target = record.sides.target + 1
            /\ marked.rev = record.rev /\ marked.md5sum = record.md5sum
            /\ marked.local = record.local /\ marked.remote = record.remote
            /\ marked.deleted = record.deleted
            /\ marked.trashed = record.trashed
<1> DEFINE marked == Marked(side, record)
           other == OtherSide(side)
<1>1. /\ marked \in Docs /\ marked.sides \in Sides
      /\ marked.sides.target = record.sides.target + 1
      /\ marked.sides[side] = record.sides.target + 1
      /\ marked.sides[other] = record.sides[other]
      /\ record.sides \in Sides
  BY MarkedIs, MarkSideIs DEF Docs
<1>2. /\ marked.rev = record.rev /\ marked.md5sum = record.md5sum
      /\ marked.local = record.local /\ marked.remote = record.remote
      /\ marked.deleted = record.deleted /\ marked.trashed = record.trashed
  BY DEF Marked, Docs
<1> HIDE DEF marked
<1>3. OutOfDateSide(marked.sides) = other /\ ~Late(side, marked)
  BY <1>1 DEF OutOfDateSide, Late, Sides, Side, OtherSide
<1> QED
  BY <1>1, <1>2, <1>3 DEF marked

(* The change of a side is a revision on top of the record. *)
LEMMA MarkedUpdates ==
  ASSUME NEW was \in Docs, NEW record \in Docs, NEW side \in Side,
         Follows(was.sides), record.rev = was.rev, record.sides = was.sides,
         side = "local" => record.remote = was.remote,
         side = "remote" =>
           \/ record.deleted \/ was.sides.local = 0
           \/ /\ ~was.deleted
              /\ \/ Before(was.remote, record.remote)
                 \/ record.remote = was.remote /\ Late("local", was)
  PROVE  Updates(was, Marked(side, record))
<1> DEFINE marked == Marked(side, record)
<1>1. /\ ~Late(side, marked)
      /\ marked.sides[OtherSide(side)] = was.sides[OtherSide(side)]
      /\ marked.sides.target = was.sides.target + 1
      /\ marked.rev = was.rev /\ marked.deleted = record.deleted
      /\ marked.remote = record.remote
  BY MarkedLate DEF Follows
<1> HIDE DEF marked
<1>2. \A one \in Side : Late(one, marked) =>
        /\ one = OtherSide(side)
        /\ was.sides[one] # 0
        /\ marked.sides[one] = was.sides[one]
        /\ marked.sides.target = was.sides.target + 1
  BY <1>1 DEF Late, OtherSide, Side
<1>3. Late("remote", marked) => marked.remote = was.remote
  BY <1>1, <1>2 DEF OtherSide, Side
<1>4. Late("local", marked) /\ ~marked.deleted =>
        /\ ~was.deleted
        /\ \/ Before(was.remote, marked.remote)
           \/ marked.remote = was.remote /\ Late("local", was)
  BY <1>1, <1>2 DEF OtherSide, Side
<1> QED
  BY <1>1, <1>2, <1>3, <1>4 DEF Updates, marked

(* A revision with no late side may be saved on top of any. *)
LEMMA SettledUpdates ==
  ASSUME NEW was, NEW record, record.rev = was.rev,
         \A side \in Side : ~Late(side, record)
  PROVE  Updates(was, record)
BY DEF Updates, Side

(* Merges *)

(* The side that stays was told everything, and its content. *)
LEMMA DissociateUpdates ==
  ASSUME NEW ids, NEW was, Good(was, ids), NEW side \in Side,
         was.sides[side] < was.sides.target
  PROVE  LET alone == Dissociate(side, was) IN
         /\ alone \in Docs /\ alone.rev = was.rev
         /\ alone.sides.local <= alone.sides.target
         /\ alone.sides.remote <= alone.sides.target
         /\ alone.sides[side] = 0
         /\ \A one \in Side : ~Late(one, alone)
         /\ Updates(was, alone)
         /\ Told(was) => /\ side = "local" => alone.remote.content = alone.md5sum
                         /\ side = "remote" => alone.local.content = alone.md5sum
                         /\ Told(alone)
         /\ alone.trashed = was.trashed
<1> DEFINE alone == Dissociate(side, was)
           other == OtherSide(side)
<1>1. /\ was \in Docs /\ was.sides \in Sides /\ Follows(was.sides)
  BY DEF Good, Docs
<1>2. /\ alone \in Docs /\ alone.rev = was.rev /\ alone.md5sum = was.md5sum
      /\ alone.trashed = was.trashed
      /\ alone.sides = Dissociated(side, was.sides)
      /\ side = "local" => alone.remote = was.remote
      /\ side = "remote" => alone.local = was.local
  BY <1>1, DissociatedIs
<1> HIDE DEF alone
<1>3. /\ alone.sides[side] = 0 /\ alone.sides.target = was.sides.target
      /\ alone.sides[other] = was.sides[other]
      /\ was.sides[other] = was.sides.target
  BY <1>1, <1>2 DEF Dissociated, Sides, Side, OtherSide, Follows
<1>4. /\ alone.sides.local <= alone.sides.target
      /\ alone.sides.remote <= alone.sides.target
      /\ \A one \in Side : ~Late(one, alone)
  BY <1>1, <1>3 DEF Late, Sides, Side, OtherSide
<1>5. OutOfDateSide(was.sides) = side /\ OutOfDateSide(alone.sides) = side
  BY <1>1, <1>3 DEF OutOfDateSide, Sides, Side, OtherSide
<1>6. Told(was) => /\ side = "local" => alone.remote.content = alone.md5sum
                   /\ side = "remote" => alone.local.content = alone.md5sum
                   /\ Told(alone)
  BY <1>2, <1>5 DEF Told, Side
<1>7. Updates(was, alone)
  BY <1>2, <1>4, SettledUpdates
<1> QED
  BY <1>2, <1>3, <1>4, <1>6, <1>7 DEF alone

(* The record of a conflict is a revision of the one it had. *)
LEMMA ConflictUpdates ==
  ASSUME NEW ids, NEW was, Good(was, ids), was # NoDoc, NEW side \in Side,
         ~IsAtLeastUpToDate(side, was.sides), NEW known \in BOOLEAN,
         Conflict(side, known, was).op = "put"
  PROVE  LET saved == Conflict(side, known, was).doc IN
         /\ Updates(was, saved) /\ TellsOn(was, saved)
         /\ saved.remote \in {was.remote, NoRemote}
<1> DEFINE alone == Dissociate(side, was)
           other == OtherSide(side)
           marked == Marked(other, alone)
<1>1. was.sides[side] < was.sides.target /\ other \in Side /\ OtherSide(other) = side
      /\ (other = "local" <=> side = "remote")
  BY BehindTarget DEF Side, OtherSide
<1>2. /\ alone \in Docs /\ alone.rev = was.rev
      /\ alone.sides.local <= alone.sides.target
      /\ alone.sides.remote <= alone.sides.target
      /\ alone.sides[side] = 0
      /\ Told(was) => /\ side = "local" => alone.remote.content = alone.md5sum
                      /\ side = "remote" => alone.local.content = alone.md5sum
      /\ alone.remote \in {was.remote, NoRemote}
  BY <1>1, DissociateUpdates, DissociatedIs DEF Good, Side
<1> HIDE DEF alone
<1>3. /\ OutOfDateSide(marked.sides) = side
      /\ ~Late(other, marked) /\ marked.sides[side] = 0
      /\ marked.rev = was.rev /\ marked.md5sum = alone.md5sum
      /\ marked.local = alone.local /\ marked.remote = alone.remote
  BY <1>1, <1>2, MarkedLate
<1> HIDE DEF marked
<1>4. \A one \in Side : ~Late(one, marked)
  BY <1>3 DEF Late, Side, OtherSide
<1>5. Told(was) => Told(marked)
  BY <1>2, <1>3 DEF Told, Side
<1>6. Conflict(side, known, was).doc = marked
  BY DEF Conflict, marked, alone
<1> QED
  BY <1>2, <1>3, <1>4, <1>5, <1>6, SettledUpdates DEF TellsOn

(* A change that Merge takes for known tells the content that the record    *)
(* has; the other ones bring the content that the record gets.              *)
LEMMA LocalUpdateUpdates ==
  ASSUME NEW ids, NEW was, Good(was, ids), NEW file \in Files, file # NoFile,
         LocalUpdate(file, was).op # "none"
  PROVE  LET saved == LocalUpdate(file, was).doc IN
         /\ LocalUpdate(file, was).op = "put"
         /\ Updates(was, saved) /\ TellsOn(was, saved)
         /\ saved.remote \in {was.remote, NoRemote}
<1> DEFINE seen == [was EXCEPT !.md5sum = file.content, !.ino = file.ino,
                               !.local = file]
           known == [was EXCEPT !.local = file]
           late == OutOfDateSide(was.sides)
           marked == Marked("local", seen)
           revived == [marked EXCEPT !.deleted = FALSE, !.trashed = FALSE,
                                     !.errors = 0]
           spared == Marked(OtherSide(late), known)
<1>1. /\ was \in Docs /\ was.sides \in Sides /\ Follows(was.sides)
      /\ file.content \in Nat /\ file.ino \in Stamps
  BY DEF Good, Files, Docs
<1>2. /\ seen \in Docs /\ seen.sides = was.sides /\ seen.rev = was.rev
      /\ seen.local = file /\ seen.remote = was.remote
      /\ seen.md5sum = file.content
  BY <1>1 DEF Docs
<1>3. /\ known \in Docs /\ known.sides = was.sides /\ known.rev = was.rev
      /\ known.local = file /\ known.remote = was.remote
      /\ known.md5sum = was.md5sum /\ known.deleted = was.deleted
      /\ known.trashed = was.trashed
  BY <1>1 DEF Docs
<1>4. /\ Updates(was, marked) /\ Told(marked) /\ marked \in Docs
      /\ marked.remote = was.remote
  <2> HIDE DEF seen
  <2>1. Updates(was, marked)
    BY <1>1, <1>2, MarkedUpdates DEF Side
  <2>2. /\ OutOfDateSide(marked.sides) = "remote" /\ marked \in Docs
        /\ marked.local = file /\ marked.md5sum = file.content
        /\ marked.remote = was.remote
    BY <1>1, <1>2, MarkedLate DEF Side, OtherSide, Follows
  <2> QED
    BY <2>1, <2>2 DEF Told
<1>5. Updates(was, revived) /\ Told(revived) /\ revived.remote = was.remote
  <2> HIDE DEF marked
  <2>1. /\ revived.rev = marked.rev /\ revived.sides = marked.sides
        /\ revived.local = marked.local /\ revived.remote = marked.remote
        /\ revived.md5sum = marked.md5sum
    BY <1>4 DEF Docs
  <2>2. ~Late("local", marked)
    BY <1>1, <1>2, MarkedLate DEF marked, Side, Follows
  <2> HIDE DEF revived
  <2>3. Told(revived)
    BY <1>4, <2>1 DEF Told
  <2>4. \A side \in Side : Late(side, revived) <=> Late(side, marked)
    BY <2>1 DEF Late
  <2>5. ~Late("local", revived)
    BY <2>2, <2>4 DEF Side
  <2>6. Updates(was, revived)
    BY <1>4, <2>1, <2>4, <2>5 DEF Updates, Side
  <2> QED
    BY <1>4, <2>1, <2>3, <2>6
<1>6. SameFile(seen, was) /\ late = "none" =>
        Updates(was, known) /\ TellsOn(was, known)
  <2> SUFFICES ASSUME SameFile(seen, was), late = "none"
               PROVE  Updates(was, known) /\ TellsOn(was, known)
    OBVIOUS
  <2>1. file.content = was.md5sum
    BY <1>2 DEF SameFile
  <2>2. was.sides.local = was.sides.remote
    BY <1>1 DEF OutOfDateSide, Sides
  <2>3. \A side \in Side : ~Late(side, known)
    BY <1>1, <1>3, <2>2 DEF Late, Follows, Side, Sides
  <2> HIDE DEF known
  <2>4. Updates(was, known)
    BY <1>3, <2>3, SettledUpdates
  <2>5. Told(was) => Told(known)
    BY <1>3, <2>1 DEF Told
  <2> QED
    BY <2>4, <2>5 DEF TellsOn
<1>7. ~was.deleted /\ SameFile(seen, was) /\ late # "none" =>
        /\ Updates(was, spared) /\ TellsOn(was, spared)
        /\ spared.remote = was.remote
  <2> SUFFICES ASSUME ~was.deleted, SameFile(seen, was), late # "none"
               PROVE  /\ Updates(was, spared) /\ TellsOn(was, spared)
                      /\ spared.remote = was.remote
    OBVIOUS
  <2>1. file.content = was.md5sum
    BY <1>2 DEF SameFile
  <2>2. /\ late \in Side /\ OtherSide(late) \in Side
        /\ OtherSide(OtherSide(late)) = late
        /\ OtherSide(late) = "remote" =>
             was.sides.local = 0 \/ Late("local", was)
    BY <1>1 DEF OutOfDateSide, OtherSide, Side, Sides, Late, Follows
  <2> HIDE DEF late
  <2>3. Updates(was, spared)
    <3> HIDE DEF known
    <3> QED
      BY <1>1, <1>3, <2>2, MarkedUpdates
  <2>4. /\ OutOfDateSide(spared.sides) = late
        /\ spared.local = known.local /\ spared.remote = known.remote
        /\ spared.md5sum = known.md5sum
    <3> HIDE DEF known
    <3> QED
      BY <1>1, <1>3, <2>2, MarkedLate DEF Follows
  <2> HIDE DEF spared
  <2>5. Told(was) => Told(spared)
    BY <1>3, <2>1, <2>4 DEF Told, late
  <2> QED
    BY <1>3, <2>3, <2>4, <2>5 DEF TellsOn
<1>8. was # NoDoc /\ ~IsAtLeastUpToDate("local", was.sides)
        /\ Conflict("local", was.local # NoFile, was).op = "put" =>
          LET saved == Conflict("local", was.local # NoFile, was).doc IN
          /\ Updates(was, saved) /\ TellsOn(was, saved)
          /\ saved.remote \in {was.remote, NoRemote}
  BY ConflictUpdates DEF Side
<1>9. Conflict("local", was.local # NoFile, was).op \in {"none", "put"}
  BY DEF Conflict
<1>10. /\ TellsOn(was, marked) /\ TellsOn(was, revived)
       /\ known.remote = was.remote
  BY <1>3, <1>4, <1>5 DEF TellsOn
<1> HIDE DEF seen, known, late, marked, revived, spared
<1> QED
  BY <1>4, <1>5, <1>6, <1>7, <1>8, <1>9, <1>10
     DEF LocalUpdate, seen, known, late, marked, revived, spared, Save, Ignore

(* A remote change that is merged comes after those that were. *)
LEMMA RemoteUpdateUpdates ==
  ASSUME NEW ids, NEW was, Good(was, ids), NEW info \in RemoteInfos,
         Before(was.remote, info), RemoteUpdate(info, was).op # "none"
  PROVE  LET saved == RemoteUpdate(info, was).doc IN
         /\ RemoteUpdate(info, was).op = "put"
         /\ Updates(was, saved) /\ TellsOn(was, saved)
         /\ saved.remote \in {info, was.remote, NoRemote}
<1> DEFINE seen == [was EXCEPT !.md5sum = info.content, !.remote = info]
           alone == [NoDoc EXCEPT !.rev = was.rev, !.md5sum = info.content,
                                  !.remote = info]
           known == was.remote # NoRemote
<1>1. /\ was \in Docs /\ was.sides \in Sides /\ Follows(was.sides)
      /\ info.content \in Nat /\ was.rev \in Nat
  BY DEF Good, Docs, RemoteInfos
<1>2. /\ seen \in Docs /\ seen.sides = was.sides /\ seen.rev = was.rev
      /\ seen.remote = info /\ seen.md5sum = info.content
  BY <1>1, DocWith DEF Docs
<1>3. /\ alone \in Docs /\ alone.sides = NoSides /\ alone.rev = was.rev
      /\ alone.remote = info /\ alone.md5sum = info.content
  <2>1. NoDoc \in Docs
    BY NoDocGood DEF Good
  <2>2. alone \in Docs
    BY <1>1, <2>1, DocWith
  <2> QED
    BY <2>2 DEF NoDoc
<1>4. /\ was.deleted \/ Updates(was, Marked("remote", seen))
      /\ Told(Marked("remote", seen)) /\ Marked("remote", seen).remote = info
  <2> HIDE DEF seen
  <2>1. was.deleted \/ Updates(was, Marked("remote", seen))
    BY <1>1, <1>2, MarkedUpdates DEF Side
  <2>2. /\ OutOfDateSide(Marked("remote", seen).sides) = "local"
        /\ Marked("remote", seen).remote = info
        /\ Marked("remote", seen).md5sum = info.content
    BY <1>1, <1>2, MarkedLate DEF Side, OtherSide, Follows
  <2> QED
    BY <2>1, <2>2 DEF Told
<1>5. /\ Updates(was, Marked("remote", alone)) /\ Told(Marked("remote", alone))
      /\ Marked("remote", alone).remote = info
  <2> HIDE DEF alone
  <2> DEFINE marked == Marked("remote", alone)
  <2>1. /\ OutOfDateSide(marked.sides) = "local" /\ ~Late("remote", marked)
        /\ marked.sides.local = 0 /\ marked.rev = was.rev
        /\ marked.remote = info /\ marked.md5sum = info.content
    BY <1>3, MarkedLate DEF Side, OtherSide, NoSides
  <2> HIDE DEF marked
  <2>2. \A side \in Side : ~Late(side, marked)
    BY <2>1 DEF Late, Side
  <2>3. Updates(was, marked) /\ Told(marked)
    BY <2>1, <2>2, SettledUpdates DEF Told
  <2> QED
    BY <2>1, <2>3 DEF marked
<1>6. was # NoDoc /\ ~IsAtLeastUpToDate("remote", was.sides)
        /\ Conflict("remote", known, was).op = "put" =>
          LET saved == Conflict("remote", known, was).doc IN
          /\ Updates(was, saved) /\ TellsOn(was, saved)
          /\ saved.remote \in {was.remote, NoRemote}
  BY ConflictUpdates DEF Side
<1>7. Conflict("remote", known, was).op \in {"none", "put"}
  BY DEF Conflict
<1>8. /\ TellsOn(was, Marked("remote", seen)) /\ TellsOn(was, Marked("remote", alone))
  BY <1>4, <1>5 DEF TellsOn
<1> HIDE DEF seen, alone, known
<1>9. CASE was = NoDoc \/ was.deleted
  <2>1. RemoteUpdate(info, was) = Save(Marked("remote", alone))
    BY <1>9 DEF RemoteUpdate, alone
  <2> QED
    BY <1>5, <1>8, <2>1 DEF Save
<1>10. CASE was # NoDoc /\ ~was.deleted
  <2>1. \/ RemoteUpdate(info, was) = Ignore
        \/ /\ ~IsAtLeastUpToDate("remote", was.sides)
           /\ RemoteUpdate(info, was) = Conflict("remote", known, was)
        \/ RemoteUpdate(info, was) = Save(Marked("remote", seen))
    BY <1>10 DEF RemoteUpdate, seen, known
  <2> QED
    BY <1>4, <1>6, <1>7, <1>8, <1>10, <2>1 DEF Save, Ignore
<1> QED
  BY <1>9, <1>10

(* A trashing marks the side that trashed, dissociates it, or is kept as a  *)
(* mark of the record.                                                      *)
LEMMA TrashUpdates ==
  ASSUME NEW ids, NEW was, Good(was, ids), was # NoDoc, NEW side \in Side,
         Trash(side, was).op = "put"
  PROVE  LET saved == Trash(side, was).doc IN
         /\ Updates(was, saved) /\ TellsOn(was, saved)
         /\ saved.remote \in {was.remote, NoRemote}
<1> DEFINE calm == [was EXCEPT !.errors = 0]
           alone == Dissociate(side, was)
           marked == Marked(side, calm)
           deleted == [marked EXCEPT !.deleted = TRUE]
           trashed == [calm EXCEPT !.trashed = TRUE]
           other == OtherSide(side)
           both == was.local # NoFile /\ was.remote # NoRemote
           behind == ~IsAtLeastUpToDate(side, was.sides)
           same == SameBinary(was.local.content, was.remote.content)
<1>1. /\ was \in Docs /\ was.sides \in Sides /\ Follows(was.sides)
      /\ Tells(was) /\ was.sides # NoSides
  BY DEF Good, Docs
<1>2. /\ calm \in Docs /\ calm.sides = was.sides /\ calm.rev = was.rev
      /\ calm.local = was.local /\ calm.remote = was.remote
      /\ calm.md5sum = was.md5sum /\ calm.trashed = was.trashed
      /\ calm.deleted = was.deleted
  BY <1>1 DEF Docs
<1>3. behind => /\ Updates(was, alone) /\ TellsOn(was, alone)
                /\ alone.remote \in {was.remote, NoRemote}
  <2> SUFFICES ASSUME behind
               PROVE  /\ Updates(was, alone) /\ TellsOn(was, alone)
                      /\ alone.remote \in {was.remote, NoRemote}
    OBVIOUS
  <2>1. was.sides[side] < was.sides.target
    BY BehindTarget
  <2>2. Updates(was, alone) /\ (Told(was) => Told(alone))
    BY <2>1, DissociateUpdates
  <2>3. alone.remote \in {was.remote, NoRemote}
    BY <1>1, DissociatedIs DEF Side
  <2> QED
    BY <2>2, <2>3 DEF TellsOn
<1>4. /\ marked \in Docs /\ marked.rev = was.rev /\ ~Late(side, marked)
      /\ OutOfDateSide(marked.sides) = other
      /\ marked.sides[other] = was.sides[other]
      /\ marked.sides.target = was.sides.target + 1
      /\ marked.md5sum = was.md5sum
      /\ marked.local = was.local /\ marked.remote = was.remote
  <2> HIDE DEF calm
  <2> QED
    BY <1>1, <1>2, MarkedLate DEF Follows
<1> HIDE DEF marked
<1>5. /\ deleted.rev = marked.rev /\ deleted.sides = marked.sides
      /\ deleted.local = marked.local /\ deleted.remote = marked.remote
      /\ deleted.md5sum = marked.md5sum /\ deleted.deleted
  BY <1>4 DEF Docs
<1> HIDE DEF deleted
<1>6. Updates(was, deleted)
  <2>1. \A one \in Side : Late(one, deleted) =>
          /\ one = other
          /\ deleted.sides[one] = was.sides[one]
          /\ deleted.sides.target = was.sides.target + 1
    BY <1>4, <1>5 DEF Late, OtherSide, Side
  <2> QED
    BY <1>4, <1>5, <2>1 DEF Updates
<1>7. was.sides[side] # 0 /\ ~(both /\ behind /\ ~same) /\ Told(was) => Told(deleted)
  <2> SUFFICES ASSUME was.sides[side] # 0, ~(both /\ behind /\ ~same), Told(was)
               PROVE  Told(deleted)
    OBVIOUS
  <2>1. CASE ~behind
    <3>1. OutOfDateSide(was.sides) # side
      BY <1>1, <2>1 DEF IsAtLeastUpToDate, HasBothSides, OutOfDateSide, Sides,
                        Side, Follows
    <3> QED
      BY <1>4, <1>5, <3>1 DEF Told, OtherSide, Side
  <2>2. CASE behind
    <3>1. was.sides[other] # 0 /\ OutOfDateSide(was.sides) = side
      <4>1. /\ was.sides[side] < was.sides.target
            /\ was.sides[other] = was.sides.target
        BY <2>2, BehindTarget
      <4> QED
        BY <1>1, <4>1 DEF OutOfDateSide, Sides, Side, OtherSide
    <3>2. both
      BY <1>1, <3>1 DEF Tells, OtherSide, Side
    <3>3. was.local.content = was.remote.content
      BY <2>2, <3>2 DEF SameBinary
    <3>4. was.local.content = was.md5sum \/ was.remote.content = was.md5sum
      BY <3>1 DEF Told, Side
    <3> QED
      BY <1>4, <1>5, <3>3, <3>4 DEF Told
  <2> QED
    BY <2>1, <2>2
<1>8. was.sides[side] = 0 => Updates(was, trashed)
  <2> SUFFICES ASSUME was.sides[side] = 0 PROVE Updates(was, trashed)
    OBVIOUS
  <2>1. trashed.rev = was.rev /\ trashed.sides = was.sides
    BY <1>2 DEF Docs
  <2>2. \A one \in Side : ~Late(one, trashed)
    BY <1>1, <2>1 DEF Late, Follows, Side, Sides, NoSides
  <2> QED
    BY <2>1, <2>2, SettledUpdates
<1>9. trashed.trashed /\ trashed.remote = was.remote
  BY <1>2 DEF Docs
<1>10. \/ behind /\ Trash(side, was) = Save(alone)
       \/ Trash(side, was) = Erase(was)
       \/ /\ was.sides[side] # 0 /\ ~(both /\ behind /\ ~same)
          /\ Trash(side, was) = Save(deleted)
       \/ was.sides[side] = 0 /\ Trash(side, was) = Save(trashed)
  BY Zenon DEF Trash, alone, deleted, marked, trashed, calm, both, behind, same
<1> HIDE DEF alone, trashed, calm, both, behind, same
<1>11. deleted.remote = was.remote
  BY <1>4, <1>5
<1> QED
  BY <1>3, <1>6, <1>7, <1>8, <1>9, <1>10, <1>11 DEF TellsOn, Save, Erase

(* Revisions *)

(* The content of the sides is told by every revision of a record that was  *)
(* never marked as trashed.                                                 *)
Unmarked(revisions) == \A i \in DOMAIN revisions : ~revisions[i].trashed
TellsAll(revisions) == Unmarked(revisions) =>
                         \A i \in DOMAIN revisions : Told(revisions[i])

(* What comes before a file comes before those that follow it. *)
LEMMA BeforeAll ==
  ASSUME NEW one \in RemoteInfos, NEW two \in RemoteInfos, NEW three \in RemoteInfos,
         Before(one, two), Before(two, three)
  PROVE  Before(one, three)
BY DEF Before, RemoteInfos

(* A new revision on top of the last one is reached the same way. *)
LEMMA TracesGrow ==
  ASSUME NEW revisions \in Seq(Docs), NEW was \in Docs, NEW saved \in Docs,
         Follows(was.sides), Traces(revisions, was), was # NoDoc, saved # NoDoc,
         \A side \in Side : Late(side, saved) =>
           /\ saved.sides[side] = was.sides[side]
           /\ saved.sides.target = was.sides.target + 1,
         Late("remote", saved) => saved.remote = was.remote,
         Late("local", saved) /\ ~saved.deleted =>
           /\ ~was.deleted
           /\ \/ Before(was.remote, saved.remote)
              \/ saved.remote = was.remote /\ Late("local", was)
  PROVE  Traces(Append(revisions, saved), saved)
<1> DEFINE more == Append(revisions, saved)
           size == Len(revisions)
           Number(side) == saved.sides[side]
           Index(side) == size + 1 - (saved.sides.target - Number(side))
<1>1. /\ size \in Nat \ {0} /\ revisions[size] = was
      /\ Len(more) = size + 1 /\ more[size + 1] = saved
      /\ \A i \in 1..size : more[i] = revisions[i] /\ revisions[i] \in Docs
  BY DEF Traces
<1>2. was.sides \in Sides /\ saved.sides \in Sides
  BY DEF Docs
<1>3. ASSUME NEW side \in Side, Late(side, saved)
      PROVE  /\ Index(side) \in 1..size
             /\ more[Index(side)] = revisions[Index(side)]
             /\ revisions[Index(side)].sides[side] = Number(side)
             /\ OutOfDateSide(revisions[Index(side)].sides) # side
             /\ side = "remote" => revisions[Index(side)].remote = was.remote
             /\ side = "local" /\ ~Late("local", was) => revisions[Index(side)] = was
             /\ side = "local" /\ Late("local", was) /\ ~was.deleted =>
                  Before(revisions[Index(side)].remote, was.remote)
  <2>1. /\ Number(side) = was.sides[side] /\ was.sides[side] # 0
        /\ saved.sides.target = was.sides.target + 1
    BY <1>3 DEF Late
  <2>2. Number(side) \in Nat /\ was.sides.target \in Nat
    BY <1>2 DEF Sides, Side
  <2>3. Index(side) = size - (was.sides.target - was.sides[side])
    <3>1. Index(side) = size + 1 - ((was.sides.target + 1) - was.sides[side])
      BY <2>1
    <3>2. was.sides[side] \in Nat
      BY <1>2 DEF Sides, Side
    <3> HIDE DEF Index, size
    <3> QED
      BY <1>1, <2>2, <3>1, <3>2
  <2>4. Number(side) <= was.sides.target
    BY <1>2, <2>1 DEF Follows, Side
  <2>5. CASE Late(side, was)
    <3>1. /\ Index(side) >= 1
          /\ revisions[Index(side)].sides[side] = Number(side)
          /\ OutOfDateSide(revisions[Index(side)].sides) # side
          /\ side = "remote" => revisions[Index(side)].remote = was.remote
          /\ side = "local" /\ ~was.deleted =>
               Before(revisions[Index(side)].remote, was.remote)
      <4> HIDE DEF Index, Number
      <4> QED
        BY <2>1, <2>3, <2>5 DEF Traces
    <3>2. Index(side) \in 1..size
      BY <1>1, <2>1, <2>2, <2>3, <2>4, <3>1
    <3> QED
      BY <1>1, <2>5, <3>1, <3>2
  <2>6. CASE ~Late(side, was)
    <3>1. was.sides[side] = was.sides.target
      BY <2>1, <2>6 DEF Late
    <3>2. Index(side) = size
      BY <1>1, <2>2, <2>3, <3>1
    <3>3. OutOfDateSide(was.sides) # side
      BY <1>2, <3>1 DEF OutOfDateSide, Follows, Sides, Side
    <3> QED
      BY <1>1, <2>1, <2>6, <3>2, <3>3
  <2> QED
    BY <2>5, <2>6
<1>4. ASSUME Late("local", saved), ~saved.deleted
      PROVE  Before(revisions[Index("local")].remote, saved.remote)
  <2>0. "local" \in Side /\ Index("local") \in 1..size
    BY <1>3, <1>4 DEF Side
  <2>1. /\ revisions[Index("local")].remote \in RemoteInfos
        /\ was.remote \in RemoteInfos /\ saved.remote \in RemoteInfos
    BY <1>1, <2>0 DEF Docs
  <2>2. ~Late("local", was) => revisions[Index("local")].remote = was.remote
    BY <1>3, <1>4, <2>0
  <2>3. Late("local", was) => Before(revisions[Index("local")].remote, was.remote)
    BY <1>3, <1>4, <2>0
  <2> HIDE DEF Index
  <2> QED
    BY <1>4, <2>1, <2>2, <2>3, BeforeAll
<1> HIDE DEF more
<1>5. ASSUME NEW side \in Side, Late(side, saved)
      PROVE  LET index == Len(more) - (saved.sides.target - saved.sides[side])
             IN /\ index >= 1
                /\ more[index].sides[side] = saved.sides[side]
                /\ OutOfDateSide(more[index].sides) # side
                /\ side = "remote" => more[index].remote = saved.remote
                /\ side = "local" /\ ~saved.deleted =>
                     Before(more[index].remote, saved.remote)
  <2>1. Len(more) - (saved.sides.target - saved.sides[side]) = Index(side)
    <3>1. Len(more) = size + 1 /\ size \in Nat
      BY <1>1
    <3>2. saved.sides.target \in Nat /\ saved.sides[side] \in Nat
      BY <1>2 DEF Sides, Side
    <3> QED
      BY <3>1, <3>2
  <2>2. Index(side) >= 1
    BY <1>1, <1>3, <1>5
  <2> HIDE DEF Index
  <2> QED
    BY <1>3, <1>4, <1>5, <2>1, <2>2
<1>6. Len(more) # 0 /\ more[Len(more)] = saved
  <2>1. Len(more) = size + 1 /\ size \in Nat
    BY <1>1
  <2>2. more[size + 1] = saved
    BY <1>1
  <2> HIDE DEF size
  <2> QED
    BY <2>1, <2>2
<1> QED
  BY <1>5, <1>6 DEF Traces, more

(* One more revision that tells its contents. *)
LEMMA TellsGrow ==
  ASSUME NEW revisions \in Seq(Docs), NEW saved \in Docs, TellsAll(revisions),
         Unmarked(revisions) => saved.trashed \/ Told(saved)
  PROVE  TellsAll(Append(revisions, saved))
<1> DEFINE more == Append(revisions, saved)
           size == Len(revisions)
<1>1. /\ size \in Nat /\ DOMAIN revisions = 1..size
      /\ DOMAIN more = 1..(size + 1) /\ more[size + 1] = saved
      /\ \A i \in 1..size : more[i] = revisions[i]
  OBVIOUS
<1> HIDE DEF more, size
<1>2. \A i \in 1..(size + 1) : i \in 1..size \/ i = size + 1
  BY <1>1
<1>3. ASSUME Unmarked(more) PROVE \A i \in DOMAIN more : Told(more[i])
  <2>1. size + 1 \in 1..(size + 1) /\ \A i \in 1..size : i \in 1..(size + 1)
    BY <1>1
  <2>2. Unmarked(revisions) /\ ~saved.trashed
    BY <1>1, <1>3, <2>1 DEF Unmarked
  <2>3. Told(saved) /\ \A i \in 1..size : Told(revisions[i])
    BY <1>1, <2>2 DEF TellsAll
  <2> QED
    BY <1>1, <1>2, <2>3
<1> QED
  BY <1>3 DEF TellsAll, more

(* The first revision. *)
LEMMA TellsAlone ==
  ASSUME NEW saved \in Docs, saved.trashed \/ Told(saved)
  PROVE  TellsAll(<<saved>>)
BY DEF TellsAll, Unmarked

(* The invariant *)

(* A record at hand is the one of Pouch if it has its revision. *)
Dated(record) == /\ record.rev <= puts
                 /\ record.rev = 0 => record = NoDoc
                 /\ record.rev = doc.rev => record = doc

RevsOK == Dated(doc) /\ Dated(merge.was) /\ Dated(blocked.change)

(* Nobody else writes the record while Sync applies its change. What Sync   *)
(* records as done on both sides is the content of both.                    *)
HoldsOK ==
  /\ sync.pc # "idle" => blocked = NoBlock /\ sync.change.rev = doc.rev
  /\ sync.pc = "apply" => sync.change = doc
  /\ sync.pc \in {"seq", "save"} /\ ~sync.change.deleted /\ NeverTrashed =>
       /\ sync.change.local.content = sync.change.md5sum
       /\ sync.change.remote.content = sync.change.md5sum

TracesOK == Traces(history, doc) /\ TellsAll(history)

(* What was fetched of a remote file is what it holds, or it has a newer    *)
(* revision.                                                                *)
Fetched(info, files) ==
  /\ info.id \in DOMAIN files
  /\ info.rev \in 1..files[info.id].rev
  /\ info.rev = files[info.id].rev => info.content = files[info.id].content

(* Only the last file created may still be at the path. *)
Numbered(files) ==
  \A id \in DOMAIN files : /\ files[id].rev # 0
                           /\ files[id].where = "live" => id = Len(files)

CozyOK == /\ Numbered(cozy)
          /\ doc.remote # NoRemote => Fetched(doc.remote, cozy)
          /\ sync.change.remote # NoRemote => Fetched(sync.change.remote, cozy)

(* The events being merged: those of files that are not trashed are of one  *)
(* file, which is not older than the one of the record.                     *)
PullOK ==
  /\ owner # "remote" => pull.todo = {} /\ pull.failed = {}
  /\ merge # NoMerge /\ owner = "remote" =>
       /\ merge.event \in pull.todo
       /\ merge.event.where # "trash" => merge.was.remote.id <= merge.event.id
  /\ \A event \in pull.todo \cup pull.failed :
       /\ Fetched(event, cozy)
       /\ event.where # "trash" =>
            /\ doc.remote.id <= event.id
            /\ \A other \in pull.todo \cup pull.failed :
                 other.where # "trash" => other.id = event.id

HInv == RevsOK /\ HoldsOK /\ TracesOK /\ CozyOK /\ PullOK

(* There is no record at first. *)
LEMMA InitHInv == Init => HInv
<1> SUFFICES ASSUME Init PROVE HInv
  OBVIOUS
<1>1. /\ doc = NoDoc /\ history = <<>> /\ puts = 0 /\ cozy = <<>>
      /\ merge.was = NoDoc /\ blocked.change = NoDoc /\ sync.pc = "idle"
      /\ sync.change = NoDoc /\ pull.todo = {} /\ pull.failed = {}
      /\ owner = "none"
  BY DEF Init, NoMerge, NoBlock, NoSync, NoPull
<1>2. RevsOK /\ HoldsOK
  BY <1>1 DEF RevsOK, Dated, HoldsOK, NoDoc
<1>3. TracesOK
  <2>1. \A side \in Side : ~Late(side, NoDoc)
    BY DEF Late, NoDoc, NoSides, Side
  <2> QED
    BY <1>1, <2>1 DEF TracesOK, Traces, TellsAll
<1>4. CozyOK /\ PullOK
  BY <1>1 DEF CozyOK, PullOK, Numbered, NoDoc
<1> QED
  BY <1>2, <1>3, <1>4 DEF HInv

(* The record of Pouch *)

(* What the invariant says of the record of Pouch. *)
LEMMA DocIs ==
  ASSUME IInv, HInv
  PROVE  /\ Types /\ doc \in Docs /\ history \in Seq(Docs) /\ puts \in Nat
         /\ Good(doc, DOMAIN cozy) /\ Follows(doc.sides)
         /\ doc.rev = 0 => doc = NoDoc
         /\ NeverTrashed => Told(doc) /\ ~doc.trashed
<1>1. /\ Types /\ doc \in Docs /\ history \in Seq(Docs) /\ puts \in Nat
      /\ Good(doc, DOMAIN cozy) /\ Follows(doc.sides)
  BY TypeParts DEF IInv, RecordsOK, Good, Types, PouchTypes
<1>2. doc.rev = 0 => doc = NoDoc
  BY DEF HInv, RevsOK, Dated
<1>3. NeverTrashed => Told(doc) /\ ~doc.trashed
  <2>1. CASE doc = NoDoc
    BY <2>1 DEF Told, NoDoc, NoFile, NoRemote
  <2>2. CASE doc # NoDoc
    <3>1. Len(history) \in DOMAIN history /\ history[Len(history)] = doc
      BY <1>1, <2>2 DEF HInv, TracesOK, Traces
    <3> QED
      BY <3>1 DEF HInv, TracesOK, TellsAll, Unmarked, NeverTrashed
  <2> QED
    BY <2>1, <2>2
<1> QED
  BY <1>1, <1>2, <1>3

(* A revision written on top of the record of Pouch. *)
LEMMA WriteTraces ==
  ASSUME IInv, HInv, NEW record, Good(record, DOMAIN cozy'),
         record.sides # NoSides, Updates(doc, record),
         NeverTrashed => record.trashed \/ Told(record), Write(record)
  PROVE  TracesOK' /\ doc'.remote = record.remote
         /\ doc'.rev = puts + 1 /\ puts' = puts + 1
<1> DEFINE saved == [record EXCEPT !.rev = puts + 1]
<1>0. record \in Docs /\ puts + 1 \in Nat /\ puts + 1 # 0
  BY DocIs DEF Good
<1>1. /\ saved \in Docs /\ saved.rev = puts + 1
      /\ saved.sides = record.sides /\ saved.local = record.local
      /\ saved.remote = record.remote /\ saved.md5sum = record.md5sum
      /\ saved.deleted = record.deleted /\ saved.trashed = record.trashed
  BY <1>0 DEF Docs
<1>2. doc' = saved /\ puts' = puts + 1
      /\ history' = IF record.rev = 0 THEN <<saved>> ELSE Append(history, saved)
  BY DEF Write
<1> HIDE DEF saved
<1>3. /\ saved # NoDoc
      /\ Told(saved) <=> Told(record)
      /\ \A side \in Side : Late(side, saved) <=> Late(side, record)
  BY <1>0, <1>1 DEF NoDoc, Told, Late
<1>4. CASE record.rev = 0
  <2>1. doc = NoDoc /\ history = <<>>
    BY <1>4, DocIs DEF Updates, HInv, TracesOK, Traces
  <2>2. \A side \in Side : ~Late(side, saved)
    <3>1. \A side \in Side : doc.sides[side] = 0
      BY <2>1 DEF NoDoc, NoSides, Side
    <3> QED
      BY <1>3, <3>1 DEF Updates, Late
  <2>3. NeverTrashed
    BY <2>1 DEF NeverTrashed
  <2>4. TellsAll(<<saved>>)
    BY <1>1, <1>3, <2>3, TellsAlone
  <2>5. Traces(<<saved>>, saved)
    BY <1>3, <2>2 DEF Traces
  <2> QED
    BY <1>1, <1>2, <1>4, <2>4, <2>5 DEF TracesOK
<1>5. CASE record.rev # 0
  <2>1. doc # NoDoc
    BY <1>5 DEF Updates, NoDoc
  <2>2. TellsAll(Append(history, saved))
    <3>1. Unmarked(history) => saved.trashed \/ Told(saved)
      BY <1>1, <1>3 DEF Unmarked, NeverTrashed
    <3> QED
      BY <1>1, <3>1, DocIs, TellsGrow DEF HInv, TracesOK
  <2>3. /\ \A side \in Side : Late(side, saved) =>
             /\ saved.sides[side] = doc.sides[side]
             /\ saved.sides.target = doc.sides.target + 1
        /\ Late("remote", saved) => saved.remote = doc.remote
        /\ Late("local", saved) /\ ~saved.deleted =>
             /\ ~doc.deleted
             /\ \/ Before(doc.remote, saved.remote)
                \/ saved.remote = doc.remote /\ Late("local", doc)
    BY <1>1, <1>3 DEF Updates, Side
  <2>4. Traces(Append(history, saved), saved)
    BY <1>1, <1>3, <2>1, <2>3, DocIs, TracesGrow DEF HInv, TracesOK
  <2> QED
    BY <1>1, <1>2, <1>5, <2>2, <2>4 DEF TracesOK
<1> QED
  BY <1>4, <1>5

(* What steps leave of the invariant *)

(* Records at hand have the revision of Pouch, or an older one. *)
LEMMA RevsNext ==
  ASSUME IInv, HInv,
         \/ doc' = doc /\ puts' = puts
         \/ doc'.rev = puts + 1 /\ puts' = puts + 1
         \/ doc' = NoDoc /\ puts' = puts,
         merge'.was \in {merge.was, NoDoc} \/ (doc' = doc /\ merge'.was = doc),
         \/ blocked'.change \in {blocked.change, NoDoc}
         \/ doc' = doc /\ blocked'.change = doc
  PROVE  RevsOK'
<1>1. /\ puts \in Nat /\ doc.rev \in Nat /\ merge.was.rev \in Nat
      /\ blocked.change.rev \in Nat /\ NoDoc.rev = 0
  BY DocIs DEF IInv, RecordsOK, Good, Docs, NoDoc
<1>2. Dated(doc) /\ Dated(merge.was) /\ Dated(blocked.change)
  BY DEF HInv, RevsOK
<1>3. ASSUME NEW record, record \in {doc, merge.was, blocked.change, NoDoc}
      PROVE  /\ record.rev <= puts' /\ (record.rev = 0 => record = NoDoc)
             /\ record.rev = doc'.rev => record = doc'
  BY <1>1, <1>2, <1>3 DEF Dated
<1>4. Dated(doc)'
  BY <1>1, <1>2 DEF Dated
<1>5. Dated(merge.was)'
  BY <1>3 DEF Dated
<1>6. Dated(blocked.change)'
  BY <1>3 DEF Dated
<1> QED
  BY <1>4, <1>5, <1>6 DEF RevsOK

(* Sync is left alone. *)
LEMMA HoldsKept ==
  ASSUME HInv, UNCHANGED <<sync, blocked, doc, history>> PROVE HoldsOK'
BY DEF HInv, HoldsOK, NeverTrashed

(* The record is left alone. *)
LEMMA TracesKept ==
  ASSUME HInv, UNCHANGED <<doc, history>> PROVE TracesOK'
BY DEF HInv, TracesOK

(* An erased record has no revisions. *)
LEMMA TracesErased == ASSUME EraseDoc PROVE TracesOK'
<1>1. doc' = NoDoc /\ history' = <<>>
  BY DEF EraseDoc
<1>2. \A side \in Side : ~Late(side, NoDoc)
  BY DEF Late, NoDoc, NoSides, Side
<1>3. Traces(<<>>, NoDoc) /\ TellsAll(<<>>)
  BY <1>2 DEF Traces, TellsAll
<1> QED
  BY <1>1, <1>3 DEF TracesOK

(* Files of the Cozy get newer revisions, and are followed by others. *)
Grown(files, more) ==
  /\ Numbered(more)
  /\ DOMAIN files \subseteq DOMAIN more
  /\ \A id \in DOMAIN files : more[id] = files[id] \/ more[id].rev > files[id].rev

(* What was fetched stays true of an older revision. *)
LEMMA FetchedKept ==
  ASSUME NEW files \in Seq(File), NEW more \in Seq(File), Grown(files, more),
         NEW info, Fetched(info, files)
  PROVE  Fetched(info, more)
<1>1. files[info.id].rev \in Nat /\ more[info.id].rev \in Nat
      /\ info.id \in DOMAIN more
  <2>1. info.id \in DOMAIN files /\ info.id \in DOMAIN more
    BY DEF Fetched, Grown
  <2>2. files[info.id] \in File /\ more[info.id] \in File
    BY <2>1
  <2> QED
    BY <2>1, <2>2 DEF File
<1>2. more[info.id] = files[info.id] \/ more[info.id].rev > files[info.id].rev
  BY DEF Fetched, Grown
<1>3. info.rev \in 1..more[info.id].rev
  BY <1>1, <1>2 DEF Fetched
<1>4. info.rev = more[info.id].rev => info.content = more[info.id].content
  BY <1>1, <1>2 DEF Fetched
<1> QED
  BY <1>1, <1>3, <1>4 DEF Fetched

(* A remote file gets a newer revision. *)
LEMMA ReviseGrows ==
  ASSUME IInv, HInv, NEW id \in DOMAIN cozy, NEW content \in Nat,
         NEW where \in Places, Revise(id, content, where),
         where = "live" => cozy[id].where = "live"
  PROVE  /\ Grown(cozy, cozy') /\ cozy' \in Seq(File)
         /\ Fetched(RemoteInfo(id, cozy'[id]), cozy')
<1>1. cozy \in Seq(File) /\ Types
  BY TypeParts DEF IInv, Types, RemoteTypes
<1>2. /\ cozy' = [cozy EXCEPT ![id] = [rev |-> cozy[id].rev + 1,
                                       content |-> content, where |-> where]]
      /\ cozy' \in Seq(File) /\ DOMAIN cozy' = DOMAIN cozy
  BY <1>1, ReviseTypes DEF Revise, Types, RemoteTypes
<1>3. Len(cozy') = Len(cozy)
  BY <1>1, <1>2
<1>4. /\ cozy'[id].rev = cozy[id].rev + 1 /\ cozy'[id].where = where
      /\ cozy[id].rev \in Nat
      /\ \A other \in DOMAIN cozy : other # id => cozy'[other] = cozy[other]
  <2>1. cozy[id] \in File
    BY <1>1
  <2> QED
    BY <1>1, <1>2, <2>1 DEF File
<1>5. Numbered(cozy)
  BY DEF HInv, CozyOK
<1>6. Numbered(cozy')
  BY <1>2, <1>3, <1>4, <1>5 DEF Numbered
<1>7. Grown(cozy, cozy')
  BY <1>2, <1>4, <1>6 DEF Grown
<1>8. Fetched(RemoteInfo(id, cozy'[id]), cozy')
  BY <1>2, <1>4 DEF Fetched, RemoteInfo
<1> QED
  BY <1>2, <1>7, <1>8

(* A remote file follows the others. *)
LEMMA CreateGrows ==
  ASSUME IInv, HInv, NEW content \in Nat, Create(content), Live = {}
  PROVE  /\ Grown(cozy, cozy') /\ cozy' \in Seq(File)
         /\ Fetched(RemoteInfo(Len(cozy'), cozy'[Len(cozy')]), cozy')
         /\ cozy'[Len(cozy')].content = content
<1>1. cozy \in Seq(File) /\ Types
  BY TypeParts DEF IInv, Types, RemoteTypes
<1> DEFINE new == [rev |-> 1, content |-> content, where |-> "live"]
           size == Len(cozy)
<1>2. /\ cozy' = Append(cozy, new) /\ new \in File /\ size \in Nat
      /\ cozy' \in Seq(File) /\ Len(cozy') = size + 1
      /\ DOMAIN cozy = 1..size /\ DOMAIN cozy' = 1..(size + 1)
      /\ cozy'[size + 1] = new
      /\ \A id \in 1..size : cozy'[id] = cozy[id]
  BY <1>1 DEF Create, File, Places
<1>3. /\ new.rev = 1 /\ new.content = content /\ new.where = "live"
  OBVIOUS
<1> HIDE DEF new, size
<1>4. \A id \in 1..(size + 1) : id = size + 1 \/ id \in 1..size
  BY <1>2
<1>5. \A id \in 1..size : cozy[id].rev # 0 /\ cozy[id].where # "live"
  BY <1>2 DEF HInv, CozyOK, Numbered, Live
<1>6. Numbered(cozy')
  BY <1>2, <1>3, <1>4, <1>5 DEF Numbered
<1>7. Grown(cozy, cozy')
  BY <1>2, <1>6 DEF Grown
<1>8. Fetched(RemoteInfo(Len(cozy'), cozy'[Len(cozy')]), cozy')
  BY <1>2, <1>3 DEF Fetched, RemoteInfo
<1> QED
  BY <1>2, <1>3, <1>7, <1>8

(* The Cozy is left alone. *)
LEMMA CozyKept ==
  ASSUME IInv, HInv, UNCHANGED cozy
  PROVE  Grown(cozy, cozy') /\ cozy' \in Seq(File)
<1>1. \A id \in DOMAIN cozy : cozy'[id] = cozy[id]
  OBVIOUS
<1>2. cozy \in Seq(File)
  BY TypeParts DEF IInv, Types, RemoteTypes
<1> QED
  BY <1>1, <1>2 DEF HInv, CozyOK, Grown, Numbered

(* The remote files that records know have been fetched. *)
LEMMA CozyNext ==
  ASSUME IInv, HInv, Grown(cozy, cozy'), cozy' \in Seq(File),
         doc'.remote \in {doc.remote, NoRemote} \/ Fetched(doc'.remote, cozy'),
         \/ sync'.change.remote \in {sync.change.remote, doc.remote, NoRemote}
         \/ Fetched(sync'.change.remote, cozy')
  PROVE  CozyOK'
<1>1. cozy \in Seq(File)
  BY TypeParts DEF IInv, Types, RemoteTypes
<1>2. \A info : Fetched(info, cozy) => Fetched(info, cozy')
  BY <1>1, FetchedKept
<1>3. /\ doc.remote # NoRemote => Fetched(doc.remote, cozy')
      /\ sync.change.remote # NoRemote => Fetched(sync.change.remote, cozy')
  BY <1>2 DEF HInv, CozyOK
<1>4. Numbered(cozy')
  BY DEF Grown
<1> QED
  BY <1>3, <1>4 DEF CozyOK

(* Changes to merge become fewer, and the record takes its remote file from *)
(* them.                                                                    *)
LEMMA PullNext ==
  ASSUME IInv, HInv, Grown(cozy, cozy'), cozy' \in Seq(File),
         pull'.todo \cup pull'.failed \subseteq pull.todo \cup pull.failed,
         owner' # "remote" => pull'.todo = {} /\ pull'.failed = {},
         merge' # NoMerge /\ owner' = "remote" =>
           /\ merge'.event \in pull'.todo
           /\ merge'.event.where # "trash" =>
                merge'.was.remote.id <= merge'.event.id,
         \/ doc'.remote \in {doc.remote, NoRemote}
         \/ pull'.todo = {} /\ pull'.failed = {}
         \/ \E event \in pull.todo \cup pull.failed :
              event.where # "trash" /\ doc'.remote.id = event.id
  PROVE  PullOK'
<1>1. cozy \in Seq(File) /\ pull.todo \cup pull.failed \subseteq Events
  BY TypeParts DEF IInv, Types, RemoteTypes, MergeTypes
<1>2. \A event \in pull'.todo \cup pull'.failed : Fetched(event, cozy')
  BY <1>1, FetchedKept DEF HInv, PullOK
<1>3. ASSUME NEW event \in pull'.todo \cup pull'.failed, event.where # "trash"
      PROVE  /\ doc'.remote.id <= event.id
             /\ \A other \in pull'.todo \cup pull'.failed :
                  other.where # "trash" => other.id = event.id
  <2>1. /\ event \in pull.todo \cup pull.failed /\ event.id \in Nat
        /\ doc.remote.id <= event.id
        /\ \A other \in pull.todo \cup pull.failed :
             other.where # "trash" => other.id = event.id
    BY <1>1, <1>3 DEF HInv, PullOK, Events
  <2>2. NoRemote.id = 0
    BY DEF NoRemote
  <2> QED
    BY <1>3, <2>1, <2>2
<1> QED
  BY <1>2, <1>3 DEF PullOK

(* Users and watchers *)

(* A step that writes no record and fetches no change. *)
LEMMA UsersHInv ==
  ASSUME IInv, HInv, Grown(cozy, cozy'), cozy' \in Seq(File),
         UNCHANGED <<doc, history, puts, owner, merge, pull, sync, blocked>>
  PROVE  HInv'
<1>1. RevsOK' /\ HoldsOK' /\ TracesOK' /\ CozyOK'
  BY RevsNext, HoldsKept, TracesKept, CozyNext
<1>2. PullOK'
  <2>1. /\ owner' # "remote" => pull'.todo = {} /\ pull'.failed = {}
        /\ merge' # NoMerge /\ owner' = "remote" =>
             /\ merge'.event \in pull'.todo
             /\ merge'.event.where # "trash" =>
                  merge'.was.remote.id <= merge'.event.id
    BY DEF HInv, PullOK
  <2> QED
    BY <2>1, PullNext
<1> QED
  BY <1>1, <1>2 DEF HInv

(* Users of the disk, and what finds their changes. *)
LEMMA LocalUserHInv ==
  ASSUME IInv, HInv, LocalWrite \/ LocalDelete \/ Notice PROVE HInv'
<1>1. UNCHANGED <<cozy, doc, history, puts, owner, merge, pull, sync, blocked>>
  BY DEF LocalWrite, LocalDelete, LocalUser, Notice, remote, pouch, merging
<1> QED
  BY <1>1, CozyKept, UsersHInv

(* Users of the Cozy. *)
LEMMA RemoteUserHInv ==
  ASSUME IInv, HInv, RemoteWrite \/ RemoteTrash PROVE HInv'
<1>1. UNCHANGED <<doc, history, puts, owner, merge, pull, sync, blocked>>
  BY DEF RemoteWrite, RemoteTrash, RemoteUser, pouch, merging
<1>2. Types /\ Live \subseteq DOMAIN cozy
      /\ \A id \in DOMAIN cozy : cozy[id].content \in Nat
  BY TypeParts, FilesOfCozy DEF IInv, Types
<1>3. Grown(cozy, cozy') /\ cozy' \in Seq(File)
  <2>1. CASE RemoteTrash
    <3>1. PICK id \in Live : Revise(id, cozy[id].content, "trash")
      BY <2>1 DEF RemoteTrash
    <3> QED
      BY <1>2, <3>1, ReviseGrows DEF Places
  <2>2. CASE RemoteWrite
    <3>1. PICK content \in 1..(ops + 1) :
            IF Live = {} THEN Create(content)
            ELSE \E id \in Live : Revise(id, content, "live")
      BY <2>2 DEF RemoteWrite
    <3>2. content \in Nat
      BY <1>2, <3>1, FileSyncAssumption DEF Types, CountTypes
    <3>3. CASE Live = {}
      BY <3>1, <3>2, <3>3, CreateGrows
    <3>4. CASE Live # {}
      <4>1. PICK id \in Live : Revise(id, content, "live")
        BY <3>1, <3>4
      <4>2. id \in DOMAIN cozy /\ cozy[id].where = "live"
        BY <1>2 DEF Live
      <4> QED
        BY <3>2, <4>1, <4>2, ReviseGrows DEF Places
    <3> QED
      BY <3>3, <3>4
  <2> QED
    BY <2>1, <2>2
<1> QED
  BY <1>1, <1>3, UsersHInv

(* Steps of the watchers that read the record, or count their changes. *)
LEMMA WatchersHInv ==
  ASSUME IInv, HInv, DispatchLocal \/ ReadRemote \/ ApplyAllAgain \/ EndWatch
  PROVE  HInv'
<1>1. UNCHANGED <<cozy, doc, history, puts, sync, blocked>>
  BY DEF DispatchLocal, ReadRemote, ApplyAllAgain, EndWatch, remote, pouch
<1>2. merge' = merge \/ merge'.was = doc
  BY DEF DispatchLocal, ReadRemote, NoMerge, ApplyAllAgain, EndWatch
<1>3. Grown(cozy, cozy') /\ cozy' \in Seq(File)
  BY <1>1, CozyKept
<1>4. RevsOK' /\ HoldsOK' /\ TracesOK' /\ CozyOK'
  BY <1>1, <1>2, <1>3, RevsNext, HoldsKept, TracesKept, CozyNext
<1>5. PullOK'
  <2>1. CASE DispatchLocal
    <3>1. owner' = "local" /\ UNCHANGED pull /\ owner = "none"
      BY <2>1 DEF DispatchLocal
    <3>2. pull.todo = {} /\ pull.failed = {}
      BY <3>1 DEF HInv, PullOK
    <3> QED
      BY <1>1, <1>3, <3>1, <3>2, PullNext
  <2>2. CASE ReadRemote
    <3>1. owner' = "remote" /\ UNCHANGED pull
      BY <2>2 DEF ReadRemote
    <3>2. PICK event \in pull.todo : merge' = [NoMerge EXCEPT !.pc = "read",
                                                 !.was = doc, !.event = event]
      BY <2>2 DEF ReadRemote, NextEvents
    <3>3. merge'.event = event /\ merge'.was = doc
      BY <3>2 DEF NoMerge
    <3>4. event.where # "trash" => doc.remote.id <= event.id
      BY DEF HInv, PullOK
    <3> QED
      BY <1>1, <1>3, <3>1, <3>3, <3>4, PullNext
  <2>3. CASE ApplyAllAgain
    <3>1. /\ owner' = "remote" /\ merge' = NoMerge
          /\ pull'.todo = pull.failed /\ pull'.failed = {}
      BY <2>3 DEF ApplyAllAgain, NoPull
    <3> QED
      BY <1>1, <1>3, <3>1, PullNext
  <2>4. CASE EndWatch
    <3>1. owner' = "none" /\ pull'.todo = {} /\ pull'.failed = {}
      BY <2>4 DEF EndWatch, NoPull
    <3> QED
      BY <1>1, <1>3, <3>1, PullNext
  <2> QED
    BY <2>1, <2>2, <2>3, <2>4
<1> QED
  BY <1>4, <1>5 DEF HInv

(* What is fetched is new: the file of a path that is not in the trash is   *)
(* the last one that was created.                                           *)
LEMMA FetchHInv == ASSUME IInv, HInv, Fetch PROVE HInv'
<1>1. UNCHANGED <<cozy, doc, history, puts, sync, blocked, merge>>
  BY DEF Fetch, pouch
<1>2. RevsOK' /\ HoldsOK' /\ TracesOK' /\ CozyOK'
  BY <1>1, CozyKept, RevsNext, HoldsKept, TracesKept, CozyNext
<1>3. PullOK'
  <2> DEFINE ids == {i \in unseen : cozy[i].where # "moved"}
  <2>1. /\ owner = "none" /\ owner' = "remote" /\ merge' = merge
        /\ pull'.todo = {Event(id) : id \in ids} /\ pull'.failed = {}
    BY DEF Fetch, NoPull
  <2>2. merge = NoMerge
    BY <2>1 DEF IInv, MergeOK
  <2>3. /\ cozy \in Seq(File) /\ ids \subseteq DOMAIN cozy
        /\ DOMAIN cozy = 1..Len(cozy) /\ Len(cozy) \in Nat
    BY TypeParts DEF IInv, Types, RemoteTypes
  <2>4. \A id \in ids : /\ Fetched(Event(id), cozy)
                        /\ Event(id).where # "trash" => Event(id).id = Len(cozy)
    <3> SUFFICES ASSUME NEW id \in ids
                 PROVE  /\ Fetched(Event(id), cozy)
                        /\ Event(id).where # "trash" => Event(id).id = Len(cozy)
      OBVIOUS
    <3>1. /\ id \in DOMAIN cozy /\ cozy[id] \in File /\ cozy[id].where # "moved"
          /\ cozy[id].rev # 0 /\ (cozy[id].where = "live" => id = Len(cozy))
      BY <2>3 DEF HInv, CozyOK, Numbered
    <3>2. cozy[id].rev \in Nat /\ cozy[id].where \in Places
      BY <3>1 DEF File
    <3>3. /\ Event(id).id = id /\ Event(id).rev = cozy[id].rev
          /\ Event(id).content = cozy[id].content
          /\ Event(id).where = cozy[id].where
      BY DEF Event
    <3> QED
      BY <3>1, <3>2, <3>3 DEF Fetched, Places
  <2>5. doc.remote.id <= Len(cozy)
    <3>1. CASE doc.remote = NoRemote
      BY <2>3, <3>1 DEF NoRemote
    <3>2. CASE doc.remote # NoRemote
      BY <2>3, <3>2, DocIs DEF Good
    <3> QED
      BY <3>1, <3>2
  <2> HIDE DEF ids
  <2> QED
    BY <1>1, <2>1, <2>2, <2>4, <2>5 DEF PullOK
<1> QED
  BY <1>2, <1>3 DEF HInv

(* Merges *)

(* A merge that is saved was of the record of Pouch. *)
LEMMA MergeCommits ==
  ASSUME IInv, HInv, owner # "sync", NEW outcome, Sound(outcome, DOMAIN cozy),
         outcome.op = "put" => /\ Updates(merge.was, outcome.doc)
                               /\ TellsOn(merge.was, outcome.doc),
         UNCHANGED pouch \/ Commits(outcome), merge' = NoMerge,
         UNCHANGED <<sync, blocked>>, DOMAIN cozy' = DOMAIN cozy
  PROVE  /\ RevsOK' /\ HoldsOK' /\ TracesOK'
         /\ \/ doc'.remote \in {doc.remote, NoRemote}
            \/ /\ outcome.op = "put" /\ merge.was = doc
               /\ doc'.remote = outcome.doc.remote
<1>1. sync.pc = "idle" /\ HoldsOK'
  BY DEF IInv, SyncOK, HoldsOK
<1>2. merge'.was = NoDoc /\ blocked'.change = blocked.change
  BY DEF NoMerge
<1>3. CASE UNCHANGED pouch
  BY <1>1, <1>2, <1>3, RevsNext, TracesKept DEF pouch
<1>4. CASE outcome.op = "put" /\ Commits(outcome)
  <2> DEFINE record == outcome.doc
  <2>1. /\ record.rev = doc.rev /\ record.sides # NoSides /\ Write(record)
        /\ Good(record, DOMAIN cozy')
    BY <1>4 DEF Commits, Accepts, Valid, Sound
  <2>2. merge.was = doc
    BY <1>4, <2>1 DEF Updates, HInv, RevsOK, Dated
  <2>3. Updates(doc, record) /\ (NeverTrashed => record.trashed \/ Told(record))
    BY <1>4, <2>2, DocIs DEF TellsOn
  <2> HIDE DEF record
  <2>4. /\ TracesOK' /\ doc'.remote = record.remote
        /\ doc'.rev = puts + 1 /\ puts' = puts + 1
    BY <2>1, <2>3, WriteTraces
  <2> QED
    BY <1>1, <1>2, <1>4, <2>2, <2>4, RevsNext DEF record
<1>5. CASE outcome.op = "erase" /\ Commits(outcome)
  <2>1. EraseDoc
    BY <1>5 DEF Commits
  <2>2. doc' = NoDoc /\ puts' = puts
    BY <2>1 DEF EraseDoc
  <2> QED
    BY <1>1, <1>2, <2>1, <2>2, RevsNext, TracesErased DEF NoDoc
<1> QED
  BY <1>3, <1>4, <1>5 DEF Commits, Sound

(* The merge of a local change. *)
LEMMA MergeLocalHInv == ASSUME IInv, HInv, MergeLocal PROVE HInv'
<1> DEFINE was == merge.was
           file == merge.file
           outcome == LocalOutcome
<1>1. Types /\ Good(was, DOMAIN cozy) /\ file \in Files
      /\ Sound(outcome, DOMAIN cozy)
  BY LocalOutcomeSound, TypeParts DEF IInv, RecordsOK, Types, MergeTypes
<1>2. outcome.op = "put" => /\ Updates(was, outcome.doc)
                            /\ TellsOn(was, outcome.doc)
                            /\ outcome.doc.remote \in {was.remote, NoRemote}
  <2> SUFFICES ASSUME outcome.op = "put"
               PROVE  /\ Updates(was, outcome.doc)
                      /\ TellsOn(was, outcome.doc)
                      /\ outcome.doc.remote \in {was.remote, NoRemote}
    OBVIOUS
  <2>1. CASE file # NoFile
    <3>1. outcome = LocalUpdate(file, was)
      BY <2>1 DEF LocalOutcome
    <3> QED
      BY <1>1, <2>1, <3>1, LocalUpdateUpdates
  <2>2. CASE file = NoFile
    <3>1. outcome = Trash("local", was) /\ was.local # NoFile
      BY <2>2 DEF LocalOutcome, Ignore
    <3>2. was # NoDoc
      BY <3>1 DEF NoDoc
    <3> QED
      BY <1>1, <3>1, <3>2, TrashUpdates DEF Side
  <2> QED
    BY <2>1, <2>2
<1>3. /\ owner = "local" /\ owner' = "none" /\ merge' = NoMerge
      /\ UNCHANGED <<cozy, pull, sync, blocked>>
      /\ UNCHANGED pouch \/ Commits(outcome)
  BY DEF MergeLocal, remote
<1> HIDE DEF outcome
<1>4. /\ RevsOK' /\ HoldsOK' /\ TracesOK'
      /\ doc'.remote \in {doc.remote, NoRemote}
  BY <1>1, <1>2, <1>3, MergeCommits
<1>5. Grown(cozy, cozy') /\ cozy' \in Seq(File)
  BY <1>3, CozyKept
<1>6. CozyOK'
  BY <1>3, <1>4, <1>5, CozyNext
<1>7. PullOK'
  <2>1. pull.todo = {} /\ pull.failed = {}
    BY <1>3 DEF HInv, PullOK
  <2> QED
    BY <1>3, <1>4, <1>5, <2>1, PullNext
<1> QED
  BY <1>4, <1>6, <1>7 DEF HInv

(* What the merge of a remote change saves is a revision on top of the      *)
(* record that it read.                                                     *)
LEMMA RemoteOutcomeUpdates ==
  ASSUME IInv, HInv, MergeRemote
  PROVE  LET was == merge.was
             event == merge.event
             info == RemoteInfo(event.id, event)
             outcome == RemoteOutcome
         IN /\ Types /\ Good(was, DOMAIN cozy) /\ event \in Events
            /\ event \in pull.todo /\ event.id \in DOMAIN cozy
            /\ Fetched(event, cozy) /\ owner = "remote"
            /\ event.where # "trash" => was.remote.id <= event.id
            /\ Sound(outcome, DOMAIN cozy) /\ event.id # 0
            /\ info \in RemoteInfos /\ info.id = event.id /\ Fetched(info, cozy)
            /\ outcome.op = "put" =>
                 /\ Updates(was, outcome.doc) /\ TellsOn(was, outcome.doc)
                 /\ \/ outcome.doc.remote \in {was.remote, NoRemote}
                    \/ event.where # "trash" /\ outcome.doc.remote = info
<1> DEFINE was == merge.was
           event == merge.event
           info == RemoteInfo(event.id, event)
           outcome == RemoteOutcome
           known == was.remote.id = event.id
<1>1. /\ Types /\ Good(was, DOMAIN cozy) /\ event \in Events
      /\ event \in pull.todo /\ event.id \in DOMAIN cozy
      /\ Fetched(event, cozy) /\ owner = "remote"
      /\ event.where # "trash" => was.remote.id <= event.id
      /\ Sound(outcome, DOMAIN cozy) /\ event.id # 0
  <2>1. /\ Types /\ Good(was, DOMAIN cozy) /\ event \in Events
        /\ event.id \in DOMAIN cozy /\ Sound(outcome, DOMAIN cozy)
    BY TypeParts, RemoteOutcomeSound
       DEF IInv, RecordsOK, MergeOK, Types, MergeTypes, MergeRemote
  <2>2. /\ event \in pull.todo /\ Fetched(event, cozy) /\ owner = "remote"
        /\ event.where # "trash" => was.remote.id <= event.id
    BY DEF HInv, PullOK, MergeRemote
  <2>3. event.id # 0
    BY <2>1 DEF Types, RemoteTypes
  <2> QED
    BY <2>1, <2>2, <2>3
<1>2. info \in RemoteInfos /\ info.id = event.id /\ Fetched(info, cozy)
  BY <1>1 DEF Events, RemoteInfo, RemoteInfos, Fetched
<1>3. outcome.op = "put" =>
        /\ Updates(was, outcome.doc) /\ TellsOn(was, outcome.doc)
        /\ \/ outcome.doc.remote \in {was.remote, NoRemote}
           \/ event.where # "trash" /\ outcome.doc.remote = info
  <2> SUFFICES ASSUME outcome.op = "put"
               PROVE  /\ Updates(was, outcome.doc) /\ TellsOn(was, outcome.doc)
                      /\ \/ outcome.doc.remote \in {was.remote, NoRemote}
                         \/ event.where # "trash" /\ outcome.doc.remote = info
    OBVIOUS
  <2>1. \/ event.where # "trash" /\ outcome = RemoteUpdate(info, was)
           /\ ~(known /\ was.remote.rev >= event.rev)
        \/ known /\ outcome = Trash("remote", was)
    BY DEF RemoteOutcome, Ignore
  <2>2. CASE event.where # "trash" /\ outcome = RemoteUpdate(info, was)
             /\ ~(known /\ was.remote.rev >= event.rev)
    <3>1. was.remote \in RemoteInfos /\ info.rev = event.rev
      BY <1>1 DEF Good, Docs, RemoteInfo
    <3>2. Before(was.remote, info)
      BY <1>1, <1>2, <2>2, <3>1 DEF Before, RemoteInfos
    <3> HIDE DEF info
    <3> QED
      BY <1>1, <1>2, <2>2, <3>2, RemoteUpdateUpdates
  <2>3. CASE known /\ outcome = Trash("remote", was)
    <3>1. was # NoDoc
      BY <1>1, <2>3 DEF NoDoc, NoRemote
    <3> QED
      BY <1>1, <2>3, <3>1, TrashUpdates DEF Side
  <2> QED
    BY <2>1, <2>2, <2>3
<1> QED
  BY <1>1, <1>2, <1>3

(* The merge of a remote change. *)
LEMMA MergeRemoteHInv == ASSUME IInv, HInv, MergeRemote PROVE HInv'
<1> DEFINE was == merge.was
           event == merge.event
           info == RemoteInfo(event.id, event)
           outcome == RemoteOutcome
<1>1. /\ Types /\ Good(was, DOMAIN cozy) /\ event \in Events
      /\ event \in pull.todo /\ event.id \in DOMAIN cozy
      /\ Fetched(event, cozy) /\ owner = "remote"
      /\ event.where # "trash" => was.remote.id <= event.id
      /\ Sound(outcome, DOMAIN cozy) /\ event.id # 0
  BY RemoteOutcomeUpdates
<1>2. info \in RemoteInfos /\ info.id = event.id /\ Fetched(info, cozy)
  BY RemoteOutcomeUpdates
<1>3. outcome.op = "put" =>
        /\ Updates(was, outcome.doc) /\ TellsOn(was, outcome.doc)
        /\ \/ outcome.doc.remote \in {was.remote, NoRemote}
           \/ event.where # "trash" /\ outcome.doc.remote = info
  BY RemoteOutcomeUpdates
<1>4. /\ owner' = "remote" /\ merge' = NoMerge /\ UNCHANGED <<sync, blocked>>
      /\ UNCHANGED pouch \/ Commits(outcome)
      /\ \/ UNCHANGED cozy
         \/ Revise(event.id, event.content, "moved")
            /\ outcome.rename = "remote"
      /\ pull'.todo \cup pull'.failed \subseteq pull.todo \cup pull.failed
  <2>1. pull'.todo = pull.todo \ {event}
        /\ pull'.failed \subseteq pull.failed \cup {event}
    BY DEF MergeRemote
  <2>2. pull'.todo \cup pull'.failed \subseteq pull.todo \cup pull.failed
    BY <1>1, <2>1
  <2> QED
    BY <1>1, <2>2 DEF MergeRemote, remote
<1>5. outcome.rename = "remote" /\ outcome.op = "put" =>
        outcome.doc.remote \in {was.remote, NoRemote}
  <2> SUFFICES ASSUME outcome.rename = "remote", outcome.op = "put"
               PROVE  outcome.doc.remote \in {was.remote, NoRemote}
    OBVIOUS
  <2>1. outcome = Conflict("remote", was.remote # NoRemote, was)
    BY DEF RemoteOutcome, RemoteUpdate, Trash, Ignore, Save, Erase
  <2>2. /\ outcome.doc = Marked("local", Dissociate("remote", was))
        /\ was \in Docs
    BY <1>1, <2>1 DEF Conflict, OtherSide, Good
  <2>3. /\ Dissociate("remote", was) \in Docs
        /\ Dissociate("remote", was).remote = NoRemote
    BY <2>2, DissociatedIs DEF Side
  <2> QED
    BY <2>2, <2>3 DEF Marked
<1>6. Grown(cozy, cozy') /\ cozy' \in Seq(File) /\ DOMAIN cozy' = DOMAIN cozy
  <2>1. CASE UNCHANGED cozy
    BY <2>1, CozyKept
  <2>2. CASE Revise(event.id, event.content, "moved")
    <3>1. event.content \in Nat
      BY <1>1 DEF Events
    <3> QED
      BY <1>1, <2>2, <3>1, ReviseGrows DEF Places, Revise
  <2> QED
    BY <1>4, <2>1, <2>2
<1> HIDE DEF outcome, info
<1>7. /\ RevsOK' /\ HoldsOK' /\ TracesOK'
      /\ \/ doc'.remote \in {doc.remote, NoRemote}
         \/ /\ event.where # "trash" /\ doc'.remote = info /\ UNCHANGED cozy
            /\ outcome.op = "put"
  BY <1>1, <1>3, <1>4, <1>5, <1>6, MergeCommits
<1>8. CozyOK'
  BY <1>2, <1>4, <1>6, <1>7, CozyNext
<1>9. PullOK'
  BY <1>1, <1>2, <1>4, <1>6, <1>7, PullNext
<1> QED
  BY <1>7, <1>8, <1>9 DEF HInv

(* Sync *)

(* The change that Sync applies is the record of Pouch. The revision that   *)
(* getPreviousRev finds is the one that the side is at.                     *)
LEMMA ChangeIs ==
  ASSUME IInv, HInv, NEW side \in Side, Applies(side)
  PROVE  /\ Change = doc /\ Change # NoDoc /\ Change \in Docs
         /\ owner = "sync" /\ sync.side = side /\ sync.pc = "apply"
         /\ blocked = NoBlock /\ CurrentRev = Change.sides[side]
         /\ Change.remote # NoRemote => Fetched(Change.remote, cozy)
         /\ NeverTrashed =>
              /\ ~Change.trashed
              /\ side = "local" => Change.remote.content = Change.md5sum
              /\ side = "remote" => Change.local.content = Change.md5sum
<1>1. /\ Change = doc /\ owner = "sync" /\ sync.side = side
      /\ sync.pc = "apply" /\ blocked = NoBlock
      /\ side = OutOfDateSide(Change.sides)
      /\ CurrentRev = Change.sides[side]
  BY DEF HInv, HoldsOK, IInv, SyncOK, Applies, Change, CurrentRev
<1>2. Change \in Docs /\ Change # NoDoc
  <2>1. OutOfDateSide(NoDoc.sides) = "none"
    BY DEF OutOfDateSide, NoDoc, NoSides
  <2> QED
    BY <1>1, <2>1, DocIs DEF Side
<1>3. NeverTrashed => ~Change.trashed /\ Told(Change)
  BY <1>1, DocIs
<1> QED
  BY <1>1, <1>2, <1>3 DEF Told, HInv, CozyOK, Side

(* getPreviousRev finds the revision that the side is at. *)
LEMMA OldIs ==
  ASSUME IInv, HInv, NEW side \in Side, Applies(side), CurrentRev # 0
  PROVE  /\ Old \in Docs /\ Old # NoDoc
         /\ side = "remote" => Old.remote = Change.remote
         /\ side = "local" /\ ~Change.deleted => Before(Old.remote, Change.remote)
         /\ NeverTrashed =>
              /\ side = "local" => Old.local.content = Old.md5sum
              /\ side = "remote" => Old.remote.content = Old.md5sum
<1> DEFINE number == Change.sides[side]
           index == Len(history) - (Change.sides.target - number)
<1>1. /\ Change = doc /\ Change \in Docs /\ sync.side = side
      /\ CurrentRev = number
  BY ChangeIs
<1>2. Change.sides \in Sides /\ Follows(Change.sides) /\ history \in Seq(Docs)
  BY <1>1, DocIs DEF Docs
<1>3. number < Change.sides.target /\ number # 0
  <2>1. side = OutOfDateSide(Change.sides)
    BY <1>1 DEF IInv, SyncOK, Applies, Change
  <2> QED
    BY <1>1, <1>2, <2>1 DEF OutOfDateSide, Follows, Sides, Side
<1>4. Late(side, Change)
  BY <1>2, <1>3 DEF Late, Sides, Side
<1>5. /\ index >= 1
      /\ history[index].sides[side] = number
      /\ OutOfDateSide(history[index].sides) # side
      /\ side = "remote" => history[index].remote = Change.remote
      /\ side = "local" /\ ~Change.deleted =>
           Before(history[index].remote, Change.remote)
  BY <1>1, <1>4 DEF HInv, TracesOK, Traces
<1>6. index \in DOMAIN history
  <2>1. number \in Nat /\ Change.sides.target \in Nat /\ Len(history) \in Nat
    BY <1>2 DEF Sides, Side
  <2>2. index \in 1..Len(history)
    <3> HIDE DEF number
    <3> QED
      BY <1>3, <1>5, <2>1
  <2> QED
    BY <1>2, <2>2
<1>7. Old = history[index]
  BY <1>1, <1>5 DEF Old
<1> HIDE DEF index
<1>8. Old \in Docs
  BY <1>2, <1>6, <1>7
<1>9. Old # NoDoc
  BY <1>3, <1>5, <1>7 DEF NoDoc, NoSides, Side
<1>10. NeverTrashed => Told(Old)
  BY <1>6, <1>7 DEF HInv, TracesOK, TellsAll, Unmarked, NeverTrashed
<1> QED
  BY <1>5, <1>7, <1>8, <1>9, <1>10 DEF Told, Side

(* A change applied, with what Sync learnt of the sides. *)
LEMMA SucceedsHInv ==
  ASSUME IInv, HInv, owner = "sync", sync.pc = "apply", NEW change,
         Succeeds(change), Grown(cozy, cozy'), cozy' \in Seq(File),
         change.rev = Change.rev,
         change.remote = Change.remote \/ Fetched(change.remote, cozy'),
         ~change.deleted /\ NeverTrashed => /\ change.local.content = change.md5sum
                                            /\ change.remote.content = change.md5sum
  PROVE  HInv'
<1>1. /\ UNCHANGED <<doc, history, puts, merge, pull, blocked>>
      /\ owner' = "sync" /\ sync'.pc = "seq" /\ sync'.change = change
  BY TypeParts DEF IInv, Types, SyncTypes, Succeeds, pouch, merging
<1>2. blocked = NoBlock /\ Change = doc /\ pull.todo = {} /\ pull.failed = {}
  BY DEF HInv, HoldsOK, PullOK, Change
<1>3. HoldsOK'
  BY <1>1, <1>2 DEF HoldsOK, NeverTrashed
<1>4. RevsOK' /\ TracesOK'
  BY <1>1, RevsNext, TracesKept
<1>5. CozyOK'
  BY <1>1, <1>2, CozyNext
<1>6. PullOK'
  BY <1>1, <1>2, PullNext
<1> QED
  BY <1>3, <1>4, <1>5, <1>6 DEF HInv

(* Sync lets the lock go. *)
LEMMA SyncEndsHInv ==
  ASSUME IInv, HInv, owner = "sync", owner' = "none", sync' = NoSync,
         UNCHANGED merging, Grown(cozy, cozy'), cozy' \in Seq(File), TracesOK',
         \/ doc' = doc /\ puts' = puts
         \/ doc'.rev = puts + 1 /\ puts' = puts + 1
         \/ doc' = NoDoc /\ puts' = puts,
         \/ blocked' = blocked
         \/ doc' = doc /\ blocked'.change = doc,
         doc'.remote \in {doc.remote, NoRemote} \/ Fetched(doc'.remote, cozy')
  PROVE  HInv'
<1>1. merge' = merge /\ pull' = pull
  BY DEF merging
<1>2. pull.todo = {} /\ pull.failed = {}
  BY DEF HInv, PullOK
<1>3. sync'.pc = "idle" /\ sync'.change = NoDoc /\ NoDoc.remote = NoRemote
  BY DEF NoSync, NoDoc
<1>4. HoldsOK'
  BY <1>3 DEF HoldsOK
<1>5. RevsOK' /\ CozyOK'
  BY <1>1, <1>3, RevsNext, CozyNext
<1>6. PullOK'
  BY <1>1, <1>2, PullNext
<1> QED
  BY <1>4, <1>5, <1>6 DEF HInv

LEMMA PickChangeHInv == ASSUME IInv, HInv, PickChange PROVE HInv'
<1>1. /\ UNCHANGED <<cozy, doc, history, puts, merge, pull, blocked>>
      /\ owner = "none" /\ blocked = NoBlock /\ owner' = "sync"
      /\ sync'.pc = "apply" /\ sync'.change = doc
  BY DEF PickChange, remote, pouch, merging
<1>2. pull.todo = {} /\ pull.failed = {}
  BY <1>1 DEF HInv, PullOK
<1>3. HoldsOK'
  BY <1>1 DEF HoldsOK
<1>4. Grown(cozy, cozy') /\ cozy' \in Seq(File)
  BY <1>1, CozyKept
<1>5. RevsOK' /\ TracesOK' /\ CozyOK'
  BY <1>1, <1>4, RevsNext, TracesKept, CozyNext
<1>6. PullOK'
  BY <1>1, <1>2, <1>4, PullNext
<1> QED
  BY <1>3, <1>5, <1>6 DEF HInv

LEMMA ApplyToNoneHInv == ASSUME IInv, HInv, ApplyToNone PROVE HInv'
<1>1. /\ owner = "sync" /\ owner' = "none" /\ sync' = NoSync
      /\ UNCHANGED <<cozy, merging, blocked>>
      /\ EraseDoc \/ UNCHANGED <<doc, history, puts>>
  BY DEF ApplyToNone, remote
<1>2. TracesOK'
  BY <1>1, TracesErased, TracesKept
<1>3. Grown(cozy, cozy') /\ cozy' \in Seq(File)
  BY <1>1, CozyKept
<1>4. NoDoc.remote = NoRemote
  BY DEF NoDoc
<1> QED
  BY <1>1, <1>2, <1>3, <1>4, SyncEndsHInv DEF EraseDoc

(* A change of the Cozy is never nothing: it has another revision than the  *)
(* one that the disk is at.                                                 *)
LEMMA NothingIs ==
  ASSUME IInv, HInv, NEW side \in Side, Applies(side),
         Task \in {"nothing", "metadata"}, ~Change.deleted, NeverTrashed
  PROVE  /\ CurrentRev # 0 /\ Old \in Docs /\ Old # NoDoc
         /\ side = "local" => /\ Task = "metadata"
                              /\ Old.local.content = Change.md5sum
         /\ side = "remote" => Change.remote.content = Change.md5sum
<1>1. /\ CurrentRev # 0
      /\ \/ Task = "nothing" /\ SameFile(Old, Change)
         \/ Task = "metadata" /\ SameBinary(Old.md5sum, Change.md5sum)
  BY DEF Task
<1>2. Old.md5sum = Change.md5sum
  BY <1>1 DEF SameFile, SameBinary
<1>3. /\ Old \in Docs /\ Old # NoDoc
      /\ side = "remote" => Old.remote = Change.remote
      /\ side = "local" => Before(Old.remote, Change.remote)
      /\ side = "local" => Old.local.content = Old.md5sum
      /\ side = "remote" => Old.remote.content = Old.md5sum
  BY <1>1, OldIs
<1>4. Change \in Docs
  BY ChangeIs
<1>5. side = "local" => ~SameFile(Old, Change)
  BY <1>3, <1>4 DEF SameFile, Before, Docs, RemoteInfos
<1> QED
  BY <1>1, <1>2, <1>3, <1>5 DEF Side

LEMMA ApplyNothingHInv == ASSUME IInv, HInv, ApplyNothing PROVE HInv'
<1>1. PICK side \in Side : Applies(side) /\ Task = "nothing"
  BY DEF ApplyNothing, Does, Side
<1>2. Succeeds(Change) /\ UNCHANGED cozy
  BY DEF ApplyNothing, remote
<1>3. ~Change.deleted /\ NeverTrashed => /\ Change.local.content = Change.md5sum
                                         /\ Change.remote.content = Change.md5sum
  BY <1>1, ChangeIs, NothingIs DEF Side
<1> QED
  BY <1>1, <1>2, <1>3, ChangeIs, CozyKept, SucceedsHInv

(* A change is applied on the disk. *)
LEMMA LocalAppliedHInv ==
  ASSUME IInv, HInv, Download \/ UpdateLocalMetadata \/ TrashLocal PROVE HInv'
<1>1. Applies("local") /\ UNCHANGED cozy
  BY DEF Download, UpdateLocalMetadata, TrashLocal, Does, remote
<1>2. /\ Change \in Docs /\ owner = "sync" /\ sync.pc = "apply"
      /\ NeverTrashed => Change.remote.content = Change.md5sum
  BY <1>1, ChangeIs DEF Side
<1>3. Grown(cozy, cozy') /\ cozy' \in Seq(File)
  BY <1>1, CozyKept
<1>4. CASE TrashLocal
  <2>1. Change.deleted /\ Succeeds(Change)
    BY <1>1, <1>4 DEF TrashLocal, Does, Task, Applies
  <2> QED
    BY <1>2, <1>3, <2>1, SucceedsHInv
<1>5. CASE Download \/ UpdateLocalMetadata
  <2>1. PICK ino, file : /\ file.content = Change.md5sum
                         /\ Succeeds([Change EXCEPT !.ino = ino, !.local = file])
    <3>1. CASE Download
      BY <3>1 DEF Download, Synced
    <3>2. CASE UpdateLocalMetadata
      <4> DEFINE file == [Synced EXCEPT !.ino = Change.ino]
      <4>1. file.content = Change.md5sum
        BY DEF Synced
      <4>2. [Change EXCEPT !.ino = Change.ino, !.local = file] =
              [Change EXCEPT !.local = file]
        BY <1>2 DEF Docs
      <4>3. Succeeds([Change EXCEPT !.local = file])
        BY <3>2 DEF UpdateLocalMetadata
      <4> HIDE DEF file
      <4> QED
        BY <4>1, <4>2, <4>3
    <3> QED
      BY <1>5, <3>1, <3>2
  <2> DEFINE change == [Change EXCEPT !.ino = ino, !.local = file]
  <2>2. /\ change.rev = Change.rev /\ change.remote = Change.remote
        /\ change.local = file /\ change.md5sum = Change.md5sum
    BY <1>2 DEF Docs
  <2>3. Succeeds(change)
    BY <2>1
  <2> HIDE DEF change
  <2> QED
    BY <1>2, <1>3, <2>1, <2>2, <2>3, SucceedsHInv
<1> QED
  BY <1>4, <1>5

LEMMA UploadNothingHInv == ASSUME IInv, HInv, UploadNothing PROVE HInv'
<1>1. Applies("remote") /\ UNCHANGED cozy
  BY DEF UploadNothing, Does, remote
<1>2. Change \in Docs /\ owner = "sync" /\ sync.pc = "apply"
  BY <1>1, ChangeIs DEF Side
<1> DEFINE change == [Change EXCEPT !.deleted = TRUE]
<1>3. Succeeds(change)
  BY DEF UploadNothing
<1>4. change.deleted /\ change.rev = Change.rev /\ change.remote = Change.remote
  BY <1>2 DEF Docs
<1> HIDE DEF change
<1> QED
  BY <1>1, <1>2, <1>3, <1>4, CozyKept, SucceedsHInv

(* What is written on the Cozy has the content that the record tells. *)
LEMMA RemoteAppliedHInv ==
  ASSUME IInv, HInv, Applies("remote"), NEW info,
         Succeeds([Change EXCEPT !.remote = info]),
         Grown(cozy, cozy'), cozy' \in Seq(File), Fetched(info, cozy'),
         ~Change.deleted /\ NeverTrashed => info.content = Change.md5sum
  PROVE  HInv'
<1>1. /\ Change \in Docs /\ owner = "sync" /\ sync.pc = "apply"
      /\ NeverTrashed => Change.local.content = Change.md5sum
  BY ChangeIs DEF Side
<1> DEFINE change == [Change EXCEPT !.remote = info]
<1>2. /\ change.rev = Change.rev /\ change.remote = info
      /\ change.local = Change.local /\ change.md5sum = Change.md5sum
      /\ change.deleted = Change.deleted
  BY <1>1 DEF Docs
<1>3. Succeeds(change)
  OBVIOUS
<1> HIDE DEF change
<1> QED
  BY <1>1, <1>2, <1>3, SucceedsHInv

LEMMA UploadNewHInv == ASSUME IInv, HInv, UploadNew PROVE HInv'
<1> DEFINE info == RemoteInfo(Len(cozy'), cozy'[Len(cozy')])
<1>1. /\ Applies("remote") /\ Create(Change.md5sum) /\ Live = {}
      /\ Succeeds([Change EXCEPT !.remote = info])
  BY DEF UploadNew, Does
<1>2. Change.md5sum \in Nat
  BY ChangeIsGood
<1>3. /\ Grown(cozy, cozy') /\ cozy' \in Seq(File) /\ Fetched(info, cozy')
      /\ info.content = Change.md5sum
  BY <1>1, <1>2, CreateGrows DEF RemoteInfo
<1> HIDE DEF info
<1> QED
  BY <1>1, <1>3, RemoteAppliedHInv

(* The remote file that the change knows gets a new revision. *)
LEMMA RewriteHInv ==
  ASSUME IInv, HInv, Applies("remote"), Change.remote # NoRemote,
         NEW content \in Nat, NEW where \in Places, Rewrite(content, where),
         where = "live" => cozy[Change.remote.id].where = "live",
         ~Change.deleted /\ NeverTrashed => content = Change.md5sum
  PROVE  HInv'
<1> DEFINE id == Change.remote.id
           info == RemoteInfo(id, cozy'[id])
<1>1. /\ Revise(id, content, where) /\ id \in DOMAIN cozy
      /\ Succeeds([Change EXCEPT !.remote = info])
  BY ChangeIsGood DEF Rewrite
<1>2. /\ Grown(cozy, cozy') /\ cozy' \in Seq(File) /\ Fetched(info, cozy')
  BY <1>1, ReviseGrows
<1>3. info.content = content
  BY <1>1 DEF Revise, RemoteInfo
<1> HIDE DEF info
<1> QED
  BY <1>1, <1>2, <1>3, RemoteAppliedHInv

LEMMA UploadHInv == ASSUME IInv, HInv, Upload PROVE HInv'
<1> DEFINE file == cozy[Change.remote.id]
<1>1. /\ Applies("remote") /\ Task = "overwrite"
      /\ Rewrite(Change.md5sum, file.where)
  BY DEF Upload, Does
<1>2. Change.sides.remote # 0
  BY <1>1 DEF Task, CurrentRev, Applies
<1>3. /\ Change.remote # NoRemote /\ Change.remote.id \in DOMAIN cozy
      /\ Change.md5sum \in Nat
  BY <1>2, ChangeIsGood DEF Good, Tells
<1>4. file.where \in Places
  <2>1. file \in File
    BY <1>3, TypeParts DEF IInv, Types, RemoteTypes
  <2> QED
    BY <2>1 DEF File
<1> HIDE DEF file
<1> QED
  BY <1>1, <1>3, <1>4, RewriteHInv DEF file

(* With If-Match, the file of the Cozy is the one that the record knows. *)
LEMMA UpdateRemoteMetadataHInv ==
  ASSUME IInv, HInv, UpdateRemoteMetadata PROVE HInv'
<1> DEFINE file == cozy[Change.remote.id]
<1>1. /\ Applies("remote") /\ Task = "metadata" /\ Matches(Change.remote.rev)
      /\ Rewrite(file.content, file.where)
  BY DEF UpdateRemoteMetadata, Does
<1>2. Change.sides.remote # 0
  BY <1>1 DEF Task, CurrentRev, Applies
<1>3. Change.remote # NoRemote /\ Change.remote.id \in DOMAIN cozy
  BY <1>2, ChangeIsGood DEF Good, Tells
<1>4. file.where \in Places /\ file.content \in Nat
  <2>1. file \in File
    BY <1>3, TypeParts DEF IInv, Types, RemoteTypes
  <2> QED
    BY <2>1 DEF File
<1>5. Change.remote.content = file.content
  <2>1. Fetched(Change.remote, cozy)
    BY <1>1, <1>3, ChangeIs DEF Side
  <2> QED
    BY <1>1, <2>1 DEF Fetched, Matches
<1>6. ~Change.deleted /\ NeverTrashed => file.content = Change.md5sum
  BY <1>1, <1>5, NothingIs DEF Side
<1> HIDE DEF file
<1> QED
  BY <1>1, <1>3, <1>4, <1>6, RewriteHInv DEF file

(* Sync only trashes the remote file of a record that is deleted, as long   *)
(* as none was marked as trashed.                                           *)
LEMMA TrashRemoteHInv == ASSUME IInv, HInv, TrashRemote PROVE HInv'
<1> DEFINE file == cozy[Change.remote.id]
<1>1. /\ Applies("remote") /\ Task = "trash" /\ Change.remote # NoRemote
      /\ \/ Succeeds(Change) /\ UNCHANGED remote
         \/ Rewrite(file.content, "trash")
  BY DEF TrashRemote, Does
<1>2. /\ owner = "sync" /\ sync.pc = "apply"
      /\ NeverTrashed => ~Change.trashed
  BY <1>1, ChangeIs DEF Side
<1>3. Change.trashed \/ Change.deleted
  BY <1>1 DEF Task
<1>4. CASE Succeeds(Change) /\ UNCHANGED remote
  <2>1. Grown(cozy, cozy') /\ cozy' \in Seq(File)
    BY <1>4, CozyKept DEF remote
  <2> QED
    BY <1>2, <1>3, <1>4, <2>1, SucceedsHInv
<1>5. CASE Rewrite(file.content, "trash")
  <2>1. file.content \in Nat
    BY <1>1, ChangeIsGood, TypeParts, FilesOfCozy DEF IInv, Types
  <2> HIDE DEF file
  <2> QED
    BY <1>1, <1>2, <1>3, <1>5, <2>1, RewriteHInv DEF Places
<1> QED
  BY <1>1, <1>4, <1>5

LEMMA SaveSeqHInv == ASSUME IInv, HInv, SaveSeq PROVE HInv'
<1>1. /\ UNCHANGED <<cozy, doc, history, puts, owner, merge, pull, blocked>>
      /\ sync.pc = "seq" /\ sync'.pc = "save" /\ sync'.change = sync.change
  BY TypeParts DEF IInv, Types, SyncTypes, SaveSeq, remote, merging
<1>2. owner = "sync" /\ pull.todo = {} /\ pull.failed = {}
  BY <1>1 DEF IInv, SyncOK, HInv, PullOK
<1>3. HoldsOK'
  BY <1>1 DEF HInv, HoldsOK, NeverTrashed
<1>4. Grown(cozy, cozy') /\ cozy' \in Seq(File)
  BY <1>1, CozyKept
<1>5. RevsOK' /\ TracesOK' /\ CozyOK'
  BY <1>1, <1>4, RevsNext, TracesKept, CozyNext
<1>6. PullOK'
  BY <1>1, <1>2, <1>4, PullNext
<1> QED
  BY <1>3, <1>5, <1>6 DEF HInv

(* A record that is saved as up to date is told what both sides have. *)
LEMMA SaveDocHInv == ASSUME IInv, HInv, SaveDoc PROVE HInv'
<1>1. /\ owner = "sync" /\ owner' = "none" /\ sync' = NoSync
      /\ UNCHANGED <<cozy, merging, blocked>> /\ sync.pc = "save"
  BY DEF SaveDoc, remote, IInv, SyncOK
<1>2. Grown(cozy, cozy') /\ cozy' \in Seq(File)
  BY <1>1, CozyKept
<1>3. CASE Change.deleted
  <2>1. EraseDoc
    BY <1>3 DEF SaveDoc
  <2> QED
    BY <1>1, <1>2, <2>1, TracesErased, SyncEndsHInv DEF EraseDoc, NoDoc
<1>4. CASE ~Change.deleted
  <2> DEFINE saved == [Change EXCEPT !.sides = MarkAsUpToDate(@), !.errors = 0]
  <2>1. /\ Good(saved, DOMAIN cozy) /\ saved.rev = Change.rev
        /\ saved.sides = MarkAsUpToDate(Change.sides)
        /\ saved.sides \in Sides /\ saved.sides # NoSides
        /\ saved.local = Change.local /\ saved.remote = Change.remote
        /\ saved.md5sum = Change.md5sum
    BY <1>1, <1>4, SavedGood
  <2>2. Write(saved)
    BY <1>4 DEF SaveDoc
  <2> HIDE DEF saved
  <2>3. \A side \in Side : saved.sides[side] = saved.sides.target
    BY <2>1 DEF MarkAsUpToDate, Side
  <2>4. Updates(doc, saved)
    <3>1. saved.rev = doc.rev
      BY <1>1, <2>1 DEF HInv, HoldsOK, Change
    <3> QED
      BY <2>3, <3>1, SettledUpdates DEF Late
  <2>5. NeverTrashed => Told(saved)
    BY <1>1, <1>4, <2>1 DEF HInv, HoldsOK, Change, Told
  <2>6. /\ TracesOK' /\ doc'.remote = Change.remote
        /\ doc'.rev = puts + 1 /\ puts' = puts + 1
    BY <1>1, <2>1, <2>2, <2>4, <2>5, WriteTraces
  <2>7. doc'.remote = NoRemote \/ Fetched(doc'.remote, cozy')
    BY <1>1, <2>6 DEF HInv, CozyOK, Change
  <2> QED
    BY <1>1, <1>2, <2>6, <2>7, SyncEndsHInv
<1> QED
  BY <1>3, <1>4

(* Failures *)

(* Sync stops with a failed change, or without. *)
LEMMA BlockHInv ==
  ASSUME IInv, HInv, BlockForEver \/ BlockForAttempts \/ GiveUp PROVE HInv'
<1>1. LosesAnswer \/ \E side \in Side : Applies(side)
  BY FailsApplies DEF BlockForEver, BlockForAttempts, GiveUp, FaultyApply, Side
<1>2. /\ owner = "sync" /\ owner' = "none" /\ sync' = NoSync
      /\ UNCHANGED <<cozy, doc, history, puts, merging>>
      /\ blocked' = blocked \/ blocked'.change = doc
  <2>1. owner = "sync" /\ Unanswered = doc
    BY <1>1, ChangeIs DEF LosesAnswer, Unanswered, Applies, IInv, SyncOK
  <2> QED
    BY <2>1 DEF BlockForEver, BlockForAttempts, BlockSync, GiveUp, remote, pouch
<1>3. TracesOK'
  BY <1>2, TracesKept
<1> QED
  BY <1>2, <1>3, CozyKept, SyncEndsHInv

(* The remote file that took the name is renamed. *)
LEMMA ResolveRemoteConflictHInv ==
  ASSUME IInv, HInv, ResolveRemoteConflict PROVE HInv'
<1>1. PICK id \in Live : Revise(id, cozy[id].content, "moved")
  BY DEF ResolveRemoteConflict
<1>2. id \in DOMAIN cozy /\ cozy[id].content \in Nat /\ "moved" \in Places
  BY TypeParts, FilesOfCozy DEF IInv, Types, Places
<1>3. Grown(cozy, cozy') /\ cozy' \in Seq(File)
  BY <1>1, <1>2, ReviseGrows
<1>4. /\ owner = "sync" /\ owner' = "none" /\ sync' = NoSync
      /\ UNCHANGED <<doc, history, puts, merging, blocked>>
  BY FailsApplies DEF ResolveRemoteConflict, Applies, pouch
<1>5. TracesOK'
  BY <1>4, TracesKept
<1> QED
  BY <1>3, <1>4, <1>5, SyncEndsHInv

(* A retry is a change of the side that is ahead, which tells nothing new.  *)
LEMMA RetriedIs ==
  ASSUME IInv, HInv, blocked # NoBlock, Accepts(blocked.change)
  PROVE  LET again == [Marked(OtherSide(blocked.side), blocked.change) EXCEPT
                         !.errors = @ + 1]
         IN /\ blocked.change = doc /\ blocked.side \in Side
            /\ blocked.side = OutOfDateSide(doc.sides)
            /\ Good(again, DOMAIN cozy) /\ again.sides # NoSides
            /\ Updates(doc, again) /\ (NeverTrashed => Told(again))
            /\ again.local = doc.local /\ again.remote = doc.remote
            /\ again.sides = MarkSide(OtherSide(blocked.side), doc.sides)
            /\ again.deleted = doc.deleted
<1> DEFINE was == blocked.change
           late == blocked.side
           side == OtherSide(late)
           marked == Marked(side, was)
           again == [marked EXCEPT !.errors = @ + 1]
<1>1. was = doc
  BY DEF Accepts, HInv, RevsOK, Dated
<1>2. late \in Side /\ late = OutOfDateSide(was.sides)
  BY DEF IInv, BlockedOK
<1>3. /\ Good(was, DOMAIN cozy) /\ Good(again, DOMAIN cozy)
      /\ again.sides # NoSides
      /\ again.rev = marked.rev /\ again.sides = marked.sides
      /\ again.local = marked.local /\ again.remote = marked.remote
      /\ again.md5sum = marked.md5sum
      /\ again.deleted = marked.deleted /\ again.trashed = marked.trashed
  BY RetriedGood
<1> HIDE DEF again, late
<1>4. /\ side \in Side /\ OtherSide(side) = late
      /\ side = "remote" => was.sides.local = 0 \/ Late("local", was)
      /\ was \in Docs /\ Follows(was.sides) /\ was.sides \in Sides
  BY <1>2, <1>3 DEF OtherSide, Side, OutOfDateSide, Late, Good, Docs, Sides, Follows
<1> HIDE DEF was, side
<1>5. Updates(was, marked)
  BY <1>4, MarkedUpdates
<1>6. /\ OutOfDateSide(marked.sides) = late
      /\ marked.local = was.local /\ marked.remote = was.remote
      /\ marked.md5sum = was.md5sum /\ marked.deleted = was.deleted
  BY <1>4, MarkedLate DEF Follows
<1>7. marked.sides = MarkSide(side, was.sides)
  BY <1>4, MarkedIs
<1> HIDE DEF marked
<1>8. Updates(was, again)
  BY <1>3, <1>5 DEF Updates, Late
<1>9. Told(was) => Told(again)
  BY <1>2, <1>3, <1>6 DEF Told
<1>10. NeverTrashed => Told(again)
  BY <1>1, <1>9, DocIs
<1> QED
  BY <1>1, <1>2, <1>3, <1>6, <1>7, <1>8, <1>10 DEF again, marked, side, was, late

(* A retry saves a revision on top of the record, or nothing. *)
LEMMA RetryHInv == ASSUME IInv, HInv, Retry PROVE HInv'
<1>1. /\ blocked # NoBlock /\ blocked' = NoBlock
      /\ UNCHANGED <<cozy, owner, merge, pull, sync>>
      /\ blocked'.change = NoDoc
  BY DEF Retry, remote, merging, NoBlock
<1>2. sync.pc = "idle" /\ HoldsOK'
  BY <1>1, TypeParts DEF HInv, HoldsOK, IInv, Types, SyncTypes
<1>3. Grown(cozy, cozy') /\ cozy' \in Seq(File)
  BY <1>1, CozyKept
<1>4. /\ TracesOK' /\ doc'.remote = doc.remote
      /\ \/ doc' = doc /\ puts' = puts
         \/ doc'.rev = puts + 1 /\ puts' = puts + 1
  <2>1. CASE UNCHANGED pouch
    BY <2>1, TracesKept DEF pouch
  <2>2. CASE ~(UNCHANGED pouch)
    <3> DEFINE again == [Marked(OtherSide(blocked.side), blocked.change) EXCEPT
                           !.errors = @ + 1]
    <3>1. Accepts(blocked.change) /\ Write(again)
      BY <2>2 DEF Retry
    <3>2. /\ Good(again, DOMAIN cozy) /\ again.sides # NoSides
          /\ Updates(doc, again) /\ (NeverTrashed => Told(again))
          /\ again.remote = doc.remote
      BY <1>1, <3>1, RetriedIs
    <3> HIDE DEF again
    <3> QED
      BY <1>1, <3>1, <3>2, WriteTraces
  <2> QED
    BY <2>1, <2>2
<1>5. RevsOK' /\ CozyOK'
  BY <1>1, <1>3, <1>4, RevsNext, CozyNext
<1>6. PullOK'
  BY <1>1, <1>3, <1>4, PullNext DEF HInv, PullOK
<1> QED
  BY <1>2, <1>4, <1>5, <1>6 DEF HInv

(* All is forgotten but what was saved. *)
LEMMA CrashHInv == ASSUME IInv, HInv, Crash PROVE HInv'
<1>1. /\ UNCHANGED <<cozy, doc, history, puts>>
      /\ merge' = NoMerge /\ merge'.was = NoDoc /\ owner' = "none"
      /\ sync'.pc = "idle" /\ sync'.change = NoDoc /\ NoDoc.remote = NoRemote
      /\ blocked'.change = NoDoc /\ pull'.todo = {} /\ pull'.failed = {}
  BY DEF Crash, pouch, NoMerge, NoSync, NoBlock, NoPull, NoDoc
<1>2. Grown(cozy, cozy') /\ cozy' \in Seq(File)
  BY <1>1, CozyKept
<1>3. RevsOK' /\ HoldsOK' /\ TracesOK' /\ CozyOK'
  BY <1>1, <1>2, RevsNext, TracesKept, CozyNext DEF HoldsOK
<1>4. PullOK'
  BY <1>1, <1>2, PullNext
<1> QED
  BY <1>3, <1>4 DEF HInv

(* Every step keeps the invariant. *)
LEMMA NextHInv == IInv /\ HInv /\ [Next]_vars => HInv'
<1> SUFFICES ASSUME IInv, HInv, [Next]_vars PROVE HInv'
  OBVIOUS
<1>1. CASE UserChanges
  BY <1>1, LocalUserHInv, RemoteUserHInv DEF UserChanges
<1>2. CASE LocalWatcher
  BY <1>2, LocalUserHInv, WatchersHInv, MergeLocalHInv DEF LocalWatcher
<1>3. CASE RemoteWatcher
  BY <1>3, FetchHInv, WatchersHInv, MergeRemoteHInv DEF RemoteWatcher
<1>4. CASE Apply
  BY <1>4, ApplyToNoneHInv, ApplyNothingHInv, LocalAppliedHInv,
     UploadNothingHInv, UploadNewHInv, UploadHInv, UpdateRemoteMetadataHInv,
     TrashRemoteHInv DEF Apply
<1>5. CASE PickChange \/ SaveSeq \/ SaveDoc
  BY <1>5, PickChangeHInv, SaveSeqHInv, SaveDocHInv
<1>6. CASE Failure
  BY <1>6, BlockHInv, ResolveRemoteConflictHInv, RetryHInv, CrashHInv DEF Failure
<1>7. CASE UNCHANGED vars
  <2>1. UNCHANGED <<cozy, doc, history, puts, owner, merge, pull, sync, blocked>>
    BY <1>7 DEF vars, remote, pouch, merging
  <2> QED
    BY <2>1, CozyKept, UsersHInv
<1> QED
  BY <1>1, <1>2, <1>3, <1>4, <1>5, <1>6, <1>7 DEF Next, Sync

(* The theorems *)

(* Every reachable state has the invariant. *)
LEMMA AlwaysHInv == Spec => [](IInv /\ HInv)
<1>1. Init => IInv /\ HInv
  BY InitIInv, InitHInv
<1>2. IInv /\ HInv /\ [Next]_vars => (IInv /\ HInv)'
  BY NextIInv, NextHInv
<1> QED
  BY <1>1, <1>2, PTL DEF Spec

(* The checksum of a record is the content of every side that it does not   *)
(* tell to be late, whatever is merged (merge.js), tried again              *)
(* (Sync.updateErrors), applied and recorded (Sync.updateRevs): what Sync   *)
(* sends to one side is what the other one had, and a record up to date has *)
(* nothing left to send.                                                    *)
THEOREM RecordTells == Spec => []RecordTellsContent
<1>1. IInv /\ HInv => RecordTellsContent
  BY DocIs DEF RecordTellsContent
<1> QED
  BY <1>1, AlwaysHInv, PTL

(* Sync does nothing (sync/index.js, applyDoc), or only updates dates and   *)
(* flags, when the revision that getPreviousRev finds, whatever was saved   *)
(* since, says that the content of the change is already on the side.       *)
THEOREM SkipsOnlyThere == Spec => []SkipsOnlyWhatIsThere
<1>1. IInv /\ HInv => SkipsOnlyWhatIsThere
  <2> SUFFICES ASSUME IInv, HInv, Applying, Task \in {"nothing", "metadata"},
                      ~Change.deleted, NeverTrashed
               PROVE  IF sync.side = "local"
                      THEN Task = "metadata" /\ Old.local.content = Change.md5sum
                      ELSE Change.remote.content = Change.md5sum
    BY DEF SkipsOnlyWhatIsThere
  <2>1. sync.side \in Side /\ Applies(sync.side)
    BY TypeParts DEF Applying, Applies, IInv, Types, SyncTypes
  <2> QED
    BY <2>1, NothingIs DEF Side
<1> QED
  BY <1>1, AlwaysHInv, PTL

(* getPreviousRev always finds the revision that a side is at, and an       *)
(* upload over a file of the Cozy (remote/index.js, overwriteFileAsync) is  *)
(* conditioned by the revision that was last merged.                        *)
THEOREM PreviousKnown == Spec => []PreviousIsKnown
<1>1. IInv /\ HInv => PreviousIsKnown
  <2> SUFFICES ASSUME IInv, HInv, Applying, CurrentRev # 0
               PROVE  /\ Old # NoDoc
                      /\ sync.side = "remote" =>
                           Old.remote.rev = Change.remote.rev /\ Old.remote # NoRemote
    BY DEF PreviousIsKnown
  <2>1. sync.side \in Side /\ Applies(sync.side)
    BY TypeParts DEF Applying, Applies, IInv, Types, SyncTypes
  <2>2. Old # NoDoc /\ (sync.side = "remote" => Old.remote = Change.remote)
    BY <2>1, OldIs
  <2>3. sync.side = "remote" => Change.remote # NoRemote
    <3>1. Tells(Change)
      BY ChangeIsGood DEF Good
    <3> QED
      BY <3>1 DEF Tells, CurrentRev
  <2> QED
    BY <2>2, <2>3
<1> QED
  BY <1>1, AlwaysHInv, PTL
=============================================================================
