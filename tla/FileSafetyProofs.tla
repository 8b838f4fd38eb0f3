-------------------------- MODULE FileSafetyProofs --------------------------
(* Why no content of a file is lost when local changes are merged before    *)
(* Sync goes on: what each file that waits to be merged, each remote change *)
(* being merged and each side of the record stand for.                      *)
EXTENDS FileHistoryProofs

(* The contents that nobody would miss: no user wants them any more, or     *)
(* they are in a conflict copy or in the trash of the OS.                   *)
Gone == copies \cup bin \cup {content \in 0..ops : content \notin wanted}

(* Local files *)

(* A file at the path, then another one: the content of the first is gone   *)
(* or is the one of the second. The second one has another date, unless     *)
(* nobody would miss that it is taken for the first one.                    *)
Precedes(one, two, gone) ==
  two.content # one.content => /\ one.content \in gone
                               /\ two.date = one.date => two.content \in gone

Leads(file, files, gone) == \A other \in files : Precedes(file, other, gone)

(* The date of a file comes from a user or from Sync, and not from later.   *)
Stamped(file, last, syncs) ==
  /\ file.date = NoFile.date => file.content = None
  /\ \A n \in Nat : /\ file.date = <<"user", n>> => n <= last
                    /\ file.date = <<"sync", n>> => n < syncs

(* What the local watcher still has to merge. *)
Coming == {disk} \cup {found[i] : i \in DOMAIN found}

QueueOK ==
  /\ \A i \in DOMAIN found :
       /\ Precedes(found[i], disk, Gone)
       /\ \A j \in DOMAIN found : i < j => Precedes(found[i], found[j], Gone)
  /\ \A file \in Coming : Stamped(file, ops, puts + 1)
  /\ ~dirty /\ found # <<>> => found[Len(found)] = disk

(* The event being merged was found after the record was told of the file.  *)
MergingOK ==
  owner = "local" =>
    /\ merge.was = doc
    /\ Precedes(doc.local, merge.file, Gone)
    /\ Leads(merge.file, Coming, Gone)
    /\ Stamped(merge.file, ops, puts + 1)
    /\ ~dirty /\ found = <<>> => merge.file = disk

(* Remote files *)

(* The remote changes being merged. *)
Announced == pull.todo \cup pull.failed

(* The content that was seen in a remote file is gone, or is still there    *)
(* and is what the changes being merged tell of it.                         *)
Keeps(info, files, events, gone) ==
  \/ info.content \in gone
  \/ /\ info.id \in DOMAIN files
     /\ files[info.id].content = info.content /\ files[info.id].where = "live"
     /\ \A event \in events : event.id = info.id =>
          event.content = info.content /\ event.where = "live"

(* The last revision of a remote file is only known if it is at the path.   *)
Current(info, files) ==
  info.id \in DOMAIN files /\ info.rev = files[info.id].rev =>
    files[info.id].where = "live"

(* Nobody would miss what is not at the path. *)
TrashOK(files, gone) ==
  \A id \in DOMAIN files : files[id].where # "live" => files[id].content \in gone

AnnouncedOK ==
  \A event \in Announced :
    /\ Keeps(event, cozy, Announced, Gone)
    /\ event.where # "trash" => Current(event, cozy)

(* The record *)

(* The content of a side that misses changes, and the contents of a record  *)
(* that is deleted, may go.                                                 *)
Agrees(record, gone) ==
  LET here == record.local.content
      there == record.remote.content
  IN /\ record.sides.local # record.sides.target => here \in gone \/ here = there
     /\ record.sides.remote # record.sides.target => there \in gone \/ there = here
     /\ record.deleted => here \in gone /\ there \in gone

(* The sides of a record, as they were seen, did not lose anything since.   *)
Safe(record, coming, files, events, gone) ==
  /\ Leads(record.local, coming, gone)
  /\ Keeps(record.remote, files, events, gone)
  /\ Current(record.remote, files)

DocSafe == /\ Agrees(doc, Gone)
           /\ Safe(doc, Coming, cozy, Announced, Gone)
           /\ Stamped(doc.local, ops, puts)

(* Once its changes are merged, the disk has this content, or one that      *)
(* nobody would miss.                                                       *)
MergedAs(content) == LocalIsMerged => disk.content \in Gone \/ disk.content = content

(* The revision that a late local side is at had the content that the       *)
(* record tells.                                                            *)
LateOK ==
  Late("local", doc) =>
    LET index == Len(history) - (doc.sides.target - doc.sides.local)
        here == history[index].local.content
    IN here \in Gone \/ here = doc.local.content

(* What Sync is about to write on the disk overwrites nothing that was not  *)
(* merged; and what it is about to save as the record is safe.              *)
AppliedOK ==
  /\ sync.pc = "apply" /\ sync.side = "local" => ~dirty /\ found = <<>>
  /\ sync.pc \in {"seq", "save"} =>
       IF sync.change.deleted THEN MergedAs(None)
       ELSE /\ MergedAs(sync.change.local.content)
            /\ Safe(sync.change, Coming, cozy, Announced, Gone)
            /\ Stamped(sync.change.local, ops, puts + 1)

(* The contents of users are numbers that were given. *)
ContentsOK ==
  /\ wanted \subseteq 1..ops
  /\ disk.content <= ops
  /\ \A id \in DOMAIN cozy : cozy[id].content <= ops
  /\ AllIsSomewhere

LInv == /\ ContentsOK /\ QueueOK /\ MergingOK /\ TrashOK(cozy, Gone)
        /\ AnnouncedOK /\ DocSafe /\ MergedAs(doc.local.content) /\ LateOK
        /\ AppliedOK

(* Files that precede others *)

(* A file that precedes others precedes fewer of them, when more is gone. *)
LEMMA LeadsMore ==
  ASSUME NEW gone, NEW more, gone \subseteq more, NEW files, NEW rest,
         rest \subseteq files, NEW file, Leads(file, files, gone)
  PROVE  Leads(file, rest, more)
BY DEF Leads, Precedes

(* A file of the disk is replaced by one that has another date. *)
LEMMA LeadsReplaced ==
  ASSUME NEW gone, NEW more, gone \subseteq more,
         NEW files, NEW old \in files, NEW new, NEW rest,
         rest \subseteq files \cup {new},
         old.content \in more \/ new.content = old.content,
         NEW file, Leads(file, files, gone),
         new.date = file.date => new.content \in more \/ new.content = file.content
  PROVE  Leads(file, rest, more)
<1>1. Precedes(file, old, gone)
  BY DEF Leads
<1>2. Precedes(file, new, more)
  BY <1>1 DEF Precedes
<1> QED
  BY <1>2 DEF Leads, Precedes

(* A missing file precedes all others, and follows those that are gone. *)
LEMMA NoFileLeads ==
  ASSUME NEW gone, None \in gone, NEW files,
         \A file \in files : file.date = NoFile.date => file.content = None
  PROVE  Leads(NoFile, files, gone)
BY DEF Leads, Precedes, NoFile

(* A date that is past stays so. *)
LEMMA StampedLater ==
  ASSUME NEW one \in Nat, NEW two \in Nat, one <= two,
         NEW three \in Nat, NEW four \in Nat, three <= four,
         NEW file, Stamped(file, one, three)
  PROVE  Stamped(file, two, four)
BY DEF Stamped

(* A missing file has no date. *)
LEMMA NoFileStamped ==
  ASSUME NEW one \in Nat, NEW two \in Nat PROVE Stamped(NoFile, one, two)
BY DEF Stamped, NoFile

(* The files that users and Sync write. *)
LEMMA UserStamped ==
  ASSUME NEW n \in Nat, NEW syncs \in Nat, NEW file, file.date = <<"user", n>>
  PROVE  Stamped(file, n, syncs)
BY DEF Stamped, NoFile

(* Sync dates what it writes with the number of revisions. *)
LEMMA SyncStamped ==
  ASSUME NEW n \in Nat, NEW last \in Nat, NEW file, file.date = <<"sync", n>>
  PROVE  Stamped(file, last, n + 1)
BY DEF Stamped, NoFile

(* Remote files that stay, or whose content is gone. *)
Holds(files, later, gone) ==
  \A id \in DOMAIN files : files[id].where = "live" =>
    \/ files[id].content \in gone
    \/ id \in DOMAIN later /\ later[id].content = files[id].content
       /\ later[id].where = "live"

(* What was seen of a remote file holds as long as the file does. *)
LEMMA KeepsNext ==
  ASSUME NEW gone, NEW more, gone \subseteq more, NEW files, NEW later,
         Holds(files, later, more), NEW events, NEW rest, rest \subseteq events,
         NEW info, Keeps(info, files, events, gone)
  PROVE  Keeps(info, later, rest, more)
BY DEF Keeps, Holds

(* A revision that is not the last one does not become it. *)
LEMMA CurrentNext ==
  ASSUME NEW files \in Seq(File), NEW later \in Seq(File), Grown(files, later),
         NEW info, info.id = 0 \/ Fetched(info, files), Current(info, files)
  PROVE  Current(info, later)
<1>1. CASE info.id = 0
  BY <1>1 DEF Current
<1>2. CASE Fetched(info, files)
  <2>1. /\ info.id \in DOMAIN files /\ info.id \in DOMAIN later
        /\ info.rev \in 1..files[info.id].rev
        /\ \/ later[info.id] = files[info.id]
           \/ later[info.id].rev > files[info.id].rev
    BY <1>2 DEF Fetched, Grown
  <2>2. files[info.id].rev \in Nat /\ later[info.id].rev \in Nat
    <3>1. files[info.id] \in File /\ later[info.id] \in File
      BY <2>1
    <3> QED
      BY <3>1 DEF File
  <2> QED
    BY <2>1, <2>2 DEF Current
<1> QED
  BY <1>1, <1>2

(* A record that knows no remote file has none to lose. *)
LEMMA NoRemoteKeeps ==
  ASSUME NEW gone, None \in gone, NEW files \in Seq(File), NEW events
  PROVE  Keeps(NoRemote, files, events, gone) /\ Current(NoRemote, files)
BY DEF Keeps, Current, NoRemote

(* What merges save *)

ContentOf(side, record) == IF side = "local" THEN record.local.content
                           ELSE record.remote.content

(* What a side gets a new content over: the content of the other side is    *)
(* the new one, unless it may go.                                           *)
LEMMA OtherContent ==
  ASSUME NEW ids, NEW was, Good(was, ids), Told(was), NEW gone, Agrees(was, gone),
         NEW side \in Side, NEW content,
         ContentOf(side, was) \in gone \/ ContentOf(side, was) = content,
         IsAtLeastUpToDate(side, was.sides) \/ content = was.md5sum
  PROVE  LET there == ContentOf(OtherSide(side), was) IN
         there \in gone \/ there = content
<1> DEFINE other == OtherSide(side)
           here == ContentOf(side, was)
           there == ContentOf(other, was)
           sides == was.sides
<1>1. /\ sides \in [target : Nat, local : Nat, remote : Nat]
      /\ sides[side] \in Nat /\ sides[other] \in Nat /\ sides.target \in Nat
      /\ sides[side] <= sides.target /\ sides[other] <= sides.target
      /\ sides[side] = sides.target \/ sides[other] = sides.target
  BY DEF Good, Docs, Sides, Side, OtherSide, Follows
<1>2. sides[other] # sides.target => there \in gone \/ there = here
  BY DEF Agrees, ContentOf, Side, OtherSide
<1>3. sides[other] = sides.target => there = was.md5sum
  <2> SUFFICES ASSUME sides[other] = sides.target PROVE there = was.md5sum
    OBVIOUS
  <2>1. OutOfDateSide(sides) # other
    BY <1>1 DEF OutOfDateSide, Side, OtherSide
  <2> QED
    BY <2>1 DEF Told, ContentOf, Side, OtherSide
<1>4. CASE sides[other] # sides.target
  BY <1>2, <1>4
<1>5. CASE sides[other] = sides.target /\ content = was.md5sum
  BY <1>3, <1>5
<1>6. CASE sides[other] = sides.target /\ IsAtLeastUpToDate(side, sides)
  <2>1. sides[side] = sides.target
    BY <1>1, <1>6 DEF IsAtLeastUpToDate, HasBothSides, Side, OtherSide
  <2>2. OutOfDateSide(sides) # side
    BY <1>1, <2>1 DEF OutOfDateSide, Side, OtherSide
  <2>3. here = was.md5sum
    BY <2>2 DEF Told, ContentOf, Side
  <2> QED
    BY <1>3, <1>6, <2>3
<1> QED
  BY <1>4, <1>5, <1>6

(* A side is only marked when the other one has its content, or may lose    *)
(* its own.                                                                 *)
LEMMA MarkedAgrees ==
  ASSUME NEW gone, NEW record \in Docs, NEW side \in Side,
         record.sides.local <= record.sides.target,
         record.sides.remote <= record.sides.target,
         \/ ContentOf(OtherSide(side), record) \in gone
         \/ ContentOf(OtherSide(side), record) = ContentOf(side, record),
         record.deleted => record.local.content \in gone /\ record.remote.content \in gone
  PROVE  Agrees(Marked(side, record), gone)
<1> DEFINE marked == Marked(side, record)
<1>1. /\ marked.sides[side] = record.sides.target + 1
      /\ marked.sides.target = record.sides.target + 1
      /\ marked.local = record.local /\ marked.remote = record.remote
      /\ marked.deleted = record.deleted
  BY MarkedIs, MarkSideIs, MarkedLate DEF Docs
<1> HIDE DEF marked
<1>2. Agrees(marked, gone)
  BY <1>1 DEF Agrees, ContentOf, Side, OtherSide
<1> QED
  BY <1>2 DEF marked

(* The side that stays knows the last change, the other one has nothing. *)
LEMMA DissociatedAgrees ==
  ASSUME NEW ids, NEW was, Good(was, ids), NEW gone, None \in gone,
         Agrees(was, gone), NEW side \in Side, was.sides[side] < was.sides.target
  PROVE  Agrees(Dissociate(side, was), gone)
<1> DEFINE alone == Dissociate(side, was)
           other == OtherSide(side)
<1>1. /\ was \in Docs /\ was.sides \in [target : Nat, local : Nat, remote : Nat]
      /\ Follows(was.sides)
  BY DEF Good, Docs, Sides
<1>2. /\ alone.sides = Dissociated(side, was.sides)
      /\ alone.deleted = was.deleted
      /\ side = "local" => alone.local = NoFile /\ alone.remote = was.remote
      /\ side = "remote" => alone.remote = NoRemote /\ alone.local = was.local
  BY <1>1, DissociatedIs
<1> HIDE DEF alone
<1>3. /\ alone.sides[other] = alone.sides.target
      /\ NoFile.content = None /\ NoRemote.content = None
  BY <1>1, <1>2 DEF Dissociated, Side, OtherSide, Follows, NoFile, NoRemote
<1>4. Agrees(alone, gone)
  BY <1>2, <1>3 DEF Agrees, Side, OtherSide
<1> QED
  BY <1>4 DEF alone

(* The record of a conflict stands for the side that keeps the path. *)
LEMMA ConflictAgrees ==
  ASSUME NEW ids, NEW was, Good(was, ids), was # NoDoc, NEW gone, None \in gone,
         Agrees(was, gone), NEW side \in Side, ~was.deleted,
         ~IsAtLeastUpToDate(side, was.sides), NEW known \in BOOLEAN,
         Conflict(side, known, was).op = "put"
  PROVE  LET record == Conflict(side, known, was).doc IN
         /\ Agrees(record, gone)
         /\ side = "local" => record.local = NoFile /\ record.remote = was.remote
         /\ side = "remote" => record.remote = NoRemote /\ record.local = was.local
<1> DEFINE alone == Dissociate(side, was)
           other == OtherSide(side)
           marked == Marked(other, alone)
<1>1. /\ was.sides[side] < was.sides.target /\ other \in Side /\ was \in Docs
      /\ OtherSide(other) = side
  BY BehindTarget DEF Side, OtherSide, Good
<1>2. /\ alone \in Docs /\ alone.deleted = was.deleted
      /\ alone.sides.local <= alone.sides.target
      /\ alone.sides.remote <= alone.sides.target
      /\ side = "local" => alone.local = NoFile /\ alone.remote = was.remote
      /\ side = "remote" => alone.remote = NoRemote /\ alone.local = was.local
  BY <1>1, DissociateUpdates, DissociatedIs
<1> HIDE DEF alone
<1>3. ContentOf(side, alone) = None
  BY <1>2 DEF ContentOf, NoFile, NoRemote, Side
<1>4. /\ Agrees(marked, gone)
      /\ marked.local = alone.local /\ marked.remote = alone.remote
  BY <1>1, <1>2, <1>3, MarkedAgrees, MarkedIs
<1>5. Conflict(side, known, was).doc = marked
  BY DEF Conflict, alone
<1> HIDE DEF marked
<1> QED
  BY <1>2, <1>4, <1>5

(* The file follows what the record tells of the disk: the remote content   *)
(* is not missed when Sync overwrites it with the one of the file.          *)
LEMMA LocalUpdateAgrees ==
  ASSUME NEW ids, NEW was, Good(was, ids), Told(was), NEW gone, None \in gone,
         Agrees(was, gone), NEW file \in Files, file # NoFile,
         was.local.content \in gone \/ was.local.content = file.content
  PROVE  LET outcome == LocalUpdate(file, was)
             record == outcome.doc
         IN /\ outcome.op = "put" =>
                 /\ Agrees(record, gone) /\ record.remote = was.remote
                 /\ \/ record.local = file
                    \/ record.local = NoFile /\ outcome.rename = "local"
            /\ outcome.op \in {"none", "put"}
            /\ outcome.op = "none" =>
                 outcome.rename = "local" \/ was.local.date = file.date
<1> DEFINE seen == [was EXCEPT !.md5sum = file.content, !.ino = file.ino,
                               !.local = file]
           known == [was EXCEPT !.local = file]
           late == OutOfDateSide(was.sides)
           marked == Marked("local", seen)
           revived == [marked EXCEPT !.deleted = FALSE, !.trashed = FALSE,
                                     !.errors = 0]
           spared == Marked(OtherSide(late), known)
           conflict == Conflict("local", was.local # NoFile, was)
           there == was.remote.content
<1>1. /\ was \in Docs /\ was.sides \in Sides
      /\ was.sides \in [target : Nat, local : Nat, remote : Nat]
      /\ Follows(was.sides) /\ file.content \in Nat /\ file.ino \in Stamps
  BY DEF Good, Files, Docs, Sides
<1>2. /\ seen \in Docs /\ seen.sides = was.sides /\ seen.deleted = was.deleted
      /\ seen.local = file /\ seen.remote = was.remote
      /\ seen.md5sum = file.content
  BY <1>1 DEF Docs
<1>3. /\ known \in Docs /\ known.sides = was.sides /\ known.local = file
      /\ known.remote = was.remote /\ known.deleted = was.deleted
  BY <1>1 DEF Docs
<1>4. \/ IsAtLeastUpToDate("local", was.sides)
      \/ file.content = was.md5sum
      => there \in gone \/ there = file.content
  BY OtherContent DEF ContentOf, Side, OtherSide
<1>5. /\ marked \in Docs /\ marked.sides = MarkSide("local", was.sides)
      /\ marked.local = file /\ marked.remote = was.remote
  <2> HIDE DEF seen
  <2> QED
    BY <1>2, MarkedIs DEF Side
<1>6. /\ MarkSide("local", was.sides).local = was.sides.target + 1
      /\ MarkSide("local", was.sides).target = was.sides.target + 1
  BY <1>1, MarkSideIs DEF Side
<1>7. ~was.deleted /\ (there \in gone \/ there = file.content) =>
        Agrees(marked, gone)
  <2> HIDE DEF seen
  <2> QED
    BY <1>1, <1>2, MarkedAgrees DEF ContentOf, Side, OtherSide, Follows
<1>8. was.deleted => /\ Agrees(revived, gone) /\ revived.local = file
                     /\ revived.remote = was.remote
  <2>1. /\ revived.sides = marked.sides /\ revived.local = file
        /\ revived.remote = was.remote /\ revived.deleted = FALSE
    <3> HIDE DEF marked
    <3> QED
      BY <1>5 DEF Docs
  <2> HIDE DEF revived
  <2> QED
    BY <1>5, <1>6, <2>1 DEF Agrees
<1>9. late = "none" => Agrees(known, gone) \/ was.deleted
  <2> SUFFICES ASSUME late = "none", ~was.deleted PROVE Agrees(known, gone)
    OBVIOUS
  <2>1. was.sides.local = was.sides.target /\ was.sides.remote = was.sides.target
    BY <1>1 DEF OutOfDateSide, Follows
  <2> HIDE DEF known
  <2> QED
    BY <1>3, <2>1 DEF Agrees
<1>10. late # "none" /\ ~was.deleted /\ file.content = was.md5sum =>
         /\ Agrees(spared, gone) /\ spared.local = file
         /\ spared.remote = was.remote
  <2> SUFFICES ASSUME late # "none", ~was.deleted, file.content = was.md5sum
               PROVE  /\ Agrees(spared, gone) /\ spared.local = file
                      /\ spared.remote = was.remote
    OBVIOUS
  <2>1. late \in Side /\ OtherSide(late) \in Side /\ OtherSide(OtherSide(late)) = late
    BY DEF OutOfDateSide, OtherSide, Side
  <2>2. late = "local" => there = file.content
    BY DEF Told
  <2>3. there \in gone \/ there = file.content
    BY <1>4
  <2> HIDE DEF late, known
  <2>4. \/ ContentOf(late, known) \in gone
        \/ ContentOf(late, known) = ContentOf(OtherSide(late), known)
    BY <1>3, <2>1, <2>2, <2>3 DEF ContentOf, Side, OtherSide
  <2>5. Agrees(spared, gone)
    BY <1>1, <1>3, <2>1, <2>4, MarkedAgrees DEF Follows
  <2> QED
    BY <1>3, <2>1, <2>5, MarkedIs
<1>11. was # NoDoc /\ ~was.deleted /\ ~IsAtLeastUpToDate("local", was.sides) =>
         /\ conflict.op = "put" =>
              /\ Agrees(conflict.doc, gone) /\ conflict.doc.local = NoFile
              /\ conflict.doc.remote = was.remote
         /\ conflict.op \in {"none", "put"} /\ conflict.rename = "local"
  <2>1. conflict.op \in {"none", "put"} /\ conflict.rename = "local"
    BY DEF Conflict
  <2> QED
    BY <2>1, ConflictAgrees DEF Side
<1>12. was = NoDoc => there \in gone /\ ~was.deleted
  BY DEF NoDoc, NoRemote
<1>13. SameFile(seen, was) => file.content = was.md5sum
  BY <1>2 DEF SameFile
<1>14. SameBinary(file.content, was.md5sum) => file.content = was.md5sum
  BY DEF SameBinary
<1>20. Overlooked(file, was) => was.local.date = file.date
  BY DEF Overlooked
<1> HIDE DEF seen, known, late, marked, revived, spared, conflict, there
<1>15. LET outcome == LocalUpdate(file, was) IN
       \/ outcome = Save(marked) /\ ~was.deleted
            /\ (there \in gone \/ there = file.content)
       \/ outcome = Ignore /\ was.local.date = file.date
       \/ outcome = Save(revived) /\ was.deleted
       \/ outcome = Save(known) /\ late = "none" /\ ~was.deleted
       \/ outcome = Save(spared) /\ late # "none" /\ ~was.deleted
            /\ file.content = was.md5sum
       \/ outcome = conflict /\ was # NoDoc /\ ~was.deleted
            /\ ~IsAtLeastUpToDate("local", was.sides)
  BY <1>4, <1>12, <1>13, <1>14, <1>20
     DEF LocalUpdate, seen, known, late, marked, revived, spared, conflict
<1>16. \A record : /\ Save(record).op = "put" /\ Save(record).doc = record
                   /\ Ignore.op = "none"
  BY DEF Save, Ignore
<1> QED
  BY <1>3, <1>5, <1>7, <1>8, <1>9, <1>10, <1>11, <1>15, <1>16

(* The same for a remote file that follows the one of the record. *)
LEMMA RemoteUpdateAgrees ==
  ASSUME NEW ids, NEW was, Good(was, ids), Told(was), NEW gone, None \in gone,
         Agrees(was, gone), NEW info \in RemoteInfos,
         was.remote.content \in gone \/ was.remote.content = info.content
  PROVE  LET outcome == RemoteUpdate(info, was)
             record == outcome.doc
         IN /\ outcome.op = "put" =>
                 /\ Agrees(record, gone)
                 /\ \/ record.local = was.local
                    \/ record.local = NoFile /\ was.local.content \in gone
                 /\ \/ record.remote = NoRemote
                    \/ record.remote = info /\ outcome.rename = "none"
            /\ outcome.op \in {"none", "put"}
<1> DEFINE seen == [was EXCEPT !.md5sum = info.content, !.remote = info]
           alone == [NoDoc EXCEPT !.rev = was.rev, !.md5sum = info.content,
                                  !.remote = info]
           marked == Marked("remote", seen)
           added == Marked("remote", alone)
           conflict == Conflict("remote", was.remote # NoRemote, was)
           here == was.local.content
<1>1. /\ was \in Docs /\ was.sides \in Sides
      /\ was.sides \in [target : Nat, local : Nat, remote : Nat]
      /\ Follows(was.sides) /\ info.content \in Nat /\ was.rev \in Nat
  BY DEF Good, RemoteInfos, Docs, Sides
<1>2. /\ seen \in Docs /\ seen.sides = was.sides /\ seen.deleted = was.deleted
      /\ seen.local = was.local /\ seen.remote = info
  BY <1>1 DEF Docs
<1>3. /\ alone \in Docs /\ alone.sides = NoSides /\ alone.deleted = FALSE
      /\ alone.local = NoFile /\ alone.remote = info
  <2>1. NoDoc \in Docs
    BY NoDocGood DEF Good
  <2>2. alone \in Docs
    BY <1>1, <2>1, DocWith
  <2> QED
    BY <2>2 DEF NoDoc
<1>4. \/ IsAtLeastUpToDate("remote", was.sides)
      \/ info.content = was.md5sum
      => here \in gone \/ here = info.content
  BY OtherContent DEF ContentOf, Side, OtherSide
<1>5. marked.local = was.local /\ marked.remote = info
  <2> HIDE DEF seen
  <2> QED
    BY <1>2, MarkedIs DEF Side
<1>6. ~was.deleted /\ (here \in gone \/ here = info.content) =>
        Agrees(marked, gone)
  <2> HIDE DEF seen
  <2> QED
    BY <1>1, <1>2, MarkedAgrees DEF ContentOf, Side, OtherSide, Follows
<1>7. Agrees(added, gone) /\ added.local = NoFile /\ added.remote = info
  <2> HIDE DEF alone
  <2>1. Agrees(added, gone)
    BY <1>3, MarkedAgrees DEF ContentOf, Side, OtherSide, NoSides, NoFile
  <2> QED
    BY <1>3, <2>1, MarkedIs DEF Side
<1>8. was # NoDoc /\ ~was.deleted /\ ~IsAtLeastUpToDate("remote", was.sides) =>
         /\ conflict.op = "put" =>
              /\ Agrees(conflict.doc, gone) /\ conflict.doc.remote = NoRemote
              /\ conflict.doc.local = was.local
         /\ conflict.op \in {"none", "put"}
  <2>1. conflict.op \in {"none", "put"}
    BY DEF Conflict
  <2> QED
    BY <2>1, ConflictAgrees DEF Side
<1>9. was = NoDoc \/ was.deleted => here \in gone
  BY DEF NoDoc, NoFile, Agrees
<1>10. SameBinary(info.content, was.md5sum) => info.content = was.md5sum
  BY DEF SameBinary
<1> HIDE DEF seen, alone, marked, added, conflict, here
<1>11. LET outcome == RemoteUpdate(info, was) IN
       \/ outcome = Save(added) /\ here \in gone
       \/ outcome = Ignore
       \/ outcome = conflict /\ was # NoDoc /\ ~was.deleted
            /\ ~IsAtLeastUpToDate("remote", was.sides)
       \/ outcome = Save(marked) /\ ~was.deleted
            /\ (here \in gone \/ here = info.content)
  BY <1>4, <1>9, <1>10
     DEF RemoteUpdate, seen, alone, marked, added, conflict
<1>12. \A record : /\ Save(record).op = "put" /\ Save(record).doc = record
                   /\ Save(record).rename = "none" /\ Ignore.op = "none"
  BY DEF Save, Ignore
<1> QED
  BY <1>5, <1>6, <1>7, <1>8, <1>11, <1>12 DEF here

(* The content of a side that was trashed may go: so may the one of the     *)
(* other side, unless the record is dissociated or marked.                  *)
LEMMA TrashAgrees ==
  ASSUME NEW ids, NEW was, Good(was, ids), was # NoDoc, Told(was),
         NEW gone, None \in gone, Agrees(was, gone), NEW side \in Side,
         ContentOf(side, was) \in gone
  PROVE  LET outcome == Trash(side, was)
             record == outcome.doc
         IN /\ outcome.op = "put" /\ ~record.trashed =>
                 /\ Agrees(record, gone)
                 /\ \/ record.local = was.local
                    \/ side = "local" /\ record.local = NoFile
                 /\ \/ record.remote = was.remote
                    \/ side = "remote" /\ record.remote = NoRemote
            /\ outcome.op \in {"put", "erase"} /\ outcome.rename = "none"
            /\ side = "remote" /\ outcome.op = "erase" => was.deleted
<1> DEFINE calm == [was EXCEPT !.errors = 0]
           alone == Dissociate(side, was)
           marked == Marked(side, calm)
           deleted == [marked EXCEPT !.deleted = TRUE]
           trashed == [calm EXCEPT !.trashed = TRUE]
           other == OtherSide(side)
           both == was.local # NoFile /\ was.remote # NoRemote
           behind == ~IsAtLeastUpToDate(side, was.sides)
           same == SameBinary(was.local.content, was.remote.content)
           here == ContentOf(side, was)
           there == ContentOf(other, was)
<1>1. /\ was \in Docs /\ was.sides \in Sides
      /\ was.sides \in [target : Nat, local : Nat, remote : Nat]
      /\ Follows(was.sides) /\ Tells(was)
  BY DEF Good, Docs, Sides
<1>2. /\ calm \in Docs /\ calm.sides = was.sides
      /\ calm.local = was.local /\ calm.remote = was.remote
  BY <1>1 DEF Docs
<1>3. behind => /\ Agrees(alone, gone)
                /\ side = "local" => alone.local = NoFile /\ alone.remote = was.remote
                /\ side = "remote" => alone.remote = NoRemote /\ alone.local = was.local
  <2>1. behind => was.sides[side] < was.sides.target
    BY BehindTarget
  <2> QED
    BY <1>1, <2>1, DissociatedAgrees, DissociatedIs
<1>4. /\ marked \in Docs
      /\ marked.local = was.local /\ marked.remote = was.remote
  <2> HIDE DEF calm
  <2> QED
    BY <1>2, MarkedIs
<1>5. deleted.local = was.local /\ deleted.remote = was.remote
  <2> HIDE DEF marked
  <2> QED
    BY <1>4 DEF Docs
<1>6. was.sides[side] # 0 /\ ~(both /\ behind /\ ~same) => there \in gone
  <2> SUFFICES ASSUME was.sides[side] # 0, ~(both /\ behind /\ ~same)
               PROVE  there \in gone
    OBVIOUS
  <2>1. CASE ~behind
    BY <2>1, OtherContent
  <2>2. CASE behind
    <3>1. was.sides[other] # 0
      BY <2>2, BehindTarget
    <3>2. both
      BY <1>1, <3>1 DEF Tells, OtherSide, Side
    <3>3. was.local.content = was.remote.content
      BY <2>2, <3>2 DEF SameBinary
    <3> QED
      BY <3>3 DEF ContentOf
  <2> QED
    BY <2>1, <2>2
<1>7. there \in gone => Agrees(deleted, gone)
  <2> HIDE DEF deleted
  <2> QED
    BY <1>5 DEF Agrees, ContentOf, OtherSide, Side
<1>8. trashed.trashed
  BY <1>2 DEF Docs
<1>9. \/ behind /\ Trash(side, was) = Save(alone)
      \/ was.deleted /\ Trash(side, was) = Erase(was)
      \/ /\ was.sides[side] # 0 /\ ~(both /\ behind /\ ~same)
         /\ Trash(side, was) = Save(deleted)
      \/ was.sides[side] = 0 /\ Trash(side, was) = Save(trashed)
  BY Zenon DEF Trash, alone, deleted, marked, trashed, calm, both, behind, same
<1> HIDE DEF alone, trashed, deleted, calm, both, behind, same, there
<1>10. \A record : /\ Save(record).op = "put" /\ Save(record).doc = record
                   /\ Save(record).rename = "none" /\ Erase(record).rename = "none"
                   /\ Erase(record).op = "erase"
  BY DEF Save, Erase
<1> QED
  BY <1>3, <1>5, <1>6, <1>7, <1>8, <1>9, <1>10 DEF Side

(* What becomes of the contents, the files and the record in a step *)

(* What may go may still go when more is gone. *)
LEMMA AgreesMore ==
  ASSUME NEW gone, NEW more, gone \subseteq more, NEW record, Agrees(record, gone)
  PROVE  Agrees(record, more)
BY DEF Agrees

(* Nobody misses a file that is missing. *)
LEMMA NoneIsGone == ASSUME IInv, LInv PROVE None \in Gone
<1>1. ops \in Nat /\ wanted \subseteq 1..ops
  BY FileSyncAssumption, TypeParts DEF IInv, Types, CountTypes, LInv, ContentsOK
<1> QED
  BY <1>1 DEF Gone, None

(* No content that was given up is wanted again. *)
LEMMA GoneGrows ==
  ASSUME copies \subseteq copies', bin \subseteq bin', ops \in Nat, ops' \in Nat,
         ops <= ops', \A content \in 0..ops : content \in wanted' => content \in wanted
  PROVE  Gone \subseteq Gone'
BY DEF Gone

(* Where contents are, but for the copies. *)
At(file, files) == {file.content} \cup {files[id].content : id \in DOMAIN files}

(* Where contents are after a step that moves them. *)
LEMMA ContentsNext ==
  ASSUME LInv, Gone \subseteq Gone', wanted' \subseteq 1..ops',
         disk'.content <= ops',
         \A id \in DOMAIN cozy' : cozy'[id].content <= ops',
         wanted' \subseteq wanted \cup At(disk', cozy'),
         At(disk, cozy) \subseteq Gone' \cup At(disk', cozy')
  PROVE  ContentsOK'
<1>1. wanted \subseteq At(disk, cozy) \cup copies \cup bin
  BY DEF LInv, ContentsOK, AllIsSomewhere, At
<1>2. copies \cup bin \subseteq Gone
  BY DEF Gone
<1>3. \A content \in wanted' : content \in Gone' => content \in copies' \cup bin'
  BY DEF Gone
<1>4. wanted' \subseteq At(disk', cozy') \cup copies' \cup bin'
  BY <1>1, <1>2, <1>3
<1>5. AllIsSomewhere'
  BY <1>4 DEF AllIsSomewhere, At
<1> QED
  BY <1>5 DEF ContentsOK

(* A step of which no user hears. *)
LEMMA ContentsKept ==
  ASSUME IInv, LInv, UNCHANGED users, copies \subseteq copies', bin \subseteq bin'
  PROVE  /\ Gone \subseteq Gone' /\ ops' = ops /\ ops \in Nat
         /\ UNCHANGED <<disk, cozy>> => ContentsOK'
<1>1. ops \in Nat /\ wanted' = wanted /\ ops' = ops
  BY FileSyncAssumption, TypeParts DEF IInv, Types, CountTypes, users
<1>2. Gone \subseteq Gone'
  BY <1>1, GoneGrows
<1>3. UNCHANGED <<disk, cozy>> => ContentsOK'
  <2> SUFFICES ASSUME UNCHANGED <<disk, cozy>> PROVE ContentsOK'
    OBVIOUS
  <2>1. /\ wanted \subseteq 1..ops /\ disk.content <= ops
        /\ \A id \in DOMAIN cozy : cozy[id].content <= ops
    BY DEF LInv, ContentsOK
  <2>2. At(disk', cozy') = At(disk, cozy)
    OBVIOUS
  <2> QED
    BY <1>1, <1>2, <2>1, <2>2, ContentsNext
<1> QED
  BY <1>1, <1>2, <1>3

(* Dates stay in the past. *)
LEMMA StampedOn ==
  ASSUME IInv, ops <= ops', puts <= puts', ops' \in Nat, puts' \in Nat
  PROVE  \A file : /\ Stamped(file, ops, puts) => Stamped(file, ops', puts')
                   /\ Stamped(file, ops, puts + 1) => Stamped(file, ops', puts' + 1)
                   /\ Stamped(file, ops, puts) => Stamped(file, ops, puts + 1)
<1>1. ops \in Nat /\ puts \in Nat
  BY FileSyncAssumption, TypeParts DEF IInv, Types, CountTypes, PouchTypes
<1>2. \A m, n \in Nat : m <= n => /\ m + 1 \in Nat /\ n + 1 \in Nat
                                  /\ m + 1 <= n + 1 /\ m <= m + 1 /\ m <= m
  OBVIOUS
<1>3. /\ puts + 1 \in Nat /\ puts' + 1 \in Nat /\ puts + 1 <= puts' + 1
      /\ puts <= puts + 1 /\ ops <= ops
  BY <1>1, <1>2
<1> QED
  BY <1>1, <1>2, StampedLater

(* A step that leaves the disk and what is to be merged alone. *)
LEMMA LocalKept ==
  ASSUME IInv, LInv, Gone \subseteq Gone', ops <= ops', puts <= puts',
         ops' \in Nat, puts' \in Nat, UNCHANGED local
  PROVE  /\ QueueOK' /\ Coming' = Coming
         /\ \A file : Leads(file, Coming, Gone) => Leads(file, Coming', Gone')
<1>1. UNCHANGED <<disk, dirty, found>> /\ Coming' = Coming
  BY DEF local, Coming
<1>2. \A file : Leads(file, Coming, Gone) => Leads(file, Coming', Gone')
  BY <1>1, LeadsMore
<1>3. \A one, two : Precedes(one, two, Gone) => Precedes(one, two, Gone')
  BY DEF Precedes
<1>4. \A file : Stamped(file, ops, puts + 1) => Stamped(file, ops', puts' + 1)
  BY StampedOn
<1>5. QueueOK'
  BY <1>1, <1>3, <1>4 DEF LInv, QueueOK
<1> QED
  BY <1>1, <1>2, <1>5

(* A step that replaces the file on the disk, by one of a new date. *)
LEMMA LocalReplaced ==
  ASSUME IInv, LInv, Gone \subseteq Gone', ops <= ops', puts <= puts',
         ops' \in Nat, puts' \in Nat, found' = found, dirty' = TRUE,
         disk.content \in Gone' \/ disk'.content = disk.content,
         Stamped(disk', ops', puts' + 1),
         \A i \in DOMAIN found : disk'.date = found[i].date =>
           disk'.content \in Gone' \/ disk'.content = found[i].content
  PROVE  /\ QueueOK'
         /\ \A file : /\ Leads(file, Coming, Gone)
                      /\ disk'.date = file.date =>
                           disk'.content \in Gone' \/ disk'.content = file.content
                      => Leads(file, Coming', Gone')
<1>1. Coming' \subseteq Coming \cup {disk'} /\ disk \in Coming
  BY DEF Coming
<1>2. \A file : /\ Leads(file, Coming, Gone)
                /\ disk'.date = file.date =>
                     disk'.content \in Gone' \/ disk'.content = file.content
                => Leads(file, Coming', Gone')
  BY <1>1, LeadsReplaced
<1>3. \A one, two : Precedes(one, two, Gone) => Precedes(one, two, Gone')
  BY DEF Precedes
<1>4. \A file : Stamped(file, ops, puts + 1) => Stamped(file, ops', puts' + 1)
  BY StampedOn
<1>5. \A i \in DOMAIN found : Precedes(found[i], disk', Gone')
  <2> SUFFICES ASSUME NEW i \in DOMAIN found PROVE Precedes(found[i], disk', Gone')
    OBVIOUS
  <2>1. found[i] \in Coming /\ Precedes(found[i], disk, Gone)
    BY DEF Coming, LInv, QueueOK
  <2> QED
    BY <2>1 DEF Precedes
<1>6. \A file \in Coming' : Stamped(file, ops', puts' + 1)
  BY <1>1, <1>4 DEF LInv, QueueOK
<1>7. QueueOK'
  BY <1>3, <1>5, <1>6 DEF LInv, QueueOK
<1> QED
  BY <1>2, <1>7

(* A step after which the Cozy has the contents that it had, or that nobody *)
(* would miss, and announces no other change.                               *)
RemoteSteady == /\ Grown(cozy, cozy') /\ cozy' \in Seq(File)
                /\ Holds(cozy, cozy', Gone') /\ TrashOK(cozy', Gone')
                /\ Announced' \subseteq Announced

(* A step that leaves the Cozy alone. *)
LEMMA CozySteady ==
  ASSUME IInv, HInv, LInv, UNCHANGED cozy, Gone \subseteq Gone',
         Announced' \subseteq Announced
  PROVE  RemoteSteady
<1>1. Grown(cozy, cozy') /\ cozy' \in Seq(File)
  BY CozyKept
<1>2. Holds(cozy, cozy', Gone') /\ TrashOK(cozy', Gone')
  BY DEF Holds, TrashOK, LInv
<1> QED
  BY <1>1, <1>2 DEF RemoteSteady

(* A revision that leaves the path, or keeps the content, takes nothing     *)
(* away.                                                                    *)
LEMMA ReviseSteady ==
  ASSUME IInv, HInv, LInv, Gone \subseteq Gone', Announced' \subseteq Announced,
         NEW id \in DOMAIN cozy, NEW content \in Nat, NEW where \in Places,
         Revise(id, content, where),
         where = "live" => cozy[id].where = "live",
         where # "live" => content \in Gone',
         cozy[id].where = "live" =>
           \/ cozy[id].content \in Gone'
           \/ content = cozy[id].content /\ where = "live"
  PROVE  RemoteSteady
<1>1. Grown(cozy, cozy') /\ cozy' \in Seq(File)
  BY ReviseGrows
<1>2. /\ DOMAIN cozy' = DOMAIN cozy
      /\ cozy'[id].content = content /\ cozy'[id].where = where
      /\ \A other \in DOMAIN cozy : other # id => cozy'[other] = cozy[other]
  BY DEF Revise
<1>3. Holds(cozy, cozy', Gone')
  BY <1>2 DEF Holds
<1>4. TrashOK(cozy', Gone')
  BY <1>2 DEF TrashOK, LInv
<1> QED
  BY <1>1, <1>3, <1>4 DEF RemoteSteady

(* Nor does a new file, when none is at the path. *)
LEMMA CreateSteady ==
  ASSUME IInv, HInv, LInv, Gone \subseteq Gone', Announced' \subseteq Announced,
         NEW content \in Nat, Create(content), Live = {}
  PROVE  RemoteSteady
<1>1. Grown(cozy, cozy') /\ cozy' \in Seq(File)
  BY CreateGrows
<1>2. cozy \in Seq(File)
  BY TypeParts DEF IInv, Types, RemoteTypes
<1>3. /\ DOMAIN cozy \subseteq DOMAIN cozy'
      /\ \A id \in DOMAIN cozy : cozy'[id] = cozy[id]
      /\ \A id \in DOMAIN cozy' : id \in DOMAIN cozy \/ cozy'[id].where = "live"
  <2> DEFINE new == [rev |-> 1, content |-> content, where |-> "live"]
  <2>1. cozy' = Append(cozy, new) /\ new.where = "live"
    BY DEF Create
  <2> HIDE DEF new
  <2> QED
    BY <1>2, <2>1
<1>4. Holds(cozy, cozy', Gone')
  BY <1>3 DEF Holds
<1>5. TrashOK(cozy', Gone')
  BY <1>3 DEF TrashOK, LInv
<1> QED
  BY <1>1, <1>4, <1>5 DEF RemoteSteady

(* What is known of the Cozy stays true. *)
LEMMA RemoteKept ==
  ASSUME IInv, HInv, LInv, Gone \subseteq Gone', RemoteSteady
  PROVE  /\ AnnouncedOK' /\ TrashOK(cozy', Gone')
         /\ \A info : Keeps(info, cozy, Announced, Gone) =>
                        Keeps(info, cozy', Announced', Gone')
         /\ \A info : /\ Current(info, cozy)
                      /\ info = NoRemote \/ Fetched(info, cozy)
                      => Current(info, cozy')
<1>1. \A info : Keeps(info, cozy, Announced, Gone) =>
                  Keeps(info, cozy', Announced', Gone')
  BY KeepsNext DEF RemoteSteady
<1>2. cozy \in Seq(File) /\ cozy' \in Seq(File) /\ NoRemote.id = 0
  BY TypeParts DEF IInv, Types, RemoteTypes, RemoteSteady, NoRemote
<1>3. \A info : /\ Current(info, cozy)
                /\ info = NoRemote \/ Fetched(info, cozy)
                => Current(info, cozy')
  BY <1>2, CurrentNext DEF RemoteSteady
<1>4. AnnouncedOK'
  <2> SUFFICES ASSUME NEW event \in Announced'
               PROVE  /\ Keeps(event, cozy', Announced', Gone')
                      /\ event.where # "trash" => Current(event, cozy')
    BY DEF AnnouncedOK
  <2>1. /\ event \in Announced /\ Fetched(event, cozy)
        /\ Keeps(event, cozy, Announced, Gone)
        /\ event.where # "trash" => Current(event, cozy)
    BY DEF RemoteSteady, LInv, AnnouncedOK, HInv, PullOK, Announced
  <2> QED
    BY <1>1, <1>3, <2>1
<1> QED
  BY <1>1, <1>3, <1>4 DEF RemoteSteady

(* A record stays safe when the local files it leads stay led. *)
LEMMA SafeKept ==
  ASSUME IInv, HInv, LInv, Gone \subseteq Gone', RemoteSteady,
         NEW record, Safe(record, Coming, cozy, Announced, Gone),
         record.remote = NoRemote \/ Fetched(record.remote, cozy),
         Leads(record.local, Coming', Gone')
  PROVE  Safe(record, Coming', cozy', Announced', Gone')
BY RemoteKept DEF Safe

(* The record of Pouch stays safe in a step that leaves it alone. *)
LEMMA DocSafeKept ==
  ASSUME IInv, HInv, LInv, Gone \subseteq Gone', RemoteSteady,
         ops <= ops', puts <= puts', ops' \in Nat, puts' \in Nat,
         doc' = doc, Leads(doc.local, Coming', Gone')
  PROVE  DocSafe'
<1>1. /\ Agrees(doc, Gone) /\ Safe(doc, Coming, cozy, Announced, Gone)
      /\ Stamped(doc.local, ops, puts)
      /\ doc.remote = NoRemote \/ Fetched(doc.remote, cozy)
  BY DEF LInv, DocSafe, HInv, CozyOK
<1>2. Agrees(doc, Gone') /\ Stamped(doc.local, ops', puts')
  BY <1>1, AgreesMore, StampedOn
<1>3. Safe(doc, Coming', cozy', Announced', Gone')
  BY <1>1, SafeKept
<1> QED
  BY <1>2, <1>3 DEF DocSafe

(* What Sync is about to save stays safe. *)
LEMMA AppliedKept ==
  ASSUME IInv, HInv, LInv, Gone \subseteq Gone', RemoteSteady,
         ops <= ops', puts <= puts', ops' \in Nat, puts' \in Nat,
         \/ sync' = sync
         \/ /\ sync.pc = "seq" /\ sync'.pc = "save"
            /\ sync'.change = sync.change
         \/ sync'.pc = "idle",
         sync.pc = "apply" /\ sync.side = "local" => UNCHANGED <<dirty, found>>,
         sync.pc \in {"seq", "save"} =>
           /\ LocalIsMerged' => LocalIsMerged /\ disk' = disk
           /\ ~sync.change.deleted => Leads(sync.change.local, Coming', Gone')
  PROVE  AppliedOK'
<1>1. CASE sync'.pc = "idle"
  BY <1>1 DEF AppliedOK
<1>2. CASE sync'.pc = "apply"
  BY <1>2 DEF LInv, AppliedOK
<1>3. CASE sync'.pc \in {"seq", "save"}
  <2>1. sync.pc \in {"seq", "save"} /\ sync'.change = sync.change
    BY <1>3
  <2>2. CASE sync.change.deleted
    BY <1>3, <2>1, <2>2 DEF LInv, AppliedOK, MergedAs
  <2>3. CASE ~sync.change.deleted
    <3>1. /\ MergedAs(sync.change.local.content)
          /\ Safe(sync.change, Coming, cozy, Announced, Gone)
          /\ Stamped(sync.change.local, ops, puts + 1)
          /\ sync.change.remote = NoRemote \/ Fetched(sync.change.remote, cozy)
      BY <2>1, <2>3 DEF LInv, AppliedOK, HInv, CozyOK
    <3>2. Safe(sync.change, Coming', cozy', Announced', Gone')
      BY <2>1, <2>3, <3>1, SafeKept
    <3>3. Stamped(sync.change.local, ops', puts' + 1)
      BY <3>1, StampedOn
    <3>4. MergedAs(sync.change.local.content)'
      BY <2>1, <3>1 DEF MergedAs
    <3> QED
      BY <1>3, <2>1, <2>3, <3>2, <3>3, <3>4 DEF AppliedOK
  <2> QED
    BY <2>2, <2>3
<1>4. sync'.pc \in {"idle", "apply", "seq", "save"}
  BY TypeParts DEF IInv, Types, SyncTypes
<1> QED
  BY <1>1, <1>2, <1>3, <1>4

(* A step that leaves the disk and the record alone. *)
LEMMA SteadyLInv ==
  ASSUME IInv, HInv, LInv, Gone \subseteq Gone', RemoteSteady, ContentsOK',
         ops <= ops', ops' \in Nat, UNCHANGED <<local, doc, history, puts>>,
         owner = "local" <=> owner' = "local",
         owner = "local" => UNCHANGED merge,
         \/ sync' = sync
         \/ /\ sync.pc = "seq" /\ sync'.pc = "save"
            /\ sync'.change = sync.change
         \/ sync'.pc = "idle"
         \/ AppliedOK'
  PROVE  LInv'
<1>1. puts \in Nat /\ puts <= puts' /\ puts' \in Nat
  BY DocIs
<1>2. UNCHANGED <<disk, dirty, found>> /\ (LocalIsMerged' <=> LocalIsMerged)
  BY DEF local, LocalIsMerged
<1>3. /\ QueueOK' /\ Coming' = Coming
      /\ \A file : Leads(file, Coming, Gone) => Leads(file, Coming', Gone')
  BY <1>1, LocalKept
<1>4. TrashOK(cozy', Gone') /\ AnnouncedOK'
  BY RemoteKept
<1>5. DocSafe'
  BY <1>1, <1>3, DocSafeKept DEF LInv, DocSafe, Safe
<1>6. MergingOK'
  <2> SUFFICES ASSUME owner = "local", merge' = merge PROVE MergingOK'
    BY DEF MergingOK
  <2>1. /\ merge.was = doc /\ Precedes(doc.local, merge.file, Gone')
        /\ Leads(merge.file, Coming', Gone')
        /\ Stamped(merge.file, ops', puts' + 1)
        /\ ~dirty /\ found = <<>> => merge.file = disk
    BY <1>1, <1>3, StampedOn DEF LInv, MergingOK, Precedes
  <2> QED
    BY <1>2, <2>1 DEF MergingOK
<1>7. MergedAs(doc.local.content)'
  BY <1>2 DEF LInv, MergedAs
<1>8. LateOK'
  BY DEF LInv, LateOK
<1>9. AppliedOK'
  <2>1. sync.pc \in {"seq", "save"} /\ ~sync.change.deleted =>
          Leads(sync.change.local, Coming', Gone')
    BY <1>3 DEF LInv, AppliedOK, Safe
  <2> QED
    BY <1>1, <1>2, <2>1, AppliedKept
<1> QED
  BY <1>3, <1>4, <1>5, <1>6, <1>7, <1>8, <1>9 DEF LInv

(* Users *)

(* What a user replaces is not wanted any more. *)
LEMMA OperatesGone ==
  ASSUME IInv, LInv, NEW side, NEW replaced, NEW content,
         Operates(side, replaced, content), UNCHANGED kept
  PROVE  /\ Gone \subseteq Gone' /\ ops' = ops + 1 /\ ops \in Nat /\ ops' \in Nat
         /\ wanted' \subseteq 1..ops' /\ wanted' \subseteq wanted \cup {content}
         /\ \A other \in replaced : other \in 0..ops =>
              other \in Gone' \/ other = content
<1>1. /\ ops \in Nat /\ wanted \subseteq 1..ops /\ ops' = ops + 1
      /\ wanted' = (wanted \ (replaced \ {content})) \cup ({content} \cap {ops'})
  BY FileSyncAssumption, TypeParts
     DEF IInv, Types, CountTypes, LInv, ContentsOK, Operates
<1>2. /\ ops' \in Nat /\ ops <= ops' /\ ops' \in 1..ops' /\ ops' \notin 0..ops
      /\ 1..ops \subseteq 1..ops' /\ 0..ops \subseteq 0..ops'
  BY <1>1
<1>3. wanted' \subseteq 1..ops' /\ wanted' \subseteq wanted \cup {content}
  BY <1>1, <1>2
<1>4. \A other \in 0..ops : other \in wanted' =>
        other \in wanted /\ other \notin replaced \ {content}
  BY <1>1, <1>2
<1>5. Gone \subseteq Gone'
  BY <1>1, <1>2, <1>4, GoneGrows DEF kept
<1>6. \A other \in replaced : other \in 0..ops => other \in Gone' \/ other = content
  BY <1>2, <1>4 DEF Gone
<1> QED
  BY <1>1, <1>2, <1>3, <1>5, <1>6

(* Users of the Cozy: what they replace is not wanted any more. *)
LEMMA RemoteUserLInv ==
  ASSUME IInv, HInv, LInv, RemoteWrite \/ RemoteTrash PROVE LInv'
<1>1. PICK content \in Nat :
        /\ RemoteUser(content)
        /\ \/ content \in 1..(ops + 1) /\ Live = {} /\ Create(content)
           \/ /\ content \in 1..(ops + 1)
              /\ \E id \in Live : Revise(id, content, "live")
           \/ content = None /\ \E id \in Live : Revise(id, cozy[id].content, "trash")
  <2>1. CASE RemoteTrash
    BY <2>1 DEF RemoteTrash, None
  <2>2. CASE RemoteWrite
    <3>1. PICK content \in 1..(ops + 1) :
            /\ RemoteUser(content)
            /\ IF Live = {} THEN Create(content)
               ELSE \E id \in Live : Revise(id, content, "live")
      BY <2>2 DEF RemoteWrite
    <3>2. content \in Nat
      BY <3>1, FileSyncAssumption, TypeParts DEF IInv, Types, CountTypes
    <3> QED
      BY <3>1, <3>2
  <2> QED
    BY <2>1, <2>2
<1>2. /\ Operates("remote", LiveContents, content)
      /\ UNCHANGED <<local, pouch, owner, merging, sync, kept>>
  BY <1>1 DEF RemoteUser
<1>3. /\ Gone \subseteq Gone' /\ ops' = ops + 1 /\ ops \in Nat /\ ops' \in Nat
      /\ wanted' \subseteq 1..ops' /\ wanted' \subseteq wanted \cup {content}
      /\ \A other \in LiveContents : other \in 0..ops =>
           other \in Gone' \/ other = content
  BY <1>2, OperatesGone
<1>4. /\ cozy \in Seq(File) /\ Live \subseteq DOMAIN cozy
      /\ disk.content <= ops /\ disk.content \in Nat /\ disk' = disk
      /\ Announced' = Announced /\ None \in Gone'
      /\ \A id \in DOMAIN cozy :
           cozy[id].content \in Nat /\ cozy[id].content <= ops
      /\ \A id \in Live : cozy[id].content \in LiveContents /\ cozy[id].where = "live"
  BY <1>2, <1>3, NoneIsGone, FilesOfCozy, TypeParts
     DEF IInv, Types, RemoteTypes, LocalTypes, Files, LInv, ContentsOK, local,
         merging, Announced, Live, LiveContents
<1>5. \A id \in Live : cozy[id].content \in Gone' \/ cozy[id].content = content
  BY <1>3, <1>4
<1>6. /\ RemoteSteady
      /\ \A id \in DOMAIN cozy' : cozy'[id].content <= ops'
      /\ content \in {None} \cup At(disk', cozy')
      /\ At(disk, cozy) \subseteq Gone' \cup At(disk', cozy')
  <2>1. CASE content \in 1..(ops + 1) /\ Live = {} /\ Create(content)
    <3>1. RemoteSteady /\ cozy' = Append(cozy, [rev |-> 1, content |-> content,
                                                where |-> "live"])
      BY <1>3, <1>4, <2>1, CreateSteady DEF Create
    <3>2. /\ \A id \in DOMAIN cozy : id \in DOMAIN cozy' /\ cozy'[id] = cozy[id]
          /\ \A id \in DOMAIN cozy' : id \in DOMAIN cozy \/ cozy'[id].content = content
          /\ \E id \in DOMAIN cozy' : cozy'[id].content = content
      <4> DEFINE new == [rev |-> 1, content |-> content, where |-> "live"]
      <4>1. cozy' = Append(cozy, new) /\ new.content = content
        BY <3>1
      <4> HIDE DEF new
      <4>2. /\ DOMAIN cozy = 1..Len(cozy) /\ DOMAIN cozy' = 1..(Len(cozy) + 1)
            /\ Len(cozy) \in Nat /\ cozy'[Len(cozy) + 1] = new
            /\ \A id \in 1..Len(cozy) : cozy'[id] = cozy[id]
        BY <1>4, <4>1
      <4>3. Len(cozy) + 1 \in DOMAIN cozy' /\ 1..Len(cozy) \subseteq DOMAIN cozy'
            /\ \A id \in DOMAIN cozy' : id \in 1..Len(cozy) \/ id = Len(cozy) + 1
        BY <4>2
      <4> QED
        BY <4>1, <4>2, <4>3
    <3>3. \A id \in DOMAIN cozy' : cozy'[id].content <= ops'
      BY <1>3, <1>4, <2>1, <3>2
    <3> QED
      BY <1>4, <3>1, <3>2, <3>3 DEF At
  <2>2. CASE /\ content \in 1..(ops + 1)
             /\ \E id \in Live : Revise(id, content, "live")
    <3>1. PICK id \in Live : Revise(id, content, "live")
      BY <2>2
    <3>2. RemoteSteady
      BY <1>3, <1>4, <1>5, <3>1, ReviseSteady DEF Places
    <3>3. /\ DOMAIN cozy' = DOMAIN cozy /\ cozy'[id].content = content
          /\ \A other \in DOMAIN cozy : other # id => cozy'[other] = cozy[other]
      BY <1>4, <3>1 DEF Revise
    <3>4. \A other \in DOMAIN cozy' : cozy'[other].content <= ops'
      BY <1>3, <1>4, <2>2, <3>3
    <3> QED
      BY <1>4, <1>5, <3>2, <3>3, <3>4 DEF At
  <2>3. CASE content = None /\ \E id \in Live : Revise(id, cozy[id].content, "trash")
    <3>1. PICK id \in Live : Revise(id, cozy[id].content, "trash")
      BY <2>3
    <3>2. cozy[id].content \in Gone'
      BY <1>4, <1>5, <2>3
    <3>3. RemoteSteady
      BY <1>3, <1>4, <3>1, <3>2, ReviseSteady DEF Places
    <3>4. /\ DOMAIN cozy' = DOMAIN cozy
          /\ \A other \in DOMAIN cozy : cozy'[other].content = cozy[other].content
      BY <1>4, <3>1 DEF Revise
    <3>5. \A other \in DOMAIN cozy' : cozy'[other].content <= ops'
      BY <1>3, <1>4, <3>4
    <3> QED
      BY <1>4, <2>3, <3>3, <3>4, <3>5 DEF At
  <2> QED
    BY <1>1, <2>1, <2>2, <2>3
<1>7. ContentsOK'
  <2>1. wanted' \subseteq wanted \cup At(disk', cozy') /\ disk'.content <= ops'
    BY <1>3, <1>4, <1>6 DEF None
  <2> QED
    BY <1>3, <1>6, <2>1, ContentsNext
<1> QED
  BY <1>2, <1>3, <1>6, <1>7, SteadyLInv DEF pouch, merging

(* The remote watcher *)

(* Steps of the remote watcher that only count the changes to merge. *)
LEMMA WatchLInv ==
  ASSUME IInv, HInv, LInv, ReadRemote \/ ApplyAllAgain \/ EndWatch
  PROVE  LInv'
<1>1. /\ UNCHANGED <<local, cozy, doc, history, puts, sync, kept, users>>
      /\ owner = "remote" /\ owner' \in {"remote", "none"}
      /\ Announced' \subseteq Announced
  <2>1. CASE ReadRemote
    BY <2>1 DEF ReadRemote, remote, pouch, bounds, Announced
  <2>2. CASE ApplyAllAgain
    BY <2>2 DEF ApplyAllAgain, remote, pouch, bounds, Announced, NoPull
  <2>3. CASE EndWatch
    BY <2>3 DEF EndWatch, pouch, bounds, Announced, NoPull
  <2> QED
    BY <2>1, <2>2, <2>3
<1>2. /\ Gone \subseteq Gone' /\ ops' = ops /\ ops \in Nat /\ ContentsOK'
  BY <1>1, ContentsKept DEF local, kept
<1>3. RemoteSteady
  BY <1>1, <1>2, CozySteady
<1> QED
  BY <1>1, <1>2, <1>3, SteadyLInv

(* What is fetched of a file is what it is. *)
LEMMA FetchLInv == ASSUME IInv, HInv, LInv, Fetch PROVE LInv'
<1> DEFINE ids == {i \in unseen : cozy[i].where # "moved"}
<1>1. /\ UNCHANGED <<local, cozy, doc, history, puts, sync, kept, users>>
      /\ owner = "none" /\ owner' = "remote"
      /\ Announced' = {Event(id) : id \in ids}
  BY DEF Fetch, pouch, bounds, Announced, NoPull
<1>2. /\ Gone \subseteq Gone' /\ ops' = ops /\ ops \in Nat /\ ContentsOK'
      /\ puts \in Nat
  BY <1>1, ContentsKept, DocIs DEF local, kept
<1>3. UNCHANGED <<disk, dirty, found>> /\ (LocalIsMerged' <=> LocalIsMerged)
      /\ sync.pc = "idle"
  BY <1>1 DEF local, LocalIsMerged, IInv, SyncOK
<1>4. /\ QueueOK' /\ Coming' = Coming
      /\ \A file : Leads(file, Coming, Gone) => Leads(file, Coming', Gone')
  BY <1>1, <1>2, LocalKept
<1>5. TrashOK(cozy', Gone')
  BY <1>1, <1>2 DEF TrashOK, LInv
<1>6. /\ ids \subseteq DOMAIN cozy
      /\ \A id \in ids : cozy[id].where \in {"live", "trash"}
  <2>1. ids \subseteq DOMAIN cozy
    BY TypeParts DEF IInv, Types, RemoteTypes
  <2>2. \A id \in DOMAIN cozy : cozy[id].where \in Places
    <3>1. \A id \in DOMAIN cozy : cozy[id] \in File
      BY TypeParts DEF IInv, Types, RemoteTypes
    <3> QED
      BY <3>1 DEF File
  <2> QED
    BY <2>1, <2>2 DEF Places
<1>7. \A id : /\ Event(id).id = id /\ Event(id).rev = cozy[id].rev
              /\ Event(id).content = cozy[id].content
              /\ Event(id).where = cozy[id].where
  BY DEF Event
<1> HIDE DEF ids
<1>8. \A info : \/ info.content \in Gone'
                \/ /\ info.id \in DOMAIN cozy
                   /\ cozy[info.id].content = info.content
                   /\ cozy[info.id].where = "live"
                => Keeps(info, cozy, Announced', Gone')
  BY <1>1, <1>7 DEF Keeps
<1>9. AnnouncedOK'
  <2> SUFFICES ASSUME NEW id \in ids
               PROVE  /\ Keeps(Event(id), cozy, Announced', Gone')
                      /\ Event(id).where # "trash" => Current(Event(id), cozy)
    BY <1>1 DEF AnnouncedOK
  <2>1. \/ Event(id).content \in Gone'
        \/ cozy[id].where = "live"
    BY <1>1, <1>5, <1>6, <1>7 DEF TrashOK
  <2> QED
    BY <1>6, <1>7, <1>8, <2>1 DEF Current
<1>10. DocSafe'
  <2>1. /\ Agrees(doc, Gone) /\ Leads(doc.local, Coming, Gone)
        /\ Keeps(doc.remote, cozy, Announced, Gone)
        /\ Current(doc.remote, cozy) /\ Stamped(doc.local, ops, puts)
    BY DEF LInv, DocSafe, Safe
  <2>2. Keeps(doc.remote, cozy, Announced', Gone')
    BY <1>2, <1>8, <2>1 DEF Keeps
  <2>3. Agrees(doc, Gone')
    BY <1>2, <2>1, AgreesMore
  <2> QED
    BY <1>1, <1>2, <1>4, <2>1, <2>2, <2>3 DEF DocSafe, Safe
<1>11. MergingOK' /\ AppliedOK' /\ LateOK' /\ MergedAs(doc.local.content)'
  BY <1>1, <1>2, <1>3 DEF MergingOK, AppliedOK, LateOK, MergedAs, LInv
<1> QED
  BY <1>2, <1>4, <1>5, <1>9, <1>10, <1>11 DEF LInv

(* Sync, before and after the change is applied *)

(* Sync starts with nothing left to merge on the disk. *)
LEMMA PickChangeLInv ==
  ASSUME Pace # "any", IInv, HInv, LInv, PickChange PROVE LInv'
<1>1. /\ UNCHANGED <<local, cozy, doc, history, puts, kept, users, pull>>
      /\ owner = "none" /\ owner' = "sync" /\ LocalIsMerged
      /\ sync'.pc = "apply"
  BY DEF PickChange, remote, pouch, bounds, merging
<1>2. /\ Gone \subseteq Gone' /\ ops' = ops /\ ops \in Nat /\ ContentsOK'
  BY <1>1, ContentsKept DEF local, kept
<1>3. RemoteSteady
  BY <1>1, <1>2, CozySteady DEF Announced
<1>4. AppliedOK'
  BY <1>1 DEF AppliedOK, LocalIsMerged, local
<1> QED
  BY <1>1, <1>2, <1>3, <1>4, SteadyLInv

(* Sync goes on or stops, and nothing moves. *)
LEMMA SyncStopsLInv ==
  ASSUME IInv, HInv, LInv,
         SaveSeq \/ BlockForEver \/ BlockForAttempts \/ GiveUp
  PROVE  LInv'
<1>1. /\ UNCHANGED <<local, cozy, doc, history, puts, kept, users, pull>>
      /\ owner # "local" => owner' # "local"
      /\ owner = "sync"
      /\ \/ sync'.pc = "idle"
         \/ /\ sync.pc = "seq" /\ sync'.pc = "save"
            /\ sync'.change = sync.change
  <2>1. CASE SaveSeq
    BY <2>1 DEF SaveSeq, remote, bounds, merging, IInv, SyncOK
  <2>2. CASE BlockForEver \/ BlockForAttempts
    <3>1. owner = "sync"
      BY <2>2 DEF BlockForEver, BlockForAttempts, Fails, FaultyApply, LosesAnswer,
                  Does, Applies, IInv, SyncOK
    <3> QED
      BY <2>2, <3>1 DEF BlockForEver, BlockForAttempts, BlockSync, NoSync, remote,
                        pouch, merging
  <2>3. CASE GiveUp
    <3>1. owner = "sync"
      BY <2>3 DEF GiveUp, Fails, FaultyApply, LosesAnswer, Does, Applies, IInv, SyncOK
    <3> QED
      BY <2>3, <3>1 DEF GiveUp, NoSync, remote, merging
  <2> QED
    BY <2>1, <2>2, <2>3
<1>2. /\ Gone \subseteq Gone' /\ ops' = ops /\ ops \in Nat /\ ContentsOK'
  BY <1>1, ContentsKept DEF local, kept
<1>3. RemoteSteady
  BY <1>1, <1>2, CozySteady DEF Announced
<1> QED
  BY <1>1, <1>2, <1>3, SteadyLInv

(* The file that took the name is renamed to a conflict path. *)
LEMMA ResolveRemoteConflictLInv ==
  ASSUME IInv, HInv, LInv, ResolveRemoteConflict PROVE LInv'
<1>1. /\ UNCHANGED <<local, doc, history, puts, users, pull, bin>>
      /\ owner = "sync" /\ owner' = "none" /\ sync'.pc = "idle"
  <2>1. owner = "sync"
    BY DEF ResolveRemoteConflict, Fails, Does, Applies
  <2> QED
    BY <2>1 DEF ResolveRemoteConflict, pouch, bounds, merging, NoSync
<1>2. PICK id \in Live : /\ Revise(id, cozy[id].content, "moved")
                         /\ copies' = copies \cup {cozy[id].content}
  BY DEF ResolveRemoteConflict
<1>3. /\ Gone \subseteq Gone' /\ ops' = ops /\ ops \in Nat
      /\ cozy[id].content \in Gone'
  BY <1>1, <1>2, ContentsKept DEF Gone
<1>4. id \in DOMAIN cozy /\ cozy[id].content \in Nat
  BY FilesOfCozy, TypeParts DEF IInv, Types
<1>5. RemoteSteady
  BY <1>1, <1>2, <1>3, <1>4, ReviseSteady DEF Announced, Places
<1>6. ContentsOK'
  <2>1. /\ DOMAIN cozy' = DOMAIN cozy /\ disk' = disk /\ wanted' = wanted
        /\ \A other \in DOMAIN cozy : cozy'[other].content = cozy[other].content
    BY <1>1, <1>2, <1>4 DEF Revise, local, users
  <2>2. /\ wanted \subseteq 1..ops /\ disk.content <= ops
        /\ \A other \in DOMAIN cozy : cozy[other].content <= ops
    BY DEF LInv, ContentsOK
  <2>3. At(disk', cozy') = At(disk, cozy)
    BY <2>1 DEF At
  <2> QED
    BY <1>3, <2>1, <2>2, <2>3, ContentsNext
<1> QED
  BY <1>1, <1>3, <1>5, <1>6, SteadyLInv

(* Steps that write on the disk *)

(* A file of the disk is replaced, by a user or by Sync. *)
LEMMA LocalStepLInv ==
  ASSUME IInv, HInv, LInv, Gone \subseteq Gone', ops <= ops', ops' \in Nat,
         UNCHANGED <<found, cozy, pull, doc, history, puts, owner, merge>>,
         dirty' = TRUE, disk.content \in Gone' \/ disk'.content = disk.content,
         disk'.content <= ops', wanted' \subseteq 1..ops',
         wanted' \subseteq wanted \cup {disk'.content},
         Stamped(disk', ops', puts + 1),
         \A file : /\ \/ \E i \in DOMAIN found : file = found[i]
                      \/ owner = "local" /\ file = merge.file
                      \/ file = doc.local
                   /\ disk'.date = file.date
                   => disk'.content \in Gone' \/ disk'.content = file.content,
         AppliedOK'
  PROVE  LInv'
<1>1. puts \in Nat /\ puts <= puts' /\ puts' \in Nat /\ ops \in Nat
  BY DocIs DEF Types, CountTypes
<1>2. /\ QueueOK'
      /\ \A file : /\ Leads(file, Coming, Gone)
                   /\ disk'.date = file.date =>
                        disk'.content \in Gone' \/ disk'.content = file.content
                   => Leads(file, Coming', Gone')
  BY <1>1, LocalReplaced
<1>3. RemoteSteady
  BY CozySteady DEF Announced
<1>4. TrashOK(cozy', Gone') /\ AnnouncedOK'
  BY <1>3, RemoteKept
<1>5. DocSafe'
  <2>1. Leads(doc.local, Coming', Gone')
    BY <1>2 DEF LInv, DocSafe, Safe
  <2> QED
    BY <1>1, <1>3, <2>1, DocSafeKept
<1>6. MergingOK'
  <2> SUFFICES ASSUME owner = "local" PROVE MergingOK'
    BY DEF MergingOK
  <2>1. /\ merge.was = doc /\ Precedes(doc.local, merge.file, Gone)
        /\ Leads(merge.file, Coming, Gone)
        /\ Stamped(merge.file, ops, puts + 1)
    BY DEF LInv, MergingOK
  <2>2. /\ Precedes(doc.local, merge.file, Gone')
        /\ Leads(merge.file, Coming', Gone')
        /\ Stamped(merge.file, ops', puts' + 1)
    BY <1>1, <1>2, <2>1, StampedOn DEF Precedes
  <2> QED
    BY <2>1, <2>2 DEF MergingOK
<1>7. MergedAs(doc.local.content)' /\ LateOK'
  BY DEF LInv, LateOK, MergedAs, LocalIsMerged
<1>8. ContentsOK'
  <2>1. \A id \in DOMAIN cozy' : cozy'[id].content <= ops'
    <3>1. \A id \in DOMAIN cozy : cozy[id].content \in Nat /\ cozy[id].content <= ops
      BY <1>1, FilesOfCozy, DocIs DEF Types, LInv, ContentsOK
    <3> QED
      BY <1>1, <3>1
  <2>2. wanted' \subseteq wanted \cup At(disk', cozy')
    BY DEF At
  <2>3. At(disk, cozy) \subseteq Gone' \cup At(disk', cozy')
    BY DEF At
  <2> QED
    BY <2>1, <2>2, <2>3, ContentsNext
<1> QED
  BY <1>2, <1>4, <1>5, <1>6, <1>7, <1>8 DEF LInv

(* A user writes while Sync does not, with a date that is new. *)
LEMMA LocalUserLInv ==
  ASSUME Pace # "any", IInv, HInv, LInv, LocalWrite \/ LocalDelete PROVE LInv'
<1>1. /\ LocalUser(disk') /\ disk'.content <= ops + 1
      /\ \/ disk' = NoFile
         \/ disk'.date = <<"user", ops + 1>>
  <2>1. CASE LocalWrite
    <3>1. PICK content \in 1..(ops + 1),
               ino \in {disk.ino, <<"user", ops + 1>>} \ {NoFile.ino} :
            LocalUser([content |-> content, date |-> <<"user", ops + 1>>, ino |-> ino])
      BY <2>1 DEF LocalWrite
    <3> DEFINE file == [content |-> content, date |-> <<"user", ops + 1>>, ino |-> ino]
    <3>2. LocalUser(file) /\ file.content = content /\ file.date = <<"user", ops + 1>>
      BY <3>1
    <3> HIDE DEF file
    <3>3. disk' = file
      BY <3>2 DEF LocalUser
    <3>4. content <= ops + 1
      BY <3>1, DocIs DEF Types, CountTypes
    <3> QED
      BY <3>2, <3>3, <3>4
  <2>2. CASE LocalDelete
    <3>1. disk' = NoFile /\ LocalUser(NoFile)
      BY <2>2 DEF LocalDelete, LocalUser
    <3>2. None <= ops + 1
      BY DocIs, FileSyncAssumption DEF Types, CountTypes, None
    <3> QED
      BY <3>1, <3>2 DEF NoFile
  <2> QED
    BY <2>1, <2>2
<1>2. /\ Operates("local", {disk.content}, disk'.content) /\ dirty' = TRUE
      /\ Pace = "merged" => ~(owner = "sync" /\ sync.side = "local")
      /\ UNCHANGED <<found, cozy, pull, doc, history, puts, owner, merge, sync, kept>>
  BY <1>1 DEF LocalUser, remote, pouch, merging
<1>3. /\ Gone \subseteq Gone' /\ ops' = ops + 1 /\ ops \in Nat /\ ops' \in Nat
      /\ ops <= ops'
      /\ wanted' \subseteq 1..ops' /\ wanted' \subseteq wanted \cup {disk'.content}
      /\ disk.content \in Gone' \/ disk.content = disk'.content
  <2>1. disk.content \in 0..ops
    BY DocIs DEF Types, LocalTypes, CountTypes, Files, LInv, ContentsOK
  <2> QED
    BY <1>2, <2>1, OperatesGone
<1>4. puts \in Nat /\ puts + 1 \in Nat /\ None \in Gone'
  BY <1>3, DocIs, NoneIsGone
<1>5. Stamped(disk', ops', puts + 1)
  BY <1>1, <1>3, <1>4, UserStamped, NoFileStamped
<1>6. ASSUME NEW file, Stamped(file, ops, puts) \/ Stamped(file, ops, puts + 1),
             disk'.date = file.date
      PROVE  disk'.content \in Gone' \/ disk'.content = file.content
  <2>1. file.date # <<"user", ops + 1>>
    BY <1>3, <1>6 DEF Stamped
  <2> QED
    BY <1>1, <1>4, <1>6, <2>1 DEF NoFile
<1>7. /\ Stamped(doc.local, ops, puts)
      /\ \A i \in DOMAIN found : Stamped(found[i], ops, puts + 1)
      /\ owner = "local" => Stamped(merge.file, ops, puts + 1)
  BY DEF LInv, DocSafe, QueueOK, MergingOK, Coming
<1>8. AppliedOK'
  <2>1. ~(sync.pc = "apply" /\ sync.side = "local")
    <3>1. sync.pc = "apply" => owner = "sync"
      BY DEF IInv, SyncOK
    <3>2. Pace = "synced" => owner = "none"
      BY <1>2 DEF Operates, Quiet
    <3> QED
      BY <1>2, <3>1, <3>2, FileSyncAssumption
  <2>2. ~LocalIsMerged'
    BY <1>2 DEF LocalIsMerged
  <2>3. sync.pc \in {"seq", "save"} /\ ~sync.change.deleted =>
          Leads(sync.change.local, Coming', Gone')
    <3> SUFFICES ASSUME sync.pc \in {"seq", "save"}, ~sync.change.deleted
                 PROVE  Leads(sync.change.local, Coming', Gone')
      OBVIOUS
    <3>1. /\ Leads(sync.change.local, Coming, Gone)
          /\ Stamped(sync.change.local, ops, puts + 1)
      BY DEF LInv, AppliedOK, Safe
    <3>2. \A i \in DOMAIN found : disk'.date = found[i].date =>
            disk'.content \in Gone' \/ disk'.content = found[i].content
      BY <1>6, <1>7
    <3>3. disk'.date = sync.change.local.date =>
            disk'.content \in Gone' \/ disk'.content = sync.change.local.content
      BY <1>6, <3>1
    <3> QED
      BY <1>2, <1>3, <1>4, <1>5, <3>1, <3>2, <3>3, LocalReplaced
  <2>4. RemoteSteady
    BY <1>2, <1>3, CozySteady DEF Announced
  <2>5. puts' \in Nat /\ puts <= puts' /\ sync' = sync
    BY <1>2, <1>4
  <2> QED
    BY <1>3, <2>1, <2>2, <2>3, <2>4, <2>5, AppliedKept
<1>9. disk'.content <= ops'
  BY <1>1, <1>3
<1> QED
  BY <1>2, <1>3, <1>5, <1>6, <1>7, <1>8, <1>9, LocalStepLInv

(* The local watcher, until it merges *)

(* A step that only moves local changes along. *)
LEMMA CalmLInv ==
  ASSUME IInv, HInv, LInv, UNCHANGED <<disk, cozy, doc, history, puts, kept, users>>,
         Coming' \subseteq Coming, Announced' \subseteq Announced,
         QueueOK', MergingOK', AppliedOK', MergedAs(doc.local.content)'
  PROVE  LInv'
<1>1. /\ Gone \subseteq Gone' /\ ops' = ops /\ ops \in Nat /\ ContentsOK'
      /\ puts \in Nat /\ puts' = puts /\ ops <= ops' /\ puts <= puts'
  BY ContentsKept, DocIs DEF kept
<1>2. RemoteSteady
  BY <1>1, CozySteady
<1>3. TrashOK(cozy', Gone') /\ AnnouncedOK'
  BY <1>1, <1>2, RemoteKept
<1>4. DocSafe'
  <2>1. Leads(doc.local, Coming', Gone')
    BY <1>1, LeadsMore DEF LInv, DocSafe, Safe
  <2> QED
    BY <1>1, <1>2, <2>1, DocSafeKept
<1>5. LateOK'
  BY <1>1 DEF LInv, LateOK
<1> QED
  BY <1>1, <1>3, <1>4, <1>5 DEF LInv

(* What was just found is on the disk. *)
LEMMA NoticeLInv == ASSUME IInv, HInv, LInv, Notice PROVE LInv'
<1>1. /\ UNCHANGED <<disk, cozy, doc, history, puts, kept, users, pull, owner,
                     merge, sync>>
      /\ dirty /\ dirty' = FALSE /\ found' = Append(found, disk)
  BY DEF Notice, remote, pouch, merging, bounds
<1> DEFINE size == Len(found)
<1>2. /\ size \in Nat /\ DOMAIN found = 1..size /\ DOMAIN found' = 1..(size + 1)
      /\ found'[size + 1] = disk /\ Len(found') = size + 1 /\ found' # <<>>
      /\ \A i \in 1..size : found'[i] = found[i]
  BY <1>1, DocIs DEF Types, LocalTypes
<1> HIDE DEF size
<1>3. \A i \in 1..(size + 1) : i \in 1..size \/ i = size + 1
  BY <1>2
<1>4. Coming' \subseteq Coming
  BY <1>1, <1>2, <1>3 DEF Coming
<1>5. /\ Gone \subseteq Gone' /\ ops' = ops /\ ops \in Nat
      /\ puts \in Nat /\ puts' = puts /\ ops <= ops' /\ puts <= puts'
  BY <1>1, ContentsKept, DocIs DEF kept
<1>6. QueueOK'
  <2>1. \A i \in 1..size : /\ Precedes(found[i], disk, Gone')
                           /\ \A j \in 1..size : i < j =>
                                Precedes(found[i], found[j], Gone')
    BY <1>2, <1>5 DEF LInv, QueueOK, Precedes
  <2>2. Precedes(disk, disk, Gone')
    BY DEF Precedes
  <2>3. \A i \in 1..(size + 1) : Precedes(found'[i], disk', Gone')
    BY <1>1, <1>2, <1>3, <2>1, <2>2
  <2>4. \A i, j \in 1..(size + 1) : i < j => Precedes(found'[i], found'[j], Gone')
    <3> SUFFICES ASSUME NEW i \in 1..(size + 1), NEW j \in 1..(size + 1), i < j
                 PROVE  Precedes(found'[i], found'[j], Gone')
      OBVIOUS
    <3>1. i \in 1..size
      BY <1>2
    <3> QED
      BY <1>2, <1>3, <2>1, <3>1
  <2>5. \A file \in Coming' : Stamped(file, ops', puts' + 1)
    BY <1>1, <1>4, <1>5 DEF LInv, QueueOK
  <2> QED
    BY <1>1, <1>2, <2>3, <2>4, <2>5 DEF QueueOK
<1>7. MergingOK'
  BY <1>1, <1>2, <1>4, <1>5, LeadsMore DEF LInv, MergingOK, Precedes
<1>8. ~LocalIsMerged'
  BY <1>2 DEF LocalIsMerged
<1>9. AppliedOK'
  <2>1. RemoteSteady
    BY <1>1, <1>5, CozySteady DEF Announced
  <2>2. ~(sync.pc = "apply" /\ sync.side = "local")
    BY <1>1 DEF LInv, AppliedOK
  <2>3. sync.pc \in {"seq", "save"} /\ ~sync.change.deleted =>
          Leads(sync.change.local, Coming', Gone')
    BY <1>4, <1>5, LeadsMore DEF LInv, AppliedOK, Safe
  <2> QED
    BY <1>1, <1>5, <1>8, <2>1, <2>2, <2>3, AppliedKept
<1>10. MergedAs(doc.local.content)'
  BY <1>8 DEF MergedAs
<1>11. Announced' \subseteq Announced
  BY <1>1 DEF Announced
<1> QED
  BY <1>1, <1>4, <1>6, <1>7, <1>9, <1>10, <1>11, CalmLInv

(* The first change found is merged before the others. *)
LEMMA DispatchLocalLInv == ASSUME IInv, HInv, LInv, DispatchLocal PROVE LInv'
<1> DEFINE size == Len(found)
           first == found[1]
<1>1. /\ UNCHANGED <<disk, cozy, doc, history, puts, kept, users, pull, sync, dirty>>
      /\ owner = "none" /\ owner' = "local" /\ found' = Tail(found) /\ found # <<>>
      /\ merge'.was = doc /\ merge'.file = first
  <2>1. merge' = [NoMerge EXCEPT !.pc = "read", !.was = doc, !.file = Head(found)]
    BY DEF DispatchLocal
  <2>2. merge'.was = doc /\ merge'.file = Head(found)
    BY <2>1 DEF NoMerge
  <2> QED
    BY <2>2 DEF DispatchLocal, remote, pouch, bounds
<1>2. /\ size \in Nat /\ size # 0 /\ DOMAIN found = 1..size
      /\ Len(found') = size - 1 /\ DOMAIN found' = 1..(size - 1)
      /\ \A i \in 1..(size - 1) : found'[i] = found[i + 1]
      /\ found' = <<>> => size = 1
  <2>1. found \in Seq(Files) /\ found # <<>>
    BY <1>1, DocIs DEF Types, LocalTypes
  <2>2. /\ size \in Nat /\ size # 0 /\ DOMAIN found = 1..size
    BY <2>1
  <2>3. /\ Tail(found) \in Seq(Files) /\ Len(Tail(found)) = size - 1
    BY <2>1
  <2>4. \A i \in 1..(size - 1) : Tail(found)[i] = found[i + 1]
    BY <2>1
  <2>5. found' = <<>> => Len(found') = 0
    OBVIOUS
  <2>6. DOMAIN Tail(found) = 1..(size - 1)
    BY <2>3
  <2>7. found' = <<>> => size = 1
    <3> HIDE DEF size
    <3> QED
      BY <1>1, <2>2, <2>3, <2>5
  <2> QED
    BY <1>1, <2>2, <2>3, <2>4, <2>6, <2>7
<1> HIDE DEF size, first
<1>3. \A i \in 1..(size - 1) : i + 1 \in 1..size /\ i \in 1..size
  BY <1>2
<1>4. Coming' \subseteq Coming /\ first \in Coming /\ 1 \in DOMAIN found
  BY <1>1, <1>2, <1>3 DEF Coming, first
<1>5. /\ Gone \subseteq Gone' /\ ops' = ops /\ ops \in Nat
      /\ puts \in Nat /\ puts' = puts
  BY <1>1, ContentsKept, DocIs DEF kept
<1>6. /\ \A i \in 1..size : Precedes(found[i], disk, Gone')
      /\ \A i, j \in 1..size : i < j => Precedes(found[i], found[j], Gone')
  BY <1>2, <1>5 DEF LInv, QueueOK, Precedes
<1>7. QueueOK'
  <2>1. \A i, j \in 1..(size - 1) : i < j => Precedes(found'[i], found'[j], Gone')
    <3> SUFFICES ASSUME NEW i \in 1..(size - 1), NEW j \in 1..(size - 1), i < j
                 PROVE  Precedes(found'[i], found'[j], Gone')
      OBVIOUS
    <3>1. i + 1 < j + 1
      BY <1>2
    <3> QED
      BY <1>2, <1>3, <1>6, <3>1
  <2>2. \A i \in 1..(size - 1) : Precedes(found'[i], disk', Gone')
    BY <1>1, <1>2, <1>3, <1>6
  <2>3. \A file \in Coming' : Stamped(file, ops', puts' + 1)
    BY <1>4, <1>5 DEF LInv, QueueOK
  <2>4. ~dirty' /\ found' # <<>> => found'[Len(found')] = disk'
    <3> SUFFICES ASSUME ~dirty, found' # <<>> PROVE found'[size - 1] = disk
      BY <1>1, <1>2
    <3>1. size - 1 \in 1..(size - 1)
      <4>1. Len(found') # 0
        BY <1>1, DocIs DEF Types, LocalTypes
      <4> QED
        BY <1>2, <4>1
    <3>2. found'[size - 1] = found[size - 1 + 1] /\ size - 1 + 1 = size
      BY <1>2, <3>1
    <3>3. found[size] = disk
      BY <1>1 DEF LInv, QueueOK, size
    <3> QED
      BY <3>2, <3>3
  <2> QED
    BY <1>2, <2>1, <2>2, <2>3, <2>4 DEF QueueOK
<1>8. MergingOK'
  <2>1. Precedes(doc.local, first, Gone')
    BY <1>4, <1>5 DEF LInv, DocSafe, Safe, Leads, Precedes
  <2>2. Leads(first, Coming', Gone')
    <3>1. \A i \in 1..(size - 1) : Precedes(first, found'[i], Gone')
      <4> SUFFICES ASSUME NEW i \in 1..(size - 1) PROVE Precedes(first, found'[i], Gone')
        OBVIOUS
      <4>1. 1 < i + 1
        BY <1>2
      <4> QED
        BY <1>2, <1>3, <1>4, <1>6, <4>1 DEF first
    <3>2. Precedes(first, disk', Gone')
      BY <1>1, <1>2, <1>4, <1>6 DEF first
    <3> QED
      BY <1>2, <3>1, <3>2 DEF Leads, Coming
  <2>3. Stamped(first, ops', puts' + 1)
    BY <1>4, <1>5 DEF LInv, QueueOK
  <2>4. ~dirty /\ found' = <<>> => first = disk
    BY <1>1, <1>2 DEF LInv, QueueOK, first, size
  <2> QED
    BY <1>1, <2>1, <2>2, <2>3, <2>4 DEF MergingOK
<1>9. AppliedOK' /\ MergedAs(doc.local.content)'
  BY <1>1 DEF AppliedOK, MergedAs, LocalIsMerged, IInv, SyncOK
<1>10. Announced' \subseteq Announced
  BY <1>1 DEF Announced
<1> QED
  BY <1>1, <1>4, <1>7, <1>8, <1>9, <1>10, CalmLInv

(* The initial scan finds the disk as it is. *)
LEMMA CrashLInv == ASSUME IInv, HInv, LInv, Crash PROVE LInv'
<1>1. /\ UNCHANGED <<disk, cozy, doc, history, puts, kept, users>>
      /\ found' = <<>> /\ dirty' = TRUE /\ owner' = "none" /\ sync'.pc = "idle"
      /\ Announced' = {}
  BY DEF Crash, pouch, NoSync, NoPull, Announced
<1>2. /\ Coming' \subseteq Coming /\ DOMAIN found' = {}
      /\ puts' = puts /\ ops' = ops
  BY <1>1 DEF Coming, users
<1>3. QueueOK'
  BY <1>1, <1>2 DEF LInv, QueueOK
<1>4. MergingOK' /\ AppliedOK' /\ MergedAs(doc.local.content)'
  BY <1>1 DEF MergingOK, AppliedOK, MergedAs, LocalIsMerged
<1> QED
  BY <1>1, <1>2, <1>3, <1>4, CalmLInv

(* Sync, when it applies a change *)

(* What the record tells of the sides when Sync applies it. *)
LEMMA AppliedTells ==
  ASSUME IInv, HInv, LInv, NEW side \in Side, Applies(side)
  PROVE  LET here == Change.local.content
             there == Change.remote.content
         IN /\ side = "local" => here \in Gone \/ here = there
            /\ side = "remote" => there \in Gone \/ there = here
            /\ Change.deleted => here \in Gone /\ there \in Gone
            /\ Safe(Change, Coming, cozy, Announced, Gone)
            /\ Stamped(Change.local, ops, puts) /\ MergedAs(here)
            /\ side = "local" => found = <<>> /\ LocalIsMerged
<1>1. Change = doc /\ owner = "sync" /\ sync.pc = "apply" /\ sync.side = side
  BY ChangeIs
<1>2. /\ side = "local" => doc.sides.local # doc.sides.target
      /\ side = "remote" => doc.sides.remote # doc.sides.target
  <2>1. doc.sides \in Sides /\ Follows(doc.sides)
    BY DocIs DEF Docs
  <2>2. /\ side = "local" => doc.sides.remote > doc.sides.local
        /\ side = "remote" => doc.sides.local > doc.sides.remote
    <3>1. OutOfDateSide(doc.sides) = side
      BY <1>1 DEF IInv, SyncOK, Change
    <3> QED
      BY <2>1, <3>1 DEF OutOfDateSide, Sides
  <2> QED
    BY <2>1, <2>2 DEF Sides, Follows
<1> QED
  BY <1>1, <1>2 DEF LInv, DocSafe, Agrees, AppliedOK, LocalIsMerged

(* A step of Sync gets to a change that is to be saved. *)
LEMMA SucceedsIs ==
  ASSUME IInv, HInv, NEW side \in Side, Applies(side), NEW change, Succeeds(change)
  PROVE  /\ UNCHANGED <<doc, history, puts, owner, merge, pull, users>>
         /\ owner = "sync" /\ sync'.pc = "seq" /\ sync'.change = change
         /\ Change = doc /\ Announced = {} /\ Announced' = {}
<1>1. Change = doc /\ owner = "sync"
  BY ChangeIs
<1>2. pull.todo = {} /\ pull.failed = {}
  BY <1>1 DEF HInv, PullOK
<1> QED
  BY <1>1, <1>2, TypeParts
     DEF IInv, Types, SyncTypes, Succeeds, pouch, merging, bounds, Announced

(* The change of the disk is applied: it is safe to save what is there now. *)
LEMMA LocalAppliedLInv ==
  ASSUME IInv, HInv, LInv, Applies("local"), NEW change, Succeeds(change),
         UNCHANGED <<found, cozy, copies>>, bin \subseteq bin', dirty' = TRUE,
         disk.content \in Gone' \/ disk'.content = disk.content,
         disk'.content <= ops, Stamped(disk', ops, puts + 1),
         disk'.date = doc.local.date =>
           disk'.content \in Gone' \/ disk'.content = doc.local.content,
         change.deleted \/ /\ change.remote = Change.remote
                           /\ Precedes(change.local, disk', Gone')
                           /\ Stamped(change.local, ops, puts + 1)
  PROVE  LInv'
<1>1. /\ UNCHANGED <<doc, history, puts, owner, merge, pull, users>>
      /\ owner = "sync" /\ sync'.pc = "seq" /\ sync'.change = change
      /\ Change = doc
  BY SucceedsIs DEF Side
<1>2. /\ Gone \subseteq Gone' /\ ops' = ops /\ ops \in Nat /\ ops <= ops'
      /\ wanted' = wanted
  BY <1>1, ContentsKept DEF users
<1>3. found = <<>> /\ DOMAIN found = {} /\ Safe(doc, Coming, cozy, Announced, Gone)
  BY <1>1, AppliedTells DEF Side
<1>4. AppliedOK'
  <2> SUFFICES ASSUME ~change.deleted PROVE AppliedOK'
    BY <1>1 DEF AppliedOK, MergedAs, LocalIsMerged
  <2>1. Leads(change.local, Coming', Gone')
    BY <1>3 DEF Leads, Coming
  <2>2. RemoteSteady
    BY <1>1, <1>2, CozySteady DEF Announced
  <2>3. doc.remote = NoRemote \/ Fetched(doc.remote, cozy)
    BY DEF HInv, CozyOK
  <2>4. Safe(change, Coming', cozy', Announced', Gone')
    BY <1>1, <1>2, <1>3, <2>1, <2>2, <2>3, RemoteKept DEF Safe
  <2>5. Stamped(change.local, ops', puts' + 1)
    BY <1>1, <1>2
  <2> QED
    BY <1>1, <2>4, <2>5 DEF AppliedOK, MergedAs, LocalIsMerged
<1>5. wanted' \subseteq 1..ops'
  BY <1>2 DEF LInv, ContentsOK
<1> QED
  BY <1>1, <1>2, <1>3, <1>4, <1>5, LocalStepLInv

(* What is trashed on the disk is in the trash of the OS. *)
LEMMA TrashLocalLInv == ASSUME IInv, HInv, LInv, TrashLocal PROVE LInv'
<1>1. /\ Applies("local") /\ Succeeds(Change) /\ UNCHANGED <<found, cozy, copies>>
      /\ disk' = NoFile /\ dirty' = TRUE
      /\ bin' = bin \cup ({disk.content} \ {None})
      /\ Change.deleted
  BY DEF TrashLocal, Does, Task, remote, Applies
<1>2. /\ Gone \subseteq Gone' /\ None \in Gone' /\ ops \in Nat /\ puts \in Nat
  BY <1>1, SucceedsIs, ContentsKept, NoneIsGone, DocIs DEF Side
<1>3. disk.content \in Gone'
  BY <1>1, <1>2 DEF Gone
<1>4. Stamped(disk', ops, puts + 1) /\ disk'.content = None /\ None <= ops
  BY <1>1, <1>2, NoFileStamped DEF NoFile, None
<1> QED
  BY <1>1, <1>2, <1>3, <1>4, LocalAppliedLInv

(* What the download overwrites was seen by Sync, or is gone. *)
LEMMA DownloadLInv ==
  ASSUME IInv, HInv, LInv, NeverTrashed, Download PROVE LInv'
<1> DEFINE change == [Change EXCEPT !.ino = Now, !.local = Synced]
<1>1. /\ Applies("local") /\ Succeeds(change) /\ UNCHANGED <<found, cozy, copies, bin>>
      /\ disk' = Synced /\ dirty' = TRUE /\ ~Change.deleted
      /\ cozy[Change.remote.id].content = Change.md5sum
  BY DEF Download, Does, Task, remote, kept, Applies
<1>2. /\ change.local = Synced /\ change.remote = Change.remote
  BY ChangeIsGood DEF Docs
<1> HIDE DEF change
<1>3. /\ Synced.content = Change.md5sum /\ Synced.date = <<"sync", puts>>
      /\ ops \in Nat /\ puts \in Nat /\ Gone \subseteq Gone'
      /\ Change.remote.content = Change.md5sum /\ Change = doc
  BY <1>1, SucceedsIs, ContentsKept, DocIs, ChangeIs DEF Synced, Now, Side
<1>4. disk.content \in Gone \/ disk.content = Change.md5sum
  BY <1>1, <1>3, AppliedTells DEF Side, MergedAs
<1>5. Change.md5sum <= ops
  <2>1. Change.remote.id \in DOMAIN cozy
    BY <1>1, ChangeIsGood
  <2> QED
    BY <1>1, <2>1 DEF LInv, ContentsOK
<1>6. Stamped(Synced, ops, puts + 1)
  BY <1>3, SyncStamped
<1>7. Synced.date # doc.local.date
  <2>1. Stamped(doc.local, ops, puts)
    BY DEF LInv, DocSafe
  <2> QED
    BY <1>3, <2>1 DEF Stamped
<1>8. Precedes(Synced, disk', Gone')
  BY <1>1 DEF Precedes
<1> QED
  BY <1>1, <1>2, <1>3, <1>4, <1>5, <1>6, <1>7, <1>8, LocalAppliedLInv

(* The disk had the content that the record tells, or it is gone. *)
LEMMA UpdateLocalMetadataLInv ==
  ASSUME IInv, HInv, LInv, NeverTrashed, UpdateLocalMetadata PROVE LInv'
<1> DEFINE file == [Synced EXCEPT !.ino = Change.ino]
           change == [Change EXCEPT !.local = file]
           here == Change.local.content
<1>1. /\ Applies("local") /\ Succeeds(change) /\ UNCHANGED <<found, cozy, copies, bin>>
      /\ disk' = [disk EXCEPT !.date = Now] /\ dirty' = TRUE /\ Task = "metadata"
      /\ ~Change.deleted
  BY DEF UpdateLocalMetadata, Does, Task, remote, kept, Applies
<1>2. /\ change.local = file /\ change.remote = Change.remote
      /\ file.content = Change.md5sum /\ file.date = <<"sync", puts>>
  BY ChangeIsGood DEF Docs, Synced, Now
<1> HIDE DEF change, file
<1>3. /\ disk'.content = disk.content /\ disk'.date = <<"sync", puts>>
      /\ disk.content <= ops
  BY <1>1, DocIs DEF Types, LocalTypes, Files, Now, LInv, ContentsOK
<1>4. /\ ops \in Nat /\ puts \in Nat /\ Gone \subseteq Gone'
      /\ Change.remote.content = Change.md5sum /\ Change = doc
  BY <1>1, SucceedsIs, ContentsKept, DocIs, ChangeIs DEF Side
<1>5. /\ here \in Gone \/ here = Change.md5sum
      /\ disk.content \in Gone \/ disk.content = here
      /\ disk.content # here => here \in Gone
  BY <1>1, <1>4, AppliedTells DEF Side, MergedAs, Safe, Leads, Precedes, Coming
<1>6. Change.md5sum \in Gone \/ Change.md5sum = here
  <2>1. CurrentRev # 0 /\ Old # NoDoc /\ Old.local.content = Change.md5sum
    BY <1>1, NothingIs DEF Side
  <2>2. Late("local", doc)
    <3>1. CurrentRev = doc.sides.local /\ OutOfDateSide(doc.sides) = "local"
      BY <1>1, <1>4, ChangeIs DEF Side, IInv, SyncOK, Change
    <3>2. doc.sides \in Sides /\ Follows(doc.sides)
      BY DocIs DEF Docs
    <3>3. doc.sides.local < doc.sides.remote /\ doc.sides.remote <= doc.sides.target
      BY <3>1, <3>2 DEF OutOfDateSide, Sides, Follows
    <3>4. doc.sides.local # doc.sides.target
      BY <3>2, <3>3 DEF Sides
    <3> QED
      BY <2>1, <3>1, <3>4 DEF Late
  <2>3. Old = history[Len(history) - (doc.sides.target - doc.sides.local)]
    <3>1. CurrentRev = Change.sides.local
      BY <1>1, ChangeIs DEF Side
    <3> QED
      BY <1>4, <2>1, <3>1 DEF Old
  <2> QED
    BY <1>4, <2>1, <2>2, <2>3 DEF LInv, LateOK
<1>7. Precedes(file, disk', Gone')
  BY <1>2, <1>3, <1>4, <1>5, <1>6 DEF Precedes
<1>8. Stamped(file, ops, puts + 1) /\ Stamped(disk', ops, puts + 1)
  BY <1>2, <1>3, <1>4, SyncStamped
<1>9. disk'.date # doc.local.date
  <2>1. Stamped(doc.local, ops, puts)
    BY DEF LInv, DocSafe
  <2> QED
    BY <1>3, <1>4, <2>1 DEF Stamped
<1> QED
  BY <1>1, <1>2, <1>3, <1>4, <1>7, <1>8, <1>9, LocalAppliedLInv

(* The change of the Cozy is applied: it is safe to save what it is now. *)
LEMMA RemoteAppliedLInv ==
  ASSUME IInv, HInv, LInv, NEW side \in Side, Applies(side),
         NEW change, Succeeds(change), UNCHANGED <<local, kept>>,
         RemoteSteady, ContentsOK',
         \/ change.deleted /\ MergedAs(None)
         \/ /\ ~change.deleted /\ change.local = Change.local
            /\ \/ change.remote = Change.remote
               \/ /\ Keeps(change.remote, cozy', Announced', Gone')
                  /\ Current(change.remote, cozy')
  PROVE  LInv'
<1>1. /\ UNCHANGED <<doc, history, puts, owner, merge, pull, users>>
      /\ owner = "sync" /\ sync'.pc = "seq" /\ sync'.change = change
      /\ Change = doc
  BY SucceedsIs
<1>2. /\ Gone \subseteq Gone' /\ ops' = ops /\ ops \in Nat /\ ops <= ops'
      /\ puts \in Nat /\ puts' = puts /\ puts <= puts'
  BY <1>1, ContentsKept, DocIs DEF kept
<1>3. /\ UNCHANGED <<disk, dirty, found>> /\ (LocalIsMerged' <=> LocalIsMerged)
      /\ \A content : MergedAs(content) => MergedAs(content)'
  BY <1>1, <1>2 DEF local, LocalIsMerged, MergedAs
<1>4. AppliedOK'
  <2>1. CASE change.deleted /\ MergedAs(None)
    <3>1. MergedAs(None)'
      BY <1>2, <1>3, <2>1 DEF MergedAs
    <3> QED
      BY <1>1, <2>1, <3>1 DEF AppliedOK
  <2>2. CASE /\ ~change.deleted /\ change.local = Change.local
             /\ \/ change.remote = Change.remote
                \/ /\ Keeps(change.remote, cozy', Announced', Gone')
                   /\ Current(change.remote, cozy')
    <3>1. /\ Safe(doc, Coming, cozy, Announced, Gone) /\ Stamped(doc.local, ops, puts)
          /\ MergedAs(doc.local.content)
      BY <1>1, AppliedTells
    <3>2. Leads(doc.local, Coming', Gone') /\ Stamped(doc.local, ops, puts + 1)
      BY <1>2, <3>1, LocalKept, StampedOn DEF Safe
    <3>3. doc.remote = NoRemote \/ Fetched(doc.remote, cozy)
      BY DEF HInv, CozyOK
    <3>4. Keeps(change.remote, cozy', Announced', Gone') /\ Current(change.remote, cozy')
      BY <1>1, <1>2, <2>2, <3>1, <3>3, RemoteKept DEF Safe
    <3>5. MergedAs(change.local.content)'
      BY <1>1, <1>2, <1>3, <2>2, <3>1 DEF MergedAs
    <3> QED
      BY <1>1, <1>2, <2>2, <3>2, <3>4, <3>5 DEF AppliedOK, Safe
  <2> QED
    BY <2>1, <2>2
<1> QED
  BY <1>1, <1>2, <1>4, SteadyLInv

(* A step that neither users nor the sides hear of. *)
LEMMA NothingSteady ==
  ASSUME IInv, HInv, LInv, NEW side \in Side, Applies(side),
         NEW change, Succeeds(change), UNCHANGED <<local, remote, kept>>
  PROVE  RemoteSteady /\ ContentsOK'
<1>1. /\ UNCHANGED <<cozy, disk, users, copies, bin>> /\ Announced' = Announced
  BY SucceedsIs DEF remote, local, kept
<1>2. Gone \subseteq Gone' /\ ContentsOK'
  BY <1>1, ContentsKept
<1> QED
  BY <1>1, <1>2, CozySteady

(* The content of a deleted record may go. *)
LEMMA DeletedIsMerged ==
  ASSUME IInv, HInv, LInv, NEW side \in Side, Applies(side), Change.deleted
  PROVE  MergedAs(None)
BY AppliedTells DEF MergedAs

(* Nothing is written: the side has the content, or no file is there to     *)
(* upload.                                                                  *)
LEMMA NothingLInv ==
  ASSUME IInv, HInv, LInv, ApplyNothing \/ UploadNothing PROVE LInv'
<1>1. CASE ApplyNothing
  <2>1. PICK side \in Side : Applies(side)
    BY <1>1 DEF ApplyNothing, Does, Side
  <2>2. Succeeds(Change) /\ UNCHANGED <<local, remote, kept>>
    BY <1>1 DEF ApplyNothing
  <2> QED
    BY <2>1, <2>2, NothingSteady, DeletedIsMerged, RemoteAppliedLInv
       DEF local, kept, remote
<1>2. CASE UploadNothing
  <2> DEFINE change == [Change EXCEPT !.deleted = TRUE]
  <2>1. /\ Applies("remote") /\ Succeeds(change) /\ UNCHANGED <<local, remote, kept>>
        /\ disk = NoFile
    BY <1>2 DEF UploadNothing, Does
  <2>2. change.deleted
    BY ChangeIsGood DEF Docs
  <2>3. MergedAs(None)
    BY <2>1 DEF MergedAs, NoFile
  <2> HIDE DEF change
  <2> QED
    BY <2>1, <2>2, <2>3, NothingSteady, RemoteAppliedLInv DEF Side, local, kept, remote
<1> QED
  BY <1>1, <1>2

(* The contents that stay when the file of the disk is sent to the Cozy. *)
LEMMA ContentsSent ==
  ASSUME IInv, LInv, UNCHANGED <<disk, users, kept>>,
         \A id \in DOMAIN cozy' : cozy'[id].content <= ops,
         \A id \in DOMAIN cozy :
           \/ cozy[id].content \in Gone
           \/ \E other \in DOMAIN cozy' : cozy'[other].content = cozy[id].content
  PROVE  ContentsOK'
<1>1. Gone \subseteq Gone' /\ ops' = ops /\ wanted' = wanted
  BY ContentsKept DEF users, kept
<1>2. wanted \subseteq 1..ops /\ disk.content <= ops
  BY DEF LInv, ContentsOK
<1>3. At(disk, cozy) \subseteq Gone' \cup At(disk', cozy')
  BY <1>1 DEF At
<1> QED
  BY <1>1, <1>2, <1>3, ContentsNext DEF At

(* A new remote file holds what the record tells of the disk. *)
LEMMA UploadNewLInv == ASSUME IInv, HInv, LInv, UploadNew PROVE LInv'
<1> DEFINE info == RemoteInfo(Len(cozy'), cozy'[Len(cozy')])
           change == [Change EXCEPT !.remote = info]
           new == [rev |-> 1, content |-> Change.md5sum, where |-> "live"]
           size == Len(cozy)
<1>1. /\ Applies("remote") /\ Create(Change.md5sum) /\ Live = {}
      /\ Succeeds(change) /\ UNCHANGED <<local, kept>>
      /\ disk.content = Change.md5sum /\ ~Change.deleted
  BY DEF UploadNew, Does, Task, Applies
<1>2. /\ change.local = Change.local /\ change.remote = info
      /\ change.deleted = Change.deleted
  BY ChangeIsGood DEF Docs
<1>3. /\ UNCHANGED <<disk, users>> /\ Announced' = {} /\ Announced' \subseteq Announced
      /\ Gone \subseteq Gone' /\ Change.md5sum \in Nat
  BY <1>1, SucceedsIs, ContentsKept, ChangeIsGood DEF Side, local, kept
<1>4. /\ cozy' = Append(cozy, new) /\ new.content = Change.md5sum
      /\ new.where = "live"
  BY <1>1 DEF Create
<1> HIDE DEF change, new
<1>5. /\ size \in Nat /\ DOMAIN cozy = 1..size /\ DOMAIN cozy' = 1..(size + 1)
      /\ Len(cozy') = size + 1 /\ cozy'[size + 1] = new
      /\ \A id \in 1..size : cozy'[id] = cozy[id]
  BY <1>4, DocIs DEF Types, RemoteTypes
<1> HIDE DEF size
<1>6. \A id \in 1..(size + 1) : id \in 1..size \/ id = size + 1
  BY <1>5
<1>7. RemoteSteady
  BY <1>1, <1>3, CreateSteady
<1>8. ContentsOK'
  <2>1. \A id \in DOMAIN cozy' : cozy'[id].content <= ops
    BY <1>1, <1>4, <1>5, <1>6 DEF LInv, ContentsOK
  <2>2. \A id \in DOMAIN cozy : id \in DOMAIN cozy' /\ cozy'[id] = cozy[id]
    BY <1>5
  <2> QED
    BY <1>1, <1>3, <2>1, <2>2, ContentsSent
<1>9. Keeps(info, cozy', Announced', Gone') /\ Current(info, cozy')
  <2>1. info.id = size + 1 /\ info.content = cozy'[size + 1].content
    BY <1>5 DEF RemoteInfo
  <2>2. size + 1 \in DOMAIN cozy'
    BY <1>5
  <2> HIDE DEF info
  <2> QED
    BY <1>3, <1>4, <1>5, <2>1, <2>2 DEF Keeps, Current
<1> HIDE DEF info
<1> QED
  BY <1>1, <1>2, <1>7, <1>8, <1>9, RemoteAppliedLInv DEF Side

(* The file of the Cozy that the record knows gets a new revision. *)
LEMMA RewriteLInv ==
  ASSUME IInv, HInv, LInv, Applies("remote"), Change.remote # NoRemote,
         NEW content \in Nat, NEW where \in Places, Rewrite(content, where),
         content <= ops,
         LET file == cozy[Change.remote.id] IN
         /\ file.content \in Gone \/ file.content = content
         /\ \/ Change.deleted /\ content \in Gone /\ where # "live"
            \/ ~Change.deleted /\ file.where = "live" /\ where = "live"
  PROVE  LInv'
<1> DEFINE id == Change.remote.id
           info == RemoteInfo(id, cozy'[id])
           change == [Change EXCEPT !.remote = info]
<1>1. /\ Revise(id, content, where) /\ Succeeds(change) /\ UNCHANGED <<local, kept>>
      /\ id \in DOMAIN cozy
  BY ChangeIsGood DEF Rewrite
<1>2. /\ change.local = Change.local /\ change.remote = info
      /\ change.deleted = Change.deleted
  BY ChangeIsGood DEF Docs
<1> HIDE DEF change
<1>3. /\ UNCHANGED <<disk, users>> /\ Announced' = {} /\ Announced' \subseteq Announced
      /\ Gone \subseteq Gone'
  BY <1>1, SucceedsIs, ContentsKept DEF Side, local, kept
<1>4. /\ DOMAIN cozy' = DOMAIN cozy
      /\ cozy'[id].content = content /\ cozy'[id].where = where
      /\ \A other \in DOMAIN cozy : other # id => cozy'[other] = cozy[other]
  BY <1>1 DEF Revise
<1>5. RemoteSteady
  <2> HIDE DEF id
  <2>1. /\ where = "live" => cozy[id].where = "live"
        /\ where # "live" => content \in Gone'
        /\ cozy[id].where = "live" =>
             \/ cozy[id].content \in Gone'
             \/ content = cozy[id].content /\ where = "live"
    BY <1>3 DEF id
  <2> QED
    BY <1>1, <1>3, <2>1, ReviseSteady
<1>6. ContentsOK'
  <2>1. \A other \in DOMAIN cozy' : cozy'[other].content <= ops
    BY <1>4 DEF LInv, ContentsOK
  <2>2. \A other \in DOMAIN cozy :
          \/ cozy[other].content \in Gone
          \/ cozy'[other].content = cozy[other].content
    BY <1>4
  <2> QED
    BY <1>1, <1>3, <1>4, <2>1, <2>2, ContentsSent
<1>7. where = "live" => Keeps(info, cozy', Announced', Gone') /\ Current(info, cozy')
  <2>1. info.id = id /\ info.content = cozy'[id].content
    BY DEF RemoteInfo
  <2> HIDE DEF info, id
  <2> QED
    BY <1>1, <1>3, <1>4, <2>1 DEF Keeps, Current
<1>8. Change.deleted => MergedAs(None)
  BY DeletedIsMerged DEF Side
<1> HIDE DEF info, id
<1> QED
  BY <1>1, <1>2, <1>5, <1>6, <1>7, <1>8, RemoteAppliedLInv DEF Side

(* With If-Match, the file of the Cozy is the one that was merged, and it   *)
(* is at the path.                                                          *)
LEMMA MatchedIs ==
  ASSUME IInv, HInv, LInv, Applies("remote"), Change.remote # NoRemote,
         Matches(Change.remote.rev)
  PROVE  LET file == cozy[Change.remote.id] IN
         /\ Change.remote.id \in DOMAIN cozy /\ file.where = "live"
         /\ file.content = Change.remote.content
         /\ file.content \in Nat /\ file.content <= ops
<1>1. /\ Fetched(Change.remote, cozy) /\ Current(Change.remote, cozy)
      /\ Change.remote.id \in DOMAIN cozy
  BY ChangeIs, ChangeIsGood, AppliedTells DEF Side, Safe
<1>2. Change.remote.rev = cozy[Change.remote.id].rev
  BY <1>1 DEF Matches, Fetched
<1>3. cozy[Change.remote.id].content \in Nat
  BY <1>1, DocIs, FilesOfCozy DEF Types
<1> QED
  BY <1>1, <1>2, <1>3 DEF Fetched, Current, LInv, ContentsOK

(* The content that is overwritten on the Cozy is gone, or the one sent. *)
LEMMA UploadLInv == ASSUME IInv, HInv, LInv, NeverTrashed, Upload PROVE LInv'
<1>1. /\ Applies("remote") /\ Task = "overwrite" /\ CurrentRev # 0
      /\ disk.content = Change.md5sum /\ ~Change.deleted
      /\ Rewrite(Change.md5sum, cozy[Change.remote.id].where)
      /\ Matches(Old.remote.rev)
  BY DEF Upload, Does, Task, Applies
<1>2. /\ Change.remote # NoRemote /\ Change.md5sum \in Nat
      /\ Old.remote = Change.remote /\ Change.md5sum <= ops
  <2>1. Change.sides.remote # 0
    BY <1>1, ChangeIs DEF Side
  <2> QED
    BY <1>1, <2>1, ChangeIsGood, OldIs DEF Good, Tells, Side, LInv, ContentsOK
<1>3. /\ cozy[Change.remote.id].where = "live"
      /\ cozy[Change.remote.id].content = Change.remote.content
  BY <1>1, <1>2, MatchedIs
<1>4. Change.remote.content \in Gone \/ Change.remote.content = Change.md5sum
  BY <1>1, ChangeIs, AppliedTells DEF Side
<1> QED
  BY <1>1, <1>2, <1>3, <1>4, RewriteLInv DEF Places

(* The remote file keeps its content. *)
LEMMA UpdateRemoteMetadataLInv ==
  ASSUME IInv, HInv, LInv, NeverTrashed, UpdateRemoteMetadata PROVE LInv'
<1>1. /\ Applies("remote") /\ Task = "metadata" /\ CurrentRev # 0
      /\ Matches(Change.remote.rev) /\ ~Change.deleted
      /\ Rewrite(cozy[Change.remote.id].content, cozy[Change.remote.id].where)
  BY DEF UpdateRemoteMetadata, Does, Task, Applies
<1>2. Change.remote # NoRemote
  <2>1. Change.sides.remote # 0
    BY <1>1, ChangeIs DEF Side
  <2> QED
    BY <1>1, <2>1, ChangeIsGood DEF Good, Tells
<1> QED
  BY <1>1, <1>2, MatchedIs, RewriteLInv DEF Places

(* What is trashed on the Cozy was deleted on the disk. *)
LEMMA TrashRemoteLInv == ASSUME IInv, HInv, LInv, NeverTrashed, TrashRemote PROVE LInv'
<1>1. /\ Applies("remote") /\ Task = "trash" /\ Change.remote # NoRemote
      /\ \/ Succeeds(Change) /\ UNCHANGED <<local, remote, kept>>
         \/ /\ Matches(Change.remote.rev)
            /\ Rewrite(cozy[Change.remote.id].content, "trash")
  BY DEF TrashRemote, Does
<1>2. Change.deleted
  <2>1. ~Change.trashed
    BY <1>1, ChangeIs DEF Side
  <2> QED
    BY <1>1, <2>1 DEF Task
<1>3. CASE Succeeds(Change) /\ UNCHANGED <<local, remote, kept>>
  BY <1>1, <1>2, <1>3, NothingSteady, DeletedIsMerged, RemoteAppliedLInv
     DEF Side, local, kept, remote
<1>4. CASE /\ Matches(Change.remote.rev)
           /\ Rewrite(cozy[Change.remote.id].content, "trash")
  <2>1. Change.remote.content \in Gone
    BY <1>1, <1>2, AppliedTells DEF Side
  <2> QED
    BY <1>1, <1>2, <1>4, <2>1, MatchedIs, RewriteLInv DEF Places
<1> QED
  BY <1>1, <1>3, <1>4

(* The revisions of the record *)

(* A record that is written is the one of Pouch, and is as safe. *)
LEMMA WriteIs ==
  ASSUME IInv, HInv, NEW record \in Docs, Write(record), Agrees(record, Gone'),
         Safe(record, Coming', cozy', Announced', Gone'),
         Stamped(record.local, ops', puts + 1)
  PROVE  /\ DocSafe' /\ doc'.local = record.local /\ puts' = puts + 1
         /\ puts \in Nat /\ puts' \in Nat /\ puts <= puts'
<1> DEFINE saved == [record EXCEPT !.rev = puts + 1]
<1>1. /\ puts \in Nat /\ doc' = saved /\ puts' = puts + 1
      /\ saved.sides = record.sides /\ saved.local = record.local
      /\ saved.remote = record.remote /\ saved.deleted = record.deleted
  BY DocIs DEF Write, Docs
<1> HIDE DEF saved
<1>2. Agrees(saved, Gone')
  BY <1>1 DEF Agrees
<1>3. DocSafe'
  BY <1>1, <1>2 DEF DocSafe, Safe
<1> QED
  BY <1>1, <1>3

(* An erased record has nothing to lose. *)
LEMMA EraseIs ==
  ASSUME EraseDoc, None \in Gone', QueueOK', cozy' \in Seq(File),
         ops' \in Nat, puts' \in Nat
  PROVE  DocSafe' /\ LateOK' /\ doc'.local.content = None
<1>1. doc' = NoDoc /\ NoDoc.local = NoFile /\ NoDoc.remote = NoRemote
  BY DEF EraseDoc, NoDoc
<1>2. Agrees(NoDoc, Gone')
  BY DEF Agrees, NoDoc, NoSides
<1>3. \A file \in Coming' : file.date = NoFile.date => file.content = None
  BY DEF QueueOK, Stamped
<1>4. Leads(NoFile, Coming', Gone')
  BY <1>3, NoFileLeads
<1>5. Keeps(NoRemote, cozy', Announced', Gone') /\ Current(NoRemote, cozy')
  BY NoRemoteKeeps
<1>6. Stamped(NoFile, ops', puts')
  BY NoFileStamped
<1>7. LateOK'
  BY <1>1 DEF LateOK, Late, NoDoc, NoSides
<1> QED
  BY <1>1, <1>2, <1>4, <1>5, <1>6, <1>7 DEF DocSafe, Safe, NoFile

(* The content that a late side had at the revision that it is at. *)
LEMMA LateNext ==
  ASSUME IInv, HInv, LInv, Gone \subseteq Gone', NEW record \in Docs,
         Updates(doc, record), Write(record),
         Late("local", record) =>
           \/ doc.local.content \in Gone'
           \/ doc.local.content = record.local.content
  PROVE  LateOK'
<1> DEFINE saved == [record EXCEPT !.rev = puts + 1]
           number == doc.sides.local
           target == doc.sides.target
           size == Len(history)
<1>1. /\ doc' = saved /\ saved.sides = record.sides /\ saved.local = record.local
      /\ history' = IF record.rev = 0 THEN <<saved>> ELSE Append(history, saved)
  BY DEF Write, Docs
<1>2. /\ history \in Seq(Docs) /\ number \in Nat /\ target \in Nat
      /\ number <= target
  BY DocIs DEF Docs, Sides, Follows
<1> SUFFICES ASSUME Late("local", record) PROVE LateOK'
  BY <1>1 DEF LateOK, Late
<1>3. /\ record.sides.local = number /\ record.sides.target = target + 1
      /\ number # 0
  BY DEF Updates, Late, Side
<1>4. record.rev # 0 /\ doc # NoDoc
  <2>1. doc # NoDoc
    BY <1>3 DEF NoDoc, NoSides
  <2> QED
    BY <2>1, DocIs DEF Updates
<1>5. /\ size \in Nat /\ size # 0 /\ history[size] = doc
      /\ \A i \in 1..size : history'[i] = history[i]
  <2>1. size # 0 /\ history[size] = doc
    BY <1>4 DEF HInv, TracesOK, Traces
  <2> HIDE DEF saved
  <2> QED
    BY <1>1, <1>2, <1>4, <2>1
<1>6. Len(history') = size + 1
  <2> HIDE DEF saved
  <2> QED
    BY <1>1, <1>2, <1>4
<1> HIDE DEF saved, size
<1>7. Len(history') - (doc'.sides.target - doc'.sides.local) = size - (target - number)
  <2>1. doc'.sides.target = target + 1 /\ doc'.sides.local = number
    BY <1>1, <1>3
  <2> HIDE DEF number, target
  <2>2. size \in Nat /\ number \in Nat /\ target \in Nat
    BY <1>2, <1>5
  <2> HIDE DEF size
  <2> QED
    BY <1>6, <2>1, <2>2
<1> DEFINE index == size - (target - number)
<1>8. index \in 1..size /\ (history[index].local.content \in Gone'
                            \/ history[index].local.content = doc.local.content)
  <2>1. CASE number = target
    <3>1. index = size /\ size \in 1..size
      BY <1>2, <1>5, <2>1
    <3> QED
      BY <1>5, <3>1
  <2>2. CASE number # target
    <3>1. Late("local", doc)
      BY <1>3, <2>2 DEF Late
    <3>2. index >= 1
      BY <3>1 DEF HInv, TracesOK, Traces, Side, size
    <3>3. index \in 1..size
      BY <1>2, <1>5, <3>2
    <3> QED
      BY <3>1, <3>3 DEF LInv, LateOK, size
  <2> QED
    BY <2>1, <2>2
<1> HIDE DEF index
<1>9. \/ history'[index].local.content \in Gone'
      \/ history'[index].local.content = record.local.content
  BY <1>5, <1>8
<1> QED
  BY <1>1, <1>7, <1>9 DEF LateOK, index

(* A step after which the record is safe. *)
LEMMA RecordLInv ==
  ASSUME IInv, HInv, LInv, Gone \subseteq Gone', RemoteSteady, ContentsOK',
         QueueOK', MergingOK', DocSafe', LateOK', AppliedOK',
         MergedAs(doc.local.content)'
  PROVE  LInv'
BY RemoteKept DEF LInv

(* The record is saved as done on both sides, or is erased. *)
LEMMA SaveDocLInv == ASSUME IInv, HInv, LInv, SaveDoc PROVE LInv'
<1>1. /\ owner = "sync" /\ owner' = "none" /\ sync.pc = "save" /\ sync'.pc = "idle"
      /\ UNCHANGED <<local, cozy, pull, kept, users>>
      /\ Announced' = Announced
  BY DEF SaveDoc, remote, merging, bounds, NoSync, IInv, SyncOK, Announced
<1>2. /\ UNCHANGED <<disk, dirty, found, copies, bin>>
      /\ (LocalIsMerged' <=> LocalIsMerged)
  BY <1>1 DEF local, kept, LocalIsMerged
<1>3. /\ Gone \subseteq Gone' /\ ops' = ops /\ ops \in Nat /\ ContentsOK'
      /\ None \in Gone' /\ puts \in Nat
  BY <1>1, <1>2, ContentsKept, NoneIsGone, DocIs
<1>4. RemoteSteady
  BY <1>1, <1>3, CozySteady
<1>5. MergingOK' /\ AppliedOK'
  BY <1>1 DEF MergingOK, AppliedOK
<1>6. CASE Change.deleted
  <2>1. EraseDoc /\ puts' = puts
    BY <1>6 DEF SaveDoc, EraseDoc
  <2>2. QueueOK'
    BY <1>1, <1>3, <2>1, LocalKept
  <2>3. DocSafe' /\ LateOK' /\ doc'.local.content = None
    BY <1>3, <1>4, <2>1, <2>2, EraseIs DEF RemoteSteady
  <2>4. MergedAs(None)
    BY <1>1, <1>6 DEF LInv, AppliedOK, Change
  <2>5. MergedAs(doc.local.content)'
    BY <1>2, <1>3, <2>3, <2>4 DEF MergedAs
  <2> QED
    BY <1>3, <1>4, <1>5, <2>2, <2>3, <2>5, RecordLInv
<1>7. CASE ~Change.deleted
  <2> DEFINE saved == [Change EXCEPT !.sides = MarkAsUpToDate(@), !.errors = 0]
  <2>1. /\ saved \in Docs /\ saved.rev = Change.rev
        /\ saved.sides = MarkAsUpToDate(Change.sides)
        /\ saved.local = Change.local /\ saved.remote = Change.remote
    BY <1>1, <1>7, SavedGood DEF Good
  <2>2. saved.deleted = FALSE
    BY <1>1, <1>7, ChangeIsGood DEF Docs
  <2>3. Write(saved)
    BY <1>7 DEF SaveDoc
  <2> HIDE DEF saved
  <2>4. /\ saved.sides.local = saved.sides.target
        /\ saved.sides.remote = saved.sides.target
    BY <2>1 DEF MarkAsUpToDate
  <2>5. /\ MergedAs(Change.local.content)
        /\ Safe(Change, Coming, cozy, Announced, Gone)
        /\ Stamped(Change.local, ops, puts + 1)
        /\ Change.remote = NoRemote \/ Fetched(Change.remote, cozy)
    BY <1>1, <1>7 DEF LInv, AppliedOK, Change, HInv, CozyOK
  <2>6. puts' = puts + 1 /\ puts' \in Nat /\ puts <= puts' /\ ops <= ops'
    BY <1>3, <2>3 DEF Write
  <2>7. QueueOK' /\ Leads(Change.local, Coming', Gone')
    BY <1>1, <1>3, <2>5, <2>6, LocalKept DEF Safe
  <2>8. Safe(saved, Coming', cozy', Announced', Gone')
    <3>1. Safe(Change, Coming', cozy', Announced', Gone')
      BY <1>3, <1>4, <2>5, <2>7, SafeKept
    <3> QED
      BY <2>1, <3>1 DEF Safe
  <2>9. Agrees(saved, Gone')
    BY <2>2, <2>4 DEF Agrees
  <2>10. DocSafe' /\ doc'.local = saved.local
    BY <1>3, <2>1, <2>3, <2>5, <2>8, <2>9, WriteIs
  <2>11. ~Late("local", saved) /\ ~Late("remote", saved)
    BY <2>4 DEF Late
  <2>12. LateOK'
    <3>1. saved.rev = doc.rev
      BY <1>1, <2>1 DEF HInv, HoldsOK, Change
    <3>2. Updates(doc, saved)
      BY <2>11, <3>1, SettledUpdates DEF Side
    <3> QED
      BY <1>3, <2>1, <2>3, <2>11, <3>2, LateNext
  <2>13. MergedAs(doc.local.content)'
    BY <1>2, <1>3, <2>1, <2>5, <2>10 DEF MergedAs
  <2> QED
    BY <1>3, <1>4, <1>5, <2>7, <2>10, <2>12, <2>13, RecordLInv
<1> QED
  BY <1>6, <1>7

(* A record is only erased when nobody would miss what its sides had. *)
LEMMA ApplyToNoneLInv == ASSUME IInv, HInv, LInv, ApplyToNone PROVE LInv'
<1>1. /\ owner = "sync" /\ owner' = "none" /\ sync.pc = "apply" /\ sync'.pc = "idle"
      /\ UNCHANGED <<local, cozy, pull, kept, users>>
      /\ Announced' = Announced /\ Change = doc
  BY DEF ApplyToNone, remote, merging, bounds, NoSync, Announced, HInv, HoldsOK,
         Change
<1>2. /\ UNCHANGED <<disk, dirty, found, copies, bin>>
      /\ (LocalIsMerged' <=> LocalIsMerged)
  BY <1>1 DEF local, kept, LocalIsMerged
<1>3. /\ Gone \subseteq Gone' /\ ops' = ops /\ ops \in Nat /\ ContentsOK'
      /\ None \in Gone' /\ puts \in Nat
  BY <1>1, <1>2, ContentsKept, NoneIsGone, DocIs
<1>4. RemoteSteady
  BY <1>1, <1>3, CozySteady
<1>5. CASE Forgotten
  <2>1. EraseDoc /\ puts' = puts /\ doc.deleted
    BY <1>1, <1>5 DEF ApplyToNone, EraseDoc, Forgotten
  <2>2. QueueOK'
    BY <1>1, <1>3, <2>1, LocalKept
  <2>3. DocSafe' /\ LateOK' /\ doc'.local.content = None
    BY <1>3, <1>4, <2>1, <2>2, EraseIs DEF RemoteSteady
  <2>4. MergedAs(doc.local.content)'
    BY <1>2, <1>3, <2>1, <2>3 DEF MergedAs, LInv, DocSafe, Agrees
  <2>5. MergingOK' /\ AppliedOK'
    BY <1>1 DEF MergingOK, AppliedOK
  <2> QED
    BY <1>3, <1>4, <2>2, <2>3, <2>4, <2>5, RecordLInv
<1>6. CASE ~Forgotten
  <2>1. UNCHANGED <<doc, history, puts>>
    BY <1>6 DEF ApplyToNone
  <2> QED
    BY <1>1, <1>3, <1>4, <2>1, SteadyLInv
<1> QED
  BY <1>5, <1>6

(* A retry tells the record of nothing. *)
LEMMA RetryLInv == ASSUME Pace # "any", IInv, HInv, LInv, Retry PROVE LInv'
<1>1. /\ UNCHANGED <<local, cozy, owner, merge, pull, sync, kept, users>>
      /\ Announced' = Announced /\ blocked # NoBlock /\ LocalIsMerged
  BY DEF Retry, remote, merging, Announced
<1>2. /\ UNCHANGED <<disk, dirty, found, copies, bin>>
      /\ (LocalIsMerged' <=> LocalIsMerged)
  BY <1>1 DEF local, kept, LocalIsMerged
<1>3. /\ Gone \subseteq Gone' /\ ops' = ops /\ ops \in Nat /\ ContentsOK'
      /\ puts \in Nat
  BY <1>1, <1>2, ContentsKept, DocIs
<1>4. RemoteSteady
  BY <1>1, <1>3, CozySteady
<1>5. CASE UNCHANGED pouch
  BY <1>1, <1>3, <1>4, <1>5, SteadyLInv DEF pouch
<1>6. CASE ~(UNCHANGED pouch)
  <2> DEFINE again == [Marked(OtherSide(blocked.side), blocked.change) EXCEPT
                         !.errors = @ + 1]
             late == blocked.side
  <2>1. Accepts(blocked.change) /\ Write(again)
    BY <1>6 DEF Retry
  <2>2. /\ late \in Side /\ late = OutOfDateSide(doc.sides)
        /\ Good(again, DOMAIN cozy) /\ Updates(doc, again)
        /\ again.local = doc.local /\ again.remote = doc.remote
        /\ again.sides = MarkSide(OtherSide(late), doc.sides)
        /\ again.deleted = doc.deleted
    BY <1>1, <2>1, RetriedIs
  <2> HIDE DEF again, late
  <2>3. doc.sides \in Sides /\ Follows(doc.sides)
    BY DocIs DEF Docs
  <2>4. /\ late = "local" => /\ doc.sides.local # doc.sides.target
                             /\ again.sides.remote = again.sides.target
        /\ late = "remote" => /\ doc.sides.remote # doc.sides.target
                              /\ again.sides.local = again.sides.target
    <3>1. /\ late = "local" => doc.sides.local < doc.sides.remote
          /\ late = "remote" => doc.sides.remote < doc.sides.local
      BY <2>2, <2>3 DEF OutOfDateSide, Sides
    <3>2. /\ late = "local" => again.sides.remote = again.sides.target
          /\ late = "remote" => again.sides.local = again.sides.target
      BY <2>2, <2>3, MarkSideIs DEF Side, OtherSide
    <3> QED
      BY <2>3, <3>1, <3>2 DEF Sides, Follows
  <2>5. Agrees(again, Gone')
    <3>1. Agrees(doc, Gone')
      BY <1>3, AgreesMore DEF LInv, DocSafe
    <3> QED
      BY <2>2, <2>4, <3>1 DEF Agrees, Side
  <2>6. /\ Safe(doc, Coming, cozy, Announced, Gone) /\ Stamped(doc.local, ops, puts)
        /\ doc.remote = NoRemote \/ Fetched(doc.remote, cozy)
    BY DEF LInv, DocSafe, HInv, CozyOK
  <2>7. puts' = puts + 1 /\ puts' \in Nat /\ puts <= puts' /\ ops <= ops'
    BY <1>3, <2>1 DEF Write
  <2>8. QueueOK' /\ Leads(doc.local, Coming', Gone')
    BY <1>1, <1>3, <2>6, <2>7, LocalKept DEF Safe
  <2>9. Safe(again, Coming', cozy', Announced', Gone')
    <3>1. Safe(doc, Coming', cozy', Announced', Gone')
      BY <1>3, <1>4, <2>6, <2>8, SafeKept
    <3> QED
      BY <2>2, <3>1 DEF Safe
  <2>10. again \in Docs /\ Stamped(again.local, ops', puts + 1)
    BY <1>3, <2>2, <2>6, <2>7, StampedOn DEF Good
  <2>11. DocSafe' /\ doc'.local = again.local
    BY <2>1, <2>5, <2>9, <2>10, WriteIs
  <2>12. LateOK'
    BY <1>3, <2>1, <2>2, <2>10, LateNext
  <2>13. MergedAs(doc.local.content)'
    BY <1>2, <1>3, <2>2, <2>11 DEF MergedAs, LInv
  <2>14. MergingOK' /\ AppliedOK'
    <3>1. sync.pc = "idle"
      BY <1>1, DocIs DEF HInv, HoldsOK, Types, SyncTypes
    <3> QED
      BY <1>1, <3>1 DEF MergingOK, AppliedOK, LocalIsMerged
  <2> QED
    BY <1>3, <1>4, <2>8, <2>11, <2>12, <2>13, <2>14, RecordLInv
<1> QED
  BY <1>5, <1>6

(* What the merge of a local change makes of the record of Pouch: it tells  *)
(* of the file that was found, or of none.                                  *)
LEMMA LocalOutcomeIs ==
  ASSUME IInv, HInv, LInv, NeverTrashed, owner = "local"
  PROVE  LET outcome == LocalOutcome
             file == merge.file
             record == outcome.doc
         IN /\ outcome.op \in {"none", "put", "erase"}
            /\ outcome.op # "none" => ~Refuses(outcome)
            /\ outcome.op = "put" => record \in Docs /\ Updates(doc, record)
            /\ outcome.op = "put" /\ ~record.trashed =>
                 /\ Agrees(record, Gone) /\ record.remote = doc.remote
                 /\ \/ record.local = file
                    \/ record.local = NoFile /\ outcome.rename = "local"
                    \/ record.local \in {doc.local, NoFile} /\ file = NoFile
            /\ outcome.op = "none" => \/ outcome.rename = "local" \/ file = NoFile
                                      \/ doc.local.date = file.date
            /\ outcome.op = "erase" => file = NoFile /\ outcome.rename = "none"
<1> DEFINE file == merge.file
           outcome == LocalOutcome
           record == outcome.doc
<1>1. /\ merge.was = doc /\ file \in Files /\ Good(doc, DOMAIN cozy) /\ Told(doc)
      /\ Agrees(doc, Gone) /\ None \in Gone /\ Sound(outcome, DOMAIN cozy)
      /\ Precedes(doc.local, file, Gone)
  BY DocIs, NoneIsGone, LocalOutcomeSound
     DEF LInv, MergingOK, DocSafe, Types, MergeTypes
<1>2. doc.local.content \in Gone \/ doc.local.content = file.content
  BY <1>1 DEF Precedes
<1>3. /\ outcome.op \in {"none", "put", "erase"} /\ record \in Docs
      /\ outcome.op = "put" => Valid(record)
  BY <1>1 DEF Sound, Good
<1>4. CASE file # NoFile
  <2>1. outcome = LocalUpdate(file, doc)
    BY <1>1, <1>4 DEF LocalOutcome
  <2> HIDE DEF file, outcome
  <2>2. outcome.op = "put" => Updates(doc, record)
    BY <1>1, <1>4, <2>1, LocalUpdateUpdates
  <2>3. ~Refuses(outcome)
    <3>1. outcome.op \in {"none", "put"}
      BY <1>1, <1>2, <1>4, <2>1, LocalUpdateAgrees
    <3> QED
      BY <1>3, <2>2, <3>1 DEF Refuses, Accepts, Updates
  <2>4. /\ outcome.op \in {"none", "put"}
        /\ outcome.op = "put" =>
             /\ Agrees(record, Gone) /\ record.remote = doc.remote
             /\ \/ record.local = file
                \/ record.local = NoFile /\ outcome.rename = "local"
        /\ outcome.op = "none" =>
             outcome.rename = "local" \/ doc.local.date = file.date
    BY <1>1, <1>2, <1>4, <2>1, LocalUpdateAgrees
  <2>5. outcome.op # "erase"
    BY <2>4
  <2> QED
    BY <1>3, <2>2, <2>3, <2>4, <2>5 DEF file, outcome
<1>5. CASE file = NoFile
  <2>1. \/ outcome = Ignore
        \/ outcome = Trash("local", doc) /\ doc.local # NoFile
    BY <1>1, <1>5 DEF LocalOutcome
  <2>2. ContentOf("local", doc) \in Gone
    BY <1>1, <1>2, <1>5 DEF ContentOf, NoFile
  <2> HIDE DEF file, outcome
  <2>3. CASE outcome = Ignore
    <3>1. outcome.op = "none" /\ outcome.rename = "none"
      BY <2>3 DEF Ignore
    <3> QED
      BY <1>5, <3>1 DEF file, outcome
  <2>4. CASE outcome = Trash("local", doc) /\ doc.local # NoFile
    <3>1. doc # NoDoc /\ "local" \in Side
      BY <2>4 DEF NoDoc, Side
    <3>2. outcome.op = "put" => Updates(doc, record)
      BY <1>1, <2>4, <3>1, TrashUpdates
    <3>3. /\ outcome.op \in {"put", "erase"} /\ outcome.rename = "none"
          /\ outcome.op = "put" /\ ~record.trashed =>
               /\ Agrees(record, Gone) /\ record.remote = doc.remote
               /\ record.local \in {doc.local, NoFile}
      BY <1>1, <2>2, <2>4, <3>1, TrashAgrees
    <3>4. outcome.op = "erase" => record = doc
      BY <2>4 DEF Trash, Save, Erase
    <3>5. ~Refuses(outcome)
      BY <1>3, <3>2, <3>3, <3>4 DEF Refuses, Accepts, Updates
    <3>6. outcome.op # "none"
      BY <3>3
    <3> QED
      BY <1>3, <1>5, <3>2, <3>3, <3>5, <3>6 DEF file, outcome
  <2> QED
    BY <2>1, <2>3, <2>4
<1> QED
  BY <1>4, <1>5

(* The revision that is written is the last one. *)
LEMMA WrittenMark ==
  ASSUME IInv, HInv, NEW record \in Docs, Write(record), NeverTrashed'
  PROVE  ~record.trashed
<1> DEFINE saved == [record EXCEPT !.rev = puts + 1]
<1>1. /\ saved.trashed = record.trashed
      /\ history' = IF record.rev = 0 THEN <<saved>> ELSE Append(history, saved)
  BY DEF Write, Docs
<1> HIDE DEF saved
<1>2. \E i \in DOMAIN history' : history'[i] = saved
  <2>1. history \in Seq(Docs)
    BY DocIs
  <2>2. Len(history) + 1 \in DOMAIN Append(history, saved)
        /\ Append(history, saved)[Len(history) + 1] = saved
    BY <2>1
  <2>3. 1 \in DOMAIN <<saved>> /\ <<saved>>[1] = saved
    OBVIOUS
  <2> QED
    BY <1>1, <2>2, <2>3
<1> QED
  BY <1>1, <1>2 DEF NeverTrashed

(* The merge of a local change: what it renames is kept under another name, *)
(* and once it is the last one the record tells what is on the disk.        *)
LEMMA MergeLocalLInv ==
  ASSUME IInv, HInv, LInv, NeverTrashed, NeverTrashed', MergeLocal PROVE LInv'
<1> DEFINE outcome == LocalOutcome
           file == merge.file
           record == outcome.doc
           renames == outcome.rename = "local"
           moves == renames /\ disk # NoFile
<1>1. /\ owner = "local" /\ owner' = "none" /\ merge' = NoMerge
      /\ UNCHANGED <<found, cozy, pull, sync, bin, users>>
      /\ Announced' = Announced /\ sync.pc = "idle"
  BY DEF MergeLocal, remote, bounds, Announced, IInv, SyncOK
<1>2. /\ outcome.op \in {"none", "put", "erase"}
      /\ outcome.op = "put" => record \in Docs /\ Updates(doc, record)
      /\ outcome.op = "put" /\ ~record.trashed =>
           /\ Agrees(record, Gone) /\ record.remote = doc.remote
           /\ \/ record.local = file
              \/ record.local = NoFile /\ renames
              \/ record.local \in {doc.local, NoFile} /\ file = NoFile
      /\ outcome.op = "none" => \/ renames \/ file = NoFile
                                \/ doc.local.date = file.date
      /\ outcome.op = "erase" => file = NoFile /\ outcome.rename = "none"
  BY <1>1, LocalOutcomeIs
<1>3. /\ IF moves THEN /\ disk' = NoFile /\ dirty' = TRUE
                       /\ copies' = copies \cup {disk.content}
         ELSE UNCHANGED <<disk, dirty, copies>>
      /\ \/ renames /\ ~moves /\ UNCHANGED pouch
         \/ outcome.op = "none" /\ UNCHANGED pouch
         \/ outcome.op = "put" /\ ~(renames /\ ~moves) /\ Write(record)
         \/ outcome.op = "erase" /\ EraseDoc
  <2>1. outcome.op # "none" => ~Refuses(outcome)
    BY <1>1, LocalOutcomeIs
  <2>2. Refuses(outcome) => outcome.op # "none"
    BY DEF Refuses
  <2> HIDE DEF outcome
  <2>3. Commits(outcome) => \/ outcome.op = "none" /\ UNCHANGED pouch
                            \/ outcome.op = "put" /\ Write(record)
                            \/ outcome.op = "erase" /\ EraseDoc
    BY <1>2 DEF Commits
  <2> QED
    BY <1>2, <2>1, <2>2, <2>3 DEF MergeLocal, outcome
<1> HIDE DEF outcome
<1>4. /\ Gone \subseteq Gone' /\ ops' = ops /\ ops \in Nat /\ ops <= ops'
      /\ None \in Gone /\ None \in Gone' /\ wanted' = wanted /\ puts \in Nat
  <2>1. copies \subseteq copies' /\ bin \subseteq bin'
    BY <1>1, <1>3
  <2> QED
    BY <1>1, <2>1, ContentsKept, NoneIsGone, DocIs DEF users
<1>5. puts' \in Nat /\ puts <= puts'
  BY <1>3, <1>4 DEF Write, EraseDoc, pouch
<1>6. disk.content \in Gone' \/ disk' = disk
  BY <1>3 DEF Gone
<1>7. ContentsOK'
  <2>1. wanted' \subseteq 1..ops' /\ wanted' \subseteq wanted \cup At(disk', cozy')
    BY <1>4 DEF LInv, ContentsOK
  <2>2. disk'.content <= ops'
    BY <1>3, <1>4 DEF LInv, ContentsOK, NoFile, None
  <2>3. \A id \in DOMAIN cozy' : cozy'[id].content <= ops'
    BY <1>1, <1>4 DEF LInv, ContentsOK
  <2>4. At(disk, cozy) \subseteq Gone' \cup At(disk', cozy')
    BY <1>1, <1>6 DEF At
  <2> QED
    BY <1>4, <2>1, <2>2, <2>3, <2>4, ContentsNext
<1>8. RemoteSteady
  BY <1>1, <1>4, CozySteady
<1>9. QueueOK' /\ (\A other : Leads(other, Coming, Gone) => Leads(other, Coming', Gone'))
  <2>1. CASE moves
    <3>1. disk' = NoFile /\ disk'.content \in Gone' /\ dirty' = TRUE
      BY <1>3, <1>4, <2>1 DEF NoFile
    <3>2. Stamped(disk', ops', puts' + 1)
      BY <1>4, <1>5, <3>1, NoFileStamped
    <3>3. disk.content \in Gone'
      BY <1>3, <2>1 DEF Gone
    <3> HIDE DEF moves
    <3> QED
      BY <1>1, <1>4, <1>5, <3>1, <3>2, <3>3, LocalReplaced
  <2>2. CASE ~moves
    <3>1. UNCHANGED local
      BY <1>1, <1>3, <2>2 DEF local
    <3> QED
      BY <1>4, <1>5, <3>1, LocalKept
  <2> QED
    BY <2>1, <2>2
<1>10. MergingOK' /\ AppliedOK'
  BY <1>1 DEF MergingOK, AppliedOK
<1>11. LocalIsMerged' => ~moves /\ disk' = disk /\ file = disk
  <2>1. LocalIsMerged' => ~dirty' /\ found' = <<>>
    BY DEF LocalIsMerged
  <2> QED
    BY <1>1, <1>3, <2>1 DEF LInv, MergingOK
<1>12. /\ Precedes(doc.local, file, Gone) /\ Leads(file, Coming, Gone)
       /\ Stamped(file, ops, puts + 1)
       /\ Safe(doc, Coming, cozy, Announced, Gone) /\ Stamped(doc.local, ops, puts)
       /\ doc.remote = NoRemote \/ Fetched(doc.remote, cozy)
  BY <1>1 DEF LInv, MergingOK, DocSafe, HInv, CozyOK
<1>13. CASE UNCHANGED pouch /\ (outcome.op = "none" \/ (renames /\ ~moves))
  <2>1. UNCHANGED <<doc, history, puts>>
    BY <1>13 DEF pouch
  <2>2. DocSafe'
    BY <1>4, <1>5, <1>8, <1>9, <1>12, <2>1, DocSafeKept DEF Safe
  <2>3. LateOK'
    BY <1>4, <2>1 DEF LInv, LateOK
  <2>4. MergedAs(doc.local.content)'
    <3> SUFFICES ASSUME LocalIsMerged'
                 PROVE  disk'.content \in Gone' \/ disk'.content = doc'.local.content
      BY DEF MergedAs
    <3>1. \/ disk = NoFile
          \/ doc.local.date = file.date
      BY <1>2, <1>11, <1>13
    <3>2. CASE disk = NoFile
      BY <1>4, <1>11, <3>2 DEF NoFile
    <3>3. CASE doc.local.date = file.date
      BY <1>4, <1>11, <1>12, <2>1, <3>3 DEF Precedes
    <3> QED
      BY <3>1, <3>2, <3>3
  <2> QED
    BY <1>4, <1>7, <1>8, <1>9, <1>10, <2>2, <2>3, <2>4, RecordLInv
<1>14. CASE outcome.op = "put" /\ ~(renames /\ ~moves) /\ Write(record)
  <2>1. /\ record \in Docs /\ Updates(doc, record) /\ ~record.trashed
    BY <1>2, <1>14, WrittenMark
  <2>2. /\ Agrees(record, Gone) /\ record.remote = doc.remote
        /\ \/ record.local = file
           \/ record.local = NoFile /\ moves
           \/ record.local \in {doc.local, NoFile} /\ file = NoFile
    BY <1>2, <1>14, <2>1
  <2>3. Leads(NoFile, Coming', Gone') /\ Stamped(NoFile, ops', puts + 1)
    <3>1. \A other \in Coming' : other.date = NoFile.date => other.content = None
      BY <1>9 DEF QueueOK, Stamped
    <3> QED
      BY <1>4, <3>1, NoFileLeads, NoFileStamped
  <2>4. Leads(record.local, Coming', Gone') /\ Stamped(record.local, ops', puts + 1)
    <3>1. Leads(doc.local, Coming', Gone') /\ Leads(file, Coming', Gone')
      BY <1>9, <1>12 DEF Safe
    <3>2. Stamped(doc.local, ops', puts + 1) /\ Stamped(file, ops', puts + 1)
      BY <1>4, <1>5, <1>12, StampedOn
    <3> QED
      BY <2>2, <2>3, <3>1, <3>2
  <2>5. Safe(record, Coming', cozy', Announced', Gone')
    BY <1>4, <1>8, <1>12, <2>2, <2>4, RemoteKept DEF Safe
  <2>6. Agrees(record, Gone')
    BY <1>4, <2>2, AgreesMore
  <2>7. DocSafe' /\ doc'.local = record.local
    BY <1>14, <2>1, <2>4, <2>5, <2>6, WriteIs
  <2>8. doc.local.content \in Gone' \/ doc.local.content = record.local.content
    <3>1. doc.local.content \in Gone' \/ doc.local.content = file.content
      BY <1>4, <1>12 DEF Precedes
    <3>2. moves => file.content \in Gone'
      <4>1. Precedes(file, disk, Gone)
        BY <1>12 DEF Leads, Coming
      <4>2. moves => disk.content \in Gone'
        BY <1>3 DEF Gone
      <4> QED
        BY <1>4, <4>1, <4>2 DEF Precedes
    <3>3. file = NoFile => file.content \in Gone'
      BY <1>4 DEF NoFile
    <3> QED
      BY <2>2, <3>1, <3>2, <3>3
  <2>9. LateOK'
    BY <1>4, <1>14, <2>1, <2>8, LateNext
  <2>10. MergedAs(doc.local.content)'
    <3> SUFFICES ASSUME LocalIsMerged'
                 PROVE  disk'.content \in Gone' \/ disk'.content = record.local.content
      BY <2>7 DEF MergedAs
    <3> QED
      BY <1>4, <1>11, <2>2 DEF NoFile
  <2> QED
    BY <1>4, <1>7, <1>8, <1>9, <1>10, <2>7, <2>9, <2>10, RecordLInv
<1>15. CASE outcome.op = "erase" /\ EraseDoc
  <2>1. DocSafe' /\ LateOK'
    BY <1>4, <1>5, <1>8, <1>9, <1>15, EraseIs DEF RemoteSteady
  <2>2. MergedAs(doc.local.content)'
    <3> SUFFICES ASSUME LocalIsMerged' PROVE disk'.content \in Gone'
      BY DEF MergedAs
    <3> QED
      BY <1>2, <1>4, <1>11, <1>15 DEF NoFile
  <2> QED
    BY <1>4, <1>7, <1>8, <1>9, <1>10, <2>1, <2>2, RecordLInv
<1> QED
  BY <1>3, <1>13, <1>14, <1>15

(* What the merge of a remote change makes of the record of Pouch. A remote *)
(* file that is not the one of the record came after it: the one of the     *)
(* record is not at the path any more.                                      *)
LEMMA RemoteOutcomeIs ==
  ASSUME IInv, HInv, LInv, NeverTrashed, MergeRemote, merge.was = doc
  PROVE  LET outcome == RemoteOutcome
             event == merge.event
             record == outcome.doc
         IN /\ outcome.op = "put" /\ ~record.trashed =>
                 /\ Agrees(record, Gone)
                 /\ \/ record.local = doc.local
                    \/ record.local = NoFile /\ doc.local.content \in Gone
                 /\ \/ record.remote \in {doc.remote, NoRemote}
                    \/ /\ record.remote = RemoteInfo(event.id, event)
                       /\ outcome.rename = "none" /\ event.where # "trash"
            /\ outcome.op = "erase" => doc.local.content \in Gone
<1> DEFINE event == merge.event
           info == RemoteInfo(event.id, event)
           outcome == RemoteOutcome
           record == outcome.doc
           known == doc.remote.id = event.id
<1>1. /\ event \in Events /\ event \in Announced /\ event.id \in DOMAIN cozy
      /\ event.where # "trash" => doc.remote.id <= event.id
      /\ info \in RemoteInfos /\ info.content = event.content
      /\ Types /\ Good(doc, DOMAIN cozy) /\ Told(doc) /\ Agrees(doc, Gone)
      /\ None \in Gone /\ Keeps(doc.remote, cozy, Announced, Gone)
      /\ event.id # 0
  BY RemoteOutcomeUpdates, DocIs, NoneIsGone
     DEF Announced, RemoteInfo, LInv, DocSafe, Safe
<1>2. \/ outcome = Ignore
      \/ event.where # "trash" /\ outcome = RemoteUpdate(info, doc)
      \/ event.where = "trash" /\ known /\ outcome = Trash("remote", doc)
  BY DEF RemoteOutcome
<1>3. known => \/ doc.remote.content \in Gone
               \/ event.content = doc.remote.content /\ event.where = "live"
  BY <1>1 DEF Keeps
<1>4. event.where # "trash" /\ ~known => doc.remote.content \in Gone
  <2> SUFFICES ASSUME event.where # "trash", ~known, doc.remote.content \notin Gone
               PROVE  FALSE
    OBVIOUS
  <2>1. doc.remote.id \in DOMAIN cozy /\ cozy[doc.remote.id].where = "live"
    BY <1>1 DEF Keeps
  <2>2. doc.remote.id = Len(cozy)
    BY <2>1 DEF HInv, CozyOK, Numbered
  <2>3. cozy \in Seq(File) /\ event.id \in 1..Len(cozy)
    BY <1>1 DEF Types, RemoteTypes
  <2> HIDE DEF event
  <2> QED
    BY <1>1, <2>2, <2>3
<1>5. CASE outcome = Ignore
  BY <1>5 DEF Ignore
<1>6. CASE event.where # "trash" /\ outcome = RemoteUpdate(info, doc)
  <2>1. doc.remote.content \in Gone \/ doc.remote.content = info.content
    BY <1>1, <1>3, <1>4, <1>6
  <2> HIDE DEF info, outcome
  <2>2. /\ outcome.op \in {"none", "put"}
        /\ outcome.op = "put" =>
             /\ Agrees(record, Gone)
             /\ \/ record.local = doc.local
                \/ record.local = NoFile /\ doc.local.content \in Gone
             /\ \/ record.remote = NoRemote
                \/ record.remote = info /\ outcome.rename = "none"
    BY <1>1, <1>6, <2>1, RemoteUpdateAgrees
  <2>3. outcome.op # "erase"
    BY <2>2
  <2> QED
    BY <1>6, <2>2, <2>3 DEF info, outcome
<1>7. CASE event.where = "trash" /\ known /\ outcome = Trash("remote", doc)
  <2>1. ContentOf("remote", doc) \in Gone
    BY <1>3, <1>7 DEF ContentOf
  <2>2. doc # NoDoc
    BY <1>1, <1>7 DEF NoDoc, NoRemote
  <2> HIDE DEF outcome
  <2>3. /\ outcome.op = "put" /\ ~record.trashed =>
             /\ Agrees(record, Gone) /\ record.local = doc.local
             /\ record.remote \in {doc.remote, NoRemote}
        /\ outcome.op = "erase" => doc.deleted
    BY <1>1, <1>7, <2>1, <2>2, TrashAgrees DEF Side
  <2> QED
    BY <1>1, <2>3 DEF outcome, Agrees
<1> QED
  BY <1>2, <1>5, <1>6, <1>7

(* The merge of a remote change: what it renames is kept under another      *)
(* name, and nothing that the disk has is forgotten.                        *)
LEMMA MergeRemoteLInv ==
  ASSUME IInv, HInv, LInv, NeverTrashed, NeverTrashed', MergeRemote PROVE LInv'
<1> DEFINE outcome == RemoteOutcome
           was == merge.was
           event == merge.event
           info == RemoteInfo(event.id, event)
           record == outcome.doc
           moves == outcome.rename = "remote" /\ cozy[event.id].rev = event.rev
<1>1. /\ Types /\ event \in Events /\ event \in pull.todo
      /\ event.id \in DOMAIN cozy /\ Fetched(event, cozy) /\ owner = "remote"
      /\ Sound(outcome, DOMAIN cozy) /\ Fetched(info, cozy)
      /\ info.id = event.id /\ info.content = event.content /\ info.rev = event.rev
      /\ outcome.op = "put" => Updates(was, record)
  BY RemoteOutcomeUpdates DEF RemoteInfo
<1>2. /\ owner' = owner /\ UNCHANGED <<local, sync, bin, users>>
      /\ Announced' \subseteq Announced
      /\ \/ UNCHANGED pouch
         \/ Commits(outcome)
      /\ IF moves
         THEN /\ Revise(event.id, event.content, "moved")
              /\ copies' = copies \cup {event.content}
         ELSE UNCHANGED <<cozy, copies>>
  <2>1. pull'.todo = pull.todo \ {event}
        /\ pull'.failed \subseteq pull.failed \cup {event}
    BY DEF MergeRemote
  <2>2. Announced' \subseteq Announced
    BY <1>1, <2>1 DEF Announced
  <2> QED
    BY <2>2 DEF MergeRemote, remote, bounds
<1> HIDE DEF outcome
<1>3. UNCHANGED <<disk, dirty, found>> /\ (LocalIsMerged' <=> LocalIsMerged)
  BY <1>2 DEF local, LocalIsMerged
<1>4. /\ Gone \subseteq Gone' /\ ops' = ops /\ ops \in Nat /\ ops <= ops'
      /\ None \in Gone /\ None \in Gone' /\ wanted' = wanted /\ puts \in Nat
      /\ UNCHANGED cozy => ContentsOK'
  <2>1. copies \subseteq copies' /\ bin \subseteq bin'
    BY <1>2
  <2> QED
    BY <1>2, <1>3, <2>1, ContentsKept, NoneIsGone, DocIs DEF users
<1>5. moves => event.content = cozy[event.id].content /\ event.content \in Gone'
  BY <1>1, <1>2 DEF Fetched, Gone
<1>6. RemoteSteady
  <2>1. CASE moves
    <3>1. event.content \in Nat
      BY <1>1 DEF Events
    <3> HIDE DEF event
    <3> QED
      BY <1>1, <1>2, <1>4, <1>5, <2>1, <3>1, ReviseSteady DEF Places
  <2>2. CASE ~moves
    BY <1>2, <1>4, <2>2, CozySteady
  <2> QED
    BY <2>1, <2>2
<1>7. ContentsOK'
  <2>1. CASE moves
    <3>1. /\ DOMAIN cozy' = DOMAIN cozy
          /\ \A id \in DOMAIN cozy : cozy'[id].content = cozy[id].content
      BY <1>2, <1>5, <2>1 DEF Revise
    <3>2. At(disk', cozy') = At(disk, cozy)
      BY <1>3, <3>1 DEF At
    <3>3. /\ wanted \subseteq 1..ops /\ disk.content <= ops
          /\ \A id \in DOMAIN cozy : cozy[id].content <= ops
      BY DEF LInv, ContentsOK
    <3> QED
      BY <1>3, <1>4, <3>1, <3>2, <3>3, ContentsNext
  <2>2. CASE ~moves
    BY <1>2, <1>4, <2>2
  <2> QED
    BY <2>1, <2>2
<1>8. CASE UNCHANGED pouch
  BY <1>1, <1>2, <1>4, <1>6, <1>7, <1>8, SteadyLInv DEF pouch
<1>9. puts' \in Nat /\ puts <= puts'
  <2>1. puts' \in {puts, puts + 1}
    BY <1>1, <1>2 DEF Commits, Sound, Write, EraseDoc, pouch
  <2> QED
    BY <1>4, <2>1
<1>10. /\ QueueOK' /\ MergingOK' /\ AppliedOK'
       /\ \A file : Leads(file, Coming, Gone) => Leads(file, Coming', Gone')
  <2>1. sync.pc = "idle"
    BY <1>1 DEF IInv, SyncOK
  <2> QED
    BY <1>1, <1>2, <1>4, <1>9, <2>1, LocalKept DEF MergingOK, AppliedOK
<1>11. CASE outcome.op = "put" /\ Commits(outcome)
  <2>1. /\ record \in Docs /\ Write(record) /\ record.rev = doc.rev
        /\ Updates(was, record)
    BY <1>1, <1>11 DEF Commits, Accepts, Sound, Good
  <2>2. was = doc /\ ~record.trashed
    BY <2>1, WrittenMark DEF Updates, HInv, RevsOK, Dated
  <2>3. /\ Agrees(record, Gone)
        /\ \/ record.local = doc.local
           \/ record.local = NoFile /\ doc.local.content \in Gone
        /\ \/ record.remote \in {doc.remote, NoRemote}
           \/ record.remote = info /\ event.where # "trash"
    BY <1>11, <2>2, RemoteOutcomeIs DEF outcome
  <2>4. /\ Safe(doc, Coming, cozy, Announced, Gone) /\ Stamped(doc.local, ops, puts)
        /\ doc.remote = NoRemote \/ Fetched(doc.remote, cozy)
    BY DEF LInv, DocSafe, HInv, CozyOK
  <2>5. Leads(NoFile, Coming', Gone') /\ Stamped(NoFile, ops', puts + 1)
    <3>1. \A other \in Coming' : other.date = NoFile.date => other.content = None
      BY <1>10 DEF QueueOK, Stamped
    <3> QED
      BY <1>4, <3>1, NoFileLeads, NoFileStamped
  <2>6. Leads(record.local, Coming', Gone') /\ Stamped(record.local, ops', puts + 1)
    BY <1>4, <1>9, <1>10, <2>3, <2>4, <2>5, StampedOn DEF Safe
  <2>7. Keeps(record.remote, cozy', Announced', Gone') /\ Current(record.remote, cozy')
    <3>1. CASE record.remote = doc.remote
      BY <1>4, <1>6, <2>4, <3>1, RemoteKept DEF Safe
    <3>2. CASE record.remote = NoRemote
      BY <1>4, <1>6, <3>2, NoRemoteKeeps DEF RemoteSteady
    <3>3. CASE record.remote = info /\ event.where # "trash"
      <4>1. Keeps(event, cozy, Announced, Gone) /\ Current(event, cozy)
        BY <1>1, <3>3 DEF LInv, AnnouncedOK, Announced
      <4>2. Keeps(info, cozy, Announced, Gone) /\ Current(info, cozy)
        BY <1>1, <4>1 DEF Keeps, Current
      <4> QED
        BY <1>1, <1>4, <1>6, <3>3, <4>2, RemoteKept
    <3> QED
      BY <2>3, <3>1, <3>2, <3>3
  <2>8. Agrees(record, Gone')
    BY <1>4, <2>3, AgreesMore
  <2>9. DocSafe' /\ doc'.local = record.local
    BY <2>1, <2>6, <2>7, <2>8, WriteIs DEF Safe
  <2>10. LateOK'
    BY <1>4, <2>1, <2>2, <2>3, LateNext
  <2>11. MergedAs(doc.local.content)'
    BY <1>3, <1>4, <2>3, <2>9 DEF MergedAs, LInv
  <2> QED
    BY <1>4, <1>6, <1>7, <1>10, <2>9, <2>10, <2>11, RecordLInv
<1>12. CASE outcome.op = "erase" /\ Commits(outcome)
  <2>1. EraseDoc /\ outcome.doc.rev = doc.rev
    BY <1>12 DEF Commits, Accepts
  <2>2. was = doc
    <3>1. outcome.doc = was
      BY <1>12 DEF outcome, RemoteOutcome, RemoteUpdate, Conflict, Trash, Ignore,
                   Save, Erase
    <3> QED
      BY <2>1, <3>1 DEF HInv, RevsOK, Dated
  <2>3. doc.local.content \in Gone
    BY <1>12, <2>2, RemoteOutcomeIs DEF outcome
  <2>4. DocSafe' /\ LateOK'
    BY <1>4, <1>6, <1>9, <1>10, <2>1, EraseIs DEF RemoteSteady
  <2>5. MergedAs(doc.local.content)'
    BY <1>3, <1>4, <2>3 DEF MergedAs, LInv
  <2> QED
    BY <1>4, <1>6, <1>7, <1>10, <2>4, <2>5, RecordLInv
<1>13. outcome.op = "none" /\ Commits(outcome) => UNCHANGED pouch
  BY DEF Commits
<1> QED
  BY <1>1, <1>2, <1>8, <1>11, <1>12, <1>13 DEF Sound

(* The invariant *)

(* Nothing to lose at first. *)
LEMMA InitLInv == Init => LInv
<1> SUFFICES ASSUME Init PROVE LInv
  OBVIOUS
<1>1. /\ disk = NoFile /\ found = <<>> /\ cozy = <<>> /\ doc = NoDoc
      /\ wanted = {} /\ ops = 0 /\ puts = 0 /\ owner = "none"
      /\ pull.todo = {} /\ pull.failed = {} /\ sync.pc = "idle"
      /\ ~dirty /\ history = <<>>
  BY DEF Init, NoPull, NoSync
<1>2. None \in Gone /\ NoFile.content = None /\ NoDoc.local = NoFile
  BY <1>1 DEF Gone, None, NoFile, NoDoc
<1>3. ContentsOK
  BY <1>1, <1>2 DEF ContentsOK, AllIsSomewhere, None
<1>4. Coming = {NoFile} /\ Announced = {}
  BY <1>1 DEF Coming, Announced
<1>5. Stamped(NoFile, ops, puts) /\ Stamped(NoFile, ops, puts + 1)
  BY <1>1, NoFileStamped
<1>6. QueueOK
  BY <1>1, <1>4, <1>5 DEF QueueOK
<1>7. MergingOK /\ TrashOK(cozy, Gone) /\ AnnouncedOK /\ AppliedOK
  BY <1>1, <1>4 DEF MergingOK, TrashOK, AnnouncedOK, AppliedOK
<1>8. DocSafe
  <2>1. Agrees(NoDoc, Gone)
    BY <1>2 DEF Agrees, NoDoc, NoSides
  <2>2. Leads(NoFile, Coming, Gone)
    BY <1>4 DEF Leads, Precedes
  <2>3. Keeps(NoRemote, cozy, Announced, Gone) /\ Current(NoRemote, cozy)
    BY <1>1, <1>2 DEF Keeps, Current, NoRemote
  <2>4. NoDoc.remote = NoRemote
    BY DEF NoDoc
  <2> QED
    BY <1>1, <1>2, <1>5, <2>1, <2>2, <2>3, <2>4 DEF DocSafe, Safe
<1>9. MergedAs(doc.local.content) /\ LateOK
  BY <1>1, <1>2 DEF MergedAs, LateOK, Late, NoDoc, NoSides
<1> QED
  BY <1>3, <1>6, <1>7, <1>8, <1>9 DEF LInv

(* Every step keeps the invariant, as long as no revision is marked as      *)
(* trashed and users let Sync go on with what was merged.                   *)
LEMMA NextLInv ==
  ASSUME Pace # "any", IInv, HInv, LInv, NeverTrashed, NeverTrashed', [Next]_vars
  PROVE  LInv'
<1>1. CASE UserChanges
  BY <1>1, LocalUserLInv, RemoteUserLInv DEF UserChanges
<1>2. CASE LocalWatcher
  BY <1>2, NoticeLInv, DispatchLocalLInv, MergeLocalLInv DEF LocalWatcher
<1>3. CASE RemoteWatcher
  BY <1>3, FetchLInv, WatchLInv, MergeRemoteLInv DEF RemoteWatcher
<1>4. CASE Apply
  BY <1>4, ApplyToNoneLInv, NothingLInv, DownloadLInv, UpdateLocalMetadataLInv,
     TrashLocalLInv, UploadNewLInv, UploadLInv, UpdateRemoteMetadataLInv,
     TrashRemoteLInv DEF Apply
<1>5. CASE PickChange \/ SaveSeq \/ SaveDoc
  BY <1>5, PickChangeLInv, SyncStopsLInv, SaveDocLInv
<1>6. CASE Failure
  BY <1>6, SyncStopsLInv, ResolveRemoteConflictLInv, RetryLInv, CrashLInv DEF Failure
<1>7. CASE UNCHANGED vars
  <2>1. /\ UNCHANGED <<local, cozy, doc, history, puts, owner, merge, pull, sync>>
        /\ UNCHANGED <<disk, copies, bin, users>> /\ Announced' = Announced
    BY <1>7 DEF vars, local, remote, pouch, merging, kept, bounds, Announced
  <2>2. Gone \subseteq Gone' /\ ops' = ops /\ ops \in Nat /\ ContentsOK'
    BY <2>1, ContentsKept
  <2>3. RemoteSteady
    BY <2>1, <2>2, CozySteady
  <2> QED
    BY <2>1, <2>2, <2>3, SteadyLInv
<1> QED
  BY <1>1, <1>2, <1>3, <1>4, <1>5, <1>6, <1>7 DEF Next, Sync

(* The theorem *)

(* No merge (merge.js), no conflict copy, no change that Sync applies       *)
(* (sync/index.js, local/index.js, remote/index.js), with its faults, its   *)
(* retries and its crashes, loses a content that a user saved, if local     *)
(* changes are merged before Sync goes on, and as long as no revision is    *)
(* marked as trashed.                                                       *)
THEOREM NothingLost == ASSUME Pace # "any" PROVE Spec => NothingIsLost
<1>1. Init => LInv
  BY InitLInv
<1>2. /\ IInv /\ HInv /\ LInv /\ NeverTrashed /\ NeverTrashed' /\ [Next]_vars
      => LInv'
  BY NextLInv
<1>3. LInv => AllIsSomewhere
  BY DEF LInv, ContentsOK
<1>4. Spec => [](IInv /\ HInv)
  BY AlwaysHInv
<1> QED
  BY <1>1, <1>2, <1>3, <1>4, PTL DEF Spec, NothingIsLost
=============================================================================
