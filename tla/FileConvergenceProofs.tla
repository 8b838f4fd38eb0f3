----------------------- MODULE FileConvergenceProofs ------------------------
(* Why both sides of a file end up the same when users change it only once  *)
(* their last change is synced: what the disk, the Cozy and the record of   *)
(* the file have in common at each step, whatever crashes, retries and      *)
(* losses of the network there are.                                         *)
EXTENDS FileSafetyProofs

(* The only file of the Cozy that may be at the path.                       *)
Last == Len(cozy)
LastIsLive == Last \in DOMAIN cozy /\ cozy[Last].where = "live"
Moved == {id \in DOMAIN cozy : cozy[id].where = "moved"}

LateSide == OutOfDateSide(doc.sides)

(* The revision that a side which exists is at, for getPreviousRev.         *)
OldAt(side) == history[Len(history) - (doc.sides.target - doc.sides[side])]

(* The record was told what the disk has now, and what the Cozy has.        *)
HereKnown(record) ==
  IF disk = NoFile THEN record.local = NoFile \/ record.deleted
  ELSE record.local.date = disk.date

ThereKnown(record) ==
  IF LastIsLive
  THEN record.remote.id = Last /\ record.remote.rev = cozy[Last].rev
  ELSE \/ record.remote = NoRemote
       \/ record.deleted /\ OutOfDateSide(record.sides) # "remote"

(* The invariant *)

(* Files hold something. An inode that users will make is not in use.       *)
FilesOK ==
  /\ disk # NoFile => disk.content # None /\ disk.ino # NoFile.ino
  /\ LastIsLive => cozy[Last].content # None
  /\ disk # NoFile /\ disk.date = doc.local.date => disk = doc.local
  /\ doc.local # NoFile => doc.ino = doc.local.ino
  /\ \A n \in Nat : <<"user", n>> \in {disk.ino, doc.ino, sync.change.ino} => n <= ops

(* The record has only what merges of one change at a time make of it. What *)
(* blocks Sync is still a change of it.                                     *)
CalmOK ==
  /\ NeverTrashed
  /\ doc.sides.local = 0 => doc.local = NoFile /\ doc.ino = NoFile.ino
  /\ doc.sides.remote = 0 => doc.remote = NoRemote
  /\ doc.deleted => HasBothSides(doc.sides) /\ LateSide # "none"
  /\ blocked # NoBlock /\ doc # NoDoc => pending

(* What waits to be merged is what is on the disk.                          *)
WaitingOK ==
  /\ found # <<>> => ~dirty /\ found = <<disk>>
  /\ owner = "local" => ~dirty /\ found = <<>> /\ merge.file = disk

(* Only the last file of the Cozy has changes to merge, and it does not     *)
(* change before they are merged.                                           *)
WatchOK ==
  /\ unseen \subseteq {Last} \cup Moved
  /\ owner = "remote" =>
       /\ recent = {}
       /\ Announced \subseteq {Event(id) : id \in {Last} \cap unseen}
       /\ merge # NoMerge => /\ merge.was.remote = doc.remote
                             /\ merge.was = doc \/ RemoteOutcome.rename = "none"
       /\ Event(Last) \in Announced \/ ThereKnown(doc) \/ Last \notin unseen

(* The Cozy has a newer revision of the file of the record.                 *)
Ahead == doc.remote.id \in DOMAIN cozy /\ doc.remote.rev < cozy[doc.remote.id].rev

(* A file is back on the disk, whose record still knows a file of the Cozy  *)
(* that was trashed: Sync has to fail to upload it over that one.           *)
Stuck == /\ ~LastIsLive /\ LateSide = "remote" /\ ~doc.deleted /\ pending
         /\ doc.remote # NoRemote /\ Last \notin unseen

(* What the record does not know is to be merged, or to be synced; there    *)
(* are no changes of both sides at a time.                                  *)
KnownOK ==
  /\ LocalIsMerged => HereKnown(doc)
  /\ Last \in unseen \/ ThereKnown(doc) \/ Stuck
  /\ HereKnown(doc) \/ ThereKnown(doc)
  /\ ~doc.deleted /\ doc.remote # NoRemote =>
       /\ doc.remote.id = Last /\ Last \notin Moved
       /\ cozy[Last].where = "trash" => Ahead
  /\ doc = NoDoc /\ disk # NoFile => Last \notin unseen \/ Last \in Moved

(* A change of the Cozy for the disk. Sync does it all on the disk, and the *)
(* comparison with the revision of the disk does not make it skip any of it.*)
LateLocalOK ==
  LateSide = "local" /\ ~doc.deleted =>
    /\ LastIsLive /\ ThereKnown(doc)
    /\ pending \/ ~HereKnown(doc)
    /\ ~HereKnown(doc) => disk.content = doc.md5sum
    /\ doc.sides.local # 0 =>
         /\ disk # NoFile
         /\ \/ disk.content = doc.md5sum /\ disk.ino = doc.ino
            \/ OldAt("local").md5sum # doc.md5sum

(* A change of the disk for the Cozy.                                       *)
LateRemoteOK ==
  LateSide = "remote" /\ ~doc.deleted =>
    /\ disk # NoFile /\ HereKnown(doc)
    /\ pending \/ ~ThereKnown(doc)
    /\ LastIsLive /\ ~ThereKnown(doc) => cozy[Last].content = doc.md5sum
    /\ ~LastIsLive => Last \notin unseen \/ Last \in Moved
    /\ doc.sides.remote # 0 =>
         OldAt("remote").md5sum # doc.md5sum \/ OldAt("remote").ino # doc.ino

(* A trashing on the Cozy. Its record stays after Sync is done with it, if  *)
(* it was stopped before it erased it, and a file may be back on the disk.  *)
DeletedThereOK ==
  LateSide = "local" /\ doc.deleted =>
    /\ Ahead /\ cozy[doc.remote.id].where = "trash"
    /\ ~LastIsLive => doc.remote.id = Last
    /\ IF pending THEN ~LastIsLive /\ (disk = NoFile \/ HereKnown(doc))
       ELSE disk # NoFile => /\ ~LastIsLive /\ Last \notin unseen
                             /\ ~HereKnown(doc) /\ disk.ino # doc.ino

(* A deletion on the disk.                                                  *)
DeletedHereOK ==
  LateSide = "remote" /\ doc.deleted =>
    /\ disk = NoFile
    /\ doc.remote.id = Last /\ Last \notin Moved
    /\ SameBinary(doc.local.content, doc.remote.content)
    /\ IF LastIsLive THEN ThereKnown(doc) /\ pending ELSE Ahead

(* What Sync is about to save was done: both sides have it, and the record  *)
(* does not know it yet of the side that Sync changed.                      *)
AppliesOK ==
  /\ sync.pc \in {"apply", "seq"} => pending
  /\ sync.pc \in {"seq", "save"} =>
       /\ ~sync.change.trashed /\ sync.side = LateSide /\ sync.side \in Side
       /\ sync.change.deleted = doc.deleted
       /\ IF doc.deleted THEN disk = NoFile /\ ~LastIsLive
          ELSE /\ disk # NoFile /\ LastIsLive
               /\ sync.change.local = disk /\ sync.change.ino = disk.ino
               /\ HereKnown(sync.change) /\ ThereKnown(sync.change)
               /\ disk.content = sync.change.md5sum
               /\ IF sync.side = "local" THEN ~HereKnown(doc) ELSE ~ThereKnown(doc)

CInv == /\ FilesOK /\ CalmOK /\ WaitingOK /\ WatchOK /\ KnownOK
        /\ LateLocalOK /\ LateRemoteOK /\ DeletedThereOK /\ DeletedHereOK
        /\ AppliesOK

(* The record and the sides *)

(* What the other invariants say of the Cozy. *)
LEMMA LastIs ==
  ASSUME IInv, HInv
  PROVE  /\ cozy \in Seq(File) /\ Last \in Nat /\ DOMAIN cozy = 1..Last
         /\ \A id \in DOMAIN cozy : /\ cozy[id] \in File /\ cozy[id].rev \in Nat \ {0}
                                    /\ cozy[id].content \in Nat
                                    /\ cozy[id].where = "live" => id = Last
         /\ Live = IF LastIsLive THEN {Last} ELSE {}
         /\ unseen \subseteq DOMAIN cozy
<1>1. cozy \in Seq(File) /\ Numbered(cozy) /\ unseen \subseteq DOMAIN cozy
  BY TypeParts DEF IInv, Types, RemoteTypes, HInv, CozyOK
<1>2. Last \in Nat /\ DOMAIN cozy = 1..Last
  BY <1>1 DEF Last
<1>3. \A id \in DOMAIN cozy : cozy[id] \in File
  BY <1>1
<1>4. \A id \in DOMAIN cozy : /\ cozy[id].rev \in Nat \ {0} /\ cozy[id].content \in Nat
                              /\ cozy[id].where = "live" => id = Last
  BY <1>1, <1>3 DEF Numbered, Last, File
<1>5. Live = IF LastIsLive THEN {Last} ELSE {}
  BY <1>4 DEF Live, LastIsLive
<1> QED
  BY <1>1, <1>2, <1>3, <1>4, <1>5 DEF LastIsLive

(* What the invariants say of the record of Pouch. *)
LEMMA RecordIs ==
  ASSUME IInv, HInv, LInv, CInv
  PROVE  /\ doc \in Docs /\ Told(doc) /\ ~doc.trashed /\ doc.sides \in Sides
         /\ doc.local \in Files /\ doc.remote \in RemoteInfos
         /\ Follows(doc.sides) /\ disk \in Files /\ NoDoc.sides = NoSides
         /\ doc = NoDoc => /\ LateSide = "none" /\ ~doc.deleted
                           /\ doc.local = NoFile /\ doc.remote = NoRemote
         /\ doc # NoDoc => doc.sides # NoSides
         /\ doc.sides.local # 0 <=> doc.local # NoFile
         /\ doc.sides.remote # 0 <=> doc.remote # NoRemote
         /\ doc.remote # NoRemote =>
              /\ doc.remote.id \in DOMAIN cozy /\ doc.remote.id # 0
              /\ doc.remote.rev \in 1..cozy[doc.remote.id].rev
              /\ doc.remote.rev = cozy[doc.remote.id].rev =>
                   doc.remote.content = cozy[doc.remote.id].content
         /\ doc = NoDoc /\ HereKnown(doc) => disk = NoFile
<1>1. /\ doc \in Docs /\ Told(doc) /\ ~doc.trashed /\ doc.sides \in Sides
      /\ doc.local \in Files /\ doc.remote \in RemoteInfos
      /\ Follows(doc.sides) /\ disk \in Files /\ Good(doc, DOMAIN cozy)
  BY DocIs DEF CInv, CalmOK, Docs, Types, LocalTypes
<1>2. doc = NoDoc => /\ LateSide = "none" /\ ~doc.deleted
                     /\ doc.local = NoFile /\ doc.remote = NoRemote
  BY DEF NoDoc, LateSide, OutOfDateSide, NoSides
<1>3. doc # NoDoc => doc.sides # NoSides
  BY <1>1 DEF Good
<1>4. /\ doc.sides.local # 0 <=> doc.local # NoFile
      /\ doc.sides.remote # 0 <=> doc.remote # NoRemote
  BY <1>1 DEF Good, Tells, CInv, CalmOK
<1>5. doc.remote # NoRemote =>
              /\ doc.remote.id \in DOMAIN cozy /\ doc.remote.id # 0
              /\ doc.remote.rev \in 1..cozy[doc.remote.id].rev
              /\ doc.remote.rev = cozy[doc.remote.id].rev =>
                   doc.remote.content = cozy[doc.remote.id].content
  BY LastIs DEF HInv, CozyOK, Fetched
<1>6. doc = NoDoc /\ HereKnown(doc) => disk = NoFile
  BY <1>1, <1>2 DEF CInv, FilesOK, HereKnown, NoFile, None
<1> QED
  BY <1>1, <1>2, <1>3, <1>4, <1>5, <1>6 DEF NoDoc

(* Which side is late, from the numbers of the sides. *)
LEMMA LateIs ==
  ASSUME IInv, HInv, LInv, CInv
  PROVE  LET sides == doc.sides IN
         /\ LateSide \in {"local", "remote", "none"}
         /\ LateSide = "local" <=> sides.local < sides.target
         /\ LateSide = "remote" <=> sides.remote < sides.target
         /\ LateSide = "local" => sides.remote = sides.target
         /\ LateSide = "remote" => sides.local = sides.target
         /\ LateSide = "none" => sides.local = sides.target /\ sides.remote = sides.target
         /\ doc # NoDoc => sides.target # 0
         /\ \A side \in Side : Late(side, doc) <=> LateSide = side /\ sides[side] # 0
<1>1. /\ doc.sides \in Sides /\ Follows(doc.sides)
      /\ doc # NoDoc => doc.sides # NoSides
  BY RecordIs
<1> QED
  BY <1>1 DEF LateSide, OutOfDateSide, Follows, Sides, NoSides, Late, Side

(* Steps that move changes along *)

(* The record, and what it stands for, are left alone. *)
LEMMA RecordStays ==
  ASSUME IInv, HInv, LInv, CInv, UNCHANGED <<disk, cozy, doc, history, pending, ops>>,
         unseen' \subseteq unseen,
         Last \in unseen \ unseen' => ThereKnown(doc),
         LocalIsMerged' => LocalIsMerged,
         sync'.change.ino \in {sync.change.ino, doc.ino, NoFile.ino},
         blocked' \in {blocked, NoBlock} \/ pending
  PROVE  /\ FilesOK' /\ CalmOK' /\ KnownOK' /\ LateLocalOK' /\ LateRemoteOK'
         /\ DeletedThereOK' /\ DeletedHereOK'
<1>1. /\ Last' = Last /\ LastIsLive' = LastIsLive /\ Moved' = Moved
      /\ LateSide' = LateSide /\ HereKnown(doc)' = HereKnown(doc)
      /\ ThereKnown(doc)' = ThereKnown(doc) /\ Ahead' = Ahead
      /\ OldAt("local")' = OldAt("local") /\ OldAt("remote")' = OldAt("remote")
  BY DEF Last, LastIsLive, Moved, LateSide, HereKnown, ThereKnown, Ahead, OldAt
<1>2. FilesOK'
  <2>1. \A n \in Nat : <<"user", n>> # NoFile.ino
    BY DEF NoFile
  <2> QED
    BY <1>1, <2>1 DEF CInv, FilesOK
<1>3. CalmOK'
  BY <1>1 DEF CInv, CalmOK, NeverTrashed
<1>4. KnownOK'
  BY <1>1 DEF CInv, KnownOK, Stuck
<1>5. LateLocalOK' /\ LateRemoteOK'
  BY <1>1 DEF CInv, LateLocalOK, LateRemoteOK
<1>6. DeletedThereOK' /\ DeletedHereOK'
  BY <1>1 DEF CInv, DeletedThereOK, DeletedHereOK
<1> QED
  BY <1>2, <1>3, <1>4, <1>5, <1>6

(* Sync is not about to save anything. *)
LEMMA NothingToSave ==
  ASSUME sync'.pc = "idle" PROVE AppliesOK'
BY DEF AppliesOK

(* Sync and the sides are left alone. *)
LEMMA AppliesStays ==
  ASSUME CInv, UNCHANGED <<disk, cozy, doc, pending, sync>> PROVE AppliesOK'
<1>1. /\ LastIsLive' = LastIsLive /\ LateSide' = LateSide
      /\ HereKnown(doc)' = HereKnown(doc) /\ ThereKnown(doc)' = ThereKnown(doc)
      /\ HereKnown(sync.change)' = HereKnown(sync.change)
      /\ ThereKnown(sync.change)' = ThereKnown(sync.change)
  BY DEF Last, LastIsLive, LateSide, HereKnown, ThereKnown
<1> QED
  BY <1>1 DEF CInv, AppliesOK

(* The remote watcher is left alone. *)
LEMMA WatchStays ==
  ASSUME CInv, UNCHANGED <<cozy, doc, unseen>>,
         owner' = "remote" => owner = "remote" /\ UNCHANGED <<recent, pull, merge>>
  PROVE  WatchOK'
<1>1. /\ Last' = Last /\ Moved' = Moved /\ ThereKnown(doc)' = ThereKnown(doc)
      /\ \A id : Event(id)' = Event(id)
  BY DEF Last, LastIsLive, Moved, ThereKnown, Event
<1>2. CASE owner' = "remote"
  <2>1. Announced' = Announced /\ RemoteOutcome' = RemoteOutcome
    BY <1>2 DEF Announced, RemoteOutcome
  <2> QED
    BY <1>1, <1>2, <2>1 DEF CInv, WatchOK
<1> QED
  BY <1>1, <1>2 DEF CInv, WatchOK

(* The local watcher finds the file, reads its record, or starts again. *)
LEMMA LocalWatchCInv ==
  ASSUME IInv, HInv, LInv, CInv, Notice \/ DispatchLocal \/ Crash PROVE CInv'
<1>1. /\ UNCHANGED <<disk, cozy, doc, history, pending, ops, unseen>>
      /\ ~LocalIsMerged' /\ (sync' = sync \/ sync' = NoSync)
      /\ blocked' \in {blocked, NoBlock}
  <2>1. CASE Notice
    BY <2>1, DocIs DEF Notice, remote, pouch, bounds, users, LocalIsMerged, Types,
                       LocalTypes
  <2>2. CASE DispatchLocal
    BY <2>2 DEF DispatchLocal, remote, pouch, bounds, users, LocalIsMerged
  <2>3. CASE Crash
    BY <2>3 DEF Crash, pouch, users, LocalIsMerged
  <2> QED
    BY <2>1, <2>2, <2>3
<1>2. NoSync.change.ino = NoFile.ino /\ NoSync.pc = "idle"
  BY DEF NoSync, NoDoc
<1>3. /\ FilesOK' /\ CalmOK' /\ KnownOK' /\ LateLocalOK' /\ LateRemoteOK'
      /\ DeletedThereOK' /\ DeletedHereOK'
  BY <1>1, <1>2, RecordStays
<1>4. AppliesOK'
  BY <1>1, <1>2, NothingToSave, AppliesStays
<1>5. WatchOK'
  <2>1. owner' = "remote" => owner = "remote" /\ UNCHANGED <<recent, pull, merge>>
    BY DEF Notice, DispatchLocal, Crash, remote, merging
  <2> QED
    BY <1>1, <2>1, WatchStays
<1>6. WaitingOK'
  <2>1. CASE Notice
    <3>1. found = <<>> /\ owner # "local"
      BY <2>1 DEF Notice, CInv, WaitingOK
    <3> QED
      BY <2>1, <3>1 DEF Notice, WaitingOK
  <2>2. CASE DispatchLocal
    <3>1. ~dirty /\ found = <<disk>>
      BY <2>2 DEF DispatchLocal, CInv, WaitingOK
    <3>2. found' = <<>> /\ merge'.file = disk
      BY <2>2, <3>1 DEF DispatchLocal, NoMerge
    <3> QED
      BY <1>1, <2>2, <3>1, <3>2 DEF DispatchLocal, WaitingOK
  <2>3. CASE Crash
    BY <2>3 DEF Crash, WaitingOK
  <2> QED
    BY <2>1, <2>2, <2>3
<1> QED
  BY <1>3, <1>4, <1>5, <1>6 DEF CInv

(* Nothing that was renamed to a conflict path is the file of the record.   *)
LEMMA MovedIsForgotten ==
  ASSUME IInv, HInv, LInv, CInv, Last \in Moved PROVE ThereKnown(doc)
<1>1. ~LastIsLive /\ cozy[Last].where = "moved"
  BY DEF Moved, LastIsLive
<1>2. doc.remote # NoRemote => doc.deleted /\ LateSide \in {"local", "remote"}
  BY LateIs DEF CInv, KnownOK, CalmOK
<1>3. ~(doc.deleted /\ LateSide = "local") /\ ~(doc.deleted /\ LateSide = "remote")
  BY <1>1 DEF CInv, DeletedThereOK, DeletedHereOK
<1> QED
  BY <1>1, <1>2, <1>3 DEF ThereKnown

(* The remote watcher fetches the changes, reads the record, and goes on    *)
(* with those that failed.                                                  *)
LEMMA RemoteWatchCInv ==
  ASSUME IInv, HInv, LInv, CInv, Fetch \/ ReadRemote \/ ApplyAllAgain PROVE CInv'
<1>1. /\ UNCHANGED <<disk, dirty, found, cozy, unseen, doc, history, pending, ops,
                     sync, blocked>>
      /\ owner # "local" /\ owner' = "remote"
  BY DEF Fetch, ReadRemote, ApplyAllAgain, local, remote, pouch, bounds, users
<1>2. LocalIsMerged' = LocalIsMerged
  BY <1>1 DEF LocalIsMerged
<1>3. /\ FilesOK' /\ CalmOK' /\ KnownOK' /\ LateLocalOK' /\ LateRemoteOK'
      /\ DeletedThereOK' /\ DeletedHereOK'
  BY <1>1, <1>2, RecordStays
<1>4. AppliesOK' /\ WaitingOK'
  BY <1>1, AppliesStays DEF CInv, WaitingOK
<1>5. /\ Last' = Last /\ Moved' = Moved /\ ThereKnown(doc)' = ThereKnown(doc)
      /\ \A id : Event(id)' = Event(id)
  BY <1>1 DEF Last, LastIsLive, Moved, ThereKnown, Event
<1>6. WatchOK'
  <2>1. CASE Fetch
    <3>1. /\ recent' = {} /\ merge' = merge
          /\ Announced' = {Event(id) : id \in {i \in unseen : cozy[i].where # "moved"}}
      BY <2>1 DEF Fetch, Announced, NoPull
    <3>2. merge = NoMerge
      BY <2>1 DEF Fetch, IInv, MergeOK
    <3>3. unseen \subseteq {Last} \cup Moved
      BY DEF CInv, WatchOK
    <3>4. Announced' \subseteq {Event(id) : id \in {Last} \cap unseen}
      BY <3>1, <3>3 DEF Moved
    <3>5. Last \in unseen => Event(Last) \in Announced' \/ ThereKnown(doc)
      <4>1. unseen \subseteq DOMAIN cozy
        BY LastIs
      <4>2. Last \in unseen /\ cozy[Last].where # "moved" => Event(Last) \in Announced'
        BY <3>1
      <4> QED
        BY <4>1, <4>2, MovedIsForgotten DEF Moved
    <3> QED
      BY <1>1, <1>5, <3>1, <3>2, <3>3, <3>4, <3>5 DEF WatchOK
  <2>2. CASE ReadRemote
    <3>1. /\ owner = "remote" /\ recent' = recent /\ Announced' = Announced
          /\ merge'.was = doc
      BY <2>2 DEF ReadRemote, remote, Announced, NoMerge
    <3> QED
      BY <1>1, <1>5, <3>1 DEF CInv, WatchOK
  <2>3. CASE ApplyAllAgain
    <3>1. /\ owner = "remote" /\ recent' = recent /\ merge' = NoMerge
          /\ Announced' = Announced
      BY <2>3 DEF ApplyAllAgain, remote, Announced, NoPull
    <3> QED
      BY <1>1, <1>5, <3>1 DEF CInv, WatchOK
  <2> QED
    BY <2>1, <2>2, <2>3
<1> QED
  BY <1>3, <1>4, <1>6 DEF CInv

(* The changes that were merged are seen. *)
LEMMA EndWatchCInv == ASSUME IInv, HInv, LInv, CInv, EndWatch PROVE CInv'
<1>1. /\ UNCHANGED <<disk, dirty, found, cozy, doc, history, pending, ops, merge,
                     sync, blocked>>
      /\ owner = "remote" /\ owner' = "none" /\ recent = {}
      /\ unseen' = IF pull.failed = {} THEN {} ELSE unseen
  BY DEF EndWatch, local, pouch, bounds, users, CInv, WatchOK
<1>2. LocalIsMerged' = LocalIsMerged
  BY <1>1 DEF LocalIsMerged
<1>3. Last \in unseen \ unseen' => ThereKnown(doc)
  <2>1. pull.failed = {} => Announced = {}
    BY DEF EndWatch, Announced
  <2> QED
    BY <1>1, <2>1 DEF CInv, WatchOK
<1>4. /\ FilesOK' /\ CalmOK' /\ KnownOK' /\ LateLocalOK' /\ LateRemoteOK'
      /\ DeletedThereOK' /\ DeletedHereOK'
  BY <1>1, <1>2, <1>3, RecordStays
<1>5. AppliesOK' /\ WaitingOK'
  BY <1>1, AppliesStays DEF CInv, WaitingOK
<1>6. WatchOK'
  <2>1. Last' = Last /\ Moved' = Moved
    BY <1>1 DEF Last, Moved
  <2> QED
    BY <1>1, <2>1 DEF CInv, WatchOK
<1> QED
  BY <1>4, <1>5, <1>6 DEF CInv

(* Sync takes the lock, or lets it go with nothing saved. *)
LEMMA SyncWaitsCInv ==
  ASSUME IInv, HInv, LInv, CInv,
         \/ PickChange
         \/ (Applies("local") \/ Applies("remote") \/ LosesAnswer) /\ BlockSync
  PROVE  CInv'
<1>1. /\ UNCHANGED <<disk, dirty, found, cozy, unseen, doc, history, pending, ops,
                     pull, merge>>
      /\ owner # "local" /\ owner' \in {"sync", "none"} /\ pending
  <2>1. CASE PickChange
    BY <2>1 DEF PickChange, local, remote, pouch, bounds, users, merging
  <2>2. CASE (Applies("local") \/ Applies("remote") \/ LosesAnswer) /\ BlockSync
    BY <2>2 DEF BlockSync, Applies, LosesAnswer, local, remote, pouch, users, merging,
                CInv, AppliesOK, IInv, SyncOK
  <2> QED
    BY <2>1, <2>2
<1>2. LocalIsMerged' = LocalIsMerged
  BY <1>1 DEF LocalIsMerged
<1>3. sync'.pc \in {"apply", "idle"} /\ sync'.change \in {doc, NoDoc}
  BY DEF PickChange, BlockSync, NoSync
<1>4. /\ FilesOK' /\ CalmOK' /\ KnownOK' /\ LateLocalOK' /\ LateRemoteOK'
      /\ DeletedThereOK' /\ DeletedHereOK'
  BY <1>1, <1>2, <1>3, RecordStays DEF NoDoc
<1>5. AppliesOK' /\ WaitingOK'
  BY <1>1, <1>3 DEF CInv, WaitingOK, AppliesOK
<1>6. WatchOK'
  BY <1>1, WatchStays
<1> QED
  BY <1>4, <1>5, <1>6 DEF CInv

(* Users *)

(* Once all is synced, the record knows what both sides have: it is the     *)
(* record of a file that both have, or of one that neither has.             *)
LEMMA QuietIs ==
  ASSUME IInv, HInv, LInv, CInv, Quiet
  PROVE  /\ HereKnown(doc) /\ ThereKnown(doc) /\ sync.pc = "idle"
         /\ \/ LateSide = "none" /\ ~doc.deleted
            \/ LateSide = "local" /\ doc.deleted /\ disk = NoFile /\ ~LastIsLive
<1>1. LocalIsMerged /\ unseen = {} /\ ~pending /\ sync.pc = "idle"
  BY TypeParts DEF Quiet, LocalIsMerged, IInv, SyncOK, Types, SyncTypes
<1>2. HereKnown(doc) /\ ThereKnown(doc)
  BY <1>1 DEF CInv, KnownOK, Stuck
<1>3. CASE ~doc.deleted
  BY <1>1, <1>2, <1>3, LateIs DEF CInv, LateLocalOK, LateRemoteOK
<1>4. CASE doc.deleted
  <2>1. LateSide \in {"local", "remote"} /\ HasBothSides(doc.sides)
    BY <1>4, LateIs DEF CInv, CalmOK
  <2>2. LateSide # "remote"
    <3> SUFFICES ASSUME LateSide = "remote" PROVE FALSE
      OBVIOUS
    <3>1. ~LastIsLive /\ doc.remote # NoRemote
      BY <1>1, <1>4, <2>1, RecordIs DEF CInv, DeletedHereOK, HasBothSides
    <3> QED
      BY <1>2, <3>1 DEF ThereKnown, LateSide
  <2>3. disk = NoFile
    BY <1>1, <1>2, <1>4, <2>1, <2>2 DEF CInv, DeletedThereOK
  <2>4. ~LastIsLive
    <3> SUFFICES ASSUME LastIsLive PROVE FALSE
      OBVIOUS
    <3>1. doc.remote.id = Last /\ doc.remote.rev = cozy[Last].rev
      BY <1>2 DEF ThereKnown
    <3>2. cozy[Last].where = "trash"
      BY <1>4, <2>1, <2>2, <3>1 DEF CInv, DeletedThereOK
    <3> QED
      BY <3>2 DEF LastIsLive
  <2> QED
    BY <1>1, <1>2, <1>4, <2>1, <2>2, <2>3, <2>4
<1> QED
  BY <1>1, <1>2, <1>3, <1>4

(* Whatever waits for what is quiet keeps waiting for it. *)
LEMMA QuietFlow ==
  ASSUME IInv, HInv, LInv, CInv, Quiet, found' = found, owner' = owner,
         sync' = sync, unseen' \subseteq {Last'}
  PROVE  WaitingOK' /\ WatchOK' /\ AppliesOK'
<1>1. found = <<>> /\ owner = "none" /\ sync.pc = "idle"
  BY QuietIs DEF Quiet
<1> QED
  BY <1>1 DEF WaitingOK, WatchOK, AppliesOK

(* A user changes the file of the disk. *)
LEMMA LocalUsersCInv ==
  ASSUME IInv, HInv, LInv, CInv, NEW file, Quiet, LocalUser(file),
         \/ file = NoFile /\ disk # NoFile
         \/ /\ file # NoFile /\ file.content # None /\ file.ino # NoFile.ino
            /\ file.date = <<"user", ops + 1>>
            /\ file.ino \in {disk.ino, <<"user", ops + 1>>}
  PROVE  CInv'
<1>1. /\ UNCHANGED <<found, cozy, unseen, doc, history, pending, owner, sync, blocked>>
      /\ disk' = file /\ dirty' = TRUE /\ ops' = ops + 1 /\ ops \in Nat
  BY TypeParts, FileSyncAssumption
     DEF LocalUser, remote, pouch, Operates, IInv, Types, CountTypes
<1>2. /\ unseen = {} /\ ~pending
      /\ HereKnown(doc) /\ ThereKnown(doc)
      /\ \/ LateSide = "none" /\ ~doc.deleted
         \/ LateSide = "local" /\ doc.deleted /\ disk = NoFile /\ ~LastIsLive
  BY QuietIs DEF Quiet
<1>3. /\ Last' = Last /\ LastIsLive' = LastIsLive /\ Moved' = Moved
      /\ LateSide' = LateSide /\ ThereKnown(doc)' = ThereKnown(doc) /\ Ahead' = Ahead
      /\ ~LocalIsMerged'
  BY <1>1 DEF Last, LastIsLive, Moved, LateSide, ThereKnown, Ahead, LocalIsMerged
<1>4. WaitingOK' /\ WatchOK' /\ AppliesOK'
  BY <1>1, <1>2, QuietFlow
<1>5. /\ doc.local.date # <<"user", ops + 1>>
      /\ doc.local.date = NoFile.date => doc.local.content = None
      /\ doc.ino # <<"user", ops + 1>>
  <2>1. Stamped(doc.local, ops, puts)
    BY DEF LInv, DocSafe
  <2> QED
    BY <1>1, <2>1 DEF Stamped, CInv, FilesOK
<1>6. FilesOK'
  <2>1. /\ file # NoFile => file.content # None /\ file.ino # NoFile.ino
        /\ file # NoFile => file.date # doc.local.date
    BY <1>1, <1>5 DEF NoFile
  <2>2. \A n \in Nat : <<"user", n>> \in {file.ino, doc.ino, sync.change.ino} => n <= ops + 1
    BY <1>1 DEF CInv, FilesOK, NoFile
  <2> QED
    BY <1>1, <1>3, <2>1, <2>2 DEF CInv, FilesOK
<1>7. CalmOK'
  BY <1>1, <1>3 DEF CInv, CalmOK, NeverTrashed
<1>8. KnownOK'
  BY <1>1, <1>2, <1>3 DEF CInv, KnownOK
<1>9. LateLocalOK' /\ LateRemoteOK' /\ DeletedHereOK'
  BY <1>1, <1>2, <1>3 DEF LateLocalOK, LateRemoteOK, DeletedHereOK
<1>10. DeletedThereOK'
  <2> SUFFICES ASSUME LateSide = "local", doc.deleted PROVE DeletedThereOK'
    BY <1>1, <1>3 DEF DeletedThereOK
  <2>1. file # NoFile => ~HereKnown(doc)' /\ file.ino # doc.ino
    BY <1>1, <1>2, <1>5 DEF HereKnown
  <2> QED
    BY <1>1, <1>2, <1>3, <2>1 DEF CInv, DeletedThereOK
<1> QED
  BY <1>4, <1>6, <1>7, <1>8, <1>9, <1>10 DEF CInv

(* A user changes the file of the Cozy. *)
LEMMA RemoteUsersCInv ==
  ASSUME IInv, HInv, LInv, CInv, NEW content, Quiet, RemoteUser(content),
         \/ ~LastIsLive /\ Create(content) /\ content \in Nat \ {0}
         \/ /\ LastIsLive
            /\ \/ Revise(Last, content, "live") /\ content \in Nat \ {0}
               \/ Revise(Last, cozy[Last].content, "trash")
  PROVE  CInv'
<1>1. /\ UNCHANGED <<disk, dirty, found, doc, history, pending, owner, sync, blocked>>
      /\ ops' = ops + 1 /\ ops \in Nat /\ unseen' = {Last'}
  <2>1. /\ UNCHANGED <<disk, dirty, found, doc, history, pending, owner, sync, blocked>>
        /\ ops' = ops + 1 /\ ops \in Nat /\ unseen = {}
    BY TypeParts, FileSyncAssumption
       DEF RemoteUser, Quiet, local, pouch, Operates, IInv, Types, CountTypes
  <2>2. Create(content) => unseen' = {Last'}
    BY <2>1, LastIs DEF Create, Last
  <2>3. \A where, c : LastIsLive /\ Revise(Last, c, where) => unseen' = {Last'}
    BY <2>1, LastIs DEF Revise, Last
  <2> QED
    BY <2>1, <2>2, <2>3
<1>2. /\ unseen = {} /\ ~pending
      /\ HereKnown(doc) /\ ThereKnown(doc)
      /\ \/ LateSide = "none" /\ ~doc.deleted
         \/ LateSide = "local" /\ doc.deleted /\ disk = NoFile /\ ~LastIsLive
  BY QuietIs DEF Quiet
<1>3. /\ LateSide' = LateSide /\ HereKnown(doc)' = HereKnown(doc)
      /\ LocalIsMerged' = LocalIsMerged
  BY <1>1 DEF LateSide, HereKnown, LocalIsMerged
<1>4. WaitingOK' /\ WatchOK' /\ AppliesOK'
  BY <1>1, <1>2, QuietFlow
<1>5. /\ Last' \in DOMAIN cozy' /\ Last' \notin Moved'
      /\ LastIsLive' => cozy'[Last'].content # None
      /\ doc.remote # NoRemote =>
           /\ doc.remote.id \in DOMAIN cozy'
           /\ \/ cozy'[doc.remote.id] = cozy[doc.remote.id] /\ doc.remote.id # Last'
              \/ doc.remote.rev < cozy'[doc.remote.id].rev
           /\ ~LastIsLive => cozy'[doc.remote.id] = cozy[doc.remote.id] /\ LastIsLive'
           /\ LastIsLive => Last' = Last
  <2>1. CASE ~LastIsLive
    <3> DEFINE new == [rev |-> 1, content |-> content, where |-> "live"]
    <3>1. /\ cozy' = Append(cozy, new) /\ content \in Nat \ {0}
          /\ cozy \in Seq(File) /\ Last \in Nat /\ DOMAIN cozy = 1..Last
      BY <2>1, LastIs DEF Create
    <3>2. new \in File /\ new.content = content /\ new.where = "live"
      BY <3>1 DEF File, Places
    <3> HIDE DEF new
    <3>3. /\ Last' = Last + 1 /\ DOMAIN cozy' = 1..(Last + 1)
          /\ cozy'[Last + 1] = new /\ \A id \in 1..Last : cozy'[id] = cozy[id]
      BY <3>1, <3>2 DEF Last
    <3>4. doc.remote # NoRemote => doc.remote.id \in 1..Last
      BY <3>1, RecordIs
    <3> QED
      BY <2>1, <3>1, <3>2, <3>3, <3>4 DEF Moved, LastIsLive, None
  <2>2. CASE LastIsLive
    <3>1. PICK c, where : /\ Revise(Last, c, where) /\ where \in {"live", "trash"}
                          /\ where = "live" => c \in Nat \ {0}
      BY <2>2
    <3>2. /\ Last \in DOMAIN cozy /\ cozy \in Seq(File)
          /\ \A id \in DOMAIN cozy : cozy[id].rev \in Nat
      BY <2>2, LastIs DEF LastIsLive
    <3>3. /\ Last' = Last /\ DOMAIN cozy' = DOMAIN cozy
          /\ cozy'[Last].rev = cozy[Last].rev + 1 /\ cozy'[Last].where = where
          /\ cozy'[Last].content = c
          /\ \A id \in DOMAIN cozy : id # Last => cozy'[id] = cozy[id]
      BY <3>1, <3>2 DEF Revise, Last
    <3>4. doc.remote # NoRemote => /\ doc.remote.id \in DOMAIN cozy
                                   /\ doc.remote.rev \in 1..cozy[doc.remote.id].rev
      BY RecordIs
    <3> QED
      BY <2>2, <3>1, <3>2, <3>3, <3>4 DEF Moved, LastIsLive, None
  <2> QED
    BY <2>1, <2>2
<1>6. FilesOK'
  BY <1>1, <1>5 DEF CInv, FilesOK
<1>7. CalmOK'
  BY <1>1, <1>3 DEF CInv, CalmOK, NeverTrashed
<1>8. KnownOK'
  <2>1. ~doc.deleted /\ doc.remote # NoRemote => LastIsLive /\ doc.remote.id = Last
    BY <1>2 DEF ThereKnown
  <2>2. doc = NoDoc => disk = NoFile
    BY <1>2, RecordIs
  <2> QED
    BY <1>1, <1>2, <1>3, <1>5, <2>1, <2>2 DEF KnownOK, Ahead
<1>9. LateLocalOK' /\ LateRemoteOK' /\ DeletedHereOK'
  BY <1>1, <1>2, <1>3 DEF LateLocalOK, LateRemoteOK, DeletedHereOK
<1>10. DeletedThereOK'
  <2> SUFFICES ASSUME LateSide = "local", doc.deleted PROVE DeletedThereOK'
    BY <1>1, <1>3 DEF DeletedThereOK
  <2>1. doc.remote # NoRemote
    BY RecordIs DEF CInv, CalmOK, HasBothSides
  <2>2. Ahead /\ cozy[doc.remote.id].where = "trash" /\ ~LastIsLive
    BY <1>2 DEF CInv, DeletedThereOK
  <2>3. LastIsLive' /\ Ahead' /\ cozy'[doc.remote.id].where = "trash"
    BY <1>1, <1>5, <2>1, <2>2 DEF Ahead
  <2> QED
    BY <1>1, <1>2, <1>3, <2>3 DEF DeletedThereOK
<1> QED
  BY <1>4, <1>6, <1>7, <1>8, <1>9, <1>10 DEF CInv

(* Users only change the file once their last change is synced. *)
LEMMA UsersCInv ==
  ASSUME Pace = "synced", IInv, HInv, LInv, CInv, UserChanges PROVE CInv'
<1>1. Quiet /\ ops \in Nat
  BY TypeParts, FileSyncAssumption
     DEF UserChanges, LocalWrite, LocalDelete, RemoteWrite, RemoteTrash, LocalUser,
         RemoteUser, Operates, IInv, Types, CountTypes
<1>2. CASE LocalWrite
  <2>1. PICK content \in 1..(ops + 1),
             ino \in {disk.ino, <<"user", ops + 1>>} \ {NoFile.ino} :
          LocalUser([content |-> content, date |-> <<"user", ops + 1>>, ino |-> ino])
    BY <1>2 DEF LocalWrite
  <2> DEFINE file == [content |-> content, date |-> <<"user", ops + 1>>, ino |-> ino]
  <2>2. /\ file # NoFile /\ file.content # None /\ file.ino # NoFile.ino
        /\ file.date = <<"user", ops + 1>>
        /\ file.ino \in {disk.ino, <<"user", ops + 1>>}
    BY <1>1 DEF NoFile, None
  <2> HIDE DEF file
  <2> QED
    BY <1>1, <2>1, <2>2, LocalUsersCInv DEF file
<1>3. CASE LocalDelete
  BY <1>1, <1>3, LocalUsersCInv DEF LocalDelete
<1>4. CASE RemoteWrite
  <2>1. PICK content \in 1..(ops + 1) :
          /\ RemoteUser(content)
          /\ IF Live = {} THEN Create(content)
             ELSE \E id \in Live : Revise(id, content, "live")
    BY <1>4 DEF RemoteWrite
  <2>2. \/ ~LastIsLive /\ Create(content)
        \/ LastIsLive /\ Revise(Last, content, "live")
    BY <2>1, LastIs
  <2>3. content \in Nat \ {0}
    BY <1>1
  <2> QED
    BY <1>1, <2>1, <2>2, <2>3, RemoteUsersCInv
<1>5. CASE RemoteTrash
  <2>1. RemoteUser(None) /\ LastIsLive /\ Revise(Last, cozy[Last].content, "trash")
    BY <1>5, LastIs DEF RemoteTrash
  <2> QED
    BY <1>1, <2>1, RemoteUsersCInv
<1> QED
  BY <1>2, <1>3, <1>4, <1>5 DEF UserChanges

(* Records that are written *)

(* The side that makes the next change is ahead of the other one. *)
LEMMA MarkSideLate ==
  ASSUME NEW sides \in Sides, Follows(sides), NEW side \in Side
  PROVE  LET marked == MarkSide(side, sides) IN
         /\ marked \in Sides /\ marked.target = sides.target + 1
         /\ OutOfDateSide(marked) = OtherSide(side)
         /\ marked[side] = sides.target + 1
         /\ marked[OtherSide(side)] = sides[OtherSide(side)]
<1>1. /\ MarkSide(side, sides) \in Sides
      /\ MarkSide(side, sides).target = sides.target + 1
      /\ MarkSide(side, sides)[side] = sides.target + 1
      /\ MarkSide(side, sides)[OtherSide(side)] = sides[OtherSide(side)]
  BY MarkSideIs
<1>2. sides.local <= sides.target /\ sides.remote <= sides.target /\ sides.target \in Nat
      /\ sides.local \in Nat /\ sides.remote \in Nat
  BY DEF Follows, Sides
<1>3. CASE side = "local"
  BY <1>1, <1>2, <1>3 DEF OutOfDateSide, OtherSide
<1>4. CASE side = "remote"
  BY <1>1, <1>2, <1>4 DEF OutOfDateSide, OtherSide
<1> QED
  BY <1>1, <1>3, <1>4 DEF Side

(* The record of Pouch, once written. *)
LEMMA WrittenIs ==
  ASSUME IInv, HInv, LInv, CInv, NEW record \in Docs, Write(record)
  PROVE  /\ doc'.sides = record.sides /\ doc'.md5sum = record.md5sum
         /\ doc'.ino = record.ino /\ doc'.local = record.local
         /\ doc'.remote = record.remote /\ doc'.deleted = record.deleted
         /\ doc' # NoDoc /\ pending' = TRUE
         /\ ~record.trashed => NeverTrashed'
<1> DEFINE saved == [record EXCEPT !.rev = puts + 1]
<1>1. /\ doc' = saved /\ pending' = TRUE /\ puts \in Nat /\ history \in Seq(Docs)
      /\ history' = IF record.rev = 0 THEN <<saved>> ELSE Append(history, saved)
  BY DocIs DEF Write
<1>2. /\ saved.sides = record.sides /\ saved.md5sum = record.md5sum
      /\ saved.ino = record.ino /\ saved.local = record.local
      /\ saved.remote = record.remote /\ saved.deleted = record.deleted
      /\ saved.trashed = record.trashed /\ saved.rev = puts + 1
      /\ saved \in Docs
  BY <1>1, DocWith DEF Docs
<1> HIDE DEF saved
<1>3. saved # NoDoc
  BY <1>1, <1>2 DEF NoDoc
<1>4. ~record.trashed => NeverTrashed'
  <2> SUFFICES ASSUME ~record.trashed, NEW i \in DOMAIN history'
               PROVE  ~history'[i].trashed
    BY DEF NeverTrashed
  <2>1. \/ history'[i] = saved
        \/ i \in DOMAIN history /\ history'[i] = history[i]
    <3>1. CASE history' = <<saved>>
      <4>1. i \in {1} /\ <<saved>>[1] = saved
        BY <3>1
      <4> QED
        BY <3>1, <4>1
    <3>2. CASE history' = Append(history, saved)
      <4>1. i \in 1..(Len(history) + 1) /\ Len(history) \in Nat
        BY <1>1, <1>2, <3>2
      <4>2. \A j \in 1..Len(history) : history'[j] = history[j]
        BY <1>1, <1>2, <3>2
      <4>3. history'[Len(history) + 1] = saved
        BY <1>1, <1>2, <3>2
      <4> QED
        BY <1>1, <4>1, <4>2, <4>3
    <3> QED
      BY <1>1, <3>1, <3>2
  <2>2. NeverTrashed
    BY DEF CInv, CalmOK
  <2> QED
    BY <1>2, <2>1, <2>2 DEF NeverTrashed
<1> QED
  BY <1>1, <1>2, <1>3, <1>4

(* The revision that a late side is at is the same as before, or the record *)
(* as it was when the side was not late.                                    *)
LEMMA OldNext ==
  ASSUME IInv, HInv, NEW record \in Docs, Updates(doc, record), Write(record),
         NEW side \in Side, Late(side, record)
  PROVE  OldAt(side)' = IF Late(side, doc) THEN OldAt(side) ELSE doc
<1> DEFINE saved == [record EXCEPT !.rev = puts + 1]
           number == doc.sides[side]
           target == doc.sides.target
           size == Len(history)
<1>1. /\ doc' = saved /\ saved.sides = record.sides
      /\ history' = IF record.rev = 0 THEN <<saved>> ELSE Append(history, saved)
  BY DEF Write, Docs
<1>2. /\ history \in Seq(Docs) /\ number \in Nat /\ target \in Nat
      /\ number <= target
  BY DocIs DEF Docs, Sides, Follows, Side
<1>3. /\ record.sides[side] = number /\ record.sides.target = target + 1
      /\ number # 0
  BY DEF Updates, Late, Side
<1>4. record.rev # 0 /\ doc # NoDoc
  <2>1. doc # NoDoc
    BY <1>3 DEF NoDoc, NoSides, Side
  <2> QED
    BY <2>1, DocIs DEF Updates
<1>5. /\ size \in Nat /\ size # 0 /\ history[size] = doc
      /\ \A i \in 1..size : history'[i] = history[i]
  <2>1. size # 0 /\ history[size] = doc
    BY <1>4 DEF HInv, TracesOK, Traces
  <2> HIDE DEF saved
  <2> QED
    BY <1>1, <1>2, <1>4, <2>1
<1>6. Len(history') = size + 1
  <2> HIDE DEF saved
  <2> QED
    BY <1>1, <1>2, <1>4
<1> HIDE DEF saved, size
<1>7. Len(history') - (doc'.sides.target - doc'.sides[side]) = size - (target - number)
  <2>1. doc'.sides.target = target + 1 /\ doc'.sides[side] = number
    BY <1>1, <1>3
  <2> HIDE DEF number, target
  <2>2. size \in Nat /\ number \in Nat /\ target \in Nat
    BY <1>2, <1>5
  <2> QED
    BY <1>6, <2>1, <2>2
<1>8. CASE number = target
  <2>1. size - (target - number) = size /\ ~Late(side, doc) /\ size \in 1..size
    BY <1>2, <1>5, <1>8 DEF Late
  <2> QED
    BY <1>5, <1>7, <2>1 DEF OldAt
<1>9. CASE number # target
  <2>1. Late(side, doc)
    BY <1>3, <1>9 DEF Late
  <2>2. size - (target - number) >= 1
    BY <2>1 DEF HInv, TracesOK, Traces, size
  <2>3. size - (target - number) \in 1..size
    BY <1>2, <1>5, <2>2
  <2> QED
    BY <1>5, <1>7, <2>1, <2>3 DEF OldAt, size
<1> QED
  BY <1>8, <1>9

(* Merges of local changes *)

(* What a file found on the disk makes of a record, when there is no        *)
(* conflict: it tells of the file.                                          *)
LEMMA FoundIs ==
  ASSUME NEW file \in Files, NEW was \in Docs, ~was.trashed,
         was = NoDoc \/ was.local.date # file.date,
         was # NoDoc /\ ~was.deleted =>
           \/ SameBinary(file.content, was.md5sum)
           \/ IsAtLeastUpToDate("local", was.sides)
  PROVE  LET outcome == LocalUpdate(file, was)
             record == outcome.doc
             late == OutOfDateSide(was.sides)
         IN /\ outcome.rename = "none" /\ outcome.op = "put" /\ record \in Docs
            /\ record.local = file /\ record.remote = was.remote
            /\ record.md5sum = file.content /\ record.ino = file.ino
            /\ ~record.deleted /\ ~record.trashed
            /\ \/ /\ record.sides = MarkSide("local", was.sides)
                  /\ \/ was = NoDoc \/ was.deleted
                     \/ was.md5sum # file.content \/ was.ino # file.ino
               \/ /\ was # NoDoc /\ ~was.deleted /\ was.ino = file.ino
                  /\ record.sides = IF late = "none" THEN was.sides
                                    ELSE MarkSide(OtherSide(late), was.sides)
<1> DEFINE seen == [was EXCEPT !.md5sum = file.content, !.ino = file.ino,
                               !.local = file]
           known == [was EXCEPT !.local = file]
           late == OutOfDateSide(was.sides)
           marked == Marked("local", seen)
           again == [marked EXCEPT !.deleted = FALSE, !.trashed = FALSE, !.errors = 0]
           remarked == Marked(OtherSide(late), known)
<1>1. /\ seen \in Docs /\ known \in Docs
      /\ seen.md5sum = file.content /\ seen.ino = file.ino /\ seen.local = file
      /\ seen.remote = was.remote /\ seen.sides = was.sides
      /\ seen.deleted = was.deleted /\ seen.trashed = was.trashed
      /\ known.md5sum = was.md5sum /\ known.ino = was.ino /\ known.local = file
      /\ known.remote = was.remote /\ known.sides = was.sides
      /\ known.deleted = was.deleted /\ known.trashed = was.trashed
  BY DEF Docs, Files
<1>2. NoDoc.deleted = FALSE
  BY DEF NoDoc
<1>3. SameFile(seen, was) <=> file.content = was.md5sum /\ file.ino = was.ino
  <2> HIDE DEF seen
  <2> QED
    BY <1>1 DEF SameFile
<1> HIDE DEF seen, known
<1>4. /\ marked \in Docs /\ marked.sides = MarkSide("local", was.sides)
      /\ marked.md5sum = file.content /\ marked.ino = file.ino
      /\ marked.local = file /\ marked.remote = was.remote
      /\ marked.deleted = was.deleted /\ marked.trashed = was.trashed
  BY <1>1, MarkedIs DEF Side, Marked, Docs
<1>5. /\ again \in Docs /\ again.sides = marked.sides
      /\ again.md5sum = marked.md5sum /\ again.ino = marked.ino
      /\ again.local = marked.local /\ again.remote = marked.remote
      /\ ~again.deleted /\ ~again.trashed
  <2> HIDE DEF marked
  <2> QED
    BY <1>4, DocWith DEF Docs
<1>6. /\ remarked \in Docs /\ remarked.sides = MarkSide(OtherSide(late), was.sides)
      /\ remarked.md5sum = was.md5sum /\ remarked.ino = was.ino
      /\ remarked.local = file /\ remarked.remote = was.remote
      /\ remarked.deleted = was.deleted /\ remarked.trashed = was.trashed
  <2>1. OtherSide(late) \in Side
    BY DEF OtherSide, Side
  <2> QED
    BY <1>1, <2>1, MarkedIs DEF Marked, Docs
<1>7. CASE was = NoDoc
  <2>1. LocalUpdate(file, was) = Save(marked)
    BY <1>7 DEF LocalUpdate, seen
  <2> HIDE DEF marked
  <2> QED
    BY <1>2, <1>4, <1>7, <2>1 DEF Save
<1>11. ~Overlooked(file, was) \/ was = NoDoc
  BY DEF Overlooked
<1>8. CASE was # NoDoc /\ was.deleted
  <2>1. LocalUpdate(file, was) = Save(again)
    BY <1>8, <1>11 DEF LocalUpdate, seen
  <2> HIDE DEF again, marked
  <2> QED
    BY <1>4, <1>5, <1>8, <2>1 DEF Save
<1>9. CASE was # NoDoc /\ ~was.deleted /\ SameFile(seen, was)
  <2>1. LocalUpdate(file, was) = Save(IF late = "none" THEN known ELSE remarked)
    BY <1>9, <1>11 DEF LocalUpdate, seen, known
  <2> HIDE DEF remarked, late
  <2> QED
    BY <1>1, <1>3, <1>6, <1>9, <2>1 DEF Save, late
<1>10. CASE was # NoDoc /\ ~was.deleted /\ ~SameFile(seen, was)
  <2>1. LocalUpdate(file, was) = Save(marked)
    BY <1>10, <1>11 DEF LocalUpdate, seen
  <2> HIDE DEF marked
  <2> QED
    BY <1>3, <1>4, <1>10, <2>1 DEF Save
<1> QED
  BY <1>7, <1>8, <1>9, <1>10

(* What is on the disk, when the record was not told of it, is merged       *)
(* without a conflict.                                                      *)
LEMMA FoundMerges ==
  ASSUME IInv, HInv, LInv, CInv, disk # NoFile, ~HereKnown(doc)
  PROVE  LET record == LocalUpdate(disk, doc).doc IN
         /\ LocalUpdate(disk, doc).rename = "none" /\ LocalUpdate(disk, doc).op = "put"
         /\ record \in Docs /\ record.local = disk /\ record.remote = doc.remote
         /\ record.md5sum = disk.content /\ record.ino = disk.ino
         /\ ~record.deleted /\ ~record.trashed
         /\ \/ /\ OutOfDateSide(record.sides) = "remote"
               /\ record.sides = MarkSide("local", doc.sides)
               /\ \/ doc = NoDoc
                  \/ doc.md5sum # disk.content
                  \/ doc.ino # disk.ino
            \/ /\ LateSide = "none" /\ doc # NoDoc /\ ~doc.deleted
               /\ record.sides = doc.sides
            \/ /\ LateSide = "local" /\ ~doc.deleted /\ doc.sides.local # 0
               /\ OutOfDateSide(record.sides) = "local"
               /\ record.sides = MarkSide("remote", doc.sides)
<1> DEFINE record == LocalUpdate(disk, doc).doc
<1>1. /\ disk \in Files /\ doc \in Docs /\ ~doc.trashed /\ doc.sides \in Sides
      /\ Follows(doc.sides)
      /\ doc.local.date # disk.date
  BY RecordIs DEF HereKnown
<1>2. LateSide \in {"local", "none"} \/ doc.deleted
  BY LateIs DEF CInv, LateRemoteOK
<1>3. doc # NoDoc /\ ~doc.deleted =>
        \/ SameBinary(disk.content, doc.md5sum)
        \/ IsAtLeastUpToDate("local", doc.sides)
  <2>1. CASE LateSide = "none" /\ doc # NoDoc
    BY <1>1, <2>1, LateIs DEF IsAtLeastUpToDate, HasBothSides, Sides
  <2>2. CASE LateSide = "local" /\ ~doc.deleted
    BY <2>2 DEF CInv, LateLocalOK, FilesOK, SameBinary
  <2> QED
    BY <1>2, <2>1, <2>2
<1>4. /\ LocalUpdate(disk, doc).rename = "none" /\ LocalUpdate(disk, doc).op = "put"
      /\ record \in Docs /\ record.local = disk /\ record.remote = doc.remote
      /\ record.md5sum = disk.content /\ record.ino = disk.ino
      /\ ~record.deleted /\ ~record.trashed
      /\ \/ /\ record.sides = MarkSide("local", doc.sides)
            /\ \/ doc = NoDoc \/ doc.deleted
               \/ doc.md5sum # disk.content \/ doc.ino # disk.ino
         \/ /\ doc # NoDoc /\ ~doc.deleted /\ doc.ino = disk.ino
            /\ record.sides = IF LateSide = "none" THEN doc.sides
                              ELSE MarkSide(OtherSide(LateSide), doc.sides)
  BY <1>1, <1>3, FoundIs DEF LateSide
<1> HIDE DEF record
<1>5. doc.deleted => doc.ino # disk.ino
  <2> SUFFICES ASSUME doc.deleted PROVE doc.ino # disk.ino
    OBVIOUS
  <2>1. LateSide = "local"
    BY LateIs DEF CInv, CalmOK, DeletedHereOK
  <2> QED
    BY <2>1 DEF CInv, DeletedThereOK
<1>6. CASE /\ record.sides = MarkSide("local", doc.sides)
           /\ \/ doc = NoDoc \/ doc.deleted
              \/ doc.md5sum # disk.content \/ doc.ino # disk.ino
  <2>1. OutOfDateSide(MarkSide("local", doc.sides)) = "remote"
    BY <1>1, MarkSideLate DEF OtherSide, Side
  <2> QED
    BY <1>4, <1>5, <1>6, <2>1 DEF record
<1>7. CASE /\ doc # NoDoc /\ ~doc.deleted /\ doc.ino = disk.ino
           /\ record.sides = IF LateSide = "none" THEN doc.sides
                             ELSE MarkSide(OtherSide(LateSide), doc.sides)
  <2>1. CASE LateSide = "none"
    BY <1>4, <1>7, <2>1 DEF record
  <2>2. CASE LateSide = "local"
    <3>1. doc.sides.local # 0
      BY <1>7 DEF CInv, CalmOK, FilesOK
    <3>2. OutOfDateSide(MarkSide("remote", doc.sides)) = "local"
      BY <1>1, MarkSideLate DEF OtherSide, Side
    <3>3. record.sides = MarkSide("remote", doc.sides)
      BY <1>7, <2>2 DEF OtherSide
    <3> QED
      BY <1>4, <1>7, <2>2, <3>1, <3>2, <3>3 DEF record
  <2> QED
    BY <1>2, <1>7, <2>1, <2>2
<1> QED
  BY <1>4, <1>6, <1>7

(* Once it was merged, the record knows the file of the disk: it is as late *)
(* as before, or the Cozy is.                                               *)
LEMMA FoundCInv ==
  ASSUME IInv, HInv, LInv, CInv, disk # NoFile, ~HereKnown(doc),
         UNCHANGED <<disk, cozy, unseen, ops, sync, blocked>>,
         Updates(doc, LocalUpdate(disk, doc).doc), Write(LocalUpdate(disk, doc).doc)
  PROVE  /\ FilesOK' /\ CalmOK' /\ KnownOK' /\ LateLocalOK' /\ LateRemoteOK'
         /\ DeletedThereOK' /\ DeletedHereOK'
<1> DEFINE record == LocalUpdate(disk, doc).doc
<1>1. /\ record \in Docs /\ record.local = disk /\ record.remote = doc.remote
      /\ record.md5sum = disk.content /\ record.ino = disk.ino
      /\ ~record.deleted /\ ~record.trashed
      /\ \/ /\ OutOfDateSide(record.sides) = "remote"
            /\ record.sides = MarkSide("local", doc.sides)
            /\ \/ doc = NoDoc
               \/ doc.md5sum # disk.content
               \/ doc.ino # disk.ino
         \/ /\ LateSide = "none" /\ doc # NoDoc /\ ~doc.deleted
            /\ record.sides = doc.sides
         \/ /\ LateSide = "local" /\ ~doc.deleted /\ doc.sides.local # 0
            /\ OutOfDateSide(record.sides) = "local"
            /\ record.sides = MarkSide("remote", doc.sides)
      /\ Write(record) /\ Updates(doc, record)
  BY FoundMerges
<1> HIDE DEF record
<1>2. /\ doc'.local = disk /\ doc'.remote = doc.remote /\ doc'.md5sum = disk.content
      /\ doc'.ino = disk.ino /\ ~doc'.deleted /\ doc' # NoDoc /\ pending' = TRUE
      /\ doc'.sides = record.sides /\ NeverTrashed'
  BY <1>1, WrittenIs
<1>3. /\ disk \in Files /\ doc.sides \in Sides /\ Follows(doc.sides)
      /\ LateSide # "remote"
      /\ doc.deleted => /\ LateSide = "local" /\ ~pending /\ ~LastIsLive
                        /\ Last \notin unseen /\ Ahead /\ doc.remote.id = Last
                        /\ cozy[Last].where = "trash" /\ doc.remote # NoRemote
  <2>1. LateSide # "remote"
    BY DEF CInv, LateRemoteOK, DeletedHereOK
  <2>2. doc.deleted => LateSide = "local" /\ doc.remote # NoRemote
    BY <2>1, LateIs, RecordIs DEF CInv, CalmOK, HasBothSides
  <2> QED
    BY <2>1, <2>2, RecordIs DEF CInv, DeletedThereOK
<1>4. /\ Last' = Last /\ LastIsLive' = LastIsLive /\ Moved' = Moved
      /\ HereKnown(doc)' /\ Ahead' = Ahead
      /\ LateSide' = OutOfDateSide(record.sides)
  BY <1>2 DEF Last, LastIsLive, Moved, HereKnown, Ahead, LateSide
<1>5. /\ ThereKnown(doc) /\ (LastIsLive => ThereKnown(doc)')
      /\ ~LastIsLive => doc.remote = NoRemote \/ doc.deleted
      /\ doc.remote = NoRemote /\ ~LastIsLive => ThereKnown(doc)'
  BY <1>2, <1>4 DEF CInv, KnownOK, ThereKnown
<1>6. FilesOK'
  BY <1>1, <1>2, <1>4 DEF CInv, FilesOK
<1>7. record.sides.local # 0 /\ (record.sides.remote = 0 => doc.remote = NoRemote)
  <2>1. CASE record.sides = MarkSide("local", doc.sides)
    <3>1. record.sides.local = doc.sides.target + 1 /\ record.sides.remote = doc.sides.remote
      BY <1>3, <2>1, MarkSideLate DEF Side, OtherSide
    <3> QED
      BY <1>3, <3>1, RecordIs DEF Sides
  <2>2. CASE LateSide = "none" /\ doc # NoDoc /\ record.sides = doc.sides
    BY <2>2, LateIs, RecordIs
  <2>3. CASE doc.sides.local # 0 /\ record.sides = MarkSide("remote", doc.sides)
    <3>1. record.sides.remote = doc.sides.target + 1 /\ record.sides.local = doc.sides.local
      BY <1>3, <2>3, MarkSideLate DEF Side, OtherSide
    <3> QED
      BY <1>3, <2>3, <3>1 DEF Sides
  <2> QED
    BY <1>1, <2>1, <2>2, <2>3
<1>8. CalmOK'
  BY <1>2, <1>7 DEF CalmOK
<1>9. KnownOK'
  <2>1. Last \in unseen \/ ThereKnown(doc)' \/ Stuck'
    <3>1. doc.deleted => LateSide' = "remote"
      BY <1>1, <1>4
    <3> QED
      BY <1>2, <1>3, <1>4, <1>5, <3>1 DEF Stuck
  <2>2. doc.remote # NoRemote => /\ doc.remote.id = Last /\ Last \notin Moved
                                 /\ cozy[Last].where = "trash" => Ahead
    BY <1>3 DEF CInv, KnownOK, Moved
  <2> QED
    BY <1>2, <1>4, <2>1, <2>2 DEF KnownOK
<1>10. LateLocalOK'
  <2> SUFFICES ASSUME LateSide' = "local" PROVE LateLocalOK'
    BY DEF LateLocalOK
  <2>1. LateSide = "local" /\ ~doc.deleted
    <3>1. OutOfDateSide(record.sides) = "local"
      BY <1>4
    <3>2. LateSide = "none" => record.sides # doc.sides
      BY <3>1 DEF LateSide
    <3> QED
      BY <1>1, <3>1, <3>2
  <2>2. LastIsLive
    BY <2>1 DEF CInv, LateLocalOK
  <2> QED
    BY <1>2, <1>4, <1>5, <2>2 DEF LateLocalOK
<1>11. LateRemoteOK'
  <2> SUFFICES ASSUME LateSide' = "remote" PROVE LateRemoteOK'
    BY DEF LateRemoteOK
  <2>1. record.sides = MarkSide("local", doc.sides)
        /\ (doc = NoDoc \/ doc.md5sum # disk.content \/ doc.ino # disk.ino)
    <3>1. OutOfDateSide(record.sides) = "remote"
      BY <1>4
    <3>2. LateSide = "none" => record.sides # doc.sides
      BY <3>1 DEF LateSide
    <3> QED
      BY <1>1, <3>1, <3>2
  <2>2. ~LastIsLive => Last \notin unseen \/ Last \in Moved
    <3> SUFFICES ASSUME ~LastIsLive, ~doc.deleted
                 PROVE  Last \notin unseen \/ Last \in Moved
      BY <1>3
    <3>1. doc.remote = NoRemote /\ LateSide # "local"
      BY <1>5 DEF CInv, LateLocalOK
    <3>2. doc = NoDoc
      BY <1>3, <3>1, LateIs, RecordIs
    <3> QED
      BY <3>2 DEF CInv, KnownOK
  <2>3. record.sides.remote # 0 => OldAt("remote")' = doc /\ doc # NoDoc
    <3> SUFFICES ASSUME record.sides.remote # 0 PROVE OldAt("remote")' = doc /\ doc # NoDoc
      OBVIOUS
    <3>1. record.sides.remote = doc.sides.remote /\ record.sides.target = doc.sides.target + 1
      BY <1>3, <2>1, MarkSideLate DEF Side, OtherSide
    <3>2. Late("remote", record) /\ ~Late("remote", doc)
      BY <1>3, <3>1, LateIs DEF Late, Sides, Follows, Side
    <3>3. doc # NoDoc
      BY <3>1 DEF NoDoc, NoSides
    <3> QED
      BY <1>1, <3>2, <3>3, OldNext DEF Side
  <2> QED
    BY <1>2, <1>4, <1>5, <2>1, <2>2, <2>3 DEF LateRemoteOK
<1>12. DeletedThereOK' /\ DeletedHereOK'
  BY <1>2 DEF DeletedThereOK, DeletedHereOK
<1> QED
  BY <1>6, <1>8, <1>9, <1>10, <1>11, <1>12

(* A file that is not on the disk any more: the one of the record was       *)
(* deleted, or there was none.                                              *)
LEMMA MissingMerges ==
  ASSUME IInv, HInv, LInv, CInv, disk = NoFile, ~HereKnown(doc)
  PROVE  LET record == Trash("local", doc).doc IN
         /\ doc # NoDoc /\ ~doc.deleted /\ LateSide = "none" /\ LastIsLive
         /\ ThereKnown(doc) /\ SameBinary(doc.local.content, doc.remote.content)
         /\ Trash("local", doc).rename = "none" /\ Trash("local", doc).op = "put"
         /\ record \in Docs /\ record.local = doc.local /\ record.remote = doc.remote
         /\ record.ino = doc.ino /\ record.deleted /\ ~record.trashed
         /\ record.sides = MarkSide("local", doc.sides)
<1>1. doc.local # NoFile /\ ~doc.deleted /\ doc # NoDoc
  BY RecordIs DEF HereKnown
<1>2. LateSide = "none"
  BY <1>1, LateIs, RecordIs DEF CInv, LateLocalOK, LateRemoteOK
<1>3. /\ doc.sides \in Sides /\ Follows(doc.sides) /\ doc.sides.local = doc.sides.target
      /\ doc.sides.remote = doc.sides.target /\ doc.sides.target # 0
      /\ doc.remote # NoRemote /\ Told(doc) /\ ~doc.trashed /\ doc \in Docs
  BY <1>1, <1>2, LateIs, RecordIs
<1>4. LastIsLive /\ ThereKnown(doc)
  BY <1>1, <1>3 DEF CInv, KnownOK, ThereKnown
<1>5. SameBinary(doc.local.content, doc.remote.content)
  <2>1. doc.remote.content = cozy[Last].content
    BY <1>3, <1>4, RecordIs DEF ThereKnown
  <2> QED
    BY <1>2, <1>3, <1>4, <2>1 DEF Told, LateSide, CInv, FilesOK, SameBinary
<1> DEFINE calm == [doc EXCEPT !.errors = 0]
           marked == Marked("local", calm)
           record == [marked EXCEPT !.deleted = TRUE]
<1>6. /\ calm \in Docs /\ calm.sides = doc.sides /\ calm.local = doc.local
      /\ calm.remote = doc.remote /\ calm.ino = doc.ino /\ calm.trashed = doc.trashed
  BY <1>3 DEF Docs
<1> HIDE DEF calm
<1>7. /\ marked \in Docs /\ marked.sides = MarkSide("local", doc.sides)
      /\ marked.local = doc.local /\ marked.remote = doc.remote
      /\ marked.ino = doc.ino /\ marked.trashed = doc.trashed
  BY <1>6, MarkedIs DEF Side, Marked, Docs
<1> HIDE DEF marked
<1>8. /\ record \in Docs /\ record.sides = marked.sides /\ record.local = marked.local
      /\ record.remote = marked.remote /\ record.ino = marked.ino
      /\ record.trashed = marked.trashed /\ record.deleted
  BY <1>7, DocWith DEF Docs
<1>9. Trash("local", doc) = Save(record)
  <2>1. IsAtLeastUpToDate("local", doc.sides)
    BY <1>3 DEF IsAtLeastUpToDate, HasBothSides, Sides
  <2>2. doc.sides["local"] # 0
    BY <1>3
  <2> QED
    BY <1>1, <2>1, <2>2 DEF Trash, calm, marked
<1> HIDE DEF record
<1> QED
  BY <1>1, <1>2, <1>3, <1>4, <1>5, <1>7, <1>8, <1>9 DEF Save

(* Once it was merged, the Cozy is late. *)
LEMMA MissingCInv ==
  ASSUME IInv, HInv, LInv, CInv, disk = NoFile, ~HereKnown(doc),
         UNCHANGED <<disk, cozy, unseen, ops, sync, blocked>>,
         Write(Trash("local", doc).doc)
  PROVE  /\ FilesOK' /\ CalmOK' /\ KnownOK' /\ LateLocalOK' /\ LateRemoteOK'
         /\ DeletedThereOK' /\ DeletedHereOK'
<1> DEFINE record == Trash("local", doc).doc
<1>1. /\ doc # NoDoc /\ ~doc.deleted /\ LateSide = "none" /\ LastIsLive
      /\ ThereKnown(doc) /\ SameBinary(doc.local.content, doc.remote.content)
      /\ record \in Docs /\ record.local = doc.local /\ record.remote = doc.remote
      /\ record.ino = doc.ino /\ record.deleted /\ ~record.trashed
      /\ record.sides = MarkSide("local", doc.sides) /\ Write(record)
  BY MissingMerges
<1> HIDE DEF record
<1>2. /\ doc'.local = doc.local /\ doc'.remote = doc.remote
      /\ doc'.ino = doc.ino /\ doc'.deleted /\ doc' # NoDoc /\ pending' = TRUE
      /\ doc'.sides = record.sides /\ NeverTrashed'
  BY <1>1, WrittenIs
<1>3. /\ record.sides.local = doc.sides.target + 1 /\ record.sides.remote = doc.sides.target
      /\ OutOfDateSide(record.sides) = "remote" /\ doc.sides.target \in Nat \ {0}
      /\ doc.remote # NoRemote
  <2>1. /\ doc.sides \in Sides /\ Follows(doc.sides) /\ doc.sides.remote = doc.sides.target
        /\ doc.sides.target # 0
    BY <1>1, LateIs, RecordIs
  <2> QED
    BY <1>1, <2>1, MarkSideLate, RecordIs DEF Side, OtherSide, Sides
<1>4. /\ Last' = Last /\ LastIsLive' = LastIsLive /\ Moved' = Moved
      /\ LateSide' = "remote" /\ ThereKnown(doc)' /\ HereKnown(doc)'
      /\ doc.remote.id = Last /\ Last \notin Moved
  BY <1>1, <1>2, <1>3 DEF Last, LastIsLive, Moved, LateSide, ThereKnown, HereKnown
<1>5. FilesOK' /\ KnownOK' /\ LateLocalOK' /\ LateRemoteOK' /\ DeletedThereOK'
  BY <1>1, <1>2, <1>4
     DEF CInv, FilesOK, KnownOK, LateLocalOK, LateRemoteOK, DeletedThereOK
<1>6. CalmOK' /\ DeletedHereOK'
  BY <1>1, <1>2, <1>3, <1>4 DEF CalmOK, DeletedHereOK, HasBothSides
<1> QED
  BY <1>5, <1>6

(* The local watcher merges what is on the disk. *)
LEMMA MergeLocalCInv == ASSUME IInv, HInv, LInv, CInv, MergeLocal PROVE CInv'
<1> DEFINE outcome == LocalOutcome
<1>1. /\ owner = "local" /\ owner' = "none" /\ merge' = NoMerge
      /\ UNCHANGED <<found, cozy, unseen, recent, pull, sync, blocked, ops>>
      /\ merge.was = doc /\ merge.file = disk /\ ~dirty /\ found = <<>>
      /\ NeverTrashed /\ sync.pc = "idle"
  BY TypeParts DEF MergeLocal, remote, bounds, users, LInv, MergingOK, CInv, WaitingOK,
                   CalmOK, IInv, SyncOK, Types, SyncTypes
<1>2. outcome = IF disk # NoFile THEN LocalUpdate(disk, doc)
                ELSE IF doc.local = NoFile \/ doc.deleted THEN Ignore
                ELSE Trash("local", doc)
  BY <1>1 DEF LocalOutcome
<1>3. /\ outcome.op # "none" => ~Refuses(outcome)
      /\ outcome.op = "put" => Updates(doc, outcome.doc)
  BY <1>1, LocalOutcomeIs
<1>4. CASE HereKnown(doc)
  <2>1. outcome = Ignore
    <3>1. disk # NoFile => doc # NoDoc /\ doc.local = disk
      BY <1>4, RecordIs DEF HereKnown, CInv, FilesOK
    <3>2. disk # NoFile => LocalUpdate(disk, doc) = Ignore
      BY <3>1 DEF LocalUpdate, Overlooked
    <3> QED
      BY <1>2, <1>4, <3>2 DEF HereKnown
  <2>2. UNCHANGED <<disk, dirty, doc, history, pending>>
    BY <2>1 DEF MergeLocal, Ignore, Refuses, Commits, pouch
  <2>3. LocalIsMerged' => HereKnown(doc)
    BY <1>4
  <2>4. /\ FilesOK' /\ CalmOK' /\ LateLocalOK' /\ LateRemoteOK'
        /\ DeletedThereOK' /\ DeletedHereOK' /\ KnownOK'
    <3>1. /\ Last' = Last /\ LastIsLive' = LastIsLive /\ Moved' = Moved
          /\ LateSide' = LateSide /\ HereKnown(doc)' = HereKnown(doc)
          /\ ThereKnown(doc)' = ThereKnown(doc) /\ Ahead' = Ahead
          /\ OldAt("local")' = OldAt("local") /\ OldAt("remote")' = OldAt("remote")
      BY <1>1, <2>2 DEF Last, LastIsLive, Moved, LateSide, HereKnown, ThereKnown, Ahead, OldAt
    <3>2. FilesOK' /\ CalmOK' /\ KnownOK'
      BY <1>1, <1>4, <2>2, <3>1 DEF CInv, FilesOK, CalmOK, NeverTrashed, KnownOK, Stuck
    <3>3. LateLocalOK' /\ LateRemoteOK'
      BY <1>1, <2>2, <3>1 DEF CInv, LateLocalOK, LateRemoteOK
    <3>4. DeletedThereOK' /\ DeletedHereOK'
      BY <1>1, <2>2, <3>1 DEF CInv, DeletedThereOK, DeletedHereOK
    <3> QED
      BY <3>2, <3>3, <3>4
  <2>5. WaitingOK' /\ WatchOK'
    BY <1>1, <2>2, WatchStays DEF WaitingOK
  <2> QED
    BY <1>1, <2>4, <2>5, NothingToSave DEF CInv
<1>5. CASE ~HereKnown(doc)
  <2>1. /\ outcome.rename = "none" /\ outcome.op = "put"
        /\ disk # NoFile => outcome = LocalUpdate(disk, doc)
        /\ disk = NoFile => outcome = Trash("local", doc)
    <3>1. CASE disk # NoFile
      BY <1>2, <1>5, <3>1, FoundMerges
    <3>2. CASE disk = NoFile
      BY <1>2, <1>5, <3>2, MissingMerges DEF HereKnown
    <3> QED
      BY <3>1, <3>2
  <2> HIDE DEF outcome
  <2>2. /\ UNCHANGED <<disk, dirty>> /\ Write(outcome.doc) /\ Updates(doc, outcome.doc)
    BY <1>3, <2>1 DEF MergeLocal, Commits, outcome
  <2>3. /\ FilesOK' /\ CalmOK' /\ KnownOK' /\ LateLocalOK' /\ LateRemoteOK'
        /\ DeletedThereOK' /\ DeletedHereOK'
    BY <1>1, <1>5, <2>1, <2>2, FoundCInv, MissingCInv
  <2>4. WaitingOK' /\ WatchOK'
    <3>1. Last' = Last /\ Moved' = Moved
      BY <1>1 DEF Last, Moved
    <3> QED
      BY <1>1, <3>1 DEF WaitingOK, WatchOK, CInv
  <2> QED
    BY <1>1, <2>3, <2>4, NothingToSave DEF CInv
<1> QED
  BY <1>4, <1>5

(* Merges of remote changes *)

(* What a file of the Cozy makes of a record, when there is no conflict: it *)
(* tells of the file, and forgets the one of the disk if it was deleted.    *)
LEMMA SeenIs ==
  ASSUME NEW info \in RemoteInfos, NEW was \in Docs, ~was.trashed,
         was # NoDoc /\ ~was.deleted =>
           /\ info.id # was.remote.id \/ info.rev # was.remote.rev
           /\ \/ SameBinary(info.content, was.md5sum)
              \/ IsAtLeastUpToDate("remote", was.sides)
  PROVE  LET outcome == RemoteUpdate(info, was)
             record == outcome.doc
         IN /\ outcome.rename = "none" /\ outcome.op = "put" /\ record \in Docs
            /\ record.remote = info /\ record.md5sum = info.content
            /\ ~record.deleted /\ ~record.trashed
            /\ IF was = NoDoc \/ was.deleted
               THEN /\ record.sides = MarkSide("remote", NoSides)
                    /\ record.local = NoFile /\ record.ino = NoFile.ino
               ELSE /\ record.sides = MarkSide("remote", was.sides)
                    /\ record.local = was.local /\ record.ino = was.ino
<1> DEFINE seen == [was EXCEPT !.md5sum = info.content, !.remote = info]
           alone == [NoDoc EXCEPT !.rev = was.rev, !.md5sum = info.content,
                                  !.remote = info]
           first == Marked("remote", alone)
           next == Marked("remote", seen)
<1>1. /\ seen \in Docs /\ seen.md5sum = info.content /\ seen.remote = info
      /\ seen.local = was.local /\ seen.ino = was.ino /\ seen.sides = was.sides
      /\ seen.deleted = was.deleted /\ seen.trashed = was.trashed
  BY DEF Docs, RemoteInfos
<1>2. NoDoc \in Docs
  BY NoDocGood DEF Good
<1>3. /\ alone \in Docs /\ alone.md5sum = info.content /\ alone.remote = info
      /\ alone.local = NoFile /\ alone.ino = NoFile.ino /\ alone.sides = NoSides
      /\ ~alone.deleted /\ ~alone.trashed
  BY <1>2 DEF Docs, RemoteInfos, NoDoc
<1> HIDE DEF seen, alone
<1>4. /\ first \in Docs /\ first.sides = MarkSide("remote", NoSides)
      /\ first.md5sum = info.content /\ first.remote = info
      /\ first.local = NoFile /\ first.ino = NoFile.ino
      /\ ~first.deleted /\ ~first.trashed
  BY <1>3, MarkedIs DEF Side, Marked, Docs
<1>5. /\ next \in Docs /\ next.sides = MarkSide("remote", was.sides)
      /\ next.md5sum = info.content /\ next.remote = info
      /\ next.local = was.local /\ next.ino = was.ino
      /\ next.deleted = was.deleted /\ next.trashed = was.trashed
  BY <1>1, MarkedIs DEF Side, Marked, Docs
<1>6. CASE was = NoDoc \/ was.deleted
  <2>1. RemoteUpdate(info, was) = Save(first)
    BY <1>6 DEF RemoteUpdate, alone
  <2> HIDE DEF first
  <2> QED
    BY <1>4, <1>6, <2>1 DEF Save
<1>7. CASE ~(was = NoDoc \/ was.deleted)
  <2>1. ~SameFile(seen, was)
    BY <1>1, <1>7 DEF SameFile
  <2>2. RemoteUpdate(info, was) = Save(next)
    BY <1>7, <2>1 DEF RemoteUpdate, seen
  <2> HIDE DEF next
  <2> QED
    BY <1>5, <1>7, <2>2 DEF Save
<1> QED
  BY <1>6, <1>7

(* The remote watcher merges the change of the last file of the Cozy. *)
LEMMA RemoteEventIs ==
  ASSUME IInv, HInv, LInv, CInv, MergeRemote
  PROVE  /\ owner = "remote" /\ owner' = "remote" /\ merge' = NoMerge
         /\ UNCHANGED <<disk, dirty, found, sync, blocked, ops>>
         /\ recent = {} /\ sync.pc = "idle"
         /\ merge.event = Event(Last) /\ Last \in unseen /\ Last \in DOMAIN cozy
         /\ cozy[Last].where \in {"live", "trash"}
         /\ merge.was.remote = doc.remote
         /\ merge.was = doc \/ RemoteOutcome.rename = "none"
         /\ RemoteInfo(merge.event.id, merge.event) = RemoteInfo(Last, cozy[Last])
<1>1. /\ owner = "remote" /\ owner' = "remote" /\ merge' = NoMerge
      /\ UNCHANGED <<disk, dirty, found, sync, blocked, ops>>
      /\ merge # NoMerge /\ sync.pc = "idle"
  BY TypeParts DEF MergeRemote, local, bounds, users, IInv, SyncOK, Types, SyncTypes
<1>2. merge.event \in Announced
  BY RemoteOutcomeUpdates DEF Announced
<1>3. /\ merge.event = Event(Last) /\ Last \in unseen /\ recent = {}
      /\ merge.was.remote = doc.remote
      /\ merge.was = doc \/ RemoteOutcome.rename = "none"
  BY <1>1, <1>2 DEF CInv, WatchOK
<1>4. Last \in DOMAIN cozy /\ cozy[Last] \in File
  BY <1>3, LastIs
<1>5. /\ Event(Last).id = Last /\ Event(Last).rev = cozy[Last].rev
      /\ Event(Last).content = cozy[Last].content /\ Event(Last).where = cozy[Last].where
  BY DEF Event
<1>6. cozy[Last].where \in {"live", "trash"}
  BY <1>2, <1>3, <1>4, <1>5 DEF LInv, AnnouncedOK, Current, File, Places
<1> QED
  BY <1>1, <1>3, <1>4, <1>5, <1>6 DEF RemoteInfo

(* It is ignored if it is known, and merged with what the record tells.     *)
LEMMA RemoteNewsIs ==
  ASSUME IInv, HInv, LInv, CInv, MergeRemote
  PROVE  \/ RemoteOutcome = Ignore /\ ThereKnown(doc)
         \/ /\ LastIsLive /\ ~ThereKnown(doc)
            /\ RemoteOutcome = RemoteUpdate(RemoteInfo(Last, cozy[Last]), merge.was)
         \/ /\ cozy[Last].where = "trash" /\ doc.remote.id = Last
            /\ doc.remote.rev < cozy[Last].rev
            /\ RemoteOutcome = Trash("remote", merge.was)
<1>1. /\ Last \in unseen /\ Last \in DOMAIN cozy /\ cozy[Last].where \in {"live", "trash"}
      /\ merge.was.remote = doc.remote /\ merge.event = Event(Last)
      /\ RemoteInfo(merge.event.id, merge.event) = RemoteInfo(Last, cozy[Last])
  BY RemoteEventIs
<1>2. /\ merge.event.id = Last /\ merge.event.rev = cozy[Last].rev
      /\ merge.event.where = cozy[Last].where
  BY <1>1 DEF Event
<1>3. /\ doc.remote.id \in Nat /\ doc.remote.rev \in Nat /\ cozy[Last].rev \in Nat
      /\ doc.remote # NoRemote => /\ doc.remote.id \in DOMAIN cozy
                                  /\ doc.remote.rev \in 1..cozy[doc.remote.id].rev
      /\ Last # 0
  BY <1>1, RecordIs, LastIs DEF RemoteInfos
<1>4. doc.deleted /\ doc.remote # NoRemote => LateSide \in {"local", "remote"}
  BY LateIs DEF CInv, CalmOK
<1>5. CASE doc.remote.id = Last /\ doc.remote.rev >= cozy[Last].rev
  <2>1. RemoteOutcome = Ignore
    BY <1>1, <1>2, <1>5 DEF RemoteOutcome
  <2>2. doc.remote # NoRemote /\ doc.remote.rev = cozy[Last].rev /\ ~Ahead
    BY <1>3, <1>5 DEF NoRemote, Ahead
  <2>3. LastIsLive
    <3> SUFFICES ASSUME cozy[Last].where = "trash" PROVE FALSE
      BY <1>1 DEF LastIsLive
    <3>1. doc.deleted
      BY <1>5, <2>2 DEF CInv, KnownOK
    <3>2. ~LastIsLive
      BY DEF LastIsLive
    <3> QED
      BY <1>4, <2>2, <3>1, <3>2 DEF CInv, DeletedThereOK, DeletedHereOK
  <2> QED
    BY <1>5, <2>1, <2>2, <2>3 DEF ThereKnown
<1>6. CASE cozy[Last].where = "live" /\ ~(doc.remote.id = Last /\ doc.remote.rev >= cozy[Last].rev)
  <2>1. LastIsLive /\ ~ThereKnown(doc)
    BY <1>1, <1>3, <1>6 DEF LastIsLive, ThereKnown
  <2> QED
    BY <1>1, <1>2, <1>6, <2>1 DEF RemoteOutcome
<1>7. CASE /\ cozy[Last].where = "trash" /\ doc.remote.id = Last
           /\ ~(doc.remote.rev >= cozy[Last].rev)
  <2>1. doc.remote.rev < cozy[Last].rev
    BY <1>3, <1>7
  <2> QED
    BY <1>1, <1>2, <1>7, <2>1 DEF RemoteOutcome
<1>8. CASE cozy[Last].where = "trash" /\ doc.remote.id # Last
  <2>1. RemoteOutcome = Ignore
    BY <1>1, <1>2, <1>8 DEF RemoteOutcome
  <2>2. ~LastIsLive
    BY <1>8 DEF LastIsLive
  <2>3. doc.remote = NoRemote
    BY <1>4, <1>8, <2>2 DEF CInv, KnownOK, DeletedThereOK, DeletedHereOK
  <2> QED
    BY <2>1, <2>2, <2>3 DEF ThereKnown
<1> QED
  BY <1>1, <1>5, <1>6, <1>7, <1>8

(* The record of a file that neither side has is erased. *)
LEMMA ErasedCInv ==
  ASSUME IInv, HInv, LInv, CInv, EraseDoc, disk = NoFile, ~LastIsLive,
         UNCHANGED <<disk, cozy, unseen, ops>>,
         sync'.change.ino \in {sync.change.ino, NoFile.ino}
  PROVE  /\ FilesOK' /\ CalmOK' /\ KnownOK' /\ LateLocalOK' /\ LateRemoteOK'
         /\ DeletedThereOK' /\ DeletedHereOK' /\ ThereKnown(doc)'
<1>1. /\ doc' = NoDoc /\ history' = <<>> /\ LastIsLive' = LastIsLive /\ Moved' = Moved
      /\ Last' = Last
  BY DEF EraseDoc, LastIsLive, Moved, Last
<1>2. /\ NoDoc.local = NoFile /\ NoDoc.remote = NoRemote /\ ~NoDoc.deleted
      /\ NoDoc.ino = NoFile.ino /\ NoDoc.sides = NoSides
  BY DEF NoDoc
<1>3. LateSide' = "none" /\ HereKnown(doc)' /\ ThereKnown(doc)'
  BY <1>1, <1>2 DEF LateSide, OutOfDateSide, NoSides, HereKnown, ThereKnown
<1>4. FilesOK'
  <2>1. \A n \in Nat : <<"user", n>> # NoFile.ino
    BY DEF NoFile
  <2> QED
    BY <1>1, <1>2, <2>1 DEF FilesOK, CInv
<1>5. CalmOK' /\ KnownOK'
  BY <1>1, <1>2, <1>3 DEF CalmOK, NeverTrashed, KnownOK
<1> QED
  BY <1>3, <1>4, <1>5 DEF LateLocalOK, LateRemoteOK, DeletedThereOK, DeletedHereOK

(* What a trashing on the Cozy makes of the record that knows the file: it  *)
(* is erased if the file was deleted on the disk, or the disk is late.      *)
LEMMA TrashingMerges ==
  ASSUME IInv, HInv, LInv, CInv, Last \in unseen, cozy[Last].where = "trash",
         doc.remote.id = Last, doc.remote.rev < cozy[Last].rev
  PROVE  LET outcome == Trash("remote", doc)
             record == outcome.doc
         IN /\ ~LastIsLive
            /\ \/ /\ disk = NoFile
                  /\ outcome.rename = "none" /\ outcome.op = "erase"
               \/ /\ disk = NoFile \/ HereKnown(doc)
                  /\ outcome.rename = "none" /\ outcome.op = "put" /\ record \in Docs
                  /\ record.local = doc.local /\ record.remote = doc.remote
                  /\ record.ino = doc.ino /\ record.deleted /\ ~record.trashed
                  /\ OutOfDateSide(record.sides) = "local"
                  /\ HasBothSides(record.sides)
<1>1. ~LastIsLive /\ ~(Last \in Moved) /\ Last \in DOMAIN cozy /\ Last # 0
  BY LastIs DEF LastIsLive, Moved
<1>2. doc # NoDoc /\ doc.remote # NoRemote /\ doc.sides.remote # 0
  BY <1>1, RecordIs DEF NoRemote
<1>3. /\ doc \in Docs /\ ~doc.trashed /\ doc.sides \in Sides /\ Follows(doc.sides)
  BY RecordIs
<1>4. ~doc.deleted => LateSide = "none"
  BY <1>1, LateIs DEF CInv, LateLocalOK, LateRemoteOK
<1>5. HasBothSides(doc.sides)
  <2>1. ~doc.deleted => doc.sides.local = doc.sides.target /\ doc.sides.target # 0
    BY <1>2, <1>4, LateIs
  <2> QED
    BY <1>2, <2>1 DEF CInv, CalmOK, HasBothSides
<1>6. CASE LateSide = "remote"
  <2>1. doc.deleted /\ disk = NoFile /\ SameBinary(doc.local.content, doc.remote.content)
    BY <1>4, <1>6 DEF CInv, DeletedHereOK
  <2>2. doc.sides.local = doc.sides.target /\ doc.sides.remote < doc.sides.target
    BY <1>6, LateIs
  <2>3. IsAtLeastUpToDate("local", doc.sides) /\ ~IsAtLeastUpToDate("remote", doc.sides)
    BY <1>3, <1>5, <2>2 DEF IsAtLeastUpToDate, Sides
  <2>4. OtherSide("remote") = "local"
    BY DEF OtherSide
  <2>5. Trash("remote", doc) = Erase(doc)
    BY <2>1, <2>3, <2>4 DEF Trash
  <2> QED
    BY <1>1, <2>1, <2>5 DEF Erase
<1>7. CASE LateSide # "remote"
  <2> DEFINE calm == [doc EXCEPT !.errors = 0]
             marked == Marked("remote", calm)
             record == [marked EXCEPT !.deleted = TRUE]
  <2>1. disk = NoFile \/ HereKnown(doc)
    <3>1. CASE doc.deleted
      <4>1. LateSide = "local" /\ (~pending => disk = NoFile)
        BY <1>7, <3>1, LateIs DEF CInv, CalmOK, DeletedThereOK
      <4> QED
        BY <3>1, <4>1 DEF CInv, DeletedThereOK
    <3>2. CASE ~doc.deleted
      BY <1>1, <1>2, <3>2 DEF CInv, KnownOK, ThereKnown
    <3> QED
      BY <3>1, <3>2
  <2>2. IsAtLeastUpToDate("remote", doc.sides)
    <3>1. doc.sides.remote = doc.sides.target
      BY <1>7, LateIs
    <3> QED
      BY <1>3, <1>5, <3>1 DEF IsAtLeastUpToDate, Sides
  <2>3. /\ calm \in Docs /\ calm.sides = doc.sides /\ calm.local = doc.local
        /\ calm.remote = doc.remote /\ calm.ino = doc.ino /\ calm.trashed = doc.trashed
    BY <1>3 DEF Docs
  <2>4. Trash("remote", doc) = Save(record)
    BY <1>2, <2>2 DEF Trash
  <2> HIDE DEF calm
  <2>5. /\ marked \in Docs /\ marked.sides = MarkSide("remote", doc.sides)
        /\ marked.local = doc.local /\ marked.remote = doc.remote
        /\ marked.ino = doc.ino /\ marked.trashed = doc.trashed
    BY <2>3, MarkedIs DEF Side, Marked, Docs
  <2> HIDE DEF marked
  <2>6. /\ record \in Docs /\ record.sides = marked.sides /\ record.local = marked.local
        /\ record.remote = marked.remote /\ record.ino = marked.ino
        /\ record.trashed = marked.trashed /\ record.deleted
    BY <2>5, DocWith DEF Docs
  <2> HIDE DEF record
  <2>7. OutOfDateSide(record.sides) = "local" /\ HasBothSides(record.sides)
    <3>1. /\ OutOfDateSide(record.sides) = "local"
          /\ record.sides.remote = doc.sides.target + 1
          /\ record.sides.local = doc.sides.local /\ doc.sides.target \in Nat
      BY <1>3, <2>5, <2>6, MarkSideLate DEF OtherSide, Side, Sides
    <3> QED
      BY <1>5, <3>1 DEF HasBothSides
  <2> QED
    BY <1>1, <1>3, <2>1, <2>4, <2>5, <2>6, <2>7 DEF Save
<1> QED
  BY <1>6, <1>7

(* Once it was merged, the disk is late, or there is no record any more. *)
LEMMA TrashingCInv ==
  ASSUME IInv, HInv, LInv, CInv, NEW record \in Docs,
         Last \in unseen, cozy[Last].where = "trash",
         doc.remote.id = Last, doc.remote.rev < cozy[Last].rev,
         UNCHANGED <<disk, cozy, unseen, ops, sync, blocked>>, Write(record),
         disk = NoFile \/ HereKnown(doc), record.local = doc.local,
         record.remote = doc.remote, record.ino = doc.ino, record.deleted,
         ~record.trashed, OutOfDateSide(record.sides) = "local",
         HasBothSides(record.sides)
  PROVE  /\ FilesOK' /\ CalmOK' /\ KnownOK' /\ LateLocalOK' /\ LateRemoteOK'
         /\ DeletedThereOK' /\ DeletedHereOK' /\ ThereKnown(doc)'
<1>1. /\ doc'.sides = record.sides /\ doc'.local = doc.local /\ doc'.remote = doc.remote
      /\ doc'.ino = doc.ino /\ doc'.deleted /\ doc' # NoDoc /\ pending' = TRUE
      /\ NeverTrashed'
  BY WrittenIs
<1>2. ~LastIsLive /\ Last \in DOMAIN cozy
  BY LastIs DEF LastIsLive
<1>3. /\ Last' = Last /\ ~LastIsLive' /\ Moved' = Moved /\ LateSide' = "local"
      /\ HereKnown(doc)' /\ ThereKnown(doc)' /\ Ahead'
  BY <1>1, <1>2 DEF Last, LastIsLive, Moved, LateSide, HereKnown, ThereKnown, Ahead
<1>4. FilesOK' /\ CalmOK' /\ KnownOK'
  BY <1>1, <1>3 DEF CInv, FilesOK, CalmOK, KnownOK, HasBothSides
<1>5. DeletedThereOK'
  BY <1>1, <1>3 DEF DeletedThereOK
<1> QED
  BY <1>1, <1>3, <1>4, <1>5 DEF LateLocalOK, LateRemoteOK, DeletedHereOK

(* What the file of the Cozy makes of a record that was not told of it. *)
LEMMA SeenMerges ==
  ASSUME IInv, HInv, LInv, CInv, Last \in unseen, LastIsLive, ~ThereKnown(doc)
  PROVE  LET info == RemoteInfo(Last, cozy[Last])
             outcome == RemoteUpdate(info, doc)
             record == outcome.doc
         IN /\ outcome.rename = "none" /\ outcome.op = "put" /\ record \in Docs
            /\ record.remote = info /\ record.md5sum = cozy[Last].content
            /\ ~record.deleted /\ ~record.trashed
            /\ OutOfDateSide(record.sides) = "local" /\ record.sides.remote # 0
            /\ \/ /\ disk = NoFile /\ record.sides.local = 0
                  /\ record.local = NoFile /\ record.ino = NoFile.ino
               \/ /\ disk # NoFile /\ HereKnown(doc) /\ LateSide # "local"
                  /\ doc # NoDoc /\ record.local = doc.local /\ record.ino = doc.ino
                  /\ record.sides = MarkSide("remote", doc.sides)
<1> DEFINE info == RemoteInfo(Last, cozy[Last])
           record == RemoteUpdate(info, doc).doc
<1>1. /\ Last \in DOMAIN cozy /\ cozy[Last].content \in Nat /\ cozy[Last].rev \in Nat
      /\ Last \in Nat /\ Last \notin Moved
  BY LastIs DEF LastIsLive, Moved
<1>2. /\ info \in RemoteInfos /\ info.id = Last /\ info.rev = cozy[Last].rev
      /\ info.content = cozy[Last].content
  BY <1>1 DEF RemoteInfo, RemoteInfos
<1>3. /\ doc \in Docs /\ ~doc.trashed /\ doc.sides \in Sides /\ Follows(doc.sides)
  BY RecordIs
<1> HIDE DEF info
<1>4. doc # NoDoc /\ ~doc.deleted =>
        /\ LateSide # "local" /\ HereKnown(doc) /\ disk # NoFile
        /\ info.id # doc.remote.id \/ info.rev # doc.remote.rev
        /\ \/ SameBinary(info.content, doc.md5sum)
           \/ IsAtLeastUpToDate("remote", doc.sides)
  <2> SUFFICES ASSUME doc # NoDoc, ~doc.deleted
               PROVE  /\ LateSide # "local" /\ HereKnown(doc) /\ disk # NoFile
                      /\ info.id # doc.remote.id \/ info.rev # doc.remote.rev
                      /\ \/ SameBinary(info.content, doc.md5sum)
                         \/ IsAtLeastUpToDate("remote", doc.sides)
    OBVIOUS
  <2>1. LateSide # "local" /\ HereKnown(doc)
    BY DEF CInv, LateLocalOK, KnownOK
  <2>2. info.id # doc.remote.id \/ info.rev # doc.remote.rev
    BY <1>2 DEF ThereKnown
  <2>3. CASE LateSide = "none"
    <3>1. /\ doc.sides.local = doc.sides.target /\ doc.sides.remote = doc.sides.target
          /\ doc.sides.target # 0 /\ doc.local # NoFile
      BY <2>3, LateIs, RecordIs
    <3>2. IsAtLeastUpToDate("remote", doc.sides)
      BY <1>3, <3>1 DEF IsAtLeastUpToDate, Sides
    <3> QED
      BY <2>1, <2>2, <3>1, <3>2 DEF HereKnown
  <2>4. CASE LateSide = "remote"
    BY <1>2, <2>1, <2>2, <2>4 DEF CInv, LateRemoteOK, FilesOK, SameBinary
  <2> QED
    BY <2>1, <2>3, <2>4, LateIs
<1>5. doc = NoDoc \/ doc.deleted => disk = NoFile
  <2>1. doc = NoDoc => disk = NoFile
    BY <1>1 DEF CInv, KnownOK
  <2>2. doc.deleted => disk = NoFile
    BY LateIs DEF CInv, CalmOK, DeletedThereOK, DeletedHereOK
  <2> QED
    BY <2>1, <2>2
<1>6. /\ RemoteUpdate(info, doc).rename = "none" /\ RemoteUpdate(info, doc).op = "put"
      /\ record \in Docs /\ record.remote = info /\ record.md5sum = info.content
      /\ ~record.deleted /\ ~record.trashed
      /\ IF doc = NoDoc \/ doc.deleted
         THEN /\ record.sides = MarkSide("remote", NoSides)
              /\ record.local = NoFile /\ record.ino = NoFile.ino
         ELSE /\ record.sides = MarkSide("remote", doc.sides)
              /\ record.local = doc.local /\ record.ino = doc.ino
  BY <1>2, <1>3, <1>4, SeenIs
<1> HIDE DEF record
<1>7. CASE doc = NoDoc \/ doc.deleted
  <2>1. NoSides \in Sides /\ Follows(NoSides) /\ NoSides.local = 0 /\ NoSides.target = 0
    BY DEF NoSides, Sides, Follows
  <2>2. /\ OutOfDateSide(record.sides) = "local" /\ record.sides.local = 0
        /\ record.sides.remote = 1
    BY <1>6, <1>7, <2>1, MarkSideLate DEF Side, OtherSide
  <2> QED
    BY <1>2, <1>5, <1>6, <1>7, <2>2 DEF info, record
<1>8. CASE ~(doc = NoDoc \/ doc.deleted)
  <2>1. OutOfDateSide(record.sides) = "local" /\ record.sides.remote = doc.sides.target + 1
    BY <1>3, <1>6, <1>8, MarkSideLate DEF Side, OtherSide
  <2>2. record.sides.remote # 0
    BY <1>3, <2>1 DEF Sides
  <2> QED
    BY <1>2, <1>4, <1>6, <1>8, <2>1, <2>2 DEF info, record
<1> QED
  BY <1>7, <1>8

(* Once it was merged, the disk is late, unless it has the content too.     *)
LEMMA SeenCInv ==
  ASSUME IInv, HInv, LInv, CInv, Last \in unseen, LastIsLive, ~ThereKnown(doc),
         UNCHANGED <<disk, cozy, unseen, ops, sync, blocked>>,
         Updates(doc, RemoteUpdate(RemoteInfo(Last, cozy[Last]), doc).doc),
         Write(RemoteUpdate(RemoteInfo(Last, cozy[Last]), doc).doc)
  PROVE  /\ FilesOK' /\ CalmOK' /\ KnownOK' /\ LateLocalOK' /\ LateRemoteOK'
         /\ DeletedThereOK' /\ DeletedHereOK' /\ ThereKnown(doc)'
<1> DEFINE record == RemoteUpdate(RemoteInfo(Last, cozy[Last]), doc).doc
<1>1. /\ record \in Docs /\ record.remote = RemoteInfo(Last, cozy[Last])
      /\ record.md5sum = cozy[Last].content
      /\ ~record.deleted /\ ~record.trashed
      /\ OutOfDateSide(record.sides) = "local" /\ record.sides.remote # 0
      /\ \/ /\ disk = NoFile /\ record.sides.local = 0
            /\ record.local = NoFile /\ record.ino = NoFile.ino
         \/ /\ disk # NoFile /\ HereKnown(doc) /\ LateSide # "local"
            /\ doc # NoDoc /\ record.local = doc.local /\ record.ino = doc.ino
            /\ record.sides = MarkSide("remote", doc.sides)
      /\ Write(record) /\ Updates(doc, record)
  BY SeenMerges
<1> HIDE DEF record
<1>2. /\ doc'.sides = record.sides /\ doc'.md5sum = cozy[Last].content
      /\ doc'.local = record.local /\ doc'.remote.id = Last
      /\ doc'.remote.rev = cozy[Last].rev /\ doc'.ino = record.ino
      /\ ~doc'.deleted /\ doc' # NoDoc /\ pending' = TRUE /\ NeverTrashed'
  <2>1. record.remote.id = Last /\ record.remote.rev = cozy[Last].rev
    BY <1>1 DEF RemoteInfo
  <2>2. ~record.trashed /\ record \in Docs /\ Write(record)
    BY <1>1
  <2>3. /\ doc'.sides = record.sides /\ doc'.md5sum = record.md5sum
        /\ doc'.local = record.local /\ doc'.remote = record.remote
        /\ doc'.ino = record.ino /\ doc'.deleted = record.deleted
        /\ doc' # NoDoc /\ pending' = TRUE /\ NeverTrashed'
    BY <2>2, WrittenIs
  <2> QED
    BY <1>1, <2>1, <2>3
<1>3. /\ Last' = Last /\ LastIsLive' /\ Moved' = Moved /\ LateSide' = "local"
      /\ ThereKnown(doc)' /\ Last \notin Moved /\ cozy[Last].where = "live"
  BY <1>1, <1>2 DEF Last, LastIsLive, Moved, LateSide, ThereKnown
<1>4. HereKnown(doc)'
  BY <1>1, <1>2 DEF HereKnown
<1>5. FilesOK'
  <2>1. /\ disk # NoFile /\ disk.date = doc'.local.date => disk = doc'.local
        /\ doc'.local # NoFile => doc'.ino = doc'.local.ino
    BY <1>1, <1>2 DEF CInv, FilesOK
  <2>2. \A n \in Nat : <<"user", n>> # NoFile.ino
    BY DEF NoFile
  <2> QED
    BY <1>1, <1>2, <1>3, <2>1, <2>2 DEF CInv, FilesOK
<1>6. CalmOK'
  <2>1. record.sides.local = 0 => record.local = NoFile /\ record.ino = NoFile.ino
    <3> SUFFICES ASSUME record.sides = MarkSide("remote", doc.sides),
                        record.local = doc.local, record.ino = doc.ino,
                        record.sides.local = 0
                 PROVE  record.local = NoFile /\ record.ino = NoFile.ino
      BY <1>1
    <3>1. record.sides.local = doc.sides.local
      BY RecordIs, MarkSideLate DEF Side, OtherSide
    <3> QED
      BY <3>1 DEF CInv, CalmOK
  <2> QED
    BY <1>1, <1>2, <2>1 DEF CalmOK
<1>7. KnownOK'
  BY <1>2, <1>3, <1>4 DEF KnownOK
<1>8. LateLocalOK'
  <2> SUFFICES ASSUME record.sides.local # 0
               PROVE  /\ disk # NoFile
                      /\ \/ disk.content = doc'.md5sum /\ disk.ino = doc'.ino
                         \/ OldAt("local")'.md5sum # doc'.md5sum
    BY <1>1, <1>2, <1>3, <1>4 DEF LateLocalOK
  <2>1. /\ disk # NoFile /\ HereKnown(doc) /\ LateSide # "local"
        /\ record.sides = MarkSide("remote", doc.sides)
    BY <1>1
  <2>2. /\ record.sides.local = doc.sides.local
        /\ record.sides.target = doc.sides.target + 1
        /\ doc.sides \in Sides /\ Follows(doc.sides)
    BY <2>1, RecordIs, MarkSideLate DEF Side, OtherSide
  <2>3. Late("local", record) /\ ~Late("local", doc)
    BY <2>1, <2>2, LateIs DEF Late, Sides, Follows, Side
  <2>4. OldAt("local")' = doc
    BY <1>1, <2>3, OldNext DEF Side
  <2>5. doc.md5sum = disk.content /\ doc'.ino = disk.ino
    BY <1>1, <1>2, <2>1, RecordIs DEF HereKnown, CInv, FilesOK, Told, LateSide
  <2> QED
    BY <2>1, <2>4, <2>5
<1> QED
  BY <1>2, <1>3, <1>5, <1>6, <1>7, <1>8
     DEF LateRemoteOK, DeletedThereOK, DeletedHereOK

(* The remote watcher merges the last change of the Cozy. *)
LEMMA MergeRemoteCInv == ASSUME IInv, HInv, LInv, CInv, MergeRemote PROVE CInv'
<1> DEFINE outcome == RemoteOutcome
           was == merge.was
<1>1. /\ owner = "remote" /\ owner' = "remote" /\ merge' = NoMerge
      /\ UNCHANGED <<disk, dirty, found, sync, blocked, ops>>
      /\ recent = {} /\ sync.pc = "idle"
      /\ merge.event = Event(Last) /\ Last \in unseen /\ Last \in DOMAIN cozy
      /\ was = doc \/ outcome.rename = "none"
  BY RemoteEventIs
<1>2. /\ outcome.op = "put" => Updates(was, outcome.doc)
      /\ was = doc \/ was.rev # doc.rev
  BY RemoteOutcomeUpdates DEF HInv, RevsOK, Dated
<1>3. \/ outcome = Ignore /\ ThereKnown(doc)
      \/ /\ LastIsLive /\ ~ThereKnown(doc)
         /\ outcome = RemoteUpdate(RemoteInfo(Last, cozy[Last]), was)
      \/ /\ cozy[Last].where = "trash" /\ doc.remote.id = Last
         /\ doc.remote.rev < cozy[Last].rev
         /\ outcome = Trash("remote", was)
  BY RemoteNewsIs
<1>4. outcome.rename = "none"
  BY <1>1, <1>3, SeenMerges, TrashingMerges DEF Ignore
<1>5. outcome.op = "none" => ThereKnown(doc)
  <2>1. outcome = Trash("remote", was) => outcome.op # "none"
    BY DEF Trash, Save, Erase
  <2>2. outcome = RemoteUpdate(RemoteInfo(Last, cozy[Last]), was) /\ outcome.op = "none"
        /\ ~ThereKnown(doc) /\ LastIsLive => FALSE
    <3> SUFFICES ASSUME outcome = RemoteUpdate(RemoteInfo(Last, cozy[Last]), was),
                        outcome.op = "none", ~ThereKnown(doc), LastIsLive
                 PROVE  FALSE
      OBVIOUS
    <3> DEFINE info == RemoteInfo(Last, cozy[Last])
               seen == [was EXCEPT !.md5sum = info.content, !.remote = info]
    <3>1. SameFile(seen, was)
      BY <1>4 DEF RemoteUpdate, Conflict, Save, OtherSide
    <3>2. was \in Docs /\ was.remote = doc.remote
      BY RemoteEventIs, RemoteOutcomeUpdates DEF Good
    <3>3. info.id = was.remote.id /\ info.rev = was.remote.rev
      BY <3>1, <3>2 DEF SameFile, Docs
    <3> QED
      BY <3>2, <3>3 DEF info, RemoteInfo, ThereKnown
  <2> QED
    BY <1>3, <2>1, <2>2
<1> HIDE DEF outcome, was
<1>6. PICK fails \in BOOLEAN :
        /\ fails <=> Refuses(outcome)
        /\ UNCHANGED <<cozy, unseen, recent>>
        /\ IF fails THEN UNCHANGED pouch ELSE Commits(outcome)
        /\ pull'.todo = pull.todo \ {Event(Last)}
        /\ pull'.failed = pull.failed \cup (IF fails THEN {Event(Last)} ELSE {})
  BY <1>1, <1>4 DEF MergeRemote, remote, outcome
<1>7. /\ FilesOK' /\ CalmOK' /\ KnownOK' /\ LateLocalOK' /\ LateRemoteOK'
      /\ DeletedThereOK' /\ DeletedHereOK'
      /\ fails \/ ThereKnown(doc)'
  <2>1. CASE UNCHANGED pouch /\ (fails \/ ThereKnown(doc))
    <3>1. LocalIsMerged' = LocalIsMerged /\ UNCHANGED <<doc, history, pending>>
      BY <1>1, <2>1 DEF LocalIsMerged, pouch
    <3>2. ThereKnown(doc)' = ThereKnown(doc)
      BY <1>6, <3>1 DEF ThereKnown, LastIsLive, Last
    <3> QED
      BY <1>1, <1>6, <2>1, <3>1, <3>2, RecordStays
  <2>2. CASE ~fails /\ outcome.op = "none"
    <3>1. UNCHANGED pouch
      BY <1>6, <2>2 DEF Commits
    <3> QED
      BY <1>5, <2>1, <2>2, <3>1
  <2>3. CASE ~fails /\ outcome.op # "none"
    <3>1. was = doc
      <4>1. outcome.op # "none" => Accepts(outcome.doc)
        BY <1>6, <2>3 DEF Refuses
      <4>2. outcome.op = "erase" => outcome.doc = was
        BY <1>3, <2>3 DEF Trash, Erase, Save, RemoteUpdate, Conflict, Ignore
      <4>3. outcome.op \in {"put", "erase"}
        BY <1>3, <2>3 DEF Trash, Erase, Save, RemoteUpdate, Conflict, Ignore
      <4> QED
        BY <1>2, <2>3, <4>1, <4>2, <4>3 DEF Accepts, Updates
    <3>2. \/ /\ LastIsLive /\ ~ThereKnown(doc)
             /\ outcome = RemoteUpdate(RemoteInfo(Last, cozy[Last]), doc)
          \/ /\ cozy[Last].where = "trash" /\ doc.remote.id = Last
             /\ doc.remote.rev < cozy[Last].rev
             /\ outcome = Trash("remote", doc)
      BY <1>3, <2>3, <3>1 DEF Ignore
    <3>3. CASE /\ LastIsLive /\ ~ThereKnown(doc)
               /\ outcome = RemoteUpdate(RemoteInfo(Last, cozy[Last]), doc)
      <4>1. outcome.op = "put"
        BY <1>1, <3>3, SeenMerges
      <4>2. Write(outcome.doc) /\ Updates(doc, outcome.doc)
        BY <1>2, <1>6, <2>3, <3>1, <4>1 DEF Commits
      <4> QED
        BY <1>1, <1>6, <3>3, <4>2, SeenCInv
    <3>4. CASE /\ cozy[Last].where = "trash" /\ doc.remote.id = Last
               /\ doc.remote.rev < cozy[Last].rev
               /\ outcome = Trash("remote", doc)
      <4>1. CASE disk = NoFile /\ ~LastIsLive /\ outcome.op = "erase"
        <5>1. EraseDoc
          BY <1>6, <2>3, <4>1 DEF Commits
        <5> QED
          BY <1>1, <1>6, <4>1, <5>1, ErasedCInv
      <4>2. CASE outcome.op = "put"
        <5>1. Write(outcome.doc)
          BY <1>6, <2>3, <4>2 DEF Commits
        <5>2. /\ disk = NoFile \/ HereKnown(doc)
              /\ outcome.doc \in Docs
              /\ outcome.doc.local = doc.local /\ outcome.doc.remote = doc.remote
              /\ outcome.doc.ino = doc.ino /\ outcome.doc.deleted /\ ~outcome.doc.trashed
              /\ OutOfDateSide(outcome.doc.sides) = "local"
              /\ HasBothSides(outcome.doc.sides)
          BY <1>1, <3>4, <4>2, TrashingMerges
        <5> QED
          BY <1>1, <1>6, <3>4, <5>1, <5>2, TrashingCInv
      <4> QED
        BY <1>1, <3>4, <4>1, <4>2, TrashingMerges
    <3> QED
      BY <3>2, <3>3, <3>4
  <2> QED
    BY <1>6, <2>1, <2>2, <2>3
<1>8. WaitingOK' /\ AppliesOK'
  BY <1>1, NothingToSave DEF WaitingOK, CInv
<1>9. WatchOK'
  <2>1. Last' = Last /\ Moved' = Moved /\ \A id : Event(id)' = Event(id)
    BY <1>6 DEF Last, Moved, Event
  <2>2. fails => Event(Last) \in Announced'
    BY <1>6 DEF Announced
  <2>3. Announced' \subseteq Announced \cup {Event(Last)}
    BY <1>6 DEF Announced
  <2>4. Announced' \subseteq {Event(id) : id \in {Last} \cap unseen}
    BY <1>1, <2>3 DEF CInv, WatchOK
  <2> QED
    BY <1>1, <1>6, <1>7, <2>1, <2>2, <2>4 DEF CInv, WatchOK
<1> QED
  BY <1>7, <1>8, <1>9 DEF CInv

(* Changes that Sync applies *)

(* Sync applies the change of the record to the side that is late. *)
LEMMA ApplyingIs ==
  ASSUME IInv, HInv, LInv, CInv, NEW side \in Side, Applies(side)
  PROVE  /\ Change = doc /\ doc # NoDoc /\ LateSide = side /\ sync.side = side
         /\ owner = "sync" /\ pending /\ ~doc.trashed /\ Told(doc)
         /\ CurrentRev = doc.sides[side]
         /\ CurrentRev # 0 => Old = OldAt(side)
         /\ Task = "trash" => doc.deleted
         /\ doc.deleted => HasBothSides(doc.sides) /\ Task = "trash"
         /\ Task = "add" <=> ~doc.deleted /\ CurrentRev = 0
         /\ Task # "nothing"
         /\ Task = "metadata" => SameBinary(Old.md5sum, doc.md5sum)
         /\ side = "local" => found = <<>>
<1>1. /\ Change = doc /\ doc # NoDoc /\ sync.side = side /\ owner = "sync"
      /\ sync.pc = "apply" /\ CurrentRev = doc.sides[side]
      /\ ~doc.trashed /\ Told(doc)
  BY ChangeIs, RecordIs
<1>2. LateSide = side
  BY <1>1 DEF IInv, SyncOK, Change, LateSide
<1>3. pending
  BY <1>1 DEF CInv, AppliesOK
<1>4. CurrentRev # 0 => Old = OldAt(side)
  <2> SUFFICES ASSUME CurrentRev # 0 PROVE Old = OldAt(side)
    OBVIOUS
  <2>1. Old # NoDoc
    BY OldIs
  <2> QED
    BY <1>1, <2>1 DEF Old, OldAt
<1>5. doc.deleted => HasBothSides(doc.sides) /\ Task = "trash"
  <2> SUFFICES ASSUME doc.deleted PROVE HasBothSides(doc.sides) /\ Task = "trash"
    OBVIOUS
  <2>1. HasBothSides(doc.sides)
    BY DEF CInv, CalmOK
  <2> QED
    BY <1>1, <2>1 DEF HasBothSides, Task, Side
<1>6. ~doc.deleted => Task # "trash" /\ (Task = "add" <=> CurrentRev = 0)
  BY <1>1 DEF Task
<1>7. Task = "metadata" => SameBinary(Old.md5sum, doc.md5sum)
  BY <1>1 DEF Task
<1>8. Task # "nothing"
  <2> SUFFICES ASSUME Task = "nothing" PROVE FALSE
    OBVIOUS
  <2>1. ~doc.deleted /\ NeverTrashed
    BY <1>5 DEF CInv, CalmOK
  <2>2. CurrentRev # 0 /\ side = "remote"
    BY <1>1, <2>1, NothingIs DEF Side
  <2>3. SameFile(Old, doc) /\ Old \in Docs
    BY <1>1, <2>1, <2>2, OldIs DEF Task
  <2>4. Old.md5sum = doc.md5sum /\ Old.ino = doc.ino
    BY <2>3 DEF SameFile
  <2> QED
    BY <1>1, <1>2, <1>4, <2>1, <2>2, <2>4 DEF CInv, LateRemoteOK
<1>9. side = "local" => found = <<>>
  BY AppliedTells DEF Side
<1> QED
  BY <1>1, <1>2, <1>3, <1>4, <1>5, <1>6, <1>7, <1>8, <1>9

(* The disk has what the record tells, and Sync is about to save it.        *)
LEMMA PutOnDiskCInv ==
  ASSUME IInv, HInv, LInv, CInv, Applies("local"), ~doc.deleted,
         NEW change, Succeeds(change), UNCHANGED <<found, remote>>, dirty' = TRUE,
         disk'.content = doc.md5sum, disk'.date = Now,
         disk'.ino # NoFile.ino, change.local = disk', change.ino = disk'.ino,
         \/ /\ disk'.ino = Now
            /\ doc.sides.local # 0 => ~SameBinary(OldAt("local").md5sum, doc.md5sum)
         \/ disk'.ino = doc.ino /\ disk.content = doc.md5sum /\ disk.ino = doc.ino,
         change.remote = doc.remote, change.md5sum = doc.md5sum,
         ~change.trashed, change.deleted = doc.deleted
  PROVE  CInv'
<1>1. /\ UNCHANGED <<doc, history, puts, owner, merge, pull, ops>>
      /\ owner = "sync" /\ sync'.pc = "seq" /\ sync'.change = change
      /\ sync'.side = "local" /\ UNCHANGED <<pending, blocked>>
  <2>1. /\ UNCHANGED <<doc, history, puts, owner, merge, pull, users>>
        /\ owner = "sync" /\ sync'.pc = "seq" /\ sync'.change = change
    BY SucceedsIs DEF Side
  <2>2. sync'.side = sync.side /\ sync.side = "local"
    BY DEF Succeeds, Applies
  <2> QED
    BY <2>1, <2>2 DEF Succeeds, users, pouch
<1>2. /\ LateSide = "local" /\ doc # NoDoc /\ pending /\ found = <<>> /\ Told(doc)
  BY ApplyingIs DEF Side
<1>3. LastIsLive /\ ThereKnown(doc)
  BY <1>2 DEF CInv, LateLocalOK
<1>4. /\ Last' = Last /\ LastIsLive' = LastIsLive /\ Moved' = Moved
      /\ LateSide' = LateSide /\ ThereKnown(doc)' = ThereKnown(doc) /\ Ahead' = Ahead
      /\ OldAt("local")' = OldAt("local") /\ ~LocalIsMerged'
  BY <1>1 DEF remote, Last, LastIsLive, Moved, LateSide, ThereKnown, Ahead, OldAt,
              LocalIsMerged
<1>5. disk' # NoFile /\ disk'.content # None
  <2>1. doc.remote.id = Last /\ doc.remote.rev = cozy[Last].rev /\ Last # 0
    BY <1>3, LastIs DEF ThereKnown, LastIsLive
  <2>2. doc.remote.content = cozy[Last].content
    BY <2>1, RecordIs DEF NoRemote
  <2>3. doc.md5sum = cozy[Last].content
    BY <1>2, <2>2 DEF Told, LateSide
  <2> QED
    BY <1>3, <2>3 DEF CInv, FilesOK, NoFile
<1>6. doc.local.date # Now
  <2>1. Stamped(doc.local, ops, puts) /\ puts \in Nat
    BY DocIs DEF LInv, DocSafe
  <2> QED
    BY <2>1 DEF Stamped, Now
<1>7. FilesOK'
  <2>1. \A n \in Nat : <<"user", n>> # Now
    BY DEF Now
  <2>2. \A n \in Nat : <<"user", n>> \in {disk'.ino, doc.ino, change.ino} => n <= ops
    BY <2>1 DEF CInv, FilesOK
  <2>3. doc' = doc /\ ops' = ops /\ sync'.change = change /\ cozy' = cozy
    BY <1>1 DEF remote
  <2> QED
    BY <1>4, <1>5, <1>6, <2>2, <2>3 DEF CInv, FilesOK
<1>8. CalmOK'
  BY <1>1, <1>4 DEF CInv, CalmOK, NeverTrashed
<1>9. WaitingOK' /\ WatchOK'
  BY <1>1, <1>2, <1>4 DEF remote, CInv, WaitingOK, WatchOK
<1>10. KnownOK'
  <2>1. cozy' = cozy /\ unseen' = unseen
    BY DEF remote
  <2> QED
    BY <1>1, <1>2, <1>3, <1>4, <2>1 DEF CInv, KnownOK
<1>11. LateLocalOK'
  <2>1. \/ doc.sides.local = 0
        \/ disk'.ino = doc.ino
        \/ OldAt("local").md5sum # doc.md5sum
    BY <1>5 DEF SameBinary
  <2> QED
    BY <1>1, <1>2, <1>3, <1>4, <1>5, <2>1 DEF LateLocalOK
<1>12. LateRemoteOK' /\ DeletedThereOK' /\ DeletedHereOK'
  BY <1>1, <1>2, <1>4 DEF LateRemoteOK, DeletedThereOK, DeletedHereOK
<1>13. AppliesOK'
  <2>1. HereKnown(change)' /\ ~HereKnown(doc)'
    BY <1>1, <1>5, <1>6 DEF HereKnown
  <2>2. ThereKnown(change)'
    BY <1>3, <1>4 DEF ThereKnown, remote
  <2>3. HereKnown(sync.change)' /\ ThereKnown(sync.change)'
    BY <1>1, <2>1, <2>2 DEF HereKnown, ThereKnown
  <2>4. /\ sync'.pc = "seq" /\ sync'.side = "local" /\ LateSide' = "local" /\ pending'
        /\ ~sync'.change.trashed /\ sync'.change.deleted = doc'.deleted /\ ~doc'.deleted
        /\ disk'.content = sync'.change.md5sum /\ disk' # NoFile /\ LastIsLive'
        /\ sync'.change.local = disk' /\ sync'.change.ino = disk'.ino
    BY <1>1, <1>2, <1>3, <1>4, <1>5
  <2> QED
    BY <2>1, <2>3, <2>4 DEF AppliesOK, Side
<1> QED
  BY <1>7, <1>8, <1>9, <1>10, <1>11, <1>12, <1>13 DEF CInv

(* The file of the Cozy is downloaded. *)
LEMMA DownloadCInv == ASSUME IInv, HInv, LInv, CInv, Download PROVE CInv'
<1> DEFINE moved == [Change EXCEPT !.ino = Now]
           change == [moved EXCEPT !.local = Synced]
<1>1. /\ Applies("local") /\ disk' = Synced /\ dirty' = TRUE
      /\ Succeeds([Change EXCEPT !.ino = Now, !.local = Synced])
      /\ UNCHANGED <<found, remote>> /\ Task \in {"add", "overwrite"}
  BY DEF Download, Does
<1>2. /\ Change = doc /\ ~doc.deleted /\ doc \in Docs /\ ~doc.trashed
  BY <1>1, ApplyingIs, RecordIs DEF Side
<1>3. /\ Synced.content = doc.md5sum /\ Synced.date = Now /\ Synced.ino = Now
      /\ Now # NoFile.ino
  BY <1>2 DEF Synced, Now, NoFile
<1>4. /\ moved.md5sum = doc.md5sum /\ moved.remote = doc.remote /\ moved.ino = Now
      /\ moved.trashed = doc.trashed /\ moved.deleted = doc.deleted
      /\ change.md5sum = moved.md5sum /\ change.remote = moved.remote
      /\ change.ino = moved.ino /\ change.local = Synced
      /\ change.trashed = moved.trashed /\ change.deleted = moved.deleted
  BY <1>2 DEF Docs
<1>5. Succeeds(change)
  BY <1>1 DEF change, moved
<1>6. doc.sides.local # 0 => ~SameBinary(OldAt("local").md5sum, doc.md5sum)
  <2> SUFFICES ASSUME doc.sides.local # 0
               PROVE  ~SameBinary(OldAt("local").md5sum, doc.md5sum)
    OBVIOUS
  <2>1. /\ CurrentRev # 0 /\ Old = OldAt("local") /\ Task # "add"
        /\ sync.side = "local"
    BY <1>1, ApplyingIs DEF Side
  <2>2. Old # NoDoc
    BY <1>1, <2>1, OldIs DEF Side
  <2> QED
    BY <1>1, <1>2, <2>1, <2>2 DEF Task
<1> HIDE DEF change, moved
<1> QED
  BY <1>1, <1>2, <1>3, <1>4, <1>5, <1>6, PutOnDiskCInv

(* The file of the disk, which has the content already, gets a new date. *)
LEMMA UpdateLocalMetadataCInv ==
  ASSUME IInv, HInv, LInv, CInv, UpdateLocalMetadata PROVE CInv'
<1> DEFINE file == [Synced EXCEPT !.ino = Change.ino]
           change == [Change EXCEPT !.local = file]
<1>1. /\ Applies("local") /\ disk' = [disk EXCEPT !.date = Now] /\ dirty' = TRUE
      /\ Succeeds(change) /\ disk # NoFile
      /\ UNCHANGED <<found, remote>> /\ Task = "metadata"
  BY DEF UpdateLocalMetadata, Does
<1>2. /\ Change = doc /\ ~doc.deleted /\ doc \in Docs /\ ~doc.trashed
      /\ CurrentRev = doc.sides.local /\ LateSide = "local"
      /\ SameBinary(Old.md5sum, doc.md5sum)
      /\ CurrentRev # 0 => Old = OldAt("local")
      /\ Task = "add" <=> ~doc.deleted /\ CurrentRev = 0
  BY <1>1, ApplyingIs, RecordIs DEF Side
<1>3. disk.content = doc.md5sum /\ disk.ino = doc.ino
  BY <1>1, <1>2 DEF CInv, LateLocalOK, SameBinary
<1>4. /\ disk'.content = disk.content /\ disk'.date = Now /\ disk'.ino = disk.ino
      /\ disk.ino # NoFile.ino /\ file = disk'
  <2>1. disk \in Files
    BY RecordIs
  <2>2. /\ disk' = [content |-> disk.content, date |-> Now, ino |-> disk.ino]
        /\ disk.ino # NoFile.ino
    BY <1>1, <2>1 DEF Files, CInv, FilesOK
  <2> QED
    BY <1>2, <1>3, <2>2 DEF Synced
<1>5. /\ change.md5sum = doc.md5sum /\ change.remote = doc.remote
      /\ change.ino = doc.ino /\ change.local = file /\ file.date = Now
      /\ change.trashed = doc.trashed /\ change.deleted = doc.deleted
  BY <1>2 DEF Docs, Synced
<1> HIDE DEF change
<1> QED
  BY <1>1, <1>2, <1>3, <1>4, <1>5, PutOnDiskCInv

(* The file of the disk is trashed, as the one of the Cozy was. *)
LEMMA TrashLocalCInv == ASSUME IInv, HInv, LInv, CInv, TrashLocal PROVE CInv'
<1>1. /\ Applies("local") /\ disk' = NoFile /\ dirty' = TRUE
      /\ Succeeds(Change) /\ UNCHANGED <<found, remote>> /\ Task = "trash"
  BY DEF TrashLocal, Does
<1>2. /\ UNCHANGED <<doc, history, puts, owner, merge, pull, ops>>
      /\ owner = "sync" /\ sync'.pc = "seq" /\ sync'.change = doc
      /\ sync'.side = "local" /\ UNCHANGED <<pending, blocked>>
  <2>1. /\ UNCHANGED <<doc, history, puts, owner, merge, pull, users>>
        /\ owner = "sync" /\ sync'.pc = "seq" /\ sync'.change = Change
        /\ Change = doc
    BY <1>1, SucceedsIs DEF Side
  <2>2. sync'.side = sync.side /\ sync.side = "local"
    BY <1>1 DEF Succeeds, Applies
  <2> QED
    BY <1>1, <2>1, <2>2 DEF Succeeds, users, pouch
<1>3. /\ LateSide = "local" /\ doc # NoDoc /\ pending /\ found = <<>> /\ doc.deleted
      /\ ~doc.trashed
  BY <1>1, ApplyingIs DEF Side
<1>4. /\ Last' = Last /\ LastIsLive' = LastIsLive /\ Moved' = Moved
      /\ LateSide' = LateSide /\ ThereKnown(doc)' = ThereKnown(doc) /\ Ahead' = Ahead
      /\ HereKnown(doc)' /\ cozy' = cozy /\ unseen' = unseen
  BY <1>1, <1>2, <1>3 DEF remote, Last, LastIsLive, Moved, LateSide, ThereKnown, Ahead,
                          HereKnown
<1>5. FilesOK'
  <2>2. \A n \in Nat : <<"user", n>> # NoFile.ino
    BY DEF NoFile
  <2> QED
    BY <1>1, <1>2, <1>4, <2>2 DEF CInv, FilesOK
<1>6. CalmOK'
  BY <1>2, <1>4 DEF CInv, CalmOK, NeverTrashed
<1>7. WaitingOK' /\ WatchOK'
  BY <1>1, <1>2, <1>3, <1>4 DEF remote, CInv, WaitingOK, WatchOK
<1>8. KnownOK'
  BY <1>1, <1>2, <1>3, <1>4 DEF CInv, KnownOK, Stuck
<1>9. LateLocalOK' /\ LateRemoteOK' /\ DeletedHereOK'
  BY <1>2, <1>3, <1>4 DEF LateLocalOK, LateRemoteOK, DeletedHereOK
<1>10. DeletedThereOK' /\ ~LastIsLive
  BY <1>1, <1>2, <1>3, <1>4 DEF CInv, DeletedThereOK
<1>11. AppliesOK'
  BY <1>1, <1>2, <1>3, <1>4, <1>10 DEF AppliesOK, Side
<1> QED
  BY <1>5, <1>6, <1>7, <1>8, <1>9, <1>10, <1>11 DEF CInv

(* The last file of the Cozy gets a new revision, or there is a new file.   *)
LEMMA ReviseIs ==
  ASSUME IInv, HInv, Last \in DOMAIN cozy, NEW content, NEW where,
         Revise(Last, content, where)
  PROVE  /\ Last' = Last /\ DOMAIN cozy' = DOMAIN cozy
         /\ cozy'[Last].rev = cozy[Last].rev + 1 /\ cozy[Last].rev \in Nat
         /\ cozy'[Last].content = content /\ cozy'[Last].where = where
         /\ \A id \in DOMAIN cozy : id # Last => cozy'[id] = cozy[id]
         /\ LastIsLive' <=> where = "live"
         /\ Moved \ {Last} \subseteq Moved'
         /\ where = "moved" <=> Last \in Moved'
         /\ unseen' = unseen \cup {Last}
<1>1. /\ cozy \in Seq(File) /\ cozy[Last].rev \in Nat /\ cozy[Last] \in File
  BY LastIs
<1>2. /\ cozy' = [cozy EXCEPT ![Last] = [rev |-> @.rev + 1, content |-> content,
                                         where |-> where]]
      /\ unseen' = unseen \cup {Last}
  BY DEF Revise
<1>3. /\ DOMAIN cozy' = DOMAIN cozy
      /\ cozy'[Last].rev = cozy[Last].rev + 1
      /\ cozy'[Last].content = content /\ cozy'[Last].where = where
      /\ \A id \in DOMAIN cozy : id # Last => cozy'[id] = cozy[id]
  BY <1>1, <1>2
<1>4. Last' = Last
  BY <1>1, <1>2 DEF Last
<1>5. LastIsLive' <=> where = "live"
  BY <1>3, <1>4 DEF LastIsLive
<1>6. Moved \ {Last} \subseteq Moved' /\ (where = "moved" <=> Last \in Moved')
  BY <1>3 DEF Moved
<1> QED
  BY <1>1, <1>2, <1>3, <1>4, <1>5, <1>6

LEMMA CreateIs ==
  ASSUME IInv, HInv, NEW content \in Nat, Create(content)
  PROVE  /\ Last' = Last + 1 /\ LastIsLive'
         /\ cozy'[Last'] = [rev |-> 1, content |-> content, where |-> "live"]
         /\ Moved \subseteq Moved' /\ Last' \notin Moved'
         /\ unseen' = unseen \cup {Last'} /\ Len(cozy') = Last'
<1> DEFINE new == [rev |-> 1, content |-> content, where |-> "live"]
<1>1. /\ cozy' = Append(cozy, new) /\ cozy \in Seq(File) /\ Last \in Nat
      /\ DOMAIN cozy = 1..Last /\ unseen' = unseen \cup {Last + 1}
  BY LastIs DEF Create, Last
<1>2. new \in File /\ new.where = "live"
  BY DEF File, Places
<1> HIDE DEF new
<1>3. /\ Last' = Last + 1 /\ DOMAIN cozy' = 1..(Last + 1)
      /\ cozy'[Last + 1] = new /\ \A id \in 1..Last : cozy'[id] = cozy[id]
  BY <1>1, <1>2 DEF Last
<1>4. Moved \subseteq Moved' /\ Last' \notin Moved' /\ LastIsLive'
  BY <1>1, <1>2, <1>3 DEF Moved, LastIsLive
<1> QED
  BY <1>1, <1>3, <1>4 DEF new, Last

(* The Cozy has what the record tells, and Sync is about to save it.        *)
LEMMA PutOnCozyCInv ==
  ASSUME IInv, HInv, LInv, CInv, Applies("remote"), ~doc.deleted,
         NEW change, Succeeds(change), UNCHANGED local,
         unseen' = unseen \cup {Last'}, unseen \subseteq {Last'} \cup Moved',
         Last' \notin Moved', LastIsLive', cozy'[Last'].content = doc.md5sum,
         doc.remote # NoRemote => doc.remote.id = Last',
         ~(doc.remote.id = Last' /\ doc.remote.rev = cozy'[Last'].rev),
         change.remote.id = Last', change.remote.rev = cozy'[Last'].rev,
         change.local = doc.local, change.md5sum = doc.md5sum, change.ino = doc.ino,
         ~change.trashed, change.deleted = doc.deleted
  PROVE  CInv'
<1>1. /\ UNCHANGED <<doc, history, puts, owner, merge, pull, ops>>
      /\ owner = "sync" /\ sync'.pc = "seq" /\ sync'.change = change
      /\ sync'.side = "remote" /\ UNCHANGED <<pending, blocked, disk, dirty, found>>
  <2>1. /\ UNCHANGED <<doc, history, puts, owner, merge, pull, users>>
        /\ owner = "sync" /\ sync'.pc = "seq" /\ sync'.change = change
    BY SucceedsIs DEF Side
  <2>2. sync'.side = sync.side /\ sync.side = "remote"
    BY DEF Succeeds, Applies
  <2> QED
    BY <2>1, <2>2 DEF Succeeds, users, pouch, local
<1>2. /\ LateSide = "remote" /\ doc # NoDoc /\ pending /\ Told(doc)
  BY ApplyingIs DEF Side
<1>3. disk # NoFile /\ HereKnown(doc)
  BY <1>2 DEF CInv, LateRemoteOK
<1>4. /\ LateSide' = LateSide /\ HereKnown(doc)' /\ LocalIsMerged' = LocalIsMerged
      /\ OldAt("remote")' = OldAt("remote") /\ ~ThereKnown(doc)'
  BY <1>1, <1>3 DEF LateSide, HereKnown, LocalIsMerged, OldAt, ThereKnown
<1>5. /\ disk.content = doc.md5sum /\ disk.content # None
      /\ disk = doc.local /\ disk.ino = doc.ino
  BY <1>2, <1>3 DEF HereKnown, Told, LateSide, CInv, FilesOK
<1>6. FilesOK' /\ CalmOK'
  BY <1>1, <1>4, <1>5 DEF CInv, FilesOK, CalmOK, NeverTrashed
<1>7. WaitingOK' /\ WatchOK'
  BY <1>1 DEF CInv, WaitingOK, WatchOK
<1>8. KnownOK'
  <2>1. cozy'[Last'].where = "live"
    BY DEF LastIsLive
  <2> QED
    BY <1>1, <1>2, <1>4, <2>1 DEF KnownOK
<1>9. LateRemoteOK'
  BY <1>1, <1>2, <1>3, <1>4 DEF CInv, LateRemoteOK
<1>10. LateLocalOK' /\ DeletedThereOK' /\ DeletedHereOK'
  BY <1>1, <1>2, <1>4 DEF LateLocalOK, DeletedThereOK, DeletedHereOK
<1>11. AppliesOK'
  <2>1. HereKnown(sync.change)' /\ ThereKnown(sync.change)'
    BY <1>1, <1>3 DEF HereKnown, ThereKnown
  <2>2. /\ sync'.pc = "seq" /\ sync'.side = "remote" /\ LateSide' = "remote" /\ pending'
        /\ ~sync'.change.trashed /\ sync'.change.deleted = doc'.deleted /\ ~doc'.deleted
        /\ disk'.content = sync'.change.md5sum /\ disk' # NoFile /\ LastIsLive'
        /\ sync'.change.local = disk' /\ sync'.change.ino = disk'.ino
    BY <1>1, <1>2, <1>3, <1>4, <1>5
  <2> QED
    BY <1>4, <2>1, <2>2 DEF AppliesOK, Side
<1> QED
  BY <1>6, <1>7, <1>8, <1>9, <1>10, <1>11 DEF CInv

(* The file of the disk is uploaded, as a new file. *)
LEMMA UploadNewCInv == ASSUME IInv, HInv, LInv, CInv, UploadNew PROVE CInv'
<1> DEFINE info == RemoteInfo(Len(cozy'), cozy'[Len(cozy')])
           change == [Change EXCEPT !.remote = info]
<1>1. /\ Applies("remote") /\ Task = "add" /\ Live = {} /\ UNCHANGED local
      /\ Create(Change.md5sum) /\ Succeeds(change)
  BY DEF UploadNew, Does
<1>2. /\ Change = doc /\ ~doc.deleted /\ doc \in Docs /\ ~doc.trashed
      /\ LateSide = "remote" /\ doc.sides.remote = 0 /\ doc.md5sum \in Nat
  BY <1>1, ApplyingIs, RecordIs DEF Side, Docs
<1>3. ~LastIsLive /\ Last \in Nat
  BY <1>1, LastIs
<1>4. doc.remote = NoRemote /\ (Last \notin unseen \/ Last \in Moved)
  BY <1>2, <1>3 DEF CInv, CalmOK, LateRemoteOK
<1>5. /\ Last' = Last + 1 /\ LastIsLive'
      /\ cozy'[Last'] = [rev |-> 1, content |-> doc.md5sum, where |-> "live"]
      /\ Moved \subseteq Moved' /\ Last' \notin Moved'
      /\ unseen' = unseen \cup {Last'} /\ Len(cozy') = Last'
  BY <1>1, <1>2, CreateIs
<1>6. unseen \subseteq Moved'
  BY <1>4, <1>5 DEF CInv, WatchOK
<1>7. /\ change.remote = info /\ change.local = doc.local
      /\ change.md5sum = doc.md5sum /\ change.ino = doc.ino
      /\ change.trashed = doc.trashed /\ change.deleted = doc.deleted
  BY <1>2 DEF Docs
<1>8. info.id = Last' /\ info.rev = cozy'[Last'].rev
  BY <1>5 DEF RemoteInfo
<1>9. cozy'[Last'].content = doc.md5sum
  BY <1>5
<1>10. NoRemote.id # Last'
  BY <1>3, <1>5 DEF NoRemote
<1> HIDE DEF change, info
<1> QED
  BY <1>1, <1>2, <1>4, <1>5, <1>6, <1>7, <1>8, <1>9, <1>10, PutOnCozyCInv

(* The file of the Cozy gets the content of the record. *)
LEMMA RewriteCInv ==
  ASSUME IInv, HInv, LInv, CInv, Applies("remote"), ~doc.deleted,
         doc.sides.remote # 0, LastIsLive, Rewrite(doc.md5sum, "live")
  PROVE  CInv'
<1> DEFINE info == RemoteInfo(doc.remote.id, cozy'[doc.remote.id])
           change == [Change EXCEPT !.remote = info]
<1>1. /\ Change = doc /\ doc \in Docs /\ ~doc.trashed /\ LateSide = "remote"
      /\ doc.remote # NoRemote
  BY ApplyingIs, RecordIs DEF Side
<1>2. doc.remote.id = Last /\ Last \notin Moved
  BY <1>1 DEF CInv, KnownOK
<1>3. /\ Revise(Last, doc.md5sum, "live") /\ Succeeds(change) /\ UNCHANGED local
  BY <1>1, <1>2 DEF Rewrite
<1>4. Last \in DOMAIN cozy /\ doc.remote.rev \in 1..cozy[Last].rev
  BY <1>1, <1>2, RecordIs
<1>5. /\ Last' = Last /\ cozy'[Last].rev = cozy[Last].rev + 1 /\ cozy[Last].rev \in Nat
      /\ cozy'[Last].content = doc.md5sum /\ LastIsLive'
      /\ Moved \ {Last} \subseteq Moved' /\ Last \notin Moved'
      /\ unseen' = unseen \cup {Last}
  BY <1>3, <1>4, ReviseIs
<1>6. unseen \subseteq {Last'} \cup Moved'
  BY <1>5 DEF CInv, WatchOK
<1>7. /\ change.remote = info /\ change.local = doc.local
      /\ change.md5sum = doc.md5sum /\ change.ino = doc.ino
      /\ change.trashed = doc.trashed /\ change.deleted = doc.deleted
  BY <1>1 DEF Docs
<1>8. info.id = Last' /\ info.rev = cozy'[Last'].rev
  BY <1>2, <1>5 DEF RemoteInfo
<1>9. doc.remote.rev # cozy'[Last'].rev
  BY <1>4, <1>5
<1> HIDE DEF change, info
<1> QED
  BY <1>1, <1>2, <1>3, <1>5, <1>6, <1>7, <1>8, <1>9, PutOnCozyCInv

(* The content of the disk, or its date, is sent. *)
LEMMA UploadCInv ==
  ASSUME IInv, HInv, LInv, CInv, Upload \/ UpdateRemoteMetadata PROVE CInv'
<1>1. Applies("remote") /\ Task \in {"overwrite", "metadata"}
  BY DEF Upload, UpdateRemoteMetadata, Does
<1>2. /\ Change = doc /\ ~doc.deleted /\ doc.sides.remote # 0
      /\ CurrentRev # 0 /\ NeverTrashed
  BY <1>1, ApplyingIs DEF Side, CInv, CalmOK
<1>3. Old.remote = doc.remote /\ doc.remote # NoRemote
  BY <1>1, <1>2, OldIs, RecordIs DEF Side
<1>4. Matches(doc.remote.rev)
  BY <1>2, <1>3 DEF Upload, UpdateRemoteMetadata
<1>5. cozy[doc.remote.id].where = "live" /\ cozy[doc.remote.id].content = doc.remote.content
  BY <1>1, <1>2, <1>3, <1>4, MatchedIs
<1>6. doc.remote.id = Last /\ LastIsLive
  BY <1>2, <1>3, <1>5, RecordIs DEF CInv, KnownOK, LastIsLive
<1>7. Rewrite(doc.md5sum, "live")
  <2>1. CASE Upload
    BY <1>2, <1>5, <2>1 DEF Upload
  <2>2. CASE UpdateRemoteMetadata
    <3>1. doc.remote.content = doc.md5sum
      BY <1>1, <1>2, <2>2, NothingIs DEF UpdateRemoteMetadata, Does, Side
    <3> QED
      BY <1>2, <1>5, <2>2, <3>1 DEF UpdateRemoteMetadata
  <2> QED
    BY <2>1, <2>2
<1> QED
  BY <1>1, <1>2, <1>6, <1>7, RewriteCInv

(* The file of the Cozy is trashed, as the one of the disk was deleted; it  *)
(* may have been trashed before.                                            *)
LEMMA TrashRemoteCInv == ASSUME IInv, HInv, LInv, CInv, TrashRemote PROVE CInv'
<1>1. Applies("remote") /\ Task = "trash" /\ Change.remote # NoRemote
  BY DEF TrashRemote, Does
<1>2. /\ Change = doc /\ doc # NoDoc /\ doc.deleted /\ doc \in Docs /\ ~doc.trashed
      /\ LateSide = "remote" /\ pending /\ sync.side = "remote" /\ sync.pc = "apply"
      /\ doc.sides \in Sides
  BY <1>1, ApplyingIs, RecordIs DEF Side, Applies
<1>3. /\ disk = NoFile /\ doc.remote.id = Last /\ Last \notin Moved
      /\ SameBinary(doc.local.content, doc.remote.content)
  BY <1>2 DEF CInv, DeletedHereOK
<1>4. Last \in DOMAIN cozy /\ doc.remote.rev \in 1..cozy[Last].rev /\ cozy[Last].rev \in Nat
  BY <1>1, <1>2, <1>3, RecordIs, LastIs
<1>5. /\ UNCHANGED <<doc, history, pending, owner, merge, pull, ops, blocked, local>>
      /\ sync'.pc = "seq" /\ sync'.side = "remote" /\ owner = "sync"
      /\ sync'.change.deleted = doc.deleted /\ ~sync'.change.trashed
      /\ sync'.change.ino = doc.ino
      /\ \/ UNCHANGED remote /\ cozy[Last].where = "trash"
         \/ Revise(Last, cozy[Last].content, "trash")
  <2>1. CASE cozy[Last].where = "trash"
    <3>1. Succeeds(doc) /\ UNCHANGED <<local, remote>>
      BY <1>2, <1>3, <2>1 DEF TrashRemote
    <3>2. sync' = [sync EXCEPT !.pc = "seq", !.change = doc]
          /\ UNCHANGED <<pouch, owner, merging, blocked, bounds>>
      BY <3>1 DEF Succeeds
    <3>3. sync'.side = sync.side
      BY <3>2
    <3>4. owner = "sync" /\ sync'.pc = "seq" /\ sync'.change = doc
      BY <1>1, <3>1, SucceedsIs DEF Side
    <3> QED
      BY <1>2, <2>1, <3>1, <3>2, <3>3, <3>4 DEF pouch, merging, bounds, users
  <2>2. CASE cozy[Last].where # "trash"
    <3> DEFINE info == RemoteInfo(doc.remote.id, cozy'[doc.remote.id])
               change == [doc EXCEPT !.remote = info]
    <3>1. /\ Revise(Last, cozy[Last].content, "trash") /\ Succeeds(change)
          /\ UNCHANGED local
      BY <1>2, <1>3, <2>2 DEF TrashRemote, Rewrite
    <3>2. sync' = [sync EXCEPT !.pc = "seq", !.change = change]
          /\ UNCHANGED <<pouch, owner, merging, blocked, bounds>>
      BY <3>1 DEF Succeeds
    <3>3. change.deleted = doc.deleted /\ change.trashed = doc.trashed
          /\ change.ino = doc.ino
      BY <1>2 DEF Docs
    <3> HIDE DEF change
    <3>4. sync'.side = sync.side
      BY <3>2
    <3>5. owner = "sync" /\ sync'.pc = "seq" /\ sync'.change = change
      BY <1>1, <3>1, SucceedsIs DEF Side
    <3> QED
      BY <1>2, <3>1, <3>2, <3>3, <3>4, <3>5 DEF pouch, merging, bounds, users
  <2> QED
    BY <2>1, <2>2
<1>6. /\ Last' = Last /\ ~LastIsLive' /\ Last \notin Moved' /\ Moved \subseteq Moved'
      /\ Ahead' /\ unseen \subseteq unseen' /\ unseen' \subseteq unseen \cup {Last}
      /\ Last \in unseen' \/ ThereKnown(doc)' \/ Stuck'
      /\ cozy'[Last].where = "trash"
  <2>1. CASE UNCHANGED remote /\ cozy[Last].where = "trash"
    <3>1. /\ Last' = Last /\ LastIsLive' = LastIsLive /\ Moved' = Moved
          /\ Ahead' = Ahead /\ ThereKnown(doc)' = ThereKnown(doc) /\ Stuck' = Stuck
          /\ unseen' = unseen /\ cozy' = cozy
      BY <1>5, <2>1 DEF remote, Last, LastIsLive, Moved, Ahead, ThereKnown, Stuck, LateSide
    <3>2. ~LastIsLive
      BY <2>1 DEF LastIsLive
    <3> QED
      BY <1>2, <1>3, <2>1, <3>1, <3>2 DEF CInv, DeletedHereOK, KnownOK
  <2>2. CASE Revise(Last, cozy[Last].content, "trash")
    <3>1. /\ Last' = Last /\ DOMAIN cozy' = DOMAIN cozy
          /\ cozy'[Last].rev = cozy[Last].rev + 1
          /\ ~LastIsLive' /\ Moved \ {Last} \subseteq Moved'
          /\ Last \notin Moved' /\ unseen' = unseen \cup {Last}
          /\ cozy'[Last].where = "trash"
      BY <1>4, <2>2, ReviseIs
    <3>2. Ahead'
      BY <1>3, <1>4, <1>5, <3>1 DEF Ahead
    <3> QED
      BY <1>3, <3>1, <3>2
  <2> QED
    BY <1>5, <2>1, <2>2
<1>7. LateSide' = LateSide /\ HereKnown(doc)' /\ LocalIsMerged' = LocalIsMerged
      /\ disk' = disk /\ found' = found /\ dirty' = dirty
  BY <1>2, <1>3, <1>5 DEF local, LateSide, HereKnown, LocalIsMerged
<1>8. FilesOK' /\ CalmOK'
  BY <1>5, <1>6, <1>7 DEF CInv, FilesOK, CalmOK, NeverTrashed
<1>9. WaitingOK' /\ WatchOK'
  BY <1>5, <1>6, <1>7 DEF CInv, WaitingOK, WatchOK
<1>10. KnownOK'
  BY <1>2, <1>5, <1>6, <1>7 DEF KnownOK
<1>11. DeletedHereOK'
  BY <1>2, <1>3, <1>5, <1>6, <1>7 DEF DeletedHereOK
<1>12. LateLocalOK' /\ LateRemoteOK' /\ DeletedThereOK'
  BY <1>2, <1>5, <1>7 DEF LateLocalOK, LateRemoteOK, DeletedThereOK
<1>13. AppliesOK'
  BY <1>2, <1>3, <1>5, <1>6, <1>7 DEF AppliesOK, Side
<1> QED
  BY <1>8, <1>9, <1>10, <1>11, <1>12, <1>13 DEF CInv

(* There is always something to apply, and something to upload. *)
LEMMA SomethingToApply ==
  ASSUME IInv, HInv, LInv, CInv PROVE ~ApplyNothing /\ ~UploadNothing
<1>1. ~ApplyNothing
  BY ApplyingIs DEF ApplyNothing, Does, Side
<1>2. ~UploadNothing
  <2> SUFFICES ASSUME UploadNothing PROVE FALSE
    OBVIOUS
  <2>1. Applies("remote") /\ Task \in {"add", "overwrite"} /\ disk = NoFile
    BY DEF UploadNothing, Does
  <2>2. LateSide = "remote" /\ ~doc.deleted
    BY <2>1, ApplyingIs DEF Side
  <2> QED
    BY <2>1, <2>2 DEF CInv, LateRemoteOK
<1> QED
  BY <1>1, <1>2

(* The local sequence is saved after a change was applied, or when there is *)
(* none to apply.                                                           *)
LEMMA SeqSavedCInv ==
  ASSUME IInv, HInv, LInv, CInv, SaveSeq \/ ApplyToNone PROVE CInv'
<1>1. /\ UNCHANGED <<disk, dirty, found, cozy, unseen, ops, merge, pull, blocked>>
      /\ owner = "sync" /\ owner' \in {"sync", "none"} /\ blocked = NoBlock
      /\ sync'.change \in {sync.change, NoDoc}
  <2>1. UNCHANGED <<disk, dirty, found, cozy, unseen, ops, merge, pull, blocked>>
    BY DEF SaveSeq, ApplyToNone, local, remote, merging, bounds, users
  <2>2. sync.pc # "idle" /\ owner' \in {owner, "none"}
    BY DEF SaveSeq, ApplyToNone
  <2>3. owner = "sync" /\ blocked = NoBlock
    BY <2>2 DEF IInv, SyncOK, HInv, HoldsOK
  <2>4. sync'.change \in {sync.change, NoDoc}
    BY TypeParts DEF SaveSeq, ApplyToNone, IInv, Types, SyncTypes, NoSync
  <2> QED
    BY <2>1, <2>2, <2>3, <2>4
<1>2. /\ UNCHANGED <<doc, history>> /\ pending' = FALSE
      /\ \/ sync.pc = "seq" /\ sync' = [sync EXCEPT !.pc = "save"]
         \/ LateSide = "none" /\ sync' = NoSync
  <2>1. CASE SaveSeq
    BY <2>1 DEF SaveSeq
  <2>2. CASE ApplyToNone
    <3>1. sync.pc = "apply" /\ Change = doc
      BY <2>2 DEF ApplyToNone, HInv, HoldsOK, Change
    <3>2. ~Forgotten
      BY <3>1 DEF Forgotten, CInv, CalmOK
    <3>3. sync.side = "none" /\ sync.side = LateSide
      BY <2>2, <3>1, <3>2 DEF ApplyToNone, IInv, SyncOK, LateSide, Change
    <3> QED
      BY <2>2, <3>2, <3>3 DEF ApplyToNone
  <2> QED
    BY <2>1, <2>2
<1>3. /\ Last' = Last /\ LastIsLive' = LastIsLive /\ Moved' = Moved
      /\ LateSide' = LateSide /\ HereKnown(doc)' = HereKnown(doc)
      /\ ThereKnown(doc)' = ThereKnown(doc) /\ Ahead' = Ahead
      /\ OldAt("local")' = OldAt("local") /\ OldAt("remote")' = OldAt("remote")
      /\ LocalIsMerged' = LocalIsMerged
  BY <1>1, <1>2 DEF Last, LastIsLive, Moved, LateSide, HereKnown, ThereKnown, Ahead, OldAt,
                    LocalIsMerged
<1>4. /\ LateSide # "none" => sync.side = LateSide /\ sync.pc = "seq"
      /\ LateSide = "none" => ~doc.deleted
      /\ LateSide # "none" /\ doc.deleted => disk = NoFile /\ ~LastIsLive
      /\ LateSide # "none" /\ ~doc.deleted =>
           /\ LastIsLive
           /\ LateSide = "local" => ~HereKnown(doc)
           /\ LateSide = "remote" => ~ThereKnown(doc)
  <2>1. sync.pc = "seq" => sync.side = LateSide /\ LateSide \in Side
    BY DEF CInv, AppliesOK
  <2>2. LateSide = "none" => ~doc.deleted
    BY DEF CInv, CalmOK
  <2>3. sync.pc = "seq" /\ doc.deleted => disk = NoFile /\ ~LastIsLive
    BY DEF CInv, AppliesOK
  <2>4. sync.pc = "seq" /\ ~doc.deleted =>
           /\ LastIsLive
           /\ LateSide = "local" => ~HereKnown(doc)
           /\ LateSide = "remote" => ~ThereKnown(doc)
    BY DEF CInv, AppliesOK
  <2> QED
    BY <1>2, <2>1, <2>2, <2>3, <2>4
<1>5. FilesOK'
  <2>1. \A n \in Nat : <<"user", n>> # NoDoc.ino
    BY DEF NoDoc, NoFile
  <2>2. sync'.change.ino \in {sync.change.ino, NoDoc.ino}
    BY <1>1
  <2> QED
    BY <1>1, <1>2, <1>3, <2>1, <2>2 DEF CInv, FilesOK
<1>6. CalmOK'
  BY <1>1, <1>2, <1>3 DEF CInv, CalmOK, NeverTrashed
<1>7. WaitingOK' /\ WatchOK'
  BY <1>1, <1>2, <1>3, WatchStays DEF CInv, WaitingOK
<1>8. KnownOK'
  <2>1. ~Stuck
    BY <1>4 DEF Stuck
  <2> QED
    BY <1>1, <1>2, <1>3, <2>1 DEF CInv, KnownOK
<1>9. LateLocalOK' /\ LateRemoteOK'
  BY <1>1, <1>2, <1>3, <1>4 DEF CInv, LateLocalOK, LateRemoteOK
<1>10. DeletedThereOK' /\ DeletedHereOK'
  BY <1>1, <1>2, <1>3, <1>4 DEF CInv, DeletedThereOK, DeletedHereOK
<1>11. AppliesOK'
  <2>1. CASE sync' = NoSync
    BY <2>1, NothingToSave DEF NoSync
  <2>2. CASE sync.pc = "seq" /\ sync' = [sync EXCEPT !.pc = "save"]
    <3>1. /\ sync'.pc = "save" /\ sync'.change = sync.change /\ sync'.side = sync.side
      BY <2>2, TypeParts DEF IInv, Types, SyncTypes
    <3>2. HereKnown(sync.change)' = HereKnown(sync.change)
          /\ ThereKnown(sync.change)' = ThereKnown(sync.change)
      BY <1>1, <1>3, <3>1 DEF HereKnown, ThereKnown
    <3> QED
      BY <1>1, <1>2, <1>3, <2>2, <3>1, <3>2 DEF CInv, AppliesOK
  <2> QED
    BY <1>2, <2>1, <2>2
<1> QED
  BY <1>5, <1>6, <1>7, <1>8, <1>9, <1>10, <1>11 DEF CInv

(* Sync saves the record of a file that both sides have, or erases the one  *)
(* of a file that neither has.                                              *)
LEMMA SaveDocCInv == ASSUME IInv, HInv, LInv, CInv, SaveDoc PROVE CInv'
<1>1. /\ UNCHANGED <<disk, dirty, found, cozy, unseen, ops, merge, pull, blocked>>
      /\ owner = "sync" /\ owner' = "none" /\ blocked = NoBlock /\ sync.pc = "save"
      /\ sync' = NoSync
  BY DEF SaveDoc, local, remote, merging, bounds, users, IInv, SyncOK, HInv, HoldsOK
<1>2. /\ ~sync.change.trashed /\ sync.change.deleted = doc.deleted
      /\ doc.deleted => disk = NoFile /\ ~LastIsLive
      /\ ~doc.deleted => /\ disk # NoFile /\ LastIsLive
                         /\ sync.change.local = disk /\ sync.change.ino = disk.ino
                         /\ HereKnown(sync.change) /\ ThereKnown(sync.change)
                         /\ disk.content = sync.change.md5sum
  BY <1>1 DEF CInv, AppliesOK
<1>3. NoSync.change.ino = NoFile.ino /\ NoSync.pc = "idle"
  BY DEF NoSync, NoDoc
<1>4. /\ FilesOK' /\ CalmOK' /\ KnownOK' /\ LateLocalOK' /\ LateRemoteOK'
      /\ DeletedThereOK' /\ DeletedHereOK'
  <2>1. CASE doc.deleted
    <3>1. EraseDoc
      BY <1>2, <2>1 DEF SaveDoc, Change
    <3> QED
      BY <1>1, <1>2, <1>3, <2>1, <3>1, ErasedCInv
  <2>2. CASE ~doc.deleted
    <3> DEFINE done == [Change EXCEPT !.sides = MarkAsUpToDate(@)]
               record == [done EXCEPT !.errors = 0]
    <3>1. Change \in Docs /\ Change.sides \in Sides
      BY DEF IInv, RecordsOK, Good, Change, Docs
    <3>2. /\ MarkAsUpToDate(Change.sides) \in Sides
          /\ MarkAsUpToDate(Change.sides).local # 0
          /\ MarkAsUpToDate(Change.sides).remote # 0
          /\ OutOfDateSide(MarkAsUpToDate(Change.sides)) = "none"
      BY <3>1 DEF MarkAsUpToDate, Sides, OutOfDateSide
    <3>3. /\ done \in Docs /\ done.sides = MarkAsUpToDate(Change.sides)
          /\ done.local = Change.local /\ done.remote = Change.remote
          /\ done.ino = Change.ino /\ done.deleted = Change.deleted
          /\ done.trashed = Change.trashed
      BY <3>1, <3>2, DocWith DEF Docs
    <3> HIDE DEF done
    <3>4. /\ record \in Docs /\ record.sides = done.sides /\ record.local = done.local
          /\ record.remote = done.remote /\ record.ino = done.ino
          /\ record.deleted = done.deleted /\ record.trashed = done.trashed
      BY <3>3, DocWith DEF Docs
    <3>5. Write(record)
      BY <1>2, <2>2 DEF SaveDoc, Change, done
    <3> HIDE DEF record
    <3>6. /\ doc'.sides = MarkAsUpToDate(Change.sides) /\ doc'.local = Change.local
          /\ doc'.remote = Change.remote /\ doc'.ino = Change.ino /\ ~doc'.deleted
          /\ doc' # NoDoc /\ pending' = TRUE /\ NeverTrashed'
      BY <1>2, <2>2, <3>3, <3>4, <3>5, WrittenIs DEF Change
    <3>7. /\ Last' = Last /\ LastIsLive' /\ Moved' = Moved /\ LateSide' = "none"
          /\ Last \notin Moved /\ cozy'[Last].where = "live"
          /\ HereKnown(doc)' /\ ThereKnown(doc)'
      BY <1>1, <1>2, <2>2, <3>2, <3>6
         DEF Last, LastIsLive, Moved, LateSide, HereKnown, ThereKnown, Change
    <3>8. disk = doc'.local /\ doc'.ino = disk.ino
      BY <1>2, <2>2, <3>6 DEF Change
    <3>9. FilesOK'
      <4>1. \A n \in Nat : <<"user", n>> # NoFile.ino
        BY DEF NoFile
      <4>2. /\ doc'.ino = sync.change.ino /\ sync'.change.ino = NoFile.ino
            /\ disk' = disk /\ cozy' = cozy /\ ops' = ops
        BY <1>1, <1>3, <3>6 DEF Change
      <4>3. \A n \in Nat : <<"user", n>> \in {disk'.ino, doc'.ino, sync'.change.ino}
                           => n <= ops'
        BY <4>1, <4>2 DEF CInv, FilesOK
      <4>4. /\ disk' # NoFile => disk'.content # None /\ disk'.ino # NoFile.ino
            /\ LastIsLive' => cozy'[Last'].content # None
        BY <1>2, <2>2, <3>7, <4>2 DEF CInv, FilesOK
      <4> QED
        BY <3>8, <4>2, <4>3, <4>4 DEF FilesOK
    <3>10. CalmOK'
      BY <3>2, <3>6 DEF CalmOK
    <3>11. KnownOK'
      <4>1. doc'.remote.id = Last
        BY <1>2, <2>2, <3>6 DEF ThereKnown, Change
      <4> QED
        BY <3>6, <3>7, <4>1 DEF KnownOK
    <3> QED
      BY <3>6, <3>7, <3>9, <3>10, <3>11
         DEF LateLocalOK, LateRemoteOK, DeletedThereOK, DeletedHereOK
  <2> QED
    BY <2>1, <2>2
<1>5. WaitingOK' /\ WatchOK' /\ AppliesOK'
  <2>1. Last' = Last /\ Moved' = Moved
    BY <1>1 DEF Last, Moved
  <2> QED
    BY <1>1, <1>3, <2>1, NothingToSave DEF CInv, WaitingOK, WatchOK
<1> QED
  BY <1>4, <1>5 DEF CInv

(* Failures *)

(* No change is given up: what a user changes comes when all is synced, so  *)
(* that what Sync needs is there.                                           *)
LEMMA NeverGivesUp ==
  ASSUME "other" \notin Faults, IInv, HInv, LInv, CInv PROVE ~GiveUp
<1> SUFFICES ASSUME GiveUp PROVE FALSE
  OBVIOUS
<1>1. Fails({"UnknownError"})
  BY DEF GiveUp, FaultyApply, Fault
<1>2. CASE /\ Does("local", {"add", "overwrite"})
           /\ cozy[Change.remote.id].content # Change.md5sum
  <2>1. Change = doc /\ LateSide = "local" /\ ~doc.deleted /\ Told(doc)
    BY <1>2, ApplyingIs DEF Does, Side
  <2>2. /\ doc.remote.id = Last /\ doc.remote.rev = cozy[Last].rev /\ Last # 0
    BY <2>1, LastIs DEF CInv, LateLocalOK, ThereKnown, LastIsLive
  <2>3. doc.remote.content = cozy[Last].content
    BY <2>2, RecordIs DEF NoRemote
  <2> QED
    BY <1>2, <2>1, <2>2, <2>3 DEF Told, LateSide
<1>3. CASE Does("local", {"metadata"}) /\ disk = NoFile
  <2>1. /\ LateSide = "local" /\ ~doc.deleted /\ doc.sides.local # 0
    BY <1>3, ApplyingIs DEF Does, Side
  <2> QED
    BY <1>3, <2>1 DEF CInv, LateLocalOK
<1>4. CASE Does("remote", {"trash"}) /\ Change.remote = NoRemote
  <2>1. Change = doc /\ HasBothSides(doc.sides)
    BY <1>4, ApplyingIs DEF Does, Side
  <2> QED
    BY <1>4, <2>1, RecordIs DEF HasBothSides
<1> QED
  BY <1>1, <1>2, <1>3, <1>4 DEF Fails

(* Sync is blocked by what failed. *)
LEMMA BlockCInv ==
  ASSUME IInv, HInv, LInv, CInv, BlockForEver \/ BlockForAttempts PROVE CInv'
<1>1. Applies("local") \/ Applies("remote") \/ LosesAnswer
  BY FailsApplies DEF BlockForEver, BlockForAttempts, FaultyApply, Fails, Does
<1>2. BlockSync
  BY DEF BlockForEver, BlockForAttempts
<1> QED
  BY <1>1, <1>2, SyncWaitsCInv

(* The file of the Cozy that has the name is renamed. *)
LEMMA ResolveRemoteConflictCInv ==
  ASSUME IInv, HInv, LInv, CInv, ResolveRemoteConflict PROVE CInv'
<1>1. Does("remote", {"add"}) /\ Live # {}
  BY DEF ResolveRemoteConflict, Fails
<1>2. /\ LateSide = "remote" /\ ~doc.deleted /\ doc # NoDoc /\ pending
      /\ doc.sides.remote = 0 /\ doc.remote = NoRemote /\ owner = "sync"
  <2>1. /\ LateSide = "remote" /\ ~doc.deleted /\ doc # NoDoc /\ pending
        /\ doc.sides.remote = 0 /\ owner = "sync"
    BY <1>1, ApplyingIs DEF Does, Side
  <2> QED
    BY <2>1 DEF CInv, CalmOK
<1>3. LastIsLive /\ Revise(Last, cozy[Last].content, "moved")
  BY <1>1, LastIs DEF ResolveRemoteConflict
<1>4. /\ Last' = Last /\ ~LastIsLive' /\ Moved \ {Last} \subseteq Moved'
      /\ Last \in Moved' /\ unseen' = unseen \cup {Last}
  BY <1>3, ReviseIs DEF LastIsLive
<1>5. /\ UNCHANGED <<disk, dirty, found, doc, history, pending, merge, pull, blocked, ops>>
      /\ owner' = "none" /\ sync' = NoSync
  BY DEF ResolveRemoteConflict, local, pouch, merging, bounds, users
<1>6. LateSide' = LateSide /\ HereKnown(doc)' /\ disk # NoFile
  BY <1>2, <1>5 DEF LateSide, HereKnown, CInv, LateRemoteOK
<1>7. FilesOK'
  <2>1. \A n \in Nat : <<"user", n>> # NoSync.change.ino
    BY DEF NoSync, NoDoc, NoFile
  <2> QED
    BY <1>4, <1>5, <2>1 DEF CInv, FilesOK
<1>8. CalmOK'
  BY <1>5, <1>6 DEF CInv, CalmOK, NeverTrashed
<1>9. WaitingOK' /\ WatchOK' /\ AppliesOK'
  BY <1>4, <1>5, NothingToSave DEF CInv, WaitingOK, WatchOK, NoSync
<1>10. KnownOK'
  BY <1>2, <1>4, <1>5, <1>6 DEF KnownOK
<1>11. LateRemoteOK'
  BY <1>2, <1>4, <1>5, <1>6 DEF LateRemoteOK
<1>12. LateLocalOK' /\ DeletedThereOK' /\ DeletedHereOK'
  BY <1>2, <1>5, <1>6 DEF LateLocalOK, DeletedThereOK, DeletedHereOK
<1> QED
  BY <1>7, <1>8, <1>9, <1>10, <1>11, <1>12 DEF CInv

(* A retry writes the record again, as late as it was. *)
LEMMA RetryCInv ==
  ASSUME Pace # "any", IInv, HInv, LInv, CInv, Retry PROVE CInv'
<1>1. /\ UNCHANGED <<disk, dirty, found, cozy, unseen, recent, ops, owner, merge, pull,
                     sync>>
      /\ blocked # NoBlock /\ blocked' = NoBlock /\ ~Renaming /\ sync.pc = "idle"
  BY DEF Retry, local, remote, merging, users, HInv, HoldsOK
<1>2. LocalIsMerged' = LocalIsMerged
  BY <1>1 DEF LocalIsMerged
<1>3. CASE ~Accepts(blocked.change)
  <2>1. UNCHANGED <<doc, history, pending>>
    BY <1>3 DEF Retry, pouch
  <2>2. /\ FilesOK' /\ CalmOK' /\ KnownOK' /\ LateLocalOK' /\ LateRemoteOK'
        /\ DeletedThereOK' /\ DeletedHereOK'
    BY <1>1, <1>2, <2>1, RecordStays
  <2>3. WaitingOK' /\ WatchOK' /\ AppliesOK'
    BY <1>1, <2>1, WatchStays, AppliesStays DEF CInv, WaitingOK
  <2> QED
    BY <2>2, <2>3 DEF CInv
<1>4. CASE Accepts(blocked.change)
  <2> DEFINE side == OtherSide(blocked.side)
             marked == Marked(side, doc)
             again == [marked EXCEPT !.errors = @ + 1]
  <2>1. /\ blocked.change = doc /\ blocked.side \in Side /\ blocked.side = LateSide
        /\ again \in Docs /\ Updates(doc, again)
        /\ again.local = doc.local /\ again.remote = doc.remote
        /\ again.sides = MarkSide(side, doc.sides)
        /\ again.deleted = doc.deleted
    BY <1>1, <1>4, RetriedIs DEF LateSide, Good
  <2>2. Write(again)
    BY <1>4, <2>1 DEF Retry
  <2>3. again.md5sum = doc.md5sum /\ again.ino = doc.ino /\ again.trashed = doc.trashed
    <3>1. doc \in Docs /\ side \in Side
      BY <2>1, RecordIs DEF Side, OtherSide
    <3>2. /\ marked \in Docs /\ marked.md5sum = doc.md5sum /\ marked.ino = doc.ino
          /\ marked.trashed = doc.trashed
      BY <3>1, MarkedIs DEF Marked, Docs
    <3> HIDE DEF marked
    <3> QED
      BY <3>2 DEF Docs
  <2> HIDE DEF again
  <2>4. /\ doc'.sides = again.sides /\ doc'.md5sum = doc.md5sum /\ doc'.ino = doc.ino
        /\ doc'.local = doc.local /\ doc'.remote = doc.remote
        /\ doc'.deleted = doc.deleted /\ doc' # NoDoc /\ pending' = TRUE /\ NeverTrashed'
    BY <2>1, <2>2, <2>3, RecordIs, WrittenIs
  <2>5. doc # NoDoc /\ pending
    <3>1. doc # NoDoc
      BY <2>1, RecordIs DEF Side
    <3> QED
      BY <1>1, <3>1 DEF CInv, CalmOK
  <2>6. /\ doc.sides \in Sides /\ Follows(doc.sides) /\ side \in Side
        /\ OtherSide(side) = LateSide /\ doc.sides.target \in Nat
    BY <2>1, RecordIs DEF OtherSide, Side, Sides
  <2>7. /\ OutOfDateSide(again.sides) = LateSide
        /\ again.sides.target = doc.sides.target + 1
        /\ again.sides[side] = doc.sides.target + 1
        /\ again.sides[LateSide] = doc.sides[LateSide]
    BY <2>1, <2>6, MarkSideLate
  <2>8. /\ Last' = Last /\ LastIsLive' = LastIsLive /\ Moved' = Moved
        /\ LateSide' = LateSide /\ HereKnown(doc)' = HereKnown(doc)
        /\ ThereKnown(doc)' = ThereKnown(doc) /\ Ahead' = Ahead
    BY <1>1, <2>4, <2>7 DEF Last, LastIsLive, Moved, LateSide, HereKnown, ThereKnown,
                            Ahead
  <2>9. doc.sides[LateSide] # 0 => OldAt(LateSide)' = OldAt(LateSide)
    <3> SUFFICES ASSUME doc.sides[LateSide] # 0
                 PROVE  OldAt(LateSide)' = OldAt(LateSide)
      OBVIOUS
    <3>1. LateSide \in Side /\ Late(LateSide, doc)
      BY <2>1, LateIs
    <3>2. Late(LateSide, again)
      BY <2>6, <2>7, <3>1 DEF Late, Follows, Sides, Side
    <3>3. CASE LateSide = "local"
      BY <2>1, <2>2, <2>8, <3>1, <3>2, <3>3, OldNext DEF Side
    <3>4. CASE LateSide = "remote"
      BY <2>1, <2>2, <2>8, <3>1, <3>2, <3>4, OldNext DEF Side
    <3> QED
      BY <3>1, <3>3, <3>4 DEF Side
  <2>10. \A s \in Side : doc'.sides[s] = 0 => doc.sides[s] = 0
    <3>1. again.sides[side] # 0
      BY <2>6, <2>7
    <3> QED
      BY <2>4, <2>6, <2>7, <3>1 DEF Side, OtherSide
  <2>11. FilesOK' /\ KnownOK'
    BY <1>1, <1>2, <2>4, <2>5, <2>8 DEF CInv, FilesOK, KnownOK, Stuck
  <2>12. CalmOK'
    BY <1>1, <2>4, <2>8, <2>10 DEF CInv, CalmOK, HasBothSides, Side
  <2>13. LateLocalOK'
    <3> SUFFICES ASSUME LateSide = "local", ~doc.deleted PROVE LateLocalOK'
      BY <2>4, <2>8 DEF LateLocalOK
    <3>1. doc'.sides.local # 0 => doc.sides.local # 0 /\ OldAt("local")' = OldAt("local")
      BY <2>4, <2>7, <2>8, <2>9
    <3> QED
      BY <1>1, <2>4, <2>8, <3>1 DEF CInv, LateLocalOK
  <2>14. LateRemoteOK'
    <3> SUFFICES ASSUME LateSide = "remote", ~doc.deleted PROVE LateRemoteOK'
      BY <2>4, <2>8 DEF LateRemoteOK
    <3>1. doc'.sides.remote # 0 => doc.sides.remote # 0 /\ OldAt("remote")' = OldAt("remote")
      BY <2>4, <2>7, <2>8, <2>9
    <3> QED
      BY <1>1, <2>4, <2>8, <3>1 DEF CInv, LateRemoteOK
  <2>15. DeletedThereOK' /\ DeletedHereOK'
    BY <1>1, <2>4, <2>5, <2>8 DEF CInv, DeletedThereOK, DeletedHereOK
  <2>16. WaitingOK' /\ AppliesOK'
    BY <1>1, NothingToSave DEF CInv, WaitingOK
  <2>17. WatchOK'
    <3>1. \A id : Event(id)' = Event(id)
      BY <1>1 DEF Event
    <3>2. Announced' = Announced /\ RemoteOutcome' = RemoteOutcome
      BY <1>1 DEF Announced, RemoteOutcome
    <3>3. owner = "remote" /\ merge # NoMerge => RemoteOutcome.rename = "none"
      BY <1>1 DEF Renaming
    <3> QED
      BY <1>1, <2>4, <2>8, <3>1, <3>2, <3>3 DEF CInv, WatchOK
  <2> QED
    BY <2>11, <2>12, <2>13, <2>14, <2>15, <2>16, <2>17 DEF CInv
<1> QED
  BY <1>3, <1>4

(* The invariant holds *)

LEMMA InitCInv == Init => CInv
<1> SUFFICES ASSUME Init PROVE CInv
  OBVIOUS
<1>1. /\ NoDoc.local = NoFile /\ NoDoc.remote = NoRemote /\ NoDoc.sides = NoSides
      /\ NoDoc.ino = NoFile.ino /\ ~NoDoc.deleted /\ NoSync.pc = "idle"
      /\ NoSync.change = NoDoc
  BY DEF NoDoc, NoSync
<1>2. /\ doc = NoDoc /\ disk = NoFile /\ cozy = <<>> /\ unseen = {} /\ history = <<>>
      /\ sync = NoSync /\ owner = "none" /\ found = <<>> /\ blocked = NoBlock
  BY DEF Init
<1>3. Last = 0 /\ ~LastIsLive
  BY <1>2 DEF Last, LastIsLive
<1>4. LateSide = "none" /\ HereKnown(doc) /\ ThereKnown(doc)
  BY <1>1, <1>2, <1>3 DEF LateSide, OutOfDateSide, NoSides, HereKnown, ThereKnown
<1>5. FilesOK
  <2>1. \A n \in Nat : <<"user", n>> # NoFile.ino
    BY DEF NoFile
  <2> QED
    BY <1>1, <1>2, <1>3, <2>1 DEF FilesOK
<1>6. CalmOK /\ KnownOK
  BY <1>1, <1>2, <1>4 DEF CalmOK, NeverTrashed, KnownOK
<1>7. WaitingOK /\ WatchOK /\ AppliesOK
  BY <1>1, <1>2 DEF WaitingOK, WatchOK, AppliesOK
<1> QED
  BY <1>4, <1>5, <1>6, <1>7
     DEF CInv, LateLocalOK, LateRemoteOK, DeletedThereOK, DeletedHereOK

LEMMA UnchangedCInv == ASSUME IInv, HInv, LInv, CInv, UNCHANGED vars PROVE CInv'
<1>1. /\ UNCHANGED <<disk, dirty, found, cozy, unseen, recent, doc, history, pending, ops>>
      /\ UNCHANGED <<owner, merge, pull, sync, blocked>>
  BY DEF vars, local, remote, pouch, merging, bounds, users
<1>2. LocalIsMerged' = LocalIsMerged
  BY <1>1 DEF LocalIsMerged
<1>3. /\ FilesOK' /\ CalmOK' /\ KnownOK' /\ LateLocalOK' /\ LateRemoteOK'
      /\ DeletedThereOK' /\ DeletedHereOK'
  BY <1>1, <1>2, RecordStays
<1>4. WaitingOK' /\ WatchOK' /\ AppliesOK'
  BY <1>1, WatchStays, AppliesStays DEF CInv, WaitingOK
<1> QED
  BY <1>3, <1>4 DEF CInv

LEMMA NextCInv ==
  ASSUME Pace = "synced", IInv, HInv, LInv, CInv, [Next]_vars, [~GiveUp]_vars
  PROVE  CInv'
<1>1. CASE UserChanges
  BY <1>1, UsersCInv
<1>2. CASE LocalWatcher
  BY <1>2, LocalWatchCInv, MergeLocalCInv DEF LocalWatcher
<1>3. CASE RemoteWatcher
  BY <1>3, RemoteWatchCInv, MergeRemoteCInv, EndWatchCInv DEF RemoteWatcher
<1>4. CASE Apply
  BY <1>4, SeqSavedCInv, SomethingToApply, DownloadCInv, UpdateLocalMetadataCInv,
     TrashLocalCInv, UploadNewCInv, UploadCInv, TrashRemoteCInv DEF Apply
<1>5. CASE PickChange \/ SaveSeq \/ SaveDoc
  BY <1>5, SyncWaitsCInv, SeqSavedCInv, SaveDocCInv
<1>6. CASE Failure
  <2>1. CASE GiveUp
    <3>1. UNCHANGED vars
      BY <2>1
    <3> QED
      BY <3>1, UnchangedCInv
  <2> QED
    BY <1>6, <2>1, BlockCInv, ResolveRemoteConflictCInv, RetryCInv, LocalWatchCInv
    DEF Failure
<1>7. CASE UNCHANGED vars
  BY <1>7, UnchangedCInv
<1> QED
  BY <1>1, <1>2, <1>3, <1>4, <1>5, <1>6, <1>7 DEF Next, Sync

LEMMA AlwaysCInv ==
  ASSUME Pace = "synced"
  PROVE  Spec /\ [][~GiveUp]_vars => [](IInv /\ HInv /\ LInv /\ CInv)
<1>1. Init => LInv /\ CInv
  BY InitLInv, InitCInv
<1>2. IInv /\ HInv /\ LInv /\ CInv /\ [Next]_vars /\ [~GiveUp]_vars => CInv'
  BY NextCInv
<1>3. CInv => NeverTrashed
  BY DEF CInv, CalmOK
<1>4. CInv' => NeverTrashed'
  BY DEF CInv, CalmOK
<1>5. IInv /\ HInv /\ LInv /\ NeverTrashed /\ NeverTrashed' /\ [Next]_vars => LInv'
  BY NextLInv
<1>6. Spec => [](IInv /\ HInv)
  BY AlwaysHInv
<1> QED
  BY <1>1, <1>2, <1>3, <1>4, <1>5, <1>6, PTL DEF Spec

(* Without faults of another kind no change is given up. *)
LEMMA AlwaysTried ==
  ASSUME Pace = "synced", "other" \notin Faults PROVE Spec => [][~GiveUp]_vars
<1>1. Init => LInv /\ CInv
  BY InitLInv, InitCInv
<1>2. IInv /\ HInv /\ LInv /\ CInv => [~GiveUp]_vars
  BY NeverGivesUp
<1>3. IInv /\ HInv /\ LInv /\ CInv /\ [Next]_vars /\ [~GiveUp]_vars => CInv'
  BY NextCInv
<1>4. CInv => NeverTrashed
  BY DEF CInv, CalmOK
<1>5. CInv' => NeverTrashed'
  BY DEF CInv, CalmOK
<1>6. IInv /\ HInv /\ LInv /\ NeverTrashed /\ NeverTrashed' /\ [Next]_vars => LInv'
  BY NextLInv
<1>7. Spec => [](IInv /\ HInv)
  BY AlwaysHInv
<1> QED
  BY <1>1, <1>2, <1>3, <1>4, <1>5, <1>6, <1>7, PTL DEF Spec

(* The theorems *)

(* Quiet sides have the same content: what the record was told of both.     *)
LEMMA QuietConverges == ASSUME IInv, HInv, LInv, CInv PROVE Converged
<1> SUFFICES ASSUME Quiet PROVE LiveContents = {disk.content} \ {None}
  BY DEF Converged
<1>1. /\ HereKnown(doc) /\ ThereKnown(doc)
      /\ \/ LateSide = "none" /\ ~doc.deleted
         \/ LateSide = "local" /\ doc.deleted /\ disk = NoFile /\ ~LastIsLive
  BY QuietIs
<1>2. LiveContents = IF LastIsLive THEN {cozy[Last].content} ELSE {}
  BY LastIs DEF LiveContents
<1>3. NoFile.content = None
  BY DEF NoFile
<1>4. CASE disk = NoFile /\ ~LastIsLive
  BY <1>2, <1>3, <1>4
<1>5. CASE LateSide = "none" /\ ~doc.deleted /\ disk # NoFile
  <2>1. doc # NoDoc
    BY <1>1, <1>5, RecordIs
  <2>2. doc.remote # NoRemote /\ doc.md5sum = doc.local.content
        /\ doc.md5sum = doc.remote.content
    BY <1>5, <2>1, LateIs, RecordIs DEF Told, LateSide
  <2>3. LastIsLive /\ doc.remote.id = Last /\ doc.remote.rev = cozy[Last].rev
    BY <1>1, <1>5, <2>2 DEF ThereKnown
  <2>4. cozy[Last].content = disk.content /\ disk.content # None
    BY <1>1, <1>5, <2>2, <2>3, RecordIs DEF HereKnown, CInv, FilesOK
  <2> QED
    BY <1>2, <2>3, <2>4
<1>6. CASE LateSide = "none" /\ ~doc.deleted /\ disk = NoFile /\ LastIsLive
  <2>1. doc.local = NoFile /\ doc.remote.id = Last /\ Last # 0
    BY <1>1, <1>6, LastIs DEF HereKnown, ThereKnown, LastIsLive
  <2>2. doc.sides.local # 0
    BY <1>6, <2>1, LateIs, RecordIs DEF NoRemote
  <2> QED
    BY <2>1, <2>2, RecordIs
<1> QED
  BY <1>1, <1>4, <1>5, <1>6

(* When the client has nothing left to do, both sides of a file have the    *)
(* same content, if users only change it once their last change is synced:  *)
(* whatever the merges (merge.js), the changes that Sync applies            *)
(* (sync/index.js, local/index.js, remote/index.js), the crashes, the       *)
(* errors of the network and of anything else, the blocked changes and      *)
(* their retries, for any number of them, as long as Sync gives up no       *)
(* change after its last attempt (skipChange).                              *)
THEOREM ConvergeUnlessGivenUp ==
  ASSUME Pace = "synced" PROVE Spec /\ [][~GiveUp]_vars => []Converged
<1>1. IInv /\ HInv /\ LInv /\ CInv => Converged
  BY QuietConverges
<1>2. Spec /\ [][~GiveUp]_vars => [](IInv /\ HInv /\ LInv /\ CInv)
  BY AlwaysCInv
<1> QED
  BY <1>1, <1>2, PTL

(* What Sync needs for a change is always there, so that it gives up none   *)
(* of them unless something else than a crash or the network makes it fail: *)
(* the two sides always converge without such faults.                       *)
THEOREM BothConverge ==
  ASSUME Pace = "synced", "other" \notin Faults PROVE Spec => []Converged
<1>1. Spec => [][~GiveUp]_vars
  BY AlwaysTried
<1> QED
  BY <1>1, ConvergeUnlessGivenUp, PTL

(* Then merge.js never marks a revision as trashed for a side it does not   *)
(* know, so that no content that a user saved is lost: what NothingLost     *)
(* says only of the behaviours without such a mark.                         *)
THEOREM AllKeptUnlessGivenUp ==
  ASSUME Pace = "synced" PROVE Spec /\ [][~GiveUp]_vars => []AllIsSomewhere
<1>1. LInv => AllIsSomewhere
  BY DEF LInv, ContentsOK
<1>2. Spec /\ [][~GiveUp]_vars => [](IInv /\ HInv /\ LInv /\ CInv)
  BY AlwaysCInv
<1> QED
  BY <1>1, <1>2, PTL
=============================================================================
