------------------------------ MODULE Metadata ------------------------------
(* The sides of a Pouch record (core/metadata.js). Each side carries the    *)
(* number of the last change it knows, 'target' the number of the last      *)
(* change merged. A missing side is 0.                                      *)
EXTENDS Naturals

Side == {"local", "remote"}

OtherSide(side) == IF side = "local" THEN "remote" ELSE "local"

(* A record without sides. *)
NoSides == [target |-> 0, local |-> 0, remote |-> 0]

Sides == [target : Nat, local : Nat, remote : Nat]

HasBothSides(sides) == sides.local # 0 /\ sides.remote # 0

IsUpToDate(side, sides) ==
  IF HasBothSides(sides) THEN sides[side] = sides.target ELSE sides[side] > 0

(* A side that is alone is trusted, even when it is below the target.       *)
IsAtLeastUpToDate(side, sides) ==
  IF HasBothSides(sides) THEN sides[side] >= sides.target ELSE sides[side] > 0

(* The side Sync has to update, of a record that is not erased.             *)
OutOfDateSide(sides) == CASE sides.local > sides.remote -> "remote"
                          [] sides.remote > sides.local -> "local"
                          [] OTHER -> "none"

(* A markSide that raises the side and forgets the target.                  *)
MarkSideOnly(side, sides) == [sides EXCEPT ![side] = sides.target + 1]

(* markSide: the side makes the next change.                                *)
MarkSide(side, sides) == [sides EXCEPT ![side] = sides.target + 1,
                                       !.target = sides.target + 1]

(* markAsUpToDate: both sides have the next change.                         *)
MarkAsUpToDate(sides) == [target |-> sides.target + 1,
                          local  |-> sides.target + 1,
                          remote |-> sides.target + 1]

(* The sides after dissociateLocal or dissociateRemote.                     *)
Dissociated(side, sides) == [sides EXCEPT ![side] = 0]
=============================================================================
