------------------------------- MODULE IdMap -------------------------------
(***************************************************************************)
(* Encode and Decode (idmap/idmap.go): YouTrack's IDs packed into numbers. *)
(* A field of n bits is given by its capacity 2^n; a shift is then a       *)
(* multiplication or a division, a mask a remainder, and | is + because    *)
(* the fields do not overlap.  The code's capacities are 2^8 and 2^54 for  *)
(* a base ID, 2^7, 2^24, 2^6 and 2^25 for an activity's: 62 bits each,     *)
(* with the flag above them and the sign above that.                       *)
(***************************************************************************)
EXTENDS Integers

CONSTANTS BaseTypes, BaseSeqs, ActTypes, ActSeqs, Cats, Events

Capacity == Nat \ {0}

ASSUME CapacityAssumption ==
  /\ BaseTypes \in Capacity /\ BaseSeqs \in Capacity
  /\ ActTypes \in Capacity /\ ActSeqs \in Capacity
  /\ Cats \in Capacity /\ Events \in Capacity

Flag == BaseTypes * BaseSeqs

ASSUME SameWidthAssumption ==
  ActTypes * (ActSeqs * (Cats * Events)) = Flag

(* What parseYouTrackID makes of an ID: "type-seq" or                      *)
(* "type-seq.cat-event".                                                   *)
BaseId(t, s) ==
  [type |-> t, seq |-> s, cat |-> 0, event |-> 0, isActivity |-> FALSE]
ActivityId(t, s, c, e) ==
  [type |-> t, seq |-> s, cat |-> c, event |-> e, isActivity |-> TRUE]

Ids ==
  {id \in [type : Nat, seq : Nat, cat : Nat, event : Nat, isActivity : BOOLEAN] :
     ~id.isActivity => id.cat = 0 /\ id.event = 0}

-----------------------------------------------------------------------------
(* Seeded fault: the largest number of a field is taken for its capacity.  *)
FitsAtCapacity(id) ==
  IF id.isActivity
    THEN id.type <= ActTypes /\ id.seq <= ActSeqs /\ id.cat <= Cats /\ id.event <= Events
    ELSE id.type <= BaseTypes /\ id.seq <= BaseSeqs

Fits(id) ==
  IF id.isActivity
    THEN id.type < ActTypes /\ id.seq < ActSeqs /\ id.cat < Cats /\ id.event < Events
    ELSE id.type < BaseTypes /\ id.seq < BaseSeqs

Pack(id) ==
  IF id.isActivity
    THEN Flag + (((id.type * ActSeqs + id.seq) * Cats + id.cat) * Events + id.event)
    ELSE id.type * BaseSeqs + id.seq

(* The error of Encode; no number of an ID is negative. *)
Unencodable == -1

Encode(id) == IF Fits(id) THEN Pack(id) ELSE Unencodable

(* Decode of a number that is not negative (a negative one has no ID).     *)
Decode(n) ==
  IF (n \div Flag) % 2 = 0
    THEN BaseId((n \div BaseSeqs) % BaseTypes, n % BaseSeqs)
    ELSE ActivityId((n \div (ActSeqs * (Cats * Events))) % ActTypes,
                    (n \div (Cats * Events)) % ActSeqs,
                    (n \div Events) % Cats,
                    n % Events)
=============================================================================
