---------------------------- MODULE MCActionSlots ----------------------------
(* Instances of ActionSlots: the update of a record and a reminder.        *)
EXTENDS ActionSlots

CONSTANTS u, r

KindOfTwo == [s \in Slots |-> IF s = u THEN "update" ELSE "reminder"]
=============================================================================
