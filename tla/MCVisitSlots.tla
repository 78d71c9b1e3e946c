---------------------------- MODULE MCVisitSlots ----------------------------
(***************************************************************************)
(* Instances of VisitSlots for TLC: one short day, an hour of two slots.   *)
(* The clock and the visits reach the hour before the slots, the first     *)
(* slot and the second, each an exact slot's length from its neighbours.   *)
(***************************************************************************)
EXTENDS VisitSlots, TLC

CONSTANTS owner

MCOwnerOf == [p \in Property |-> owner]

MCDay == {0}

MCSymmetry ==
    Permutations(Request) \cup Permutations(VisitId) \cup Permutations(Tenant) \cup Permutations(Key)
=============================================================================
