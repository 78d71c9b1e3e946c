--------------------------- MODULE MCVisitAlerts ---------------------------
(***************************************************************************)
(* Instances of VisitAlerts for TLC.  The run with the liveness property *)
(* has no symmetry, which would hide cycles.                               *)
(***************************************************************************)
EXTENDS VisitAlerts, TLC

CONSTANTS owner

MCOwnerOf == [p \in Property |-> owner]

MCSymmetry ==
    Permutations(Request) \cup Permutations(VisitId) \cup Permutations(Tenant) \cup Permutations(Key)
=============================================================================
