------------------------------ MODULE MCVisits ------------------------------
(***************************************************************************)
(* Instances of Visits for TLC: two tenants, one owner, one property.  The *)
(* owner is a model value like the tenants, but not interchangeable with   *)
(* them, so the symmetry is of the tenants, the calls, the rows and the    *)
(* keys, each within its own set.                                          *)
(***************************************************************************)
EXTENDS Visits, TLC

CONSTANTS owner

MCOwnerOf == [p \in Property |-> owner]

MCSymmetry ==
    Permutations(Request) \cup Permutations(VisitId) \cup Permutations(Tenant)
       \cup Permutations(Key) \cup Permutations(Property)
=============================================================================
