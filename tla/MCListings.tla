----------------------------- MODULE MCListings -----------------------------
(***************************************************************************)
(* Instances of Listings for TLC.  Owners are interchangeable, and so are  *)
(* calls and listings.                                                     *)
(***************************************************************************)
EXTENDS Listings, TLC

MCSymmetry ==
    Permutations(Request) \cup Permutations(Property) \cup Permutations(Owner)
=============================================================================
