--------------------------- MODULE MCPriceAlerts ---------------------------
(***************************************************************************)
(* Instances of PriceAlerts for TLC.  Owners, subscribers and calls of     *)
(* either kind are interchangeable.                                        *)
(***************************************************************************)
EXTENDS PriceAlerts, TLC

MCSymmetry ==
    Permutations(Request) \cup Permutations(Property) \cup Permutations(Owner) \cup
    Permutations(Ask) \cup Permutations(Subscriber)
=============================================================================
