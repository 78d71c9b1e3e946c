----------------------------- MODULE MCSeekers -----------------------------
(***************************************************************************)
(* Instances of Search and SavedSearches for TLC.  The two share no state  *)
(* and no property speaks of both, so that one is run while the other is   *)
(* at rest; each reaches every state it reaches alone.                     *)
(***************************************************************************)
EXTENDS Search, SavedSearches, TLC

SearchAtRest == changes = 0 /\ walk = [w \in Walk |-> NewWalk]

SavedAtRest == ask = [k \in Ask |-> NewAsk]

MCInit ==
    /\ SearchInit /\ SavedInit
    /\ Listed = {} \/ Kept = {}

MCNext ==
    \/ SearchNext /\ SavedAtRest /\ UNCHANGED savedVars
    \/ SavedNext /\ SearchAtRest /\ UNCHANGED searchVars

MCSpec == MCInit /\ [][MCNext]_<<searchVars, savedVars>>

MCSymmetry ==
    Permutations(Property) \cup Permutations(Ask) \cup Permutations(SavedId) \cup Permutations(Seeker)
=============================================================================
