-------------------------- MODULE MCConversations --------------------------
(***************************************************************************)
(* Instances of Conversations for TLC.  Messages are known by their        *)
(* position, everything else is interchangeable.                           *)
(***************************************************************************)
EXTENDS Conversations, TLC

MCSymmetry ==
    Permutations(Request) \cup Permutations(ConvId) \cup Permutations(User)
       \cup Permutations(Subject)
=============================================================================
