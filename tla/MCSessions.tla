----------------------------- MODULE MCSessions -----------------------------
(***************************************************************************)
(* Instances of Sessions for TLC: two ways to type one address, and        *)
(* another address.  Tokens, accounts and passwords are interchangeable,   *)
(* the spellings are not.                                                  *)
(***************************************************************************)
EXTENDS Sessions, TLC

CONSTANTS typed, lower, other

MCLowerCase == [a \in Address |-> IF a = typed THEN lower ELSE a]

MCSymmetry ==
    Permutations(Request) \cup Permutations(UserId) \cup Permutations(TokenId)
       \cup Permutations(ResetId) \cup Permutations(Password)
=============================================================================
