------------------------------ MODULE MCTokens ------------------------------
(***************************************************************************)
(* An instance of Tokens for TLC.                                          *)
(***************************************************************************)
EXTENDS Tokens, TLC

CONSTANTS u1, u2, s1, s2, r1, r2

AnyName == Permutations(Requests) \cup Permutations(Users) \cup Permutations(Secrets)
=============================================================================
