------------------------------- MODULE MCAuth -------------------------------
(***************************************************************************)
(* Instances of Auth for TLC.                                              *)
(***************************************************************************)
EXTENDS Auth, TLC

CONSTANTS a1, a2, a3, w1, w2, s1, s2, r1, r2

AnyName == Permutations(WellFormed) \cup
           Permutations(Words) \cup Permutations(Secrets) \cup Permutations(Requests)
=============================================================================
