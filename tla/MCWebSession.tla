---------------------------- MODULE MCWebSession ----------------------------
(***************************************************************************)
(* Instances of WebSession for TLC.                                        *)
(***************************************************************************)
EXTENDS WebSession, TLC

CONSTANTS t1, t2, u1, u2, c1, c2

AnyName == Permutations(Tabs) \cup Permutations(Users) \cup Permutations(Calls)
=============================================================================
