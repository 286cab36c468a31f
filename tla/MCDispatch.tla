------------------------------ MODULE MCDispatch ------------------------------
(* Dispatch for TLC: requests are interchangeable, and so are stacks.        *)
EXTENDS Dispatch, TLC

Symmetry == Permutations(Requests) \cup Permutations(Stacks)
=============================================================================
