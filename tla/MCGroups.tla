------------------------------ MODULE MCGroups ------------------------------
(* A small instance of Groups for TLC. *)
EXTENDS Groups

(* Groups that expire at once, soon, and not within the bound.             *)
MCLifetimes == {0, 2, 5}

(* The keys of groups are interchangeable.                                 *)
KeySymmetry == Permutations(GroupKeys)
=============================================================================
