----------------------------- MODULE MCSigning -----------------------------
(* Small instances of Signing for TLC. *)
EXTENDS Signing, TLC

(* The members are interchangeable: every choice of selection is an        *)
(* initial state.                                                          *)
MemberSymmetry == Permutations(Members)
=============================================================================
