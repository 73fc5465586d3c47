------------------------------- MODULE MCGjkr -------------------------------
(***************************************************************************)
(* Instances of Gjkr for TLC.                                              *)
(***************************************************************************)
EXTENDS Gjkr

CONSTANTS m1, m2, m3, m4
=============================================================================
