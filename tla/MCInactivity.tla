---------------------------- MODULE MCInactivity ----------------------------
(* A small instance of Inactivity for TLC: nobody, one or two members are  *)
(* found inactive.                                                         *)
EXTENDS Inactivity

CONSTANTS m1, m2

MCInactiveSets == {{}, {m1}, {m1, m2}}
=============================================================================
