-------------------------- MODULE MCCoordination --------------------------
(* Small instances of Coordination. *)
EXTENDS Coordination, TLC

CONSTANTS A, B

\* One operator holds two seats, the other one.
MCSeatsOf == A :> {1, 2} @@ B :> {3}

\* Each of them leads in some window, one of them with a heartbeat.
MCLeaderOf == 1 :> A @@ 2 :> B
=============================================================================
