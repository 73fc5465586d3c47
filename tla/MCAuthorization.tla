-------------------------- MODULE MCAuthorization --------------------------
(* Small instances of Authorization for TLC. *)
EXTENDS Authorization

P(minimum, delay, change) ==
    [minimumAuthorization |-> minimum, authorizationDecreaseDelay |-> delay,
     authorizationDecreaseChangePeriod |-> change]

(* Overwriting is possible at the end of the delay, or at any time; the    *)
(* second minimum is above some of the weights.                            *)
MCParameters == {P(2, 2, 1), P(4, 1, 1)}
=============================================================================
