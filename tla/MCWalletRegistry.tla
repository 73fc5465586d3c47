-------------------------- MODULE MCWalletRegistry --------------------------
(* Small instances of WalletRegistry for TLC. *)
EXTENDS WalletRegistry

P(seedTimeout, challenge, submission, precedence) ==
    [seedTimeout |-> seedTimeout,
     resultChallengePeriodLength |-> challenge,
     resultSubmissionTimeout |-> submission,
     submitterPrecedencePeriodLength |-> precedence]

(* Two parameter sets that disagree on every length, and one that the      *)
(* setters refuse.                                                         *)
MCParameters == {P(1, 1, 2, 1), P(2, 2, 1, 0), P(1, 1, 1, 1)}
=============================================================================
