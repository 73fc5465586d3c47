---------------------------- MODULE MCDkgClients ----------------------------
(* A small instance of DkgClients for TLC. *)
EXTENDS DkgClients

MCParameters ==
    {[seedTimeout |-> 1,
      resultChallengePeriodLength |-> 2,
      resultSubmissionTimeout |-> 3,
      submitterPrecedencePeriodLength |-> 1]}

MCKeys == SUBSET Operators
=============================================================================
