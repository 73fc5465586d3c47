--------------------------- MODULE MCRandomBeacon ---------------------------
(* Small instances of RandomBeacon for TLC. *)
EXTENDS RandomBeacon

D(challenge, submission, precedence) ==
    [resultChallengePeriodLength |-> challenge,
     resultSubmissionTimeout |-> submission,
     submitterPrecedencePeriodLength |-> precedence]

MCDkgParameters == {D(1, 1, 0), D(1, 1, 1)}
MCOneDkgParameters == {D(1, 1, 0)}

(* With the first, an entry is late at once; with the second there is a    *)
(* block before the soft timeout.                                          *)
MCRelayTimeouts == {[soft |-> 0, hard |-> 0], [soft |-> 1, hard |-> 0]}
=============================================================================
