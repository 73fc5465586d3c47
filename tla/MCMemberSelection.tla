------------------------- MODULE MCMemberSelection -------------------------
(* Small instances of MemberSelection. *)
EXTENDS MemberSelection

\* Members of one operator are next to each other: only the number of seats
\* of each operator matters to the algorithms of retry.go.
MCAssignments ==
    {f \in [Members -> 1..4] : \A m \in 2..GroupSize : f[m - 1] =< f[m]}

MCSeeds == {0, 1}

\* Rotations, of the list for even seeds and of its reverse for odd ones.
MCPermutation(n, s) ==
    [i \in 1..n |-> LET place == ((i + s) % n) + 1
                    IN  IF s % 2 = 0 THEN place ELSE n + 1 - place]

ASSUME MCPermutationAssumption == \A n \in 0..GroupSize^2, s \in 0..(MaxAttempts + 1) :
    MCPermutation(n, s) \in [1..n -> 1..n] /\ IsInjective(MCPermutation(n, s))
=============================================================================
