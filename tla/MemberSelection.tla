-------------------------- MODULE MemberSelection --------------------------
(***************************************************************************)
(* Which members of a group take part in an attempt: the random retry      *)
(* algorithms of pkg/tecdsa/retry and their use by the signing and the     *)
(* DKG retry loops of pkg/tbtc.  Every client runs them on the members it  *)
(* believes ready, so the result must depend on nothing but the arguments. *)
(*                                                                         *)
(* An operator is a number, its address: the code sorts addresses.  Seats  *)
(* are the members 1..GroupSize.                                           *)
(***************************************************************************)
EXTENDS Integers, FiniteSets, FiniteSetsExt, SequencesExt

CONSTANTS
    GroupSize,          \* number of members of the group
    HonestThreshold,    \* members needed to sign
    GroupQuorum,        \* members needed to generate a key
    Assignments,        \* which operator controls each member
    Seeds,              \* attempt seeds, hashes of the message or DKG seed
    permutation(_, _),  \* where a shuffle of n elements with seed s takes its elements from
    MaxAttempts         \* bound on the attempts of a loop

ASSUME SelectionAssumption ==
    /\ {GroupSize, HonestThreshold, GroupQuorum, MaxAttempts} \subseteq Nat \ {0}
    /\ HonestThreshold =< GroupQuorum /\ GroupQuorum =< GroupSize
    /\ Assignments \subseteq [1..GroupSize -> Nat]
    /\ Seeds \subseteq Int

\* What a shuffle is: no element is lost or duplicated.
ShufflesPermute ==
    \A n \in Nat, s \in Int :
        permutation(n, s) \in [1..n -> 1..n] /\ IsInjective(permutation(n, s))

VARIABLES
    addressOf,          \* the operator of each member
    attemptSeed,        \* seed of the loop
    attemptCounter,     \* number of the attempt
    ready,              \* members that announced readiness for the attempt
    loop                \* "running", or "failed": the selection had no answer

selectionVars == <<addressOf, attemptSeed, attemptCounter, ready, loop>>

Members == 1..GroupSize

(***************************************************************************)
(* Helpers of retry.go.                                                    *)
(***************************************************************************)

\* rng.Shuffle with a generator made from seed s: which permutation it is
\* depends on s and the length alone.
shuffle(list, s) == [i \in DOMAIN list |-> list[permutation(Len(list), s)[i]]]

seatCount(members, operator) ==
    Cardinality({m \in members : addressOf[m] = operator})

seatsOf(members, operators) ==
    {m \in members : addressOf[m] \in operators}

operatorsOf(members) == {addressOf[m] : m \in members}

sorted(numbers) ==
    [i \in 1..Cardinality(numbers) |->
        CHOOSE x \in numbers : Cardinality({y \in numbers : y < x}) = i - 1]

(***************************************************************************)
(* Signing.                                                                *)
(***************************************************************************)

\* Operators in shuffled order are accepted until they have enough seats.
EvaluateRetryParticipantsForSigning(members, seed, retryCount, count) ==
    LET operators == shuffle(sorted(operatorsOf(members)), seed + retryCount)
        firstOnes(n) == {operators[i] : i \in 1..n}
        accepted == Min({n \in 0..Len(operators) :
                            Cardinality(seatsOf(members, firstOnes(n))) >= count})
    IN  firstOnes(accepted)

\* Mutant: the surplus is taken from the members of the whole group.
includedInSigningUnready(qualified) ==
    LET included == {m \in Members : addressOf[m] \in qualified}
    IN  IF Cardinality(included) =< HonestThreshold THEN included
        ELSE {shuffle(sorted(included), attemptSeed + attemptCounter)[i] : i \in 1..HonestThreshold}

\* The ready members of the qualified operators, less the surplus over the
\* honest threshold, which a second shuffle picks.
includedInSigning(qualified) ==
    LET included == {m \in ready : addressOf[m] \in qualified}
    IN  IF Cardinality(included) =< HonestThreshold THEN included
        ELSE {shuffle(sorted(included), attemptSeed + attemptCounter)[i] : i \in 1..HonestThreshold}

signingMembers ==
    includedInSigning(EvaluateRetryParticipantsForSigning(
        ready, attemptSeed, attemptCounter - 1, HonestThreshold))

(***************************************************************************)
(* Key generation.                                                         *)
(***************************************************************************)

\* Mutant: an off-by-one in the number of seats that remain.
eligibleOperatorsOneMore(members, count) ==
    sorted({o \in operatorsOf(members) :
               Cardinality(members) + 1 >= count + seatCount(members, o)})

\* The operators that may be left out alone, sorted.
eligibleOperators(members, count) ==
    sorted({o \in operatorsOf(members) :
               Cardinality(members) >= count + seatCount(members, o)})

\* The sets of one operator that may be left out.
singles(members, count) ==
    {{o} : o \in ToSet(eligibleOperators(members, count))}

\* The pairs of operators that may be left out.
pairs(members, count) ==
    LET operators == eligibleOperators(members, count)
        enough(i, j) == Cardinality(members) >= count
            + seatCount(members, operators[i]) + seatCount(members, operators[j])
    IN  {{operators[p[1]], operators[p[2]]} :
            p \in {q \in (1..Len(operators)) \X (1..Len(operators)) :
                      q[1] < q[2] /\ enough(q[1], q[2])}}

\* The triplets of operators that may be left out.  The loop reads the right
\* operator from the middle position: rightOperator := operators[j].
triplets(members, count) ==
    LET operators == eligibleOperators(members, count)
        I == 1..Len(operators)
        enough(i, j, k) == Cardinality(members) >= count
            + seatCount(members, operators[i]) + seatCount(members, operators[j])
            + seatCount(members, operators[j])
    IN  {{operators[t[1]], operators[t[2]], operators[t[3]]} :
            t \in {q \in I \X I \X I :
                q[1] < q[2] /\ q[2] < q[3] /\ enough(q[1], q[2], q[3])}}

\* Mutant: the shuffle depends on the retry count as well, as it does for
\* signing.
EvaluateRetryParticipantsForKeyGenerationReseeded(members, seed, retryCount, count) ==
    LET one   == SetToSeq(singles(members, count))
        two   == SetToSeq(pairs(members, count))
        three == SetToSeq(triplets(members, count))
        afterOne == retryCount - Len(one)
        afterTwo == afterOne - Len(two)
    IN  IF retryCount < Len(one) THEN shuffle(one, seed + retryCount)[retryCount + 1]
        ELSE IF afterOne < Len(two) THEN shuffle(two, seed + retryCount)[afterOne + 1]
        ELSE IF afterTwo < Len(three) THEN shuffle(three, seed + retryCount)[afterTwo + 1]
        ELSE {}

\* Which operators retry number retryCount leaves out: the entry of that
\* number in the shuffled singles, then the shuffled pairs, then the shuffled
\* triplets.  {} when the retry count is too large.
EvaluateRetryParticipantsForKeyGeneration(members, seed, retryCount, count) ==
    LET one   == SetToSeq(singles(members, count))
        two   == SetToSeq(pairs(members, count))
        three == SetToSeq(triplets(members, count))
        afterOne == retryCount - Len(one)
        afterTwo == afterOne - Len(two)
    IN  IF retryCount < Len(one) THEN shuffle(one, seed)[retryCount + 1]
        ELSE IF afterOne < Len(two) THEN shuffle(two, seed)[afterOne + 1]
        ELSE IF afterTwo < Len(three) THEN shuffle(three, seed)[afterTwo + 1]
        ELSE {}

\* What the DKG loop leaves out in attempt n if members are ready: nobody in
\* the first attempt, retry n - 1 later.
leftOut(members, n) ==
    IF n = 1 THEN {}
    ELSE EvaluateRetryParticipantsForKeyGeneration(
             members, attemptSeed, n - 1, GroupQuorum)

selectionFails(members, n) == n > 1 /\ leftOut(members, n) = {}

keyGenerationMembers ==
    {m \in ready : addressOf[m] \notin leftOut(ready, attemptCounter)}

(***************************************************************************)
(* The loops: each attempt announces again, and a DKG loop ends when the   *)
(* selection returns an error.                                             *)
(***************************************************************************)

enoughReady == Cardinality(ready) >= GroupQuorum

SelectionInit ==
    /\ addressOf \in Assignments
    /\ attemptSeed \in Seeds
    /\ attemptCounter = 1
    /\ ready \in SUBSET Members
    /\ loop = "running"

\* The attempt was short of members or did not produce a result.
nextAttempt ==
    /\ loop = "running"
    /\ attemptCounter < MaxAttempts
    /\ ~ (enoughReady /\ selectionFails(ready, attemptCounter))
    /\ attemptCounter' = attemptCounter + 1
    /\ ready' \in SUBSET Members
    /\ UNCHANGED <<addressOf, attemptSeed, loop>>

\* performMembersSelection returned an error: start returns it.
selectionFailed ==
    /\ loop = "running"
    /\ enoughReady /\ selectionFails(ready, attemptCounter)
    /\ loop' = "failed"
    /\ UNCHANGED <<addressOf, attemptSeed, attemptCounter, ready>>

SelectionNext == nextAttempt \/ selectionFailed

SelectionSpec == SelectionInit /\ [][SelectionNext]_selectionVars

(***************************************************************************)
(* Properties.                                                             *)
(***************************************************************************)

\* A signing attempt has exactly HonestThreshold members and all of them
\* announced readiness, for every distribution of seats, set of ready members
\* and seed: what the Signing module assumes of the selection.
SigningSelectionIsExact ==
    Cardinality(ready) >= HonestThreshold =>
        /\ signingMembers \subseteq ready
        /\ Cardinality(signingMembers) = HonestThreshold

\* While single operators or pairs are left out, a DKG attempt keeps at least
\* GroupQuorum ready members.
SmallExclusionsKeepQuorum ==
    /\ enoughReady
    /\ ~ selectionFails(ready, attemptCounter)
    /\ Cardinality(leftOut(ready, attemptCounter)) =< 2
    => Cardinality(keyGenerationMembers) >= GroupQuorum

\* If the same members stay ready, no two attempts of a DKG loop leave out the
\* same operators, so no attempt is a repetition of an earlier one, the number of
\* operators left out never falls, and every pair that could be left out, by
\* counting the seats that remain, has its turn before the first triplet.
ExclusionsAreInOrder ==
    enoughReady =>
        /\ \A a, b \in 2..attemptCounter :
              a < b /\ ~ selectionFails(ready, b) =>
                  /\ leftOut(ready, a) # leftOut(ready, b)
                  /\ Cardinality(leftOut(ready, a)) =< Cardinality(leftOut(ready, b))
        /\ Cardinality(leftOut(ready, attemptCounter)) = 3 =>
              \A P \in SUBSET operatorsOf(ready) :
                  Cardinality(P) = 2 =>
                      ((Cardinality(ready \ seatsOf(ready, P)) >= GroupQuorum)
                       <=> (\E n \in 2..attemptCounter : leftOut(ready, n) = P))

\* EvaluateRetryParticipantsForKeyGeneration "returns a subslice of those same
\* members of length >= `retryParticipantsCount`".
KeyGenerationKeepsQuorum ==
    enoughReady /\ ~ selectionFails(ready, attemptCounter)
    => Cardinality(keyGenerationMembers) >= GroupQuorum

=============================================================================
