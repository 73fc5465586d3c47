-------------------------------- MODULE Gjkr --------------------------------
(***************************************************************************)
(* The distributed key generation of the random beacon (pkg/beacon/gjkr):  *)
(* twelve phases in lockstep, in which every member broadcasts a message   *)
(* and every member judges the messages it accepted.  A member keeps its   *)
(* own view of who is inactive and who is disqualified; nothing but the    *)
(* rules of the protocol keeps the views of two members equal.             *)
(*                                                                         *)
(* One action stands for a broadcast and for what every member does with   *)
(* it: a member's step depends on its own state and on the messages alone, *)
(* and the block counter opens the phases for everyone at the same block.  *)
(* A broadcast reaches all members or none.  The members of Crashing may   *)
(* stop in any phase.  The members of Faulty send anything the handlers    *)
(* tell apart: nothing, a malformed message, shares that some receivers    *)
(* cannot use, points that do not belong to the shares, wrong accusations, *)
(* keys that do not match, too few or too many revealed keys.              *)
(*                                                                         *)
(* Secrets, shares, commitments and points are abstracted to what the      *)
(* verifications say of them.                                              *)
(***************************************************************************)
EXTENDS Naturals, FiniteSets, Sequences, Functions

CONSTANTS
  Members,              \* the members of the group
  Crashing,             \* the members that may stop
  Faulty,               \* the members that may deviate
  DishonestThreshold,   \* the degree of the polynomials
  PartialPoints,        \* whether points may suit the shares of some members only
  SurplusReveals        \* whether keys of members nobody reconstructs may be revealed

ASSUME GjkrAssumption ==
  /\ IsFiniteSet(Members)
  /\ Crashing \subseteq Members
  /\ Faulty \subseteq Members \ Crashing
  /\ DishonestThreshold \in Nat
  /\ Cardinality(Members \ (Crashing \cup Faulty)) > DishonestThreshold
  /\ PartialPoints \in BOOLEAN
  /\ SurplusReveals \in BOOLEAN

VARIABLES
  phase,         \* the last phase all members completed
  up,            \* the members that did not stop
  inactive,      \* member -> the members it marked as inactive
  disqualified,  \* member -> the members it disqualified
  keys,          \* member -> the senders of the key messages in its evidence log
  evidence,      \* member -> the senders of the shares messages in its evidence log
  dealt,         \* member -> the shares message and the commitments it sent
  qualified,     \* member -> the members whose share it holds
  accusations,   \* member -> the members it accuses in this phase's message
  unsuited,      \* member -> the members whose shares its points do not suit
  points,        \* member -> the members whose points it found valid
  reveals,       \* member -> the keys it reveals
  expected,      \* member -> the members it expects to be reconstructed
  recovered      \* member -> member -> the members whose share of it is known

vars == <<phase, up, inactive, disqualified, keys, evidence, dealt, qualified,
          accusations, unsuited, points, reveals, expected, recovered>>

Followers == Members \ Faulty

Running == up \ Faulty

ShareKinds == {"ok", "wrong", "broken", "absent"}

Others(m) == Members \ {m}

operating(i) == Members \ (inactive[i] \cup disqualified[i])

NoMessage == [sent |-> FALSE, accused |-> {}, match |-> FALSE]

NothingDealt == [sent |-> FALSE, commitments |-> "none", shares |-> [m \in Members |-> "absent"]]

TypeOK ==
  /\ phase \in {0, 2, 4, 5, 8, 9, 10, 11}
  /\ up \subseteq Members
  /\ inactive \in [Followers -> SUBSET Members]
  /\ disqualified \in [Followers -> SUBSET Members]
  /\ \A i \in Followers : inactive[i] \cap disqualified[i] = {} /\ i \in operating(i)
  /\ keys \in [Followers -> SUBSET Members]
  /\ evidence \in [Followers -> SUBSET Members]
  /\ dealt \in [Members -> [sent : BOOLEAN, commitments : {"none", "valid", "invalid"},
                            shares : [Members -> ShareKinds]]]
  /\ qualified \in [Followers -> SUBSET Members]
  /\ accusations \in [Followers -> SUBSET Members]
  /\ unsuited \in [Members -> SUBSET Members]
  /\ points \in [Followers -> SUBSET Members]
  /\ reveals \in [Members -> [sent : BOOLEAN, accused : SUBSET Members, match : BOOLEAN]]
  /\ expected \in [Followers -> SUBSET Members]
  /\ recovered \in [Followers -> [Members -> SUBSET Members]]

Init ==
  /\ phase = 0
  /\ up = Members
  /\ inactive = [i \in Followers |-> {}]
  /\ disqualified = [i \in Followers |-> {}]
  /\ keys = [i \in Followers |-> {}]
  /\ evidence = [i \in Followers |-> {}]
  /\ dealt = [m \in Members |-> NothingDealt]
  /\ qualified = [i \in Followers |-> {}]
  /\ accusations = [i \in Followers |-> {}]
  /\ unsuited = [m \in Members |-> {}]
  /\ points = [i \in Followers |-> {}]
  /\ reveals = [m \in Members |-> NoMessage]
  /\ expected = [i \in Followers |-> {}]
  /\ recovered = [i \in Followers |-> [m \in Members |-> {}]]

(***************************************************************************)
(* What the phases share.                                                  *)
(***************************************************************************)
\* The phase ends for everyone; some of the members that may stop do.
endPhase(from, to) ==
  /\ phase = from
  /\ phase' = to
  /\ up' \in {S \in SUBSET up : Members \ Crashing \subseteq S}

\* The variable of a follower that is still running takes a new value.
forRunning(f, value) == [i \in Followers |-> IF i \in up' THEN value[i] ELSE f[i]]

\* The senders of the messages a member accepts: the others it believes to be
\* operating.
accepted(i, senders) == (senders \cap operating(i)) \ {i}

\* The operating members that sent nothing.
silent(i, senders) == operating(i) \ (senders \cup {i})

\* The silent members are inactive by the time the guilty ones are disqualified,
\* and only an operating member is.
markAsDisqualified(i, senders, guilty) ==
  disqualified[i] \cup (guilty \cap (operating(i) \ silent(i, senders)))

\* guilty: for every member, those it finds guilty.
judge(senders, guilty) ==
  /\ inactive' = forRunning(inactive, [i \in Followers |-> inactive[i] \cup silent(i, senders)])
  /\ disqualified' = forRunning(disqualified,
       [i \in Followers |-> markAsDisqualified(i, senders, guilty[i])])

\* The messages of a phase: what the faulty members chose to say, what the
\* running ones say, and nothing from those that stopped.
choices(kinds) ==
  {said \in [Faulty -> UNION {kinds[f] : f \in Faulty}] : \A f \in Faulty : said[f] \in kinds[f]}

broadcast(said, message, nothing) ==
  [m \in Members |-> IF m \in Faulty THEN said[m] ELSE IF m \in up' THEN message[m] ELSE nothing]

(***************************************************************************)
(* Phases 1 and 2: ephemeral keys.                                         *)
(***************************************************************************)
\* complete: the senders whose message has a key for every other member.
GenerateSymmetricKeys ==
  /\ endPhase(0, 2)
  /\ \E senders \in SUBSET up' : \E complete \in SUBSET senders :
       /\ Running' \subseteq complete
       /\ judge(senders, [i \in Followers |-> accepted(i, senders) \ complete])
       /\ keys' = forRunning(keys, [i \in Followers |-> accepted(i, complete)])
  /\ UNCHANGED <<evidence, dealt, qualified, accusations, unsuited, points, reveals,
                 expected, recovered>>

(***************************************************************************)
(* Phases 3 and 4: shares and commitments.                                 *)
(***************************************************************************)
\* A member deals a share to every other member it believes to be operating.
CalculateMembersShares(m) ==
  [sent |-> TRUE, commitments |-> "valid",
   shares |-> [r \in Members |-> IF r \in operating(m) \ {m} THEN "ok" ELSE "absent"]]

\* What a faulty member may deal: shares that are right, wrong or broken, in any
\* mix, no shares at all, and commitments of the right or of a wrong number.
FaultyDeals(f) ==
  LET mixes == [Others(f) -> {"ok", "wrong", "broken"}] \cup [Others(f) -> {"absent"}]
  IN  {NothingDealt} \cup
      {[sent |-> TRUE, commitments |-> c,
        shares |-> [r \in Members |-> IF r = f THEN "absent" ELSE s[r]]] :
          c \in {"none", "valid", "invalid"}, s \in mixes}

\* The shares message has a share for every other member that is operating.
isValidPeerSharesMessage(message, sender, members) ==
  \A r \in members \ {sender} : message.shares[r] /= "absent"

areSharesValidAgainstCommitments(message, r) ==
  message.commitments = "valid" /\ message.shares[r] = "ok"

VerifyReceivedSharesAndCommitmentsMessages ==
  /\ endPhase(2, 4)
  /\ \E said \in choices([f \in Faulty |-> FaultyDeals(f)]) :
       dealt' = broadcast(said, [i \in Followers |-> CalculateMembersShares(i)], NothingDealt)
  /\ LET active == {m \in Members : dealt'[m].commitments /= "none"}
         wellFormed(i) == {j \in accepted(i, active) :
                             /\ dealt'[j].commitments = "valid"
                             /\ isValidPeerSharesMessage(dealt'[j], j, operating(i) \ silent(i, active))}
         usable(i) == {j \in wellFormed(i) : areSharesValidAgainstCommitments(dealt'[j], i)}
     IN  /\ judge(active, [i \in Followers |-> accepted(i, active) \ usable(i)])
         /\ evidence' = forRunning(evidence,
              [i \in Followers |-> accepted(i, {m \in Members : dealt'[m].sent})])
         /\ qualified' = forRunning(qualified, [i \in Followers |-> usable(i)])
         /\ accusations' = forRunning(accusations, [i \in Followers |-> wellFormed(i) \ usable(i)])
  /\ UNCHANGED <<keys, unsuited, points, reveals, expected, recovered>>

(***************************************************************************)
(* Phase 5: the accusations of phase 4 are resolved.                       *)
(***************************************************************************)
\* A faulty member says nothing, or names any others, with keys that match its
\* ephemeral public keys or with keys that do not.
FaultyMessages(f) ==
  {NoMessage} \cup [sent : {TRUE}, accused : SUBSET Others(f), match : BOOLEAN]

Names(members) == [sent |-> TRUE, accused |-> members, match |-> TRUE]

sendersOf(messages) == {m \in Members : messages[m].sent}

\* Mutant: the accusations of members that are accused themselves are skipped.
complaintsOfUnaccused(i, messages) ==
  {c \in accepted(i, sendersOf(messages)) \X Members :
     /\ c[2] \in messages[c[1]].accused
     /\ \A j \in accepted(i, sendersOf(messages)) : c[1] \notin messages[j].accused}

\* The accusations a member has to resolve, as pairs of accuser and accused.
complaints(i, messages) ==
  {c \in accepted(i, sendersOf(messages)) \X Members : c[2] \in messages[c[1]].accused}

\* The accusation is unfounded whatever the shares say: it is against the member
\* itself, the revealed key does not match, or there is nothing to judge by.
isUnfounded(i, messages, accuser, accused) ==
  \/ accused = i
  \/ ~messages[accuser].match
  \/ accused \notin keys[i]
  \/ accused \notin evidence[i]

ResolveSecretSharesAccusationsMessages ==
  /\ endPhase(4, 5)
  /\ \E said \in choices([f \in Faulty |-> FaultyMessages(f)]) :
       LET messages == broadcast(said, [i \in Followers |-> Names(accusations[i])], NoMessage)
           loser(i, c) ==
             IF \/ isUnfounded(i, messages, c[1], c[2])
                \/ areSharesValidAgainstCommitments(dealt[c[2]], c[1])
             THEN c[1] ELSE c[2]
           guilty == [i \in Followers |-> {loser(i, c) : c \in complaints(i, messages)}]
       IN  /\ judge(sendersOf(messages), guilty)
           /\ qualified' = forRunning(qualified, [i \in Followers |-> qualified[i] \ guilty[i]])
  /\ accusations' = [i \in Followers |-> {}]
  /\ UNCHANGED <<keys, evidence, dealt, unsuited, points, reveals, expected, recovered>>

(***************************************************************************)
(* Phases 6 to 8: points.                                                  *)
(***************************************************************************)
\* The members whose shares the points of a faulty member do not suit: none, all,
\* or so many that the points need not lie on the polynomial of the shares.
FaultyPoints(f) ==
  {{}, Others(f)} \cup
  {B \in SUBSET Others(f) : PartialPoints /\ Cardinality(Others(f) \ B) <= DishonestThreshold}

VerifyPublicKeySharePoints ==
  /\ endPhase(5, 8)
  /\ \E said \in choices([f \in Faulty |-> FaultyPoints(f)]) :
       unsuited' = broadcast(said, [i \in Followers |-> {}], {})
  /\ \E senders \in SUBSET up' : \E rightCount \in SUBSET senders :
       LET suited(i) == {j \in accepted(i, rightCount) : j \in qualified[i] /\ i \notin unsuited'[j]}
       IN  /\ Running' \subseteq rightCount
           /\ judge(senders, [i \in Followers |-> accepted(i, senders) \ suited(i)])
           /\ points' = forRunning(points, [i \in Followers |-> suited(i)])
           /\ accusations' = forRunning(accusations,
                [i \in Followers |-> accepted(i, rightCount) \ suited(i)])
  /\ UNCHANGED <<keys, evidence, dealt, qualified, reveals, expected, recovered>>

(***************************************************************************)
(* Phase 9: the accusations of phase 8 are resolved.                       *)
(***************************************************************************)
isShareValidAgainstPublicKeySharePoints(i, accuser, accused) ==
  /\ accused \in points[i]
  /\ dealt[accused].shares[accuser] = "ok"
  /\ accuser \notin unsuited[accused]

ResolvePublicKeySharePointsAccusationsMessages ==
  /\ endPhase(8, 9)
  /\ \E said \in choices([f \in Faulty |-> FaultyMessages(f)]) :
       LET messages == broadcast(said, [i \in Followers |-> Names(accusations[i])], NoMessage)
           losers(i, c) ==
             IF isUnfounded(i, messages, c[1], c[2]) THEN {c[1]}
             ELSE IF dealt[c[2]].shares[c[1]] \in {"broken", "absent"} THEN {c[1], c[2]}
             ELSE IF isShareValidAgainstPublicKeySharePoints(i, c[1], c[2]) THEN {c[1]} ELSE {c[2]}
       IN  judge(sendersOf(messages),
             [i \in Followers |-> UNION {losers(i, c) : c \in complaints(i, messages)}])
  /\ accusations' = [i \in Followers |-> {}]
  /\ UNCHANGED <<keys, evidence, dealt, qualified, unsuited, points, reveals, expected, recovered>>

(***************************************************************************)
(* Phases 10 and 11: the keys of members that dealt shares and then gave   *)
(* no valid points are reconstructed.                                      *)
(***************************************************************************)
\* Mutant: only the disqualified members are reconstructed.
membersForReconstructionOfDisqualified(i) == (disqualified[i] \cap qualified[i]) \ points[i]

membersForReconstruction(i) ==
  ((disqualified[i] \cup inactive[i]) \cap qualified[i]) \ points[i]

RevealMisbehavedMembersKeys ==
  /\ endPhase(9, 10)
  /\ expected' = forRunning(expected, [i \in Followers |-> membersForReconstruction(i)])
  /\ \E said \in choices([f \in Faulty |-> FaultyMessages(f)]) :
       /\ \A f \in Faulty, i \in Running :
            SurplusReveals \/ said[f].accused \subseteq Running' \cup membersForReconstruction(i)
       /\ reveals' = broadcast(said, [i \in Followers |-> Names(membersForReconstruction(i))], NoMessage)
  /\ UNCHANGED <<inactive, disqualified, keys, evidence, dealt, qualified, accusations,
                 unsuited, points, recovered>>

\* Mutant: a message that leaves out an expected key is accepted.
isValidMisbehavedEphemeralKeysMessageWithGaps(i, j, out) == reveals[j].accused \subseteq out

\* The message reveals every key that is expected and no key of a member that is
\* operating, out being the members that are not.
isValidMisbehavedEphemeralKeysMessage(i, j, out) ==
  expected[i] \subseteq reveals[j].accused /\ reveals[j].accused \subseteq out

\* The members a member has disqualified when it has validated the messages, one
\* after the other; gone are the inactive members.
validatedMessages(i, order, gone) ==
  LET after[n \in 0 .. Len(order)] ==
        IF n = 0 THEN disqualified[i]
        ELSE LET dq == after[n - 1]
             IN  IF isValidMisbehavedEphemeralKeysMessage(i, order[n], gone \cup dq)
                 THEN dq ELSE dq \cup {order[n]}
  IN  after[Len(order)]

\* The keys of a message that a member uses, and those among them that open a
\* valid share.
opened(i, j, out) == (reveals[j].accused \cap out) \ {i}

good(i, j, out) ==
  {m \in opened(i, j, out) \cap keys[i] \cap evidence[i] :
     reveals[j].match /\ areSharesValidAgainstCommitments(dealt[m], j)}

\* The messages are validated, and then the shares they open are recovered, from
\* those of the members just disqualified too.  The members that are operating
\* change meanwhile, so the outcome may depend on the order of the messages.
recoverMisbehavedShares(i, order) ==
  LET gone == inactive[i] \cup silent(i, sendersOf(reveals))
      after[n \in 0 .. Len(order)] ==
        IF n = 0 THEN [dq |-> validatedMessages(i, order, gone), shares |-> recovered[i]]
        ELSE LET r == after[n - 1]
                 j == order[n]
                 fair == /\ good(i, j, gone \cup r.dq) = opened(i, j, gone \cup r.dq)
                         /\ i \notin reveals[j].accused
             IN  [dq |-> IF fair THEN r.dq ELSE r.dq \cup {j},
                  shares |-> [m \in Members |-> IF m \in good(i, j, gone \cup r.dq)
                                                THEN r.shares[m] \cup {j} ELSE r.shares[m]]]
  IN  after[Len(order)]

\* A member adds its own share of a member that it expected to be reconstructed
\* to the shares that were recovered, if there are any.
revealMisbehavedMembersShares(i, shares) ==
  [m \in Members |-> IF m \in expected[i] \cap qualified[i] /\ shares[m] /= {}
                     THEN shares[m] \cup {i} ELSE shares[m]]

\* The messages come in any order.
ordersOf(senders) == Bijection(1 .. Cardinality(senders), senders)

ReconstructMisbehavedIndividualKeys ==
  LET outcomes(i) == {recoverMisbehavedShares(i, order) :
                        order \in ordersOf(accepted(i, sendersOf(reveals)))}
  IN  /\ endPhase(10, 11)
      /\ \E result \in [Followers -> UNION {outcomes(i) : i \in Followers}] :
           /\ \A i \in Followers : result[i] \in outcomes(i)
           /\ inactive' = forRunning(inactive,
                [i \in Followers |-> inactive[i] \cup silent(i, sendersOf(reveals))])
           /\ disqualified' = forRunning(disqualified, [i \in Followers |-> result[i].dq])
           /\ recovered' = forRunning(recovered,
                [i \in Followers |-> revealMisbehavedMembersShares(i, result[i].shares)])
      /\ UNCHANGED <<keys, evidence, dealt, qualified, accusations, unsuited, points, reveals, expected>>

\* The protocol is over.
finished == phase = 11 /\ UNCHANGED vars

Next ==
  \/ GenerateSymmetricKeys
  \/ VerifyReceivedSharesAndCommitmentsMessages
  \/ ResolveSecretSharesAccusationsMessages
  \/ VerifyPublicKeySharePoints
  \/ ResolvePublicKeySharePointsAccusationsMessages
  \/ RevealMisbehavedMembersKeys
  \/ ReconstructMisbehavedIndividualKeys
  \/ finished

Spec == Init /\ [][Next]_vars

(***************************************************************************)
(* Phase 12: the keys.                                                     *)
(***************************************************************************)
\* The members whose shares make up a member's share of the group private key.
CombineMemberShares(i) == {i} \cup qualified[i]

\* How often the individual public key of each member is added to the group
\* public key: once for valid points, once for a reconstructed key.
CombineGroupPublicKey(i) ==
  [m \in Members |-> (IF m \in points[i] \cup {i} THEN 1 ELSE 0)
                     + (IF recovered[i][m] /= {} THEN 1 ELSE 0)]

\* The shares a member needs to know to compute the public key share of another
\* operating member, and does not know.
unknownShares(i) ==
  {c \in qualified[i] \X operating(i) :
     /\ c[1] \notin points[i] /\ c[2] /= i
     /\ c[2] \notin recovered[i][c[1]]}

(***************************************************************************)
(* Properties.                                                             *)
(***************************************************************************)
\* Whatever the faulty members send, the running members stay in one group.  No
\* running member ever marks another one as inactive or disqualified: every message
\* of a member that follows the protocol stands the checks of every other, and every
\* one of its accusations is confirmed.  And the running members agree on who is
\* left in the group and on whose shares qualify, whenever the accusations of a
\* phase are resolved, although they judge on their own, some of them a phase
\* earlier than others: a member disqualifies those it accuses when it accuses them.
SameGroup ==
  \A i, j \in Running :
    /\ j \in operating(i)
    /\ phase \in {2, 5, 9, 10, 11} => operating(i) = operating(j)
    /\ phase \in {5, 9, 10, 11} => CombineMemberShares(i) = CombineMemberShares(j)

\* The group public key belongs to the group private key: it has the individual
\* key of every member whose shares were combined, exactly once, and nothing else,
\* and each is the right key: the points suit the shares, and a reconstruction had
\* shares enough to interpolate.  Members that stop between dealing shares and
\* publishing points are the hard case.
GroupKeyMatchesShares ==
  phase = 11 =>
    \A i \in Running :
      /\ \A m \in Members :
           CombineGroupPublicKey(i)[m] = IF m \in CombineMemberShares(i) THEN 1 ELSE 0
      /\ \A m \in points[i] : unsuited[m] = {}
      /\ \A m \in Members :
           recovered[i][m] /= {} => Cardinality(recovered[i][m]) > DishonestThreshold

\* A running member knows every share it needs for the public key shares of the
\* other operating members, with which it verifies their relay entry shares: a
\* member whose message leaves out a key is out of the group.
KeySharesAreKnown == phase = 11 => \A i \in Running : unknownShares(i) = {}
=============================================================================
