----------------------------- MODULE GjkrProofs -----------------------------
(***************************************************************************)
(* Proofs about Gjkr, for any group of which at most one member deviates   *)
(* and any number may stop.                                                *)
(***************************************************************************)
EXTENDS Gjkr, FiniteSetTheorems, WellFoundedInduction, TLAPS

(***************************************************************************)
(* The inductive invariant.  Between two phases the views of the running   *)
(* members are given by sets that are the same for all of them.            *)
(***************************************************************************)
\* At most one member deviates, and its messages are those of the run gjkr.
OneDeviates ==
  /\ \A f, g \in Faulty : f = g
  /\ ~PartialPoints
  /\ ~SurplusReveals

\* Every running member believes exactly the members of Z to be operating.
OperatingAre(Z) ==
  /\ Running \subseteq Z
  /\ \A i \in Running : operating(i) = Z

\* The evidence logs: the keys of O and the shares messages of X.  A member that
\* follows the protocol dealt valid shares to all of O.
LogsAre(O, X) ==
  /\ X \subseteq O
  /\ \A i \in Running : keys[i] = O \ {i} /\ evidence[i] = X \ {i}
  /\ \A m \in X \ Faulty : \A r \in O \ {m} : areSharesValidAgainstCommitments(dealt[m], r)

\* Every running member holds a valid share of every member of Q.
QualifiedAre(X, Q) ==
  /\ Q \subseteq X
  /\ \A i \in Running :
       /\ qualified[i] = Q \ {i}
       /\ \A m \in Q \ {i} : areSharesValidAgainstCommitments(dealt[m], i)

\* Every running member holds the points of the members of P, which suit all
\* their shares.
PointsAre(Q, P) ==
  /\ P \subseteq Q
  /\ \A i \in Running : points[i] = P \ {i}
  /\ \A m \in P : unsuited[m] = {}

\* After phase 4 a running member has disqualified those it accuses, and no
\* others among W: the members whose messages are well-formed.
AccusedAre(X, W) ==
  /\ W \subseteq X
  /\ Running \subseteq W
  /\ \A i \in Running :
       /\ operating(i) = W \ accusations[i]
       /\ qualified[i] = operating(i) \ {i}
       /\ accusations[i] =
            {m \in W \ {i} : ~areSharesValidAgainstCommitments(dealt[m], i)}

\* The messages of phase 10: a member that follows the protocol reveals the keys
\* of E or said nothing, and nobody reveals the key of a member that nobody
\* reconstructs.
RevealsAre(E) ==
  /\ \A i \in Running : expected[i] = E /\ reveals[i] = Names(E)
  /\ \A m \in Members : reveals[m].accused \subseteq Running \cup E

NothingRecovered == recovered = [i \in Followers |-> [m \in Members |-> {}]]

\* What a running member knows at the end, E being the members reconstructed.
RecoveredAre(E, Z) ==
  \A i \in Running : \A m \in Members :
    /\ m \notin E => recovered[i][m] = {}
    /\ m \in E => Z \ {i} \subseteq recovered[i][m]
    /\ m \in E /\ recovered[i][m] /= {} => i \in recovered[i][m]
    /\ recovered[i][m] \subseteq Members

AfterKeys ==
  \E O \in SUBSET Members : OperatingAre(O) /\ \A i \in Running : keys[i] = O \ {i}

AfterShares ==
  \E O, X, W \in SUBSET Members : LogsAre(O, X) /\ AccusedAre(X, W)

AfterAccusations ==
  \E O, X, Q, Z \in SUBSET Members :
    LogsAre(O, X) /\ QualifiedAre(X, Q) /\ Z \subseteq Q /\ OperatingAre(Z)

AfterPoints ==
  \E O, X, Q, P, A \in SUBSET Members :
    /\ LogsAre(O, X) /\ QualifiedAre(X, Q) /\ PointsAre(Q, P) /\ OperatingAre(P)
    /\ A \subseteq Q \ P
    /\ \A i \in Running : accusations[i] = A

AfterPointsAccusations ==
  \E O, X, Q, P, Z \in SUBSET Members :
    /\ LogsAre(O, X) /\ QualifiedAre(X, Q) /\ PointsAre(Q, P)
    /\ Z \subseteq P /\ OperatingAre(Z)

AfterReveals ==
  \E O, X, Q, P, Z \in SUBSET Members :
    /\ LogsAre(O, X) /\ QualifiedAre(X, Q) /\ PointsAre(Q, P)
    /\ Z \subseteq P /\ OperatingAre(Z) /\ RevealsAre(Q \ P)

AfterReconstruction ==
  \E X, Q, P, Z \in SUBSET Members :
    /\ QualifiedAre(X, Q) /\ PointsAre(Q, P)
    /\ Z \subseteq P /\ OperatingAre(Z) /\ RecoveredAre(Q \ P, Z)

Inv ==
  /\ up \subseteq Members
  /\ Members \ Crashing \subseteq up
  /\ \/ phase = 0 /\ NothingRecovered /\ \A i \in Followers : operating(i) = Members
     \/ phase = 2 /\ NothingRecovered /\ AfterKeys
     \/ phase = 4 /\ NothingRecovered /\ AfterShares
     \/ phase = 5 /\ NothingRecovered /\ AfterAccusations
     \/ phase = 8 /\ NothingRecovered /\ AfterPoints
     \/ phase = 9 /\ NothingRecovered /\ AfterPointsAccusations
     \/ phase = 10 /\ NothingRecovered /\ AfterReveals
     \/ phase = 11 /\ AfterReconstruction

(***************************************************************************)
(* What the phases share.                                                  *)
(***************************************************************************)
\* The view of a member after a phase (judge): those that sent something and that
\* it does not find guilty remain.
LEMMA Judged ==
  ASSUME NEW senders, NEW guilty, judge(senders, guilty), NEW i \in Followers, i \in up'
  PROVE  operating(i)' = (operating(i) \cap (senders \cup {i})) \ guilty[i]
<1>1. /\ inactive'[i] = inactive[i] \cup silent(i, senders)
      /\ disqualified'[i] = markAsDisqualified(i, senders, guilty[i])
  BY Zenon DEF judge, forRunning
<1>2. operating(i)' = Members \ (inactive'[i] \cup disqualified'[i])
  BY Zenon DEF operating
<1>3. QED
  BY <1>1, <1>2, SMT DEF markAsDisqualified, silent, operating

\* The members that stop in a phase (endPhase) may all stop, and none starts again.
LEMMA Stopping ==
  ASSUME NEW from, NEW to, endPhase(from, to), Inv
  PROVE  /\ up' \subseteq Members
         /\ Members \ Crashing \subseteq up'
         /\ Running' \subseteq Running
         /\ \A i \in Running' : i \in Followers /\ i \in up' /\ i \in Members
<1>1. up' \subseteq up /\ Members \ Crashing \subseteq up' /\ up \subseteq Members
  BY Zenon DEF endPhase, Inv
<1>2. QED
  BY <1>1, Zenon DEF Running, Followers

(***************************************************************************)
(* The phases.                                                             *)
(***************************************************************************)
\* Phase 2: the senders of complete key messages are left in every view.
LEMMA KeysStep ==
  ASSUME Inv, GenerateSymmetricKeys
  PROVE  Inv'
<1>1. phase = 0 /\ phase' = 2 /\ endPhase(0, 2)
  BY Zenon DEF GenerateSymmetricKeys, endPhase
<1>i. NothingRecovered /\ \A i \in Followers : operating(i) = Members
  BY <1>1, SMT DEF Inv
<1>s. /\ up' \subseteq Members
      /\ Members \ Crashing \subseteq up'
      /\ Running' \subseteq Running
      /\ \A i \in Running' : i \in Followers /\ i \in up' /\ i \in Members
  BY <1>1, Stopping, Zenon
<1>a. PICK senders \in SUBSET up' : \E complete \in SUBSET senders :
        /\ Running' \subseteq complete
        /\ judge(senders, [i \in Followers |-> accepted(i, senders) \ complete])
        /\ keys' = forRunning(keys, [i \in Followers |-> accepted(i, complete)])
  BY Zenon DEF GenerateSymmetricKeys
<1>2. PICK complete \in SUBSET senders :
        /\ Running' \subseteq complete
        /\ judge(senders, [i \in Followers |-> accepted(i, senders) \ complete])
        /\ keys' = forRunning(keys, [i \in Followers |-> accepted(i, complete)])
  BY <1>a, Zenon
<1>3. ASSUME NEW i \in Running'
      PROVE  operating(i)' = complete /\ keys'[i] = complete \ {i}
  <2>1. i \in Followers /\ i \in up' /\ i \in complete /\ operating(i) = Members
    BY <1>i, <1>2, <1>s, Zenon
  <2>2. operating(i)' =
          (operating(i) \cap (senders \cup {i}))
            \ [k \in Followers |-> accepted(k, senders) \ complete][i]
    BY <1>2, <2>1, Judged
  <2>3. [k \in Followers |-> accepted(k, senders) \ complete][i] = accepted(i, senders) \ complete
    BY <2>1, Zenon
  <2>4. keys'[i] = accepted(i, complete)
    BY <1>2, <2>1, Zenon DEF forRunning
  <2>5. complete \subseteq Members /\ senders \subseteq Members
    BY <1>s, Zenon
  <2>6. QED
    BY <2>1, <2>2, <2>3, <2>4, <2>5, SMT DEF accepted
<1>4. NothingRecovered'
  BY <1>i, Zenon DEF NothingRecovered, GenerateSymmetricKeys
<1>5. OperatingAre(complete)' /\ \A i \in Running' : keys'[i] = complete \ {i}
  BY <1>2, <1>3, Zenon DEF OperatingAre
<1>6. complete \in SUBSET Members
  BY <1>s, Zenon
<1>q. AfterKeys'
  BY <1>1, <1>4, <1>5, <1>6, <1>s, Zenon DEF AfterKeys
<1>7. QED
  BY <1>1, <1>4, <1>5, <1>6, <1>s, <1>q, Zenon DEF Inv

\* The messages of a phase (broadcast): those of the members that stopped are
\* missing, and a deviating member says what it chose.
LEMMA Broadcast ==
  ASSUME NEW said, NEW message, NEW nothing, NEW m \in Members
  PROVE  /\ m \in Running' => broadcast(said, message, nothing)[m] = message[m]
         /\ m \in Faulty => broadcast(said, message, nothing)[m] = said[m]
         /\ m \notin Faulty /\ m \notin Running' => broadcast(said, message, nothing)[m] = nothing
BY Zenon DEF broadcast, Running

\* What a member that follows the protocol deals (CalculateMembersShares).
LEMMA OwnDeal ==
  ASSUME NEW m
  PROVE  /\ CalculateMembersShares(m).sent
         /\ CalculateMembersShares(m).commitments = "valid"
         /\ \A r \in Members : r \in operating(m) \ {m} =>
              CalculateMembersShares(m).shares[r] = "ok"
BY SMT DEF CalculateMembersShares

\* Phase 4: the logs agree, and so do the members whose messages are well-formed.
LEMMA SharesStep ==
  ASSUME Inv, VerifyReceivedSharesAndCommitmentsMessages
  PROVE  Inv'
<1> DEFINE active == {m \in Members : dealt'[m].commitments /= "none"}
           sent == {m \in Members : dealt'[m].sent}
           wellFormed(i) == {j \in accepted(i, active) :
                               /\ dealt'[j].commitments = "valid"
                               /\ isValidPeerSharesMessage(dealt'[j], j, operating(i) \ silent(i, active))}
           usable(i) == {j \in wellFormed(i) : areSharesValidAgainstCommitments(dealt'[j], i)}
<1>1. phase = 2 /\ phase' = 4 /\ endPhase(2, 4)
  BY Zenon DEF VerifyReceivedSharesAndCommitmentsMessages, endPhase
<1>i. NothingRecovered /\ AfterKeys
  BY <1>1, SMT DEF Inv
<1>2. /\ up' \subseteq Members
      /\ Members \ Crashing \subseteq up'
      /\ Running' \subseteq Running
      /\ \A i \in Running' : i \in Followers /\ i \in up' /\ i \in Members
  BY <1>1, Stopping, Zenon
<1>3. PICK said \in choices([f \in Faulty |-> FaultyDeals(f)]) :
        dealt' = broadcast(said, [i \in Followers |-> CalculateMembersShares(i)], NothingDealt)
  BY Zenon DEF VerifyReceivedSharesAndCommitmentsMessages
<1>4. /\ judge(active, [i \in Followers |-> accepted(i, active) \ usable(i)])
      /\ evidence' = forRunning(evidence, [i \in Followers |-> accepted(i, sent)])
      /\ qualified' = forRunning(qualified, [i \in Followers |-> usable(i)])
      /\ accusations' = forRunning(accusations, [i \in Followers |-> wellFormed(i) \ usable(i)])
      /\ keys' = keys
      /\ recovered' = recovered
  BY Zenon DEF VerifyReceivedSharesAndCommitmentsMessages
<1>5. PICK O \in SUBSET Members : OperatingAre(O) /\ \A i \in Running : keys[i] = O \ {i}
  BY <1>i, Zenon DEF AfterKeys
<1>6. \A i \in Running' : operating(i) = O /\ i \in O
  BY <1>2, <1>5, Zenon DEF OperatingAre
<1>7. \A i \in Running' : dealt'[i] = CalculateMembersShares(i)
  BY <1>2, <1>3, Broadcast, SMT
<1>8. \A m \in Members \ Faulty : m \notin Running' => dealt'[m] = NothingDealt
  BY <1>3, Broadcast, SMT
<1>9. \A m \in Faulty \cap Members : dealt'[m] \in FaultyDeals(m)
  BY <1>3, Broadcast, SMT DEF choices
<1>10. active \subseteq sent
  <2>1. SUFFICES ASSUME NEW m \in Members, dealt'[m].commitments /= "none"
                 PROVE  dealt'[m].sent
    BY Zenon
  <2>2. CASE m \in Faulty
    BY <1>9, <2>1, <2>2, SMT DEF FaultyDeals, NothingDealt
  <2>3. CASE m \in Running'
    BY <1>7, <2>3, OwnDeal, Zenon
  <2>4. CASE m \notin Faulty /\ m \notin Running'
    BY <1>8, <2>1, <2>4, SMT DEF NothingDealt
  <2>5. QED
    BY <2>2, <2>3, <2>4, Zenon
<1>11. \A i \in Running' : \A r \in O \ {i} : areSharesValidAgainstCommitments(dealt'[i], r)
  <2>1. SUFFICES ASSUME NEW i \in Running', NEW r \in O \ {i}
                 PROVE  areSharesValidAgainstCommitments(dealt'[i], r)
    BY Zenon
  <2>2. dealt'[i] = CalculateMembersShares(i) /\ r \in Members /\ r \in operating(i) \ {i}
    BY <1>6, <1>7, Zenon
  <2>3. /\ CalculateMembersShares(i).commitments = "valid"
        /\ CalculateMembersShares(i).shares[r] = "ok"
    BY <2>2, OwnDeal, Zenon
  <2>4. QED
    BY <2>2, <2>3, Zenon DEF areSharesValidAgainstCommitments
<1>12. \A m \in (O \cap sent) \ Faulty : m \in Running'
  BY <1>8, SMT DEF NothingDealt
<1>13. \A i \in Running' : i \in active /\ i \in sent /\ dealt'[i].commitments = "valid"
  <2>1. SUFFICES ASSUME NEW i \in Running'
                 PROVE  i \in active /\ i \in sent /\ dealt'[i].commitments = "valid"
    BY Zenon
  <2>a. dealt'[i] = CalculateMembersShares(i) /\ i \in Members
    BY <1>2, <1>7, Zenon
  <2>2. dealt'[i].sent /\ dealt'[i].commitments = "valid" /\ i \in Members
    BY <2>a, OwnDeal, Zenon
  <2>3. QED
    BY <2>2, SMT
<1>x. PICK X \in SUBSET Members : X = O \cap sent
  BY Zenon
<1>w. PICK W \in SUBSET Members :
        W = {j \in O \cap active : /\ dealt'[j].commitments = "valid"
                                   /\ isValidPeerSharesMessage(dealt'[j], j, O \cap active)}
  <2> HIDE DEF active
  <2> QED
    BY Zenon
<1>14. \A i \in Running' : wellFormed(i) = W \ {i}
  <2>1. SUFFICES ASSUME NEW i \in Running' PROVE wellFormed(i) = W \ {i}
    BY Zenon
  <2>2. i \in active /\ operating(i) = O
    BY <1>6, <1>13, Zenon
  <2> HIDE DEF active
  <2>3. accepted(i, active) = (O \cap active) \ {i}
    BY <2>2, SMT DEF accepted
  <2>4. operating(i) \ silent(i, active) = O \cap active
    BY <2>2, SMT DEF silent
  <2>5. QED
    BY <1>w, <2>3, <2>4, Zenon
<1>15. Running' \subseteq W
  <2>1. SUFFICES ASSUME NEW i \in Running' PROVE i \in W
    BY Zenon
  <2>2. \A r \in (O \cap active) \ {i} : dealt'[i].shares[r] /= "absent"
    BY <1>11, SMT DEF areSharesValidAgainstCommitments
  <2>3. QED
    BY <1>w, <1>6, <1>13, <2>2, Zenon DEF isValidPeerSharesMessage
<1>16. LogsAre(O, X)'
  <2>1. \A i \in Running' : keys'[i] = O \ {i}
    BY <1>2, <1>4, <1>5, Zenon
  <2>2. \A i \in Running' : evidence'[i] = X \ {i}
    <3>1. SUFFICES ASSUME NEW i \in Running' PROVE evidence'[i] = X \ {i}
      BY Zenon
    <3>2. evidence'[i] = accepted(i, sent)
      BY <1>2, <1>4, Zenon DEF forRunning
    <3>3. QED
      BY <1>x, <1>6, <3>2, SMT DEF accepted
  <2>3. X \subseteq O /\ \A m \in X \ Faulty : m \in Running'
    BY <1>x, <1>12, Zenon
  <2>4. QED
    BY <1>11, <2>1, <2>2, <2>3, Zenon DEF LogsAre
<1>17. AccusedAre(X, W)'
  <2>1. W \subseteq X
    BY <1>x, <1>w, <1>10, Zenon
  <2>2. ASSUME NEW i \in Running'
        PROVE  /\ operating(i)' = W \ accusations'[i]
               /\ qualified'[i] = operating(i)' \ {i}
               /\ accusations'[i] =
                    {m \in W \ {i} : ~areSharesValidAgainstCommitments(dealt'[m], i)}
    <3>1. i \in Followers /\ i \in up' /\ i \in active /\ i \in W
      BY <1>2, <1>13, <1>15, Zenon
    <3>2. qualified'[i] = usable(i) /\ accusations'[i] = wellFormed(i) \ usable(i)
      BY <1>4, <3>1, Zenon DEF forRunning
    <3>3. wellFormed(i) = W \ {i} /\ operating(i) = O
      BY <1>6, <1>14, Zenon
    <3>4. usable(i) = {m \in W \ {i} : areSharesValidAgainstCommitments(dealt'[m], i)}
      BY <3>3, Zenon
    <3>5. W \subseteq O \cap active
      BY <1>w, Zenon
    <3> HIDE DEF active, usable, wellFormed
    <3>6. operating(i)' = (O \cap (active \cup {i})) \ (accepted(i, active) \ usable(i))
      <4> DEFINE g == [k \in Followers |-> accepted(k, active) \ usable(k)]
      <4>1. judge(active, g)
        BY <1>4, Zenon
      <4>2. g[i] = accepted(i, active) \ usable(i)
        BY <3>1, Zenon
      <4> HIDE DEF g
      <4>3. operating(i)' = (operating(i) \cap (active \cup {i})) \ g[i]
        BY <3>1, <4>1, Judged, SMT
      <4>4. QED
        BY <3>3, <4>2, <4>3, SMT
    <3>7. operating(i)' = {i} \cup usable(i)
      BY <3>1, <3>3, <3>4, <3>5, <3>6, SMT DEF accepted
    <3>8. accusations'[i] = {m \in W \ {i} : ~areSharesValidAgainstCommitments(dealt'[m], i)}
      BY <3>2, <3>3, <3>4, SMT
    <3>9. QED
      BY <3>1, <3>2, <3>4, <3>7, <3>8, SMT
  <2>3. QED
    BY <1>15, <2>1, <2>2, Zenon DEF AccusedAre
<1>18. NothingRecovered'
  BY <1>i, Zenon DEF NothingRecovered, VerifyReceivedSharesAndCommitmentsMessages
<1>20. \E O1, X1, W1 \in SUBSET Members : LogsAre(O1, X1)' /\ AccusedAre(X1, W1)'
  BY <1>16, <1>17, Zenon
<1>q. AfterShares'
  BY <1>1, <1>2, <1>18, <1>20, Zenon DEF AfterShares
<1>21. QED
  BY <1>1, <1>2, <1>18, <1>20, <1>q, Zenon DEF Inv

\* A message that names members (Names).
LEMMA NamedOnes ==
  ASSUME NEW A
  PROVE  Names(A).sent /\ Names(A).accused = A /\ Names(A).match
BY Zenon DEF Names

\* A deviating member does not name itself (FaultyMessages).
LEMMA OthersAreNamed ==
  ASSUME NEW f, NEW message \in FaultyMessages(f)
  PROVE  f \notin message.accused
<1>1. CASE message = NoMessage
  BY <1>1, Zenon DEF NoMessage
<1>2. CASE message \in [sent : {TRUE}, accused : SUBSET Others(f), match : BOOLEAN]
  <2>1. message.accused \in SUBSET Others(f)
    BY <1>2, SMT
  <2>2. QED
    BY <2>1, Zenon DEF Others
<1>3. QED
  BY <1>1, <1>2, Zenon DEF FaultyMessages

\* Phase 5: a member that deviated is out of every view or of none.  Here one
\* deviating member is assumed: the accusations of a second one would be heard only
\* by the members that did not disqualify it a phase earlier.
LEMMA AccusationsStep ==
  ASSUME OneDeviates, Inv, ResolveSecretSharesAccusationsMessages
  PROVE  Inv'
<1>1. phase = 4 /\ phase' = 5 /\ endPhase(4, 5)
  BY Zenon DEF ResolveSecretSharesAccusationsMessages, endPhase
<1>i. NothingRecovered /\ AfterShares
  BY <1>1, SMT DEF Inv
<1>2. /\ up' \subseteq Members
      /\ Members \ Crashing \subseteq up'
      /\ Running' \subseteq Running
      /\ \A i \in Running' : i \in Followers /\ i \in up' /\ i \in Members
  BY <1>1, Stopping, Zenon
<1>3. PICK said \in choices([f \in Faulty |-> FaultyMessages(f)]) :
       LET messages == broadcast(said, [i \in Followers |-> Names(accusations[i])], NoMessage)
           loser(i, c) ==
             IF \/ isUnfounded(i, messages, c[1], c[2])
                \/ areSharesValidAgainstCommitments(dealt[c[2]], c[1])
             THEN c[1] ELSE c[2]
           guilty == [i \in Followers |-> {loser(i, c) : c \in complaints(i, messages)}]
       IN  /\ judge(sendersOf(messages), guilty)
           /\ qualified' = forRunning(qualified, [i \in Followers |-> qualified[i] \ guilty[i]])
  BY Zenon DEF ResolveSecretSharesAccusationsMessages
<1>4. PICK messages :
        messages = broadcast(said, [i \in Followers |-> Names(accusations[i])], NoMessage)
  BY Zenon
<1> DEFINE S == sendersOf(messages)
           loser(i, c) ==
             IF \/ isUnfounded(i, messages, c[1], c[2])
                \/ areSharesValidAgainstCommitments(dealt[c[2]], c[1])
             THEN c[1] ELSE c[2]
           guilty(i) == {loser(i, c) : c \in complaints(i, messages)}
<1>5. PICK g : /\ g = [i \in Followers |-> guilty(i)]
               /\ judge(S, g)
               /\ qualified' = forRunning(qualified, [i \in Followers |-> qualified[i] \ g[i]])
  BY <1>3, <1>4, Zenon
<1>6. PICK O, X, W \in SUBSET Members : LogsAre(O, X) /\ AccusedAre(X, W)
  BY <1>i, Zenon DEF AfterShares
<1>a. /\ \A m : m \in W => m \in X
      /\ \A m : m \in X => m \in O
      /\ \A m : m \in O => m \in Members
      /\ \A m : m \in Running => m \in W
  BY <1>6, Zenon DEF LogsAre, AccusedAre
<1>b. \A i \in Running : \A m : /\ m \in keys[i] <=> m \in O /\ m /= i
                                /\ m \in evidence[i] <=> m \in X /\ m /= i
  BY <1>6, Zenon DEF LogsAre
<1>c. \A i \in Running : operating(i) = W \ accusations[i] /\ qualified[i] = operating(i) \ {i}
  BY <1>6, Zenon DEF AccusedAre
<1>d. \A i \in Running : \A m :
        m \in accusations[i] <=> /\ m \in W /\ m /= i
                                 /\ ~areSharesValidAgainstCommitments(dealt[m], i)
  BY <1>6, Zenon DEF AccusedAre
<1>e. \A m, r : m \in X /\ m \notin Faulty /\ r \in O /\ r /= m
                  => areSharesValidAgainstCommitments(dealt[m], r)
  BY <1>6, Zenon DEF LogsAre
<1>f. \A i \in Running' : i \in Running /\ i \notin Faulty /\ i \in W
  BY <1>2, <1>a, Zenon DEF Followers
<1>8. \A i \in Running' : messages[i] = Names(accusations[i])
  BY <1>2, <1>4, Broadcast, SMT
<1>9. \A i \in Running' : i \in S /\ messages[i].accused = accusations[i] /\ messages[i].match
  <2>1. SUFFICES ASSUME NEW i \in Running'
                 PROVE  i \in S /\ messages[i].accused = accusations[i] /\ messages[i].match
    BY Zenon
  <2>2. messages[i] = Names(accusations[i]) /\ i \in Members
    BY <1>2, <1>8, Zenon
  <2>3. messages[i].sent /\ messages[i].accused = accusations[i] /\ messages[i].match
    BY <2>2, NamedOnes, Zenon
  <2>4. QED
    BY <2>2, <2>3, Zenon DEF sendersOf
<1>10. \A m \in S \ Faulty : m \in Running'
  BY <1>4, Broadcast, SMT DEF sendersOf, NoMessage
<1>11. \A f \in Faulty \cap Members : f \notin messages[f].accused
  <2>1. SUFFICES ASSUME NEW f \in Faulty, f \in Members PROVE f \notin messages[f].accused
    BY Zenon
  <2>2. messages[f] \in FaultyMessages(f)
    BY <1>4, <2>1, Broadcast, SMT DEF choices
  <2>3. QED
    BY <2>2, OthersAreNamed, Zenon
<1>12. \A i \in Running : accusations[i] \subseteq Faulty
  BY <1>a, <1>d, <1>e, Zenon
<1>13. ASSUME NEW i \in Running', NEW c \in complaints(i, messages), c[1] \notin Faulty
       PROVE  c[1] \in Running' /\ c[2] \in accusations[c[1]] /\ loser(i, c) = c[2]
  <2>1. c[1] \in S /\ c[2] \in messages[c[1]].accused
    BY Zenon DEF complaints, accepted
  <2>2. c[1] \in Running' /\ c[2] \in accusations[c[1]]
    BY <1>9, <1>10, <1>13, <2>1, Zenon
  <2>3. c[2] \in Faulty /\ c[2] \in W /\ ~areSharesValidAgainstCommitments(dealt[c[2]], c[1])
    BY <1>d, <1>f, <1>12, <2>2, Zenon
  <2>4. c[2] /= i /\ i \in Running
    BY <1>f, <2>3, Zenon
  <2>5. c[2] \in keys[i] /\ c[2] \in evidence[i]
    BY <1>a, <1>b, <2>3, <2>4, Zenon
  <2>6. messages[c[1]].match
    BY <1>9, <2>2, Zenon
  <2>7. QED
    BY <2>2, <2>3, <2>4, <2>5, <2>6, Zenon DEF isUnfounded
<1>14. ASSUME NEW i \in Running', NEW c \in complaints(i, messages), c[1] \in Faulty
       PROVE  loser(i, c) = c[1]
  <2>1. c[1] \in operating(i) /\ c[1] \in Members /\ c[2] \in messages[c[1]].accused
    BY Zenon DEF complaints, accepted, operating
  <2>a. c[1] /= c[2] /\ i \in Running
    BY <1>f, <1>11, <1>14, <2>1, Zenon
  <2>b. c[1] \in W
    BY <1>c, <2>a, <2>1, Zenon
  <2>2. c[1] \in O /\ c[1] /= c[2] /\ i \in Running
    BY <1>a, <2>a, <2>b, Zenon
  <2>3. CASE c[2] \in X
    <3>1. c[2] \notin Faulty
      BY <1>14, <2>2, Zenon DEF OneDeviates
    <3>2. areSharesValidAgainstCommitments(dealt[c[2]], c[1])
      BY <1>e, <2>2, <2>3, <3>1, Zenon
    <3>3. QED
      BY <3>2, Zenon
  <2>4. CASE c[2] \notin X
    BY <1>b, <2>2, <2>4, Zenon DEF isUnfounded
  <2>5. QED
    BY <2>3, <2>4, Zenon
<1>15. \A i \in Running' : guilty(i) \subseteq Faulty
  <2>1. SUFFICES ASSUME NEW i \in Running', NEW c \in complaints(i, messages)
                 PROVE  loser(i, c) \in Faulty
    BY Zenon
  <2>2. QED
    BY <1>2, <1>12, <1>13, <1>14, Zenon
<1> DEFINE Out(i) == accusations[i] \cup guilty(i)
<1>16. ASSUME NEW i \in Running', NEW j \in Running', NEW f \in accusations[i]
       PROVE  f \in Out(j)
  <2>1. CASE f \in accusations[j]
    BY <2>1, Zenon
  <2>2. CASE f \notin accusations[j]
    <3>1. i /= j /\ i \in Running /\ j \in Running /\ i \notin Faulty /\ f \in Members
      BY <1>a, <1>d, <1>f, <2>2, Zenon
    <3>2. i \in accepted(j, S)
      <4>1. i \in W /\ i \in S /\ i \notin accusations[j]
        BY <1>f, <1>9, <1>12, <3>1, Zenon
      <4>2. i \in operating(j)
        BY <1>c, <3>1, <4>1, Zenon
      <4>3. QED
        BY <3>1, <4>1, <4>2, Zenon DEF accepted
    <3>3. <<i, f>> \in complaints(j, messages)
      BY <1>9, <3>1, <3>2, SMT DEF complaints
    <3>4. <<i, f>>[1] = i /\ <<i, f>>[2] = f
      BY Zenon
    <3>5. loser(j, <<i, f>>) = f
      BY <1>13, <3>1, <3>3, <3>4, Zenon
    <3>6. QED
      BY <3>3, <3>5, Zenon
  <2>3. QED
    BY <2>1, <2>2, Zenon
<1>17. ASSUME NEW i \in Running', NEW j \in Running', NEW c \in complaints(i, messages)
       PROVE  loser(i, c) \in Out(j)
  <2>1. CASE c[1] \notin Faulty
    BY <1>13, <1>16, <2>1, Zenon
  <2>2. CASE c[1] \in Faulty /\ c[1] \in accusations[j]
    BY <1>14, <2>2, Zenon
  <2>3. CASE c[1] \in Faulty /\ c[1] \notin accusations[j]
    <3>1. c[1] \in S /\ c[1] \in operating(i) /\ c \in Members \X Members
          /\ c[2] \in messages[c[1]].accused /\ i \in Running /\ j \in Running /\ j \notin Faulty
      BY <1>f, SMT DEF complaints, accepted, operating
    <3>2. c[1] \in operating(j)
      BY <1>c, <2>3, <3>1, Zenon
    <3>3. c \in complaints(j, messages)
      BY <2>3, <3>1, <3>2, SMT DEF complaints, accepted
    <3>4. loser(i, c) = c[1] /\ loser(j, c) = c[1]
      BY <1>14, <2>3, <3>3, Zenon
    <3>5. QED
      BY <3>3, <3>4, Zenon
  <2>4. QED
    BY <2>1, <2>2, <2>3, Zenon
<1>18. \A i, j \in Running' : Out(i) \subseteq Out(j)
  <2> HIDE DEF loser
  <2> QED
    BY <1>16, <1>17, Zenon
<1>19. PICK Q \in SUBSET Members : Q = {m \in W : \A i \in Running' : m \notin Out(i)}
  BY Zenon
<1>20. PICK Z \in SUBSET Members : Z = Q \cap S
  BY Zenon
<1>21. \A i \in Running' : Q = (W \ accusations[i]) \ guilty(i)
  BY <1>18, <1>19, Zenon
<1>22. ASSUME NEW i \in Running'
       PROVE  /\ operating(i)' = Z
              /\ qualified'[i] = Q \ {i}
              /\ i \in Z
  <2>1. /\ i \in Followers /\ i \in up' /\ i \in S /\ i \in W /\ i \notin Faulty /\ i \in Running
    BY <1>2, <1>f, <1>9, Zenon
  <2>2. g[i] = guilty(i) /\ qualified'[i] = qualified[i] \ g[i]
    BY <1>5, <2>1, Zenon DEF forRunning
  <2>3. operating(i)' = (operating(i) \cap (S \cup {i})) \ g[i]
    BY <1>5, <2>1, Judged, SMT
  <2>4. operating(i) = W \ accusations[i] /\ qualified[i] = operating(i) \ {i}
    BY <1>c, <2>1, Zenon
  <2>5. Q = (W \ accusations[i]) \ g[i] /\ i \notin accusations[i] /\ i \notin g[i]
    BY <1>12, <1>15, <1>21, <2>1, <2>2, Zenon
  <2> HIDE DEF S, guilty
  <2>6. QED
    BY <1>20, <2>1, <2>2, <2>3, <2>4, <2>5, SMT
<1>23. LogsAre(O, X)'
  <2>1. keys' = keys /\ evidence' = evidence /\ dealt' = dealt
    BY Zenon DEF ResolveSecretSharesAccusationsMessages
  <2>2. QED
    BY <1>2, <1>6, <2>1, Zenon DEF LogsAre
<1>24. QualifiedAre(X, Q)'
  <2>1. dealt' = dealt /\ Q \subseteq X
    BY <1>a, <1>19, Zenon DEF ResolveSecretSharesAccusationsMessages
  <2>2. \A i \in Running' : \A m \in Q \ {i} : areSharesValidAgainstCommitments(dealt[m], i)
    BY <1>d, <1>f, <1>21, Zenon
  <2>3. QED
    BY <1>22, <2>1, <2>2, Zenon DEF QualifiedAre
<1>25. OperatingAre(Z)' /\ Z \subseteq Q
  BY <1>20, <1>22, Zenon DEF OperatingAre
<1>26. NothingRecovered'
  BY <1>i, Zenon DEF NothingRecovered, ResolveSecretSharesAccusationsMessages
<1>27. \E O1, X1, Q1, Z1 \in SUBSET Members :
         LogsAre(O1, X1)' /\ QualifiedAre(X1, Q1)' /\ Z1 \subseteq Q1 /\ OperatingAre(Z1)'
  BY <1>23, <1>24, <1>25, Zenon
<1>q. AfterAccusations'
  BY <1>1, <1>2, <1>26, <1>27, Zenon DEF AfterAccusations
<1>28. QED
  BY <1>1, <1>2, <1>26, <1>27, <1>q, Zenon DEF Inv

\* Phase 8: points suit the shares of all members or of none, so all find the same
\* points valid and accuse the same members.
LEMMA PointsStep ==
  ASSUME OneDeviates, Inv, VerifyPublicKeySharePoints
  PROVE  Inv'
<1>1. phase = 5 /\ phase' = 8 /\ endPhase(5, 8)
  BY Zenon DEF VerifyPublicKeySharePoints, endPhase
<1>i. NothingRecovered /\ AfterAccusations
  BY <1>1, SMT DEF Inv
<1>2. /\ up' \subseteq Members
      /\ Members \ Crashing \subseteq up'
      /\ Running' \subseteq Running
      /\ \A i \in Running' : i \in Followers /\ i \in up' /\ i \in Members
  BY <1>1, Stopping, Zenon
<1>3. PICK said \in choices([f \in Faulty |-> FaultyPoints(f)]) :
        unsuited' = broadcast(said, [i \in Followers |-> {}], {})
  BY Zenon DEF VerifyPublicKeySharePoints
<1> DEFINE suited(i, rc) == {j \in accepted(i, rc) : j \in qualified[i] /\ i \notin unsuited'[j]}
<1>4. PICK senders \in SUBSET up' : \E rightCount \in SUBSET senders :
        /\ Running' \subseteq rightCount
        /\ judge(senders, [i \in Followers |-> accepted(i, senders) \ suited(i, rightCount)])
        /\ points' = forRunning(points, [i \in Followers |-> suited(i, rightCount)])
        /\ accusations' = forRunning(accusations,
             [i \in Followers |-> accepted(i, rightCount) \ suited(i, rightCount)])
  BY Zenon DEF VerifyPublicKeySharePoints
<1>5. PICK rightCount \in SUBSET senders :
        /\ Running' \subseteq rightCount
        /\ judge(senders, [i \in Followers |-> accepted(i, senders) \ suited(i, rightCount)])
        /\ points' = forRunning(points, [i \in Followers |-> suited(i, rightCount)])
        /\ accusations' = forRunning(accusations,
             [i \in Followers |-> accepted(i, rightCount) \ suited(i, rightCount)])
  BY <1>4, Zenon
<1>6. PICK O, X, Q, Z \in SUBSET Members :
        LogsAre(O, X) /\ QualifiedAre(X, Q) /\ Z \subseteq Q /\ OperatingAre(Z)
  BY <1>i, Zenon DEF AfterAccusations
<1>7. \A m \in Members : m \notin Faulty => unsuited'[m] = {}
  BY <1>3, Broadcast, SMT DEF Followers
<1>8. \A m \in Members : unsuited'[m] = {} \/ unsuited'[m] = Others(m)
  <2>1. SUFFICES ASSUME NEW m \in Members, m \in Faulty
                 PROVE  unsuited'[m] = {} \/ unsuited'[m] = Others(m)
    BY <1>7, Zenon
  <2>2. unsuited'[m] \in FaultyPoints(m)
    BY <1>3, <2>1, Broadcast, SMT DEF choices
  <2>3. QED
    BY <2>2, Zenon DEF FaultyPoints, OneDeviates
<1>9. PICK P \in SUBSET Members : P = {j \in Z \cap rightCount : unsuited'[j] = {}}
  BY Zenon
<1>10. PICK A \in SUBSET Members : A = (Z \cap rightCount) \ P
  BY Zenon
<1>11. ASSUME NEW i \in Running'
       PROVE  /\ operating(i)' = P
              /\ points'[i] = P \ {i}
              /\ accusations'[i] = A
              /\ i \in P
  <2>1. i \in Followers /\ i \in up' /\ i \in rightCount /\ i \in Members /\ i \in Running
    BY <1>2, <1>5, Zenon
  <2>2. operating(i) = Z /\ i \in Z /\ qualified[i] = Q \ {i}
    BY <1>6, <2>1, Zenon DEF OperatingAre, QualifiedAre
  <2>3. unsuited'[i] = {}
    BY <1>7, <2>1, Zenon DEF Followers
  <2>4. i \in P
    BY <1>9, <2>1, <2>2, <2>3, Zenon
  <2>5. \A j \in Members : j /= i => (i \notin unsuited'[j] <=> unsuited'[j] = {})
    BY <1>8, <2>1, Zenon DEF Others
  <2>6. suited(i, rightCount) = P \ {i}
    BY <1>6, <1>9, <2>2, <2>5, SMT DEF accepted
  <2> HIDE DEF suited
  <2>7. points'[i] = suited(i, rightCount)
        /\ accusations'[i] = accepted(i, rightCount) \ suited(i, rightCount)
    BY <1>5, <2>1, Zenon DEF forRunning
  <2>8. operating(i)' = (Z \cap (senders \cup {i})) \ (accepted(i, senders) \ suited(i, rightCount))
    <3>1. PICK g : g = [k \in Followers |-> accepted(k, senders) \ suited(k, rightCount)]
      BY Zenon
    <3>2. judge(senders, g)
      BY <1>5, <3>1, Zenon
    <3>3. g[i] = accepted(i, senders) \ suited(i, rightCount)
      BY <2>1, <3>1, Zenon
    <3>4. operating(i)' = (operating(i) \cap (senders \cup {i})) \ g[i]
      BY <2>1, <3>2, Judged, SMT
    <3>5. QED
      BY <2>2, <3>3, <3>4, SMT
  <2>9. P \subseteq Z /\ P \subseteq rightCount /\ rightCount \subseteq senders
    BY <1>9, Zenon
  <2>10. operating(i)' = P
    BY <2>2, <2>4, <2>6, <2>8, <2>9, SMT DEF accepted
  <2>11. accusations'[i] = A
    BY <1>10, <2>2, <2>4, <2>6, <2>7, SMT DEF accepted
  <2>12. QED
    BY <2>4, <2>6, <2>7, <2>10, <2>11, Zenon
<1>12. keys' = keys /\ evidence' = evidence /\ dealt' = dealt /\ qualified' = qualified
       /\ recovered' = recovered
  BY Zenon DEF VerifyPublicKeySharePoints
<1>13. LogsAre(O, X)' /\ QualifiedAre(X, Q)'
  BY <1>2, <1>6, <1>12, Zenon DEF LogsAre, QualifiedAre
<1>14. PointsAre(Q, P)'
  BY <1>6, <1>9, <1>11, Zenon DEF PointsAre
<1>15. OperatingAre(P)'
  BY <1>11, Zenon DEF OperatingAre
<1>16. A \subseteq Q \ P
  BY <1>6, <1>10, Zenon
<1>17. NothingRecovered'
  BY <1>i, Zenon DEF NothingRecovered, VerifyPublicKeySharePoints
<1>18. \E O1, X1, Q1, P1, A1 \in SUBSET Members :
         /\ LogsAre(O1, X1)' /\ QualifiedAre(X1, Q1)' /\ PointsAre(Q1, P1)' /\ OperatingAre(P1)'
         /\ A1 \subseteq Q1 \ P1
         /\ \A i \in Running' : accusations'[i] = A1
  BY <1>11, <1>13, <1>14, <1>15, <1>16, Zenon
<1>q. AfterPoints'
  BY <1>1, <1>2, <1>17, <1>18, Zenon DEF AfterPoints
<1>19. QED
  BY <1>1, <1>2, <1>17, <1>18, <1>q, Zenon DEF Inv

\* Phase 9: an accusation of a running member costs only members that are out of
\* every view, and one of a deviating member is judged alike by all.
LEMMA PointsAccusationsStep ==
  ASSUME Inv, ResolvePublicKeySharePointsAccusationsMessages
  PROVE  Inv'
<1>1. phase = 8 /\ phase' = 9 /\ endPhase(8, 9)
  BY Zenon DEF ResolvePublicKeySharePointsAccusationsMessages, endPhase
<1>i. NothingRecovered /\ AfterPoints
  BY <1>1, SMT DEF Inv
<1>2. /\ up' \subseteq Members
      /\ Members \ Crashing \subseteq up'
      /\ Running' \subseteq Running
      /\ \A i \in Running' : i \in Followers /\ i \in up' /\ i \in Members
  BY <1>1, Stopping, Zenon
<1>3. PICK said \in choices([f \in Faulty |-> FaultyMessages(f)]) :
       LET messages == broadcast(said, [i \in Followers |-> Names(accusations[i])], NoMessage)
           losers(i, c) ==
             IF isUnfounded(i, messages, c[1], c[2]) THEN {c[1]}
             ELSE IF dealt[c[2]].shares[c[1]] \in {"broken", "absent"} THEN {c[1], c[2]}
             ELSE IF isShareValidAgainstPublicKeySharePoints(i, c[1], c[2]) THEN {c[1]} ELSE {c[2]}
       IN  judge(sendersOf(messages),
             [i \in Followers |-> UNION {losers(i, c) : c \in complaints(i, messages)}])
  BY Zenon DEF ResolvePublicKeySharePointsAccusationsMessages
<1>4. PICK messages :
        messages = broadcast(said, [i \in Followers |-> Names(accusations[i])], NoMessage)
  BY Zenon
<1> DEFINE S == sendersOf(messages)
           losers(i, c) ==
             IF isUnfounded(i, messages, c[1], c[2]) THEN {c[1]}
             ELSE IF dealt[c[2]].shares[c[1]] \in {"broken", "absent"} THEN {c[1], c[2]}
             ELSE IF isShareValidAgainstPublicKeySharePoints(i, c[1], c[2]) THEN {c[1]} ELSE {c[2]}
           guilty(i) == UNION {losers(i, c) : c \in complaints(i, messages)}
<1>5. PICK g : g = [i \in Followers |-> guilty(i)] /\ judge(S, g)
  BY <1>3, <1>4, Zenon
<1>6. PICK O, X, Q, P, A \in SUBSET Members :
        /\ LogsAre(O, X) /\ QualifiedAre(X, Q) /\ PointsAre(Q, P) /\ OperatingAre(P)
        /\ A \subseteq Q \ P
        /\ \A i \in Running : accusations[i] = A
  BY <1>i, Zenon DEF AfterPoints
<1>a. /\ \A m : m \in P => m \in Q
      /\ \A m : m \in Q => m \in X
      /\ \A m : m \in X => m \in O
      /\ \A m : m \in A => m \in Q /\ m \notin P
      /\ \A m : m \in O => m \in Members
  BY <1>6, Zenon DEF LogsAre, QualifiedAre, PointsAre
<1>b. \A i \in Running : \A m : /\ m \in keys[i] <=> m \in O /\ m /= i
                                /\ m \in evidence[i] <=> m \in X /\ m /= i
                                /\ m \in points[i] <=> m \in P /\ m /= i
  <2>1. \A i \in Running : keys[i] = O \ {i} /\ evidence[i] = X \ {i} /\ points[i] = P \ {i}
    BY <1>6, Zenon DEF LogsAre, PointsAre
  <2>2. QED
    BY <2>1, Zenon
<1>c. \A m, r : m \in X /\ m \notin Faulty /\ r \in O /\ r /= m => dealt[m].shares[r] = "ok"
  BY <1>6, Zenon DEF LogsAre, areSharesValidAgainstCommitments
<1>d. \A i \in Running : \A m : m \in Q /\ m /= i => dealt[m].shares[i] = "ok"
  BY <1>6, Zenon DEF QualifiedAre, areSharesValidAgainstCommitments
<1>e. \A m : m \in P => unsuited[m] = {}
  BY <1>6, Zenon DEF PointsAre
<1>f. \A i \in Running' : i \in Running /\ i \notin Faulty /\ i \in P /\ operating(i) = P
  BY <1>2, <1>6, Zenon DEF Followers, OperatingAre
<1>8. \A i \in Running' : messages[i] = Names(A)
  BY <1>2, <1>4, <1>6, Broadcast, SMT
<1>9. \A i \in Running' : i \in S /\ messages[i].accused = A /\ messages[i].match
  <2>1. SUFFICES ASSUME NEW i \in Running'
                 PROVE  i \in S /\ messages[i].accused = A /\ messages[i].match
    BY Zenon
  <2>2. messages[i] = Names(A) /\ i \in Members
    BY <1>2, <1>8, Zenon
  <2>3. messages[i].sent /\ messages[i].accused = A /\ messages[i].match
    BY <2>2, NamedOnes, Zenon
  <2>4. QED
    BY <2>2, <2>3, Zenon DEF sendersOf
<1>10. \A m \in S \ Faulty : m \in Running'
  BY <1>4, Broadcast, SMT DEF sendersOf, NoMessage
<1>11. ASSUME NEW i \in Running', NEW c \in complaints(i, messages)
       PROVE  /\ c[1] \in S /\ c[1] \in P /\ c[1] /= i /\ c[2] \in messages[c[1]].accused
              /\ c \in Members \X Members
  <2>1. c[1] \in S /\ c[1] \in operating(i) /\ c[1] /= i /\ c[2] \in messages[c[1]].accused
        /\ c \in Members \X Members
    BY SMT DEF complaints, accepted, operating
  <2>2. QED
    BY <1>f, <2>1, Zenon
<1>12. ASSUME NEW i \in Running', NEW c \in complaints(i, messages), c[1] \notin Faulty
       PROVE  losers(i, c) = {c[2]} /\ c[2] \notin P
  <2>1. c[1] \in Running' /\ c[2] \in messages[c[1]].accused
    BY <1>10, <1>11, <1>12, Zenon
  <2>2. c[2] \in A /\ messages[c[1]].match /\ c[1] \in Running
    BY <1>9, <1>f, <2>1, Zenon
  <2>3. c[2] \in Q /\ c[2] \notin P /\ c[2] \in X /\ c[2] \in O
    BY <1>a, <2>2, Zenon
  <2>4. c[2] /= i /\ i \in Running /\ c[2] /= c[1]
    BY <1>11, <1>f, <2>3, Zenon
  <2>5. c[2] \in keys[i] /\ c[2] \in evidence[i] /\ c[2] \notin points[i]
    BY <1>b, <2>3, <2>4, Zenon
  <2>6. dealt[c[2]].shares[c[1]] = "ok"
    BY <1>d, <2>2, <2>3, <2>4, Zenon
  <2>7. ~isUnfounded(i, messages, c[1], c[2])
    BY <2>2, <2>4, <2>5, Zenon DEF isUnfounded
  <2>8. ~isShareValidAgainstPublicKeySharePoints(i, c[1], c[2])
    BY <2>5, Zenon DEF isShareValidAgainstPublicKeySharePoints
  <2>9. dealt[c[2]].shares[c[1]] \notin {"broken", "absent"}
    BY <2>6, SMT
  <2>10. QED
    BY <2>3, <2>7, <2>8, <2>9, Zenon
<1>13. ASSUME NEW i \in Running', NEW c \in complaints(i, messages),
              c[1] \in Faulty, c[2] \in Running'
       PROVE  losers(i, c) = {c[1]}
  <2>1. CASE isUnfounded(i, messages, c[1], c[2])
    BY <2>1, Zenon
  <2>2. CASE ~isUnfounded(i, messages, c[1], c[2])
    <3>1. c[2] /= i /\ i \in Running /\ c[2] \notin Faulty /\ c[2] \in P /\ c[1] \in P /\ c[1] /= c[2]
      BY <1>11, <1>13, <1>f, <2>2, Zenon DEF isUnfounded
    <3>2. c[2] \in X /\ c[1] \in O
      BY <1>a, <3>1, Zenon
    <3>3. dealt[c[2]].shares[c[1]] = "ok" /\ unsuited[c[2]] = {} /\ c[2] \in points[i]
      BY <1>b, <1>c, <1>e, <3>1, <3>2, Zenon
    <3>4. isShareValidAgainstPublicKeySharePoints(i, c[1], c[2])
      BY <3>3, Zenon DEF isShareValidAgainstPublicKeySharePoints
    <3>5. dealt[c[2]].shares[c[1]] \notin {"broken", "absent"}
      BY <3>3, SMT
    <3>6. QED
      BY <2>2, <3>4, <3>5, Zenon
  <2>3. QED
    BY <2>1, <2>2, Zenon
<1>14. ASSUME NEW i \in Running', NEW j \in Running', NEW c \in complaints(i, messages),
              c[1] \in Faulty
       PROVE  c \in complaints(j, messages)
  <2>1. c[1] \in S /\ c[1] \in P /\ c[2] \in messages[c[1]].accused /\ c \in Members \X Members
    BY <1>11, Zenon
  <2>2. c[1] \in operating(j) /\ c[1] /= j
    BY <1>14, <1>f, <2>1, Zenon
  <2>3. QED
    BY <2>1, <2>2, SMT DEF complaints, accepted
<1>15. ASSUME NEW i \in Running', NEW j \in Running', NEW c \in complaints(i, messages),
              c[1] \in Faulty
       PROVE  losers(i, c) = losers(j, c)
  <2>1. CASE c[2] \in Running'
    BY <1>13, <1>14, <1>15, <2>1, Zenon
  <2>2. CASE c[2] \notin Running'
    <3>1. c[2] /= i /\ c[2] /= j /\ i \in Running /\ j \in Running
      BY <1>f, <2>2, Zenon
    <3>2. isUnfounded(i, messages, c[1], c[2]) <=> isUnfounded(j, messages, c[1], c[2])
      BY <1>b, <3>1, Zenon DEF isUnfounded
    <3>3. isShareValidAgainstPublicKeySharePoints(i, c[1], c[2])
            <=> isShareValidAgainstPublicKeySharePoints(j, c[1], c[2])
      BY <1>b, <3>1, Zenon DEF isShareValidAgainstPublicKeySharePoints
    <3>4. QED
      BY <3>2, <3>3, Zenon
  <2>3. QED
    BY <2>1, <2>2, Zenon
<1> HIDE DEF losers
<1>16. ASSUME NEW i \in Running', NEW j \in Running', NEW m \in P, m \in guilty(i)
       PROVE  m \in guilty(j) /\ m \notin Running'
  <2>1. PICK c \in complaints(i, messages) : m \in losers(i, c)
    BY <1>16, Zenon
  <2>2. c[1] \in Faulty
    BY <1>12, <2>1, Zenon
  <2>3. c \in complaints(j, messages) /\ m \in losers(j, c)
    BY <1>14, <1>15, <2>1, <2>2, Zenon
  <2>4. m = c[1] \/ m = c[2]
    BY <2>1, Zenon DEF losers
  <2>5. m \notin Running'
    <3>1. SUFFICES ASSUME m \in Running' PROVE FALSE
      BY Zenon
    <3>2. m /= c[1] /\ m = c[2]
      BY <1>f, <2>2, <2>4, <3>1, Zenon
    <3>3. losers(i, c) = {c[1]}
      BY <1>13, <2>2, <3>1, <3>2, Zenon
    <3>4. QED
      BY <2>1, <3>2, <3>3, Zenon
  <2>6. QED
    BY <2>3, <2>5, Zenon
<1>17. PICK Z \in SUBSET Members : Z = {m \in P \cap S : \A i \in Running' : m \notin guilty(i)}
  <2> HIDE DEF S, guilty
  <2> QED
    BY Zenon
<1>18. ASSUME NEW i \in Running' PROVE operating(i)' = Z /\ i \in Z
  <2>1. i \in Followers /\ i \in up' /\ i \in S /\ i \in P /\ operating(i) = P
    BY <1>2, <1>9, <1>f, Zenon
  <2>2. g[i] = guilty(i)
    BY <1>5, <2>1, Zenon
  <2>3. operating(i)' = (operating(i) \cap (S \cup {i})) \ g[i]
    BY <1>5, <2>1, Judged, SMT
  <2> HIDE DEF S, guilty
  <2>4. Z = (P \cap S) \ guilty(i)
    BY <1>16, <1>17, Zenon
  <2>5. i \in Z
    BY <1>16, <1>17, <2>1, Zenon
  <2>6. operating(i)' = Z
    BY <2>1, <2>2, <2>3, <2>4, SMT
  <2>7. QED
    BY <2>5, <2>6, Zenon
<1>19. /\ keys' = keys /\ evidence' = evidence /\ dealt' = dealt /\ qualified' = qualified
       /\ recovered' = recovered /\ points' = points /\ unsuited' = unsuited
  BY Zenon DEF ResolvePublicKeySharePointsAccusationsMessages
<1>20. LogsAre(O, X)' /\ QualifiedAre(X, Q)' /\ PointsAre(Q, P)'
  BY <1>2, <1>6, <1>19, Zenon DEF LogsAre, QualifiedAre, PointsAre
<1>21. OperatingAre(Z)' /\ Z \subseteq P
  BY <1>17, <1>18, Zenon DEF OperatingAre
<1>22. NothingRecovered'
  BY <1>i, <1>19, Zenon DEF NothingRecovered
<1>23. AfterPointsAccusations'
  BY <1>20, <1>21, Zenon DEF AfterPointsAccusations
<1>24. QED
  BY <1>1, <1>2, <1>22, <1>23, Zenon DEF Inv

\* The members that follow the protocol and do not stop are more than the degree
\* of the polynomials, so there is one.
LEMMA SomeoneRuns ==
  ASSUME Inv
  PROVE  Running /= {}
<1>1. Members \ (Crashing \cup Faulty) /= {}
  BY GjkrAssumption, FS_EmptySet, SMT
<1>2. QED
  BY <1>1, Zenon DEF Inv, Running

\* Phase 10: all running members expect, and reveal, the keys of the same members.
LEMMA RevealStep ==
  ASSUME OneDeviates, Inv, RevealMisbehavedMembersKeys
  PROVE  Inv'
<1>1. phase = 9 /\ phase' = 10 /\ endPhase(9, 10)
  BY Zenon DEF RevealMisbehavedMembersKeys, endPhase
<1>i. NothingRecovered /\ AfterPointsAccusations
  BY <1>1, SMT DEF Inv
<1>2. /\ up' \subseteq Members
      /\ Members \ Crashing \subseteq up'
      /\ Running' \subseteq Running
      /\ \A i \in Running' : i \in Followers /\ i \in up' /\ i \in Members
  BY <1>1, Stopping, Zenon
<1>3. PICK said \in choices([f \in Faulty |-> FaultyMessages(f)]) :
        /\ \A f \in Faulty, i \in Running :
             SurplusReveals \/ said[f].accused \subseteq Running' \cup membersForReconstruction(i)
        /\ reveals' = broadcast(said, [i \in Followers |-> Names(membersForReconstruction(i))], NoMessage)
  BY Zenon DEF RevealMisbehavedMembersKeys
<1>4. PICK O, X, Q, P, Z \in SUBSET Members :
        /\ LogsAre(O, X) /\ QualifiedAre(X, Q) /\ PointsAre(Q, P)
        /\ Z \subseteq P /\ OperatingAre(Z)
  BY <1>i, Zenon DEF AfterPointsAccusations
<1>5. ASSUME NEW i \in Running PROVE membersForReconstruction(i) = Q \ P
  <2>1. qualified[i] = Q \ {i} /\ points[i] = P \ {i} /\ operating(i) = Z /\ i \in Z /\ P \subseteq Q
    BY <1>4, Zenon DEF QualifiedAre, PointsAre, OperatingAre
  <2>2. QED
    BY <1>4, <2>1, SMT DEF membersForReconstruction, operating
<1>6. \A i \in Running' : reveals'[i] = Names(Q \ P)
  <2>1. SUFFICES ASSUME NEW i \in Running' PROVE reveals'[i] = Names(Q \ P)
    BY Zenon
  <2>2. reveals'[i] = [k \in Followers |-> Names(membersForReconstruction(k))][i]
    BY <1>2, <1>3, Broadcast, SMT
  <2>3. QED
    BY <1>2, <1>5, <2>2, Zenon
<1>7. \A m \in Members : reveals'[m].accused \subseteq Running' \cup (Q \ P)
  <2>1. SUFFICES ASSUME NEW m \in Members
                 PROVE  reveals'[m].accused \subseteq Running' \cup (Q \ P)
    BY Zenon
  <2>2. CASE m \in Running'
    BY <1>6, <2>2, NamedOnes, Zenon
  <2>3. CASE m \notin Faulty /\ m \notin Running'
    BY <1>3, <2>3, Broadcast, SMT DEF NoMessage
  <2>4. CASE m \in Faulty
    <3>1. PICK i \in Running : TRUE
      BY SomeoneRuns, Zenon
    <3>2. reveals'[m] = said[m]
      BY <1>3, <2>4, Broadcast, SMT
    <3>3. QED
      BY <1>3, <1>5, <2>4, <3>1, <3>2, Zenon DEF OneDeviates
  <2>5. QED
    BY <2>2, <2>3, <2>4, Zenon
<1>8. \A i \in Running' : expected'[i] = Q \ P
  <2>1. expected' = forRunning(expected, [i \in Followers |-> membersForReconstruction(i)])
    BY Zenon DEF RevealMisbehavedMembersKeys
  <2>2. QED
    BY <1>2, <1>5, <2>1, Zenon DEF forRunning
<1>9. RevealsAre(Q \ P)'
  BY <1>6, <1>7, <1>8, Zenon DEF RevealsAre
<1>10. /\ keys' = keys /\ evidence' = evidence /\ dealt' = dealt /\ qualified' = qualified
       /\ recovered' = recovered /\ points' = points /\ unsuited' = unsuited
       /\ inactive' = inactive /\ disqualified' = disqualified
  BY Zenon DEF RevealMisbehavedMembersKeys
<1>11. LogsAre(O, X)' /\ QualifiedAre(X, Q)' /\ PointsAre(Q, P)'
  BY <1>2, <1>4, <1>10, Zenon DEF LogsAre, QualifiedAre, PointsAre
<1>12. OperatingAre(Z)'
  BY <1>2, <1>4, <1>10, Zenon DEF OperatingAre, operating
<1>13. NothingRecovered'
  BY <1>i, <1>10, Zenon DEF NothingRecovered
<1>14. AfterReveals'
  BY <1>4, <1>9, <1>11, <1>12, Zenon DEF AfterReveals
<1>15. QED
  BY <1>1, <1>2, <1>13, <1>14, Zenon DEF Inv

(***************************************************************************)
(* Phase 11: the messages are processed one after the other.               *)
(***************************************************************************)
\* Induction up to N, for a set of numbers.
LEMMA CountingUp ==
  ASSUME NEW N \in Nat, NEW T, 0 \in T, \A n \in 1 .. N : n - 1 \in T => n \in T
  PROVE  N \in T
<1> DEFINE R == {ss \in Nat \X Nat : ss[1] < ss[2]}
           S == {n \in 0 .. N : n \notin T}
<1>1. R = OpToRel(<, Nat)
  BY Zenon DEF OpToRel
<1>2. IsWellFoundedOn(R, Nat)
  BY <1>1, NatLessThanWellFounded, Zenon
<1>3. SUFFICES ASSUME S /= {} PROVE FALSE
  BY SMT
<1>4. S \in SUBSET Nat
  BY SMT
<1> HIDE DEF R, S
<1>5. PICK x \in S : \A y \in S : ~(<<y, x>> \in R)
  BY <1>2, <1>3, <1>4, WFMin, Zenon
<1>6. x \in 0 .. N /\ x \notin T /\ x /= 0
  BY Zenon DEF S
<1>7. x \in 1 .. N /\ x - 1 \in 0 .. N /\ x - 1 \in Nat /\ x \in Nat /\ x - 1 < x
  BY <1>6, SMT
<1>8. x - 1 \in S
  BY <1>6, <1>7, Zenon DEF S
<1>9. PICK y : y = x - 1
  BY Zenon
<1>10. <<y, x>> \in R
  <2>1. <<y, x>> \in Nat \X Nat /\ <<y, x>>[1] = y /\ <<y, x>>[2] = x
    BY <1>7, <1>9, Zenon
  <2>2. QED
    BY <1>7, <1>9, <2>1, Zenon DEF R
<1>11. QED
  BY <1>5, <1>8, <1>9, <1>10, Zenon

\* The senders of the first n messages.
Prefix(order, n) == {order[k] : k \in 1 .. n}

\* An order of a finite set (ordersOf) has all of its members.
LEMMA Orders ==
  ASSUME NEW T, IsFiniteSet(T), NEW order \in ordersOf(T)
  PROVE  /\ Len(order) \in Nat
         /\ \A n \in 1 .. Len(order) : order[n] \in T
         /\ Prefix(order, 0) = {}
         /\ \A n \in 1 .. Len(order) : Prefix(order, n) = Prefix(order, n - 1) \cup {order[n]}
         /\ Prefix(order, Len(order)) = T
<1>1. Cardinality(T) \in Nat
  BY FS_CardinalityType, Zenon
<1>2. /\ order \in [1 .. Cardinality(T) -> T]
      /\ \A t \in T : \E s \in 1 .. Cardinality(T) : order[s] = t
  BY Zenon DEF ordersOf, Bijection, Surjection
<1>3. PICK N \in Nat : N = Cardinality(T)
  BY <1>1, Zenon
<1>4. Len(order) = N
  BY <1>2, <1>3, SMT
<1>5. \A n \in 1 .. N : order[n] \in T
  BY <1>2, <1>3, Zenon
<1>6. Prefix(order, 0) = {}
  BY SMT DEF Prefix
<1>7. \A n \in 1 .. N : Prefix(order, n) = Prefix(order, n - 1) \cup {order[n]}
  <2>1. SUFFICES ASSUME NEW n \in 1 .. N
                 PROVE  Prefix(order, n) = Prefix(order, n - 1) \cup {order[n]}
    BY Zenon
  <2>2. \A k : k \in 1 .. n <=> k \in 1 .. (n - 1) \/ k = n
    BY SMT
  <2>3. QED
    BY <2>2, Zenon DEF Prefix
<1>8. Prefix(order, N) = T
  BY <1>2, <1>3, Zenon DEF Prefix
<1>9. QED
  BY <1>4, <1>5, <1>6, <1>7, <1>8, Zenon

\* The members of E whose share for j the message of j opens.
goodOf(E, j) ==
  {m \in E \cap reveals[j].accused :
     reveals[j].match /\ areSharesValidAgainstCommitments(dealt[m], j)}

\* Member i is about to process the messages of T, gone being the inactive members
\* and E those it expects to be reconstructed.  R are members that it knows to be
\* operating, i among them, and a message of one of them is in order.
Processing(i, T, gone, E, R) ==
  /\ expected[i] = E
  /\ E \subseteq gone \cup disqualified[i]
  /\ E \subseteq keys[i] \cap evidence[i]
  /\ i \in R /\ i \notin E
  /\ R \cap (gone \cup disqualified[i]) = {}
  /\ \A j \in T : reveals[j].accused \subseteq R \cup E
  /\ \A j \in T \cap R : reveals[j].accused = E /\ goodOf(E, j) = E

\* The first loop (recoverMisbehavedShares) disqualifies the members that did not
\* reveal exactly the expected keys, in whatever order they come.
LEMMA Validated ==
  ASSUME NEW i, NEW T, IsFiniteSet(T), NEW order \in ordersOf(T), NEW gone, NEW E, NEW R,
         Processing(i, T, gone, E, R)
  PROVE  validatedMessages(i, order, gone) =
           disqualified[i] \cup {j \in T : reveals[j].accused /= E}
<1> DEFINE N == Len(order)
           V(n) == disqualified[i] \cup {j \in Prefix(order, n) : reveals[j].accused /= E}
           next(dq, j) == IF isValidMisbehavedEphemeralKeysMessage(i, j, gone \cup dq)
                          THEN dq ELSE dq \cup {j}
           Body(f) == [n \in 0 .. N |-> IF n = 0 THEN disqualified[i] ELSE next(f[n - 1], order[n])]
<1>1. /\ N \in Nat
      /\ \A n \in 1 .. N : order[n] \in T
      /\ Prefix(order, 0) = {}
      /\ \A n \in 1 .. N : Prefix(order, n) = Prefix(order, n - 1) \cup {order[n]}
      /\ Prefix(order, N) = T
  BY Orders, Zenon
<1>2. validatedMessages(i, order, gone) = (CHOOSE f : f = Body(f))[N]
  BY Zenon DEF validatedMessages
<1>3. \A n \in 0 .. N : Prefix(order, n) \subseteq T
  BY <1>1, SMT DEF Prefix
<1> HIDE DEF N
<1>4. ASSUME NEW n \in 1 .. N
      PROVE  V(n) = next(V(n - 1), order[n])
  <2>1. n - 1 \in 0 .. N
    BY <1>1, SMT
  <2>2. PICK j \in T : j = order[n] /\ Prefix(order, n) = Prefix(order, n - 1) \cup {j}
    BY <1>1, Zenon
  <2>3. PICK p : p = Prefix(order, n - 1) /\ p \subseteq T
    BY <1>3, <2>1, Zenon
  <2>4. PICK v : v = disqualified[i] \cup {k \in p : reveals[k].accused /= E}
    BY Zenon
  <2>5. v \cap R = {} /\ gone \cap R = {}
    BY <2>3, <2>4, Zenon DEF Processing
  <2>6. E \subseteq gone \cup v
    BY <2>4, Zenon DEF Processing
  <2>7. isValidMisbehavedEphemeralKeysMessage(i, j, gone \cup v) <=> reveals[j].accused = E
    <3>1. expected[i] = E /\ reveals[j].accused \subseteq R \cup E
      BY Zenon DEF Processing
    <3>2. QED
      BY <2>5, <2>6, <3>1, Zenon DEF isValidMisbehavedEphemeralKeysMessage
  <2>8. V(n) = IF reveals[j].accused = E THEN v ELSE v \cup {j}
    BY <2>2, <2>3, <2>4, Zenon
  <2>9. V(n - 1) = v
    BY <2>3, <2>4, Zenon
  <2>10. QED
    BY <2>2, <2>7, <2>8, <2>9, Zenon
<1>5. V(0) = disqualified[i]
  BY <1>1, Zenon
<1> HIDE DEF V, next
<1>6. \E f : f = Body(f)
  <2> DEFINE h == [n \in 0 .. N |-> V(n)]
  <2>1. ASSUME NEW n \in 0 .. N PROVE h[n] = Body(h)[n]
    <3>1. CASE n = 0
      BY <1>5, <3>1, Zenon
    <3>2. CASE n /= 0
      <4>1. n \in 1 .. N /\ n - 1 \in 0 .. N
        BY <1>1, <3>2, SMT
      <4>2. h[n] = V(n) /\ h[n - 1] = V(n - 1)
        BY <4>1, Zenon
      <4>3. QED
        BY <1>4, <3>2, <4>1, <4>2, Zenon
    <3>3. QED
      BY <3>1, <3>2, Zenon
  <2>2. h = Body(h)
    BY <2>1, Zenon
  <2>3. QED
    BY <2>2, Zenon
<1>7. PICK f : f = Body(f) /\ validatedMessages(i, order, gone) = f[N]
  BY <1>2, <1>6, Zenon
<1>8. N \in {n \in 0 .. N : f[n] = V(n)}
  <2> DEFINE I == {n \in 0 .. N : f[n] = V(n)}
  <2>1. 0 \in I
    <3>1. 0 \in 0 .. N
      BY <1>1, SMT
    <3>2. f[0] = disqualified[i]
      BY <1>7, <3>1, Zenon
    <3>3. QED
      BY <1>5, <3>1, <3>2, Zenon
  <2>2. ASSUME NEW n \in 1 .. N, n - 1 \in I PROVE n \in I
    <3>1. n \in 0 .. N /\ n /= 0
      BY <1>1, SMT
    <3>2. f[n] = next(f[n - 1], order[n])
      BY <1>7, <3>1, Zenon
    <3>3. QED
      BY <1>4, <2>2, <3>1, <3>2, Zenon
  <2> HIDE DEF I
  <2>3. N \in I
    BY <1>1, <2>1, <2>2, CountingUp, Zenon
  <2>4. QED
    BY <2>3, Zenon DEF I
<1>9. QED
  BY <1>1, <1>7, <1>8, Zenon DEF V

\* The message of j reveals the expected keys, and all of them open valid shares.
fair(E, j) == reveals[j].accused = E /\ goodOf(E, j) = E

\* What comes of the messages of T, in this order.
OutcomeIs(i, order, T, E) ==
  /\ recoverMisbehavedShares(i, order).dq = disqualified[i] \cup {j \in T : ~fair(E, j)}
  /\ \A m \in Members :
       recoverMisbehavedShares(i, order).shares[m] = {j \in T : m \in goodOf(E, j)}

\* The second loop (recoverMisbehavedShares) disqualifies the members whose keys do
\* not open valid shares, and knows the others' shares.
LEMMA Recovered ==
  ASSUME NEW i, NEW T, IsFiniteSet(T), NEW order \in ordersOf(T), NEW E, NEW R,
         Processing(i, T, inactive[i] \cup silent(i, sendersOf(reveals)), E, R),
         recovered[i] = [m \in Members |-> {}]
  PROVE  OutcomeIs(i, order, T, E)
<1> DEFINE N == Len(order)
           G == inactive[i] \cup silent(i, sendersOf(reveals))
           start == [dq |-> validatedMessages(i, order, G), shares |-> recovered[i]]
           next(r, j) ==
             [dq |-> IF /\ good(i, j, G \cup r.dq) = opened(i, j, G \cup r.dq)
                        /\ i \notin reveals[j].accused
                     THEN r.dq ELSE r.dq \cup {j},
              shares |-> [m \in Members |-> IF m \in good(i, j, G \cup r.dq)
                                            THEN r.shares[m] \cup {j} ELSE r.shares[m]]]
           Body(f) == [n \in 0 .. N |-> IF n = 0 THEN start ELSE next(f[n - 1], order[n])]
<1>1. recoverMisbehavedShares(i, order) = (CHOOSE f : f = Body(f))[N]
  BY Zenon DEF recoverMisbehavedShares
<1>2. /\ N \in Nat
      /\ \A n \in 1 .. N : order[n] \in T
      /\ Prefix(order, 0) = {}
      /\ \A n \in 1 .. N : Prefix(order, n) = Prefix(order, n - 1) \cup {order[n]}
      /\ Prefix(order, N) = T
  BY Orders, Zenon
<1>3. \A n \in 0 .. N : Prefix(order, n) \subseteq T
  BY <1>2, SMT DEF Prefix
<1>4. PICK gone : gone = G
  BY Zenon
<1>5. Processing(i, T, gone, E, R)
  BY <1>4, Zenon
<1>6. PICK V : V = disqualified[i] \cup {j \in T : reveals[j].accused /= E}
  BY Zenon
<1>7. start = [dq |-> V, shares |-> [m \in Members |-> {}]]
  <2>1. validatedMessages(i, order, gone) = V
    BY <1>5, <1>6, Validated, SMT
  <2>2. QED
    BY <1>4, <2>1, Zenon
<1> DEFINE bad(j) == ~(goodOf(E, j) = reveals[j].accused \cap E /\ i \notin reveals[j].accused)
           Dq(p) == V \cup {j \in p : bad(j)}
           Sh(p) == [m \in Members |-> {j \in p : m \in goodOf(E, j)}]
           St(p) == [dq |-> Dq(p), shares |-> Sh(p)]
<1> HIDE DEF N
<1>8. ASSUME NEW j \in T, NEW p \in SUBSET T
      PROVE  next(St(p), j) = St(p \cup {j})
  <2>1. PICK d : d = Dq(p)
    BY Zenon
  <2>2. d \cap R = {} /\ gone \cap R = {} /\ E \subseteq gone \cup d
    <3>1. \A k \in T \cap R : ~bad(k) /\ reveals[k].accused = E
      BY <1>5, Zenon DEF Processing
    <3>2. disqualified[i] \cap R = {} /\ gone \cap R = {} /\ E \subseteq gone \cup disqualified[i]
      BY <1>5, Zenon DEF Processing
    <3> HIDE DEF bad
    <3>3. QED
      BY <1>6, <2>1, <3>1, <3>2, Zenon
  <2>3. /\ reveals[j].accused \subseteq R \cup E /\ i \in R /\ i \notin E
        /\ E \subseteq keys[i] \cap evidence[i]
    BY <1>5, Zenon DEF Processing
  <2>4. opened(i, j, gone \cup d) = reveals[j].accused \cap E
    BY <2>2, <2>3, Zenon DEF opened
  <2>5. good(i, j, gone \cup d) = goodOf(E, j)
    BY <2>3, <2>4, Zenon DEF good, goodOf
  <2>6. next(St(p), j) =
          [dq |-> IF ~bad(j) THEN d ELSE d \cup {j},
           shares |-> [m \in Members |-> IF m \in goodOf(E, j) THEN Sh(p)[m] \cup {j} ELSE Sh(p)[m]]]
    <3>1. PICK r : r = St(p)
      BY Zenon
    <3>2. r.dq = d /\ r.shares = Sh(p)
      BY <2>1, <3>1, Zenon
    <3> HIDE DEF St, Sh, Dq
    <3>3. next(r, j) =
            [dq |-> IF ~bad(j) THEN d ELSE d \cup {j},
             shares |-> [m \in Members |-> IF m \in goodOf(E, j) THEN r.shares[m] \cup {j} ELSE r.shares[m]]]
      BY <1>4, <2>4, <2>5, <3>2, Zenon
    <3>4. QED
      BY <3>1, <3>2, <3>3, Zenon
  <2> HIDE DEF bad
  <2>7. (IF ~bad(j) THEN d ELSE d \cup {j}) = Dq(p \cup {j})
    BY <2>1, Zenon
  <2>8. [m \in Members |-> IF m \in goodOf(E, j) THEN Sh(p)[m] \cup {j} ELSE Sh(p)[m]] = Sh(p \cup {j})
    <3>1. \A m \in Members : (IF m \in goodOf(E, j) THEN Sh(p)[m] \cup {j} ELSE Sh(p)[m])
                               = {k \in p \cup {j} : m \in goodOf(E, k)}
      BY Zenon
    <3>2. QED
      BY <3>1, Zenon
  <2> HIDE DEF Dq, Sh
  <2>9. QED
    BY <2>6, <2>7, <2>8, Zenon
<1>9. start = St({})
  BY <1>7, Zenon
<1> HIDE DEF St, next, start
<1>10. ASSUME NEW n \in 1 .. N
       PROVE  St(Prefix(order, n)) = next(St(Prefix(order, n - 1)), order[n])
  <2>1. n - 1 \in 0 .. N
    BY <1>2, SMT
  <2>2. order[n] \in T /\ Prefix(order, n - 1) \in SUBSET T
    BY <1>2, <1>3, <2>1, Zenon
  <2>3. Prefix(order, n) = Prefix(order, n - 1) \cup {order[n]}
    BY <1>2, Zenon
  <2>4. next(St(Prefix(order, n - 1)), order[n]) = St(Prefix(order, n - 1) \cup {order[n]})
    BY <1>8, <2>2, Zenon
  <2>5. QED
    BY <2>3, <2>4, Zenon
<1>11. St(Prefix(order, 0)) = start
  BY <1>2, <1>9, Zenon
<1>12. \E f : f = Body(f)
  <2> DEFINE h == [n \in 0 .. N |-> St(Prefix(order, n))]
  <2>1. ASSUME NEW n \in 0 .. N PROVE h[n] = Body(h)[n]
    <3>1. CASE n = 0
      BY <1>11, <3>1, Zenon
    <3>2. CASE n /= 0
      <4>1. n \in 1 .. N /\ n - 1 \in 0 .. N
        BY <1>2, <3>2, SMT
      <4>2. h[n] = St(Prefix(order, n)) /\ h[n - 1] = St(Prefix(order, n - 1))
        BY <4>1, Zenon
      <4>3. QED
        BY <1>10, <3>2, <4>1, <4>2, Zenon
    <3>3. QED
      BY <3>1, <3>2, Zenon
  <2>2. h = Body(h)
    BY <2>1, Zenon
  <2>3. QED
    BY <2>2, Zenon
<1>13. PICK f : f = Body(f) /\ recoverMisbehavedShares(i, order) = f[N]
  BY <1>1, <1>12, Zenon
<1>14. N \in {n \in 0 .. N : f[n] = St(Prefix(order, n))}
  <2> DEFINE I == {n \in 0 .. N : f[n] = St(Prefix(order, n))}
  <2>1. 0 \in I
    <3>1. 0 \in 0 .. N
      BY <1>2, SMT
    <3>2. f[0] = start
      BY <1>13, <3>1, Zenon
    <3>3. QED
      BY <1>11, <3>1, <3>2, Zenon
  <2>2. ASSUME NEW n \in 1 .. N, n - 1 \in I PROVE n \in I
    <3>1. n \in 0 .. N /\ n /= 0
      BY <1>2, SMT
    <3>2. f[n] = next(f[n - 1], order[n])
      BY <1>13, <3>1, Zenon
    <3>3. QED
      BY <1>10, <2>2, <3>1, <3>2, Zenon
  <2> HIDE DEF I
  <2>3. N \in I
    BY <1>2, <2>1, <2>2, CountingUp, Zenon
  <2>4. QED
    BY <2>3, Zenon DEF I
<1>15. recoverMisbehavedShares(i, order) = St(T)
  BY <1>2, <1>13, <1>14, Zenon
<1>16. Dq(T) = disqualified[i] \cup {j \in T : ~fair(E, j)}
  <2>1. \A j \in T : ~fair(E, j) <=> reveals[j].accused /= E \/ bad(j)
    <3>1. i \notin E
      BY <1>5, Zenon DEF Processing
    <3>2. QED
      BY <3>1, Zenon DEF fair, goodOf
  <2> HIDE DEF bad
  <2>2. QED
    BY <1>6, <2>1, Zenon
<1> HIDE DEF Dq
<1>17. QED
  <2>1. recoverMisbehavedShares(i, order).dq = Dq(T)
        /\ recoverMisbehavedShares(i, order).shares = Sh(T)
    <3> HIDE DEF Sh
    <3> QED
      BY <1>15, SMT DEF St
  <2>2. \A m \in Members : Sh(T)[m] = {j \in T : m \in goodOf(E, j)}
    BY Zenon
  <2> HIDE DEF Sh
  <2>3. QED
    BY <1>16, <2>1, <2>2, Zenon DEF OutcomeIs

\* Phase 11: all running members disqualify the same members, and recover the
\* shares of the members that remain.
LEMMA ReconstructStep ==
  ASSUME Inv, ReconstructMisbehavedIndividualKeys
  PROVE  Inv'
<1>1. phase = 10 /\ phase' = 11 /\ endPhase(10, 11)
  BY Zenon DEF ReconstructMisbehavedIndividualKeys, endPhase
<1>i. NothingRecovered /\ AfterReveals
  BY <1>1, SMT DEF Inv
<1>2. /\ up' \subseteq Members
      /\ Members \ Crashing \subseteq up'
      /\ Running' \subseteq Running
      /\ \A i \in Running' : i \in Followers /\ i \in up' /\ i \in Members
  BY <1>1, Stopping, Zenon
<1> DEFINE outcomes(i) == {recoverMisbehavedShares(i, order) :
                             order \in ordersOf(accepted(i, sendersOf(reveals)))}
<1>3. PICK result \in [Followers -> UNION {outcomes(i) : i \in Followers}] :
        /\ \A i \in Followers : result[i] \in outcomes(i)
        /\ inactive' = forRunning(inactive,
             [i \in Followers |-> inactive[i] \cup silent(i, sendersOf(reveals))])
        /\ disqualified' = forRunning(disqualified, [i \in Followers |-> result[i].dq])
        /\ recovered' = forRunning(recovered,
             [i \in Followers |-> revealMisbehavedMembersShares(i, result[i].shares)])
  BY Zenon DEF ReconstructMisbehavedIndividualKeys
<1>4. PICK O, X, Q, P, Z \in SUBSET Members :
        /\ LogsAre(O, X) /\ QualifiedAre(X, Q) /\ PointsAre(Q, P)
        /\ Z \subseteq P /\ OperatingAre(Z) /\ RevealsAre(Q \ P)
  BY <1>i, Zenon DEF AfterReveals
<1>5. PICK E \in SUBSET Members : E = Q \ P
  BY Zenon
<1>6. PICK S \in SUBSET Members : S = sendersOf(reveals)
  BY Zenon DEF sendersOf
<1>7. ASSUME NEW i \in Running
      PROVE  /\ expected[i] = E /\ operating(i) = Z /\ i \in Z /\ i \in P /\ i \notin E
             /\ qualified[i] = Q \ {i} /\ E \subseteq Q
             /\ i \in S /\ reveals[i].accused = E /\ reveals[i].match
             /\ goodOf(E, i) = E /\ i \in Members
  <2>1. /\ expected[i] = E /\ reveals[i] = Names(E) /\ operating(i) = Z /\ i \in Z /\ i \in P
        /\ i \notin E /\ i \in Members
    BY <1>4, <1>5, Zenon DEF RevealsAre, OperatingAre
  <2>2. reveals[i].sent /\ reveals[i].accused = E /\ reveals[i].match
    BY <2>1, NamedOnes, Zenon
  <2>3. i \in S
    BY <1>6, <2>1, <2>2, Zenon DEF sendersOf
  <2>4. qualified[i] = Q \ {i} /\ \A m \in Q \ {i} : areSharesValidAgainstCommitments(dealt[m], i)
    BY <1>4, Zenon DEF QualifiedAre
  <2>5. E \subseteq Q
    BY <1>5, Zenon
  <2>6. goodOf(E, i) = E
    BY <2>1, <2>2, <2>4, <2>5, Zenon DEF goodOf
  <2>7. QED
    BY <2>1, <2>2, <2>3, <2>4, <2>5, <2>6, Zenon
<1>8. PICK Y \in SUBSET Members : Y = {j \in Z \cap S : fair(E, j)}
  BY Zenon
<1>9. Running' \subseteq Y
  BY <1>2, <1>7, <1>8, Zenon DEF fair
<1>10. ASSUME NEW i \in Running'
       PROVE  /\ result[i].dq = disqualified[i] \cup {j \in accepted(i, S) : ~fair(E, j)}
              /\ \A m \in Members :
                   result[i].shares[m] = {j \in accepted(i, S) : m \in goodOf(E, j)}
  <2>1. i \in Running /\ i \in Followers
    BY <1>2, Zenon
  <2>2. PICK order \in ordersOf(accepted(i, S)) : result[i] = recoverMisbehavedShares(i, order)
    BY <1>3, <1>6, <2>1, Zenon
  <2>3. PICK T : T = accepted(i, S)
    BY Zenon
  <2>4. T \subseteq Z /\ T \subseteq Members /\ IsFiniteSet(T)
    <3>1. T \subseteq Z /\ T \subseteq Members
      BY <1>7, <2>1, <2>3, Zenon DEF accepted
    <3>2. QED
      BY <3>1, GjkrAssumption, FS_Subset, Zenon
  <2>5. PICK gone : gone = inactive[i] \cup silent(i, S)
    BY Zenon
  <2>6. Processing(i, T, gone, E, Running)
    <3>1. expected[i] = E /\ i \in Running /\ i \notin E
      BY <1>7, <2>1, Zenon
    <3>2. \A m \in Members : m \notin Z => m \in inactive[i] \cup disqualified[i]
      BY <1>7, <2>1, Zenon DEF operating
    <3>3. E \subseteq gone \cup disqualified[i]
      BY <1>4, <1>5, <2>5, <3>2, Zenon
    <3>4. E \subseteq keys[i] \cap evidence[i]
      <4>1. E \subseteq X /\ X \subseteq O
        BY <1>4, <1>5, Zenon DEF QualifiedAre, LogsAre
      <4>2. keys[i] = O \ {i} /\ evidence[i] = X \ {i}
        BY <1>4, <2>1, Zenon DEF LogsAre
      <4>3. QED
        BY <3>1, <4>1, <4>2, Zenon
    <3>5. Running \cap (gone \cup disqualified[i]) = {}
      <4>1. ASSUME NEW k \in Running PROVE k \notin gone /\ k \notin disqualified[i]
        <5>1. k \in S /\ k \in Z
          BY <1>7, Zenon
        <5>2. k \in operating(i)
          BY <1>7, <2>1, <5>1, Zenon
        <5>3. QED
          BY <2>5, <5>1, <5>2, Zenon DEF operating, silent
      <4>2. QED
        BY <4>1, Zenon
    <3>6. \A j \in T : reveals[j].accused \subseteq Running \cup E
      BY <1>4, <1>5, <2>4, Zenon DEF RevealsAre
    <3>7. \A j \in T \cap Running : reveals[j].accused = E /\ goodOf(E, j) = E
      BY <1>7, Zenon
    <3>8. QED
      BY <3>1, <3>3, <3>4, <3>5, <3>6, <3>7, Zenon DEF Processing
  <2>7. recovered[i] = [m \in Members |-> {}]
    BY <1>i, <2>1, Zenon DEF NothingRecovered
  <2>a. /\ Processing(i, T, inactive[i] \cup silent(i, sendersOf(reveals)), E, Running)
        /\ order \in ordersOf(T)
    BY <1>6, <2>2, <2>3, <2>5, <2>6, Zenon
  <2>8. OutcomeIs(i, order, T, E)
    BY <2>4, <2>7, <2>a, Recovered, Zenon
  <2>9. QED
    BY <2>2, <2>3, <2>8, Zenon DEF OutcomeIs
<1>11. ASSUME NEW i \in Running'
       PROVE  operating(i)' = Y
  <2>1. i \in Running /\ i \in Followers /\ i \in up' /\ i \in Y
    BY <1>2, <1>9, Zenon
  <2>2. /\ inactive'[i] = inactive[i] \cup silent(i, S)
        /\ disqualified'[i] = disqualified[i] \cup {j \in accepted(i, S) : ~fair(E, j)}
    BY <1>3, <1>6, <1>10, <2>1, Zenon DEF forRunning
  <2>3. operating(i)' = Members \ (inactive'[i] \cup disqualified'[i])
    BY Zenon DEF operating
  <2>4. operating(i) = Z
    BY <1>7, <2>1, Zenon
  <2>5. \A m : m \in operating(i)' <=> m \in operating(i) /\ m \notin silent(i, S)
                                         /\ ~(m \in accepted(i, S) /\ ~fair(E, m))
    BY <2>2, <2>3, Zenon DEF operating
  <2>6. \A m : m \in silent(i, S) <=> m \in Z /\ m \notin S /\ m /= i
    BY <2>4, Zenon DEF silent
  <2>7. \A m : m \in accepted(i, S) <=> m \in Z /\ m \in S /\ m /= i
    BY <2>4, Zenon DEF accepted
  <2>8. \A m : m \in Y <=> m \in Z /\ m \in S /\ fair(E, m)
    BY <1>8, Zenon
  <2>9. \A m : m \in operating(i)' <=> m \in Y
    BY <2>1, <2>4, <2>5, <2>6, <2>7, <2>8, Zenon
  <2>10. QED
    BY <2>9, Zenon
<1>12. ASSUME NEW i \in Running', NEW m \in Members
       PROVE  /\ m \notin E => recovered'[i][m] = {}
              /\ m \in E => Y \ {i} \subseteq recovered'[i][m]
              /\ m \in E /\ recovered'[i][m] /= {} => i \in recovered'[i][m]
              /\ recovered'[i][m] \subseteq Members
  <2>1. i \in Running /\ i \in Followers /\ i \in up' /\ i \in Members
    BY <1>2, Zenon
  <2>2. PICK sh : sh = {j \in accepted(i, S) : m \in goodOf(E, j)}
    BY Zenon
  <2>3. recovered'[i] = revealMisbehavedMembersShares(i, result[i].shares)
    BY <1>3, <2>1, Zenon DEF forRunning
  <2>4. result[i].shares[m] = sh
    BY <1>10, <2>2, Zenon
  <2>5. recovered'[i][m] = IF m \in expected[i] \cap qualified[i] /\ sh /= {}
                           THEN sh \cup {i} ELSE sh
    BY <2>3, <2>4, Zenon DEF revealMisbehavedMembersShares
  <2>6. m \in expected[i] \cap qualified[i] <=> m \in E
    BY <1>7, <2>1, Zenon
  <2>7. m \notin E => sh = {}
    BY <2>2, Zenon DEF goodOf
  <2>8. sh \subseteq Members
    <3>1. accepted(i, S) \subseteq Members
      BY <1>6, Zenon DEF accepted
    <3>2. QED
      BY <2>2, <3>1, Zenon
  <2>9. m \in E => Y \ {i} \subseteq sh
    <3>1. SUFFICES ASSUME m \in E, NEW j \in Y, j /= i PROVE j \in sh
      BY Zenon
    <3>2. j \in Z /\ j \in S /\ goodOf(E, j) = E
      BY <1>8, Zenon DEF fair
    <3>3. j \in accepted(i, S)
      BY <1>7, <2>1, <3>1, <3>2, Zenon DEF accepted
    <3>4. QED
      BY <2>2, <3>1, <3>2, <3>3, Zenon
  <2>10. QED
    BY <2>1, <2>5, <2>6, <2>7, <2>8, <2>9, Zenon
<1>13. dealt' = dealt /\ qualified' = qualified /\ points' = points /\ unsuited' = unsuited
  BY Zenon DEF ReconstructMisbehavedIndividualKeys
<1>14. QualifiedAre(X, Q)' /\ PointsAre(Q, P)'
  BY <1>2, <1>4, <1>13, Zenon DEF QualifiedAre, PointsAre
<1>15. OperatingAre(Y)' /\ Y \subseteq P
  BY <1>4, <1>8, <1>9, <1>11, Zenon DEF OperatingAre
<1>16. RecoveredAre(Q \ P, Y)'
  BY <1>5, <1>12, Zenon DEF RecoveredAre
<1>17. AfterReconstruction'
  BY <1>14, <1>15, <1>16, Zenon DEF AfterReconstruction
<1>18. QED
  BY <1>1, <1>2, <1>17, Zenon DEF Inv

(***************************************************************************)
(* The theorems.                                                           *)
(***************************************************************************)
\* The invariant holds at the start.
LEMMA InvInit ==
  ASSUME Init
  PROVE  Inv
<1>1. \A i \in Followers : operating(i) = Members
  BY Zenon DEF Init, operating
<1>2. QED
  BY <1>1, Zenon DEF Init, Inv, NothingRecovered

\* Every step keeps the invariant.
LEMMA InvStep ==
  ASSUME OneDeviates, Inv, [Next]_vars
  PROVE  Inv'
<1>1. CASE UNCHANGED vars
  <2>1. /\ phase' = phase /\ up' = up /\ inactive' = inactive /\ disqualified' = disqualified
        /\ keys' = keys /\ evidence' = evidence /\ dealt' = dealt /\ qualified' = qualified
        /\ accusations' = accusations /\ unsuited' = unsuited /\ points' = points
        /\ reveals' = reveals /\ expected' = expected /\ recovered' = recovered
    BY <1>1, Zenon DEF vars
  <2>2. Running' = Running /\ (NothingRecovered => NothingRecovered')
    BY <2>1, Zenon DEF Running, NothingRecovered
  <2>3. \A i : operating(i)' = operating(i)
    BY <2>1, Zenon DEF operating
  <2>4. /\ \A Z : OperatingAre(Z)' <=> OperatingAre(Z)
        /\ \A X, W : AccusedAre(X, W) => AccusedAre(X, W)'
    <3>1. \A Z : OperatingAre(Z)' <=> OperatingAre(Z)
      BY <2>2, <2>3, Zenon DEF OperatingAre
    <3>2. accusations' = accusations /\ qualified' = qualified /\ dealt' = dealt
      BY <2>1, Zenon
    <3>3. \A X, W : AccusedAre(X, W) => AccusedAre(X, W)'
      BY <2>2, <2>3, <3>2, Zenon DEF AccusedAre
    <3>4. QED
      BY <3>1, <3>3, Zenon
  <2>5. /\ \A O, X : LogsAre(O, X)' <=> LogsAre(O, X)
        /\ \A X, Q : QualifiedAre(X, Q)' <=> QualifiedAre(X, Q)
        /\ \A Q, P : PointsAre(Q, P)' <=> PointsAre(Q, P)
    BY <2>1, <2>2, Zenon DEF LogsAre, QualifiedAre, PointsAre
  <2>6. /\ \A E : RevealsAre(E) => RevealsAre(E)'
        /\ \A E, Z : RecoveredAre(E, Z) => RecoveredAre(E, Z)'
    <3>1. reveals' = reveals /\ expected' = expected /\ recovered' = recovered
      BY <2>1, Zenon
    <3>2. \A E : RevealsAre(E) => RevealsAre(E)'
      BY <2>2, <3>1, Zenon DEF RevealsAre
    <3>3. \A E, Z : RecoveredAre(E, Z) => RecoveredAre(E, Z)'
      BY <2>2, <3>1, Zenon DEF RecoveredAre
    <3>4. QED
      BY <3>2, <3>3, Zenon
  <2>7. /\ AfterKeys => AfterKeys'
        /\ AfterShares => AfterShares'
        /\ AfterAccusations => AfterAccusations'
    <3>1. AfterKeys => AfterKeys'
      BY <2>1, <2>2, <2>4, Zenon DEF AfterKeys
    <3>2. AfterShares => AfterShares'
      BY <2>4, <2>5, Zenon DEF AfterShares
    <3>3. AfterAccusations => AfterAccusations'
      BY <2>4, <2>5, Zenon DEF AfterAccusations
    <3>4. QED
      BY <3>1, <3>2, <3>3, Zenon
  <2>8. AfterPoints => AfterPoints'
    <3>1. SUFFICES ASSUME AfterPoints PROVE AfterPoints'
      BY Zenon
    <3>2. PICK O, X, Q, P, A \in SUBSET Members :
            /\ LogsAre(O, X) /\ QualifiedAre(X, Q) /\ PointsAre(Q, P) /\ OperatingAre(P)
            /\ A \subseteq Q \ P
            /\ \A i \in Running : accusations[i] = A
      BY <3>1, Zenon DEF AfterPoints
    <3>3. LogsAre(O, X)' /\ QualifiedAre(X, Q)' /\ PointsAre(Q, P)' /\ OperatingAre(P)'
      BY <2>4, <2>5, <3>2, Zenon
    <3>4. \A i \in Running' : accusations'[i] = A
      BY <2>1, <2>2, <3>2, Zenon
    <3>5. QED
      BY <3>2, <3>3, <3>4, Zenon DEF AfterPoints
  <2>9. AfterPointsAccusations => AfterPointsAccusations'
    BY <2>4, <2>5, Zenon DEF AfterPointsAccusations
  <2>10. AfterReveals => AfterReveals'
    <3>1. SUFFICES ASSUME AfterReveals PROVE AfterReveals'
      BY Zenon
    <3>2. PICK O, X, Q, P, Z \in SUBSET Members :
            /\ LogsAre(O, X) /\ QualifiedAre(X, Q) /\ PointsAre(Q, P)
            /\ Z \subseteq P /\ OperatingAre(Z) /\ RevealsAre(Q \ P)
      BY <3>1, Zenon DEF AfterReveals
    <3>3. /\ LogsAre(O, X)' /\ QualifiedAre(X, Q)' /\ PointsAre(Q, P)'
          /\ OperatingAre(Z)' /\ RevealsAre(Q \ P)'
      BY <2>4, <2>5, <2>6, <3>2, Zenon
    <3>4. QED
      BY <3>2, <3>3, Zenon DEF AfterReveals
  <2>11. AfterReconstruction => AfterReconstruction'
    <3>1. SUFFICES ASSUME AfterReconstruction PROVE AfterReconstruction'
      BY Zenon
    <3>2. PICK X, Q, P, Z \in SUBSET Members :
            /\ QualifiedAre(X, Q) /\ PointsAre(Q, P)
            /\ Z \subseteq P /\ OperatingAre(Z) /\ RecoveredAre(Q \ P, Z)
      BY <3>1, Zenon DEF AfterReconstruction
    <3>3. /\ QualifiedAre(X, Q)' /\ PointsAre(Q, P)'
          /\ OperatingAre(Z)' /\ RecoveredAre(Q \ P, Z)'
      BY <2>4, <2>5, <2>6, <3>2, Zenon
    <3>4. QED
      BY <3>2, <3>3, Zenon DEF AfterReconstruction
  <2>12. /\ phase' = phase /\ up' = up
         /\ NothingRecovered => NothingRecovered'
         /\ (\A i \in Followers : operating(i) = Members) => \A i \in Followers : operating(i)' = Members
    <3>1. (\A i \in Followers : operating(i) = Members) => \A i \in Followers : operating(i)' = Members
      BY <2>3, Zenon
    <3>2. phase' = phase /\ up' = up
      BY <2>1, Zenon
    <3>3. QED
      BY <2>2, <3>1, <3>2, Zenon
  <2>13. QED
    BY <2>7, <2>8, <2>9, <2>10, <2>11, <2>12, SMT DEF Inv
<1>2. CASE GenerateSymmetricKeys
  BY <1>2, KeysStep, Zenon
<1>3. CASE VerifyReceivedSharesAndCommitmentsMessages
  BY <1>3, SharesStep, Zenon
<1>4. CASE ResolveSecretSharesAccusationsMessages
  BY <1>4, AccusationsStep, Zenon
<1>5. CASE VerifyPublicKeySharePoints
  BY <1>5, PointsStep, Zenon
<1>6. CASE ResolvePublicKeySharePointsAccusationsMessages
  BY <1>6, PointsAccusationsStep, Zenon
<1>7. CASE RevealMisbehavedMembersKeys
  BY <1>7, RevealStep, Zenon
<1>8. CASE ReconstructMisbehavedIndividualKeys
  BY <1>8, ReconstructStep, Zenon
<1>9. QED
  BY <1>1, <1>2, <1>3, <1>4, <1>5, <1>6, <1>7, <1>8, Zenon DEF Next, finished

\* The views given by common sets are one group.
LEMMA InvSameGroup ==
  ASSUME Inv
  PROVE  SameGroup
<1>1. SUFFICES ASSUME NEW i \in Running, NEW j \in Running
               PROVE  /\ j \in operating(i)
                      /\ phase \in {2, 5, 9, 10, 11} => operating(i) = operating(j)
                      /\ phase \in {5, 9, 10, 11} => CombineMemberShares(i) = CombineMemberShares(j)
  BY Zenon DEF SameGroup
<1>2. ASSUME NEW Z, OperatingAre(Z) PROVE j \in operating(i) /\ operating(i) = operating(j)
  BY <1>2, Zenon DEF OperatingAre
<1>3. ASSUME NEW X, NEW Q, QualifiedAre(X, Q), NEW Z, OperatingAre(Z), Z \subseteq Q
      PROVE  CombineMemberShares(i) = CombineMemberShares(j)
  <2>1. qualified[i] = Q \ {i} /\ qualified[j] = Q \ {j} /\ i \in Q /\ j \in Q
    BY <1>3, Zenon DEF QualifiedAre, OperatingAre
  <2>2. QED
    BY <2>1, Zenon DEF CombineMemberShares
<1>4. CASE phase = 0 /\ \A k \in Followers : operating(k) = Members
  <2>1. i \in Followers /\ j \in Members
    BY Zenon DEF Inv, Running, Followers
  <2>2. QED
    BY <1>4, <2>1, SMT
<1>5. CASE phase = 2 /\ AfterKeys
  BY <1>2, <1>5, SMT DEF AfterKeys
<1>6. CASE phase = 4 /\ AfterShares
  <2>1. PICK O, X, W \in SUBSET Members : LogsAre(O, X) /\ AccusedAre(X, W)
    BY <1>6, Zenon DEF AfterShares
  <2>2. j \in W /\ j \in X /\ i \in O /\ operating(i) = W \ accusations[i] /\ j \notin Faulty
    BY <2>1, Zenon DEF LogsAre, AccusedAre, Running
  <2>3. j \notin accusations[i]
    <3>1. i /= j => areSharesValidAgainstCommitments(dealt[j], i)
      BY <2>1, <2>2, Zenon DEF LogsAre
    <3>2. accusations[i] = {m \in W \ {i} : ~areSharesValidAgainstCommitments(dealt[m], i)}
      BY <2>1, Zenon DEF AccusedAre
    <3>3. QED
      BY <3>1, <3>2, Zenon
  <2>4. QED
    BY <1>6, <2>2, <2>3, SMT
<1>7. CASE phase = 5 /\ AfterAccusations
  BY <1>2, <1>3, <1>7, Zenon DEF AfterAccusations
<1>8. CASE phase = 8 /\ AfterPoints
  BY <1>2, <1>8, SMT DEF AfterPoints
<1>9. CASE phase = 9 /\ AfterPointsAccusations
  BY <1>2, <1>3, <1>9, Zenon DEF AfterPointsAccusations, PointsAre
<1>10. CASE phase = 10 /\ AfterReveals
  BY <1>2, <1>3, <1>10, Zenon DEF AfterReveals, PointsAre
<1>11. CASE phase = 11 /\ AfterReconstruction
  BY <1>2, <1>3, <1>11, Zenon DEF AfterReconstruction, PointsAre
<1>12. QED
  BY <1>4, <1>5, <1>6, <1>7, <1>8, <1>9, <1>10, <1>11, Zenon DEF Inv

\* The keys the running members know are those of the shares they combine.
LEMMA InvKeys ==
  ASSUME Inv, phase = 11, NEW i \in Running
  PROVE  \E Q, P, Z \in SUBSET Members :
           /\ P \subseteq Q /\ Running \subseteq Z /\ Z \subseteq P
           /\ operating(i) = Z /\ qualified[i] = Q \ {i} /\ points[i] = P \ {i}
           /\ \A m \in P : unsuited[m] = {}
           /\ RecoveredAre(Q \ P, Z)
<1>1. AfterReconstruction
  BY SMT DEF Inv
<1>2. QED
  BY <1>1, Zenon DEF AfterReconstruction, QualifiedAre, PointsAre, OperatingAre

\* The members that remain know each other's shares.
LEMMA InvKeySharesAreKnown ==
  ASSUME Inv
  PROVE  KeySharesAreKnown
<1>1. SUFFICES ASSUME phase = 11, NEW i \in Running,
                      NEW m \in qualified[i], NEW k \in operating(i), m \notin points[i], k /= i
               PROVE  k \in recovered[i][m]
  BY Zenon DEF KeySharesAreKnown, unknownShares
<1>2. PICK Q, P, Z \in SUBSET Members :
        /\ P \subseteq Q /\ Running \subseteq Z /\ Z \subseteq P
        /\ operating(i) = Z /\ qualified[i] = Q \ {i} /\ points[i] = P \ {i}
        /\ RecoveredAre(Q \ P, Z)
  BY <1>1, InvKeys, Zenon
<1>3. m \in Q \ P /\ m \in Members /\ k \in Z \ {i}
  BY <1>1, <1>2, Zenon
<1>4. QED
  BY <1>2, <1>3, Zenon DEF RecoveredAre

\* The group key has the individual key of every member whose shares are combined.
LEMMA InvGroupKey ==
  ASSUME Inv, DishonestThreshold >= 1
  PROVE  GroupKeyMatchesShares
<1>1. SUFFICES ASSUME phase = 11, NEW i \in Running
               PROVE  /\ \A m \in Members :
                           CombineGroupPublicKey(i)[m] = IF m \in CombineMemberShares(i) THEN 1 ELSE 0
                      /\ \A m \in points[i] : unsuited[m] = {}
                      /\ \A m \in Members :
                           recovered[i][m] /= {} => Cardinality(recovered[i][m]) > DishonestThreshold
  BY Zenon DEF GroupKeyMatchesShares
<1>2. PICK Q, P, Z \in SUBSET Members :
        /\ P \subseteq Q /\ Running \subseteq Z /\ Z \subseteq P
        /\ operating(i) = Z /\ qualified[i] = Q \ {i} /\ points[i] = P \ {i}
        /\ \A m \in P : unsuited[m] = {}
        /\ RecoveredAre(Q \ P, Z)
  BY <1>1, InvKeys, Zenon
<1>3. PICK H : H = Members \ (Crashing \cup Faulty)
  BY Zenon
<1>4. /\ IsFiniteSet(Members) /\ H \subseteq Members /\ Cardinality(H) > DishonestThreshold
      /\ DishonestThreshold \in Nat /\ H \subseteq Running
  BY <1>3, GjkrAssumption, Zenon DEF Inv, Running
<1>5. H \ {i} /= {}
  <2>1. SUFFICES ASSUME H \subseteq {i} PROVE FALSE
    BY Zenon
  <2>2. IsFiniteSet({i}) /\ Cardinality({i}) = 1
    BY FS_Singleton, Zenon
  <2>3. Cardinality(H) <= 1 /\ Cardinality(H) \in Nat
    <3>1. IsFiniteSet(H) /\ Cardinality(H) <= 1
      <4>1. H \in SUBSET {i}
        BY <2>1, Zenon
      <4>2. IsFiniteSet(H) /\ Cardinality(H) <= Cardinality({i})
        BY <2>2, <4>1, FS_Subset, Zenon
      <4>3. QED
        BY <2>2, <4>2, Zenon
    <3>2. QED
      BY <3>1, FS_CardinalityType, Zenon
  <2>4. QED
    BY <1>4, <2>3, SMT
<1>6. ASSUME NEW m \in Members
      PROVE  recovered[i][m] /= {} <=> m \in Q \ P
  <2>1. /\ m \notin Q \ P => recovered[i][m] = {}
        /\ m \in Q \ P => Z \ {i} \subseteq recovered[i][m]
    BY <1>2, Zenon DEF RecoveredAre
  <2>2. Z \ {i} /= {}
    BY <1>2, <1>4, <1>5, Zenon
  <2>3. QED
    BY <2>1, <2>2, Zenon
<1>7. ASSUME NEW m \in Members
      PROVE  CombineGroupPublicKey(i)[m] = IF m \in CombineMemberShares(i) THEN 1 ELSE 0
  <2>1. CombineGroupPublicKey(i)[m] = (IF m \in points[i] \cup {i} THEN 1 ELSE 0)
                                       + (IF recovered[i][m] /= {} THEN 1 ELSE 0)
    BY Zenon DEF CombineGroupPublicKey
  <2>2. m \in points[i] \cup {i} <=> m \in P
    BY <1>2, Zenon
  <2>3. m \in CombineMemberShares(i) <=> m \in Q
    BY <1>2, Zenon DEF CombineMemberShares
  <2>4. m \in P => m \in Q
    BY <1>2, Zenon
  <2>5. recovered[i][m] /= {} <=> m \in Q /\ m \notin P
    BY <1>6, Zenon
  <2>6. QED
    BY <2>1, <2>2, <2>3, <2>4, <2>5, SMT
<1>8. ASSUME NEW m \in Members, recovered[i][m] /= {}
      PROVE  Cardinality(recovered[i][m]) > DishonestThreshold
  <2>1. m \in Q \ P
    BY <1>6, <1>8, Zenon
  <2>2. Z \subseteq recovered[i][m] /\ recovered[i][m] \subseteq Members
    <3>1. /\ Z \ {i} \subseteq recovered[i][m]
          /\ i \in recovered[i][m]
          /\ recovered[i][m] \subseteq Members
      BY <1>2, <1>8, <2>1, Zenon DEF RecoveredAre
    <3>2. QED
      BY <3>1, Zenon
  <2>3. H \subseteq recovered[i][m] /\ IsFiniteSet(recovered[i][m])
    <3>1. H \subseteq recovered[i][m]
      BY <1>2, <1>4, <2>2, Zenon
    <3>2. IsFiniteSet(recovered[i][m])
      BY <1>4, <2>2, FS_Subset, Zenon
    <3>3. QED
      BY <3>1, <3>2, Zenon
  <2>4. /\ Cardinality(H) <= Cardinality(recovered[i][m])
        /\ Cardinality(H) \in Nat /\ Cardinality(recovered[i][m]) \in Nat
    BY <1>4, <2>3, FS_Subset, FS_CardinalityType, Zenon
  <2>5. QED
    BY <1>4, <2>4, SMT
<1>9. \A m \in points[i] : unsuited[m] = {}
  BY <1>2, Zenon
<1>10. QED
  BY <1>7, <1>8, <1>9, Zenon

\* The invariant holds throughout, when at most one member deviates.
LEMMA Invariant == OneDeviates => (Spec => []Inv)
<1>1. SUFFICES ASSUME OneDeviates PROVE Spec => []Inv
  BY Zenon
<1>2. Init => Inv
  BY InvInit
<1>3. Inv /\ [Next]_vars => Inv'
  BY <1>1, InvStep
<1>4. QED
  BY <1>2, <1>3, PTL DEF Spec

\* No running member expels another, and they agree on the group and on whose
\* shares qualify: for any group, any degree of the polynomials and any members
\* that stop in any phase, when at most one member deviates from the protocol.
THEOREM OneGroup == OneDeviates => (Spec => []SameGroup)
<1>1. Inv => SameGroup
  BY InvSameGroup
<1>2. QED
  BY <1>1, Invariant, PTL

\* The group public key belongs to the group private key, each individual key in it
\* exactly once and reconstructed from shares enough, when at most one member
\* deviates.  Polynomials of degree 0 are left out: a single member that follows the
\* protocol has nobody to recover shares from.
THEOREM OneGroupKey ==
  OneDeviates /\ DishonestThreshold >= 1 => (Spec => []GroupKeyMatchesShares)
<1>1. SUFFICES ASSUME OneDeviates, DishonestThreshold >= 1
               PROVE  Spec => []GroupKeyMatchesShares
  BY Zenon
<1>2. Inv => GroupKeyMatchesShares
  BY <1>1, InvGroupKey
<1>3. Spec => []Inv
  BY <1>1, Invariant
<1>4. QED
  BY <1>2, <1>3, PTL

\* A running member knows every share it needs to verify the relay entry shares of
\* the members that remain, when at most one member deviates.
THEOREM SharesAreKnown == OneDeviates => (Spec => []KeySharesAreKnown)
<1>1. Inv => KeySharesAreKnown
  BY InvKeySharesAreKnown
<1>2. QED
  BY <1>1, Invariant, PTL
=============================================================================
