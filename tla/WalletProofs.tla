---------------------------- MODULE WalletProofs ----------------------------
(***************************************************************************)
(* Proofs about what the members of a wallet do together: inactivity       *)
(* claims (Inactivity) and coordination windows (Coordination).            *)
(***************************************************************************)
EXTENDS Inactivity, Coordination, FiniteSetTheorems, TLAPS

(***************************************************************************)
(* Inactivity, for any group, thresholds, reports and number of            *)
(* heartbeats.                                                             *)
(***************************************************************************)

(* Two quorums have a member in common.                                    *)
LEMMA QuorumsMeet ==
    ASSUME NEW Q \in SUBSET Members, NEW R \in SUBSET Members,
           Cardinality(Q) >= HonestThreshold, Cardinality(R) >= HonestThreshold
    PROVE  Q \cap R # {}
  <1> SUFFICES ASSUME Q \cap R = {} PROVE FALSE
    OBVIOUS
  <1>1. IsFiniteSet(Q) /\ IsFiniteSet(R) /\ IsFiniteSet(Q \cup R)
    BY FS_Subset, FS_Union, InactivityAssumption
  <1>2. Cardinality(Q \cup R) = Cardinality(Q) + Cardinality(R)
    <2>1. Cardinality(Q \cup R) = Cardinality(Q) + Cardinality(R) - Cardinality(Q \cap R)
      BY <1>1, FS_Union
    <2>2. Cardinality(Q \cap R) = 0
      BY FS_EmptySet
    <2> QED
      BY <1>1, <2>1, <2>2, FS_CardinalityType
  <1>3. Cardinality(Q \cup R) <= Cardinality(Members)
    BY FS_Subset, InactivityAssumption
  <1>4. /\ Cardinality(Q) \in Nat /\ Cardinality(R) \in Nat
        /\ Cardinality(Members) \in Nat
    BY <1>1, FS_CardinalityType, InactivityAssumption
  <1> QED
    BY <1>2, <1>3, <1>4, InactivityAssumption

(***************************************************************************)
(* A signature is made once in a session, from the report of the session   *)
(* and after enough failures; a claim that was accepted has a quorum of    *)
(* such signatures and its nonce is used up.                               *)
(***************************************************************************)
ClaimTypes ==
    /\ pc \in [Members -> {"heartbeat", "signing", "queued", "done"}]
    /\ counter \in [Members -> Nat]
    /\ signature \in [Members -> Claims \cup {None}]
    /\ supporters \in [Members -> SUBSET Members]
    /\ nonce \in Nat
    /\ failures \in [Members -> Nat]
    /\ report \in [Members -> InactiveSets \cup {None}]
    /\ accepted \subseteq Accepted

MemberInv(m) ==
    /\ pc[m] = "heartbeat" => signature[m] = None
    /\ pc[m] \in {"signing", "queued"} => signature[m] # None
    /\ counter[m] <= failures[m]
    /\ signature[m] # None =>
          /\ report[m] = signature[m].inactive
          /\ failures[m] >= FailureThreshold

AcceptedInv ==
    \A a \in accepted :
        /\ a.signers \subseteq signersOf(a.claim)
        /\ Cardinality(a.signers) >= HonestThreshold
        /\ a.claim.nonce < nonce

ClaimIInv ==
    /\ ClaimTypes
    /\ \A m \in Members : MemberInv(m)
    /\ AcceptedInv
    /\ OneClaimPerHeartbeat

(* The invariant holds at the start.                                       *)
LEMMA ClaimInitIInv == ClaimInit => ClaimIInv
  BY NoneIsNoClaim, InactivityAssumption
     DEF ClaimInit, ClaimIInv, ClaimTypes, Claims, Accepted, MemberInv, AcceptedInv, OneClaimPerHeartbeat

(* The claim of a new acceptance is the first of the session.              *)
LEMMA FirstClaim ==
    ASSUME ClaimIInv, NEW m \in Members, pc[m] = "queued", verifyClaim(signature[m], supporters[m])
    PROVE  accepted = {}
  <1> SUFFICES ASSUME NEW a \in accepted PROVE FALSE
    OBVIOUS
  <1>1. PICK x \in Members : x \in a.signers /\ x \in supporters[m]
    <2>1. a.signers \in SUBSET Members /\ supporters[m] \in SUBSET Members
      BY DEF ClaimIInv, ClaimTypes, Accepted
    <2>2. Cardinality(a.signers) >= HonestThreshold /\ Cardinality(supporters[m]) >= HonestThreshold
      BY DEF ClaimIInv, AcceptedInv, verifyClaim
    <2> QED
      BY <2>1, <2>2, QuorumsMeet
  <1>2. signature[x] = a.claim /\ signature[x] = signature[m]
    BY <1>1 DEF ClaimIInv, AcceptedInv, verifyClaim, signersOf
  <1>3. a.claim.nonce < nonce /\ a.claim.nonce = nonce /\ nonce \in Nat
    BY <1>2, Zenon DEF ClaimIInv, AcceptedInv, verifyClaim, ClaimTypes
  <1> QED
    BY <1>3

(* Every step keeps the invariant.                                         *)
LEMMA ClaimNextIInv == ClaimIInv /\ [ClaimNext]_claimVars => ClaimIInv'
  <1> SUFFICES ASSUME ClaimIInv, [ClaimNext]_claimVars PROVE ClaimIInv'
    OBVIOUS
  <1> USE DEF chainVars, reports, goto
  <1>1. ASSUME NEW m \in Members, quit(m) PROVE ClaimIInv'
    BY <1>1 DEF quit, ClaimIInv, ClaimTypes, MemberInv, AcceptedInv, OneClaimPerHeartbeat, signersOf
  <1>2. ASSUME NEW m \in Members, collect(m) PROVE ClaimIInv'
    BY <1>2 DEF collect, ClaimIInv, ClaimTypes, MemberInv, AcceptedInv, OneClaimPerHeartbeat, signersOf,
        verifyInactivityClaimSignatures
  <1>3. ASSUME NEW m \in Members, cancel(m) PROVE ClaimIInv'
    BY <1>3 DEF cancel, ClaimIInv, ClaimTypes, MemberInv, AcceptedInv, OneClaimPerHeartbeat, signersOf
  <1>4. ASSUME NEW m \in Members, restart(m) PROVE ClaimIInv'
    BY <1>4 DEF restart, ClaimIInv, ClaimTypes, MemberInv, AcceptedInv, OneClaimPerHeartbeat, signersOf
  <1>5. CASE nextHeartbeat
    BY <1>5, NoneIsNoClaim DEF nextHeartbeat, ClaimIInv, ClaimTypes, MemberInv, AcceptedInv, OneClaimPerHeartbeat, signersOf
  <1>6. CASE closeWallet
    BY <1>6 DEF closeWallet, ClaimIInv, ClaimTypes, MemberInv, AcceptedInv, OneClaimPerHeartbeat, signersOf
  <1>7. CASE UNCHANGED claimVars
    BY <1>7 DEF claimVars, ClaimIInv, ClaimTypes, MemberInv, AcceptedInv, OneClaimPerHeartbeat, signersOf
  <1>8. ASSUME NEW m \in Members, submit(m) PROVE ClaimIInv'
    <2>1. CASE verifyClaim(signature[m], supporters[m])
      <3>1. accepted = {}
        BY <1>8, <2>1, FirstClaim DEF submit
      <3>2. accepted' = {[claim |-> signature[m], signers |-> supporters[m]]}
        BY <1>8, <2>1, <3>1 DEF submit
      <3>3. signature[m] \in Claims
        BY <1>8 DEF submit, ClaimIInv, ClaimTypes, MemberInv
      <3>4. ClaimTypes'
        BY <1>8, <2>1, <3>2, <3>3 DEF submit, ClaimIInv, ClaimTypes, Accepted
      <3>5. \A n \in Members : MemberInv(n)'
        BY <1>8 DEF submit, ClaimIInv, ClaimTypes, MemberInv
      <3>6. AcceptedInv'
        BY <1>8, <2>1, <3>2, <3>3 DEF submit, verifyClaim, AcceptedInv, signersOf, ClaimIInv, ClaimTypes, Claims
      <3>7. OneClaimPerHeartbeat'
        BY <3>2 DEF OneClaimPerHeartbeat
      <3> QED
        BY <3>4, <3>5, <3>6, <3>7 DEF ClaimIInv
    <2>2. CASE ~verifyClaim(signature[m], supporters[m])
      BY <1>8, <2>2 DEF submit, ClaimIInv, ClaimTypes, MemberInv, AcceptedInv, OneClaimPerHeartbeat, signersOf
    <2> QED
      BY <2>1, <2>2
  <1>9. ASSUME NEW m \in Members, NEW inactive \in InactiveSets, execute(m, inactive) PROVE ClaimIInv'
    <2> USE InactivityAssumption
    <2>1. /\ pc[m] = "heartbeat" /\ signature[m] = None
          /\ UNCHANGED <<supporters, nonce, accepted>>
      BY <1>9 DEF execute, ClaimIInv, MemberInv
    <2>2. CASE enoughActive(inactive)
      BY <1>9, <2>1, <2>2 DEF execute, record, ClaimIInv, ClaimTypes, MemberInv, AcceptedInv,
         OneClaimPerHeartbeat, signersOf
    <2>3. CASE ~enoughActive(inactive) /\ counter'[m] < FailureThreshold
      BY <1>9, <2>1, <2>3 DEF execute, record, ClaimIInv, ClaimTypes, MemberInv, AcceptedInv,
         OneClaimPerHeartbeat, signersOf
    <2>4. CASE ~enoughActive(inactive) /\ ~(counter'[m] < FailureThreshold)
      <3>1. /\ counter' = [counter EXCEPT ![m] = @ + 1]
            /\ failures' = [failures EXCEPT ![m] = @ + 1]
            /\ report' = [report EXCEPT ![m] = inactive]
            /\ signature' = [signature EXCEPT ![m] = [nonce |-> nonce, inactive |-> inactive]]
            /\ pc' = [pc EXCEPT ![m] = "signing"]
        BY <1>9, <2>4 DEF execute, record, claimInactivity
      <3>2. [nonce |-> nonce, inactive |-> inactive] \in Claims
        BY DEF ClaimIInv, ClaimTypes, Claims
      <3>3. ClaimTypes'
        BY <2>1, <3>1, <3>2 DEF ClaimIInv, ClaimTypes
      <3>4. \A n \in Members : MemberInv(n)'
        BY <2>1, <2>4, <3>1, <3>2, NoneIsNoClaim DEF ClaimIInv, ClaimTypes, MemberInv
      <3>5. AcceptedInv'
        <4> SUFFICES ASSUME NEW a \in accepted, NEW x \in a.signers
                     PROVE  x \in Members /\ signature'[x] = a.claim
          BY <2>1 DEF ClaimIInv, AcceptedInv, signersOf
        <4>1. x \in Members /\ signature[x] = a.claim /\ a.claim \in Claims
          BY DEF ClaimIInv, AcceptedInv, signersOf, ClaimTypes, Accepted
        <4>2. x # m
          BY <2>1, <4>1, NoneIsNoClaim
        <4> QED
          BY <3>1, <4>1, <4>2 DEF ClaimIInv, ClaimTypes
      <3> QED
        BY <2>1, <3>3, <3>4, <3>5 DEF ClaimIInv, OneClaimPerHeartbeat
    <2> QED
      BY <2>2, <2>3, <2>4
  <1> QED
    BY <1>1, <1>2, <1>3, <1>4, <1>5, <1>6, <1>7, <1>8, <1>9 DEF ClaimNext

(***************************************************************************)
(* Theorems.                                                               *)
(***************************************************************************)
LEMMA ClaimInductiveInvariant == ClaimSpec => []ClaimIInv
  BY ClaimInitIInv, ClaimNextIInv, PTL DEF ClaimSpec

(* At most one claim is accepted for a heartbeat, in a group of any size:  *)
(* a second one would need the signature of a member that signed the       *)
(* first, with another nonce, and a member signs once (claimInactivity,    *)
(* verifyClaim).                                                           *)
THEOREM OneClaim == ClaimSpec => []OneClaimPerHeartbeat
  BY ClaimInductiveInvariant, PTL DEF ClaimIInv

(* The invariant implies the property.                                     *)
LEMMA IInvEarned == ClaimIInv => EveryClaimIsEarned
  <1> SUFFICES ASSUME ClaimIInv, NEW a \in accepted, NEW m \in a.signers
               PROVE  report[m] = a.claim.inactive /\ failures[m] >= FailureThreshold
    BY DEF ClaimIInv, AcceptedInv, EveryClaimIsEarned
  <1>1. m \in Members /\ signature[m] = a.claim /\ a.claim # None
    BY NoneIsNoClaim DEF ClaimIInv, AcceptedInv, signersOf, ClaimTypes, Accepted
  <1> QED
    BY <1>1 DEF ClaimIInv, MemberInv

(* Every accepted claim is backed by a quorum of members that have each    *)
(* seen as many consecutive failures as the threshold asks for, whatever   *)
(* the thresholds are (heartbeatAction.execute and its counter).           *)
THEOREM ClaimsAreEarned == ClaimSpec => []EveryClaimIsEarned
  BY ClaimInductiveInvariant, IInvEarned, PTL
-----------------------------------------------------------------------------
(* What a member that is done can say about a claim that nobody disagrees  *)
(* with, and what is needed to see it: no signature is ahead of the        *)
(* contract's nonce, no claim is empty, and what is queued has a quorum.   *)
agreed(m) == \A n \in Members : signature[n] \in {signature[m], None}

ClaimInv(m) ==
    /\ signature[m] # None => signature[m].nonce <= nonce /\ signature[m].inactive # {}
    /\ pc[m] = "queued" =>
          /\ supporters[m] \subseteq signersOf(signature[m])
          /\ Cardinality(supporters[m]) >= HonestThreshold
    /\ pc[m] = "done" /\ signature[m] # None /\ agreed(m) /\ ~disturbed /\ registered
          => nonce > signature[m].nonce

AgreedInv == \A m \in Members : ClaimInv(m)

(* No claim exists at the start.                                           *)
LEMMA InitAgreedInv == ClaimInit => AgreedInv
  BY DEF ClaimInit, AgreedInv, ClaimInv

(* A member whose report calls too many inactive calls somebody inactive.  *)
LEMMA SomebodyIsInactive ==
    ASSUME NEW inactive \in InactiveSets, ~enoughActive(inactive)
    PROVE  inactive # {}
  <1> SUFFICES ASSUME inactive = {} PROVE FALSE
    OBVIOUS
  <1>1. Members \ inactive = Members
    OBVIOUS
  <1>2. Cardinality(Members) \in Nat
    BY FS_CardinalityType, InactivityAssumption
  <1> QED
    BY <1>1, <1>2, InactivityAssumption DEF enoughActive

(* What a member collects when nobody claims anything else: its claim is   *)
(* supported by all that it received.                                      *)
LEMMA ReceivedSupport ==
    ASSUME ClaimIInv, NEW m \in Members, agreed(m), pc[m] = "signing",
           NEW received \in SUBSET ({s \in Members : signature[s] # None} \ {m}),
           Cardinality(received) >= HonestThreshold - 1
    PROVE  Cardinality(verifyInactivityClaimSignatures(m, received)) >= HonestThreshold
  <1>1. verifyInactivityClaimSignatures(m, received) = received \cup {m}
    BY DEF verifyInactivityClaimSignatures, signersOf, agreed
  <1>2. IsFiniteSet(received) /\ m \notin received
    BY FS_Subset, InactivityAssumption
  <1>3. Cardinality(received \cup {m}) = Cardinality(received) + 1 /\ Cardinality(received) \in Nat
    BY <1>2, FS_AddElement, FS_CardinalityType
  <1>4. Cardinality(Members) \in Nat
    BY FS_CardinalityType, InactivityAssumption
  <1> QED
    BY <1>1, <1>3, <1>4, InactivityAssumption

(* A claim accepted in this session used up the nonce of all that agree.   *)
LEMMA AcceptedIsAgreed ==
    ASSUME ClaimIInv, NEW m \in Members, agreed(m), accepted # {}
    PROVE  nonce > signature[m].nonce
  <1>1. PICK a \in accepted : TRUE
    OBVIOUS
  <1>2. /\ a.signers \in SUBSET Members /\ a.signers \subseteq signersOf(a.claim)
        /\ Cardinality(a.signers) >= HonestThreshold /\ a.claim \in Claims
        /\ a.claim.nonce < nonce /\ nonce \in Nat
    BY DEF ClaimIInv, AcceptedInv, ClaimTypes, Accepted
  <1>3. PICK x \in Members : x \in a.signers
    BY <1>2, QuorumsMeet
  <1>4. signature[x] = a.claim /\ signature[x] # None
    BY <1>2, <1>3, NoneIsNoClaim DEF signersOf
  <1>5. signature[m] = a.claim
    BY <1>4 DEF agreed
  <1> QED
    BY <1>2, <1>5 DEF Claims

(* Every step keeps the invariant about claims nobody disagrees with.      *)
LEMMA NextAgreedInv == ClaimIInv /\ AgreedInv /\ [ClaimNext]_claimVars => AgreedInv'
  <1> SUFFICES ASSUME ClaimIInv, AgreedInv, [ClaimNext]_claimVars, NEW n \in Members PROVE ClaimInv(n)'
    BY DEF AgreedInv
  <1>0. ClaimTypes /\ ClaimInv(n)
    BY DEF ClaimIInv, AgreedInv
  <1> USE DEF chainVars, reports, goto
  <1>1. ASSUME NEW m \in Members, quit(m) PROVE ClaimInv(n)'
    BY <1>0, <1>1 DEF quit, ClaimIInv, ClaimTypes, MemberInv, ClaimInv, agreed, signersOf
  <1>2. ASSUME NEW m \in Members, collect(m) PROVE ClaimInv(n)'
    <2>0. UNCHANGED <<session, counter, signature, chainVars, reports, accepted, disturbed>>
      BY <1>2 DEF collect
    <2>1. CASE n # m
      BY <1>0, <1>2, <2>0, <2>1 DEF collect, ClaimTypes, ClaimInv, agreed, signersOf
    <2>2. CASE n = m
      <3>1. PICK received \in SUBSET ({s \in Members : signature[s] # None} \ {m}) :
               /\ Cardinality(received) >= HonestThreshold - 1
               /\ IF Cardinality(verifyInactivityClaimSignatures(m, received)) >= HonestThreshold
                       /\ ~alreadySubmitted(m)
                  THEN /\ supporters' = [supporters EXCEPT ![m] = verifyInactivityClaimSignatures(m, received)]
                       /\ goto(m, "queued")
                  ELSE goto(m, "done") /\ UNCHANGED supporters
        BY <1>2 DEF collect
      <3>2. CASE Cardinality(verifyInactivityClaimSignatures(m, received)) >= HonestThreshold
                   /\ ~alreadySubmitted(m)
        <4>1. /\ supporters'[m] = verifyInactivityClaimSignatures(m, received) /\ pc'[m] = "queued"
          BY <1>0, <3>1, <3>2 DEF ClaimTypes
        <4>2. verifyInactivityClaimSignatures(m, received) \subseteq signersOf(signature[m])
          BY DEF verifyInactivityClaimSignatures, signersOf
        <4> QED
          BY <1>0, <2>0, <2>2, <3>2, <4>1, <4>2 DEF ClaimInv, signersOf
      <3>3. CASE ~(Cardinality(verifyInactivityClaimSignatures(m, received)) >= HonestThreshold)
        <4>1. ~agreed(m)
          BY <1>2, <3>1, <3>3, ReceivedSupport DEF collect
        <4>2. ~agreed(m)' /\ pc'[m] = "done"
          BY <1>0, <2>0, <3>1, <3>3, <4>1 DEF agreed, ClaimTypes
        <4> QED
          BY <1>0, <2>0, <2>2, <4>2 DEF ClaimInv
      <3>4. CASE alreadySubmitted(m)
        <4>1. pc'[m] = "done"
          BY <1>0, <3>1, <3>4 DEF ClaimTypes
        <4> QED
          BY <1>0, <2>0, <2>2, <3>4, <4>1 DEF ClaimInv, alreadySubmitted
      <3> QED
        BY <3>2, <3>3, <3>4
    <2> QED
      BY <2>1, <2>2
  <1>3. ASSUME NEW m \in Members, cancel(m) PROVE ClaimInv(n)'
    <2>1. /\ UNCHANGED <<session, counter, signature, supporters, chainVars, reports, accepted>>
          /\ disturbed' = (disturbed \/ accepted = {})
      BY <1>3 DEF cancel
    <2>2. CASE accepted = {}
      BY <1>0, <1>3, <2>1, <2>2, Zenon DEF cancel, ClaimTypes, ClaimInv, signersOf
    <2>3. CASE accepted # {}
      BY <1>0, <1>3, <2>1, <2>3, AcceptedIsAgreed DEF cancel, ClaimTypes, ClaimInv, signersOf, agreed
    <2> QED
      BY <2>2, <2>3
  <1>4. ASSUME NEW m \in Members, restart(m) PROVE ClaimInv(n)'
    BY <1>0, <1>4 DEF restart, ClaimTypes, ClaimInv, signersOf
  <1>5. CASE nextHeartbeat
    BY <1>0, <1>5 DEF nextHeartbeat, ClaimTypes, ClaimInv
  <1>6. CASE closeWallet
    BY <1>0, <1>6 DEF closeWallet, ClaimTypes, ClaimInv, signersOf
  <1>7. CASE UNCHANGED claimVars
    BY <1>0, <1>7 DEF claimVars, ClaimInv, signersOf, agreed
  <1>8. ASSUME NEW m \in Members, submit(m) PROVE ClaimInv(n)'
    <2>0. /\ UNCHANGED <<session, counter, signature, supporters, registered, reports, disturbed>>
          /\ pc[m] = "queued" /\ pc' = [pc EXCEPT ![m] = "done"] /\ signature[m] \in Claims
      BY <1>0, <1>8 DEF submit, ClaimIInv, MemberInv, ClaimTypes
    <2>1. CASE verifyClaim(signature[m], supporters[m])
      <3>1. nonce' = nonce + 1
        BY <1>8, <2>1 DEF submit
      <3>2. signature[n] # None => signature[n].nonce \in Nat /\ signature[n].nonce < nonce'
        BY <1>0, <3>1 DEF ClaimTypes, Claims, ClaimInv
      <3> QED
        BY <1>0, <2>0, <3>1, <3>2 DEF ClaimTypes, ClaimInv, signersOf, Claims
    <2>2. CASE ~verifyClaim(signature[m], supporters[m])
      <3>1. UNCHANGED nonce
        BY <1>8, <2>2 DEF submit
      <3>2. CASE n # m
        BY <1>0, <2>0, <3>1, <3>2 DEF ClaimTypes, ClaimInv, signersOf, agreed
      <3>3. CASE n = m
        <4>1. registered => nonce > signature[m].nonce
          BY <1>0, <2>0, <2>2, <3>3, NoneIsNoClaim DEF ClaimInv, verifyClaim, ClaimTypes, Claims
        <4> QED
          BY <1>0, <2>0, <3>1, <3>3, <4>1 DEF ClaimInv, ClaimTypes
      <3> QED
        BY <3>2, <3>3
    <2> QED
      BY <2>1, <2>2
  <1>9. ASSUME NEW m \in Members, NEW inactive \in InactiveSets, execute(m, inactive) PROVE ClaimInv(n)'
    <2>1. /\ pc[m] = "heartbeat" /\ signature[m] = None
          /\ UNCHANGED <<supporters, nonce, registered, disturbed>>
      BY <1>9 DEF execute, ClaimIInv, MemberInv
    <2>2. CASE UNCHANGED signature /\ pc' = [pc EXCEPT ![m] = "done"]
      BY <1>0, <2>1, <2>2 DEF ClaimTypes, ClaimInv, agreed, signersOf
    <2>3. CASE ~enoughActive(inactive) /\ claimInactivity(m, inactive)
      <3>1. PICK claim \in Claims : claim = [nonce |-> nonce, inactive |-> inactive]
        BY <1>0, Zenon DEF Claims, ClaimTypes
      <3>2. /\ signature' = [signature EXCEPT ![m] = claim] /\ pc' = [pc EXCEPT ![m] = "signing"]
            /\ claim # None /\ claim.nonce = nonce /\ claim.inactive # {} /\ nonce \in Nat
        BY <1>0, <2>3, <3>1, NoneIsNoClaim, SomebodyIsInactive DEF claimInactivity, ClaimTypes
      <3>3. CASE n = m
        BY <1>0, <2>1, <3>2, <3>3 DEF ClaimTypes, ClaimInv
      <3>4. CASE n # m
        <4>1. signature'[n] = signature[n] /\ pc'[n] = pc[n] /\ agreed(n)' => agreed(n)
          BY <1>0, <2>1, <3>2, <3>4 DEF ClaimTypes, agreed
        <4>2. signature[n] # None => signersOf(signature[n]) \subseteq signersOf(signature[n])'
          BY <1>0, <2>1, <3>2, <3>4 DEF ClaimTypes, signersOf
        <4>3. pc[n] = "queued" => signature[n] # None
          BY DEF ClaimIInv, MemberInv
        <4> QED
          BY <1>0, <2>1, <3>2, <3>4, <4>1, <4>2, <4>3 DEF ClaimTypes, ClaimInv
      <3> QED
        BY <3>3, <3>4
    <2> QED
      BY <1>9, <2>2, <2>3 DEF execute
  <1> QED
    BY <1>1, <1>2, <1>3, <1>4, <1>5, <1>6, <1>7, <1>8, <1>9 DEF ClaimNext

(* The invariants imply the property.                                      *)
LEMMA AgreedInvGoesThrough == ClaimIInv /\ AgreedInv => AgreedClaimGoesThrough
  BY InactivityAssumption DEF AgreedInv, ClaimInv, agreed, AgreedClaimGoesThrough

(* When a quorum of members claims the same and nobody claims anything     *)
(* else, the claim has been accepted by the time they are done, in a group *)
(* of any size and for all thresholds, unless a member was cancelled from  *)
(* outside (claimInactivity, and submitClaim's reading of the nonce).      *)
THEOREM AgreedClaims == ClaimSpec => []AgreedClaimGoesThrough
  BY ClaimInductiveInvariant, InitAgreedInv, NextAgreedInv, AgreedInvGoesThrough, PTL DEF ClaimSpec

(***************************************************************************)
(* Coordination, for any operators, seats, seeds, lengths of the phases    *)
(* and number of windows.                                                  *)
(***************************************************************************)

Stages == {"none", "started", "leading", "following", "finished", "processed", "failed"}

Types ==
    /\ seed \in [Windows -> Seeds]
    /\ lastWindow \in [Operators -> Nat]
    /\ procedures \in [Operators -> [Windows -> Stages]]
    /\ proposals \in [Operators -> [Windows -> Actions \cup {Noop, NoProposal}]]
    /\ DOMAIN faults = Operators
    /\ DOMAIN actions = Operators

(* A node has a proposal for a window once its procedure is over, and it   *)
(* is the one the leader of the window has.                                *)
ProcedureInv(o, w) ==
    /\ w > lastWindow[o] => procedures[o][w] = "none"
    /\ procedures[o][w] \in {"finished", "processed"} <=> proposals[o][w] # NoProposal
    /\ procedures[o][w] = "leading" => getLeader(w) = o
    /\ procedures[o][w] = "following" => getLeader(w) # o
    /\ proposals[o][w] # NoProposal => proposals[o][w] = proposals[getLeader(w)][w]

(* Every message has the proposal of the leader of its window.             *)
MessageInv(msg) ==
    /\ msg.window \in Windows
    /\ msg.action \in actionsAllowed(msg.window)
    /\ msg.action = proposals[getLeader(msg.window)][msg.window]

ActionInv(o) ==
    \/ actions[o] = {}
    \/ \E w \in Windows :
          /\ proposals[getLeader(w)][w] # NoProposal
          /\ actions[o] = {<<w, proposals[getLeader(w)][w]>>}

IInv ==
    /\ Types
    /\ \A o \in Operators, w \in Windows : ProcedureInv(o, w)
    /\ \A msg \in messages : MessageInv(msg)
    /\ \A o \in Operators : ActionInv(o)
    /\ NoLeaderMistakes

(* The leader of a window is an operator.                                  *)
LEMMA LeaderType ==
    ASSUME Types, NEW w \in Windows
    PROVE  getLeader(w) \in Operators
  BY CoordinationAssumption DEF Types, getLeader

(* What is proposed is never the absence of a proposal.                    *)
LEMMA AllowedIsProposal ==
    ASSUME NEW w, NEW a \in actionsAllowed(w)
    PROVE  a \in Actions \cup {Noop} /\ a # NoProposal
  BY DEF actionsAllowed, getActionsChecklist, Actions, Noop, NoProposal

(* The invariant holds at the start.                                       *)
LEMMA InitIInv == Init => IInv
  <1> SUFFICES ASSUME Init PROVE IInv
    OBVIOUS
  <1>1. Types
    BY DEF Init, Types, Stages, NoProposal
  <1>2. \A o \in Operators, w \in Windows : ProcedureInv(o, w)
    BY DEF Init, ProcedureInv
  <1>3. \A o \in Operators : ActionInv(o)
    BY DEF Init, ActionInv
  <1> QED
    BY <1>1, <1>2, <1>3 DEF IInv, Init, NoLeaderMistakes

(* A procedure goes on without a proposal: nothing else depends on it.     *)
LEMMA ProcedureStep ==
    ASSUME IInv, NEW o \in Operators, NEW w \in Windows,
           NEW next \in {"started", "leading", "following", "failed"},
           procedures[o][w] \notin {"finished", "processed"},
           next = "leading" => getLeader(w) = o,
           next = "following" => getLeader(w) # o,
           procedures' = [procedures EXCEPT ![o][w] = next],
           \/ UNCHANGED lastWindow /\ procedures[o][w] # "none"
           \/ lastWindow' = [lastWindow EXCEPT ![o] = w] /\ isAfter(o, w),
           UNCHANGED <<seed, proposals, messages, actions>>,
           DOMAIN faults' = Operators,
           NoLeaderMistakes'
    PROVE  IInv'
  <1>0. Types /\ w \in Nat
    BY CoordinationAssumption DEF IInv, Windows
  <1>1. lastWindow' \in [Operators -> Nat]
    BY <1>0 DEF Types
  <1>2. procedures' \in [Operators -> [Windows -> Stages]]
    <2>1. [procedures[o] EXCEPT ![w] = next] \in [Windows -> Stages]
      BY <1>0 DEF Types, Stages
    <2> QED
      BY <1>0, <2>1 DEF Types
  <1>3. Types'
    BY <1>0, <1>1, <1>2 DEF Types, Windows, Actions, Noop, NoProposal, Stages
  <1>4. ASSUME NEW p \in Operators, NEW v \in Windows PROVE ProcedureInv(p, v)'
    <2>0. ProcedureInv(p, v) /\ ProcedureInv(o, w) /\ v \in Nat
      BY CoordinationAssumption DEF IInv, Windows
    <2>1. CASE p = o /\ v = w
      <3>1. procedures'[o][w] = next
        BY <1>0 DEF Types
      <3>2. ~(w > lastWindow'[o])
        <4>1. lastWindow[o] \in Nat
          BY <1>0 DEF Types
        <4>2. CASE UNCHANGED lastWindow /\ procedures[o][w] # "none"
          BY <2>0, <4>2 DEF ProcedureInv
        <4>3. CASE lastWindow' = [lastWindow EXCEPT ![o] = w] /\ isAfter(o, w)
          BY <1>0, <4>3 DEF Types
        <4> QED
          BY <4>2, <4>3
      <3>3. proposals'[o][w] = NoProposal
        BY <2>0 DEF ProcedureInv
      <3> QED
        BY <2>1, <3>1, <3>2, <3>3 DEF ProcedureInv, getLeader
    <2>2. CASE ~(p = o /\ v = w)
      <3>1. procedures'[p][v] = procedures[p][v]
        BY <1>0, <2>2 DEF Types
      <3>2. v > lastWindow'[p] => v > lastWindow[p]
        BY <1>0, <1>1, <2>0 DEF Types, isAfter
      <3> QED
        BY <2>0, <3>1, <3>2 DEF ProcedureInv, getLeader
    <2> QED
      BY <2>1, <2>2
  <1>5. \A msg \in messages' : MessageInv(msg)'
    BY DEF IInv, MessageInv, actionsAllowed, getActionsChecklist, getLeader
  <1>6. \A p \in Operators : ActionInv(p)'
    BY DEF IInv, ActionInv, getLeader
  <1> QED
    BY <1>3, <1>4, <1>5, <1>6 DEF IInv

(* A procedure ends with a proposal: the leader's own, the first one of    *)
(* the window, or for a follower the one the leader has.                   *)
LEMMA ProposalStep ==
    ASSUME IInv, NEW o \in Operators, NEW w \in Windows, NEW a \in actionsAllowed(w),
           procedures[o][w] \in {"leading", "following"},
           procedures[o][w] = "following" => a = proposals[getLeader(w)][w],
           procedures' = [procedures EXCEPT ![o][w] = "finished"],
           proposals' = [proposals EXCEPT ![o][w] = a],
           UNCHANGED <<seed, lastWindow, faults, actions>>
    PROVE  /\ Types'
           /\ \A p \in Operators, v \in Windows : ProcedureInv(p, v)'
           /\ \A msg \in messages : MessageInv(msg)'
           /\ \A p \in Operators : ActionInv(p)'
           /\ procedures[o][w] = "leading" => proposals'[getLeader(w)][w] = a
  <1>0. Types /\ ProcedureInv(o, w) /\ getLeader(w) \in Operators
    BY LeaderType DEF IInv
  <1>1. a \in Actions \cup {Noop} /\ a # NoProposal
    BY AllowedIsProposal
  <1>2. proposals[o][w] = NoProposal
    BY <1>0 DEF ProcedureInv
  <1>3. procedures' \in [Operators -> [Windows -> Stages]]
    <2>1. [procedures[o] EXCEPT ![w] = "finished"] \in [Windows -> Stages]
      BY <1>0 DEF Types, Stages
    <2> QED
      BY <1>0, <2>1 DEF Types
  <1>4. proposals' \in [Operators -> [Windows -> Actions \cup {Noop, NoProposal}]]
    <2>1. [proposals[o] EXCEPT ![w] = a] \in [Windows -> Actions \cup {Noop, NoProposal}]
      BY <1>0, <1>1 DEF Types
    <2> QED
      BY <1>0, <2>1 DEF Types
  <1>5. Types'
    BY <1>0, <1>3, <1>4 DEF Types, Windows, Actions, Noop, NoProposal, Stages
  <1>6. /\ proposals'[o][w] = a /\ procedures'[o][w] = "finished"
        /\ \A p \in Operators, v \in Windows : ~(p = o /\ v = w) =>
              proposals'[p][v] = proposals[p][v] /\ procedures'[p][v] = procedures[p][v]
    BY <1>0 DEF Types
  <1>7. \A v \in Windows : getLeader(v)' = getLeader(v) /\ getLeader(v) \in Operators
    BY <1>0, LeaderType DEF getLeader
  <1>8. procedures[o][w] = "leading" => getLeader(w) = o
    BY <1>0 DEF ProcedureInv
  <1>9. procedures[o][w] = "following" => getLeader(w) # o
    BY <1>0 DEF ProcedureInv
  <1>10. ASSUME NEW p \in Operators, NEW v \in Windows PROVE ProcedureInv(p, v)'
    <2>0. ProcedureInv(p, v)
      BY DEF IInv
    <2>1. CASE p = o /\ v = w
      <3>1. ~(w > lastWindow[o])
        BY <1>0 DEF ProcedureInv
      <3>2. proposals'[o][w] = proposals'[getLeader(w)][w]
        BY <1>6, <1>7, <1>8, <1>9
      <3> QED
        BY <1>1, <1>6, <1>7, <2>1, <3>1, <3>2 DEF ProcedureInv
    <2>2. CASE ~(p = o /\ v = w)
      <3>1. proposals'[p][v] = proposals[p][v] /\ procedures'[p][v] = procedures[p][v]
        BY <1>6, <2>2
      <3>2. ASSUME proposals[p][v] # NoProposal
            PROVE  proposals'[getLeader(v)][v] = proposals[getLeader(v)][v]
        <4>1. proposals[getLeader(v)][v] # NoProposal
          BY <2>0, <3>2 DEF ProcedureInv
        <4> QED
          BY <1>2, <1>6, <1>7, <4>1
      <3> QED
        BY <1>7, <2>0, <3>1, <3>2 DEF ProcedureInv
    <2> QED
      BY <2>1, <2>2
  <1>11. ASSUME NEW v \in Windows, proposals[getLeader(v)][v] # NoProposal
         PROVE  proposals'[getLeader(v)][v] = proposals[getLeader(v)][v]
    BY <1>2, <1>6, <1>7, <1>11
  <1>12. ASSUME NEW msg \in messages PROVE MessageInv(msg)'
    <2>1. MessageInv(msg)
      BY DEF IInv
    <2>2. msg.window \in Windows /\ msg.action # NoProposal
      BY <2>1, AllowedIsProposal DEF MessageInv
    <2>3. proposals'[getLeader(msg.window)][msg.window] = msg.action
      BY <1>11, <2>1, <2>2 DEF MessageInv
    <2> QED
      BY <1>7, <2>1, <2>2, <2>3 DEF MessageInv, actionsAllowed, getActionsChecklist
  <1>13. ASSUME NEW p \in Operators PROVE ActionInv(p)'
    <2>1. ActionInv(p)
      BY DEF IInv
    <2>2. CASE actions[p] = {}
      BY <2>2 DEF ActionInv
    <2>3. CASE actions[p] # {}
      <3>1. PICK v \in Windows : /\ proposals[getLeader(v)][v] # NoProposal
                                 /\ actions[p] = {<<v, proposals[getLeader(v)][v]>>}
        BY <2>1, <2>3 DEF ActionInv
      <3> QED
        BY <1>7, <1>11, <3>1 DEF ActionInv
    <2> QED
      BY <2>2, <2>3
  <1> QED
    BY <1>5, <1>6, <1>8, <1>10, <1>12, <1>13

(* The leader's proposal is the first one of its window, and its message   *)
(* carries it.                                                             *)
LEMMA LeaderRoutineStep ==
    ASSUME IInv, NEW o \in Operators, NEW w \in Windows, executeLeaderRoutine(o, w)
    PROVE  IInv'
  <1>1. PICK a \in actionsAllowed(w) :
          /\ messages' = messages \cup {[sender |-> Min(executor[o]), window |-> w, action |-> a]}
          /\ proposals' = [proposals EXCEPT ![o][w] = a]
    BY Zenon DEF executeLeaderRoutine, actionsAllowed
  <1>2. /\ procedures[o][w] = "leading"
        /\ procedures' = [procedures EXCEPT ![o][w] = "finished"]
        /\ UNCHANGED <<seed, lastWindow, faults, actions>>
    BY DEF executeLeaderRoutine
  <1>3. /\ Types'
        /\ \A p \in Operators, v \in Windows : ProcedureInv(p, v)'
        /\ \A msg \in messages : MessageInv(msg)'
        /\ \A p \in Operators : ActionInv(p)'
        /\ proposals'[getLeader(w)][w] = a
    BY <1>1, <1>2, ProposalStep, Zenon
  <1>4. PICK new : new = [sender |-> Min(executor[o]), window |-> w, action |-> a]
    BY Zenon
  <1>5. new.window = w /\ new.action = a /\ messages' = messages \cup {new}
    BY <1>1, <1>4
  <1>6. MessageInv(new)'
    BY <1>2, <1>3, <1>5 DEF MessageInv, actionsAllowed, getActionsChecklist, getLeader, Windows
  <1>7. NoLeaderMistakes'
    BY <1>2 DEF IInv, NoLeaderMistakes
  <1> QED
    BY <1>3, <1>5, <1>6, <1>7 DEF IInv

(* A follower accepts a message of the leader only, with the leader's      *)
(* proposal.                                                               *)
LEMMA AcceptStep ==
    ASSUME IInv, NEW o \in Operators, NEW w \in Windows, NEW msg \in messages,
           acceptProposal(o, w, msg)
    PROVE  IInv'
  <1>1. /\ procedures[o][w] = "following" /\ msg.window = w /\ msg.action \in actionsAllowed(w)
        /\ proposals' = [proposals EXCEPT ![o][w] = msg.action]
        /\ procedures' = [procedures EXCEPT ![o][w] = "finished"]
        /\ UNCHANGED <<seed, lastWindow, messages, faults, actions>>
    BY DEF acceptProposal, isForMe
  <1>2. msg.action = proposals[getLeader(w)][w]
    BY <1>1 DEF IInv, MessageInv
  <1>3. /\ Types'
        /\ \A p \in Operators, v \in Windows : ProcedureInv(p, v)'
        /\ \A m \in messages : MessageInv(m)'
        /\ \A p \in Operators : ActionInv(p)'
    BY <1>1, <1>2, ProposalStep, Zenon
  <1> QED
    BY <1>1, <1>3 DEF IInv, NoLeaderMistakes

(* A message that gets the leader blamed is not the leader's: what the     *)
(* leader sends is allowed.                                                *)
LEMMA RecordFaultStep ==
    ASSUME IInv, NEW o \in Operators, NEW w \in Windows, NEW msg \in messages,
           recordFault(o, w, msg)
    PROVE  IInv'
  <1>1. UNCHANGED <<seed, lastWindow, procedures, proposals, messages, actions>>
    BY Zenon DEF recordFault
  <1>2. msg.window = w /\ msg.action \in actionsAllowed(w)
    BY DEF IInv, MessageInv, recordFault, isForMe
  <1> DEFINE new == [window |-> w, culprit |-> operatorOf(msg.sender), type |-> "LeaderImpersonation"]
  <1>3. faults' = [faults EXCEPT ![o] = @ \cup {new}]
    BY <1>2, Zenon DEF recordFault
  <1>4. new.type # "LeaderMistake"
    OBVIOUS
  <1> HIDE DEF new
  <1>5. NoLeaderMistakes' /\ DOMAIN faults' = Operators
    BY <1>3, <1>4 DEF IInv, Types, NoLeaderMistakes
  <1>6. Types'
    BY <1>1, <1>5 DEF IInv, Types, Windows, Actions, Noop, NoProposal, Stages
  <1>7. \A p \in Operators, v \in Windows : ProcedureInv(p, v)'
    BY <1>1 DEF IInv, ProcedureInv, getLeader, Windows
  <1>8. \A m \in messages' : MessageInv(m)'
    BY <1>1 DEF IInv, MessageInv, actionsAllowed, getActionsChecklist, getLeader, Windows
  <1>9. \A p \in Operators : ActionInv(p)'
    BY <1>1 DEF IInv, ActionInv, getLeader, Windows
  <1> QED
    BY <1>5, <1>6, <1>7, <1>8, <1>9 DEF IInv

(* A follower that hears nothing ends without a proposal.                  *)
LEMMA TimeoutStep ==
    ASSUME IInv, NEW o \in Operators, NEW w \in Windows, followerTimesOut(o, w)
    PROVE  IInv'
  <1>1. /\ procedures[o][w] = "following"
        /\ procedures' = [procedures EXCEPT ![o][w] = "failed"]
        /\ UNCHANGED <<seed, lastWindow, proposals, messages, actions>>
    BY DEF followerTimesOut
  <1> DEFINE new == [window |-> w, culprit |-> getLeader(w), type |-> "LeaderIdleness"]
  <1>2. faults' = [faults EXCEPT ![o] = @ \cup {new}] /\ new.type # "LeaderMistake"
    BY DEF followerTimesOut
  <1> HIDE DEF new
  <1>3. NoLeaderMistakes' /\ DOMAIN faults' = Operators
    BY <1>2 DEF IInv, Types, NoLeaderMistakes
  <1> QED
    BY <1>1, <1>3, ProcedureStep, Zenon

(* The dispatcher takes the node's proposal, which is the leader's, when   *)
(* nothing runs.                                                           *)
LEMMA ProcessStep ==
    ASSUME IInv, NEW o \in Operators, NEW w \in Windows, processCoordinationResult(o, w)
    PROVE  IInv'
  <1>0. Types /\ ProcedureInv(o, w)
    BY DEF IInv
  <1>1. /\ procedures[o][w] = "finished"
        /\ procedures' = [procedures EXCEPT ![o][w] = "processed"]
        /\ UNCHANGED <<seed, lastWindow, proposals, messages, faults>>
    BY DEF processCoordinationResult
  <1>2. \/ actions' = actions
        \/ actions[o] = {} /\ actions' = [actions EXCEPT ![o] = {<<w, proposals[o][w]>>}]
    BY DEF processCoordinationResult, handleProposal, dispatch
  <1>3. proposals[o][w] # NoProposal /\ proposals[o][w] = proposals[getLeader(w)][w]
    BY <1>0, <1>1 DEF ProcedureInv
  <1>4. procedures' \in [Operators -> [Windows -> Stages]]
    <2>1. [procedures[o] EXCEPT ![w] = "processed"] \in [Windows -> Stages]
      BY <1>0 DEF Types, Stages
    <2> QED
      BY <1>0, <1>1, <2>1 DEF Types
  <1>5. Types'
    BY <1>0, <1>1, <1>2, <1>4 DEF Types, Windows, Actions, Noop, NoProposal, Stages
  <1>6. ASSUME NEW p \in Operators, NEW v \in Windows PROVE ProcedureInv(p, v)'
    <2>1. ProcedureInv(p, v)
      BY Zenon DEF IInv
    <2>2. procedures'[p][v] = IF p = o /\ v = w THEN "processed" ELSE procedures[p][v]
      BY <1>0, <1>1 DEF Types
    <2> QED
      BY <1>1, <2>1, <2>2 DEF ProcedureInv, getLeader
  <1>7. \A m \in messages' : MessageInv(m)'
    BY <1>1 DEF IInv, MessageInv, actionsAllowed, getActionsChecklist, getLeader, Windows
  <1>8. ASSUME NEW p \in Operators PROVE ActionInv(p)'
    <2>1. CASE actions'[p] = actions[p]
      BY <1>1, <2>1 DEF IInv, ActionInv, getLeader, Windows
    <2>2. CASE actions'[p] # actions[p]
      <3>1. actions'[p] = {<<w, proposals[o][w]>>}
        BY <1>0, <1>2, <2>2 DEF Types
      <3> QED
        BY <1>1, <1>3, <3>1 DEF ActionInv, getLeader, Windows
    <2> QED
      BY <2>1, <2>2
  <1> QED
    BY <1>1, <1>5, <1>6, <1>7, <1>8 DEF IInv, NoLeaderMistakes

(* Steps that leave procedures, proposals and messages alone.              *)
LEMMA QuietStep ==
    ASSUME IInv, UNCHANGED <<seed, lastWindow, procedures, proposals, messages, faults>>,
           DOMAIN actions' = Operators,
           \A o \in Operators : actions'[o] \in {actions[o], {}}
    PROVE  IInv'
  <1>1. Types'
    BY DEF IInv, Types, Windows, Actions, Noop, NoProposal, Stages
  <1>2. \A p \in Operators, v \in Windows : ProcedureInv(p, v)'
    BY DEF IInv, ProcedureInv, getLeader, Windows
  <1>3. \A m \in messages' : MessageInv(m)'
    BY DEF IInv, MessageInv, actionsAllowed, getActionsChecklist, getLeader, Windows
  <1>4. \A p \in Operators : ActionInv(p)'
    BY Zenon DEF IInv, ActionInv, getLeader, Windows
  <1> QED
    BY <1>1, <1>2, <1>3, <1>4 DEF IInv, NoLeaderMistakes

(* Every step keeps the invariant.                                         *)
LEMMA NextIInv == IInv /\ [Next]_vars => IInv'
  <1> SUFFICES ASSUME IInv, [Next]_vars PROVE IInv'
    OBVIOUS
  <1>0. Types
    BY Zenon DEF IInv
  <1>1. ASSUME NewBlock \/ UNCHANGED vars PROVE IInv'
    BY <1>0, <1>1, QuietStep, Zenon DEF NewBlock, vars, Types
  <1>2. ASSUME NEW o \in Operators, NEW seat \in SeatsOf[o], registerSigner(o, seat) PROVE IInv'
    BY <1>0, <1>2, QuietStep DEF registerSigner, Types
  <1>3. ASSUME NEW o \in Operators, NEW w \in Windows, watchCoordinationWindows(o, w) PROVE IInv'
    <2>1. ProcedureInv(o, w)
      BY DEF IInv
    <2>2. procedures[o][w] = "none"
      BY <1>3, <2>1 DEF ProcedureInv, watchCoordinationWindows, isAfter
    <2>3. NoLeaderMistakes' /\ DOMAIN faults' = Operators
      BY <1>0, <1>3 DEF IInv, Types, NoLeaderMistakes, watchCoordinationWindows
    <2> QED
      BY <1>3, <2>2, <2>3, ProcedureStep, Zenon DEF watchCoordinationWindows
  <1>4. ASSUME NEW o \in Operators, NEW w \in Windows, executeCoordinationProcedure(o, w) PROVE IInv'
    <2>1. NoLeaderMistakes' /\ DOMAIN faults' = Operators
      BY <1>0, <1>4 DEF IInv, Types, NoLeaderMistakes, executeCoordinationProcedure
    <2>2. PICK next \in {"leading", "following", "failed"} :
            /\ procedures' = [procedures EXCEPT ![o][w] = next]
            /\ next = "leading" => getLeader(w) = o
            /\ next = "following" => getLeader(w) # o
      BY <1>4, Zenon DEF executeCoordinationProcedure
    <2> QED
      BY <1>4, <2>1, <2>2, ProcedureStep, Zenon DEF executeCoordinationProcedure
  <1>5. ASSUME NEW o \in Operators, NEW w \in Windows, leaderRoutineFails(o, w) PROVE IInv'
    <2>1. NoLeaderMistakes' /\ DOMAIN faults' = Operators
      BY <1>0, <1>5 DEF IInv, Types, NoLeaderMistakes, leaderRoutineFails
    <2> QED
      BY <1>5, <2>1, ProcedureStep, Zenon DEF leaderRoutineFails
  <1>6. ASSUME NEW o \in Operators, NEW w \in Windows, executeLeaderRoutine(o, w) PROVE IInv'
    BY <1>6, LeaderRoutineStep
  <1>7. ASSUME NEW o \in Operators, NEW w \in Windows, followerTimesOut(o, w) PROVE IInv'
    BY <1>7, TimeoutStep
  <1>8. ASSUME NEW o \in Operators, NEW w \in Windows, processCoordinationResult(o, w) PROVE IInv'
    BY <1>8, ProcessStep
  <1>9. ASSUME NEW o \in Operators, NEW w \in Windows, NEW msg \in messages, recordFault(o, w, msg)
        PROVE  IInv'
    BY <1>9, RecordFaultStep
  <1>10. ASSUME NEW o \in Operators, NEW w \in Windows, NEW msg \in messages, acceptProposal(o, w, msg)
         PROVE  IInv'
    BY <1>10, AcceptStep
  <1>11. ASSUME NEW o \in Operators, NEW a \in actions[o], actionReturns(o, a) PROVE IInv'
    <2>1. actions[o] = {a}
      BY DEF IInv, ActionInv
    <2>2. DOMAIN actions' = Operators /\ \A p \in Operators : actions'[p] \in {actions[p], {}}
      BY <1>0, <1>11, <2>1 DEF actionReturns, Types
    <2> QED
      BY <1>11, <2>2, QuietStep DEF actionReturns
  <1> QED
    BY <1>1, <1>2, <1>3, <1>4, <1>5, <1>6, <1>7, <1>8, <1>9, <1>10, <1>11, Zenon DEF Next, Procedure

(* The invariant holds throughout.                                         *)
LEMMA InductiveInvariant == Spec => []IInv
  BY InitIInv, NextIInv, PTL DEF Spec

(***************************************************************************)
(* A coordination window yields one proposal, its leader's, and the        *)
(* dispatcher runs one action at a time, one that a window agreed on.      *)
(***************************************************************************)
THEOREM OneAction == Spec => []OneActionAtATime
  <1>1. IInv => OneActionAtATime
    <2> SUFFICES ASSUME IInv PROVE OneActionAtATime
      OBVIOUS
    <2>1. ASSUME NEW w \in Windows, NEW o \in Operators, NEW p \in Operators,
                 proposals[o][w] # NoProposal, proposals[p][w] # NoProposal
          PROVE  proposals[o][w] = proposals[p][w] /\ proposals[getLeader(w)][w] # NoProposal
      BY <2>1 DEF IInv, ProcedureInv
    <2>2. ASSUME NEW o \in Operators
          PROVE  /\ Cardinality(actions[o]) <= 1
                 /\ \A a \in actions[o] : proposals[getLeader(a[1])][a[1]] = a[2]
      <3>1. CASE actions[o] = {}
        BY <3>1, FS_EmptySet
      <3>2. CASE actions[o] # {}
        <4>1. PICK w \in Windows : actions[o] = {<<w, proposals[getLeader(w)][w]>>}
          BY <3>2 DEF IInv, ActionInv
        <4>2. Cardinality(actions[o]) = 1
          BY <4>1, FS_Singleton, Zenon
        <4> QED
          BY <4>1, <4>2
      <3> QED
        BY <3>1, <3>2
    <2> QED
      BY <2>1, <2>2 DEF OneActionAtATime
  <1> QED
    BY <1>1, InductiveInvariant, PTL

(***************************************************************************)
(* No follower ever blames a leader for a proposal that is not allowed.    *)
(***************************************************************************)
THEOREM LeadersMakeNoMistakes == Spec => []NoLeaderMistakes
  <1>1. IInv => NoLeaderMistakes
    BY DEF IInv
  <1> QED
    BY <1>1, InductiveInvariant, PTL

=============================================================================
