----------------------------- MODULE Inactivity -----------------------------
(***************************************************************************)
(* Heartbeats of one wallet and the inactivity claims that follow when     *)
(* too few members take part in them: heartbeatAction and its failure      *)
(* counter (pkg/tbtc/heartbeat.go), the claim executor and submitter       *)
(* (pkg/tbtc/inactivity.go), the claim protocol (pkg/protocol/inactivity)  *)
(* and WalletRegistry.notifyOperatorInactivity with                        *)
(* EcdsaInactivity.verifyClaim.                                            *)
(*                                                                         *)
(* A node holds one member. The heartbeats of a wallet follow each other:  *)
(* each has its session, and a node has left one before the next begins.   *)
(* The signing of the heartbeat is external: it gives every node an        *)
(* activity report of its own, or an error.                                *)
(***************************************************************************)
EXTENDS Naturals, FiniteSets

CONSTANTS
    Members,            \* members of the wallet's signing group
    HonestThreshold,
    FailureThreshold,   \* heartbeatConsecutiveFailureThreshold
    MinimumActive,      \* heartbeatSigningMinimumActiveMembers
    InactiveSets,       \* sets of members a report may call inactive
    None,
    MaxSessions         \* bound on heartbeats

ASSUME InactivityAssumption ==
    /\ IsFiniteSet(Members)
    /\ HonestThreshold \in 1..Cardinality(Members)
    /\ 2 * HonestThreshold > Cardinality(Members)
    /\ FailureThreshold \in Nat \ {0}
    /\ MinimumActive \in 1..Cardinality(Members)
    /\ InactiveSets \subseteq SUBSET Members
    /\ MaxSessions \in Nat \ {0}

Claims == [nonce : Nat, inactive : InactiveSets]

ASSUME NoneIsNoClaim == None \notin Claims

VARIABLES
    session,        \* number of the heartbeat in progress
    pc,             \* where the heartbeat action of a node is
    counter,        \* consecutive heartbeat inactivity failures of a node
    signature,      \* the claim a member has signed in this session
    supporters,     \* the signatures a member submits with its claim
    nonce,          \* inactivityClaimNonce of the wallet
    registered,     \* whether the wallet is registered
    (* History, read by no guard: *)
    report,         \* the inactive members a node saw in this session
    failures,       \* failed heartbeats a node saw since the last good one
    accepted,       \* claims the contract accepted in this session
    disturbed       \* a claim of this session was cancelled from outside

chainVars == <<nonce, registered>>
reports == <<report, failures>>
claimVars == <<session, pc, counter, signature, supporters, chainVars, reports, accepted, disturbed>>

Accepted == [claim : Claims, signers : SUBSET Members]

ClaimTypeOK ==
    /\ session \in Nat
    /\ pc \in [Members -> {"heartbeat", "signing", "queued", "done"}]
    /\ counter \in [Members -> Nat]
    /\ signature \in [Members -> Claims \cup {None}]
    /\ supporters \in [Members -> SUBSET Members]
    /\ nonce \in Nat
    /\ registered \in BOOLEAN
    /\ report \in [Members -> InactiveSets \cup {None}]
    /\ failures \in [Members -> Nat]
    /\ accepted \subseteq Accepted
    /\ disturbed \in BOOLEAN

ClaimInit ==
    /\ session = 1
    /\ pc = [m \in Members |-> "heartbeat"]
    /\ counter = [m \in Members |-> 0]
    /\ signature = [m \in Members |-> None]
    /\ supporters = [m \in Members |-> {}]
    /\ nonce = 0
    /\ registered = TRUE
    /\ report = [m \in Members |-> None]
    /\ failures = [m \in Members |-> 0]
    /\ accepted = {}
    /\ disturbed = FALSE
-----------------------------------------------------------------------------
goto(m, step) == pc' = [pc EXCEPT ![m] = step]

enoughActive(inactive) == Cardinality(Members \ inactive) >= MinimumActive

record(m, inactive) ==
    /\ report' = [report EXCEPT ![m] = inactive]
    /\ failures' = [failures EXCEPT ![m] = IF enoughActive(inactive) THEN 0 ELSE @ + 1]

(* The operator is unstaking, the proposal is not valid or the signing     *)
(* failed: neither a success nor a failure.                                *)
quit(m) ==
    /\ pc[m] = "heartbeat"
    /\ goto(m, "done")
    /\ UNCHANGED <<session, counter, signature, supporters, chainVars, reports, accepted, disturbed>>

(* A claim with the nonce of now is signed and broadcast.                  *)
claimInactivity(m, inactive) ==
    /\ signature' = [signature EXCEPT ![m] = [nonce |-> nonce, inactive |-> inactive]]
    /\ goto(m, "signing")

(* Mutant: a heartbeat with enough members leaves the counter as it is.    *)
executeWithoutReset(m, inactive) ==
    /\ pc[m] = "heartbeat"
    /\ record(m, inactive)
    /\ IF enoughActive(inactive)
       THEN goto(m, "done") /\ UNCHANGED <<counter, signature>>
       ELSE /\ counter' = [counter EXCEPT ![m] = @ + 1]
            /\ IF counter'[m] < FailureThreshold
               THEN goto(m, "done") /\ UNCHANGED signature
               ELSE claimInactivity(m, inactive)
    /\ UNCHANGED <<session, supporters, chainVars, accepted, disturbed>>

(* The heartbeat was signed.                                               *)
execute(m, inactive) ==
    /\ pc[m] = "heartbeat"
    /\ record(m, inactive)
    /\ IF enoughActive(inactive)
       THEN /\ counter' = [counter EXCEPT ![m] = 0]
            /\ goto(m, "done")
            /\ UNCHANGED signature
       ELSE /\ counter' = [counter EXCEPT ![m] = @ + 1]
            /\ IF counter'[m] < FailureThreshold
               THEN goto(m, "done") /\ UNCHANGED signature
               ELSE claimInactivity(m, inactive)
    /\ UNCHANGED <<session, supporters, chainVars, accepted, disturbed>>

signersOf(claim) == {m \in Members : signature[m] = claim}

(* Only signatures of the member's own claim are kept.                     *)
verifyInactivityClaimSignatures(m, received) ==
    (received \cap signersOf(signature[m])) \cup {m}

(* Mutant: the member gives up when the nonce is still that of its claim.  *)
alreadySubmittedOffByOne(m) == nonce >= signature[m].nonce

(* Somebody ahead in the queue submitted the claim.                        *)
alreadySubmitted(m) == nonce > signature[m].nonce

(* Enough signatures have arrived, of whatever claim; what they support is *)
(* looked at once. The claim is queued unless the nonce has been used.     *)
collect(m) ==
    /\ pc[m] = "signing"
    /\ \E received \in SUBSET ({s \in Members : signature[s] # None} \ {m}) :
          LET valid == verifyInactivityClaimSignatures(m, received) IN
          /\ Cardinality(received) >= HonestThreshold - 1
          /\ IF Cardinality(valid) >= HonestThreshold /\ ~alreadySubmitted(m)
             THEN supporters' = [supporters EXCEPT ![m] = valid] /\ goto(m, "queued")
             ELSE goto(m, "done") /\ UNCHANGED supporters
    /\ UNCHANGED <<session, counter, signature, chainVars, reports, accepted, disturbed>>

(* Mutant: the contract accepts a nonce that was used.                     *)
verifyClaimWithOldNonce(claim, signers) ==
    /\ claim.nonce <= nonce
    /\ registered
    /\ claim.inactive # {}
    /\ Cardinality(signers) >= HonestThreshold
    /\ signers \subseteq signersOf(claim)

(* notifyOperatorInactivity and verifyClaim.                               *)
verifyClaim(claim, signers) ==
    /\ claim.nonce = nonce
    /\ registered
    /\ claim.inactive # {}
    /\ Cardinality(signers) >= HonestThreshold
    /\ signers \subseteq signersOf(claim)

(* The member's turn has come: its transaction is accepted or reverts.     *)
submit(m) ==
    LET claim == signature[m] IN
    /\ pc[m] = "queued"
    /\ goto(m, "done")
    /\ IF verifyClaim(claim, supporters[m])
       THEN /\ nonce' = nonce + 1
            /\ accepted' = accepted \cup
                   {[claim |-> claim, signers |-> supporters[m]]}
       ELSE UNCHANGED <<nonce, accepted>>
    /\ UNCHANGED <<session, counter, signature, supporters, registered, reports, disturbed>>

(* The claim is over for the member: an InactivityClaimed event arrived,   *)
(* which may be one of another wallet, or the heartbeat expired.           *)
cancel(m) ==
    /\ pc[m] \in {"signing", "queued"}
    /\ goto(m, "done")
    /\ disturbed' = (disturbed \/ accepted = {})
    /\ UNCHANGED <<session, counter, signature, supporters, chainVars, reports, accepted>>

(* The counter is kept in memory only.                                     *)
restart(m) ==
    /\ \/ counter[m] # 0
       \/ pc[m] \in {"signing", "queued"}
    /\ counter' = [counter EXCEPT ![m] = 0]
    /\ goto(m, "done")
    /\ disturbed' = TRUE
    /\ UNCHANGED <<session, signature, supporters, chainVars, reports, accepted>>

nextHeartbeat ==
    /\ \A m \in Members : pc[m] = "done"
    /\ session < MaxSessions
    /\ session' = session + 1
    /\ pc' = [m \in Members |-> "heartbeat"]
    /\ signature' = [m \in Members |-> None]
    /\ supporters' = [m \in Members |-> {}]
    /\ report' = [m \in Members |-> None]
    /\ accepted' = {}
    /\ disturbed' = FALSE
    /\ UNCHANGED <<counter, chainVars, failures>>

closeWallet ==
    /\ registered
    /\ registered' = FALSE
    /\ UNCHANGED <<session, pc, counter, signature, supporters, nonce, reports, accepted, disturbed>>

ClaimNext ==
    \/ \E m \in Members :
          \/ quit(m) \/ collect(m) \/ submit(m) \/ cancel(m) \/ restart(m)
          \/ \E inactive \in InactiveSets : execute(m, inactive)
    \/ nextHeartbeat
    \/ closeWallet

ClaimSpec == ClaimInit /\ [][ClaimNext]_claimVars

-----------------------------------------------------------------------------
(* At most one claim is accepted for a heartbeat, although every member    *)
(* reads the nonce when its own signing ends, late ones after a claim was  *)
(* accepted, and may sign a claim with the next nonce.                     *)
OneClaimPerHeartbeat ==
    \A a, b \in accepted : a = b

(* A claim is accepted only if a quorum of members has seen                *)
(* FailureThreshold heartbeats fail since the last that did not, the one   *)
(* of this session with just the members inactive that the claim names,    *)
(* whatever errors and restarts there were in between.                     *)
EveryClaimIsEarned ==
    \A a \in accepted :
        /\ Cardinality(a.signers) >= HonestThreshold
        /\ \A m \in a.signers :
              /\ report[m] = a.claim.inactive
              /\ failures[m] >= FailureThreshold

(* When a quorum of members claims, all of them the same, the claim goes   *)
(* through before the members are done: nobody gives up because another    *)
(* member seems to be ahead, and no signature comes too late, unless an    *)
(* event of another wallet, the expiry of the heartbeat or a restart       *)
(* cancels a member, or the wallet is closed.                              *)
AgreedClaimGoesThrough ==
    \A claim \in {signature[m] : m \in Members} \ {None} :
        /\ \A m \in Members : pc[m] = "done" /\ signature[m] \in {claim, None}
        /\ Cardinality(signersOf(claim)) >= HonestThreshold
        /\ ~disturbed
        /\ registered
        => nonce > claim.nonce
=============================================================================
