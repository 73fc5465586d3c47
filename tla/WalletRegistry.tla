--------------------------- MODULE WalletRegistry ---------------------------
(***************************************************************************)
(* WalletRegistry.sol: creation of ECDSA wallets on chain, the registry of *)
(* wallets (libraries/Wallets.sol) and inactivity claims. One action is    *)
(* one transaction; transactions of one block run in any order and the     *)
(* block number only changes in NewBlock.                                  *)
(*                                                                         *)
(* The random beacon is external here: it keeps at most one relay request  *)
(* in progress and later delivers an entry or gives up. An upgrade of the  *)
(* beacon installs a contract that was not used before.                    *)
(***************************************************************************)
EXTENDS EcdsaDkg, FiniteSets

CONSTANTS
    Outsider,    \* a caller that is not an operator
    MaxBlock,    \* bound on block numbers
    MaxNonce,    \* bound on inactivity claim nonces
    MaxBeacon    \* bound on beacon upgrades

ASSUME BoundsAssumption ==
    /\ MaxBlock \in Nat
    /\ MaxNonce \in Nat
    /\ MaxBeacon \in Nat \ {0}

VARIABLES
    wallets,                \* membersIdsHash of each wallet, None if absent
    inactivityClaimNonce,
    randomBeacon,           \* the beacon in use: the n-th one installed
    relayRequests,          \* requests in progress, at this or a past beacon
    (* History, read by no guard: *)
    seedRequestedAt,        \* block of the request that brought the seed
    windowStart,            \* block at which the submission window opened
    acceptedClaims          \* inactivity claims accepted so far

registryVars == <<wallets, inactivityClaimNonce>>
beaconVars == <<randomBeacon, relayRequests>>
history == <<seedRequestedAt, windowStart, acceptedClaims>>
vars == <<block, dkgVars, parameters, registryVars, beaconVars, history>>

Callers == Operators \cup {Outsider}
Requests == [beacon : 1..MaxBeacon, requestedAt : Nat]

isWalletRegistered(k) == wallets[k] # None

TypeOK ==
    /\ block \in Nat \ {0}
    /\ locked \in BOOLEAN
    /\ stateLockBlock \in Nat
    /\ startBlock \in Nat
    /\ seed \in Seeds \cup {None}
    /\ resultSubmissionStartBlockOffset \in Nat
    /\ submittedResult \in Result \cup {None}
    /\ submittedResultBlock \in Nat
    /\ parameters \in Parameters
    /\ wallets \in [Keys -> Seeds \cup {None}]
    /\ inactivityClaimNonce \in [Keys -> Nat]
    /\ randomBeacon \in 1..MaxBeacon
    /\ relayRequests \subseteq Requests
    /\ seedRequestedAt \in Nat
    /\ windowStart \in Nat
    /\ acceptedClaims \subseteq Keys \X Nat

Init ==
    /\ block = 1
    /\ DkgInit
    /\ parameters \in {p \in Parameters : ValidParameters(p)}
    /\ wallets = [k \in Keys |-> None]
    /\ inactivityClaimNonce = [k \in Keys |-> 0]
    /\ randomBeacon = 1
    /\ relayRequests = {}
    /\ seedRequestedAt = 0
    /\ windowStart = 0
    /\ acceptedClaims = {}

NewBlock ==
    /\ block < MaxBlock
    /\ block' = block + 1
    /\ UNCHANGED <<dkgVars, parameters, registryVars, beaconVars, history>>

(* The beacon refuses a second request while one is in progress.           *)
requestNewWallet ==
    /\ lockState
    /\ \A req \in relayRequests : req.beacon # randomBeacon
    /\ relayRequests' = relayRequests \cup
           {[beacon |-> randomBeacon, requestedAt |-> block]}
    /\ UNCHANGED <<block, parameters, registryVars, randomBeacon, history>>

(* Mutant: the callback does not check which beacon calls.                 *)
beaconCallbackFromAnyBeacon(req, entry) ==
    /\ start(entry)
    /\ relayRequests' = relayRequests \ {req}
    /\ seedRequestedAt' = req.requestedAt
    /\ windowStart' = block
    /\ UNCHANGED <<block, parameters, registryVars, randomBeacon, acceptedClaims>>

(* An entry for req is delivered and the callback is accepted.             *)
beaconCallback(req, entry) ==
    /\ req.beacon = randomBeacon
    /\ start(entry)
    /\ relayRequests' = relayRequests \ {req}
    /\ seedRequestedAt' = req.requestedAt
    /\ windowStart' = block
    /\ UNCHANGED <<block, parameters, registryVars, randomBeacon, acceptedClaims>>

(* The callback reverts, which the beacon tolerates, or the beacon gives   *)
(* the request up because it has no group left to serve it.                *)
requestEndsWithoutSeed(req) ==
    /\ relayRequests' = relayRequests \ {req}
    /\ UNCHANGED <<block, dkgVars, parameters, registryVars, randomBeacon, history>>

notifySeedTimeout ==
    /\ notifySeedTimeoutOfDkg
    /\ UNCHANGED <<block, parameters, registryVars, beaconVars, history>>

(* Mutant: the public key is not validated at submission.                  *)
submitDkgResultUnvalidated(caller, r) ==
    /\ submitResult(caller, r)
    /\ UNCHANGED <<block, parameters, registryVars, beaconVars, history>>

submitDkgResult(caller, r) ==
    /\ ~isWalletRegistered(r.groupPubKey)
    /\ submitResult(caller, r)
    /\ UNCHANGED <<block, parameters, registryVars, beaconVars, history>>

notifyDkgTimeout ==
    /\ notifyDkgTimeoutOfDkg
    /\ UNCHANGED <<block, parameters, registryVars, beaconVars, history>>

(* addWallet writes the entry of the key whatever it holds.                *)
approveDkgResult(caller, r) ==
    /\ approveResult(caller, r)
    /\ wallets' = [wallets EXCEPT ![r.groupPubKey] = r.members]
    /\ complete
    /\ UNCHANGED <<block, parameters, inactivityClaimNonce, beaconVars, history>>

challengeDkgResult(r) ==
    /\ challengeResult(r)
    /\ windowStart' = block
    /\ UNCHANGED <<block, parameters, registryVars, beaconVars, seedRequestedAt, acceptedClaims>>

(* The claim is signed by the members of the wallet for this nonce.        *)
notifyOperatorInactivity(k, nonce) ==
    /\ nonce = inactivityClaimNonce[k]
    /\ isWalletRegistered(k)
    /\ inactivityClaimNonce' = [inactivityClaimNonce EXCEPT ![k] = @ + 1]
    /\ acceptedClaims' = acceptedClaims \cup {<<k, nonce>>}
    /\ UNCHANGED <<block, dkgVars, parameters, wallets, beaconVars, seedRequestedAt, windowStart>>

(* Mutant: closing a wallet also clears its claim nonce.                   *)
closeWalletResettingNonce(k) ==
    /\ isWalletRegistered(k)
    /\ wallets' = [wallets EXCEPT ![k] = None]
    /\ inactivityClaimNonce' = [inactivityClaimNonce EXCEPT ![k] = 0]
    /\ UNCHANGED <<block, dkgVars, parameters, beaconVars, history>>

closeWallet(k) ==
    /\ isWalletRegistered(k)
    /\ wallets' = [wallets EXCEPT ![k] = None]
    /\ UNCHANGED <<block, dkgVars, parameters, inactivityClaimNonce, beaconVars, history>>

updateDkgParameters(p) ==
    /\ setParameters(p)
    /\ UNCHANGED <<block, dkgVars, registryVars, beaconVars, history>>

upgradeRandomBeacon ==
    /\ randomBeacon < MaxBeacon
    /\ randomBeacon' = randomBeacon + 1
    /\ UNCHANGED <<block, dkgVars, parameters, registryVars, relayRequests, history>>

Transaction ==
    \/ requestNewWallet
    \/ \E req \in relayRequests, entry \in Seeds : beaconCallback(req, entry)
    \/ \E req \in relayRequests : requestEndsWithoutSeed(req)
    \/ notifySeedTimeout
    \/ \E caller \in Operators, r \in Result : submitDkgResult(caller, r)
    \/ notifyDkgTimeout
    \/ \E caller \in Callers, r \in Result : approveDkgResult(caller, r)
    \/ \E r \in Result : challengeDkgResult(r)
    \/ \E k \in Keys, nonce \in 0..(MaxNonce - 1) : notifyOperatorInactivity(k, nonce)
    \/ \E k \in Keys : closeWallet(k)
    \/ \E p \in Parameters : updateDkgParameters(p)
    \/ upgradeRandomBeacon

Next == NewBlock \/ Transaction

Spec == Init /\ [][Next]_vars

(***************************************************************************)
(* Clients watch for submitted results and challenge an invalid one at     *)
(* once (executeDkgValidation in pkg/tbtc/dkg.go). At least one of them    *)
(* does so before the challenge period of the result is over: the last     *)
(* block of the period is not left while an invalid result is pending.     *)
(***************************************************************************)
NewBlockWatched ==
    /\ ~ /\ currentState = "CHALLENGE"
         /\ block = challengePeriodEnd
         /\ ~validate(submittedResult)
    /\ NewBlock

SpecWatched == Init /\ [][NewBlockWatched \/ Transaction]_vars

(* Blocks are mined; a result is approved by a member's client or by       *)
(* anyone after the precedence period; timeouts are notified by anyone,    *)
(* who is refunded for it.                                                 *)
Fairness ==
    /\ WF_vars(NewBlock)
    /\ WF_vars(notifySeedTimeout)
    /\ WF_vars(notifyDkgTimeout)
    /\ WF_vars(\E caller \in Callers, r \in Result : approveDkgResult(caller, r))

SpecFair == Spec /\ Fairness

-----------------------------------------------------------------------------
(* The stored data always belongs to the stage the creation is in: what a  *)
(* finished creation leaves behind (complete, submittedResultCleanup) can  *)
(* never be taken for data of the next one, and the blocks recorded for    *)
(* the lock, the start, the reopened submission window and the submission  *)
(* follow each other, so no block arithmetic of the library underflows.    *)
NoResidue ==
    /\ ~locked => startBlock = 0
    /\ IF startBlock = 0
       THEN /\ seed = None
            /\ resultSubmissionStartBlockOffset = 0
            /\ submittedResultBlock = 0
       ELSE /\ seed # None
            /\ stateLockBlock <= startBlock
    /\ startBlock + resultSubmissionStartBlockOffset <= block
    /\ IF submittedResultBlock = 0
       THEN submittedResult = None
       ELSE /\ submittedResult # None
            /\ startBlock + resultSubmissionStartBlockOffset <= submittedResultBlock
            /\ submittedResultBlock <= block
    /\ stateLockBlock <= block

(* The key of a submitted result belongs to no registered wallet, so that  *)
(* addWallet, which writes unconditionally at approval, never overwrites a *)
(* wallet, although the key is only validated at submission, a challenge   *)
(* period earlier.                                                         *)
SubmittedKeyIsFree ==
    submittedResult # None => ~isWalletRegistered(submittedResult.groupPubKey)

(* The seed of a creation answers the relay request made by the very       *)
(* requestNewWallet that locked the pool: a late entry for a request of a  *)
(* creation that timed out, or an entry of a replaced beacon, never starts *)
(* a later creation.                                                       *)
SeedIsFresh == startBlock > 0 => seedRequestedAt = stateLockBlock

(* A creation that awaits a result is given up only after a submission     *)
(* window of full length since its start or since the last challenge.      *)
WindowIsNeverCutShort ==
    [][currentState = "AWAITING_RESULT" /\ currentState' = "IDLE"
         => block > windowStart + parameters.resultSubmissionTimeout]_vars

(* No inactivity claim takes effect twice, even when its wallet was closed *)
(* and another wallet was created with the same key in between: every step *)
(* that consumes a nonce accepts a claim that was never accepted before.   *)
ClaimAcceptedOnce ==
    [][inactivityClaimNonce' # inactivityClaimNonce
         => acceptedClaims' # acceptedClaims]_vars

(* With a watching client, every wallet that gets registered comes from a  *)
(* result that is valid for the seed of its own creation: there is no      *)
(* block at which a result can be approved and could not be challenged     *)
(* before.                                                                 *)
OnlyValidWallets ==
    [][\A k \in Keys : ~isWalletRegistered(k) /\ isWalletRegistered(k)'
         => validate(submittedResult) /\ wallets'[k] = seed]_vars

(* What the wallet registry promises about the creation of wallets.        *)
Wallet == [groupPubKey : Keys, members : Seeds]

walletOf(r) == [groupPubKey |-> r.groupPubKey, members |-> r.members]

Lifecycle == INSTANCE DkgLifecycle WITH
    Result <- Wallet,
    StartsAtOnce <- FALSE,
    stage <- currentState,
    candidate <- IF submittedResult = None THEN None ELSE walletOf(submittedResult),
    registered <- {[groupPubKey |-> k, members |-> wallets[k]] :
                      k \in {key \in Keys : isWalletRegistered(key)}}

(* The contract implements the abstract life cycle of a group creation.    *)
ImplementsLifecycle == Lifecycle!Spec

(* No stage lasts forever. A creation that waits for a seed stops doing so *)
(* and a submission window that was opened ends with the approval of a     *)
(* result, with a timeout, or with a challenge that opens the next one.    *)
(* Both are stated for stages whose deadlines fall within the bound.       *)
EveryStageEnds ==
    /\ (currentState = "AWAITING_SEED" /\ stateLockBlock + parameters.seedTimeout < MaxBlock)
           ~> (currentState # "AWAITING_SEED")
    /\ \A b \in 1..MaxBlock :
          (/\ startBlock > 0
           /\ windowStart = b
           /\ b + parameters.resultSubmissionTimeout
                 + parameters.resultChallengePeriodLength
                 + parameters.submitterPrecedencePeriodLength < MaxBlock)
             ~> (startBlock = 0 \/ windowStart # b)
=============================================================================
