----------------------------- MODULE BeaconDkg -----------------------------
(***************************************************************************)
(* The BeaconDkg library (random-beacon/contracts/libraries/BeaconDkg.sol):*)
(* creation of a beacon group. Unlike EcdsaDkg it reserves offchainDkgTime *)
(* blocks for key generation before a result can be submitted, and whether *)
(* that time is over is read from the block number, not from storage.      *)
(*                                                                         *)
(* The keys of results are the keys of Groups. A member list stands for    *)
(* the seed with which the sortition pool selects it.                      *)
(***************************************************************************)
EXTENDS Groups

CONSTANTS
    Operators,          \* operators of the sortition pool
    DkgParameters,      \* parameter sets the governance may install
    offchainDkgTime     \* blocks reserved for key generation

ValidDkgParameters(p) ==
    /\ p.resultChallengePeriodLength > 0
    /\ p.resultSubmissionTimeout > 0
    /\ p.submitterPrecedencePeriodLength < p.resultSubmissionTimeout

DkgParametersType ==
    [resultChallengePeriodLength : Nat,
     resultSubmissionTimeout : Nat,
     submitterPrecedencePeriodLength : Nat]

ASSUME DkgAssumption ==
    /\ None \notin Members
    /\ offchainDkgTime \in Nat
    /\ DkgParameters \subseteq DkgParametersType

(* A result, abstracted as in EcdsaDkg.                                    *)
DkgResult ==
    [submitter : Operators, groupPubKey : GroupKeys, members : Members,
     wellFormed : BOOLEAN]

ASSUME NoneIsNoDkgResult == None \notin DkgResult

VARIABLES
    locked,                 \* SortitionPool.isLocked()
    startBlock,
    seed,
    resultSubmissionStartBlockOffset,
    submittedResult,        \* the result behind submittedResultHash, or None
    submittedResultBlock,
    dkgParameters

resultVars == <<submittedResult, submittedResultBlock>>
dkgVars == <<locked, startBlock, seed, resultSubmissionStartBlockOffset, resultVars>>

DkgTypeOK ==
    /\ locked \in BOOLEAN
    /\ startBlock \in Nat
    /\ seed \in Members \cup {None}
    /\ resultSubmissionStartBlockOffset \in Nat
    /\ submittedResult \in DkgResult \cup {None}
    /\ submittedResultBlock \in Nat
    /\ dkgParameters \in DkgParameters

DkgInit ==
    /\ locked = FALSE
    /\ startBlock = 0
    /\ seed = None
    /\ resultSubmissionStartBlockOffset = 0
    /\ submittedResult = None
    /\ submittedResultBlock = 0
    /\ dkgParameters \in {p \in DkgParameters : ValidDkgParameters(p)}

currentState ==
    IF ~locked THEN "IDLE"
    ELSE IF startBlock = 0 THEN "AWAITING_SEED"
    ELSE IF block <= startBlock + offchainDkgTime THEN "KEY_GENERATION"
    ELSE IF submittedResultBlock = 0 THEN "AWAITING_RESULT"
    ELSE "CHALLENGE"

(* BeaconDkgValidator.validate against the seed of the running creation.   *)
validate(r) == r.wellFormed /\ r.members = seed

(* Mutant: the timeout ignores that a result is being challenged.          *)
hasDkgTimedOutInAnyStage ==
    /\ startBlock > 0
    /\ block > startBlock + offchainDkgTime + resultSubmissionStartBlockOffset
                          + dkgParameters.resultSubmissionTimeout

hasDkgTimedOut ==
    /\ currentState = "AWAITING_RESULT"
    /\ block > startBlock + offchainDkgTime + resultSubmissionStartBlockOffset
                          + dkgParameters.resultSubmissionTimeout

challengePeriodEnd ==
    submittedResultBlock + dkgParameters.resultChallengePeriodLength

lockState ==
    /\ currentState = "IDLE"
    /\ locked' = TRUE
    /\ UNCHANGED <<startBlock, seed, resultSubmissionStartBlockOffset, resultVars>>

start(newSeed) ==
    /\ currentState = "AWAITING_SEED"
    /\ startBlock' = block
    /\ seed' = newSeed
    /\ UNCHANGED <<locked, resultSubmissionStartBlockOffset, resultVars>>

(* lockState followed by start in one transaction.                         *)
lockAndStart(newSeed) ==
    /\ currentState = "IDLE"
    /\ locked' = TRUE
    /\ startBlock' = block
    /\ seed' = newSeed
    /\ UNCHANGED <<resultSubmissionStartBlockOffset, resultVars>>

submitResult(caller, r) ==
    /\ currentState = "AWAITING_RESULT"
    /\ ~hasDkgTimedOut
    /\ caller = r.submitter
    /\ submittedResult' = r
    /\ submittedResultBlock' = block
    /\ UNCHANGED <<locked, startBlock, seed, resultSubmissionStartBlockOffset>>

submittedResultCleanup ==
    /\ submittedResult' = None
    /\ submittedResultBlock' = 0

(* Mutant: the offset survives the creation.                               *)
completeKeepingOffset ==
    /\ startBlock' = 0
    /\ seed' = None
    /\ submittedResultCleanup
    /\ locked' = FALSE
    /\ UNCHANGED resultSubmissionStartBlockOffset

complete ==
    /\ startBlock' = 0
    /\ seed' = None
    /\ resultSubmissionStartBlockOffset' = 0
    /\ submittedResultCleanup
    /\ locked' = FALSE

notifyTimeout == hasDkgTimedOut /\ complete

(* Mutant: the pool stays locked when no seed will come.                   *)
notifySeedTimedOutKeepingLock == currentState = "AWAITING_SEED" /\ UNCHANGED dkgVars

notifySeedTimedOut == currentState = "AWAITING_SEED" /\ complete

approveResult(caller, r) ==
    /\ currentState = "CHALLENGE"
    /\ block > challengePeriodEnd
    /\ r = submittedResult
    /\ \/ caller = r.submitter
       \/ block > challengePeriodEnd + dkgParameters.submitterPrecedencePeriodLength

challengeResult(r) ==
    /\ currentState = "CHALLENGE"
    /\ block <= challengePeriodEnd
    /\ r = submittedResult
    /\ ~validate(r)
    /\ resultSubmissionStartBlockOffset' = block - startBlock - offchainDkgTime
    /\ submittedResultCleanup
    /\ UNCHANGED <<locked, startBlock, seed>>

setParameters(p) ==
    /\ currentState = "IDLE"
    /\ ValidDkgParameters(p)
    /\ dkgParameters' = p
=============================================================================
