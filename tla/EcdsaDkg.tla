------------------------------ MODULE EcdsaDkg ------------------------------
(***************************************************************************)
(* The EcdsaDkg library (solidity/ecdsa/contracts/libraries/EcdsaDkg.sol): *)
(* the storage of a group creation and the operations that change it. Each *)
(* operator below is the body of one library function, its require()s as   *)
(* conjuncts; WalletRegistry composes them into transactions.              *)
(*                                                                         *)
(* The sortition pool is external: only its lock is kept here, because the *)
(* library derives the state of the creation from it.                      *)
(***************************************************************************)
EXTENDS Naturals

CONSTANTS
    Operators,   \* operators of the sortition pool
    Keys,        \* group public keys; a key also stands for its wallet ID
    Seeds,       \* relay entries; a seed also stands for the group the pool
                 \* selects with it
    Parameters,  \* parameter sets the governance may install
    None         \* the cleared value of a seed or of a submitted result

ASSUME NoneAssumption == None \notin Seeds

(* Parameters accepted by the setters.                                     *)
ValidParameters(p) ==
    /\ p.seedTimeout > 0
    /\ p.resultChallengePeriodLength > 0
    /\ p.resultSubmissionTimeout > 0
    /\ p.submitterPrecedencePeriodLength < p.resultSubmissionTimeout

ParametersType ==
    [seedTimeout : Nat,
     resultChallengePeriodLength : Nat,
     resultSubmissionTimeout : Nat,
     submitterPrecedencePeriodLength : Nat]

ASSUME ParametersAssumption == Parameters \subseteq ParametersType

(* A DKG result, abstracted to what the contract tells apart: the operator *)
(* behind the submitter's member index, the key, the group its member list *)
(* (and members hash) names, and whether everything else the validator     *)
(* looks at (lengths, signatures, misbehaved indices) is in order.         *)
Result ==
    [submitter : Operators, groupPubKey : Keys, members : Seeds,
     wellFormed : BOOLEAN]

ASSUME NoneIsNoResult == None \notin Result

VARIABLES
    block,                  \* block.number
    locked,                 \* SortitionPool.isLocked()
    stateLockBlock,
    startBlock,
    seed,
    resultSubmissionStartBlockOffset,
    submittedResult,        \* the result behind submittedResultHash, or None
    submittedResultBlock,
    parameters

resultVars == <<submittedResult, submittedResultBlock>>
dkgVars == <<locked, stateLockBlock, startBlock, seed,
             resultSubmissionStartBlockOffset, resultVars>>

currentState ==
    IF ~locked THEN "IDLE"
    ELSE IF startBlock = 0 THEN "AWAITING_SEED"
    ELSE IF submittedResultBlock = 0 THEN "AWAITING_RESULT"
    ELSE "CHALLENGE"

(* EcdsaDkgValidator.validate against the seed of the running creation.    *)
validate(r) == r.wellFormed /\ r.members = seed

DkgInit ==
    /\ locked = FALSE
    /\ stateLockBlock = 0
    /\ startBlock = 0
    /\ seed = None
    /\ resultSubmissionStartBlockOffset = 0
    /\ submittedResult = None
    /\ submittedResultBlock = 0

hasSeedTimedOut ==
    /\ currentState = "AWAITING_SEED"
    /\ block > stateLockBlock + parameters.seedTimeout

(* Mutant: the timeout ignores that a result is being challenged.          *)
hasDkgTimedOutInAnyStage ==
    /\ startBlock > 0
    /\ block > startBlock + resultSubmissionStartBlockOffset
                          + parameters.resultSubmissionTimeout

(* Mutant: once a result was challenged there is no timeout any more.      *)
hasDkgTimedOutUnchallenged ==
    /\ currentState = "AWAITING_RESULT"
    /\ resultSubmissionStartBlockOffset = 0
    /\ block > startBlock + parameters.resultSubmissionTimeout

hasDkgTimedOut ==
    /\ currentState = "AWAITING_RESULT"
    /\ block > startBlock + resultSubmissionStartBlockOffset
                          + parameters.resultSubmissionTimeout

challengePeriodEnd ==
    submittedResultBlock + parameters.resultChallengePeriodLength

lockState ==
    /\ currentState = "IDLE"
    /\ locked' = TRUE
    /\ stateLockBlock' = block
    /\ UNCHANGED <<startBlock, seed, resultSubmissionStartBlockOffset, resultVars>>

start(newSeed) ==
    /\ currentState = "AWAITING_SEED"
    /\ startBlock' = block
    /\ seed' = newSeed
    /\ UNCHANGED <<locked, stateLockBlock, resultSubmissionStartBlockOffset, resultVars>>

submitResult(caller, r) ==
    /\ currentState = "AWAITING_RESULT"
    /\ ~hasDkgTimedOut
    /\ caller = r.submitter
    /\ submittedResult' = r
    /\ submittedResultBlock' = block
    /\ UNCHANGED <<locked, stateLockBlock, startBlock, seed, resultSubmissionStartBlockOffset>>

submittedResultCleanup ==
    /\ submittedResult' = None
    /\ submittedResultBlock' = 0

(* Mutant: complete keeps the offset.                                      *)
completeKeepingOffset ==
    /\ startBlock' = 0
    /\ seed' = None
    /\ submittedResultCleanup
    /\ locked' = FALSE
    /\ UNCHANGED <<stateLockBlock, resultSubmissionStartBlockOffset>>

complete ==
    /\ startBlock' = 0
    /\ seed' = None
    /\ resultSubmissionStartBlockOffset' = 0
    /\ submittedResultCleanup
    /\ locked' = FALSE
    /\ UNCHANGED stateLockBlock

notifySeedTimeoutOfDkg == hasSeedTimedOut /\ complete

notifyDkgTimeoutOfDkg == hasDkgTimedOut /\ complete

(* approveResult only checks; the caller completes the creation.           *)
approveResult(caller, r) ==
    /\ currentState = "CHALLENGE"
    /\ block > challengePeriodEnd
    /\ r = submittedResult
    /\ \/ caller = r.submitter
       \/ block > challengePeriodEnd + parameters.submitterPrecedencePeriodLength

(* Mutant: a challenge does not restart the submission window.             *)
challengeResultSameWindow(r) ==
    /\ currentState = "CHALLENGE"
    /\ block <= challengePeriodEnd
    /\ r = submittedResult
    /\ ~validate(r)
    /\ submittedResultCleanup
    /\ UNCHANGED <<locked, stateLockBlock, startBlock, seed, resultSubmissionStartBlockOffset>>

challengeResult(r) ==
    /\ currentState = "CHALLENGE"
    /\ block <= challengePeriodEnd
    /\ r = submittedResult
    /\ ~validate(r)
    /\ resultSubmissionStartBlockOffset' = block - startBlock
    /\ submittedResultCleanup
    /\ UNCHANGED <<locked, stateLockBlock, startBlock, seed>>

setParameters(p) ==
    /\ currentState = "IDLE"
    /\ ValidParameters(p)
    /\ parameters' = p
=============================================================================
