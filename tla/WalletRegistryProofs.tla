------------------------ MODULE WalletRegistryProofs ------------------------
(***************************************************************************)
(* Proofs about WalletRegistry, for any operators, keys, seeds, parameters *)
(* and bounds.                                                             *)
(***************************************************************************)
EXTENDS WalletRegistry, TLAPS

(* The state of a creation in terms of the fields it is derived from.      *)
LEMMA StageCases ==
    ASSUME TypeOK
    PROVE  /\ currentState = "IDLE" <=> ~locked
           /\ currentState = "AWAITING_SEED" <=> locked /\ startBlock = 0
           /\ currentState = "AWAITING_RESULT"
                <=> locked /\ startBlock > 0 /\ submittedResultBlock = 0
           /\ currentState = "CHALLENGE"
                <=> locked /\ startBlock > 0 /\ submittedResultBlock > 0
  BY DEF TypeOK, currentState

(* What complete leaves behind.                                            *)
LEMMA CompleteCleans ==
    ASSUME complete
    PROVE  /\ ~locked' /\ locked' \in BOOLEAN
           /\ startBlock' = 0
           /\ seed' = None
           /\ resultSubmissionStartBlockOffset' = 0
           /\ submittedResult' = None
           /\ submittedResultBlock' = 0
           /\ stateLockBlock' = stateLockBlock
  BY Zenon DEF complete, submittedResultCleanup

(***************************************************************************)
(* Type correctness and NoResidue are inductive only together: that the    *)
(* offset computed by a challenge is a natural number rests on startBlock  *)
(* not being ahead of block.                                               *)
(***************************************************************************)
StageInv == TypeOK /\ NoResidue

(* Nothing is stored at the start.                                         *)
LEMMA InitStageInv == Init => StageInv
  <1> SUFFICES ASSUME Init PROVE StageInv
    OBVIOUS
  <1>1. ~locked /\ locked \in BOOLEAN
    BY Zenon DEF Init, DkgInit
  <1>2. /\ stateLockBlock = 0 /\ startBlock = 0 /\ seed = None
        /\ resultSubmissionStartBlockOffset = 0 /\ submittedResult = None
        /\ submittedResultBlock = 0
    BY DEF Init, DkgInit
  <1>3. TypeOK
    BY <1>1, <1>2, BoundsAssumption DEF Init, TypeOK
  <1>4. NoResidue
    BY <1>1, <1>2 DEF Init, NoResidue
  <1> QED
    BY <1>3, <1>4 DEF StageInv

(* Every transaction and every block keep types and stage.                 *)
LEMMA NextStageInv == StageInv /\ [Next]_vars => StageInv'
  <1> SUFFICES ASSUME StageInv, [Next]_vars
               PROVE  StageInv'
    OBVIOUS
  <1> USE NoneAssumption, NoneIsNoResult, BoundsAssumption, StageCases
      DEF StageInv, NoResidue, dkgVars, resultVars, registryVars, beaconVars, history
  <1>1. CASE NewBlock
    BY <1>1 DEF NewBlock, TypeOK
  <1>2. CASE requestNewWallet
    BY <1>2 DEF requestNewWallet, lockState, TypeOK, Requests
  <1>3. ASSUME NEW req \in relayRequests, NEW entry \in Seeds,
               beaconCallback(req, entry)
        PROVE  StageInv'
    BY <1>3 DEF beaconCallback, start, TypeOK, Requests
  <1>4. ASSUME NEW req \in relayRequests, requestEndsWithoutSeed(req)
        PROVE  StageInv'
    BY <1>4 DEF requestEndsWithoutSeed, TypeOK
  <1>5. CASE notifySeedTimeout
    BY <1>5, CompleteCleans DEF notifySeedTimeout, notifySeedTimeoutOfDkg, TypeOK
  <1>6. ASSUME NEW caller \in Operators, NEW r \in Result,
               submitDkgResult(caller, r)
        PROVE  StageInv'
    BY <1>6 DEF submitDkgResult, submitResult, TypeOK
  <1>7. CASE notifyDkgTimeout
    BY <1>7, CompleteCleans DEF notifyDkgTimeout, notifyDkgTimeoutOfDkg, TypeOK
  <1>8. ASSUME NEW caller \in Callers, NEW r \in Result,
               approveDkgResult(caller, r)
        PROVE  StageInv'
    <2>1. r.groupPubKey \in Keys /\ r.members \in Seeds
      BY DEF Result
    <2>2. wallets' \in [Keys -> Seeds \cup {None}]
      BY <1>8, <2>1 DEF approveDkgResult, TypeOK
    <2> QED
      BY <1>8, <2>2, CompleteCleans DEF approveDkgResult, TypeOK
  <1>9. ASSUME NEW r \in Result, challengeDkgResult(r)
        PROVE  StageInv'
    BY <1>9 DEF challengeDkgResult, challengeResult, submittedResultCleanup, TypeOK
  <1>10. ASSUME NEW k \in Keys, NEW nonce \in 0..(MaxNonce - 1),
                notifyOperatorInactivity(k, nonce)
         PROVE  StageInv'
    BY <1>10 DEF notifyOperatorInactivity, TypeOK
  <1>11. ASSUME NEW k \in Keys, closeWallet(k)
         PROVE  StageInv'
    BY <1>11 DEF closeWallet, TypeOK
  <1>12. ASSUME NEW p \in Parameters, updateDkgParameters(p)
         PROVE  StageInv'
    BY <1>12 DEF updateDkgParameters, setParameters, TypeOK
  <1>13. CASE upgradeRandomBeacon
    BY <1>13 DEF upgradeRandomBeacon, TypeOK
  <1>14. CASE UNCHANGED vars
    BY <1>14 DEF vars, TypeOK
  <1> QED
    BY <1>1, <1>2, <1>3, <1>4, <1>5, <1>6, <1>7, <1>8, <1>9, <1>10, <1>11,
       <1>12, <1>13, <1>14 DEF Next, Transaction

(* Every variable of the contract keeps its type; in particular no block   *)
(* arithmetic of the library leaves the natural numbers.                   *)
THEOREM TypeCorrect == Spec => []TypeOK
  BY InitStageInv, NextStageInv, PTL DEF Spec, StageInv

(* The stored data always belongs to the stage the creation is in.         *)
THEOREM StageDataConsistent == Spec => []NoResidue
  BY InitStageInv, NextStageInv, PTL DEF Spec, StageInv
-----------------------------------------------------------------------------
(* The cases of a step that matter to a submitted result: the actions that *)
(* change it, or the wallets, and all the others.                          *)
LEMMA ResultSteps ==
    ASSUME [Next]_vars
    PROVE  \/ \E caller \in Operators, r \in Result : submitDkgResult(caller, r)
           \/ \E caller \in Callers, r \in Result : approveDkgResult(caller, r)
           \/ \E r \in Result : challengeDkgResult(r)
           \/ \E k \in Keys : closeWallet(k)
           \/ complete /\ UNCHANGED wallets
           \/ UNCHANGED <<submittedResult, submittedResultBlock, wallets>>
  BY DEF Next, Transaction, vars, dkgVars, resultVars, registryVars, NewBlock,
         requestNewWallet, lockState, beaconCallback, start,
         requestEndsWithoutSeed, notifySeedTimeout, notifySeedTimeoutOfDkg,
         notifyDkgTimeout, notifyDkgTimeoutOfDkg, notifyOperatorInactivity,
         updateDkgParameters, upgradeRandomBeacon

(* Every step keeps the key of a submitted result free.                    *)
LEMMA NextSubmittedKeyIsFree ==
    StageInv /\ SubmittedKeyIsFree /\ [Next]_vars => SubmittedKeyIsFree'
  <1> SUFFICES ASSUME StageInv, SubmittedKeyIsFree, [Next]_vars
               PROVE  SubmittedKeyIsFree'
    OBVIOUS
  <1> USE DEF SubmittedKeyIsFree, isWalletRegistered
  <1>1. ASSUME NEW caller \in Operators, NEW r \in Result,
               submitDkgResult(caller, r)
        PROVE  SubmittedKeyIsFree'
    BY <1>1 DEF submitDkgResult, submitResult, registryVars
  <1>2. CASE complete
    BY <1>2, CompleteCleans
  <1>3. ASSUME NEW r \in Result, challengeDkgResult(r)
        PROVE  SubmittedKeyIsFree'
    BY <1>3 DEF challengeDkgResult, challengeResult, submittedResultCleanup
  <1>4. ASSUME NEW k \in Keys, closeWallet(k)
        PROVE  SubmittedKeyIsFree'
    <2>1. ASSUME submittedResult # None
          PROVE  submittedResult.groupPubKey \in Keys
      BY <2>1 DEF StageInv, TypeOK, Result
    <2> QED
      BY <1>4, <2>1 DEF closeWallet, dkgVars, resultVars, StageInv, TypeOK
  <1>5. CASE UNCHANGED <<submittedResult, submittedResultBlock, wallets>>
    BY <1>5
  <1> QED
    BY <1>1, <1>2, <1>3, <1>4, <1>5, ResultSteps DEF approveDkgResult

(* The key of a submitted result belongs to no registered wallet, whatever *)
(* happens between submitDkgResult and approveDkgResult: addWallet never   *)
(* overwrites a wallet.                                                    *)
THEOREM SubmittedKeyStaysFree == Spec => []SubmittedKeyIsFree
  <1>1. Init => SubmittedKeyIsFree
    BY DEF Init, DkgInit, SubmittedKeyIsFree
  <1> QED
    BY <1>1, InitStageInv, NextStageInv, NextSubmittedKeyIsFree, PTL DEF Spec

-----------------------------------------------------------------------------
(***************************************************************************)
(* SeedIsFresh needs to know which requests may still be answered: no      *)
(* request is at a beacon yet to come, and while the creation waits for a  *)
(* seed the one request at the beacon in use is the one that locked it.    *)
(***************************************************************************)
RequestsInv ==
    /\ \A req \in relayRequests : req.beacon <= randomBeacon
    /\ locked /\ startBlock = 0 =>
         \A req \in relayRequests :
             req.beacon = randomBeacon => req.requestedAt = stateLockBlock
    /\ SeedIsFresh

(* The cases of a step that matter to the seed.                            *)
LEMMA SeedSteps ==
    ASSUME [Next]_vars
    PROVE  \/ requestNewWallet
           \/ \E req \in relayRequests, entry \in Seeds : beaconCallback(req, entry)
           \/ \E req \in relayRequests : requestEndsWithoutSeed(req)
           \/ complete /\ UNCHANGED beaconVars
           \/ upgradeRandomBeacon
           \/ UNCHANGED <<locked, stateLockBlock, startBlock, beaconVars, seedRequestedAt>>
  BY DEF Next, Transaction, vars, dkgVars, beaconVars, history, NewBlock,
         notifySeedTimeout, notifySeedTimeoutOfDkg, submitDkgResult,
         submitResult, notifyDkgTimeout, notifyDkgTimeoutOfDkg,
         approveDkgResult, challengeDkgResult, challengeResult,
         notifyOperatorInactivity, closeWallet, updateDkgParameters

(* Every step keeps the requests at the beacons in order.                  *)
LEMMA NextRequestsInv == StageInv /\ RequestsInv /\ [Next]_vars => RequestsInv'
  <1> SUFFICES ASSUME StageInv, RequestsInv, [Next]_vars
               PROVE  RequestsInv'
    OBVIOUS
  <1> USE StageCases DEF StageInv, RequestsInv, SeedIsFresh
  <1>1. CASE requestNewWallet
    BY <1>1 DEF requestNewWallet, lockState, history, TypeOK, NoResidue
  <1>2. ASSUME NEW req \in relayRequests, NEW entry \in Seeds,
               beaconCallback(req, entry)
        PROVE  RequestsInv'
    BY <1>2 DEF beaconCallback, start, TypeOK
  <1>3. ASSUME NEW req \in relayRequests, requestEndsWithoutSeed(req)
        PROVE  RequestsInv'
    BY <1>3 DEF requestEndsWithoutSeed, dkgVars, history
  <1>4. CASE complete /\ UNCHANGED beaconVars
    BY <1>4, CompleteCleans DEF beaconVars
  <1>5. CASE upgradeRandomBeacon
    BY <1>5 DEF upgradeRandomBeacon, dkgVars, history, TypeOK, Requests
  <1>6. CASE UNCHANGED <<locked, stateLockBlock, startBlock, beaconVars, seedRequestedAt>>
    BY <1>6 DEF beaconVars
  <1> QED
    BY <1>1, <1>2, <1>3, <1>4, <1>5, <1>6, SeedSteps

(* The seed of a creation answers the request made when it was locked,     *)
(* however late entries arrive and however often the beacon is replaced.   *)
THEOREM SeedsAreFresh == Spec => []SeedIsFresh
  <1>1. Init => RequestsInv
    BY Zenon DEF Init, DkgInit, RequestsInv, SeedIsFresh
  <1> QED
    BY <1>1, InitStageInv, NextStageInv, NextRequestsInv, PTL DEF Spec, RequestsInv
-----------------------------------------------------------------------------
(* The submission window that is open began at the start of the creation   *)
(* or at the last challenge, and the contract's clock for it agrees.       *)
WindowInv == startBlock > 0 => windowStart = startBlock + resultSubmissionStartBlockOffset

(* Every step keeps the recorded opening of the window.                    *)
LEMMA NextWindowInv == StageInv /\ WindowInv /\ [Next]_vars => WindowInv'
  <1> SUFFICES ASSUME StageInv, WindowInv, [Next]_vars
               PROVE  WindowInv'
    OBVIOUS
  <1> USE StageCases DEF StageInv, WindowInv, TypeOK, NoResidue
  <1>1. CASE requestNewWallet
    BY <1>1 DEF requestNewWallet, lockState, history
  <1>2. ASSUME NEW req \in relayRequests, NEW entry \in Seeds,
               beaconCallback(req, entry)
        PROVE  WindowInv'
    BY <1>2 DEF beaconCallback, start
  <1>3. ASSUME NEW r \in Result, challengeDkgResult(r)
        PROVE  WindowInv'
    BY <1>3 DEF challengeDkgResult, challengeResult
  <1>4. CASE complete
    BY <1>4, CompleteCleans
  <1>5. CASE UNCHANGED <<startBlock, resultSubmissionStartBlockOffset, windowStart>>
    BY <1>5
  <1> QED
    BY <1>1, <1>2, <1>3, <1>4, <1>5
       DEF Next, Transaction, vars, dkgVars, history, NewBlock,
           requestEndsWithoutSeed, notifySeedTimeout, notifySeedTimeoutOfDkg,
           submitDkgResult, submitResult, notifyDkgTimeout,
           notifyDkgTimeoutOfDkg, approveDkgResult, notifyOperatorInactivity,
           closeWallet, updateDkgParameters, upgradeRandomBeacon

(* A creation that awaits a result ends without one only in                *)
(* notifyDkgTimeout, after a full window since the start or the last       *)
(* challenge.                                                              *)
LEMMA WindowStep ==
    ASSUME StageInv, StageInv', WindowInv, [Next]_vars,
           currentState = "AWAITING_RESULT", currentState' = "IDLE"
    PROVE  block > windowStart + parameters.resultSubmissionTimeout
  <1>1. locked /\ startBlock > 0 /\ submittedResultBlock = 0
    BY StageCases DEF StageInv
  <1>2. ~locked'
    BY DEF currentState
  <1>3. notifyDkgTimeout
    BY <1>1, <1>2, StageCases, Zenon
       DEF StageInv, Next, Transaction, vars, dkgVars, NewBlock,
           requestNewWallet, lockState, beaconCallback, start,
           requestEndsWithoutSeed, notifySeedTimeout, notifySeedTimeoutOfDkg,
           hasSeedTimedOut, submitDkgResult, submitResult, approveDkgResult,
           approveResult, challengeDkgResult, challengeResult,
           notifyOperatorInactivity, closeWallet, updateDkgParameters,
           upgradeRandomBeacon
  <1> QED
    BY <1>1, <1>3 DEF notifyDkgTimeout, notifyDkgTimeoutOfDkg, hasDkgTimedOut, WindowInv

(* Submission windows are never cut short, however many challenges there   *)
(* were.                                                                   *)
THEOREM WindowsAreFull == Spec => WindowIsNeverCutShort
  <1>1. Init => WindowInv
    BY DEF Init, DkgInit, WindowInv
  <1>2. StageInv /\ StageInv' /\ WindowInv /\ [Next]_vars
          => [currentState = "AWAITING_RESULT" /\ currentState' = "IDLE"
                => block > windowStart + parameters.resultSubmissionTimeout]_vars
    BY WindowStep
  <1> QED
    BY <1>1, <1>2, InitStageInv, NextStageInv, NextWindowInv, PTL
       DEF Spec, WindowIsNeverCutShort

-----------------------------------------------------------------------------
(* The nonce of a wallet is ahead of every claim accepted for its key.     *)
ClaimsInv == \A claim \in acceptedClaims : claim[2] < inactivityClaimNonce[claim[1]]

(* A step that uses up a nonce accepts a new claim.                        *)
LEMMA ClaimStep ==
    ASSUME StageInv, ClaimsInv, [Next]_vars
    PROVE  /\ ClaimsInv'
           /\ inactivityClaimNonce' # inactivityClaimNonce => acceptedClaims' # acceptedClaims
  <1>1. ASSUME NEW k \in Keys, NEW nonce \in 0..(MaxNonce - 1),
               notifyOperatorInactivity(k, nonce)
        PROVE  ClaimsInv' /\ acceptedClaims' # acceptedClaims
    <2>1. /\ inactivityClaimNonce \in [Keys -> Nat]
          /\ acceptedClaims \subseteq Keys \X Nat
          /\ nonce = inactivityClaimNonce[k]
          /\ inactivityClaimNonce' = [inactivityClaimNonce EXCEPT ![k] = @ + 1]
          /\ acceptedClaims' = acceptedClaims \cup {<<k, nonce>>}
      BY <1>1 DEF notifyOperatorInactivity, StageInv, TypeOK
    <2>2. <<k, nonce>> \notin acceptedClaims
      BY <2>1 DEF ClaimsInv
    <2>3. ASSUME NEW claim \in acceptedClaims'
          PROVE  claim[2] < inactivityClaimNonce'[claim[1]]
      BY <2>1, <2>3 DEF ClaimsInv
    <2> QED
      BY <2>1, <2>2, <2>3 DEF ClaimsInv
  <1>2. CASE UNCHANGED <<inactivityClaimNonce, acceptedClaims>>
    BY <1>2 DEF ClaimsInv
  <1> QED
    BY <1>1, <1>2
       DEF Next, Transaction, vars, registryVars, history, NewBlock,
           requestNewWallet, beaconCallback, requestEndsWithoutSeed,
           notifySeedTimeout, submitDkgResult, notifyDkgTimeout,
           approveDkgResult, challengeDkgResult, closeWallet,
           updateDkgParameters, upgradeRandomBeacon

(* No inactivity claim takes effect twice, across closures and re-creation *)
(* of wallets with the same key.                                           *)
THEOREM ClaimsAreAcceptedOnce == Spec => ClaimAcceptedOnce
  <1>1. Init => ClaimsInv
    BY DEF Init, ClaimsInv
  <1>2. StageInv /\ ClaimsInv /\ [Next]_vars
          => /\ ClaimsInv'
             /\ [inactivityClaimNonce' # inactivityClaimNonce
                   => acceptedClaims' # acceptedClaims]_vars
    BY ClaimStep
  <1> QED
    BY <1>1, <1>2, InitStageInv, NextStageInv, PTL DEF Spec, ClaimAcceptedOnce
-----------------------------------------------------------------------------
(* With a watching client an invalid result does not outlive its challenge *)
(* period.                                                                 *)
WatchedInv ==
    locked /\ startBlock > 0 /\ submittedResultBlock > 0 /\ ~validate(submittedResult)
        => block <= challengePeriodEnd

(* A watched step keeps invalid results within their period.               *)
LEMMA NextWatchedInv ==
    ASSUME StageInv, WatchedInv, [NewBlockWatched \/ Transaction]_vars
    PROVE  WatchedInv'
  <1> USE StageCases, ParametersAssumption
      DEF StageInv, TypeOK, NoResidue, WatchedInv, challengePeriodEnd, validate, ParametersType
  <1>1. CASE NewBlockWatched
    BY <1>1 DEF NewBlockWatched, NewBlock, dkgVars, resultVars
  <1>2. CASE requestNewWallet
    BY <1>2 DEF requestNewWallet, lockState, resultVars
  <1>3. ASSUME NEW req \in relayRequests, NEW entry \in Seeds,
               beaconCallback(req, entry)
        PROVE  WatchedInv'
    BY <1>3 DEF beaconCallback, start, resultVars
  <1>4. ASSUME NEW caller \in Operators, NEW r \in Result,
               submitDkgResult(caller, r)
        PROVE  WatchedInv'
    BY <1>4 DEF submitDkgResult, submitResult
  <1>5. ASSUME NEW r \in Result, challengeDkgResult(r)
        PROVE  WatchedInv'
    BY <1>5 DEF challengeDkgResult, challengeResult, submittedResultCleanup
  <1>6. ASSUME NEW p \in Parameters, updateDkgParameters(p)
        PROVE  WatchedInv'
    BY <1>6 DEF updateDkgParameters, setParameters, dkgVars, resultVars
  <1>7. CASE complete
    BY <1>7, CompleteCleans
  <1>8. CASE UNCHANGED <<block, dkgVars, parameters>>
    BY <1>8 DEF dkgVars, resultVars
  <1> QED
    BY <1>1, <1>2, <1>3, <1>4, <1>5, <1>6, <1>7, <1>8
       DEF Transaction, vars, requestEndsWithoutSeed, notifySeedTimeout,
           notifySeedTimeoutOfDkg, notifyDkgTimeout, notifyDkgTimeoutOfDkg,
           approveDkgResult, notifyOperatorInactivity, closeWallet,
           upgradeRandomBeacon

(* A step that registers a wallet does so from a valid result.             *)
LEMMA ValidWalletStep ==
    ASSUME StageInv, WatchedInv, [Next]_vars,
           NEW k \in Keys, ~isWalletRegistered(k), isWalletRegistered(k)'
    PROVE  validate(submittedResult) /\ wallets'[k] = seed
  <1>1. PICK caller \in Callers, r \in Result : approveDkgResult(caller, r)
    <2>1. ASSUME NEW j \in Keys, closeWallet(j)
          PROVE  FALSE
      BY <2>1 DEF closeWallet, isWalletRegistered, StageInv, TypeOK
    <2> QED
      BY <2>1, ResultSteps
         DEF isWalletRegistered, submitDkgResult, challengeDkgResult, registryVars
  <1>2. /\ locked /\ startBlock > 0 /\ submittedResultBlock > 0
        /\ block > challengePeriodEnd
        /\ r = submittedResult
    BY <1>1, StageCases DEF approveDkgResult, approveResult, StageInv
  <1>3. validate(submittedResult)
    BY <1>2, ParametersAssumption
       DEF WatchedInv, StageInv, TypeOK, challengePeriodEnd, ParametersType
  <1>4. wallets'[k] = r.members
    BY <1>1 DEF approveDkgResult, isWalletRegistered, StageInv, TypeOK, Result
  <1> QED
    BY <1>2, <1>3, <1>4 DEF validate

(* With one client that challenges in time, only results that are valid    *)
(* for the seed of their own creation become wallets.                      *)
THEOREM WatchedWalletsAreValid == SpecWatched => OnlyValidWallets
  <1>1. Init => WatchedInv
    BY DEF Init, DkgInit, WatchedInv
  <1>2. [NewBlockWatched \/ Transaction]_vars => [Next]_vars
    BY DEF NewBlockWatched, Next
  <1>3. StageInv /\ WatchedInv /\ [Next]_vars
          => [\A k \in Keys : ~isWalletRegistered(k) /\ isWalletRegistered(k)'
                => validate(submittedResult) /\ wallets'[k] = seed]_vars
    BY ValidWalletStep
  <1> QED
    BY <1>1, <1>2, <1>3, InitStageInv, NextStageInv, NextWatchedInv, PTL
       DEF SpecWatched, OnlyValidWallets

-----------------------------------------------------------------------------
(* The initial states are those of the life cycle.                         *)
LEMMA LifecycleInit == Init => Lifecycle!Init
  <1> SUFFICES ASSUME Init PROVE Lifecycle!Init
    OBVIOUS
  <1>1. ~locked
    BY Zenon DEF Init, DkgInit
  <1> QED
    BY <1>1 DEF Init, DkgInit, Lifecycle!Init, currentState, isWalletRegistered

(* Each action of the contract is one step of the life cycle, or none.     *)
LEMMA LifecycleStep ==
    ASSUME StageInv, StageInv', SubmittedKeyIsFree, [Next]_vars
    PROVE  [Lifecycle!Next]_(Lifecycle!vars)
  <1> USE StageCases DEF StageInv, TypeOK, NoResidue, currentState
  <1>1. CASE requestNewWallet
    <2>1. Lifecycle!Lock
      BY <1>1 DEF requestNewWallet, lockState, Lifecycle!Lock, resultVars,
                  registryVars, isWalletRegistered
    <2> QED
      BY <2>1 DEF Lifecycle!Next
  <1>2. ASSUME NEW req \in relayRequests, NEW entry \in Seeds,
               beaconCallback(req, entry)
        PROVE  Lifecycle!Next
    <2>1. Lifecycle!Start
      BY <1>2 DEF beaconCallback, start, Lifecycle!Start, resultVars,
                  registryVars, isWalletRegistered
    <2> QED
      BY <2>1 DEF Lifecycle!Next
  <1>3. CASE notifySeedTimeout \/ notifyDkgTimeout
    <2>1. Lifecycle!GiveUp
      BY <1>3, CompleteCleans
         DEF notifySeedTimeout, notifySeedTimeoutOfDkg, hasSeedTimedOut,
             notifyDkgTimeout, notifyDkgTimeoutOfDkg, hasDkgTimedOut,
             Lifecycle!GiveUp, registryVars, isWalletRegistered
    <2> QED
      BY <2>1 DEF Lifecycle!Next
  <1>4. ASSUME NEW caller \in Operators, NEW r \in Result,
               submitDkgResult(caller, r)
        PROVE  Lifecycle!Next
    <2>1. walletOf(r) \in Wallet
      BY DEF walletOf, Wallet, Result
    <2>2. Lifecycle!Submit
      BY <1>4, <2>1, NoneIsNoResult
         DEF submitDkgResult, submitResult, Lifecycle!Submit, registryVars,
             isWalletRegistered
    <2> QED
      BY <2>2 DEF Lifecycle!Next
  <1>5. ASSUME NEW caller \in Callers, NEW r \in Result,
               approveDkgResult(caller, r)
        PROVE  Lifecycle!Next
    <2> DEFINE w == walletOf(r)
               registered == {[groupPubKey |-> k, members |-> wallets[k]] :
                                 k \in {key \in Keys : isWalletRegistered(key)}}
    <2>1. r \in Result /\ r = submittedResult /\ r # None
      BY <1>5, NoneIsNoResult DEF approveDkgResult, approveResult
    <2>2. r.groupPubKey \in Keys /\ r.members \in Seeds /\ r.members # None
      BY NoneAssumption DEF Result
    <2>3. wallets' = [wallets EXCEPT ![r.groupPubKey] = r.members]
      BY <1>5 DEF approveDkgResult
    <2>4. ~isWalletRegistered(r.groupPubKey)
      BY <2>1 DEF SubmittedKeyIsFree
    <2>5. registered' = registered \cup {w}
      BY <2>2, <2>3, <2>4 DEF isWalletRegistered, walletOf
    <2>6. Lifecycle!Approve
      BY <1>5, <2>1, <2>5, CompleteCleans
         DEF approveDkgResult, approveResult, Lifecycle!Approve
    <2> QED
      BY <2>6 DEF Lifecycle!Next
  <1>6. ASSUME NEW r \in Result, challengeDkgResult(r)
        PROVE  Lifecycle!Next
    <2>1. Lifecycle!Challenge
      BY <1>6 DEF challengeDkgResult, challengeResult, submittedResultCleanup,
                  Lifecycle!Challenge, registryVars, isWalletRegistered
    <2> QED
      BY <2>1 DEF Lifecycle!Next
  <1>7. ASSUME NEW k \in Keys, closeWallet(k)
        PROVE  Lifecycle!Next
    <2>1. Lifecycle!Remove
      BY <1>7, Zenon DEF closeWallet, dkgVars, resultVars, Lifecycle!Remove, isWalletRegistered
    <2> QED
      BY <2>1, Zenon DEF Lifecycle!Next
  <1>8. CASE UNCHANGED <<dkgVars, wallets>>
    <2>1. UNCHANGED Lifecycle!vars
      BY <1>8, Zenon DEF dkgVars, resultVars, Lifecycle!vars, isWalletRegistered
    <2> QED
      BY <2>1, Zenon
  <1> QED
    BY <1>1, <1>2, <1>3, <1>4, <1>5, <1>6, <1>7, <1>8
       DEF Next, Transaction, vars, registryVars, NewBlock,
           requestEndsWithoutSeed, notifyOperatorInactivity,
           updateDkgParameters, upgradeRandomBeacon

(* The contract implements the abstract life cycle of a group creation; in *)
(* particular approval adds exactly the submitted candidate and disturbs   *)
(* no wallet that is registered.                                           *)
THEOREM RegistryImplementsLifecycle == Spec => ImplementsLifecycle
  <1>1. StageInv /\ StageInv' /\ SubmittedKeyIsFree /\ [Next]_vars
          => [Lifecycle!Next]_(Lifecycle!vars)
    BY LifecycleStep
  <1>2. Init => SubmittedKeyIsFree
    BY DEF Init, DkgInit, SubmittedKeyIsFree
  <1> QED
    BY <1>1, <1>2, LifecycleInit, InitStageInv, NextStageInv,
       NextSubmittedKeyIsFree, PTL
       DEF Spec, ImplementsLifecycle, Lifecycle!Spec
=============================================================================
