------------------------- MODULE RandomBeaconProofs -------------------------
(***************************************************************************)
(* Proofs about RandomBeacon, for any operators, keys, member lists,       *)
(* consumers, parameters and bounds.                                       *)
(***************************************************************************)
EXTENDS RandomBeacon, GroupsProofs

(* The types of what the proofs about group creations and requests read:   *)
(* everything but the arrays of terminated and expired groups and the      *)
(* group in charge, which those properties do not depend on.               *)
Types ==
    /\ block \in Nat \ {0}
    /\ groupsData \in [GroupKeys -> Group]
    /\ groupsRegistry \in Seq(GroupKeys)
    /\ requestCount \in Nat
    /\ currentRequestID \in Nat
    /\ DkgTypeOK
    /\ callbackContract \in Consumers \cup {None}
    /\ requestedFor \in Seq(Consumers \cup {None})

(* The state of a creation in terms of the fields it is derived from.      *)
LEMMA StageCases ==
    ASSUME Types
    PROVE  /\ currentState = "IDLE" <=> ~locked
           /\ currentState = "AWAITING_SEED" <=> locked /\ startBlock = 0
           /\ currentState = "KEY_GENERATION"
                <=> locked /\ startBlock > 0 /\ block <= startBlock + offchainDkgTime
           /\ currentState = "AWAITING_RESULT"
                <=> /\ locked /\ startBlock > 0 /\ submittedResultBlock = 0
                    /\ block > startBlock + offchainDkgTime
           /\ currentState = "CHALLENGE"
                <=> /\ locked /\ startBlock > 0 /\ submittedResultBlock > 0
                    /\ block > startBlock + offchainDkgTime
  BY DkgAssumption DEF Types, DkgTypeOK, currentState

(* What complete leaves behind.                                            *)
LEMMA CompleteCleans ==
    ASSUME complete
    PROVE  /\ ~locked' /\ locked' \in BOOLEAN
           /\ startBlock' = 0
           /\ seed' = None
           /\ resultSubmissionStartBlockOffset' = 0
           /\ submittedResult' = None
           /\ submittedResultBlock' = 0
  BY Zenon DEF complete, submittedResultCleanup

(***************************************************************************)
(* The steps of the contract, as the library for group creation sees them. *)
(***************************************************************************)
DkgStep ==
    \/ UNCHANGED <<block, dkgVars>>
    \/ mineBlock /\ UNCHANGED dkgVars
    \/ \E s \in Members : lockAndStart(s) /\ UNCHANGED block
    \/ lockState /\ isRequestInProgress' /\ UNCHANGED block
    \/ \E s \in Members : start(s) /\ UNCHANGED block
    \/ /\ complete /\ UNCHANGED block
       /\ \/ currentState \in {"AWAITING_SEED", "AWAITING_RESULT"}
          \/ \E caller \in Callers, r \in DkgResult : approveDkgResult(caller, r)
    \/ \E caller \in Operators, r \in DkgResult :
          submitResult(caller, r) /\ validatePublicKey(r.groupPubKey) /\ UNCHANGED block
    \/ \E r \in DkgResult : challengeResult(r) /\ UNCHANGED block

(* Every step of the beacon is one of these for the creation.              *)
LEMMA DkgSteps ==
    ASSUME Types, [Next]_vars
    PROVE  DkgStep
  <1> USE DEF DkgStep
  <1>1. CASE NewBlock
    BY <1>1, Zenon DEF NewBlock
  <1>2. ASSUME NEW s \in Members, genesis(s) PROVE DkgStep
    BY <1>2, Zenon DEF genesis
  <1>3. ASSUME NEW c \in Consumers \cup {None}, requestRelayEntry(c) PROVE DkgStep
    <2>1. isRequestInProgress' /\ block' = block
      BY <1>3 DEF requestRelayEntry, requestEntry, isRequestInProgress, Types
    <2> QED
      BY <1>3, <2>1, Zenon DEF requestRelayEntry
  <1>4. ASSUME NEW e \in Entries, submitRelayEntry(e) \/ submitRelayEntryAnyTime(e) PROVE DkgStep
    BY <1>4, BeaconAssumption, Zenon DEF submitRelayEntry, submitRelayEntryAnyTime, entryAccepted
  <1>5. CASE reportRelayEntryTimeout
    BY <1>5, Zenon DEF reportRelayEntryTimeout, notifySeedTimedOut
  <1>6. ASSUME NEW id \in GroupIds, reportUnauthorizedSigning(id) PROVE DkgStep
    BY <1>6, Zenon DEF reportUnauthorizedSigning
  <1>7. ASSUME NEW caller \in Operators, NEW r \in DkgResult, submitDkgResult(caller, r) PROVE DkgStep
    BY <1>7, Zenon DEF submitDkgResult
  <1>8. CASE notifyDkgTimeout
    BY <1>8, Zenon DEF notifyDkgTimeout, notifyTimeout, hasDkgTimedOut
  <1>9. ASSUME NEW caller \in Callers, NEW r \in DkgResult, approveDkgResult(caller, r) PROVE DkgStep
    <2>1. complete /\ UNCHANGED block
      BY <1>9, Zenon DEF approveDkgResult
    <2> QED
      BY <1>9, <2>1, Zenon
  <1>10. ASSUME NEW r \in DkgResult, challengeDkgResult(r) PROVE DkgStep
    BY <1>10, Zenon DEF challengeDkgResult
  <1>11. ASSUME NEW id \in GroupIds, NEW nonce \in 0..(MaxNonce - 1), notifyOperatorInactivity(id, nonce)
         PROVE  DkgStep
    BY <1>11, Zenon DEF notifyOperatorInactivity
  <1>12. ASSUME NEW t \in RelayTimeouts, updateRelayEntryParameters(t) PROVE DkgStep
    BY <1>12, Zenon DEF updateRelayEntryParameters
  <1>13. ASSUME NEW f \in Frequencies, NEW lifetime \in Lifetimes, NEW p \in DkgParameters,
                updateGroupCreationParameters(f, lifetime, p)
         PROVE  DkgStep
    BY <1>13, Zenon DEF updateGroupCreationParameters
  <1>14. CASE UNCHANGED vars
    BY <1>14, Zenon DEF vars
  <1> HIDE DEF DkgStep
  <1> QED
    BY <1>1, <1>2, <1>3, <1>4, <1>5, <1>6, <1>7, <1>8, <1>9, <1>10, <1>11, <1>12, <1>13, <1>14, Zenon
    DEF Next, Transaction

(***************************************************************************)
(* The types of the creation and NoResidue are inductive only together, as *)
(* in WalletRegistry. That a result in its challenge stage stays there as  *)
(* blocks are mined rests on its block being past key generation.          *)
(***************************************************************************)
LEMMA NoResidueStep ==
    ASSUME Types, NoResidue, DkgStep
    PROVE  /\ NoResidue'
           /\ block' \in Nat \ {0}
           /\ locked' \in BOOLEAN
           /\ startBlock' \in Nat
           /\ seed' \in Members \cup {None}
           /\ resultSubmissionStartBlockOffset' \in Nat
           /\ submittedResult' \in DkgResult \cup {None}
           /\ submittedResultBlock' \in Nat
  <1> USE DkgAssumption, NoneIsNoDkgResult, StageCases
      DEF Types, DkgTypeOK, NoResidue, dkgVars, resultVars
  <1>1. CASE UNCHANGED <<block, dkgVars>>
    BY <1>1, Zenon
  <1>2. CASE mineBlock /\ UNCHANGED dkgVars
    BY <1>2 DEF mineBlock
  <1>3. ASSUME NEW s \in Members, lockAndStart(s), UNCHANGED block
        PROVE  /\ NoResidue' /\ block' \in Nat \ {0} /\ locked' \in BOOLEAN /\ startBlock' \in Nat
               /\ seed' \in Members \cup {None} /\ resultSubmissionStartBlockOffset' \in Nat
               /\ submittedResult' \in DkgResult \cup {None} /\ submittedResultBlock' \in Nat
    BY <1>3 DEF lockAndStart
  <1>4. CASE lockState /\ UNCHANGED block
    BY <1>4, Zenon DEF lockState
  <1>5. ASSUME NEW s \in Members, start(s), UNCHANGED block
        PROVE  /\ NoResidue' /\ block' \in Nat \ {0} /\ locked' \in BOOLEAN /\ startBlock' \in Nat
               /\ seed' \in Members \cup {None} /\ resultSubmissionStartBlockOffset' \in Nat
               /\ submittedResult' \in DkgResult \cup {None} /\ submittedResultBlock' \in Nat
    BY <1>5 DEF start
  <1>6. CASE complete /\ UNCHANGED block
    BY <1>6, CompleteCleans
  <1>7. ASSUME NEW caller \in Operators, NEW r \in DkgResult, submitResult(caller, r), UNCHANGED block
        PROVE  /\ NoResidue' /\ block' \in Nat \ {0} /\ locked' \in BOOLEAN /\ startBlock' \in Nat
               /\ seed' \in Members \cup {None} /\ resultSubmissionStartBlockOffset' \in Nat
               /\ submittedResult' \in DkgResult \cup {None} /\ submittedResultBlock' \in Nat
    BY <1>7 DEF submitResult
  <1>8. ASSUME NEW r \in DkgResult, challengeResult(r), UNCHANGED block
        PROVE  /\ NoResidue' /\ block' \in Nat \ {0} /\ locked' \in BOOLEAN /\ startBlock' \in Nat
               /\ seed' \in Members \cup {None} /\ resultSubmissionStartBlockOffset' \in Nat
               /\ submittedResult' \in DkgResult \cup {None} /\ submittedResultBlock' \in Nat
    BY <1>8 DEF challengeResult, submittedResultCleanup
  <1> QED
    BY <1>1, <1>2, <1>3, <1>4, <1>5, <1>6, <1>7, <1>8, Zenon DEF DkgStep

(* markTerminated changes neither the registration nor the members of any  *)
(* group.                                                                  *)
LEMMA TerminationKeeps ==
    ASSUME Types, NEW id \in GroupIds, markTerminated(id)
    PROVE  /\ groupsData' \in [GroupKeys -> Group]
           /\ \A k \in GroupKeys :
                 /\ groupsData'[k].registrationBlockNumber = groupsData[k].registrationBlockNumber
                 /\ groupsData'[k].members = groupsData[k].members
  <1>1. groupsRegistry[id + 1] \in GroupKeys
    BY DEF GroupIds, Types
  <1> QED
    BY <1>1, Zenon DEF markTerminated, Types, Group

(* What addGroup does, for states that have their types.                   *)
LEMMA AddGroupSteps ==
    ASSUME Types, NEW k \in GroupKeys, NEW m \in Members, addGroup(k, m)
    PROVE  /\ groupsData' \in [GroupKeys -> Group]
           /\ groupsRegistry' \in Seq(GroupKeys)
           /\ groupsData'[k].registrationBlockNumber = block
           /\ groupsData'[k].members = m
           /\ \A j \in GroupKeys : j # k => groupsData'[j] = groupsData[j]
  <1>1. groupsRegistry' \in Seq(GroupKeys)
    BY DEF addGroup, Types
  <1>2. block \in Nat /\ groupsData \in [GroupKeys -> Group]
    BY Zenon DEF Types
  <1> QED
    BY <1>1, <1>2, AddGroupData, Zenon

(* The steps of the contract, as its groups see them.                      *)
GroupStep ==
    \/ UNCHANGED <<groupsData, groupsRegistry>>
    \/ \E id \in GroupIds : markTerminated(id) /\ UNCHANGED groupsRegistry
    \/ \E caller \in Callers, r \in DkgResult : approveDkgResult(caller, r)

(* Every step of the beacon is one of these for the groups.                *)
LEMMA GroupSteps ==
    ASSUME [Next]_vars
    PROVE  GroupStep
  BY Zenon DEF GroupStep, Next, Transaction, vars, groupsVars, NewBlock, genesis, requestRelayEntry,
         submitRelayEntry, submitRelayEntryAnyTime, entryAccepted, reportRelayEntryTimeout,
         reportUnauthorizedSigning, submitDkgResult, notifyDkgTimeout, challengeDkgResult,
         notifyOperatorInactivity, updateRelayEntryParameters, updateGroupCreationParameters

(* The groups keep their types.                                            *)
LEMMA GroupTypes ==
    ASSUME Types, GroupStep
    PROVE  groupsData' \in [GroupKeys -> Group] /\ groupsRegistry' \in Seq(GroupKeys)
  <1>1. CASE UNCHANGED <<groupsData, groupsRegistry>>
    BY <1>1, Zenon DEF Types, Group
  <1>2. ASSUME NEW id \in GroupIds, markTerminated(id), UNCHANGED groupsRegistry
        PROVE  groupsData' \in [GroupKeys -> Group] /\ groupsRegistry' \in Seq(GroupKeys)
    BY <1>2, TerminationKeeps, Zenon DEF Types
  <1>3. ASSUME NEW caller \in Callers, NEW r \in DkgResult, approveDkgResult(caller, r)
        PROVE  groupsData' \in [GroupKeys -> Group] /\ groupsRegistry' \in Seq(GroupKeys)
    <2>1. r.groupPubKey \in GroupKeys /\ r.members \in Members
      BY Zenon DEF DkgResult
    <2> QED
      BY <1>3, <2>1, AddGroupSteps, Zenon DEF approveDkgResult
  <1> QED
    BY <1>1, <1>2, <1>3, Zenon DEF GroupStep

(* The steps of the contract, as requests and their callbacks see them: a  *)
(* retry keeps the request, and the end of a request, with an entry or     *)
(* without, leaves no creation waiting for its seed.                       *)
RequestBegins(c) ==
    /\ currentRequestID = 0
    /\ requestCount' = requestCount + 1
    /\ currentRequestID' = requestCount + 1
    /\ callbackContract' = c
    /\ requestedFor' = Append(requestedFor, c)
    /\ UNCHANGED delivered

RequestEnds ==
    /\ currentRequestID # 0
    /\ currentRequestID' = 0
    /\ currentState' # "AWAITING_SEED"
    /\ UNCHANGED <<requestCount, callbackContract, requestedFor>>
    /\ \/ UNCHANGED delivered
       \/ /\ callbackContract # None
          /\ delivered' = delivered \cup {<<currentRequestID, callbackContract>>}

RequestStep ==
    \/ UNCHANGED <<requestCount, currentRequestID, callbackContract, requestedFor, delivered>>
    \/ \E c \in Consumers \cup {None} : RequestBegins(c)
    \/ RequestEnds

(* Every step of the beacon is one of these for the requests.              *)
LEMMA RequestSteps ==
    ASSUME Types, [Next]_vars
    PROVE  RequestStep
  <1>1. ASSUME NEW c \in Consumers \cup {None}, requestRelayEntry(c) PROVE RequestStep
    BY <1>1, Zenon DEF requestRelayEntry, requestEntry, isRequestInProgress, RequestStep, RequestBegins
  <1>2. ASSUME NEW e \in Entries, submitRelayEntry(e) \/ submitRelayEntryAnyTime(e) PROVE RequestStep
    <2>1. submitEntry(e) /\ entryAccepted(e)
      BY <1>2, Zenon DEF submitRelayEntry, submitRelayEntryAnyTime, submitEntryBeforeSoftTimeout
    <2>2. currentState' # "AWAITING_SEED"
      <3>1. CASE currentState = "AWAITING_SEED"
        <4>1. startBlock' = block /\ block # 0
          BY <2>1, <3>1, Zenon DEF entryAccepted, start, Types
        <4> QED
          BY <4>1, Zenon DEF currentState
      <3>2. CASE currentState # "AWAITING_SEED"
        BY <2>1, <3>2 DEF entryAccepted, dkgVars, resultVars, currentState
      <3> QED
        BY <3>1, <3>2, Zenon
    <2>3. RequestEnds
      BY <2>1, <2>2, Zenon DEF submitEntry, clearRequest, entryAccepted, isRequestInProgress, RequestEnds
    <2> QED
      BY <2>3, Zenon DEF RequestStep
  <1>3. CASE reportRelayEntryTimeout
    <2>1. UNCHANGED <<callbackContract, requestedFor, delivered>>
      BY <1>3, Zenon DEF reportRelayEntryTimeout, callbackVars
    <2>2. ASSUME cleanupOnEntryTimeout, IF currentState = "AWAITING_SEED" THEN notifySeedTimedOut
                                        ELSE UNCHANGED dkgVars
          PROVE  RequestEnds
      <3>1. currentState' # "AWAITING_SEED"
        <4>1. CASE currentState = "AWAITING_SEED"
          <5>1. ~locked'
            BY <2>2, <4>1, CompleteCleans, Zenon DEF notifySeedTimedOut
          <5> QED
            BY <5>1, Zenon DEF currentState
        <4>2. CASE currentState # "AWAITING_SEED"
          <5>1. UNCHANGED <<block, dkgVars>>
            BY <1>3, <2>2, <4>2, Zenon DEF reportRelayEntryTimeout
          <5> QED
            BY <4>2, <5>1, Zenon DEF dkgVars, resultVars, currentState
        <4> QED
          BY <4>1, <4>2, Zenon
      <3> QED
        BY <2>1, <2>2, <3>1, Zenon DEF cleanupOnEntryTimeout, clearRequest, hasRequestTimedOut,
                                isRequestInProgress, RequestEnds
    <2>3. CASE canSelectGroup(withTerminated(currentRequestGroupID))
      BY <1>3, <2>1, <2>3, Zenon DEF reportRelayEntryTimeout, retryOnEntryTimeout, RequestStep
    <2>4. CASE ~canSelectGroup(withTerminated(currentRequestGroupID))
      BY <1>3, <2>2, <2>4, Zenon DEF reportRelayEntryTimeout, RequestStep
    <2> QED
      BY <2>3, <2>4, Zenon
  <1>4. CASE UNCHANGED <<requestCount, currentRequestID, callbackContract, requestedFor, delivered>>
    BY <1>4, Zenon DEF RequestStep
  <1> QED
    BY <1>1, <1>2, <1>3, <1>4, Zenon
    DEF Next, Transaction, vars, relayVars, requestVars, callbackVars, NewBlock, genesis,
        reportUnauthorizedSigning, submitDkgResult, notifyDkgTimeout, approveDkgResult,
        challengeDkgResult, notifyOperatorInactivity, updateRelayEntryParameters, setTimeouts,
        updateGroupCreationParameters

(* The parameters of creations keep their types.                           *)
LEMMA ParameterTypes ==
    ASSUME Types, [Next]_vars
    PROVE  dkgParameters' \in DkgParameters
  BY Zenon DEF Types, DkgTypeOK, Next, Transaction, vars, configVars, NewBlock, genesis, requestRelayEntry,
         submitRelayEntry, submitRelayEntryAnyTime, entryAccepted, reportRelayEntryTimeout,
         reportUnauthorizedSigning, submitDkgResult, notifyDkgTimeout, approveDkgResult,
         challengeDkgResult, notifyOperatorInactivity, updateRelayEntryParameters,
         updateGroupCreationParameters, setParameters

StageInv == Types /\ NoResidue

(* Nothing is stored at the start.                                         *)
LEMMA InitStageInv == Init => StageInv
  <1> SUFFICES ASSUME Init PROVE StageInv
    BY Zenon
  <1>1. ~locked /\ locked \in BOOLEAN
    BY Zenon DEF Init, DkgInit
  <1>2. /\ startBlock = 0 /\ seed = None /\ resultSubmissionStartBlockOffset = 0
        /\ submittedResult = None /\ submittedResultBlock = 0
    BY Zenon DEF Init, DkgInit
  <1>3. groupsData \in [GroupKeys -> Group] /\ groupsRegistry \in Seq(GroupKeys)
    BY DEF Init, GroupsInit, Group
  <1>4. Types
    BY <1>1, <1>2, <1>3 DEF Init, DkgInit, RelayInit, Types, DkgTypeOK
  <1>5. NoResidue
    BY <1>1, <1>2 DEF NoResidue
  <1> QED
    BY <1>4, <1>5, Zenon DEF StageInv

(* Every step keeps types and stage.                                       *)
LEMMA NextStageInv == StageInv /\ [Next]_vars => StageInv'
  <1> SUFFICES ASSUME StageInv, [Next]_vars PROVE StageInv'
    BY Zenon
  <1>1. Types /\ NoResidue /\ DkgStep /\ GroupStep /\ RequestStep
    BY DkgSteps, GroupSteps, RequestSteps, Zenon DEF StageInv
  <1>2. /\ NoResidue' /\ block' \in Nat \ {0} /\ locked' \in BOOLEAN /\ startBlock' \in Nat
        /\ seed' \in Members \cup {None} /\ resultSubmissionStartBlockOffset' \in Nat
        /\ submittedResult' \in DkgResult \cup {None} /\ submittedResultBlock' \in Nat
    BY <1>1, NoResidueStep, Zenon
  <1>3. groupsData' \in [GroupKeys -> Group] /\ groupsRegistry' \in Seq(GroupKeys)
    BY <1>1, GroupTypes, Zenon
  <1>4. dkgParameters' \in DkgParameters
    BY <1>1, ParameterTypes, Zenon
  <1>5. /\ requestCount' \in Nat /\ currentRequestID' \in Nat
        /\ callbackContract' \in Consumers \cup {None}
        /\ requestedFor' \in Seq(Consumers \cup {None})
    <2>1. ASSUME NEW c \in Consumers \cup {None}, RequestBegins(c)
          PROVE  requestedFor' \in Seq(Consumers \cup {None})
      BY <1>1, <2>1 DEF RequestBegins, Types
    <2>2. CASE \E c \in Consumers \cup {None} : RequestBegins(c)
      BY <1>1, <2>1, <2>2 DEF RequestBegins, Types
    <2>3. CASE ~ \E c \in Consumers \cup {None} : RequestBegins(c)
      BY <1>1, <2>3 DEF RequestStep, RequestEnds, Types
    <2> QED
      BY <2>2, <2>3, Zenon
  <1> QED
    BY <1>2, <1>3, <1>4, <1>5, Zenon DEF StageInv, Types, DkgTypeOK, Group, DkgResult

(* The stored data belongs to the stage throughout.                        *)
LEMMA StageInvariant == Spec => []StageInv
  BY InitStageInv, NextStageInv, PTL DEF Spec

(* The stored data always belongs to the stage the creation of a group is  *)
(* in; no block arithmetic of BeaconDkg leaves the natural numbers.        *)
THEOREM StageDataConsistent == Spec => []NoResidue
  BY StageInvariant, PTL DEF StageInv
-----------------------------------------------------------------------------
(* A creation starts to wait for a seed in a step that starts a request,   *)
(* and stops waiting in the step that ends it.                             *)
LEMMA SeedRequestStep ==
    ASSUME StageInv, SeedHasRequest, [Next]_vars
    PROVE  SeedHasRequest'
  <1>0. Types /\ NoResidue /\ DkgStep /\ RequestStep
    BY DkgSteps, RequestSteps, Zenon DEF StageInv
  <1> SUFFICES ASSUME currentState' = "AWAITING_SEED" PROVE currentRequestID' # 0
    BY Zenon DEF SeedHasRequest, isRequestInProgress
  <1>1. locked' /\ startBlock' = 0
    BY Zenon DEF currentState
  <1>2. CASE \E c \in Consumers \cup {None} : RequestBegins(c)
    BY <1>0, <1>2 DEF RequestBegins, Types
  <1>3. CASE UNCHANGED <<requestCount, currentRequestID, callbackContract, requestedFor, delivered>>
    <2>1. CASE lockState /\ isRequestInProgress'
      BY <2>1, Zenon DEF isRequestInProgress
    <2>2. CASE UNCHANGED <<locked, startBlock>>
      <3>1. currentState = "AWAITING_SEED"
        BY <1>0, <1>1, <2>2, StageCases, Zenon
      <3> QED
        BY <1>3, <3>1, Zenon DEF SeedHasRequest, isRequestInProgress
    <2>3. ASSUME NEW s \in Members, lockAndStart(s) \/ start(s) PROVE FALSE
      BY <1>0, <1>1, <2>3, Zenon DEF lockAndStart, start, Types
    <2>4. CASE complete
      BY <1>1, <2>4, CompleteCleans, Zenon
    <2>5. \/ UNCHANGED <<locked, startBlock>> \/ complete
          \/ \E s \in Members : lockAndStart(s) \/ start(s)
          \/ lockState /\ isRequestInProgress'
      BY <1>0, Zenon DEF DkgStep, dkgVars, submitResult, challengeResult
    <2> QED
      BY <2>1, <2>2, <2>3, <2>4, <2>5, Zenon
  <1> QED
    BY <1>0, <1>2, <1>3, Zenon DEF RequestStep, RequestEnds

(* The pool is locked for a seed only while a relay request is in          *)
(* progress that will bring it, or whose end unlocks the pool: through     *)
(* submitRelayEntry, the retry and the clean-up of                         *)
(* reportRelayEntryTimeout.                                                *)
THEOREM SeedsAreRequested == Spec => []SeedHasRequest
  <1>1. Init => SeedHasRequest
    BY Zenon DEF Init, DkgInit, SeedHasRequest, currentState
  <1>2. StageInv /\ SeedHasRequest /\ [Next]_vars => SeedHasRequest'
    BY SeedRequestStep, Zenon
  <1> QED
    BY <1>1, <1>2, StageInvariant, PTL DEF Spec
-----------------------------------------------------------------------------
(* A request in progress is the last one made, and its consumer is the one *)
(* the contract remembers.                                                 *)
CallbackInv ==
    /\ Len(requestedFor) = requestCount
    /\ currentRequestID # 0 =>
          currentRequestID = requestCount /\ requestedFor[requestCount] = callbackContract
    /\ \A d \in delivered : d[1] \in 1..requestCount /\ requestedFor[d[1]] = d[2]

(* Every step keeps the remembered contract that of the request in         *)
(* progress.                                                               *)
LEMMA CallbackStep ==
    ASSUME Types, CallbackInv, RequestStep
    PROVE  CallbackInv'
  <1>1. CASE UNCHANGED <<requestCount, currentRequestID, callbackContract, requestedFor, delivered>>
    BY <1>1, Zenon DEF CallbackInv
  <1>2. ASSUME NEW c \in Consumers \cup {None}, RequestBegins(c) PROVE CallbackInv'
    <2>1. /\ requestedFor \in Seq(Consumers \cup {None}) /\ requestCount \in Nat
          /\ Len(requestedFor) = requestCount
      BY Zenon DEF Types, CallbackInv
    <2>2. /\ Len(requestedFor') = requestCount + 1
          /\ requestedFor'[requestCount + 1] = c
          /\ \A i \in 1..requestCount : requestedFor'[i] = requestedFor[i]
      BY <1>2, <2>1 DEF RequestBegins
    <2>3. ASSUME NEW d \in delivered' PROVE d[1] \in 1..requestCount' /\ requestedFor'[d[1]] = d[2]
      <3>1. d[1] \in 1..requestCount /\ requestedFor[d[1]] = d[2]
        BY <1>2, <2>3, Zenon DEF CallbackInv, RequestBegins
      <3>2. requestCount' = requestCount + 1
        BY <1>2, Zenon DEF RequestBegins
      <3> QED
        BY <2>1, <2>2, <3>1, <3>2
    <2> QED
      BY <1>2, <2>1, <2>2, <2>3, Zenon DEF CallbackInv, RequestBegins
  <1>3. CASE RequestEnds
    <2>1. ASSUME NEW d \in delivered' PROVE d[1] \in 1..requestCount /\ requestedFor[d[1]] = d[2]
      <3>1. CASE d \in delivered
        BY <3>1, Zenon DEF CallbackInv
      <3>2. CASE d = <<currentRequestID, callbackContract>>
        BY <1>3, <3>2 DEF CallbackInv, RequestEnds, Types
      <3> QED
        BY <1>3, <2>1, <3>1, <3>2, Zenon DEF RequestEnds
    <2> QED
      BY <1>3, <2>1, Zenon DEF CallbackInv, RequestEnds
  <1> QED
    BY <1>1, <1>2, <1>3, Zenon DEF RequestStep

(* An entry is delivered to the contract named in the request it answers,  *)
(* also when the request was retried with other groups or others before it *)
(* were given up.                                                          *)
THEOREM CallbacksAreRight == Spec => []CallbacksReachRequester
  <1>1. Init => CallbackInv
    BY Zenon DEF Init, RelayInit, CallbackInv
  <1>2. StageInv /\ CallbackInv /\ [Next]_vars => CallbackInv'
    BY RequestSteps, CallbackStep, Zenon DEF StageInv
  <1>3. CallbackInv => CallbacksReachRequester
    BY Zenon DEF CallbackInv, CallbacksReachRequester
  <1> QED
    BY <1>1, <1>2, <1>3, StageInvariant, PTL DEF Spec
-----------------------------------------------------------------------------
(* validatePublicKey recognises the keys that are registered by their      *)
(* registration block.                                                     *)
KeysInv ==
    /\ KeysAreUnique
    /\ \A k \in ToSet(groupsRegistry) : groupsData[k].registrationBlockNumber > 0

(* The keys in the registry are keys.                                      *)
LEMMA RegistryRange ==
    ASSUME Types
    PROVE  /\ ToSet(groupsRegistry) \subseteq GroupKeys
           /\ \A i \in DOMAIN groupsRegistry : groupsRegistry[i] \in ToSet(groupsRegistry)
  BY DEF Types, ToSet

(* Pushing a new key to the registry keeps it free of duplicates.          *)
LEMMA AppendKey ==
    ASSUME Types, KeysInv, NEW k \in GroupKeys, k \notin ToSet(groupsRegistry),
           groupsRegistry' = Append(groupsRegistry, k)
    PROVE  /\ ToSet(groupsRegistry') = ToSet(groupsRegistry) \cup {k}
           /\ IsInjective(groupsRegistry')
  <1> DEFINE n == Len(groupsRegistry)
  <1>1. /\ groupsRegistry \in Seq(GroupKeys) /\ n \in Nat /\ DOMAIN groupsRegistry = 1..n
    BY DEF Types
  <1>2. /\ DOMAIN groupsRegistry' = 1..(n + 1) /\ groupsRegistry'[n + 1] = k
        /\ \A i \in 1..n : groupsRegistry'[i] = groupsRegistry[i]
    BY <1>1
  <1>3. ToSet(groupsRegistry') = ToSet(groupsRegistry) \cup {k}
    <2>1. ASSUME NEW x \in ToSet(groupsRegistry') PROVE x \in ToSet(groupsRegistry) \cup {k}
      <3>1. PICK i \in 1..(n + 1) : x = groupsRegistry'[i]
        BY <1>2, Zenon DEF ToSet
      <3>2. i = n + 1 \/ i \in 1..n
        BY <1>1
      <3> QED
        BY <1>1, <1>2, <3>1, <3>2, Zenon DEF ToSet
    <2>2. ASSUME NEW x \in ToSet(groupsRegistry) PROVE x \in ToSet(groupsRegistry')
      <3>1. PICK i \in 1..n : x = groupsRegistry[i]
        BY <1>1, Zenon DEF ToSet
      <3>2. i \in 1..(n + 1)
        BY <1>1
      <3> QED
        BY <1>2, <3>1, <3>2, Zenon DEF ToSet
    <2>3. k \in ToSet(groupsRegistry')
      <3>1. n + 1 \in 1..(n + 1)
        BY <1>1
      <3> QED
        BY <1>2, <3>1, Zenon DEF ToSet
    <2> QED
      BY <2>1, <2>2, <2>3, Zenon
  <1>4. IsInjective(groupsRegistry')
    <2>1. \A i \in 1..n : groupsRegistry[i] # k
      BY <1>1, Zenon DEF ToSet
    <2>2. \A i, j \in 1..n : groupsRegistry[i] = groupsRegistry[j] => i = j
      BY <1>1, Zenon DEF KeysInv, KeysAreUnique, IsInjective
    <2>3. \A i \in 1..(n + 1) : i = n + 1 \/ i \in 1..n
      BY <1>1
    <2>4. ASSUME NEW i \in 1..(n + 1), NEW j \in 1..(n + 1), groupsRegistry'[i] = groupsRegistry'[j]
          PROVE  i = j
      <3>1. CASE i \in 1..n /\ j \in 1..n
        BY <1>2, <2>2, <2>4, <3>1, Zenon
      <3>2. CASE i = n + 1 \/ j = n + 1
        BY <1>2, <2>1, <2>3, <2>4, <3>2, Zenon
      <3> QED
        BY <2>3, <3>1, <3>2, Zenon
    <2> QED
      BY <1>2, <2>4, Zenon DEF IsInjective
  <1> QED
    BY <1>3, <1>4, Zenon

(* Every step keeps the keys unique.                                       *)
LEMMA KeysStep ==
    ASSUME StageInv, KeysInv, [Next]_vars
    PROVE  KeysInv'
  <1>0. Types /\ NoResidue /\ DkgStep /\ GroupStep
    BY DkgSteps, GroupSteps, Zenon DEF StageInv
  <1>1. ASSUME NEW caller \in Callers, NEW r \in DkgResult, approveDkgResult(caller, r) PROVE KeysInv'
    <2>1. /\ r = submittedResult /\ r # None /\ r.groupPubKey \in GroupKeys /\ r.members \in Members
          /\ addGroup(r.groupPubKey, r.members) /\ complete
      BY <1>1, NoneIsNoDkgResult, Zenon DEF approveDkgResult, approveResult, DkgResult
    <2>2. r.groupPubKey \notin ToSet(groupsRegistry)
      BY <2>1, Zenon DEF KeysInv, KeysAreUnique
    <2>3. ToSet(groupsRegistry') = ToSet(groupsRegistry) \cup {r.groupPubKey} /\ IsInjective(groupsRegistry')
      BY <1>0, <2>1, <2>2, AppendKey, Zenon DEF addGroup
    <2>4. submittedResult' = None
      BY <2>1, CompleteCleans, Zenon
    <2>5. /\ groupsData'[r.groupPubKey].registrationBlockNumber = block
          /\ \A j \in GroupKeys : j # r.groupPubKey => groupsData'[j] = groupsData[j]
      BY <1>0, <2>1, AddGroupSteps, Zenon
    <2>6. \A k \in ToSet(groupsRegistry') : groupsData'[k].registrationBlockNumber > 0
      BY <1>0, <2>2, <2>3, <2>5, RegistryRange DEF KeysInv, Types
    <2> QED
      BY <2>3, <2>4, <2>6, Zenon DEF KeysInv, KeysAreUnique
  <1>2. ASSUME UNCHANGED groupsRegistry,
               \A k \in GroupKeys :
                   groupsData'[k].registrationBlockNumber = groupsData[k].registrationBlockNumber
        PROVE  KeysInv'
    <2>1. \A k \in ToSet(groupsRegistry) : groupsData'[k].registrationBlockNumber > 0
      BY <1>0, <1>2, RegistryRange, Zenon DEF KeysInv
    <2>2. submittedResult' # None => submittedResult'.groupPubKey \notin ToSet(groupsRegistry)
      <3>1. ASSUME NEW caller \in Operators, NEW r \in DkgResult, submitResult(caller, r),
                   validatePublicKey(r.groupPubKey)
            PROVE  submittedResult'.groupPubKey \notin ToSet(groupsRegistry)
        BY <3>1 DEF submitResult, validatePublicKey, KeysInv
      <3>2. ASSUME submittedResult' \in {submittedResult, None}
            PROVE  submittedResult' # None => submittedResult'.groupPubKey \notin ToSet(groupsRegistry)
        BY <3>2, Zenon DEF KeysInv, KeysAreUnique
      <3>3. \/ submittedResult' \in {submittedResult, None}
            \/ \E caller \in Operators, r \in DkgResult :
                  submitResult(caller, r) /\ validatePublicKey(r.groupPubKey)
        BY <1>0, CompleteCleans, Zenon DEF DkgStep, dkgVars, resultVars, lockAndStart, lockState, start,
           challengeResult, submittedResultCleanup
      <3> QED
        BY <3>1, <3>2, <3>3, Zenon
    <2> QED
      BY <1>2, <2>1, <2>2, Zenon DEF KeysInv, KeysAreUnique
  <1>3. ASSUME NEW id \in GroupIds, markTerminated(id), UNCHANGED groupsRegistry PROVE KeysInv'
    BY <1>0, <1>2, <1>3, TerminationKeeps, Zenon
  <1> QED
    BY <1>0, <1>1, <1>2, <1>3, Zenon DEF GroupStep

(* The keys are unique throughout.                                         *)
LEMMA KeysInvariant == Spec => []KeysInv
  <1>1. Init => KeysInv
    <2> SUFFICES ASSUME Init PROVE KeysInv
      BY Zenon
    <2>1. groupsRegistry = <<>> /\ submittedResult = None
      BY Zenon DEF Init, GroupsInit, DkgInit
    <2>2. ToSet(groupsRegistry) = {} /\ IsInjective(groupsRegistry)
      BY <2>1 DEF ToSet, IsInjective
    <2> QED
      BY <2>1, <2>2, Zenon DEF KeysInv, KeysAreUnique
  <1>2. StageInv /\ KeysInv /\ [Next]_vars => KeysInv'
    BY KeysStep, Zenon
  <1> QED
    BY <1>1, <1>2, StageInvariant, PTL DEF Spec

(* No two groups share a key: the key of a submitted result belongs to no  *)
(* group until approveDkgResult registers it, so that addGroup never       *)
(* overwrites a group.                                                     *)
THEOREM KeysStayUnique == Spec => []KeysAreUnique
  BY KeysInvariant, PTL DEF KeysInv
-----------------------------------------------------------------------------
(* The groups that exist, as the abstract life cycle sees them.            *)
registeredGroups == {[groupPubKey |-> k, members |-> groupsData[k].members] : k \in ToSet(groupsRegistry)}

(* The stage of a creation there: key generation is part of the wait for a *)
(* result.                                                                 *)
creationStage == IF currentState = "KEY_GENERATION" THEN "AWAITING_RESULT" ELSE currentState

StageMapped ==
    /\ creationStage = "IDLE" <=> ~locked
    /\ creationStage = "AWAITING_SEED" <=> locked /\ startBlock = 0
    /\ creationStage = "AWAITING_RESULT" <=> locked /\ startBlock > 0 /\ submittedResultBlock = 0
    /\ creationStage = "CHALLENGE" <=> locked /\ startBlock > 0 /\ submittedResultBlock > 0
    /\ creationStage \in {"IDLE", "AWAITING_SEED", "AWAITING_RESULT", "CHALLENGE"}

(* The stages of the beacon in terms of those of the abstract life cycle.  *)
LEMMA StageMap == StageInv => StageMapped
  BY StageCases, DkgAssumption
  DEF StageInv, Types, DkgTypeOK, NoResidue, StageMapped, creationStage, currentState

(* Terminating a group keeps it registered: only approval changes what the *)
(* life cycle calls registered.                                            *)
LEMMA GroupsKept ==
    ASSUME StageInv, [Next]_vars, ~ \E caller \in Callers, r \in DkgResult : approveDkgResult(caller, r)
    PROVE  registeredGroups' = registeredGroups
  <1>0. Types /\ GroupStep
    BY GroupSteps, Zenon DEF StageInv
  <1>1. CASE UNCHANGED <<groupsData, groupsRegistry>>
    BY <1>1, Zenon DEF registeredGroups
  <1>2. ASSUME NEW id \in GroupIds, markTerminated(id), UNCHANGED groupsRegistry
        PROVE  registeredGroups' = registeredGroups
    <2>1. \A k \in ToSet(groupsRegistry) : groupsData'[k].members = groupsData[k].members
      BY <1>0, <1>2, TerminationKeeps, RegistryRange, Zenon
    <2> QED
      BY <1>2, <2>1, Zenon DEF registeredGroups
  <1> QED
    BY <1>0, <1>1, <1>2, Zenon DEF GroupStep

(* Approval registers the submitted result and overwrites no group.        *)
LEMMA ApproveRegisters ==
    ASSUME StageInv, KeysInv, NEW caller \in Callers, NEW r \in DkgResult, approveDkgResult(caller, r)
    PROVE  /\ registeredGroups' = registeredGroups \cup
                 {[groupPubKey |-> submittedResult.groupPubKey, members |-> submittedResult.members]}
           /\ submittedResult # None
  <1>1. /\ r = submittedResult /\ r # None /\ r.groupPubKey \in GroupKeys /\ r.members \in Members
        /\ addGroup(r.groupPubKey, r.members)
    BY NoneIsNoDkgResult, Zenon DEF approveDkgResult, approveResult, DkgResult
  <1>2. r.groupPubKey \notin ToSet(groupsRegistry)
    BY <1>1, Zenon DEF KeysInv, KeysAreUnique
  <1>3. ToSet(groupsRegistry') = ToSet(groupsRegistry) \cup {r.groupPubKey}
    BY <1>1, <1>2, AppendKey, Zenon DEF addGroup, StageInv
  <1>4. /\ groupsData'[r.groupPubKey].members = r.members
        /\ \A j \in ToSet(groupsRegistry) : groupsData'[j] = groupsData[j]
    BY <1>1, <1>2, AddGroupSteps, RegistryRange, Zenon DEF StageInv
  <1> QED
    BY <1>1, <1>3, <1>4 DEF registeredGroups

(* The submitted result without what only its validation looks at.         *)
creationCandidate ==
    IF submittedResult = None THEN None
    ELSE [groupPubKey |-> submittedResult.groupPubKey, members |-> submittedResult.members]

(* The initial states are those of the life cycle.                         *)
LEMMA LifecycleInit == Init => Lifecycle!Init
  <1> SUFFICES ASSUME Init PROVE Lifecycle!Init
    BY Zenon
  <1>1. ~locked
    BY Zenon DEF Init, DkgInit
  <1>2. groupsRegistry = <<>> /\ submittedResult = None
    BY Zenon DEF Init, DkgInit, GroupsInit
  <1>3. ToSet(groupsRegistry) = {}
    BY <1>2 DEF ToSet
  <1> QED
    BY <1>1, <1>2, <1>3, Zenon DEF Lifecycle!Init, currentState

(* Each step of the contract is one step of the life cycle, or none: key   *)
(* generation ends, and groups are terminated, without the life cycle      *)
(* noticing.                                                               *)
LEMMA LifecycleStep ==
    ASSUME StageInv, StageInv', KeysInv, [Next]_vars
    PROVE  [Lifecycle!Next]_(Lifecycle!vars)
  <1>0. Types /\ Types' /\ NoResidue /\ NoResidue' /\ DkgStep
    BY DkgSteps, Zenon DEF StageInv
  <1>1. StageMapped /\ StageMapped'
    BY StageMap, PTL
  <1>2. ASSUME NEW caller \in Callers, NEW r \in DkgResult, approveDkgResult(caller, r)
        PROVE  Lifecycle!Approve
    <2>1. currentState = "CHALLENGE" /\ ~locked' /\ submittedResult' = None
      BY <1>2, CompleteCleans, Zenon DEF approveDkgResult, approveResult
    <2>2. creationStage = "CHALLENGE" /\ creationStage' = "IDLE" /\ creationCandidate' = None
      BY <1>1, <2>1, Zenon DEF StageMapped, creationStage, creationCandidate
    <2>3. /\ registeredGroups' = registeredGroups \cup {creationCandidate}
      BY <1>2, ApproveRegisters, Zenon DEF creationCandidate
    <2> QED
      BY <2>2, <2>3, Zenon DEF Lifecycle!Approve, creationStage, creationCandidate, registeredGroups
  <1>3. CASE ~ \E caller \in Callers, r \in DkgResult : approveDkgResult(caller, r)
    <2>0. registeredGroups' = registeredGroups
      BY <1>3, GroupsKept, Zenon
    <2>1. CASE UNCHANGED dkgVars
      <3>1. creationStage' = creationStage /\ creationCandidate' = creationCandidate
        BY <1>0, <1>1, <2>1, Zenon DEF StageMapped, creationCandidate, dkgVars, resultVars, Types, DkgTypeOK
      <3> QED
        BY <2>0, <3>1, Zenon DEF Lifecycle!vars, creationStage, creationCandidate, registeredGroups
    <2>2. ASSUME NEW s \in Members, lockAndStart(s) PROVE Lifecycle!Genesis
      <3>1. /\ creationStage = "IDLE" /\ creationStage' = "AWAITING_RESULT"
            /\ creationCandidate' = creationCandidate
        BY <1>0, <1>1, <2>2, StageCases, Zenon
        DEF StageMapped, NoResidue, creationCandidate, lockAndStart, resultVars, Types
      <3> QED
        BY <2>0, <3>1, Zenon DEF Lifecycle!Genesis, creationStage, creationCandidate, registeredGroups
    <2>3. CASE lockState
      <3>1. /\ creationStage = "IDLE" /\ creationStage' = "AWAITING_SEED"
            /\ creationCandidate' = creationCandidate
        BY <1>0, <1>1, <2>3, StageCases, Zenon
        DEF StageMapped, NoResidue, creationCandidate, lockState, resultVars, Types
      <3> QED
        BY <2>0, <3>1, Zenon DEF Lifecycle!Lock, Lifecycle!Next, creationStage, creationCandidate, registeredGroups
    <2>4. ASSUME NEW s \in Members, start(s) PROVE Lifecycle!Start
      <3>1. /\ creationStage = "AWAITING_SEED" /\ creationStage' = "AWAITING_RESULT"
            /\ creationCandidate' = creationCandidate
        BY <1>0, <1>1, <2>4, StageCases, Zenon
        DEF StageMapped, NoResidue, creationCandidate, start, resultVars, Types
      <3> QED
        BY <2>0, <3>1, Zenon DEF Lifecycle!Start, creationStage, creationCandidate, registeredGroups
    <2>5. CASE complete /\ currentState \in {"AWAITING_SEED", "AWAITING_RESULT"}
      <3>1. /\ creationStage \in {"AWAITING_SEED", "AWAITING_RESULT"} /\ creationStage' = "IDLE"
            /\ submittedResult = None /\ submittedResult' = None
        BY <1>0, <1>1, <2>5, StageCases, CompleteCleans, Zenon DEF StageMapped, NoResidue
      <3>2. creationCandidate' = creationCandidate
        BY <3>1, Zenon DEF creationCandidate
      <3> QED
        BY <2>0, <3>1, <3>2, Zenon
        DEF Lifecycle!GiveUp, Lifecycle!Next, creationStage, creationCandidate, registeredGroups
    <2>6. ASSUME NEW caller \in Operators, NEW r \in DkgResult, submitResult(caller, r)
          PROVE  Lifecycle!Submit
      <3>1. /\ creationStage = "AWAITING_RESULT" /\ creationStage' = "CHALLENGE"
            /\ submittedResult' = r
        BY <1>0, <1>1, <2>6, StageCases, Zenon DEF StageMapped, submitResult, Types
      <3>2. creationCandidate' \in [groupPubKey : GroupKeys, members : Members]
        BY <3>1, NoneIsNoDkgResult, Zenon DEF creationCandidate, DkgResult
      <3> QED
        BY <2>0, <3>1, <3>2, Zenon DEF Lifecycle!Submit, creationStage, creationCandidate, registeredGroups
    <2>7. ASSUME NEW r \in DkgResult, challengeResult(r) PROVE Lifecycle!Challenge
      <3>1. /\ creationStage = "CHALLENGE" /\ creationStage' = "AWAITING_RESULT"
            /\ creationCandidate' = None
        BY <1>0, <1>1, <2>7, StageCases, Zenon
        DEF StageMapped, challengeResult, submittedResultCleanup, creationCandidate
      <3> QED
        BY <2>0, <3>1, Zenon DEF Lifecycle!Challenge, creationStage, creationCandidate, registeredGroups
    <2> QED
      BY <1>0, <1>3, <2>1, <2>2, <2>3, <2>4, <2>5, <2>6, <2>7, Zenon DEF DkgStep, Lifecycle!Next
  <1> QED
    BY <1>2, <1>3, Zenon DEF Lifecycle!Next

(* The beacon implements the same abstract life cycle as the registry of   *)
(* wallets: a creation passes through its stages in order and only the one *)
(* candidate in its challenge stage becomes a group, although the seed may *)
(* come from genesis or from a relay entry and key generation ends by the  *)
(* passing of blocks.                                                      *)
THEOREM BeaconImplementsLifecycle == Spec => ImplementsLifecycle
  <1>1. StageInv /\ StageInv' /\ KeysInv /\ [Next]_vars => [Lifecycle!Next]_(Lifecycle!vars)
    BY LifecycleStep, Zenon
  <1> QED
    BY <1>1, LifecycleInit, StageInvariant, KeysInvariant, PTL
    DEF Spec, ImplementsLifecycle, Lifecycle!Spec

-----------------------------------------------------------------------------
(***************************************************************************)
(* The beacon uses the Groups library as its specification allows: what a  *)
(* transaction does to the groups is a call of the library. A registration *)
(* at approval was preceded by validatePublicKey at submission only; that  *)
(* the key is still free is KeysAreUnique.                                 *)
(***************************************************************************)
LEMMA LibraryCalls ==
    ASSUME StageInv, KeysInv, GroupsInv, [Next]_vars
    PROVE  [GroupsNext]_<<block, groupsVars>>
  <1>1. CASE NewBlock
    BY <1>1, Zenon DEF NewBlock, GroupsNext
  <1>2. ASSUME UNCHANGED <<block, groupsVars>> PROVE [GroupsNext]_<<block, groupsVars>>
    BY <1>2, Zenon
  <1>3. ASSUME NEW c \in Consumers \cup {None}, requestRelayEntry(c) PROVE selectGroup
    BY <1>3, Zenon DEF requestRelayEntry, selectGroup
  <1>4. CASE reportRelayEntryTimeout
    <2>1. currentRequestGroupID \in GroupIds /\ terminateAndExpire(currentRequestGroupID)
      BY <1>4, Zenon DEF reportRelayEntryTimeout, terminateAndExpire
    <2> QED
      BY <2>1, Zenon DEF GroupsNext
  <1>5. ASSUME NEW id \in GroupIds, reportUnauthorizedSigning(id) PROVE terminateGroup(id)
    BY <1>5, Zenon DEF reportUnauthorizedSigning, terminateGroup
  <1>6. ASSUME NEW caller \in Callers, NEW r \in DkgResult, approveDkgResult(caller, r)
        PROVE  \E k \in GroupKeys, m \in Members : activateGroup(k, m)
    <2>1. /\ r = submittedResult /\ r # None /\ r.groupPubKey \in GroupKeys /\ r.members \in Members
          /\ addGroup(r.groupPubKey, r.members) /\ UNCHANGED block
      BY <1>6, NoneIsNoDkgResult, Zenon DEF approveDkgResult, approveResult, DkgResult
    <2>2. r.groupPubKey \notin ToSet(groupsRegistry)
      BY <2>1, Zenon DEF KeysInv, KeysAreUnique
    <2>3. validatePublicKey(r.groupPubKey)
      BY <2>1, <2>2, Zenon DEF GroupsInv, RegistryInv, validatePublicKey
    <2> QED
      BY <2>1, <2>3, Zenon DEF activateGroup
  <1>7. ASSUME NEW f \in Frequencies, NEW lifetime \in Lifetimes, NEW p \in DkgParameters,
               updateGroupCreationParameters(f, lifetime, p)
        PROVE  setGroupLifetime(lifetime)
    BY <1>7, Zenon DEF updateGroupCreationParameters, setGroupLifetime
  <1>8. \/ NewBlock
        \/ UNCHANGED <<block, groupsVars>>
        \/ \E c \in Consumers \cup {None} : requestRelayEntry(c)
        \/ reportRelayEntryTimeout
        \/ \E id \in GroupIds : reportUnauthorizedSigning(id)
        \/ \E caller \in Callers, r \in DkgResult : approveDkgResult(caller, r)
        \/ \E f \in Frequencies, lifetime \in Lifetimes, p \in DkgParameters :
              updateGroupCreationParameters(f, lifetime, p)
    BY Zenon DEF Next, Transaction, vars, genesis, submitRelayEntry, submitRelayEntryAnyTime, entryAccepted,
       submitDkgResult, notifyDkgTimeout, challengeDkgResult, notifyOperatorInactivity,
       updateRelayEntryParameters
  <1> QED
    BY <1>1, <1>2, <1>3, <1>4, <1>5, <1>6, <1>7, <1>8, Zenon DEF GroupsNext

(* The groups of the beacon satisfy the invariant of the library.          *)
LEMMA GroupsInvariant == Spec => []GroupsInv
  <1>1. Init => GroupsInv
    BY GroupsStart, Zenon DEF Init, LibraryInit
  <1>2. StageInv /\ KeysInv /\ GroupsInv /\ [Next]_vars => GroupsInv'
    BY LibraryCalls, GroupsStep, Zenon
  <1> QED
    BY <1>1, <1>2, StageInvariant, KeysInvariant, PTL DEF Spec

(* RandomBeacon implements the specification of the Groups library, so     *)
(* that what is true of the library on its own holds in the contract.      *)
THEOREM BeaconCallsLibrary == Spec => GroupsSpec
  <1>1. Init => LibraryInit
    BY Zenon DEF Init, LibraryInit
  <1>2. StageInv /\ KeysInv /\ GroupsInv /\ [Next]_vars => [GroupsNext]_<<block, groupsVars>>
    BY LibraryCalls, Zenon
  <1> QED
    BY <1>1, <1>2, StageInvariant, KeysInvariant, GroupsInvariant, PTL DEF Spec, GroupsSpec

(* The selection of the contract is uniform over its active groups, after  *)
(* every sequence of transactions.                                         *)
THEOREM BeaconSelectsUniformly == Spec => []SelectionIsUniform
  BY BeaconCallsLibrary, SelectionStaysUniform, PTL

(* The entry that seeds the next selection is one of the entries.          *)
EntryInv == previousEntry \in Entries

(* The previous entry is always an entry.                                  *)
LEMMA EntryInvariant == Spec => []EntryInv
  <1>1. Init => EntryInv
    BY Zenon DEF Init, RelayInit, EntryInv
  <1>2. EntryInv /\ [Next]_vars => EntryInv'
    BY Zenon DEF EntryInv, Next, Transaction, vars, relayVars, NewBlock, genesis, requestRelayEntry,
       requestEntry, submitRelayEntry, submitRelayEntryAnyTime, submitEntryBeforeSoftTimeout, submitEntry,
       reportRelayEntryTimeout, retryOnEntryTimeout, cleanupOnEntryTimeout,
       reportUnauthorizedSigning, submitDkgResult, notifyDkgTimeout, approveDkgResult, challengeDkgResult,
       notifyOperatorInactivity, updateRelayEntryParameters, setTimeouts, updateGroupCreationParameters
  <1> QED
    BY <1>1, <1>2, PTL DEF Spec

(* The action of ChosenGroupIsActive.                                      *)
ChoiceIsActive ==
    requestVars' # requestVars /\ isRequestInProgress'
        => currentRequestGroupID' \in GroupIds' /\ isGroupActive(currentRequestGroupID)'

(* The group a selection returns is neither too old nor terminated.        *)
LEMMA Selected ==
    ASSUME GroupsInv, NEW id \in GroupIds, id >= expiredOffset, id \notin ToSet(activeTerminatedGroups)
    PROVE  groupLifetimeOf(id) >= block /\ ~isGroupTerminated(id)
  <1>1. expiredOffset \in Nat /\ expiredGroupOffset \in Nat /\ expiredGroupOffset <= expiredOffset
    BY Offset, InvParts, Zenon
  <1>2. id \in Nat
    BY InvParts, IdsArePlaces, Zenon
  <1>3. id >= expiredGroupOffset
    BY <1>1, <1>2, SMT
  <1> QED
    BY <1>3, Offset, InvParts, Zenon DEF TerminatedGroupsAreTracked

(* A group that requestRelayEntry puts in charge is active.                *)
LEMMA RequestChoice ==
    ASSUME GroupsInv, previousEntry \in Nat, NEW c \in Consumers \cup {None}, requestRelayEntry(c)
    PROVE  ChoiceIsActive
  <1>1. PICK t \in Seq(Nat) : t = activeTerminatedGroups /\ Ascending(t) /\ ToSet(t) \subseteq GroupIds
    BY InvParts, Zenon DEF TerminatedGroupsAreTracked
  <1>2. PICK id : id = selectedGroup(previousEntry, t)
    BY Zenon
  <1>3. /\ canSelectGroup(t) /\ currentRequestGroupID' = id
        /\ UNCHANGED <<block, groupsData, groupsRegistry, groupLifetime>>
    BY <1>1, <1>2, Zenon DEF requestRelayEntry, requestEntry
  <1>4. id \in GroupIds /\ id >= expiredOffset /\ id \notin ToSet(t)
    BY <1>1, <1>2, <1>3, Choice, Zenon
  <1>5. groupLifetimeOf(id) >= block /\ ~isGroupTerminated(id)
    BY <1>1, <1>4, Selected, Zenon
  <1> QED
    BY <1>3, <1>4, <1>5, Zenon
    DEF ChoiceIsActive, GroupIds, isGroupActive, groupLifetimeOf, isGroupTerminated, getGroup

(* A group that reportRelayEntryTimeout puts in charge is active: it is    *)
(* not the one that the report terminates.                                 *)
LEMMA RetryChoice ==
    ASSUME GroupsInv, previousEntry \in Nat, reportRelayEntryTimeout
    PROVE  ChoiceIsActive
  <1>1. PICK g \in GroupIds : g = currentRequestGroupID
    BY Zenon DEF reportRelayEntryTimeout
  <1>2. PICK t : t = withTerminated(g)
    BY Zenon
  <1>3. PICK id : id = selectedGroup(previousEntry, t)
    BY Zenon
  <1>4. /\ markTerminated(g)
        /\ UNCHANGED <<block, groupsRegistry, groupLifetime>>
        /\ \/ canSelectGroup(t) /\ currentRequestGroupID' = id
           \/ currentRequestID' = 0
    BY <1>1, <1>2, <1>3, Zenon
    DEF reportRelayEntryTimeout, retryOnEntryTimeout, cleanupOnEntryTimeout, clearRequest
  <1>5. CASE currentRequestID' = 0
    BY <1>5, Zenon DEF ChoiceIsActive, isRequestInProgress
  <1>6. ASSUME canSelectGroup(t), currentRequestGroupID' = id PROVE ChoiceIsActive
    <2>1. g \in Nat /\ g \notin ToSet(activeTerminatedGroups)
      BY <1>4, InvParts, IdsArePlaces, Zenon DEF markTerminated, TerminatedGroupsAreTracked
    <2>2. /\ t \in Seq(Nat) /\ Ascending(t)
          /\ ToSet(t) = ToSet(activeTerminatedGroups) \cup {g}
      BY <1>2, <2>1, InvParts, WithTerminated, Zenon
    <2>3. ToSet(t) \subseteq GroupIds
      BY <2>2, InvParts, Zenon DEF TerminatedGroupsAreTracked
    <2>4. id \in GroupIds /\ id >= expiredOffset /\ id \notin ToSet(t)
      BY <1>3, <1>6, <2>2, <2>3, Choice, Zenon
    <2>5. /\ id \notin ToSet(activeTerminatedGroups) /\ id # g
          /\ groupLifetimeOf(id) >= block /\ ~isGroupTerminated(id)
      BY <2>2, <2>4, Selected, Zenon
    <2>6. groupsRegistry[id + 1] # groupsRegistry[g + 1]
      <3>1. /\ id \in Nat /\ g \in Nat
            /\ id + 1 \in DOMAIN groupsRegistry /\ g + 1 \in DOMAIN groupsRegistry
        BY <2>4, InvParts, IdsArePlaces, Zenon
      <3>2. id + 1 < g + 1 \/ g + 1 < id + 1
        BY <2>5, <3>1, SMT
      <3> QED
        BY <3>1, <3>2, InvParts, Zenon DEF RegistryInv
    <2>7. groupsData'[groupsRegistry[id + 1]] = groupsData[groupsRegistry[id + 1]]
      BY <1>4, <2>4, <2>6, InvParts, IdsArePlaces, Zenon DEF markTerminated
    <2> QED
      BY <1>4, <1>6, <2>4, <2>5, <2>7, Zenon
      DEF ChoiceIsActive, GroupIds, isGroupActive, groupLifetimeOf, isGroupTerminated, getGroup
  <1> QED
    BY <1>4, <1>5, <1>6, Zenon

(* Every step puts only active groups in charge.                           *)
LEMMA ChoiceStep ==
    ASSUME GroupsInv, EntryInv, [Next]_vars
    PROVE  ChoiceIsActive
  <1>0. previousEntry \in Nat
    BY EntriesAssumption, Zenon DEF EntryInv
  <1>1. ASSUME NEW c \in Consumers \cup {None}, requestRelayEntry(c) PROVE ChoiceIsActive
    BY <1>0, <1>1, RequestChoice, Zenon
  <1>2. CASE reportRelayEntryTimeout
    BY <1>0, <1>2, RetryChoice, Zenon
  <1>3. \/ \E c \in Consumers \cup {None} : requestRelayEntry(c)
        \/ reportRelayEntryTimeout
        \/ UNCHANGED requestVars
        \/ currentRequestID' = 0
    BY Zenon DEF Next, Transaction, vars, relayVars, NewBlock, genesis,
       submitRelayEntry, submitRelayEntryAnyTime, submitEntryBeforeSoftTimeout, submitEntry, clearRequest,
       reportUnauthorizedSigning, submitDkgResult, notifyDkgTimeout, approveDkgResult, challengeDkgResult,
       notifyOperatorInactivity, updateRelayEntryParameters, setTimeouts, updateGroupCreationParameters
  <1>4. ASSUME UNCHANGED requestVars \/ currentRequestID' = 0 PROVE ChoiceIsActive
    BY <1>4, Zenon DEF ChoiceIsActive, isRequestInProgress
  <1> QED
    BY <1>1, <1>2, <1>3, <1>4, Zenon

(* Whenever a group is put in charge of a request it is active: neither    *)
(* terminated, not even by the same transaction, nor too old.              *)
THEOREM ChosenGroupsAreActive == Spec => ChosenGroupIsActive
  <1>1. GroupsInv /\ EntryInv /\ [Next]_vars => ChoiceIsActive
    BY ChoiceStep, Zenon
  <1>2. UNCHANGED vars => ChoiceIsActive
    BY Zenon DEF vars, relayVars, ChoiceIsActive
  <1> QED
    BY <1>1, <1>2, GroupsInvariant, EntryInvariant, PTL DEF Spec, ChosenGroupIsActive, ChoiceIsActive
=============================================================================
