---------------------------- MODULE RandomBeacon ----------------------------
(***************************************************************************)
(* RandomBeacon.sol: the contract that composes Groups, Relay, BeaconDkg   *)
(* and Callback. One action is one transaction. Calls to the staking       *)
(* contract and refunds do not change what is modelled: the former are     *)
(* wrapped in try/catch, the latter never fail in the states considered.   *)
(* Only requests of authorized requesters are modelled.                    *)
(***************************************************************************)
EXTENDS BeaconDkg, Relay

CONSTANTS
    Consumers,      \* callback contracts
    Outsider,       \* a caller that is not an operator
    Frequencies,    \* group creation frequencies the governance may set
    MaxRequests,    \* bound on relay requests
    MaxNonce        \* bound on inactivity claim nonces

ASSUME BeaconAssumption ==
    /\ Entries = Members
    /\ None \notin Consumers
    /\ Frequencies \subseteq Nat \ {0}
    /\ MaxRequests \in Nat
    /\ MaxNonce \in Nat

VARIABLES
    groupCreationFrequency,
    callbackContract,       \* None for the zero address
    inactivityClaimNonce,   \* by group key, which identifies the group
    (* History, read by no guard: *)
    requestedFor,           \* callback contract of each request made so far
    delivered               \* <<request, callback contract>> of entries delivered

configVars == <<groupCreationFrequency, dkgParameters>>
callbackVars == <<callbackContract, requestedFor, delivered>>
vars == <<block, groupsVars, relayVars, dkgVars, configVars, callbackVars,
          inactivityClaimNonce>>

Callers == Operators \cup {Outsider}

TypeOK ==
    /\ block \in Nat \ {0}
    /\ GroupsTypeOK
    /\ RelayTypeOK
    /\ DkgTypeOK
    /\ groupCreationFrequency \in Frequencies
    /\ callbackContract \in Consumers \cup {None}
    /\ inactivityClaimNonce \in [GroupKeys -> Nat]
    /\ requestedFor \in Seq(Consumers \cup {None})
    /\ delivered \subseteq Nat \X Consumers

Init ==
    /\ block = 1
    /\ GroupsInit
    /\ RelayInit
    /\ DkgInit
    /\ groupCreationFrequency \in Frequencies
    /\ callbackContract = None
    /\ inactivityClaimNonce = [k \in GroupKeys |-> 0]
    /\ requestedFor = <<>>
    /\ delivered = {}

NewBlock ==
    /\ mineBlock
    /\ UNCHANGED <<groupsVars, relayVars, dkgVars, configVars, callbackVars, inactivityClaimNonce>>

genesis(newSeed) ==
    /\ numberOfActiveGroups = 0
    /\ lockAndStart(newSeed)
    /\ UNCHANGED <<block, groupsVars, relayVars, configVars, callbackVars, inactivityClaimNonce>>

(* Mutant: a request without a callback does not clear the contract.       *)
requestRelayEntryKeepingCallback(consumer) ==
    /\ requestCount < MaxRequests
    /\ canSelectGroup(activeTerminatedGroups)
    /\ expireOldGroups(activeTerminatedGroups)
    /\ requestEntry(selectedGroup(previousEntry, activeTerminatedGroups))
    /\ callbackContract' = IF consumer = None THEN callbackContract ELSE consumer
    /\ requestedFor' = Append(requestedFor, consumer)
    /\ IF (requestCount + 1) % groupCreationFrequency = 0 /\ currentState = "IDLE"
       THEN lockState
       ELSE UNCHANGED dkgVars
    /\ UNCHANGED <<block, groupsData, groupsRegistry, groupLifetime, configVars,
                   delivered, inactivityClaimNonce>>

requestRelayEntry(consumer) ==
    /\ requestCount < MaxRequests
    /\ canSelectGroup(activeTerminatedGroups)
    /\ expireOldGroups(activeTerminatedGroups)
    /\ requestEntry(selectedGroup(previousEntry, activeTerminatedGroups))
    /\ callbackContract' = consumer
    /\ requestedFor' = Append(requestedFor, consumer)
    /\ IF (requestCount + 1) % groupCreationFrequency = 0 /\ currentState = "IDLE"
       THEN lockState
       ELSE UNCHANGED dkgVars
    /\ UNCHANGED <<block, groupsData, groupsRegistry, groupLifetime, configVars,
                   delivered, inactivityClaimNonce>>

(* What both forms of submitRelayEntry do once the entry is accepted. The  *)
(* callback contract may fail, which is tolerated.                         *)
entryAccepted(entry) ==
    /\ IF currentState = "AWAITING_SEED" THEN start(entry) ELSE UNCHANGED dkgVars
    /\ delivered' = IF callbackContract = None THEN delivered
                    ELSE delivered \cup {<<currentRequestID, callbackContract>>}
    /\ UNCHANGED <<block, groupsVars, configVars, callbackContract, requestedFor,
                   inactivityClaimNonce>>

submitRelayEntry(entry) ==
    /\ submitEntryBeforeSoftTimeout(entry)
    /\ entryAccepted(entry)

(* The form that takes the group members, and slashes them after the soft  *)
(* timeout.                                                                *)
submitRelayEntryAnyTime(entry) ==
    /\ submitEntry(entry)
    /\ entryAccepted(entry)

(* Mutant: a timeout can only be reported if another group can take over.  *)
reportRelayEntryTimeoutIfRetried ==
    /\ currentRequestGroupID \in GroupIds
    /\ markTerminated(currentRequestGroupID)
    /\ LET terminatedGroups == withTerminated(currentRequestGroupID)
       IN  /\ expireOldGroups(terminatedGroups)
           /\ canSelectGroup(terminatedGroups)
           /\ retryOnEntryTimeout(selectedGroup(previousEntry, terminatedGroups))
    /\ UNCHANGED <<block, groupsRegistry, groupLifetime, dkgVars, configVars, callbackVars,
                   inactivityClaimNonce>>

reportRelayEntryTimeout ==
    /\ currentRequestGroupID \in GroupIds
    /\ markTerminated(currentRequestGroupID)
    /\ LET terminatedGroups == withTerminated(currentRequestGroupID)
       IN  /\ expireOldGroups(terminatedGroups)
           /\ IF canSelectGroup(terminatedGroups)
              THEN /\ retryOnEntryTimeout(selectedGroup(previousEntry, terminatedGroups))
                   /\ UNCHANGED dkgVars
              ELSE /\ cleanupOnEntryTimeout
                   /\ IF currentState = "AWAITING_SEED"
                      THEN notifySeedTimedOut
                      ELSE UNCHANGED dkgVars
    /\ UNCHANGED <<block, groupsRegistry, groupLifetime, configVars, callbackVars,
                   inactivityClaimNonce>>

(* The signature of the sender's address shows that the key has leaked.    *)
reportUnauthorizedSigning(id) ==
    /\ markTerminated(id)
    /\ activeTerminatedGroups' = withTerminated(id)
    /\ UNCHANGED <<block, groupsRegistry, expiredGroupOffset, groupLifetime, relayVars,
                   dkgVars, configVars, callbackVars, inactivityClaimNonce>>

(* Mutant: the public key is not validated at submission.                  *)
submitDkgResultUnvalidated(caller, r) ==
    /\ submitResult(caller, r)
    /\ UNCHANGED <<block, groupsVars, relayVars, configVars, callbackVars, inactivityClaimNonce>>

submitDkgResult(caller, r) ==
    /\ validatePublicKey(r.groupPubKey)
    /\ submitResult(caller, r)
    /\ UNCHANGED <<block, groupsVars, relayVars, configVars, callbackVars, inactivityClaimNonce>>

notifyDkgTimeout ==
    /\ notifyTimeout
    /\ UNCHANGED <<block, groupsVars, relayVars, configVars, callbackVars, inactivityClaimNonce>>

approveDkgResult(caller, r) ==
    /\ approveResult(caller, r)
    /\ addGroup(r.groupPubKey, r.members)
    /\ complete
    /\ UNCHANGED <<block, relayVars, configVars, callbackVars, inactivityClaimNonce>>

challengeDkgResult(r) ==
    /\ challengeResult(r)
    /\ UNCHANGED <<block, groupsVars, relayVars, configVars, callbackVars, inactivityClaimNonce>>

notifyOperatorInactivity(id, nonce) ==
    /\ nonce = inactivityClaimNonce[groupsRegistry[id + 1]]
    /\ isGroupActive(id)
    /\ inactivityClaimNonce' = [inactivityClaimNonce EXCEPT ![groupsRegistry[id + 1]] = @ + 1]
    /\ UNCHANGED <<block, groupsVars, relayVars, dkgVars, configVars, callbackVars>>

updateRelayEntryParameters(t) ==
    /\ setTimeouts(t)
    /\ UNCHANGED <<block, groupsVars, dkgVars, configVars, callbackVars, inactivityClaimNonce>>

updateGroupCreationParameters(frequency, lifetime, p) ==
    /\ setParameters(p)
    /\ groupCreationFrequency' = frequency
    /\ groupLifetime' = lifetime
    /\ UNCHANGED <<block, groupsData, groupsRegistry, activeTerminatedGroups,
                   expiredGroupOffset, relayVars, dkgVars, callbackVars, inactivityClaimNonce>>

Transaction ==
    \/ \E s \in Members : genesis(s)
    \/ \E consumer \in Consumers \cup {None} : requestRelayEntry(consumer)
    \/ \E entry \in Entries : submitRelayEntry(entry)
    \/ \E entry \in Entries : submitRelayEntryAnyTime(entry)
    \/ reportRelayEntryTimeout
    \/ \E id \in GroupIds : reportUnauthorizedSigning(id)
    \/ \E caller \in Operators, r \in DkgResult : submitDkgResult(caller, r)
    \/ notifyDkgTimeout
    \/ \E caller \in Callers, r \in DkgResult : approveDkgResult(caller, r)
    \/ \E r \in DkgResult : challengeDkgResult(r)
    \/ \E id \in GroupIds, nonce \in 0..(MaxNonce - 1) : notifyOperatorInactivity(id, nonce)
    \/ \E t \in RelayTimeouts : updateRelayEntryParameters(t)
    \/ \E f \in Frequencies, lifetime \in Lifetimes, p \in DkgParameters :
          updateGroupCreationParameters(f, lifetime, p)

Next == NewBlock \/ Transaction

Spec == Init /\ [][Next]_vars

(* Blocks are mined and the timeout of an entry is reported by anyone, who *)
(* is rewarded for it.                                                     *)
Fairness == WF_vars(NewBlock) /\ WF_vars(reportRelayEntryTimeout)

SpecFair == Spec /\ Fairness

-----------------------------------------------------------------------------
(* The stored data always belongs to the stage the creation is in, and the *)
(* blocks recorded for it follow each other, also where key generation     *)
(* ends by the passing of time alone: the subtraction in challengeResult   *)
(* does not underflow and a result is never there before its time.         *)
NoResidue ==
    /\ ~locked => startBlock = 0
    /\ IF startBlock = 0
       THEN /\ seed = None
            /\ resultSubmissionStartBlockOffset = 0
            /\ submittedResultBlock = 0
       ELSE seed # None /\ startBlock <= block
    /\ resultSubmissionStartBlockOffset > 0 =>
          startBlock + offchainDkgTime + resultSubmissionStartBlockOffset <= block
    /\ IF submittedResultBlock = 0
       THEN submittedResult = None
       ELSE /\ submittedResult # None
            /\ startBlock + offchainDkgTime < submittedResultBlock
            /\ submittedResultBlock <= block

(* The pool is never locked for a seed that no request will bring: while   *)
(* the creation of a group awaits a seed, a relay request is in progress,  *)
(* across retries with other groups and requests that are given up.        *)
SeedHasRequest == currentState = "AWAITING_SEED" => isRequestInProgress

(* No two groups share a key, although the key is validated at submission  *)
(* and registered, unconditionally, a challenge period later.              *)
KeysAreUnique ==
    /\ IsInjective(groupsRegistry)
    /\ submittedResult # None => submittedResult.groupPubKey \notin ToSet(groupsRegistry)

(* Whenever a group is put in charge of a request, by requestRelayEntry or *)
(* by the retry in reportRelayEntryTimeout, it is neither terminated nor   *)
(* too old at that moment.                                                 *)
ChosenGroupIsActive ==
    [][requestVars' # requestVars /\ isRequestInProgress'
         => currentRequestGroupID' \in GroupIds' /\ isGroupActive(currentRequestGroupID)']_vars

(* An entry is delivered to the contract named in the request it answers,  *)
(* however requests, retries and given-up requests follow each other.      *)
CallbacksReachRequester ==
    \A d \in delivered : requestedFor[d[1]] = d[2]

Lifecycle == INSTANCE DkgLifecycle WITH
    Result <- [groupPubKey : GroupKeys, members : Members],
    StartsAtOnce <- TRUE,
    stage <- IF currentState = "KEY_GENERATION" THEN "AWAITING_RESULT" ELSE currentState,
    candidate <- IF submittedResult = None THEN None
                 ELSE [groupPubKey |-> submittedResult.groupPubKey,
                       members |-> submittedResult.members],
    registered <- {[groupPubKey |-> k, members |-> groupsData[k].members] :
                      k \in ToSet(groupsRegistry)}

(* The beacon implements the abstract life cycle of a group creation.      *)
ImplementsLifecycle == Lifecycle!Spec

(* No group stays in charge of a request past the hard timeout forever:    *)
(* the timeout is reported, and another group takes over or the request is *)
(* given up, whatever else was terminated or expired in the meantime.      *)
(* Excepted are groups terminated for unauthorized signing while in        *)
(* charge.                                                                 *)
EveryChargeEnds ==
    hasRequestTimedOut ~> ~hasRequestTimedOut \/ isGroupTerminated(currentRequestGroupID)

(* What random-beacon/README.adoc says: when the hard timeout is reached,  *)
(* anyone can notify about it. The report reverts if the group in charge   *)
(* was terminated before by reportUnauthorizedSigning; as the entry is too *)
(* late as well, the request stays in progress from then on.               *)
HardTimeoutCanBeReported ==
    hasRequestTimedOut => ~isGroupTerminated(currentRequestGroupID)

(* What the comment of genesis says: it triggers group selection if there  *)
(* are no active groups. The number of active groups it looks at is stale: *)
(* groups that became too old are counted until a transaction expires      *)
(* them, and requestRelayEntry, which would, reverts without active groups.*)
GenesisIfNoActiveGroups ==
    (currentState = "IDLE" /\ \A id \in GroupIds : ~isGroupActive(id))
        => numberOfActiveGroups = 0
=============================================================================
