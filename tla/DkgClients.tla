----------------------------- MODULE DkgClients -----------------------------
(***************************************************************************)
(* The creation of one wallet as the clients of the selected operators     *)
(* carry it out against WalletRegistry: key generation and publication     *)
(* of its result (pkg/tbtc/dkg.go, dkg_loop.go, dkg_submit.go, the result  *)
(* states of pkg/tecdsa/dkg), validation, challenge and approval of every  *)
(* result that gets submitted (executeDkgValidation). Their transactions   *)
(* are the actions of WalletRegistry.                                      *)
(*                                                                         *)
(* Operator i holds member index i. The key is named after the members     *)
(* that generated it. The threshold protocol is external: it succeeds for  *)
(* a member if all the members it counts on run it with the same members.  *)
(* Operators outside Watchers may do all of this at any pace; the faulty   *)
(* ones may also submit a result that is not valid. OnlyValidWallets of    *)
(* WalletRegistry holds here without an assumption on when a challenge     *)
(* arrives: one node that keeps up suffices, although challenges may be    *)
(* lost and nodes may stop, if the period leaves time for another try.     *)
(***************************************************************************)
EXTENDS WalletRegistry, Sequences

CONSTANTS
    GroupQuorum,
    ConfirmationBlocks,             \* dkgStartedConfirmationBlocks
    AnnouncementBlocks,             \* delay and active blocks of the announcement
    MaximumProtocolBlocks,          \* dkgAttemptMaximumProtocolBlocks
    SubmissionDelayStepBlocks, ApprovalDelayStepBlocks,
    ChallengeConfirmationBlocks,
    Watchers,       \* operators whose clients keep up with the chain
    Faulty,         \* operators that may submit an invalid result
    MaxInvalid,     \* bound on invalid results
    MaxLost         \* bound on challenges lost in a reorganisation

ASSUME ClientsAssumption ==
    /\ IsFiniteSet(Operators) /\ Operators = 1..Cardinality(Operators)
    /\ Keys = SUBSET Operators
    /\ GroupQuorum \in 1..Cardinality(Operators)
    /\ 2 * GroupQuorum > Cardinality(Operators)
    /\ {ConfirmationBlocks, AnnouncementBlocks, MaximumProtocolBlocks, SubmissionDelayStepBlocks,
        ApprovalDelayStepBlocks, ChallengeConfirmationBlocks, MaxInvalid, MaxLost} \subseteq Nat
    /\ Watchers \subseteq Operators /\ Watchers # {}
    /\ Faulty \subseteq Operators \ Watchers

VARIABLES
    pc,                 \* where the goroutine of a member is
    group,              \* the members a member runs the protocol with
    signatures,         \* signatures of results broadcast: the member and its group
    submissionBlock,    \* the block at which it is a member's turn to submit
    noticed,            \* members whose subscription told them of a result
    submissions,        \* the DkgResultSubmitted events
    task,               \* what a node does about a submitted result
    tries,              \* its challenges of it
    running,            \* the nodes that run
    lost                \* challenges lost so far

memberVars == <<pc, group, signatures, submissionBlock, noticed>>
taskVars == <<task, tries>>
clientVars == <<memberVars, submissions, taskVars, running, lost>>
registryState == <<dkgVars, parameters, registryVars, beaconVars, history>>
allVars == <<vars, clientVars>>

Submissions == 1..(MaxInvalid + 1)
Submission == [result : Result, at : 1..MaxBlock]

ClientsTypeOK ==
    /\ TypeOK
    /\ pc \in [Operators -> {"idle", "announcing", "generating", "signing", "queued", "done", "out"}]
    /\ group \in [Operators -> SUBSET Operators]
    /\ signatures \subseteq Operators \X SUBSET Operators
    /\ submissionBlock \in [Operators -> Nat]
    /\ noticed \subseteq Operators
    /\ submissions \in Seq(Submission) /\ Len(submissions) <= MaxInvalid + 1
    /\ task \in [Watchers \X Submissions ->
                    {"none", "challenging", "confirming", "approving", "done"}]
    /\ tries \in [Watchers \X Submissions -> 0..(MaxLost + 1)]
    /\ running \subseteq Operators
    /\ lost \in 0..MaxLost

(* The beacon has just delivered the seed.                                 *)
StartedAt == 1

ClientsInit ==
    /\ block = StartedAt
    /\ locked = TRUE
    /\ stateLockBlock = StartedAt
    /\ startBlock = StartedAt
    /\ seed \in Seeds
    /\ resultSubmissionStartBlockOffset = 0
    /\ submittedResult = None
    /\ submittedResultBlock = 0
    /\ parameters \in {p \in Parameters : ValidParameters(p)}
    /\ wallets = [k \in Keys |-> None]
    /\ inactivityClaimNonce = [k \in Keys |-> 0]
    /\ randomBeacon = 1
    /\ relayRequests = {}
    /\ seedRequestedAt = StartedAt
    /\ windowStart = StartedAt
    /\ acceptedClaims = {}
    /\ pc = [m \in Operators |-> "idle"]
    /\ group = [m \in Operators |-> {}]
    /\ signatures = {}
    /\ submissionBlock = [m \in Operators |-> 0]
    /\ noticed = {}
    /\ submissions = << >>
    /\ task = [t \in Watchers \X Submissions |-> "none"]
    /\ tries = [t \in Watchers \X Submissions |-> 0]
    /\ running = Operators
    /\ lost = 0
-----------------------------------------------------------------------------
(* Key generation by member m.                                             *)
announcementEndBlock == StartedAt + ConfirmationBlocks + AnnouncementBlocks
attemptTimeoutBlock == announcementEndBlock + MaximumProtocolBlocks
dkgTimeoutBlock == StartedAt + parameters.resultSubmissionTimeout

(* The context of the member's goroutine is cancelled.                     *)
ctxDone(m) == m \in noticed \/ block >= dkgTimeoutBlock

goto(m, step) == pc' = [pc EXCEPT ![m] = step]

(* The goroutine ends and its subscription with it.                        *)
end(m) ==
    /\ goto(m, "done")
    /\ group' = [group EXCEPT ![m] = {}]
    /\ submissionBlock' = [submissionBlock EXCEPT ![m] = 0]
    /\ noticed' = noticed \ {m}

(* The start of the creation is confirmed; a node that lacks               *)
(* pre-parameters stays out.                                               *)
joinDKGIfEligible(m) ==
    /\ pc[m] = "idle"
    /\ block >= StartedAt + ConfirmationBlocks
    /\ \/ currentState = "AWAITING_RESULT" /\ goto(m, "announcing")
       \/ goto(m, "out")
    /\ UNCHANGED <<group, signatures, submissionBlock, noticed>>

announced == {m \in Operators : pc[m] \notin {"idle", "out"}}

(* Mutant: the protocol is started with whoever is ready.                  *)
endAnnouncementWithoutQuorum(m) ==
    /\ pc[m] = "announcing"
    /\ block >= announcementEndBlock
    /\ \E heard \in SUBSET announced :
          IF ~ctxDone(m)
          THEN /\ group' = [group EXCEPT ![m] = heard \cup {m}]
               /\ goto(m, "generating")
               /\ UNCHANGED <<submissionBlock, noticed>>
          ELSE end(m)
    /\ UNCHANGED signatures

(* The one attempt there is: without a quorum of ready members it is over. *)
(* Any of the announcements sent to the member may have been lost.         *)
endAnnouncement(m) ==
    /\ pc[m] = "announcing"
    /\ block >= announcementEndBlock
    /\ \E heard \in SUBSET announced :
          LET ready == heard \cup {m} IN
          IF ~ctxDone(m) /\ Cardinality(ready) >= GroupQuorum
          THEN /\ group' = [group EXCEPT ![m] = ready]
               /\ goto(m, "generating")
               /\ UNCHANGED <<submissionBlock, noticed>>
          ELSE end(m)
    /\ UNCHANGED signatures

(* The members of S run the threshold protocol together. Those in          *)
(* completed end up with a key share. They store it, which may fail        *)
(* without an effect on what follows, sign the result and broadcast that.  *)
(* The last messages did not reach the others.                             *)
runProtocol(S, completed) ==
    /\ completed # {}
    /\ block < attemptTimeoutBlock
    /\ \A m \in S : pc[m] = "generating" /\ group[m] = S /\ ~ctxDone(m)
    /\ pc' = [m \in Operators |-> IF m \in completed THEN "signing"
                                  ELSE IF m \in S THEN "done" ELSE pc[m]]
    /\ group' = [m \in Operators |-> IF m \in S \ completed THEN {} ELSE group[m]]
    /\ signatures' = signatures \cup (completed \X {S})
    /\ UNCHANGED <<submissionBlock, noticed>>

(* resultSigningState waits for every member of the group.                 *)
signaturesCollected(m) == group[m] \X {group[m]} \subseteq signatures

(* SubmitResult up to the wait for the member's turn.                      *)
queueForSubmission(m) ==
    /\ pc[m] = "signing"
    /\ ~ctxDone(m)
    /\ signaturesCollected(m)
    /\ IF currentState = "AWAITING_RESULT"
       THEN /\ submissionBlock' = [submissionBlock EXCEPT ![m] =
                   block + (m - 1) * SubmissionDelayStepBlocks]
            /\ goto(m, "queued")
            /\ UNCHANGED <<group, noticed>>
       ELSE end(m)
    /\ UNCHANGED signatures

(* The protocol is cancelled, or its attempt is over. A protocol that      *)
(* failed earlier is one that does not complete until then.                *)
abort(m) ==
    /\ pc[m] \in {"generating", "signing"}
    /\ \/ ctxDone(m)
       \/ pc[m] = "generating" /\ block >= attemptTimeoutBlock
    /\ end(m)
    /\ UNCHANGED signatures

onResultSubmitted(m) ==
    /\ submissions # << >>
    /\ pc[m] \notin {"idle", "done", "out"}
    /\ m \notin noticed
    /\ noticed' = noticed \cup {m}
    /\ UNCHANGED <<pc, group, signatures, submissionBlock>>

Member(m) ==
    /\ \/ joinDKGIfEligible(m) \/ endAnnouncement(m)
       \/ queueForSubmission(m) \/ abort(m) \/ onResultSubmitted(m)
    /\ UNCHANGED <<block, registryState, submissions, taskVars, running, lost>>

KeyGeneration ==
    /\ \E S \in SUBSET running : \E completed \in SUBSET S : runProtocol(S, completed)
    /\ UNCHANGED <<block, registryState, submissions, taskVars, running, lost>>

resultOf(m) ==
    [submitter |-> m, groupPubKey |-> group[m], members |-> seed, wellFormed |-> TRUE]

emitSubmitted(r) == submissions' = Append(submissions, [result |-> r, at |-> block])

(* The member's turn: the transaction is sent unless the member has heard  *)
(* of a result, and may be refused all the same.                           *)
submit(m) ==
    /\ pc[m] = "queued"
    /\ block >= submissionBlock[m] \/ ctxDone(m)
    /\ end(m)
    /\ \/ /\ ~ctxDone(m)
          /\ submitDkgResult(m, resultOf(m))
          /\ emitSubmitted(resultOf(m))
       \/ /\ ctxDone(m) \/ currentState # "AWAITING_RESULT" \/ hasDkgTimedOut
          /\ UNCHANGED <<vars, submissions>>
    /\ UNCHANGED <<signatures, taskVars, running, lost>>

(* A result that does not pass the validator, for a key of nobody.         *)
submitInvalidResult(o) ==
    LET r == [submitter |-> o, groupPubKey |-> {}, members |-> seed, wellFormed |-> FALSE] IN
    /\ Len(submissions) < MaxInvalid
    /\ submitDkgResult(o, r)
    /\ emitSubmitted(r)
    /\ UNCHANGED <<memberVars, taskVars, running, lost>>
-----------------------------------------------------------------------------
(* What node n does about the i-th submitted result.                       *)
event(i) == submissions[i]
onTask(n, i, step) == task' = [task EXCEPT ![<<n, i>>] = step]

(* Validation of a result the node hears of. The contract validates it     *)
(* against the creation in progress and refuses when there is none.        *)
executeDkgValidation(n, i) ==
    /\ i <= Len(submissions)
    /\ task[<<n, i>>] = "none"
    /\ onTask(n, i, IF startBlock = 0 THEN "done"
                    ELSE IF validate(event(i).result) THEN "approving"
                    ELSE "challenging")
    /\ UNCHANGED <<vars, memberVars, submissions, tries, running, lost>>

challengeable(i) ==
    /\ currentState = "CHALLENGE"
    /\ block <= challengePeriodEnd
    /\ event(i).result = submittedResult

(* Mutant: the node does not check that its challenge took effect.         *)
challengeOnce(n, i) ==
    /\ task[<<n, i>>] = "challenging"
    /\ onTask(n, i, "done")
    /\ \/ challengeDkgResult(event(i).result) /\ UNCHANGED lost
       \/ challengeable(i) /\ lost < MaxLost /\ lost' = lost + 1 /\ UNCHANGED vars
       \/ ~challengeable(i) /\ UNCHANGED <<vars, lost>>
    /\ UNCHANGED <<memberVars, submissions, tries, running>>

(* A challenge takes effect, is lost with the block that held it, or is    *)
(* refused, which ends the task.                                           *)
challenge(n, i) ==
    /\ task[<<n, i>>] = "challenging"
    /\ \/ /\ challengeable(i)
          /\ onTask(n, i, "confirming")
          /\ tries' = [tries EXCEPT ![<<n, i>>] = @ + 1]
          /\ \/ challengeDkgResult(event(i).result) /\ UNCHANGED lost
             \/ lost < MaxLost /\ lost' = lost + 1 /\ UNCHANGED vars
       \/ /\ ~challengeable(i)
          /\ onTask(n, i, "done")
          /\ UNCHANGED <<vars, tries, lost>>
    /\ UNCHANGED <<memberVars, submissions, running>>

confirmationBlock(n, i) == event(i).at + tries[<<n, i>>] * ChallengeConfirmationBlocks

(* The node looks whether the challenge left the challenge state.          *)
confirmChallenge(n, i) ==
    /\ task[<<n, i>>] = "confirming"
    /\ block >= confirmationBlock(n, i)
    /\ onTask(n, i, IF currentState # "CHALLENGE" THEN "done" ELSE "challenging")
    /\ UNCHANGED <<vars, memberVars, submissions, tries, running, lost>>

(* Mutant: the submitter's precedence is not added for the other members.  *)
approveBlockWithoutPrecedence(n, i) ==
    event(i).at + parameters.resultChallengePeriodLength + 1
        + (IF n = event(i).result.submitter THEN 0 ELSE (n - 1) * ApprovalDelayStepBlocks)

approveBlock(n, i) ==
    LET possible == event(i).at + parameters.resultChallengePeriodLength + 1 IN
    IF n = event(i).result.submitter
    THEN possible
    ELSE possible + parameters.submitterPrecedencePeriodLength
                  + (n - 1) * ApprovalDelayStepBlocks

(* The node approves in its turn, or learns that the result was approved.  *)
approve(n, i) ==
    LET r == event(i).result IN
    /\ task[<<n, i>>] = "approving"
    /\ onTask(n, i, "done")
    /\ \/ /\ block >= approveBlock(n, i)
          /\ approveDkgResult(n, r)
       \/ /\ \/ isWalletRegistered(r.groupPubKey)
             \/ block >= approveBlock(n, i) /\ ~approveResult(n, r)
          /\ UNCHANGED vars
    /\ UNCHANGED <<memberVars, submissions, tries, running, lost>>

Validation(n) ==
    \E i \in Submissions :
        executeDkgValidation(n, i) \/ challenge(n, i) \/ confirmChallenge(n, i) \/ approve(n, i)
-----------------------------------------------------------------------------
(* A watching node stops for good: neither the key generation nor the      *)
(* tasks of a node are resumed after a restart. One of them keeps running. *)
crash(n) ==
    /\ n \in running
    /\ Watchers \cap (running \ {n}) # {}
    /\ running' = running \ {n}
    /\ UNCHANGED <<vars, memberVars, submissions, taskVars, lost>>

(* Anyone may notify the timeout, challenge, or approve whatever result    *)
(* can be: the nodes outside Watchers and those that are no members.       *)
anyone ==
    /\ \/ notifyDkgTimeout
       \/ challengeDkgResult(submittedResult)
       \/ \E caller \in Faulty \cup {Outsider} : approveDkgResult(caller, submittedResult)
    /\ UNCHANGED clientVars

Client(n) ==
    /\ n \in running
    /\ \/ Member(n) \/ submit(n)
       \/ n \in Watchers /\ Validation(n)

(* What a watching node does within the block in which it is due: it joins *)
(* and leaves the announcement, submits in its turn, hears of a result,    *)
(* challenges it and confirms that, or approves it in its turn.            *)
overdue(n) ==
    \/ pc[n] = "idle" /\ block >= StartedAt + ConfirmationBlocks
    \/ pc[n] = "announcing" /\ block >= announcementEndBlock
    \/ submissions # << >> /\ pc[n] \in {"generating", "signing", "queued"} /\ n \notin noticed
    \/ pc[n] = "queued" /\ block >= submissionBlock[n]
    \/ \E i \in 1..Len(submissions) :
          \/ task[<<n, i>>] \in {"none", "challenging"}
          \/ task[<<n, i>>] = "confirming" /\ block >= confirmationBlock(n, i)
          \/ task[<<n, i>>] = "approving" /\ block >= approveBlock(n, i)

(* The model follows one creation: no block is mined after its end.        *)
NewBlockOfChain ==
    /\ startBlock > 0
    /\ \A n \in Watchers \cap running : ~overdue(n)
    /\ NewBlock
    /\ UNCHANGED clientVars

(* The creation is over, or the bound is reached.                          *)
finished ==
    /\ startBlock = 0 \/ block = MaxBlock
    /\ UNCHANGED allVars

ClientsNext ==
    \/ \E n \in Operators : Client(n)
    \/ KeyGeneration
    \/ \E n \in Watchers : crash(n)
    \/ \E o \in Faulty : submitInvalidResult(o)
    \/ anyone
    \/ NewBlockOfChain
    \/ finished

ClientsSpec == ClientsInit /\ [][ClientsNext]_allVars

-----------------------------------------------------------------------------
(* Two members never sign results of different groups, however differently *)
(* the announcements reached them, although the one attempt of             *)
(* dkg_loop.go lets every member decide alone whom to run the protocol     *)
(* with: the groups are quorums and a group completes only if all of it    *)
(* agrees. So the result of a creation does not depend on who submits.     *)
OneKeyPerCreation ==
    \A s, t \in signatures : s[2] = t[2]

(* A valid result is approved in turn. No node that waits its turn is      *)
(* refused for being early: the block computed by executeDkgValidation     *)
(* from the event, for the submitter and for the members after it, lies    *)
(* where approveResult of the contract lets exactly that operator in. And  *)
(* the result does not wait longer than until the turn of the first        *)
(* watching member that still runs, although the submitter and the members *)
(* before it may have stopped.                                             *)
ApprovedInTurn ==
    /\ \A n \in Watchers, i \in 1..Len(submissions) :
          /\ task[<<n, i>>] = "approving"
          /\ block >= approveBlock(n, i)
          /\ submittedResult = event(i).result
          => approveResult(n, event(i).result)
    /\ currentState = "CHALLENGE" /\ validate(submittedResult) =>
          \A n \in Watchers \cap running : block <= approveBlock(n, Len(submissions))
=============================================================================
