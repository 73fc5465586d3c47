-------------------------- MODULE DkgClientsProofs --------------------------
(***************************************************************************)
(* Proofs about DkgClients, for any number of operators, any quorum of     *)
(* more than half of them, and any delays and bounds.                      *)
(***************************************************************************)
EXTENDS DkgClients, WalletRegistryProofs, FiniteSetTheorems, TLAPS

(* Two groups that are large enough have a member in common.               *)
LEMMA GroupsMeet ==
    ASSUME NEW S \in SUBSET Operators, NEW T \in SUBSET Operators,
           Cardinality(S) >= GroupQuorum, Cardinality(T) >= GroupQuorum
    PROVE  \E m \in Operators : m \in S /\ m \in T
  <1> SUFFICES ASSUME S \cap T = {} PROVE FALSE
    BY Zenon
  <1>1. IsFiniteSet(Operators) /\ 2 * GroupQuorum > Cardinality(Operators) /\ GroupQuorum \in Int
    BY FS_CardinalityType, ClientsAssumption
  <1>2. IsFiniteSet(S) /\ IsFiniteSet(T) /\ Cardinality(S \cup T) <= Cardinality(Operators)
    BY <1>1, FS_Subset, Zenon
  <1>3. Cardinality(S \cup T) = Cardinality(S) + Cardinality(T)
    <2>1. Cardinality(S \cup T) = Cardinality(S) + Cardinality(T) - Cardinality(S \cap T)
      BY <1>2, FS_Union, Zenon
    <2>2. Cardinality(S \cap T) = 0
      BY FS_EmptySet, Zenon
    <2> QED
      BY <1>2, <2>1, <2>2, FS_CardinalityType
  <1>4. /\ Cardinality(S) \in Nat /\ Cardinality(T) \in Nat
        /\ Cardinality(Operators) \in Nat
    BY <1>1, <1>2, FS_CardinalityType, Zenon
  <1> QED
    BY <1>1, <1>2, <1>3, <1>4

(***************************************************************************)
(* A group that completed the protocol is a quorum and none of its members *)
(* is before the end of the protocol any more; a group that may still      *)
(* complete it is a quorum, too, all of whose members are before it.       *)
(***************************************************************************)
Steps == {"idle", "announcing", "generating", "signing", "queued", "done", "out"}
isPastProtocol(m) == pc[m] \in {"signing", "queued", "done"}

GroupInv ==
    /\ pc \in [Operators -> Steps]
    /\ group \in [Operators -> SUBSET Operators]
    /\ \A m \in Operators : pc[m] = "generating" => Cardinality(group[m]) >= GroupQuorum
    /\ \A s \in signatures :
          /\ s[2] \in SUBSET Operators
          /\ Cardinality(s[2]) >= GroupQuorum
          /\ \A m \in s[2] : isPastProtocol(m)
    /\ running \subseteq Operators
    /\ OneKeyPerCreation

(* No group exists at the start.                                           *)
LEMMA InitGroupInv == ClientsInit => GroupInv
  BY DEF ClientsInit, GroupInv, OneKeyPerCreation, Steps

(* A member that goes on alone.                                            *)
LEMMA MemberSteps ==
    ASSUME GroupInv, NEW m \in Operators, NEW step \in Steps, NEW g \in SUBSET Operators,
           goto(m, step), group' = [group EXCEPT ![m] = g], signatures' = signatures, running' = running,
           step = "generating" => Cardinality(g) >= GroupQuorum,
           isPastProtocol(m) => step \in {"signing", "queued", "done"}
    PROVE  GroupInv'
  <1>1. pc' = [pc EXCEPT ![m] = step]
    BY Zenon DEF goto
  <1>2. pc' \in [Operators -> Steps] /\ group' \in [Operators -> SUBSET Operators]
    BY <1>1, Zenon DEF GroupInv
  <1>3. \A r \in Operators : pc'[r] = "generating" => Cardinality(group'[r]) >= GroupQuorum
    BY <1>1, Zenon DEF GroupInv
  <1>4. \A s \in signatures : \A r \in s[2] : isPastProtocol(r)'
    BY <1>1, Zenon DEF GroupInv, isPastProtocol
  <1> QED
    BY <1>2, <1>3, <1>4, Zenon DEF GroupInv, OneKeyPerCreation

(* A group completes the protocol only if it is a quorum whose members all *)
(* wait for it, so that no other quorum has completed.                     *)
LEMMA RunProtocol ==
    ASSUME GroupInv, NEW S \in SUBSET Operators, NEW completed \in SUBSET S,
           runProtocol(S, completed), running' = running
    PROVE  GroupInv'
  <1>1. /\ completed # {}
        /\ \A m \in S : pc[m] = "generating" /\ group[m] = S
        /\ pc' = [m \in Operators |-> IF m \in completed THEN "signing"
                                      ELSE IF m \in S THEN "done" ELSE pc[m]]
        /\ group' = [m \in Operators |-> IF m \in S \ completed THEN {} ELSE group[m]]
        /\ signatures' = signatures \cup (completed \X {S})
    BY Zenon DEF runProtocol
  <1>2. Cardinality(S) >= GroupQuorum
    BY <1>1, Zenon DEF GroupInv
  <1>3. signatures = {}
    <2> SUFFICES ASSUME NEW s \in signatures PROVE FALSE
      BY Zenon
    <2>1. PICK m \in Operators : m \in S /\ m \in s[2]
      BY <1>2, GroupsMeet, Zenon DEF GroupInv
    <2> QED
      BY <1>1, <2>1, Zenon DEF GroupInv, isPastProtocol
  <1>4. \A s \in signatures' : s[2] = S
    BY <1>1, <1>3, Zenon
  <1>5. pc' \in [Operators -> Steps] /\ group' \in [Operators -> SUBSET Operators]
    BY <1>1, Zenon DEF GroupInv, Steps
  <1>6. \A m \in Operators : pc'[m] = "generating" => Cardinality(group'[m]) >= GroupQuorum
    BY <1>1, Zenon DEF GroupInv
  <1>7. \A m \in S : isPastProtocol(m)'
    BY <1>1, Zenon DEF isPastProtocol
  <1> QED
    BY <1>2, <1>4, <1>5, <1>6, <1>7, Zenon DEF GroupInv, OneKeyPerCreation

(* Every step keeps what is known of the groups.                           *)
LEMMA NextGroupInv == GroupInv /\ [ClientsNext]_allVars => GroupInv'
  <1> SUFFICES ASSUME GroupInv, [ClientsNext]_allVars PROVE GroupInv'
    BY Zenon
  <1>1. ASSUME UNCHANGED <<pc, group, signatures>>, running' \subseteq running PROVE GroupInv'
    BY <1>1, Zenon DEF GroupInv, OneKeyPerCreation, isPastProtocol
  <1>2. ASSUME NEW m \in Operators, end(m), UNCHANGED <<signatures, running>> PROVE GroupInv'
    <2>1. goto(m, "done") /\ group' = [group EXCEPT ![m] = {}]
      BY <1>2, Zenon DEF end
    <2>2. "done" \in Steps /\ {} \in SUBSET Operators
      BY Zenon DEF Steps
    <2> QED
      BY <1>2, <2>1, <2>2, MemberSteps, Zenon
  <1>3. ASSUME NEW m \in Operators, NEW step \in Steps, goto(m, step),
               UNCHANGED <<group, signatures, running>>,
               step # "generating", isPastProtocol(m) => step \in {"signing", "queued", "done"}
        PROVE  GroupInv'
    <2>1. group' = [group EXCEPT ![m] = group[m]] /\ group[m] \in SUBSET Operators
      BY <1>3, Zenon DEF GroupInv
    <2> QED
      BY <1>3, <2>1, MemberSteps, Zenon
  <1>4. ASSUME NEW m \in Operators, Member(m) PROVE GroupInv'
    <2>0. running' = running
      BY <1>4, Zenon DEF Member
    <2>1. CASE joinDKGIfEligible(m)
      BY <2>0, <1>3, <2>1, Zenon DEF joinDKGIfEligible, isPastProtocol, Steps
    <2>2. CASE endAnnouncement(m)
      <3>1. PICK heard \in SUBSET announced :
               \/ /\ Cardinality(heard \cup {m}) >= GroupQuorum
                  /\ group' = [group EXCEPT ![m] = heard \cup {m}]
                  /\ goto(m, "generating")
               \/ end(m)
        BY <2>2, Zenon DEF endAnnouncement
      <3>2. heard \cup {m} \in SUBSET Operators /\ ~isPastProtocol(m) /\ signatures' = signatures
        BY <2>2, Zenon DEF announced, endAnnouncement, isPastProtocol
      <3> QED
        BY <2>0, <1>2, <3>1, <3>2, MemberSteps, Zenon DEF Steps
    <2>3. CASE queueForSubmission(m)
      BY <2>0, <1>2, <1>3, <2>3, Zenon DEF queueForSubmission, Steps
    <2>4. CASE abort(m)
      BY <2>0, <1>2, <2>4, Zenon DEF abort
    <2>5. CASE onResultSubmitted(m)
      BY <2>0, <1>1, <2>5, Zenon DEF onResultSubmitted
    <2> QED
      BY <1>4, <2>1, <2>2, <2>3, <2>4, <2>5, Zenon DEF Member
  <1>5. ASSUME NEW n \in Operators, Client(n) PROVE GroupInv'
    <2>1. CASE submit(n)
      BY <1>2, <2>1, Zenon DEF submit
    <2>2. ASSUME NEW i \in Submissions,
                 executeDkgValidation(n, i) \/ challenge(n, i) \/ confirmChallenge(n, i) \/ approve(n, i)
          PROVE  GroupInv'
      BY <1>1, <2>2, Zenon DEF executeDkgValidation, challenge, confirmChallenge, approve, memberVars
    <2> QED
      BY <1>4, <1>5, <2>1, <2>2, Zenon DEF Client, Validation
  <1>6. CASE KeyGeneration
    <2>1. PICK S \in SUBSET running : \E completed \in SUBSET S : runProtocol(S, completed)
      BY <1>6, Zenon DEF KeyGeneration
    <2>2. S \in SUBSET Operators /\ running' = running
      BY <1>6, Zenon DEF KeyGeneration, GroupInv
    <2> QED
      BY <2>1, <2>2, RunProtocol, Zenon
  <1>7. ASSUME NEW n \in Watchers, crash(n) PROVE GroupInv'
    BY <1>1, <1>7, Zenon DEF crash, memberVars
  <1>8. ASSUME NEW o \in Faulty, submitInvalidResult(o) PROVE GroupInv'
    BY <1>1, <1>8, Zenon DEF submitInvalidResult, memberVars
  <1>9. CASE anyone \/ NewBlockOfChain \/ finished \/ UNCHANGED allVars
    BY <1>1, <1>9, Zenon DEF anyone, NewBlockOfChain, finished, allVars, clientVars, memberVars
  <1> QED
    BY <1>5, <1>6, <1>7, <1>8, <1>9, Zenon DEF ClientsNext

(* Members never sign results of different groups, although each decides   *)
(* alone, in dkg_loop.go, whom to run the protocol with.                   *)
THEOREM OneKey == ClientsSpec => []OneKeyPerCreation
  <1>1. GroupInv => OneKeyPerCreation
    BY Zenon DEF GroupInv
  <1> QED
    BY <1>1, InitGroupInv, NextGroupInv, PTL DEF ClientsSpec
-----------------------------------------------------------------------------
(***************************************************************************)
(* The nodes and the contract. There is one creation; a valid result ends  *)
(* it, so at most the last of the submitted results is valid, and it is    *)
(* the one the contract holds. Tasks of valid results wait to approve, all *)
(* others do not.                                                          *)
(***************************************************************************)
TaskSteps == {"none", "challenging", "confirming", "approving", "done"}
last == Len(submissions)
isPending == startBlock > 0 /\ submittedResultBlock > 0

EventTypes ==
    /\ submissions \in Seq([result : Result, at : Nat])
    /\ last <= MaxInvalid + 1
    /\ task \in [Watchers \X Submissions -> TaskSteps]
    /\ tries \in [Watchers \X Submissions -> Nat]
    /\ lost \in 0..MaxLost

EventInv ==
    /\ startBlock = 0 => ~locked
    /\ isPending => /\ last > 0
                    /\ event(last).result = submittedResult
                    /\ event(last).at = submittedResultBlock
    /\ startBlock > 0 =>
          /\ \A i \in 1..last : validate(event(i).result) => i = last /\ isPending
          /\ last > MaxInvalid => isPending /\ validate(submittedResult)

FreshTasks(n) ==
    \A i \in Submissions :
        /\ task[<<n, i>>] = "none" => tries[<<n, i>>] = 0
        /\ i > last => task[<<n, i>>] = "none"

TaskInv(n) ==
    /\ FreshTasks(n)
    /\ startBlock > 0 =>
          \A i \in 1..last : task[<<n, i>>] = "approving" => validate(event(i).result)

(* A node that runs has not missed what it has to do about a valid result  *)
(* that is pending.                                                        *)
TurnInv(n) ==
    isPending /\ validate(submittedResult) /\ n \in running =>
        \/ task[<<n, last>>] = "none" /\ block = event(last).at
        \/ task[<<n, last>>] = "approving" /\ block <= approveBlock(n, last)

ClientsInv ==
    /\ StageInv
    /\ SubmittedKeyIsFree
    /\ EventTypes
    /\ EventInv
    /\ \A n \in Watchers : TaskInv(n)
    /\ \A n \in Watchers : TurnInv(n)

(* The same for an invalid result: the node has a challenge to make, or to *)
(* confirm, and no more of them are behind it than were lost.              *)
ChallengeInv(n) ==
    isPending /\ ~validate(submittedResult) /\ n \in running =>
        /\ task[<<n, last>>] \in {"none", "challenging", "confirming"}
        /\ block <= confirmationBlock(n, last)
        /\ tries[<<n, last>>] <= lost

(***************************************************************************)
(* The steps of the clients, as the contract and the tasks see them.       *)
(***************************************************************************)
Quiet ==
    /\ UNCHANGED <<vars, submissions, task, tries, lost>>
    /\ running' \subseteq running

Submitted(r) ==
    /\ submitDkgResult(r.submitter, r)
    /\ emitSubmitted(r)
    /\ validate(r) \/ last < MaxInvalid
    /\ UNCHANGED <<task, tries, running, lost>>

Works(n, i) == executeDkgValidation(n, i) \/ challenge(n, i) \/ confirmChallenge(n, i) \/ approve(n, i)

(* What a step of a client does to the contract and to the tasks of the    *)
(* others.                                                                 *)
LEMMA ClientSteps ==
    ASSUME GroupInv, StageInv, [ClientsNext]_allVars
    PROVE  \/ Quiet
           \/ \E r \in Result : Submitted(r)
           \/ \E n \in Watchers, i \in Submissions : n \in running /\ Works(n, i)
           \/ anyone
           \/ NewBlockOfChain
  <1>0. ASSUME currentState = "AWAITING_RESULT" PROVE seed \in Seeds
    BY <1>0, Zenon DEF StageInv, TypeOK, NoResidue, currentState
  <1>1. ASSUME NEW m \in Operators, Member(m) PROVE Quiet
    BY <1>1, Zenon DEF Member, Quiet, registryState, vars, taskVars
  <1>2. ASSUME NEW m \in Operators, submit(m) PROVE Quiet \/ \E r \in Result : Submitted(r)
    <2>1. CASE submitDkgResult(m, resultOf(m)) /\ emitSubmitted(resultOf(m))
      <3>1. currentState = "AWAITING_RESULT"
        BY <2>1, Zenon DEF submitDkgResult, submitResult
      <3>2. PICK r \in Result : r = resultOf(m)
        BY <1>0, <3>1, ClientsAssumption, Zenon DEF resultOf, Result, GroupInv
      <3>3. validate(r) /\ r.submitter = m
        BY <3>2, Zenon DEF resultOf, validate
      <3>4. UNCHANGED <<task, tries, running, lost>>
        BY <1>2, Zenon DEF submit, taskVars
      <3> QED
        BY <2>1, <3>2, <3>3, <3>4, Zenon DEF Submitted
    <2>2. CASE UNCHANGED <<vars, submissions>>
      BY <1>2, <2>2, Zenon DEF submit, Quiet, taskVars
    <2> QED
      BY <1>2, <2>1, <2>2, Zenon DEF submit
  <1>3. CASE KeyGeneration \/ finished \/ UNCHANGED allVars
    BY <1>3, Zenon DEF KeyGeneration, finished, allVars, Quiet, registryState, vars, clientVars, taskVars
  <1>4. ASSUME NEW n \in Watchers, crash(n) PROVE Quiet
    BY <1>4, Zenon DEF crash, Quiet, taskVars
  <1>5. ASSUME NEW o \in Faulty, submitInvalidResult(o) PROVE \E r \in Result : Submitted(r)
    <2>0. o \in Operators /\ {} \in Keys
      BY ClientsAssumption, Zenon
    <2>1. currentState = "AWAITING_RESULT"
      BY <1>5, Zenon DEF submitInvalidResult, submitDkgResult, submitResult
    <2>2. PICK r \in Result : r = [submitter |-> o, groupPubKey |-> {}, members |-> seed, wellFormed |-> FALSE]
      BY <1>0, <2>0, <2>1, Zenon DEF Result
    <2>3. r.submitter = o
      BY <2>2, Zenon
    <2> QED
      BY <1>5, <2>2, <2>3, Zenon DEF submitInvalidResult, Submitted, last, taskVars
  <1>6. ASSUME NEW n \in Operators, Client(n)
        PROVE  \/ Quiet
               \/ \E r \in Result : Submitted(r)
               \/ \E i \in Submissions : n \in Watchers /\ n \in running /\ Works(n, i)
    BY <1>1, <1>2, <1>6, Zenon DEF Client, Validation, Works
  <1> QED
    BY <1>3, <1>4, <1>5, <1>6, Zenon DEF ClientsNext

(* What the contract does in such a step: nothing, or one transaction of   *)
(* WalletRegistry; there is no other creation and no change of parameters. *)
LEMMA ContractSteps ==
    ASSUME GroupInv, StageInv, [ClientsNext]_allVars
    PROVE  [Next]_vars
  <1>0. ASSUME currentState = "CHALLENGE" PROVE submittedResult \in Result
    BY <1>0, Zenon DEF StageInv, TypeOK, NoResidue, currentState
  <1>1. CASE Quiet
    BY <1>1, Zenon DEF Quiet
  <1>2. ASSUME NEW r \in Result, Submitted(r) PROVE Next
    <2>1. r.submitter \in Operators
      BY Zenon DEF Result
    <2> QED
      BY <1>2, <2>1, Zenon DEF Submitted, Next, Transaction
  <1>3. ASSUME NEW r, challengeDkgResult(r) PROVE Next
    <2>1. r \in Result
      BY <1>0, <1>3, Zenon DEF challengeDkgResult, challengeResult
    <2> QED
      BY <1>3, <2>1, Zenon DEF Next, Transaction
  <1>4. ASSUME NEW n \in Callers, NEW r, approveDkgResult(n, r) PROVE Next
    <2>1. r \in Result
      BY <1>0, <1>4, Zenon DEF approveDkgResult, approveResult
    <2> QED
      BY <1>4, <2>1, Zenon DEF Next, Transaction
  <1>5. ASSUME NEW n \in Watchers, NEW i \in Submissions, Works(n, i) PROVE [Next]_vars
    <2>1. n \in Callers
      BY ClientsAssumption, Zenon DEF Callers
    <2> QED
      BY <1>3, <1>4, <1>5, <2>1, Zenon DEF Works, executeDkgValidation, challenge, confirmChallenge, approve
  <1>6. CASE anyone
    <2>1. Faulty \cup {Outsider} \subseteq Callers
      BY ClientsAssumption, Zenon DEF Callers
    <2> QED
      BY <1>3, <1>4, <1>6, <2>1, Zenon DEF anyone, Next, Transaction
  <1>7. CASE NewBlockOfChain
    BY <1>7, Zenon DEF NewBlockOfChain, Next
  <1> QED
    BY <1>1, <1>2, <1>5, <1>6, <1>7, ClientSteps, Zenon

(* The contract starts in a stage that its data belongs to.                *)
LEMMA InitClientsStage == ClientsInit => StageInv /\ SubmittedKeyIsFree
  <1> SUFFICES ASSUME ClientsInit PROVE StageInv /\ SubmittedKeyIsFree
    BY Zenon
  <1>1. locked /\ locked \in BOOLEAN
    BY Zenon DEF ClientsInit
  <1>2. TypeOK
    BY <1>1, BoundsAssumption DEF ClientsInit, TypeOK, StartedAt
  <1>3. NoResidue
    BY <1>1, NoneAssumption DEF ClientsInit, NoResidue, StartedAt
  <1>4. SubmittedKeyIsFree
    BY Zenon DEF ClientsInit, SubmittedKeyIsFree
  <1> QED
    BY <1>2, <1>3, <1>4, Zenon DEF StageInv

(* No task exists at the start.                                            *)
LEMMA InitClientsInv == ClientsInit => ClientsInv
  <1> SUFFICES ASSUME ClientsInit PROVE ClientsInv
    BY Zenon
  <1> USE ClientsAssumption DEF ClientsInit, StartedAt
  <1>1. StageInv /\ SubmittedKeyIsFree
    BY InitClientsStage, Zenon
  <1>2. EventTypes
    BY DEF EventTypes, last, TaskSteps
  <1>3. EventInv
    BY DEF EventInv, last, isPending
  <1>4. \A n \in Watchers : TaskInv(n) /\ TurnInv(n)
    BY DEF TaskInv, FreshTasks, TurnInv, last, isPending, Submissions
  <1> QED
    BY <1>1, <1>2, <1>3, <1>4, Zenon DEF ClientsInv

(* Where the turns to approve lie.                                         *)
LEMMA Turns ==
    ASSUME StageInv, EventTypes, NEW n \in Watchers, NEW i \in 1..last
    PROVE  /\ event(i).at \in Nat /\ event(i).result \in Result
           /\ approveBlock(n, i) \in Nat
           /\ parameters.resultChallengePeriodLength \in Nat
           /\ parameters.submitterPrecedencePeriodLength \in Nat
           /\ approveBlock(n, i) > event(i).at + parameters.resultChallengePeriodLength
           /\ n # event(i).result.submitter =>
                 approveBlock(n, i) > event(i).at + parameters.resultChallengePeriodLength
                                         + parameters.submitterPrecedencePeriodLength
  <1>1. submissions[i] \in [result : Result, at : Nat]
    <2> DEFINE E == [result : Result, at : Nat]
    <2>1. submissions \in Seq(E) /\ i \in 1..Len(submissions)
      BY Zenon DEF EventTypes, last
    <2> HIDE DEF E
    <2>2. submissions[i] \in E
      BY <2>1
    <2> QED
      BY <2>2, Zenon DEF E
  <1>2. parameters \in ParametersType
    BY ParametersAssumption, Zenon DEF StageInv, TypeOK
  <1>3. n \in Nat \ {0} /\ ApprovalDelayStepBlocks \in Nat
    <2>1. n \in 1..Cardinality(Operators)
      BY ClientsAssumption, Zenon
    <2> QED
      BY <2>1, ClientsAssumption, FS_CardinalityType
  <1>4. (n - 1) * ApprovalDelayStepBlocks \in Nat
    BY <1>3
  <1> HIDE DEF approveBlock
  <1>5. event(i).at \in Nat /\ event(i).result \in Result
    BY <1>1, Zenon DEF event
  <1>6. /\ parameters.resultChallengePeriodLength \in Nat
        /\ parameters.submitterPrecedencePeriodLength \in Nat
    BY <1>2, Zenon DEF ParametersType
  <1> QED
    BY <1>4, <1>5, <1>6 DEF approveBlock

(* While a creation is in progress a node that waits its turn waits for    *)
(* the one result that is pending, and the contract lets it in.            *)
LEMMA WaitsForPending ==
    ASSUME ClientsInv, NEW n \in Watchers, NEW i \in 1..last, validate(event(i).result), startBlock > 0
    PROVE  /\ i = last /\ isPending /\ event(i).result = submittedResult
           /\ currentState = "CHALLENGE"
           /\ ~isWalletRegistered(event(i).result.groupPubKey)
           /\ block >= approveBlock(n, i) => approveResult(n, event(i).result)
  <1>1. i = last /\ isPending /\ event(i).result = submittedResult /\ event(i).at = submittedResultBlock
    BY Zenon DEF ClientsInv, EventInv
  <1>2. TypeOK /\ NoResidue /\ StageInv /\ EventTypes
    BY Zenon DEF ClientsInv, StageInv
  <1>3. currentState = "CHALLENGE" /\ submittedResult # None
    BY <1>1, <1>2 DEF isPending, currentState, NoResidue, TypeOK
  <1>4. ~isWalletRegistered(event(i).result.groupPubKey)
    BY <1>1, <1>3, Zenon DEF ClientsInv, SubmittedKeyIsFree
  <1>5. block \in Nat
    BY <1>2, Zenon DEF TypeOK
  <1>6. ASSUME block >= approveBlock(n, i) PROVE approveResult(n, event(i).result)
    BY <1>1, <1>2, <1>3, <1>5, <1>6, Turns DEF approveResult, challengePeriodEnd
  <1> QED
    BY <1>1, <1>3, <1>4, <1>6, Zenon

(* A node goes on with one of its tasks.                                   *)
LEMMA TaskStep ==
    ASSUME EventTypes, \A w \in Watchers : FreshTasks(w),
           NEW n \in Watchers, NEW i \in 1..last, NEW step \in TaskSteps \ {"none"}, onTask(n, i, step),
           tries' = tries \/ tries' = [tries EXCEPT ![<<n, i>>] = @ + 1],
           submissions' = submissions, lost' \in 0..MaxLost
    PROVE  /\ EventTypes'
           /\ \A w \in Watchers : FreshTasks(w)'
           /\ task'[<<n, i>>] = step
           /\ \A w \in Watchers : \A j \in 1..last :
                 w # n \/ j # i => /\ task'[<<w, j>>] = task[<<w, j>>]
                                   /\ tries'[<<w, j>>] = tries[<<w, j>>]
  <1>1. i \in Submissions /\ 1..last \subseteq Submissions /\ last' = last
    BY ClientsAssumption, SMTT(30) DEF Submissions, EventTypes, last
  <1>2. <<n, i>> \in Watchers \X Submissions
    BY <1>1, Zenon
  <1>3. task' = [task EXCEPT ![<<n, i>>] = step]
    BY Zenon DEF onTask
  <1>4. EventTypes'
    <2>1. task' \in [Watchers \X Submissions -> TaskSteps]
      BY <1>3, Zenon DEF EventTypes
    <2>2. tries' \in [Watchers \X Submissions -> Nat]
      <3>1. tries \in [Watchers \X Submissions -> Nat] /\ tries[<<n, i>>] + 1 \in Nat
        BY <1>2 DEF EventTypes
      <3>2. CASE tries' = tries
        BY <3>1, <3>2, Zenon
      <3>3. CASE tries' = [tries EXCEPT ![<<n, i>>] = @ + 1]
        BY <3>1, <3>3, Zenon
      <3> QED
        BY <3>2, <3>3, Zenon
    <2> QED
      BY <1>1, <2>1, <2>2, Zenon DEF EventTypes
  <1>5. ASSUME NEW w \in Watchers, NEW j \in Submissions, w # n \/ j # i
        PROVE  task'[<<w, j>>] = task[<<w, j>>] /\ tries'[<<w, j>>] = tries[<<w, j>>]
    <2>1. <<w, j>> # <<n, i>> /\ <<w, j>> \in Watchers \X Submissions
      BY <1>5, Zenon
    <2> QED
      BY <1>2, <1>3, <2>1, Zenon DEF EventTypes
  <1>6. task'[<<n, i>>] = step
    BY <1>2, <1>3, Zenon DEF EventTypes
  <1>7. ASSUME NEW w \in Watchers PROVE FreshTasks(w)'
    <2> SUFFICES ASSUME NEW j \in Submissions
                 PROVE  /\ task'[<<w, j>>] = "none" => tries'[<<w, j>>] = 0
                        /\ j > last => task'[<<w, j>>] = "none"
      BY <1>1, Zenon DEF FreshTasks
    <2>1. CASE w = n /\ j = i
      BY <1>1, <1>6, <2>1 DEF EventTypes, last
    <2>2. CASE w # n \/ j # i
      BY <1>5, <2>2, Zenon DEF FreshTasks
    <2> QED
      BY <2>1, <2>2, Zenon
  <1> QED
    BY <1>1, <1>4, <1>5, <1>6, <1>7, Zenon

(***************************************************************************)
(* The invariant is kept, one lemma per kind of step.                      *)
(***************************************************************************)
ClientsRest ==
    /\ EventTypes
    /\ EventInv
    /\ \A n \in Watchers : TaskInv(n) /\ TurnInv(n)

(* Steps that touch neither results, events nor tasks keep the invariant.  *)
LEMMA QuietKeeps ==
    ASSUME ClientsInv, Quiet
    PROVE  ClientsRest'
  <1>1. /\ UNCHANGED <<block, locked, startBlock, seed, submittedResult, submittedResultBlock, parameters>>
        /\ UNCHANGED <<submissions, task, tries, lost>> /\ running' \subseteq running
    BY Zenon DEF Quiet, vars, dkgVars, resultVars
  <1>2. EventTypes' /\ EventInv'
    BY <1>1, Zenon DEF ClientsInv, EventTypes, EventInv, last, isPending, event, validate
  <1>3. ASSUME NEW n \in Watchers PROVE TaskInv(n)' /\ TurnInv(n)'
    BY <1>1 DEF ClientsInv, TaskInv, FreshTasks, TurnInv, last, isPending, event, validate, approveBlock
  <1> QED
    BY <1>2, <1>3, Zenon DEF ClientsRest

(* What has been submitted stays as it is.                                 *)
LEMMA AppendEvent ==
    ASSUME EventTypes, NEW r \in Result, NEW b \in Nat,
           submissions' = Append(submissions, [result |-> r, at |-> b])
    PROVE  /\ last \in Nat /\ last' = last + 1
           /\ submissions' \in Seq([result : Result, at : Nat])
           /\ event(last)' = [result |-> r, at |-> b]
           /\ \A i \in 1..last : event(i)' = event(i)
  <1> DEFINE E == [result : Result, at : Nat]
  <1>1. PICK e \in E : e = [result |-> r, at |-> b]
    BY Zenon
  <1>2. submissions \in Seq(E) /\ submissions' = Append(submissions, e)
    BY <1>1, Zenon DEF EventTypes
  <1> HIDE DEF E
  <1>3. /\ Len(submissions) \in Nat /\ Len(submissions') = Len(submissions) + 1
        /\ submissions' \in Seq(E)
        /\ submissions'[Len(submissions) + 1] = e
        /\ \A i \in 1..Len(submissions) : submissions'[i] = submissions[i]
    BY <1>2
  <1> QED
    BY <1>1, <1>3, Zenon DEF last, event, E

(* A submission starts no task and outdates the earlier ones.              *)
LEMMA SubmittedKeeps ==
    ASSUME ClientsInv, NEW r \in Result, Submitted(r)
    PROVE  ClientsRest'
  <1>0. TypeOK /\ NoResidue /\ EventTypes /\ EventInv
    BY Zenon DEF ClientsInv, StageInv
  <1>1. /\ UNCHANGED <<block, locked, startBlock, seed, parameters, task, tries, running, lost>>
        /\ submittedResult' = r /\ submittedResultBlock' = block /\ block \in Nat \ {0}
        /\ submissions' = Append(submissions, [result |-> r, at |-> block])
        /\ currentState = "AWAITING_RESULT"
    BY <1>0, Zenon DEF Submitted, submitDkgResult, submitResult, emitSubmitted, TypeOK
  <1>2. startBlock > 0 /\ submittedResultBlock = 0 /\ ~isPending /\ isPending' /\ startBlock' > 0
    BY <1>0, <1>1, StageCases DEF isPending
  <1>3. /\ last \in Nat /\ last' = last + 1
        /\ submissions' \in Seq([result : Result, at : Nat])
        /\ event(last)' = [result |-> r, at |-> block]
        /\ \A i \in 1..last : event(i)' = event(i)
    BY <1>0, <1>1, AppendEvent, Zenon
  <1>4. \A i \in 1..last : ~validate(event(i).result)
    BY <1>0, <1>2, Zenon DEF EventInv
  <1>5. last <= MaxInvalid /\ MaxInvalid \in Nat
    BY <1>0, <1>2, <1>3, ClientsAssumption DEF EventInv
  <1>6. EventTypes'
    BY <1>0, <1>1, <1>3, <1>5 DEF EventTypes
  <1>7. \A i \in 1..last : ~validate(event(i).result)'
    BY <1>1, <1>3, <1>4, Zenon DEF validate
  <1>8. event(last).result' = submittedResult' /\ event(last).at' = submittedResultBlock'
    BY <1>1, <1>3
  <1>9. EventInv'
    <2>1. startBlock' # 0
      BY <1>2
    <2>2. last' > MaxInvalid => validate(submittedResult)'
      <3>1. validate(r) => validate(submittedResult)'
        BY <1>1, Zenon DEF validate
      <3> QED
        BY <1>1, <1>3, <1>5, <3>1 DEF Submitted
    <2>3. \A i \in 1..last' : validate(event(i).result)' => i = last'
      BY <1>3, <1>7
    <2> QED
      BY <1>2, <1>3, <1>8, <2>1, <2>2, <2>3 DEF EventInv
  <1>10. ASSUME NEW n \in Watchers PROVE TaskInv(n)' /\ TurnInv(n)'
    <2>1. TaskInv(n)
      BY Zenon DEF ClientsInv
    <2>2. last + 1 \in Submissions
      BY <1>3, <1>5 DEF Submissions
    <2>3. task[<<n, last + 1>>] = "none"
      BY <1>3, <2>1, <2>2 DEF TaskInv, FreshTasks
    <2>4. FreshTasks(n)'
      BY <1>1, <1>3, <2>1 DEF TaskInv, FreshTasks, Submissions
    <2>5. \A i \in 1..last' : task'[<<n, i>>] = "approving" => validate(event(i).result)'
      <3> SUFFICES ASSUME NEW i \in 1..last', task'[<<n, i>>] = "approving" PROVE FALSE
        BY Zenon
      <3>1. i \in 1..last
        <4>1. i # last + 1
          BY <1>1, <2>3, Zenon
        <4> QED
          BY <1>3, <4>1
      <3> QED
        BY <1>1, <1>2, <1>4, <2>1, <3>1, Zenon DEF TaskInv
    <2>6. TaskInv(n)'
      BY <2>4, <2>5, Zenon DEF TaskInv
    <2>7. TurnInv(n)'
      <3>1. task'[<<n, last'>>] = "none"
        BY <1>1, <1>3, <2>3, Zenon
      <3> QED
        BY <1>1, <1>8, <3>1, Zenon DEF TurnInv
    <2> QED
      BY <2>6, <2>7, Zenon
  <1> QED
    BY <1>6, <1>9, <1>10, Zenon DEF ClientsRest

(* A node goes on with a task and the contract does nothing.               *)
LEMMA TaskKeeps ==
    ASSUME ClientsInv, NEW n \in Watchers, NEW i \in 1..last, NEW step \in TaskSteps \ {"none"},
           onTask(n, i, step), tries' = tries \/ tries' = [tries EXCEPT ![<<n, i>>] = @ + 1],
           lost' \in 0..MaxLost, UNCHANGED <<vars, submissions, running>>,
           startBlock > 0 => (step = "approving" <=> validate(event(i).result))
    PROVE  ClientsRest'
  <1>0. StageInv /\ EventTypes /\ EventInv /\ \A w \in Watchers : TaskInv(w) /\ TurnInv(w)
    BY Zenon DEF ClientsInv
  <1>1. /\ UNCHANGED <<block, locked, startBlock, seed, submittedResult, submittedResultBlock, parameters>>
        /\ UNCHANGED <<submissions, running>>
    BY Zenon DEF vars, dkgVars, resultVars
  <1>2. /\ EventTypes'
        /\ \A w \in Watchers : FreshTasks(w)'
        /\ task'[<<n, i>>] = step
        /\ \A w \in Watchers : \A j \in 1..last : w # n \/ j # i => task'[<<w, j>>] = task[<<w, j>>]
    BY <1>0, <1>1, TaskStep DEF TaskInv
  <1>3. /\ last' = last /\ isPending' = isPending /\ last \in Nat
        /\ \A r : validate(r)' = validate(r)
        /\ \A j : event(j)' = event(j)
        /\ \A w, j : approveBlock(w, j)' = approveBlock(w, j)
    BY <1>0, <1>1 DEF last, isPending, validate, event, approveBlock, EventTypes
  <1>4. EventInv'
    BY <1>0, <1>1, Zenon DEF EventInv, last, isPending, event, validate
  <1>5. ASSUME NEW w \in Watchers PROVE TaskInv(w)'
    <2> SUFFICES ASSUME startBlock > 0, NEW j \in 1..last, task'[<<w, j>>] = "approving"
                 PROVE  validate(event(j).result)
      BY <1>1, <1>2, <1>3, Zenon DEF TaskInv, last, event, validate
    <2>1. CASE w = n /\ j = i
      BY <1>2, <2>1, Zenon
    <2>2. CASE w # n \/ j # i
      BY <1>0, <1>2, <2>2, Zenon DEF TaskInv
    <2> QED
      BY <2>1, <2>2, Zenon
  <1>6. ASSUME NEW w \in Watchers PROVE TurnInv(w)'
    <2> SUFFICES ASSUME isPending, validate(submittedResult), w \in running
                 PROVE  \/ task'[<<w, last>>] = "none" /\ block = event(last).at
                        \/ task'[<<w, last>>] = "approving" /\ block <= approveBlock(w, last)
      BY <1>1, Zenon DEF TurnInv, last, event, validate, isPending, approveBlock
    <2>0. last \in 1..last /\ event(last).result = submittedResult /\ startBlock > 0
      BY <1>0, <1>3 DEF EventInv, isPending
    <2>1. CASE w = n /\ last = i
      <3>1. step = "approving"
        BY <2>0, <2>1, Zenon
      <3>2. block = event(last).at \/ block <= approveBlock(w, last)
        BY <1>0, Zenon DEF TurnInv
      <3>3. block \in Nat
        BY <1>0, Zenon DEF StageInv, TypeOK
      <3> QED
        BY <1>0, <1>2, <2>0, <2>1, <3>1, <3>2, <3>3, Turns
    <2>2. CASE w # n \/ last # i
      BY <1>0, <1>2, <2>0, <2>2, Zenon DEF TurnInv
    <2> QED
      BY <2>1, <2>2, Zenon
  <1> QED
    BY <1>2, <1>4, <1>5, <1>6, Zenon DEF ClientsRest

(* A challenge takes effect: there is no valid result, so none is lost.    *)
LEMMA ChallengeKeeps ==
    ASSUME ClientsInv, NEW r, challengeDkgResult(r), submissions' = submissions,
           EventTypes', \A w \in Watchers : FreshTasks(w)',
           \A w \in Watchers : \A j \in 1..last : task'[<<w, j>>] = "approving" => task[<<w, j>>] = "approving"
    PROVE  ClientsRest'
  <1>0. TypeOK /\ EventTypes /\ EventInv /\ \A w \in Watchers : TaskInv(w)
    BY Zenon DEF ClientsInv, StageInv
  <1>1. /\ UNCHANGED <<locked, startBlock, seed>> /\ submittedResultBlock' = 0
        /\ currentState = "CHALLENGE" /\ ~validate(submittedResult)
    BY Zenon DEF challengeDkgResult, challengeResult, submittedResultCleanup
  <1>2. isPending /\ startBlock > 0 /\ ~isPending'
    BY <1>0, <1>1, StageCases DEF isPending
  <1>3. /\ last' = last /\ last \in Nat
        /\ \A x : validate(x)' = validate(x)
        /\ \A j : event(j)' = event(j)
    BY <1>0, <1>1 DEF last, validate, event, EventTypes
  <1>4. \A j \in 1..last : ~validate(event(j).result)
    BY <1>0, <1>1, <1>2, Zenon DEF EventInv
  <1>5. last <= MaxInvalid
    BY <1>0, <1>1, <1>2, <1>3, ClientsAssumption DEF EventInv
  <1>6. EventInv'
    <2>1. startBlock' # 0 /\ ~(last' > MaxInvalid)
      BY <1>1, <1>2, <1>3, <1>5, ClientsAssumption
    <2>2. \A j \in 1..last' : ~validate(event(j).result)'
      BY <1>1, <1>3, <1>4, Zenon DEF validate, event
    <2> QED
      BY <1>2, <2>1, <2>2, Zenon DEF EventInv
  <1>7. ASSUME NEW w \in Watchers PROVE TaskInv(w)' /\ TurnInv(w)'
    <2>1. \A j \in 1..last' : task'[<<w, j>>] # "approving"
      BY <1>0, <1>2, <1>3, <1>4, Zenon DEF TaskInv
    <2> QED
      BY <1>2, <2>1, Zenon DEF TaskInv, TurnInv
  <1> QED
    BY <1>6, <1>7, Zenon DEF ClientsRest

(* The creation ends.                                                      *)
LEMMA EndKeeps ==
    ASSUME ClientsInv, complete, EventTypes', \A w \in Watchers : FreshTasks(w)'
    PROVE  ClientsRest'
  <1>1. startBlock' = 0 /\ ~locked' /\ ~isPending'
    BY CompleteCleans DEF isPending
  <1> QED
    BY <1>1 DEF ClientsRest, EventInv, TaskInv, TurnInv

(* A block is mined: no node is overdue.                                   *)
LEMMA BlockKeeps ==
    ASSUME ClientsInv, NewBlockOfChain
    PROVE  ClientsRest'
  <1>0. StageInv /\ EventTypes /\ EventInv /\ \A w \in Watchers : TaskInv(w) /\ TurnInv(w)
    BY Zenon DEF ClientsInv
  <1>1. /\ UNCHANGED <<locked, startBlock, seed, submittedResult, submittedResultBlock, parameters>>
        /\ UNCHANGED <<submissions, task, tries, lost, running>> /\ block' = block + 1
    BY Zenon DEF NewBlockOfChain, NewBlock, dkgVars, resultVars, clientVars, taskVars
  <1>2. EventTypes' /\ EventInv'
    BY <1>0, <1>1, Zenon DEF EventTypes, EventInv, last, isPending, event, validate
  <1>3. ASSUME NEW w \in Watchers PROVE TaskInv(w)'
    BY <1>0, <1>1, Zenon DEF TaskInv, FreshTasks, last, event, validate
  <1>4. ASSUME NEW w \in Watchers PROVE TurnInv(w)'
    <2> SUFFICES ASSUME isPending, validate(submittedResult), w \in running
                 PROVE  task[<<w, last>>] = "approving" /\ block + 1 <= approveBlock(w, last)
      BY <1>1, Zenon DEF TurnInv, last, event, validate, isPending, approveBlock
    <2>0. last \in 1..last /\ block \in Nat
      BY <1>0 DEF EventInv, EventTypes, last, StageInv, TypeOK
    <2>1. ~overdue(w)
      BY Zenon DEF NewBlockOfChain
    <2>2. task[<<w, last>>] # "none"
      BY <2>0, <2>1, Zenon DEF overdue, last
    <2>3. task[<<w, last>>] = "approving"
      BY <1>0, <2>2, Zenon DEF TurnInv
    <2>4. ~(block >= approveBlock(w, last))
      BY <2>0, <2>1, <2>3, Zenon DEF overdue, last
    <2>5. approveBlock(w, last) \in Nat
      BY <1>0, <2>0, Turns, Zenon
    <2> QED
      BY <2>0, <2>3, <2>4, <2>5
  <1> QED
    BY <1>2, <1>3, <1>4, Zenon DEF ClientsRest

(* A node that runs challenges no valid result.                            *)
LEMMA ChallengesInvalid ==
    ASSUME ClientsInv, NEW n \in Watchers, n \in running, NEW i \in 1..last,
           task[<<n, i>>] \in {"challenging", "confirming"}, startBlock > 0
    PROVE  ~validate(event(i).result)
  <1> SUFFICES ASSUME validate(event(i).result) PROVE FALSE
    BY Zenon
  <1>1. i = last /\ isPending /\ event(i).result = submittedResult
    BY WaitsForPending, Zenon
  <1> QED
    BY <1>1, Zenon DEF ClientsInv, TurnInv

(* The work of a node on an event keeps the invariant.                     *)
LEMMA WorkKeeps ==
    ASSUME ClientsInv, NEW n \in Watchers, n \in running, NEW i \in Submissions, Works(n, i)
    PROVE  ClientsRest'
  <1>0. /\ EventTypes /\ startBlock \in Nat
        /\ \A w \in Watchers : TaskInv(w) /\ FreshTasks(w)
    BY Zenon DEF ClientsInv, TaskInv, StageInv, TypeOK
  <1>1. i \in 1..last
    <2>1. i \in Nat \ {0} /\ last \in Nat
      BY <1>0 DEF Submissions, EventTypes, last
    <2>2. CASE i <= last
      BY <2>1, <2>2
    <2>3. CASE task[<<n, i>>] # "none"
      BY <1>0, <2>1, <2>3 DEF FreshTasks
    <2> QED
      BY <2>2, <2>3, Zenon DEF Works, executeDkgValidation, challenge, confirmChallenge, approve, last
  <1>2. lost \in 0..MaxLost /\ MaxLost \in Nat
    BY <1>0, ClientsAssumption, Zenon DEF EventTypes
  <1>3. "confirming" \in TaskSteps \ {"none"} /\ "done" \in TaskSteps \ {"none"}
            /\ "challenging" \in TaskSteps \ {"none"}
    BY Zenon DEF TaskSteps
  <1>4. CASE executeDkgValidation(n, i)
    <2>1. PICK step \in TaskSteps \ {"none"} :
             /\ onTask(n, i, step)
             /\ startBlock > 0 => (step = "approving" <=> validate(event(i).result))
      BY <1>4 DEF executeDkgValidation, TaskSteps
    <2> QED
      BY <1>1, <1>2, <1>4, <2>1, TaskKeeps, Zenon DEF executeDkgValidation
  <1>5. CASE challenge(n, i)
    <2>1. startBlock > 0 => ~validate(event(i).result)
      BY <1>1, <1>5, ChallengesInvalid, Zenon DEF challenge
    <2>2. submissions' = submissions /\ running' = running
      BY <1>5, Zenon DEF challenge
    <2>3. CASE onTask(n, i, "done") /\ UNCHANGED <<vars, tries, lost>>
      BY <1>1, <1>2, <1>3, <2>1, <2>2, <2>3, TaskKeeps, Zenon
    <2>4. CASE /\ onTask(n, i, "confirming") /\ tries' = [tries EXCEPT ![<<n, i>>] = @ + 1]
               /\ lost < MaxLost /\ lost' = lost + 1 /\ UNCHANGED vars
      <3>1. lost' \in 0..MaxLost
        BY <1>2, <2>4
      <3> QED
        BY <1>1, <1>3, <2>1, <2>2, <2>4, <3>1, TaskKeeps, Zenon
    <2>5. CASE /\ onTask(n, i, "confirming") /\ tries' = [tries EXCEPT ![<<n, i>>] = @ + 1]
               /\ challengeDkgResult(event(i).result) /\ UNCHANGED lost
      <3>1. /\ EventTypes' /\ \A w \in Watchers : FreshTasks(w)'
            /\ task'[<<n, i>>] = "confirming"
            /\ \A w \in Watchers : \A j \in 1..last : w # n \/ j # i => task'[<<w, j>>] = task[<<w, j>>]
        <4>1. lost' \in 0..MaxLost
          BY <1>2, <2>5, Zenon
        <4>2. PICK step \in TaskSteps \ {"none"} : step = "confirming" /\ onTask(n, i, step)
          BY <1>3, <2>5, Zenon
        <4>3. tries' = tries \/ tries' = [tries EXCEPT ![<<n, i>>] = @ + 1]
          BY <2>5, Zenon
        <4>4. EventTypes /\ \A w \in Watchers : FreshTasks(w)
          BY <1>0, Zenon
        <4>5. /\ EventTypes' /\ \A w \in Watchers : FreshTasks(w)'
              /\ task'[<<n, i>>] = step
              /\ \A w \in Watchers : \A j \in 1..last :
                    w # n \/ j # i => task'[<<w, j>>] = task[<<w, j>>] /\ tries'[<<w, j>>] = tries[<<w, j>>]
          BY <1>1, <2>2, <4>1, <4>2, <4>3, <4>4, TaskStep, Zenon
        <4> QED
          BY <4>2, <4>5, Zenon
      <3>2. \A w \in Watchers : \A j \in 1..last :
               task'[<<w, j>>] = "approving" => task[<<w, j>>] = "approving"
        BY <3>1, Zenon
      <3> QED
        BY <2>2, <2>5, <3>1, <3>2, ChallengeKeeps, Zenon
    <2> QED
      BY <1>5, <2>3, <2>4, <2>5, Zenon DEF challenge
  <1>6. CASE confirmChallenge(n, i)
    <2>1. startBlock > 0 => ~validate(event(i).result)
      BY <1>1, <1>6, ChallengesInvalid, Zenon DEF confirmChallenge
    <2>2. UNCHANGED <<vars, submissions, tries, running, lost>>
      BY <1>6, Zenon DEF confirmChallenge
    <2>3. onTask(n, i, "done") \/ onTask(n, i, "challenging")
      BY <1>6, Zenon DEF confirmChallenge
    <2> QED
      BY <1>1, <1>2, <1>3, <2>1, <2>2, <2>3, TaskKeeps, Zenon
  <1>7. CASE approve(n, i)
    <2>1. /\ onTask(n, i, "done") /\ UNCHANGED <<submissions, tries, running, lost>>
          /\ task[<<n, i>>] = "approving"
      BY <1>7, Zenon DEF approve
    <2>2. CASE approveDkgResult(n, event(i).result)
      <3>1. EventTypes' /\ \A w \in Watchers : FreshTasks(w)'
        BY <1>0, <1>1, <1>2, <1>3, <2>1, TaskStep, Zenon
      <3>2. complete
        BY <2>2, Zenon DEF approveDkgResult
      <3> QED
        BY <3>1, <3>2, EndKeeps, Zenon
    <2>3. CASE /\ \/ isWalletRegistered(event(i).result.groupPubKey)
                  \/ block >= approveBlock(n, i) /\ ~approveResult(n, event(i).result)
               /\ UNCHANGED vars
      <3>1. ~(startBlock > 0)
        <4> SUFFICES ASSUME startBlock > 0 PROVE FALSE
          BY Zenon
        <4>1. validate(event(i).result)
          BY <1>0, <1>1, <2>1, Zenon DEF TaskInv
        <4> QED
          BY <1>1, <2>3, <4>1, WaitsForPending, Zenon
      <3> QED
        BY <1>1, <1>2, <1>3, <2>1, <2>3, <3>1, TaskKeeps, Zenon
    <2> QED
      BY <1>7, <2>2, <2>3, Zenon DEF approve
  <1> QED
    BY <1>4, <1>5, <1>6, <1>7, Zenon DEF Works

(* What anybody may do to the contract keeps the invariant.                *)
LEMMA AnyoneKeeps ==
    ASSUME ClientsInv, anyone
    PROVE  ClientsRest'
  <1>1. UNCHANGED <<submissions, task, tries, lost, running>>
    BY Zenon DEF anyone, clientVars, taskVars
  <1>2. EventTypes' /\ \A w \in Watchers : FreshTasks(w)'
    BY <1>1, Zenon DEF ClientsInv, EventTypes, TaskInv, FreshTasks, last
  <1>3. CASE challengeDkgResult(submittedResult)
    BY <1>1, <1>2, <1>3, ChallengeKeeps, Zenon
  <1>4. CASE complete
    BY <1>2, <1>4, EndKeeps, Zenon
  <1> QED
    BY <1>3, <1>4, Zenon DEF anyone, notifyDkgTimeout, notifyDkgTimeoutOfDkg, approveDkgResult

(* Every step keeps the invariant.                                         *)
LEMMA NextClientsInv == GroupInv /\ ClientsInv /\ [ClientsNext]_allVars => ClientsInv'
  <1> SUFFICES ASSUME GroupInv, ClientsInv, [ClientsNext]_allVars PROVE ClientsInv'
    BY Zenon
  <1>1. [Next]_vars /\ StageInv /\ SubmittedKeyIsFree
    BY ContractSteps, Zenon DEF ClientsInv
  <1>2. StageInv' /\ SubmittedKeyIsFree'
    BY <1>1, NextStageInv, NextSubmittedKeyIsFree, Zenon
  <1>3. ClientsRest'
    BY <1>1, ClientSteps, QuietKeeps, SubmittedKeeps, WorkKeeps, AnyoneKeeps, BlockKeeps, Zenon
  <1> QED
    BY <1>2, <1>3, Zenon DEF ClientsRest, ClientsInv

(* The invariant implies the property.                                     *)
LEMMA ClientsInvTurns == ClientsInv => ApprovedInTurn
  <1> SUFFICES ASSUME ClientsInv PROVE ApprovedInTurn
    BY Zenon
  <1>0. TypeOK /\ NoResidue /\ StageInv /\ EventTypes /\ EventInv /\ block \in Nat
    BY Zenon DEF ClientsInv, StageInv, TypeOK
  <1>1. ASSUME NEW n \in Watchers, NEW i \in 1..Len(submissions), task[<<n, i>>] = "approving",
               block >= approveBlock(n, i), submittedResult = event(i).result
        PROVE  approveResult(n, event(i).result)
    <2>1. i \in 1..last
      BY Zenon DEF last
    <2>2. submittedResult # None
      BY <1>0, <1>1, <2>1, Turns, NoneIsNoResult, Zenon
    <2>3. startBlock > 0
      BY <1>0, <2>2 DEF NoResidue, TypeOK
    <2>4. validate(event(i).result)
      BY <1>1, <2>1, <2>3, Zenon DEF ClientsInv, TaskInv
    <2> QED
      BY <1>1, <2>1, <2>3, <2>4, WaitsForPending, Zenon
  <1>2. ASSUME currentState = "CHALLENGE", validate(submittedResult), NEW n \in Watchers \cap running
        PROVE  block <= approveBlock(n, Len(submissions))
    <2>1. isPending
      BY <1>0, <1>2, StageCases, Zenon DEF isPending
    <2>2. last \in 1..last
      BY <1>0, <2>1 DEF EventInv, EventTypes, last
    <2>3. \/ block = event(last).at
          \/ block <= approveBlock(n, last)
      BY <1>2, <2>1, Zenon DEF ClientsInv, TurnInv
    <2> QED
      BY <1>0, <2>2, <2>3, Turns DEF last
  <1> QED
    BY <1>1, <1>2, Zenon DEF ApprovedInTurn

(* Both invariants hold throughout.                                        *)
LEMMA ClientsInvariant == ClientsSpec => [](GroupInv /\ ClientsInv)
  BY InitGroupInv, NextGroupInv, InitClientsInv, NextClientsInv, PTL DEF ClientsSpec

(* For any number of operators and any parameters and delays, no node that *)
(* waits its turn is refused by approveResult, and a valid result waits no *)
(* longer than for the turn of the first watching member that still runs   *)
(* (executeDkgValidation in pkg/tbtc/dkg.go against EcdsaDkg.sol).         *)
THEOREM InTurn == ClientsSpec => []ApprovedInTurn
  BY ClientsInvariant, ClientsInvTurns, PTL
-----------------------------------------------------------------------------
(***************************************************************************)
(* Challenges in time. One watching node runs; each of its challenges of   *)
(* an invalid result that had no effect was lost, and the next follows as  *)
(* soon as that is seen.                                                   *)
(***************************************************************************)
WatchInv ==
    /\ Watchers \cap running # {}
    /\ \A n \in Watchers : ChallengeInv(n)

(* The challenge period leaves time for a try after every loss.            *)
TimeToRetry ==
    \A p \in Parameters : MaxLost * ChallengeConfirmationBlocks <= p.resultChallengePeriodLength

(* Multiplication of natural numbers is monotonic.                         *)
LEMMA Products ==
    ASSUME NEW a \in Nat, NEW b \in Nat, NEW c \in Nat, a <= b
    PROVE  a * c \in Nat /\ b * c \in Nat /\ a * c <= b * c
  <1>1. a * c \in Nat /\ b * c \in Nat /\ (b - a) * c \in Nat
    OBVIOUS
  <1>2. b * c = a * c + (b - a) * c
    OBVIOUS
  <1> QED
    BY <1>1, <1>2

(* The blocks that confirmations after losses take are bounded by those of *)
(* all losses.                                                             *)
LEMMA Confirmations ==
    ASSUME EventTypes, NEW n \in Watchers, NEW i \in 1..last
    PROVE  /\ event(i).at \in Nat /\ tries[<<n, i>>] \in Nat /\ ChallengeConfirmationBlocks \in Nat
           /\ confirmationBlock(n, i) \in Nat /\ event(i).at <= confirmationBlock(n, i)
           /\ tries[<<n, i>>] <= MaxLost =>
                 confirmationBlock(n, i) <= event(i).at + MaxLost * ChallengeConfirmationBlocks
  <1>1. event(i).at \in Nat
    <2> DEFINE E == [result : Result, at : Nat]
    <2>1. submissions \in Seq(E) /\ i \in 1..Len(submissions)
      BY Zenon DEF EventTypes, last
    <2> HIDE DEF E
    <2>2. submissions[i] \in E
      BY <2>1
    <2> QED
      BY <2>2, Zenon DEF E, event
  <1>2. i \in Submissions
    BY ClientsAssumption DEF EventTypes, Submissions, last
  <1>3. tries[<<n, i>>] \in Nat
    BY <1>2, Zenon DEF EventTypes
  <1>4. ChallengeConfirmationBlocks \in Nat /\ MaxLost \in Nat
    BY ClientsAssumption, Zenon
  <1>5. tries[<<n, i>>] * ChallengeConfirmationBlocks \in Nat
    BY <1>3, <1>4, Products
  <1>6. tries[<<n, i>>] <= MaxLost =>
           tries[<<n, i>>] * ChallengeConfirmationBlocks <= MaxLost * ChallengeConfirmationBlocks
    BY <1>3, <1>4, Products, Zenon
  <1>7. MaxLost * ChallengeConfirmationBlocks \in Nat
    BY <1>4, Products
  <1> QED
    BY <1>1, <1>3, <1>4, <1>5, <1>6, <1>7 DEF confirmationBlock

(* An invalid result that is pending can still be challenged.              *)
LEMMA InTime ==
    ASSUME TimeToRetry, ClientsInv, WatchInv, isPending, ~validate(submittedResult)
    PROVE  block <= challengePeriodEnd
  <1>1. PICK n \in Watchers : n \in running
    BY Zenon DEF WatchInv
  <1>2. StageInv /\ EventTypes /\ EventInv /\ TypeOK
    BY Zenon DEF ClientsInv, StageInv
  <1>3. last \in 1..last /\ event(last).at = submittedResultBlock
    BY <1>2 DEF EventInv, EventTypes, last
  <1>4. block <= confirmationBlock(n, last) /\ tries[<<n, last>>] <= lost
    BY <1>1, Zenon DEF WatchInv, ChallengeInv
  <1>5. lost \in Nat /\ lost <= MaxLost /\ MaxLost \in Nat /\ ChallengeConfirmationBlocks \in Nat
    BY <1>2, ClientsAssumption DEF EventTypes
  <1>6. /\ confirmationBlock(n, last) \in Nat /\ event(last).at \in Nat
        /\ confirmationBlock(n, last) <= event(last).at + MaxLost * ChallengeConfirmationBlocks
    BY <1>2, <1>3, <1>4, <1>5, Confirmations
  <1>7. /\ MaxLost * ChallengeConfirmationBlocks <= parameters.resultChallengePeriodLength
        /\ parameters.resultChallengePeriodLength \in Nat
    BY <1>2, ParametersAssumption, Zenon DEF TimeToRetry, TypeOK, ParametersType
  <1>8. MaxLost * ChallengeConfirmationBlocks \in Nat /\ block \in Nat
    BY <1>2, <1>5, Products, Zenon DEF TypeOK
  <1> HIDE DEF challengePeriodEnd
  <1> QED
    BY <1>3, <1>4, <1>6, <1>7, <1>8 DEF challengePeriodEnd

(* No result is pending at the start.                                      *)
LEMMA InitWatchInv == ClientsInit => WatchInv
  BY ClientsAssumption DEF ClientsInit, WatchInv, ChallengeInv, isPending, last

(* The watching nodes that run do not all stop.                            *)
LEMMA WatcherRuns ==
    ASSUME WatchInv, [ClientsNext]_allVars
    PROVE  Watchers \cap running' # {} /\ running' \subseteq running
  <1>1. ASSUME NEW n \in Watchers, crash(n) PROVE Watchers \cap running' # {} /\ running' \subseteq running
    BY <1>1, Zenon DEF crash
  <1>2. ASSUME UNCHANGED running PROVE Watchers \cap running' # {} /\ running' \subseteq running
    BY <1>2, Zenon DEF WatchInv
  <1>3. ASSUME NEW n \in Operators, Client(n) PROVE UNCHANGED running
    BY <1>3, Zenon DEF Client, Member, submit, Validation, executeDkgValidation, challenge, confirmChallenge, approve
  <1>4. CASE KeyGeneration \/ anyone \/ NewBlockOfChain \/ finished \/ UNCHANGED allVars
    BY <1>2, <1>4, Zenon DEF KeyGeneration, anyone, NewBlockOfChain, finished, allVars, clientVars
  <1>5. ASSUME NEW o \in Faulty, submitInvalidResult(o) PROVE UNCHANGED running
    BY <1>5, Zenon DEF submitInvalidResult
  <1> QED
    BY <1>1, <1>2, <1>3, <1>4, <1>5, Zenon DEF ClientsNext

(* While a node goes on with its tasks, every watching node keeps at the   *)
(* invalid result that is pending: a try is counted only if it was lost.   *)
LEMMA TaskWatches ==
    ASSUME ClientsInv, NEW n \in Watchers, NEW i \in 1..last, NEW step \in TaskSteps \ {"none"},
           onTask(n, i, step), tries' = tries \/ tries' = [tries EXCEPT ![<<n, i>>] = @ + 1],
           lost' \in 0..MaxLost, lost' >= lost, UNCHANGED <<vars, submissions>>, running' \subseteq running,
           \A w \in Watchers : ChallengeInv(w),
           i = last /\ isPending /\ ~validate(submittedResult) =>
               /\ step \in {"challenging", "confirming"}
               /\ tries' = tries \/ lost' = lost + 1,
           NEW w \in Watchers
    PROVE  ChallengeInv(w)'
  <1>0. StageInv /\ EventTypes /\ EventInv /\ \A x \in Watchers : TaskInv(x)
    BY Zenon DEF ClientsInv
  <1>1. UNCHANGED <<block, startBlock, seed, submittedResult, submittedResultBlock, submissions>>
    BY Zenon DEF vars, dkgVars, resultVars
  <1> SUFFICES ASSUME isPending, ~validate(submittedResult), w \in running
               PROVE  /\ task'[<<w, last>>] \in {"none", "challenging", "confirming"}
                      /\ block <= event(last).at + tries'[<<w, last>>] * ChallengeConfirmationBlocks
                      /\ tries'[<<w, last>>] <= lost'
    BY <1>1, Zenon DEF ChallengeInv, confirmationBlock, isPending, validate, last, event
  <1>2. last \in 1..last
    BY <1>0 DEF EventInv, EventTypes, last
  <1>3. /\ task[<<w, last>>] \in {"none", "challenging", "confirming"}
        /\ block <= event(last).at + tries[<<w, last>>] * ChallengeConfirmationBlocks
        /\ tries[<<w, last>>] <= lost /\ tries[<<w, last>>] \in Nat
        /\ lost \in Nat /\ MaxLost \in Nat /\ event(last).at \in Nat /\ block \in Nat
        /\ ChallengeConfirmationBlocks \in Nat
    <2>1. /\ task[<<w, last>>] \in {"none", "challenging", "confirming"}
          /\ block <= confirmationBlock(w, last) /\ tries[<<w, last>>] <= lost
      BY Zenon DEF ChallengeInv
    <2>2. /\ tries[<<w, last>>] \in Nat /\ event(last).at \in Nat /\ ChallengeConfirmationBlocks \in Nat
      BY <1>0, <1>2, Confirmations, Zenon
    <2>3. lost \in Nat /\ MaxLost \in Nat /\ block \in Nat
      BY <1>0, ClientsAssumption DEF EventTypes, StageInv, TypeOK
    <2> QED
      BY <2>1, <2>2, <2>3, Zenon DEF confirmationBlock
  <1>4. /\ task'[<<n, i>>] = step
        /\ \A x \in Watchers : \A j \in 1..last :
              x # n \/ j # i => task'[<<x, j>>] = task[<<x, j>>] /\ tries'[<<x, j>>] = tries[<<x, j>>]
    <2>1. \A x \in Watchers : FreshTasks(x)
      BY <1>0, Zenon DEF TaskInv
    <2> QED
      BY <1>0, <1>1, <2>1, TaskStep, Zenon
  <1>5. CASE w # n \/ last # i
    BY <1>2, <1>3, <1>4, <1>5
  <1>6. CASE w = n /\ last = i
    <2>1. task'[<<w, last>>] \in {"challenging", "confirming"}
      BY <1>4, <1>6, Zenon
    <2>2. CASE tries' = tries
      BY <1>3, <2>1, <2>2
    <2>3. CASE tries' = [tries EXCEPT ![<<n, i>>] = @ + 1] /\ lost' = lost + 1
      <3>1. <<w, last>> \in Watchers \X Submissions
        BY <1>0, <1>2, ClientsAssumption DEF Submissions, EventTypes
      <3>2. tries'[<<w, last>>] = tries[<<w, last>>] + 1
        BY <1>0, <1>6, <2>3, <3>1, Zenon DEF EventTypes
      <3>3. /\ tries[<<w, last>>] * ChallengeConfirmationBlocks \in Nat
            /\ (tries[<<w, last>>] + 1) * ChallengeConfirmationBlocks \in Nat
            /\ tries[<<w, last>>] * ChallengeConfirmationBlocks
                 <= (tries[<<w, last>>] + 1) * ChallengeConfirmationBlocks
        BY <1>3, Products
      <3> QED
        BY <1>3, <2>1, <2>3, <3>2, <3>3, SMTT(30)
    <2> QED
      BY <1>6, <2>2, <2>3, Zenon
  <1> QED
    BY <1>5, <1>6, Zenon

(* Every step keeps the watch.                                             *)
LEMMA NextWatch == TimeToRetry =>
    (GroupInv /\ ClientsInv /\ WatchInv /\ [ClientsNext]_allVars => WatchInv')
  <1> SUFFICES ASSUME TimeToRetry, GroupInv, ClientsInv, WatchInv, [ClientsNext]_allVars
               PROVE  WatchInv'
    BY Zenon
  <1>0. StageInv /\ EventTypes /\ EventInv /\ TypeOK /\ \A w \in Watchers : ChallengeInv(w) /\ TaskInv(w)
    BY Zenon DEF ClientsInv, StageInv, WatchInv
  <1>1. Watchers \cap running' # {} /\ running' \subseteq running
    BY WatcherRuns, Zenon
  <1> SUFFICES ASSUME NEW w \in Watchers PROVE ChallengeInv(w)'
    BY <1>1, Zenon DEF WatchInv
  <1>2. CASE ~isPending'
    BY <1>2, Zenon DEF ChallengeInv
  <1>3. CASE Quiet
    <2>1. /\ UNCHANGED <<block, startBlock, seed, submittedResult, submittedResultBlock>>
          /\ UNCHANGED <<submissions, task, tries, lost>> /\ running' \subseteq running
      BY <1>3, Zenon DEF Quiet, vars, dkgVars, resultVars
    <2> QED
      BY <1>0, <2>1, Zenon DEF ChallengeInv, isPending, last, event, validate, confirmationBlock
  <1>4. ASSUME NEW r \in Result, Submitted(r) PROVE ChallengeInv(w)'
    <2>1. /\ UNCHANGED <<block, startBlock, seed, task, tries, running, lost>>
          /\ submittedResultBlock' = block /\ block \in Nat
          /\ submissions' = Append(submissions, [result |-> r, at |-> block])
          /\ currentState = "AWAITING_RESULT"
      BY <1>0, <1>4, Zenon DEF Submitted, submitDkgResult, submitResult, emitSubmitted, TypeOK
    <2>2. last \in Nat /\ last' = last + 1 /\ event(last)' = [result |-> r, at |-> block]
      BY <1>0, <2>1, AppendEvent, Zenon
    <2>3. last <= MaxInvalid /\ MaxInvalid \in Nat
      BY <1>0, <2>1, <2>2, StageCases, ClientsAssumption DEF EventInv, isPending
    <2>4. last + 1 \in Submissions
      BY <2>2, <2>3 DEF Submissions
    <2>5. task[<<w, last + 1>>] = "none" /\ tries[<<w, last + 1>>] = 0
      BY <1>0, <2>2, <2>4 DEF TaskInv, FreshTasks
    <2>6. task'[<<w, last'>>] = "none" /\ tries'[<<w, last'>>] = 0 /\ event(last).at' = block
      BY <2>1, <2>2, <2>5
    <2>7. confirmationBlock(w, last)' = block
      BY <2>1, <2>6, ClientsAssumption, SMTT(30) DEF confirmationBlock
    <2>8. lost' >= 0
      BY <1>0, <2>1, ClientsAssumption DEF EventTypes
    <2> QED
      BY <2>1, <2>6, <2>7, <2>8 DEF ChallengeInv
  <1>5. ASSUME NEW n \in Watchers, NEW i \in Submissions, n \in running, Works(n, i)
        PROVE  ChallengeInv(w)'
    <2>0. i \in 1..last
      <3>1. i \in Nat \ {0} /\ last \in Nat
        BY <1>0 DEF Submissions, EventTypes, last
      <3>2. CASE i <= last
        BY <3>1, <3>2
      <3>3. CASE task[<<n, i>>] # "none"
        BY <1>0, <3>1, <3>3 DEF TaskInv, FreshTasks
      <3> QED
        BY <1>5, <3>2, <3>3, Zenon DEF Works, executeDkgValidation, challenge, confirmChallenge, approve, last
    <2>1. /\ lost \in 0..MaxLost /\ MaxLost \in Nat /\ lost >= lost
          /\ "confirming" \in TaskSteps \ {"none"} /\ "done" \in TaskSteps \ {"none"}
          /\ "challenging" \in TaskSteps \ {"none"}
      BY <1>0, ClientsAssumption DEF EventTypes, TaskSteps
    <2>2. ASSUME isPending, ~validate(submittedResult), i = last
          PROVE  /\ startBlock > 0 /\ currentState = "CHALLENGE" /\ event(i).result = submittedResult
                 /\ challengeable(i) /\ task[<<n, i>>] # "approving"
      <3>1. startBlock > 0 /\ currentState = "CHALLENGE" /\ event(i).result = submittedResult
        <4>1. locked /\ startBlock > 0 /\ submittedResultBlock > 0
          BY <1>0, <2>2 DEF isPending, StageInv, NoResidue
        <4> QED
          BY <1>0, <2>2, <4>1, StageCases, Zenon DEF EventInv
      <3> QED
        BY <1>0, <1>5, <2>2, <3>1, InTime, Zenon DEF challengeable, ChallengeInv
    <2>3. CASE executeDkgValidation(n, i)
      <3>1. PICK step \in TaskSteps \ {"none"} :
               /\ onTask(n, i, step)
               /\ startBlock > 0 /\ ~validate(event(i).result) => step = "challenging"
        BY <2>3 DEF executeDkgValidation, TaskSteps
      <3>2. i = last /\ isPending /\ ~validate(submittedResult) => step = "challenging"
        BY <2>2, <3>1, Zenon
      <3>3. UNCHANGED <<vars, submissions, tries, lost>>
        BY <2>3, Zenon DEF executeDkgValidation
      <3> QED
        BY <1>0, <1>1, <2>0, <2>1, <3>1, <3>2, <3>3, TaskWatches, Zenon
    <2>4. CASE challenge(n, i)
      <3>1. CASE challengeDkgResult(event(i).result)
        BY <1>2, <3>1 DEF challengeDkgResult, challengeResult, submittedResultCleanup, isPending
      <3>2. CASE /\ onTask(n, i, "confirming") /\ tries' = [tries EXCEPT ![<<n, i>>] = @ + 1]
                 /\ lost < MaxLost /\ lost' = lost + 1 /\ UNCHANGED vars
        <4>1. lost' \in 0..MaxLost /\ lost' >= lost /\ submissions' = submissions
          BY <2>1, <2>4, <3>2 DEF challenge
        <4>2. PICK step \in TaskSteps \ {"none"} : step = "confirming"
          BY <2>1, Zenon
        <4>3. onTask(n, i, step) /\ step \in {"challenging", "confirming"}
          BY <3>2, <4>2, Zenon
        <4> QED
          BY <1>0, <1>1, <2>0, <3>2, <4>1, <4>3, TaskWatches, Zenon
      <3>3. CASE ~challengeable(i) /\ onTask(n, i, "done") /\ UNCHANGED <<vars, tries, lost>>
        <4>1. submissions' = submissions /\ ~(i = last /\ isPending /\ ~validate(submittedResult))
          BY <2>2, <2>4, <3>3, Zenon DEF challenge
        <4> QED
          BY <1>0, <1>1, <2>0, <2>1, <3>3, <4>1, TaskWatches, Zenon
      <3> QED
        BY <2>4, <3>1, <3>2, <3>3, Zenon DEF challenge
    <2>5. CASE confirmChallenge(n, i)
      <3>1. PICK step \in TaskSteps \ {"none"} :
               /\ onTask(n, i, step)
               /\ currentState = "CHALLENGE" => step = "challenging"
        BY <2>5, Zenon DEF confirmChallenge, TaskSteps
      <3>2. i = last /\ isPending /\ ~validate(submittedResult) => step = "challenging"
        BY <2>2, <3>1, Zenon
      <3>3. UNCHANGED <<vars, submissions, tries, lost>>
        BY <2>5, Zenon DEF confirmChallenge
      <3> QED
        BY <1>0, <1>1, <2>0, <2>1, <3>1, <3>2, <3>3, TaskWatches, Zenon
    <2>6. CASE approve(n, i)
      <3>1. /\ task[<<n, i>>] = "approving" /\ onTask(n, i, "done") /\ UNCHANGED <<submissions, tries, lost>>
            /\ complete \/ UNCHANGED vars
        BY <2>6, Zenon DEF approve, approveDkgResult
      <3>2. CASE complete
        BY <1>2, <3>2, CompleteCleans DEF isPending
      <3>3. CASE UNCHANGED vars
        <4>1. ~(i = last /\ isPending /\ ~validate(submittedResult))
          BY <2>2, <3>1, Zenon
        <4> QED
          BY <1>0, <1>1, <2>0, <2>1, <3>1, <3>3, <4>1, TaskWatches, Zenon
      <3> QED
        BY <3>1, <3>2, <3>3, Zenon
    <2> QED
      BY <1>5, <2>3, <2>4, <2>5, <2>6, Zenon DEF Works
  <1>6. CASE anyone
    <2>1. complete \/ challengeDkgResult(submittedResult)
      BY <1>6, Zenon DEF anyone, notifyDkgTimeout, notifyDkgTimeoutOfDkg, approveDkgResult
    <2>2. ~isPending'
      BY <2>1, CompleteCleans DEF isPending, challengeDkgResult, challengeResult, submittedResultCleanup
    <2> QED
      BY <1>2, <2>2, Zenon
  <1>7. CASE NewBlockOfChain
    <2>1. /\ UNCHANGED <<startBlock, seed, submittedResult, submittedResultBlock>>
          /\ UNCHANGED <<submissions, task, tries, lost, running>> /\ block' = block + 1
      BY <1>7, Zenon DEF NewBlockOfChain, NewBlock, dkgVars, resultVars, clientVars, taskVars
    <2> SUFFICES ASSUME isPending, ~validate(submittedResult), w \in running
                 PROVE  block + 1 <= confirmationBlock(w, last)
      BY <1>0, <2>1, Zenon DEF ChallengeInv, last, event, validate, isPending, confirmationBlock
    <2>2. last \in 1..last /\ block \in Nat
      BY <1>0 DEF EventInv, EventTypes, last, TypeOK
    <2>3. ~overdue(w)
      BY <1>7, Zenon DEF NewBlockOfChain
    <2>4. task[<<w, last>>] = "confirming"
      <3>1. task[<<w, last>>] \notin {"none", "challenging"}
        BY <2>2, <2>3, Zenon DEF overdue, last
      <3> QED
        BY <1>0, <3>1, Zenon DEF ChallengeInv
    <2>5. ~(block >= confirmationBlock(w, last))
      BY <2>2, <2>3, <2>4, Zenon DEF overdue, last
    <2>6. confirmationBlock(w, last) \in Nat
      BY <1>0, <2>2, Confirmations, Zenon
    <2> QED
      BY <2>2, <2>5, <2>6
  <1> QED
    BY <1>0, <1>3, <1>4, <1>5, <1>6, <1>7, ClientSteps, Zenon

(* A watch that is kept means that an invalid result is not left pending   *)
(* at the end of its period.                                               *)
LEMMA WatchInvWatched == TimeToRetry => (ClientsInv /\ WatchInv => WatchedInv)
  BY InTime, Zenon DEF WatchedInv, isPending

(* What SpecWatched of WalletRegistry takes for granted, the clients do: a *)
(* step of theirs is one of the contract under watch.                      *)
LEMMA WatchedStep == TimeToRetry =>
    (GroupInv /\ ClientsInv /\ ClientsInv' /\ WatchInv' /\ [ClientsNext]_allVars
        => [NewBlockWatched \/ Transaction]_vars)
  <1> SUFFICES ASSUME TimeToRetry, GroupInv, ClientsInv, ClientsInv', WatchInv', [ClientsNext]_allVars
               PROVE  [NewBlockWatched \/ Transaction]_vars
    BY Zenon
  <1>1. [Next]_vars
    BY ContractSteps, Zenon DEF ClientsInv
  <1>2. CASE NewBlock
    <2> SUFFICES ASSUME currentState = "CHALLENGE", block = challengePeriodEnd, ~validate(submittedResult)
                 PROVE  FALSE
      BY <1>2, Zenon DEF NewBlockWatched
    <2>0. TypeOK /\ StageInv
      BY Zenon DEF ClientsInv, StageInv
    <2>1. /\ UNCHANGED <<startBlock, seed, submittedResult, submittedResultBlock, parameters>>
          /\ block' = block + 1 /\ block \in Nat
      BY <1>2, <2>0, Zenon DEF NewBlock, dkgVars, resultVars, TypeOK
    <2>2. isPending' /\ ~validate(submittedResult)' /\ challengePeriodEnd' = challengePeriodEnd
      BY <2>0, <2>1, StageCases, Zenon DEF isPending, validate, challengePeriodEnd
    <2>3. WatchedInv'
      BY WatchInvWatched, PTL
    <2>4. locked'
      BY <1>2, <2>0, StageCases, Zenon DEF NewBlock, dkgVars
    <2> QED
      BY <2>0, <2>1, <2>2, <2>3, <2>4, ParametersAssumption
      DEF WatchedInv, isPending, challengePeriodEnd, TypeOK, ParametersType
  <1> QED
    BY <1>1, <1>2, Zenon DEF Next

(* The watch is kept throughout.                                           *)
LEMMA WatchInvariant ==
    ASSUME TimeToRetry
    PROVE  ClientsSpec => []WatchInv
  <1>1. GroupInv /\ ClientsInv /\ WatchInv /\ [ClientsNext]_allVars => WatchInv'
    BY NextWatch, Zenon
  <1> QED
    BY <1>1, ClientsInvariant, InitWatchInv, PTL DEF ClientsSpec

(* If the challenge period leaves time for a try after every loss, one     *)
(* watching node that runs is enough for the contract to be watched:       *)
(* whatever gets lost and whoever stops, the last block of a challenge     *)
(* period is not left while an invalid result is pending. This is the      *)
(* assumption of SpecWatched (executeDkgValidation and its loop of         *)
(* challenges and confirmations).                                          *)
THEOREM ClientsWatch ==
    ASSUME TimeToRetry
    PROVE  ClientsSpec => [][NewBlockWatched \/ Transaction]_vars
  <1>1. GroupInv /\ ClientsInv /\ ClientsInv' /\ WatchInv' /\ [ClientsNext]_allVars
          => [NewBlockWatched \/ Transaction]_vars
    BY WatchedStep, Zenon
  <1> QED
    BY <1>1, ClientsInvariant, WatchInvariant, PTL DEF ClientsSpec

(* So no invalid result becomes a wallet, for any number of operators, of  *)
(* invalid results, lost challenges and nodes that stop.                   *)
THEOREM ClientsKeepWalletsValid ==
    ASSUME TimeToRetry
    PROVE  ClientsSpec => OnlyValidWallets
  <1>1. GroupInv /\ ClientsInv /\ WatchInv /\ [ClientsNext]_allVars
          => [\A k \in Keys : ~isWalletRegistered(k) /\ isWalletRegistered(k)'
                => validate(submittedResult) /\ wallets'[k] = seed]_vars
    <2> SUFFICES ASSUME GroupInv, ClientsInv, WatchInv, [ClientsNext]_allVars,
                        NEW k \in Keys, ~isWalletRegistered(k), isWalletRegistered(k)'
                 PROVE  validate(submittedResult) /\ wallets'[k] = seed
      BY Zenon
    <2>1. StageInv /\ WatchedInv /\ [Next]_vars
      BY WatchInvWatched, ContractSteps, Zenon DEF ClientsInv
    <2> QED
      BY <2>1, ValidWalletStep, Zenon
  <1> QED
    BY <1>1, ClientsInvariant, WatchInvariant, PTL DEF ClientsSpec, OnlyValidWallets
=============================================================================
