------------------------------ MODULE Signing ------------------------------
(***************************************************************************)
(* The members of a wallet sign one message: the retry loop of every       *)
(* member (signing_loop.go), its announcement phase (announcer.go) and its *)
(* done check (signing_done.go), over a broadcast channel that may lose or *)
(* delay messages and deliver them twice, as the executor runs them        *)
(* (signing.go).                                                           *)
(***************************************************************************)
EXTENDS Naturals, FiniteSetsExt

CONSTANTS
    Members,                    \* the signing group
    HonestThreshold,
    AnnouncementDelayBlocks, AnnouncementActiveBlocks,
    MaximumProtocolBlocks, CoolDownBlocks,
    AttemptsLimit,              \* signingAttemptsLimit
    Lag,        \* blocks by which a cancelled context may be noticed late
    MaxBlock    \* bound on block numbers

ASSUME SigningAssumption ==
    /\ IsFiniteSet(Members)
    /\ HonestThreshold \in 1..Cardinality(Members)
    /\ 2 * HonestThreshold > Cardinality(Members)
    /\ {AnnouncementDelayBlocks, AnnouncementActiveBlocks, MaximumProtocolBlocks,
        CoolDownBlocks, AttemptsLimit, Lag, MaxBlock} \subseteq Nat
    /\ Lag < CoolDownBlocks + AnnouncementDelayBlocks + AnnouncementActiveBlocks

VARIABLES
    block,          \* the block height of the host chain
    pc,             \* where the retry loop of a member is
    attemptCounter,
    included,       \* includedMembersIndexes, by the member's own announcement phase
    listeners,      \* attempts whose done check may write to the member's map
    dangling,       \* attempts a member gave up with their done check still listening
    announced,      \* the attempts a member announced itself for
    joined,         \* the members a member ran the protocol with, by attempt
    doneMessages,   \* the done messages broadcast so far
    outcome,        \* the result of the loop
    selection       \* the choice performMembersSelection makes from the seed

loopVars == <<pc, attemptCounter, included, listeners, dangling, outcome>>
channelVars == <<announced, joined, doneMessages>>
vars == <<block, loopVars, channelVars, selection>>

Attempts == 1..AttemptsLimit
Majorities == {S \in SUBSET Members : Cardinality(S) >= HonestThreshold}

(* The signature is determined by the attempt and the members that ran it. *)
DoneMessage == [sender : Members, attempt : Attempts, signature : SUBSET Members, endBlock : 0..MaxBlock]
Outcome == [attempt : Attempts, signature : SUBSET Members, latestEndBlock : 0..MaxBlock]
NoOutcome == [attempt |-> 0]

TypeOK ==
    /\ block \in 0..MaxBlock
    /\ pc \in [Members -> {"waiting", "announcing", "signing", "checking", "done", "failed"}]
    /\ attemptCounter \in [Members -> 1..(AttemptsLimit + 1)]
    /\ included \in [Members -> SUBSET Members]
    /\ listeners \in [Members -> SUBSET Attempts]
    /\ dangling \in [Members -> SUBSET Attempts]
    /\ announced \in [Members -> SUBSET (Attempts \cup {AttemptsLimit + 1})]
    /\ joined \in [Members -> [Attempts -> SUBSET Members]]
    /\ doneMessages \subseteq DoneMessage
    /\ outcome \in [Members -> Outcome \cup {NoOutcome}]
    /\ selection \in [Attempts -> [Majorities -> SUBSET Members]]

Init ==
    /\ block = 0
    /\ pc = [m \in Members |-> "waiting"]
    /\ attemptCounter = [m \in Members |-> 1]
    /\ included = [m \in Members |-> {}]
    /\ listeners = [m \in Members |-> {}]
    /\ dangling = [m \in Members |-> {}]
    /\ announced = [m \in Members |-> {}]
    /\ joined = [m \in Members |-> [a \in Attempts |-> {}]]
    /\ doneMessages = {}
    /\ outcome = [m \in Members |-> NoOutcome]
    /\ selection \in [Attempts -> {s \in [Majorities -> SUBSET Members] :
           \A R \in Majorities : s[R] \subseteq R /\ Cardinality(s[R]) = HonestThreshold}]
-----------------------------------------------------------------------------
signingAttemptMaximumBlocks ==
    AnnouncementDelayBlocks + AnnouncementActiveBlocks + MaximumProtocolBlocks + CoolDownBlocks

(* The blocks of attempt a of a signing that starts at block 0.            *)
announcementStartBlock(a) == (a - 1) * signingAttemptMaximumBlocks + AnnouncementDelayBlocks
announcementEndBlock(a) == announcementStartBlock(a) + AnnouncementActiveBlocks
timeoutBlock(a) == announcementEndBlock(a) + MaximumProtocolBlocks
loopTimeoutBlock == AttemptsLimit * signingAttemptMaximumBlocks

loopIsDone == block >= loopTimeoutBlock

(* The head of the loop: stop if the time is over, else go on to the next  *)
(* attempt whose announcement phase is not over yet. The variables of the  *)
(* attempt that ends go out of scope.                                      *)
nextAttempt(m) ==
    LET open == {a \in (attemptCounter[m] + 1)..(AttemptsLimit + 1) : announcementEndBlock(a) > block}
    IN  /\ IF loopIsDone \/ open = {}
           THEN /\ pc' = [pc EXCEPT ![m] = "failed"]
                /\ UNCHANGED attemptCounter
           ELSE /\ pc' = [pc EXCEPT ![m] = "waiting"]
                /\ attemptCounter' = [attemptCounter EXCEPT ![m] = Min(open)]
        /\ included' = [included EXCEPT ![m] = {}]
        /\ listeners' = [listeners EXCEPT ![m] = {}]

(* The block number, the wait or the announcement fails with an error, or  *)
(* the loop was started after the announcement phase.                      *)
skipAttempt(m) ==
    /\ pc[m] = "waiting"
    /\ nextAttempt(m)
    /\ UNCHANGED <<block, dangling, outcome, channelVars, selection>>

announce(m) ==
    /\ pc[m] = "waiting"
    /\ block >= announcementStartBlock(attemptCounter[m]) \/ loopIsDone
    /\ pc' = [pc EXCEPT ![m] = "announcing"]
    /\ announced' = [announced EXCEPT ![m] = @ \cup {attemptCounter[m]}]
    /\ UNCHANGED <<block, attemptCounter, included, listeners, dangling, outcome,
                   joined, doneMessages, selection>>

performMembersSelection(attempt, ready) == selection[attempt][ready]

(* A done check left behind runs until its context is cancelled, and       *)
(* writes to the map of the current one.                                   *)
listeningDuring(m, a) == {a} \cup {b \in dangling[m] : block <= timeoutBlock(b) + Lag}

(* The announcement phase is over: the loop ends, a minority is ready, or  *)
(* the members are selected, the done check starts to listen, and the      *)
(* member runs the protocol if it is not excluded. Any of the messages     *)
(* sent to the member may have been lost.                                  *)
endAnnouncement(m) ==
    LET a == attemptCounter[m] IN
    /\ pc[m] = "announcing"
    /\ block >= announcementEndBlock(a) \/ loopIsDone
    /\ IF loopIsDone
       THEN /\ pc' = [pc EXCEPT ![m] = "failed"]
            /\ UNCHANGED <<attemptCounter, included, listeners, joined>>
       ELSE \E heard \in SUBSET {s \in Members : a \in announced[s]} :
            LET ready == heard \cup {m} IN
            IF ready \notin Majorities
            THEN /\ nextAttempt(m)
                 /\ UNCHANGED joined
            ELSE LET selected == performMembersSelection(a, ready) IN
                 /\ included' = [included EXCEPT ![m] = selected]
                 /\ listeners' = [listeners EXCEPT ![m] = listeningDuring(m, a)]
                 /\ pc' = [pc EXCEPT ![m] = IF m \in selected THEN "signing" ELSE "checking"]
                 /\ joined' = IF m \in selected THEN [joined EXCEPT ![m][a] = selected]
                              ELSE joined
                 /\ UNCHANGED attemptCounter
    /\ UNCHANGED <<block, dangling, outcome, announced, doneMessages, selection>>

(* The signing protocol returns a signature, which takes all the included  *)
(* members, and the member signals that it is done.                        *)
signalDone(m) ==
    LET a == attemptCounter[m] IN
    /\ pc[m] = "signing"
    /\ block <= timeoutBlock(a) + Lag
    /\ \A s \in included[m] : joined[s][a] = included[m]
    /\ doneMessages' = doneMessages \cup
           {[sender |-> m, attempt |-> a, signature |-> included[m], endBlock |-> block]}
    /\ pc' = [pc EXCEPT ![m] = "checking"]
    /\ UNCHANGED <<block, attemptCounter, included, listeners, dangling, outcome,
                   announced, joined, selection>>

(* The protocol fails or the done signal cannot be sent. The receiver of   *)
(* the done check is not cancelled: it runs until its context is.          *)
failAttempt(m) ==
    /\ pc[m] = "signing"
    /\ dangling' = [dangling EXCEPT ![m] = @ \cup {attemptCounter[m]}]
    /\ nextAttempt(m)
    /\ UNCHANGED <<block, outcome, channelVars, selection>>

(* Mutant: a message of any attempt is accepted.                           *)
isValidDoneMessageOfAnyAttempt(msg, attemptNumber) == msg.endBlock <= timeoutBlock(attemptNumber)

isValidDoneMessage(msg, attemptNumber) ==
    /\ msg.attempt = attemptNumber
    /\ msg.endBlock <= timeoutBlock(attemptNumber)

acceptable(m) == {msg \in doneMessages : \E a \in listeners[m] : isValidDoneMessage(msg, a)}

(* The messages the member got before the map was read, one per sender.    *)
doneSigners(m) ==
    {D \in SUBSET acceptable(m) : \A d, e \in D : d.sender = e.sender => d = e}

(* Mutant: the member's own message is not waited for.                     *)
allOthersDone(m, D) == Cardinality(D) = Cardinality(included[m] \ {m})

allDone(m, D) == Cardinality(D) = Cardinality(included[m])

(* As many messages as there are included members: they must agree on the  *)
(* signature.                                                              *)
waitUntilAllDone(m) ==
    /\ pc[m] = "checking"
    /\ \E D \in doneSigners(m) :
          /\ allDone(m, D)
          /\ IF \A d, e \in D : d.signature = e.signature
             THEN /\ outcome' = [outcome EXCEPT ![m] =
                         [attempt |-> attemptCounter[m],
                          signature |-> (CHOOSE d \in D : TRUE).signature,
                          latestEndBlock |-> Max({d.endBlock : d \in D})]]
                  /\ pc' = [pc EXCEPT ![m] = "done"]
                  /\ included' = [included EXCEPT ![m] = {}]
                  /\ listeners' = [listeners EXCEPT ![m] = {}]
                  /\ UNCHANGED attemptCounter
             ELSE nextAttempt(m) /\ UNCHANGED outcome
    /\ UNCHANGED <<block, dangling, channelVars, selection>>

(* Mutant: a member that got some of the messages waits on.                *)
waitDoneTimedOutWithoutMessages(m) ==
    /\ pc[m] = "checking"
    /\ block >= timeoutBlock(attemptCounter[m])
    /\ acceptable(m) = {}
    /\ nextAttempt(m)
    /\ UNCHANGED <<block, dangling, outcome, channelVars, selection>>

waitDoneTimedOut(m) ==
    /\ pc[m] = "checking"
    /\ block >= timeoutBlock(attemptCounter[m])
    /\ nextAttempt(m)
    /\ UNCHANGED <<block, dangling, outcome, channelVars, selection>>

NewBlock ==
    /\ block < MaxBlock
    /\ block' = block + 1
    /\ UNCHANGED <<loopVars, channelVars, selection>>

Loop(m) ==
    \/ announce(m) \/ endAnnouncement(m) \/ failAttempt(m) \/ waitDoneTimedOut(m)
    \/ signalDone(m) \/ waitUntilAllDone(m)

Next ==
    \/ NewBlock
    \/ \E m \in Members : Loop(m) \/ skipAttempt(m)

Spec == Init /\ [][Next]_vars
-----------------------------------------------------------------------------
(* waitUntilAllDone takes a number of messages for the right ones, and     *)
(* never compares their senders with the attempt's members. What it may    *)
(* count are nevertheless messages of this very attempt, from at most as   *)
(* many members as it waits for, so that the map never grows while it is   *)
(* being read: any two selections overlap in a member, which runs the      *)
(* protocol for one of them.                                               *)
CountedSignersMadeTheSignature ==
    \A m \in Members : pc[m] = "checking" =>
        /\ Cardinality({d.sender : d \in acceptable(m)}) <= Cardinality(included[m])
        /\ \A d \in acceptable(m) : d.attempt = attemptCounter[m]

(* The members that finish in the same attempt have the same signature and *)
(* the same end block, whatever each of them heard in its announcement     *)
(* phase, included or not.                                                 *)
AttemptHasOneOutcome ==
    \A m, n \in Members : outcome[m].attempt = outcome[n].attempt => outcome[m] = outcome[n]

(* Once the time of the loop is over, a member that has not ended can      *)
(* still take a step of its own, whatever the others do and whatever was   *)
(* lost: no wait of the loop is for another member alone, so the           *)
(* executor's lock is always released.                                     *)
NoLoopIsStuck ==
    loopIsDone => \A m \in Members : pc[m] \notin {"done", "failed"} => ENABLED Loop(m)

(* The scheduling the Go runtime and the chain give: goroutines run and    *)
(* blocks are mined. Messages and the protocol are owed nothing.           *)
Fairness ==
    /\ WF_vars(NewBlock)
    /\ \A m \in Members : WF_vars(Loop(m))

SpecFair == Spec /\ Fairness

(* No loop outlives its timeout: every wait of it is bounded by a block,   *)
(* so the executor's lock is always released.                              *)
EveryLoopEnds == \A m \in Members : <>(pc[m] \in {"done", "failed"})
=============================================================================
