--------------------------- MODULE Coordination ---------------------------
(***************************************************************************)
(* The coordination layer of one wallet: every node that controls a seat   *)
(* detects coordination windows, computes the leader, leads or follows     *)
(* (coordination.go), and hands the agreed proposal to its wallet          *)
(* dispatcher (node.go, wallet.go).  Blocks reach a node late or twice,    *)
(* messages get lost or arrive again, and the node's seats are registered  *)
(* one after another while windows already open.                           *)
(***************************************************************************)
EXTENDS Naturals, FiniteSets, FiniteSetsExt

CONSTANTS
    Operators,
    SeatsOf,                    \* the seats of the signing group an operator holds
    Seeds,                      \* hashes of the wallet's key and a safe block's hash
    LeaderOf,                   \* the first operator in the order a seed shuffles
    DrawsHeartbeat,             \* the seeds whose coin asks for a heartbeat
    CoordinationFrequencyBlocks, ActivePhaseDurationBlocks,
    FrequencyWindows,           \* windows between two checks of the rarer actions
    ActivationWindow,           \* first window with sweeps in every window
    MaxWindows, MaxBlock        \* bounds

ASSUME CoordinationAssumption ==
    /\ SeatsOf \in [Operators -> SUBSET Nat \ {{}}]
    /\ \A o, p \in Operators : o # p => SeatsOf[o] \cap SeatsOf[p] = {}
    /\ LeaderOf \in [Seeds -> Operators] /\ DrawsHeartbeat \subseteq Seeds
    /\ {CoordinationFrequencyBlocks, FrequencyWindows} \subseteq Nat \ {0}
    /\ {ActivePhaseDurationBlocks, ActivationWindow, MaxWindows, MaxBlock} \subseteq Nat

Windows == 1..MaxWindows
Actions == {"Redemption", "DepositSweep", "MovedFundsSweep", "MovingFunds", "Heartbeat"}
Noop == "Noop"
NoProposal == "none"

VARIABLES
    block,
    seed,           \* getSeed of a window, the same at every node
    walletCache,    \* seats whose signer the node has registered
    executor,       \* membersIndexes of the node's executor; {} before there is one
    lastWindow,     \* the last window the node's watcher started
    procedures,     \* the coordination procedure of a node in a window
    proposals,      \* the proposal a procedure ended with
    messages,       \* coordination messages broadcast
    faults,         \* faults a node recorded
    actions         \* the dispatcher's running actions

vars == <<block, seed, walletCache, executor, lastWindow, procedures, proposals,
          messages, faults, actions>>

Message == [sender : UNION {SeatsOf[o] : o \in Operators}, window : Windows,
            action : Actions \cup {Noop}]
FaultType == {"LeaderIdleness", "LeaderMistake", "LeaderImpersonation"}
Fault == [window : Windows, culprit : Operators, type : FaultType]

TypeOK ==
    /\ block \in 0..MaxBlock
    /\ seed \in [Windows -> Seeds]
    /\ \A o \in Operators : walletCache[o] \subseteq SeatsOf[o]
    /\ \A o \in Operators : executor[o] \subseteq walletCache[o]
    /\ lastWindow \in [Operators -> 0..MaxWindows]
    /\ procedures \in [Operators -> [Windows ->
           {"none", "started", "leading", "following", "finished", "processed", "failed"}]]
    /\ proposals \in [Operators -> [Windows -> Actions \cup {Noop, NoProposal}]]
    /\ messages \subseteq Message
    /\ faults \in [Operators -> SUBSET Fault]
    /\ actions \in [Operators -> SUBSET (Windows \X Actions)]

Init ==
    /\ block = 0
    /\ seed \in [Windows -> Seeds]
    /\ walletCache = [o \in Operators |-> {}]
    /\ executor = [o \in Operators |-> {}]
    /\ lastWindow = [o \in Operators |-> 0]
    /\ procedures = [o \in Operators |-> [w \in Windows |-> "none"]]
    /\ proposals = [o \in Operators |-> [w \in Windows |-> NoProposal]]
    /\ messages = {}
    /\ faults = [o \in Operators |-> {}]
    /\ actions = [o \in Operators |-> {}]
-----------------------------------------------------------------------------
coordinationBlock(w) == w * CoordinationFrequencyBlocks
activePhaseEndBlock(w) == coordinationBlock(w) + ActivePhaseDurationBlocks

getLeader(w) == LeaderOf[seed[w]]

getActionsChecklist(w) ==
    LET rare == w % FrequencyWindows = 0
    IN  {"Redemption"}
        \cup (IF rare \/ w >= ActivationWindow THEN {"DepositSweep", "MovedFundsSweep"} ELSE {})
        \cup (IF rare THEN {"MovingFunds"} ELSE {})
        \cup (IF seed[w] \in DrawsHeartbeat THEN {"Heartbeat"} ELSE {})

\* Mutant: the follower does not expect a leader without anything to propose.
actionsAllowedWithoutNoop(w) == getActionsChecklist(w)

\* What a follower accepts.
actionsAllowed(w) == getActionsChecklist(w) \cup {Noop}

NewBlock ==
    /\ block < MaxBlock
    /\ block' = block + 1
    /\ UNCHANGED <<seed, walletCache, executor, lastWindow, procedures, proposals,
                   messages, faults, actions>>

\* A key generation of the node registers the signer of one seat.
registerSigner(o, seat) ==
    /\ seat \in SeatsOf[o] \ walletCache[o]
    /\ walletCache' = [walletCache EXCEPT ![o] = @ \cup {seat}]
    /\ UNCHANGED <<block, seed, executor, lastWindow, procedures, proposals,
                   messages, faults, actions>>

isAfter(o, w) == w > lastWindow[o]

\* The block channel emits the coordination block of w, on time, late or again.
watchCoordinationWindows(o, w) ==
    /\ coordinationBlock(w) <= block
    /\ isAfter(o, w)
    /\ lastWindow' = [lastWindow EXCEPT ![o] = w]
    /\ procedures' = [procedures EXCEPT ![o][w] = "started"]
    /\ UNCHANGED <<block, seed, walletCache, executor, proposals, messages, faults, actions>>

\* The executor runs one coordination at a time.
executorIsBusy(o) == \E w \in Windows : procedures[o][w] \in {"leading", "following"}

\* Made once, of the signers registered by then.
getCoordinationExecutor(o) == IF executor[o] = {} THEN walletCache[o] ELSE executor[o]

\* The callback of the window: nothing for a node without signers; else the
\* executor coordinates unless it is busy or the seed cannot be computed.
executeCoordinationProcedure(o, w) ==
    /\ procedures[o][w] = "started"
    /\ executor' = [executor EXCEPT ![o] = getCoordinationExecutor(o)]
    /\ \E next \in {"failed"} \cup
             (IF executor'[o] = {} \/ executorIsBusy(o) THEN {}
              ELSE IF getLeader(w) = o THEN {"leading"} ELSE {"following"}) :
          procedures' = [procedures EXCEPT ![o][w] = next]
    /\ UNCHANGED <<block, seed, walletCache, lastWindow, proposals, messages, faults, actions>>

\* All attempts to generate a proposal fail, or it cannot be sent.
leaderRoutineFails(o, w) ==
    /\ procedures[o][w] = "leading"
    /\ procedures' = [procedures EXCEPT ![o][w] = "failed"]
    /\ UNCHANGED <<block, seed, walletCache, executor, lastWindow, proposals, messages,
                   faults, actions>>

\* The generator proposes an action of the checklist or none.
executeLeaderRoutine(o, w) ==
    /\ procedures[o][w] = "leading"
    /\ \E action \in getActionsChecklist(w) \cup {Noop} :
          /\ messages' = messages \cup
                 {[sender |-> Min(executor[o]), window |-> w, action |-> action]}
          /\ proposals' = [proposals EXCEPT ![o][w] = action]
    /\ procedures' = [procedures EXCEPT ![o][w] = "finished"]
    /\ UNCHANGED <<block, seed, walletCache, executor, lastWindow, faults, actions>>

leaderID(w) == Min(SeatsOf[getLeader(w)])
operatorOf(seat) == CHOOSE o \in Operators : seat \in SeatsOf[o]

\* Mutant: messages with another coordination block are not filtered out.
isForMeAnyWindow(o, w, msg) == msg.sender \notin executor[o]

\* A message for this window from another node.
isForMe(o, w, msg) == msg.window = w /\ msg.sender \notin executor[o]

\* A fault and the wait goes on.
recordFault(o, w, msg) ==
    /\ procedures[o][w] = "following"
    /\ isForMe(o, w, msg)
    /\ msg.sender # leaderID(w) \/ msg.action \notin actionsAllowed(w)
    /\ faults' = [faults EXCEPT ![o] = @ \cup
           {IF msg.sender # leaderID(w)
            THEN [window |-> w, culprit |-> operatorOf(msg.sender), type |-> "LeaderImpersonation"]
            ELSE [window |-> w, culprit |-> getLeader(w), type |-> "LeaderMistake"]}]
    /\ UNCHANGED <<block, seed, walletCache, executor, lastWindow, procedures, proposals,
                   messages, actions>>

\* The proposal of the leader.
acceptProposal(o, w, msg) ==
    /\ procedures[o][w] = "following"
    /\ isForMe(o, w, msg)
    /\ msg.sender = leaderID(w) /\ msg.action \in actionsAllowed(w)
    /\ proposals' = [proposals EXCEPT ![o][w] = msg.action]
    /\ procedures' = [procedures EXCEPT ![o][w] = "finished"]
    /\ UNCHANGED <<block, seed, walletCache, executor, lastWindow, messages, faults, actions>>

\* Mutant: a follower that recorded a fault waits on.
followerTimesOutWithoutFaults(o, w) ==
    /\ procedures[o][w] = "following"
    /\ faults[o] = {}
    /\ block >= activePhaseEndBlock(w)
    /\ faults' = [faults EXCEPT ![o] = @ \cup
           {[window |-> w, culprit |-> getLeader(w), type |-> "LeaderIdleness"]}]
    /\ procedures' = [procedures EXCEPT ![o][w] = "failed"]
    /\ UNCHANGED <<block, seed, walletCache, executor, lastWindow, proposals, messages, actions>>

\* The active phase ends without one.
followerTimesOut(o, w) ==
    /\ procedures[o][w] = "following"
    /\ block >= activePhaseEndBlock(w)
    /\ faults' = [faults EXCEPT ![o] = @ \cup
           {[window |-> w, culprit |-> getLeader(w), type |-> "LeaderIdleness"]}]
    /\ procedures' = [procedures EXCEPT ![o][w] = "failed"]
    /\ UNCHANGED <<block, seed, walletCache, executor, lastWindow, proposals, messages, actions>>

\* The dispatcher starts the action unless the wallet is busy.
dispatch(o, w) ==
    actions' = IF actions[o] # {} THEN actions
               ELSE [actions EXCEPT ![o] = @ \cup {<<w, proposals[o][w]>>}]

\* A handler may fail to set the action up.
handleProposal(o, w) == UNCHANGED actions \/ dispatch(o, w)

processCoordinationResult(o, w) ==
    /\ procedures[o][w] = "finished"
    /\ procedures' = [procedures EXCEPT ![o][w] = "processed"]
    /\ IF proposals[o][w] = Noop THEN UNCHANGED actions ELSE handleProposal(o, w)
    /\ UNCHANGED <<block, seed, walletCache, executor, lastWindow, proposals, messages, faults>>

\* The execution of an action returns, with or without an error.
actionReturns(o, a) ==
    /\ a \in actions[o]
    /\ actions' = [actions EXCEPT ![o] = @ \ {a}]
    /\ UNCHANGED <<block, seed, walletCache, executor, lastWindow, procedures, proposals,
                   messages, faults>>

Procedure(o, w) ==
    \/ executeCoordinationProcedure(o, w) \/ leaderRoutineFails(o, w)
    \/ executeLeaderRoutine(o, w) \/ followerTimesOut(o, w)
    \/ processCoordinationResult(o, w)

Next ==
    \/ NewBlock
    \/ \E o \in Operators :
          \/ \E seat \in SeatsOf[o] : registerSigner(o, seat)
          \/ \E w \in Windows :
                \/ watchCoordinationWindows(o, w)
                \/ Procedure(o, w)
                \/ \E msg \in messages : recordFault(o, w, msg) \/ acceptProposal(o, w, msg)
          \/ \E a \in actions[o] : actionReturns(o, a)

Spec == Init /\ [][Next]_vars
-----------------------------------------------------------------------------
\* The wallet does one thing at a time. A window yields one proposal: whatever
\* the nodes hear, however often they see the coordination block, no two of them
\* end the window with different proposals, and nobody ends with a proposal its
\* leader did not make. A node executes one action at a time, even when one lasts
\* into the next window, and it is one that a window agreed on.
OneActionAtATime ==
    /\ \A w \in Windows, o, p \in Operators :
          proposals[o][w] # NoProposal /\ proposals[p][w] # NoProposal =>
              proposals[o][w] = proposals[p][w] /\ proposals[getLeader(w)][w] # NoProposal
    /\ \A o \in Operators :
          /\ Cardinality(actions[o]) <= 1
          /\ \A a \in actions[o] : proposals[getLeader(a[1])][a[1]] = a[2]

\* While every node runs this code, no leader is blamed for a proposal that is
\* not allowed: the leader and its followers derive the same checklist.
NoLeaderMistakes ==
    \A o \in Operators : \A f \in faults[o] : f.type # "LeaderMistake"

\* Blocks are mined and goroutines run; no message is ever sure to arrive.
Fairness ==
    /\ WF_vars(NewBlock)
    /\ \A o \in Operators, w \in Windows : WF_vars(Procedure(o, w))

SpecFair == Spec /\ Fairness

\* A procedure that starts ends, so that the executor's lock is free again,
\* without any help from the leader or the network.
EveryProcedureEnds ==
    \A o \in Operators, w \in Windows :
        procedures[o][w] = "started" ~> procedures[o][w] \in {"failed", "processed"}
=============================================================================
