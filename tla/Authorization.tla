--------------------------- MODULE Authorization ---------------------------
(***************************************************************************)
(* Who may be selected to wallets, and with what weight: the weights the   *)
(* governance grants (Allowlist.sol), the pending decreases of the wallet  *)
(* registry (EcdsaAuthorization.sol), the sortition pool, and the client   *)
(* that keeps its operator's entry in the pool up to date (pkg/sortition). *)
(* A transaction is one action, calls between the contracts included.      *)
(*                                                                         *)
(* The sortition pool is external: an operator's entry is its weight, the  *)
(* stake in units of a divisor, and the pool is locked while a group is    *)
(* being created.                                                          *)
(***************************************************************************)
EXTENDS Naturals

CONSTANTS
    StakingProviders,
    Operators,
    Weights,            \* weights the governance grants
    Parameters,         \* authorization parameters it may install
    PoolWeightDivisor,
    None,               \* no operator, address(0)
    Never,              \* type(uint64).max, a decrease that is not activated
    FirstTime, MaxTime, \* bounds on block timestamps
    MaxLocks            \* bound on group creations

ParametersType ==
    [minimumAuthorization : Nat, authorizationDecreaseDelay : Nat,
     authorizationDecreaseChangePeriod : Nat]

ASSUME AuthorizationAssumption ==
    /\ None \notin Operators
    /\ Weights \subseteq Nat
    /\ Parameters \subseteq ParametersType
    /\ PoolWeightDivisor \in Nat \ {0}
    /\ Never \notin Nat
    /\ FirstTime \in Nat \ {0} /\ MaxTime \in Nat
    /\ MaxLocks \in Nat

VARIABLES
    now,                \* block.timestamp
    weight, pendingNewWeight, decreasePending,  \* Allowlist, by provider
    operatorOf,         \* stakingProviderToOperator
    decreasingBy, decreasingAt,                 \* pendingDecreases
    parameters,
    poolWeight,         \* weight of an operator's entry in the pool, 0: none
    isLocked, locks,    \* the pool's lock, and the creations so far
    monitor,            \* what the client of an operator is doing
    sawInPool,          \* its isOperatorInPool
    exposedAt           \* history: when the pool last counted weight that a
                        \* provider's pending decrease takes away

allowlistVars == <<weight, pendingNewWeight, decreasePending>>
registryVars == <<operatorOf, decreasingBy, decreasingAt, parameters>>
poolVars == <<poolWeight, isLocked, locks>>
monitorVars == <<monitor, sawInPool>>
authorizationVars == <<now, allowlistVars, registryVars, poolVars, monitorVars, exposedAt>>

AuthorizationTypeOK ==
    /\ now \in Nat
    /\ weight \in [StakingProviders -> Nat]
    /\ pendingNewWeight \in [StakingProviders -> Nat]
    /\ decreasePending \in [StakingProviders -> BOOLEAN]
    /\ operatorOf \in [StakingProviders -> Operators \cup {None}]
    /\ decreasingBy \in [StakingProviders -> Nat]
    /\ decreasingAt \in [StakingProviders -> Nat \cup {Never}]
    /\ parameters \in Parameters
    /\ poolWeight \in [Operators -> Nat]
    /\ isLocked \in BOOLEAN
    /\ locks \in Nat
    /\ monitor \in [Operators -> {"idle", "checking", "acting"}]
    /\ sawInPool \in [Operators -> BOOLEAN]
    /\ exposedAt \in [StakingProviders -> Nat]

AuthorizationInit ==
    /\ now = FirstTime
    /\ weight = [p \in StakingProviders |-> 0]
    /\ pendingNewWeight = [p \in StakingProviders |-> 0]
    /\ decreasePending = [p \in StakingProviders |-> FALSE]
    /\ operatorOf = [p \in StakingProviders |-> None]
    /\ decreasingBy = [p \in StakingProviders |-> 0]
    /\ decreasingAt = [p \in StakingProviders |-> 0]
    /\ parameters \in Parameters
    /\ poolWeight = [o \in Operators |-> 0]
    /\ isLocked = FALSE
    /\ locks = 0
    /\ monitor = [o \in Operators |-> "idle"]
    /\ sawInPool = [o \in Operators |-> FALSE]
    /\ exposedAt = [p \in StakingProviders |-> 0]
-----------------------------------------------------------------------------
inPool(o) == poolWeight[o] > 0
poolWeightOf(stake) == stake \div PoolWeightDivisor

isRegistered(o) == \E p \in StakingProviders : operatorOf[p] = o
providerOf(o) == CHOOSE p \in StakingProviders : operatorOf[p] = o

(* Mutant: the pending decrease still counts.                              *)
eligibleStakeWithPending(p) ==
    IF weight[p] >= parameters.minimumAuthorization THEN weight[p] ELSE 0

eligibleStake(p) ==
    IF /\ weight[p] > decreasingBy[p]
       /\ weight[p] - decreasingBy[p] >= parameters.minimumAuthorization
    THEN weight[p] - decreasingBy[p]
    ELSE 0

isOperatorUpToDate(o) ==
    IF inPool(o) THEN poolWeight[o] = poolWeightOf(eligibleStake(providerOf(o)))
    ELSE eligibleStake(providerOf(o)) = 0
-----------------------------------------------------------------------------
(* Allowlist: a provider is granted a weight.                              *)
addStakingProvider(p, newWeight) ==
    /\ newWeight # 0
    /\ weight[p] = 0
    /\ newWeight >= parameters.minimumAuthorization
    /\ weight' = [weight EXCEPT ![p] = newWeight]
    /\ UNCHANGED <<now, pendingNewWeight, decreasePending, registryVars, poolVars,
                   monitorVars, exposedAt>>

(* The registry's part of a decrease request. A decrease of an operator    *)
(* that is known waits for the pool to be updated.                         *)
authorizationDecreaseRequested(p, fromAmount, toAmount) ==
    /\ toAmount = 0 \/ toAmount >= parameters.minimumAuthorization
    /\ decreasingAt[p] \notin {0, Never} =>
           /\ decreasingAt[p] >= parameters.authorizationDecreaseChangePeriod
           /\ now >= decreasingAt[p] - parameters.authorizationDecreaseChangePeriod
    /\ decreasingBy' = [decreasingBy EXCEPT ![p] = fromAmount - toAmount]
    /\ decreasingAt' = [decreasingAt EXCEPT ![p] = IF operatorOf[p] = None THEN now ELSE Never]
    /\ UNCHANGED <<operatorOf, parameters>>

requestWeightDecrease(p, newWeight) ==
    /\ weight[p] # 0
    /\ newWeight < weight[p]
    /\ pendingNewWeight' = [pendingNewWeight EXCEPT ![p] = newWeight]
    /\ decreasePending' = [decreasePending EXCEPT ![p] = TRUE]
    /\ authorizationDecreaseRequested(p, weight[p], newWeight)
    /\ UNCHANGED <<now, weight, poolVars, monitorVars, exposedAt>>

(* Mutant: the allowlist forgets that the decrease was pending, but not    *)
(* its amount; the registry keeps its entry.                               *)
approveAuthorizationDecreaseKeepingEntry(p) ==
    /\ decreasingAt[p] \notin {0, Never}
    /\ now >= decreasingAt[p]
    /\ weight[p] # 0
    /\ decreasePending[p]
    /\ weight' = [weight EXCEPT ![p] = pendingNewWeight[p]]
    /\ pendingNewWeight' = [pendingNewWeight EXCEPT ![p] = 0]
    /\ decreasePending' = [decreasePending EXCEPT ![p] = FALSE]
    /\ UNCHANGED <<now, registryVars, poolVars, monitorVars, exposedAt>>

(* Anyone may finish a decrease at the registry, which tells the allowlist.*)
approveAuthorizationDecrease(p) ==
    /\ decreasingAt[p] \notin {0, Never}
    /\ now >= decreasingAt[p]
    /\ weight[p] # 0
    /\ decreasePending[p]
    /\ weight' = [weight EXCEPT ![p] = pendingNewWeight[p]]
    /\ pendingNewWeight' = [pendingNewWeight EXCEPT ![p] = 0]
    /\ decreasePending' = [decreasePending EXCEPT ![p] = FALSE]
    /\ decreasingBy' = [decreasingBy EXCEPT ![p] = 0]
    /\ decreasingAt' = [decreasingAt EXCEPT ![p] = 0]
    /\ UNCHANGED <<now, operatorOf, parameters, poolVars, monitorVars, exposedAt>>

registerOperator(p, o) ==
    /\ ~isRegistered(o)
    /\ operatorOf[p] = None
    /\ decreasingAt[p] = 0
    /\ operatorOf' = [operatorOf EXCEPT ![p] = o]
    /\ UNCHANGED <<now, allowlistVars, decreasingBy, decreasingAt, parameters, poolVars,
                   monitorVars, exposedAt>>

updateAuthorizationParameters(newParameters) ==
    /\ parameters' = newParameters
    /\ UNCHANGED <<now, allowlistVars, operatorOf, decreasingBy, decreasingAt, poolVars,
                   monitorVars, exposedAt>>
-----------------------------------------------------------------------------
(* Mutant: the decrease can be approved at once.                           *)
activateDecreaseWithoutDelay(p) ==
    decreasingAt' = [decreasingAt EXCEPT ![p] = IF @ = Never THEN now ELSE @]

(* The pool was brought in line with the registry: the delay of a pending  *)
(* decrease starts now.                                                    *)
activateDecrease(p) ==
    decreasingAt' = [decreasingAt EXCEPT ![p] =
        IF @ = Never THEN now + parameters.authorizationDecreaseDelay ELSE @]

insertOperator(o, stake) ==
    /\ ~isLocked
    /\ ~inPool(o)
    /\ poolWeightOf(stake) > 0
    /\ poolWeight' = [poolWeight EXCEPT ![o] = poolWeightOf(stake)]

updatePoolEntry(o, stake) ==
    /\ ~isLocked
    /\ poolWeight' = [poolWeight EXCEPT ![o] = poolWeightOf(stake)]

joinSortitionPool(o) ==
    /\ isRegistered(o)
    /\ LET p == providerOf(o) IN
       /\ eligibleStake(p) # 0
       /\ insertOperator(o, eligibleStake(p))
       /\ activateDecrease(p)
    /\ UNCHANGED exposedAt

updateOperatorStatus(o) ==
    /\ isRegistered(o)
    /\ LET p == providerOf(o) IN
       /\ IF inPool(o)
          THEN updatePoolEntry(o, eligibleStake(p))
          ELSE UNCHANGED poolWeight
       /\ activateDecrease(p)
       /\ exposedAt' = IF poolWeight[o] > poolWeightOf(weight[p] - decreasingBy[p])
                       THEN [exposedAt EXCEPT ![p] = now] ELSE exposedAt

statusUnchanged == <<now, allowlistVars, operatorOf, decreasingBy, parameters, isLocked, locks>>

(* Anyone may bring an operator's entry up to date.                        *)
updateOperatorStatusByAnyone(o) ==
    /\ updateOperatorStatus(o)
    /\ UNCHANGED <<statusUnchanged, monitorVars>>
-----------------------------------------------------------------------------
(* The client of a registered operator looks at the pool on every tick.    *)
checkOperatorStatus(o) ==
    /\ isRegistered(o)
    /\ monitor[o] = "idle"
    /\ monitor' = [monitor EXCEPT ![o] = "checking"]
    /\ sawInPool' = [sawInPool EXCEPT ![o] = inPool(o)]
    /\ UNCHANGED <<now, allowlistVars, registryVars, poolVars, exposedAt>>

(* Mutant: an operator in the pool is taken to be up to date.              *)
decideToActOutsiders(o) ==
    /\ monitor[o] = "checking"
    /\ monitor' = [monitor EXCEPT ![o] =
           IF isOperatorUpToDate(o) \/ isLocked \/ sawInPool[o] THEN "idle" ELSE "acting"]
    /\ UNCHANGED <<now, allowlistVars, registryVars, poolVars, sawInPool, exposedAt>>

decideToAct(o) ==
    /\ monitor[o] = "checking"
    /\ monitor' = [monitor EXCEPT ![o] =
           IF isOperatorUpToDate(o) \/ isLocked THEN "idle" ELSE "acting"]
    /\ UNCHANGED <<now, allowlistVars, registryVars, poolVars, sawInPool, exposedAt>>

(* The transaction is chosen by what the client saw, and may be refused by *)
(* what the contracts are like by now. A policy may keep the operator from *)
(* joining.                                                                *)
act(o) ==
    /\ monitor[o] = "acting"
    /\ monitor' = [monitor EXCEPT ![o] = "idle"]
    /\ IF sawInPool[o] THEN updateOperatorStatus(o) ELSE joinSortitionPool(o)
    /\ UNCHANGED <<statusUnchanged, sawInPool>>

actInVain(o) ==
    /\ monitor[o] = "acting"
    /\ \/ ~sawInPool[o]
       \/ isLocked /\ inPool(o)
    /\ monitor' = [monitor EXCEPT ![o] = "idle"]
    /\ UNCHANGED <<now, allowlistVars, registryVars, poolVars, sawInPool, exposedAt>>
-----------------------------------------------------------------------------
lockPool ==
    /\ ~isLocked
    /\ locks < MaxLocks
    /\ isLocked' = TRUE
    /\ locks' = locks + 1
    /\ UNCHANGED <<now, allowlistVars, registryVars, poolWeight, monitorVars, exposedAt>>

unlockPool ==
    /\ isLocked
    /\ isLocked' = FALSE
    /\ UNCHANGED <<now, allowlistVars, registryVars, poolWeight, locks, monitorVars, exposedAt>>

Tick ==
    /\ now < MaxTime
    /\ now' = now + 1
    /\ UNCHANGED <<allowlistVars, registryVars, poolVars, monitorVars, exposedAt>>

Client(o) == checkOperatorStatus(o) \/ decideToAct(o) \/ act(o) \/ actInVain(o)

AuthorizationNext ==
    \/ \E p \in StakingProviders :
          \/ \E w \in Weights : addStakingProvider(p, w) \/ requestWeightDecrease(p, w)
          \/ approveAuthorizationDecrease(p)
          \/ \E o \in Operators : registerOperator(p, o)
    \/ \E q \in Parameters : updateAuthorizationParameters(q)
    \/ \E o \in Operators : updateOperatorStatusByAnyone(o) \/ Client(o)
    \/ lockPool \/ unlockPool \/ Tick

AuthorizationSpec == AuthorizationInit /\ [][AuthorizationNext]_authorizationVars

(* The client's ticker keeps ticking and every group creation ends.        *)
AuthorizationFairness ==
    /\ WF_authorizationVars(unlockPool)
    /\ \A o \in Operators : WF_authorizationVars(Client(o))

AuthorizationSpecFair == AuthorizationSpec /\ AuthorizationFairness
-----------------------------------------------------------------------------
(* The allowlist and the registry each keep their own record of a pending  *)
(* decrease and are told of it at different times. They never disagree on  *)
(* whether there is one nor on its amount, so that the registry never      *)
(* approves what the allowlist refuses, and the stake that counts is the   *)
(* weight the provider is about to have, also after requests that          *)
(* overwrite each other and after a provider was removed and added again.  *)
PendingDecreasesAgree ==
    \A p \in StakingProviders :
        /\ decreasePending[p] <=> decreasingAt[p] # 0
        /\ pendingNewWeight[p] + decreasingBy[p] =
               IF decreasePending[p] THEN weight[p] ELSE 0

(* The pool is updated in other transactions than the weights, and not at  *)
(* all while it is locked. Still no operator counts in it with more than   *)
(* its provider is granted, whatever was decreased, approved and granted   *)
(* anew in between.                                                        *)
PoolWithinAuthorization ==
    \A p \in StakingProviders :
        operatorOf[p] # None => poolWeight[operatorOf[p]] <= poolWeightOf(weight[p])

(* A decrease of an operator's provider takes effect only a full delay     *)
(* after the pool last counted the weight it takes away: nobody leaves     *)
(* while a wallet that was drawn with that weight may still be fresh.      *)
DecreaseWaitsForThePool ==
    [][\A p \in StakingProviders :
          weight'[p] < weight[p] /\ operatorOf[p] # None
            => /\ poolWeight[operatorOf[p]] <= poolWeightOf(weight'[p])
               /\ \E q \in Parameters : now >= exposedAt[p] + q.authorizationDecreaseDelay]_authorizationVars

(* An operator whose entry in the pool is out of date is brought up to     *)
(* date by its client, although the client decides on what it saw earlier  *)
(* and the pool may be locked meanwhile; an operator that is not in the    *)
(* pool may be kept out by the policy.                                     *)
EntriesAreRepaired ==
    \A o \in Operators :
        (inPool(o) /\ ~isOperatorUpToDate(o)) ~> (~inPool(o) \/ isOperatorUpToDate(o))
=============================================================================
