--------------------------- MODULE OperatorProofs ---------------------------
(***************************************************************************)
(* Proofs about what the operators do: they authorize stake and join the   *)
(* pool (Authorization), and they sign (Signing).                          *)
(***************************************************************************)
EXTENDS Authorization, Signing, Integers, FiniteSetTheorems, WellFoundedInduction, TLAPS

(***************************************************************************)
(* Authorization, for any providers, operators, weights, parameters and    *)
(* bounds.                                                                 *)
(***************************************************************************)

(* The pool's units: division is monotonic.                                *)
LEMMA DivMonotonic ==
    ASSUME NEW a \in Nat, NEW b \in Nat, NEW d \in Nat \ {0}, a <= b
    PROVE  (a \div d) \in Nat /\ (b \div d) \in Nat /\ a \div d <= b \div d
  <1>1. /\ a \div d \in Int /\ b \div d \in Int
        /\ a = d * (a \div d) + (a % d) /\ b = d * (b \div d) + (b % d)
        /\ 0 <= (a % d) /\ (a % d) < d /\ 0 <= (b % d) /\ (b % d) < d
    BY SMTT(20)
  <1>2. CASE a \div d >= b \div d + 1
    <2>1. d * (a \div d) >= d * (b \div d + 1)
      BY <1>1, <1>2, SMTT(20)
    <2> QED
      BY <1>1, <2>1, SMTT(20)
  <1>3. (a \div d) >= 0
    BY SMTT(20)
  <1> QED
    BY <1>1, <1>2, <1>3

(* Division by the divisor of the pool is monotonic.                       *)
LEMMA PoolWeightMonotonic ==
    ASSUME NEW a \in Nat, NEW b \in Nat, a <= b
    PROVE  /\ poolWeightOf(a) \in Nat /\ poolWeightOf(b) \in Nat
           /\ poolWeightOf(a) <= poolWeightOf(b)
  BY DivMonotonic, AuthorizationAssumption DEF poolWeightOf

(***************************************************************************)
(* The inductive invariant, by provider. Amounts: the registry's and the   *)
(* allowlist's records of a decrease add up. Counted: the pool is within   *)
(* the granted weight, and within what is left of it once the delay of a   *)
(* decrease has started. Delayed: that delay started when the pool last    *)
(* counted more, or later.                                                 *)
(***************************************************************************)
AuthorizationTypes ==
    /\ now \in Nat \ {0}
    /\ weight \in [StakingProviders -> Nat]
    /\ pendingNewWeight \in [StakingProviders -> Nat]
    /\ operatorOf \in [StakingProviders -> Operators \cup {None}]
    /\ decreasingBy \in [StakingProviders -> Nat]
    /\ decreasingAt \in [StakingProviders -> Nat \cup {Never}]
    /\ parameters \in Parameters
    /\ poolWeight \in [Operators -> Nat]
    /\ exposedAt \in [StakingProviders -> Nat]

activated(p) == decreasingAt[p] \notin {0, Never}

Amounts(p) ==
    /\ weight[p] = 0 => decreasingAt[p] = 0
    /\ pendingNewWeight[p] + decreasingBy[p] = IF decreasingAt[p] # 0 THEN weight[p] ELSE 0

Counted(p) ==
    operatorOf[p] # None =>
        /\ poolWeight[operatorOf[p]] <= poolWeightOf(weight[p])
        /\ activated(p) => poolWeight[operatorOf[p]] <= poolWeightOf(weight[p] - decreasingBy[p])

Delayed(p) ==
    /\ exposedAt[p] <= now
    /\ operatorOf[p] # None /\ activated(p) =>
          \E q \in Parameters : decreasingAt[p] >= exposedAt[p] + q.authorizationDecreaseDelay

Registered ==
    /\ \A o \in Operators : poolWeight[o] # 0 => isRegistered(o)
    /\ \A p, q \in StakingProviders : operatorOf[p] = operatorOf[q] /\ operatorOf[p] # None => p = q

ProviderInv(p) == Amounts(p) /\ Counted(p) /\ Delayed(p)

AuthorizationIInv ==
    /\ AuthorizationTypes
    /\ Registered
    /\ \A p \in StakingProviders : ProviderInv(p)

Flags ==
    /\ decreasePending \in [StakingProviders -> BOOLEAN]
    /\ \A p \in StakingProviders : decreasePending[p] <=> decreasingAt[p] # 0

(* The invariant holds when the contracts are deployed.                    *)
LEMMA AuthorizationInitIInv == AuthorizationInit => AuthorizationIInv
  <1> SUFFICES ASSUME AuthorizationInit PROVE AuthorizationIInv
    OBVIOUS
  <1> USE AuthorizationAssumption DEF AuthorizationInit
  <1>1. AuthorizationTypes
    BY DEF AuthorizationTypes
  <1>2. Registered
    BY DEF Registered
  <1>3. ASSUME NEW p \in StakingProviders PROVE ProviderInv(p)
    <2>1. Amounts(p)
      BY DEF Amounts
    <2>2. Counted(p)
      BY DEF Counted
    <2>3. Delayed(p)
      BY DEF Delayed
    <2> QED
      BY <2>1, <2>2, <2>3 DEF ProviderInv
  <1> QED
    BY <1>1, <1>2, <1>3 DEF AuthorizationIInv

(* The provider of a registered operator has registered it.                *)
LEMMA ProviderOf ==
    ASSUME NEW o \in Operators, isRegistered(o)
    PROVE  providerOf(o) \in StakingProviders /\ operatorOf[providerOf(o)] = o
  BY DEF isRegistered, providerOf

(* What counts is at most what is left after the pending decrease.         *)
LEMMA EligibleStake ==
    ASSUME AuthorizationIInv, NEW p \in StakingProviders
    PROVE  /\ weight[p] - decreasingBy[p] \in Nat
           /\ weight[p] - decreasingBy[p] <= weight[p]
           /\ eligibleStake(p) \in Nat
           /\ eligibleStake(p) <= weight[p] - decreasingBy[p]
  <1>1. decreasingBy[p] <= weight[p] /\ weight[p] \in Nat /\ decreasingBy[p] \in Nat
    BY DEF AuthorizationIInv, AuthorizationTypes, ProviderInv, Amounts
  <1> QED
    BY <1>1 DEF eligibleStake

(* The steps of the allowlist and of the registration.                     *)
LEMMA AllowlistSteps ==
    ASSUME AuthorizationIInv, NEW p \in StakingProviders,
           \/ \E w \in Weights : addStakingProvider(p, w) \/ requestWeightDecrease(p, w)
           \/ approveAuthorizationDecrease(p)
           \/ \E o \in Operators : registerOperator(p, o)
    PROVE  AuthorizationIInv'
  <1> USE AuthorizationAssumption DEF poolVars, registryVars, allowlistVars
  <1>1. ASSUME NEW w \in Weights, addStakingProvider(p, w) PROVE AuthorizationIInv'
    <2>1. AuthorizationTypes'
      BY <1>1 DEF addStakingProvider, AuthorizationIInv, AuthorizationTypes
    <2>2. Registered'
      BY <1>1 DEF addStakingProvider, AuthorizationIInv, Registered, isRegistered
    <2>3. poolWeightOf(weight[p]) <= poolWeightOf(w) /\ poolWeightOf(w) \in Nat /\ poolWeightOf(weight[p]) \in Nat
      BY <1>1, PoolWeightMonotonic DEF addStakingProvider, AuthorizationIInv, AuthorizationTypes
    <2>4. ASSUME NEW r \in StakingProviders PROVE ProviderInv(r)'
      <3>1. CASE r # p
        BY <1>1, <3>1 DEF addStakingProvider, AuthorizationIInv, ProviderInv, Amounts, Counted, Delayed, activated, AuthorizationTypes, poolWeightOf
      <3>2. CASE r = p
        <4>1. decreasingAt[p] = 0 /\ Amounts(p) /\ Counted(p) /\ Delayed(p)
          BY <1>1 DEF addStakingProvider, AuthorizationIInv, ProviderInv, Amounts
        <4>2. Amounts(p)'
          BY <1>1, <4>1 DEF addStakingProvider, Amounts, AuthorizationIInv, AuthorizationTypes
        <4>3. Counted(p)'
          <5> SUFFICES ASSUME operatorOf[p] # None
                       PROVE  poolWeight[operatorOf[p]] <= poolWeightOf(w)
            BY <1>1, <4>1 DEF addStakingProvider, Counted, activated, AuthorizationIInv, AuthorizationTypes, poolWeightOf
          <5>1. poolWeight[operatorOf[p]] \in Nat
            BY DEF AuthorizationIInv, AuthorizationTypes
          <5> QED
            BY <2>3, <4>1, <5>1 DEF Counted
        <4>4. Delayed(p)'
          BY <1>1, <4>1 DEF addStakingProvider, Delayed, activated
        <4> QED
          BY <3>2, <4>2, <4>3, <4>4 DEF ProviderInv
      <3> QED
        BY <3>1, <3>2
    <2> QED
      BY <2>1, <2>2, <2>4 DEF AuthorizationIInv
  <1>2. ASSUME NEW w \in Weights, requestWeightDecrease(p, w) PROVE AuthorizationIInv'
    <2> USE DEF requestWeightDecrease, authorizationDecreaseRequested
    <2>1. AuthorizationTypes'
      BY <1>2 DEF AuthorizationIInv, AuthorizationTypes
    <2>2. Registered'
      BY <1>2 DEF AuthorizationIInv, Registered, isRegistered
    <2>4. ASSUME NEW r \in StakingProviders PROVE ProviderInv(r)'
      <3>1. CASE r # p
        BY <1>2, <3>1 DEF AuthorizationIInv, ProviderInv, Amounts, Counted, Delayed, activated, AuthorizationTypes, poolWeightOf
      <3>2. CASE r = p
        <4>1. decreasingAt'[p] = IF operatorOf[p] = None THEN now ELSE Never
          BY <1>2 DEF AuthorizationIInv, AuthorizationTypes
        <4>2. Amounts(p)'
          BY <1>2, <4>1 DEF Amounts, AuthorizationIInv, AuthorizationTypes
        <4>3. Counted(p)'
          BY <1>2, <4>1 DEF Counted, activated, AuthorizationIInv, AuthorizationTypes, ProviderInv, poolWeightOf
        <4>4. Delayed(p)'
          BY <1>2, <4>1 DEF Delayed, activated, AuthorizationIInv, AuthorizationTypes, ProviderInv
        <4> QED
          BY <3>2, <4>2, <4>3, <4>4 DEF ProviderInv
      <3> QED
        BY <3>1, <3>2
    <2> QED
      BY <2>1, <2>2, <2>4 DEF AuthorizationIInv
  <1>3. ASSUME approveAuthorizationDecrease(p) PROVE AuthorizationIInv'
    <2> USE DEF approveAuthorizationDecrease
    <2>1. AuthorizationTypes'
      BY <1>3 DEF AuthorizationIInv, AuthorizationTypes
    <2>2. Registered'
      BY <1>3 DEF AuthorizationIInv, Registered, isRegistered
    <2>4. ASSUME NEW r \in StakingProviders PROVE ProviderInv(r)'
      <3>1. CASE r # p
        BY <1>3, <3>1 DEF AuthorizationIInv, ProviderInv, Amounts, Counted, Delayed, activated, AuthorizationTypes, poolWeightOf
      <3>2. CASE r = p
        <4>1. pendingNewWeight[p] = weight[p] - decreasingBy[p]
          BY <1>3 DEF AuthorizationIInv, ProviderInv, Amounts, AuthorizationTypes
        <4>2. Amounts(p)'
          BY <1>3 DEF Amounts, AuthorizationIInv, AuthorizationTypes
        <4>3. Counted(p)'
          BY <1>3, <4>1 DEF Counted, activated, AuthorizationIInv, AuthorizationTypes, ProviderInv, poolWeightOf
        <4>4. Delayed(p)'
          BY <1>3 DEF Delayed, activated, AuthorizationIInv, AuthorizationTypes, ProviderInv
        <4> QED
          BY <3>2, <4>2, <4>3, <4>4 DEF ProviderInv
      <3> QED
        BY <3>1, <3>2
    <2> QED
      BY <2>1, <2>2, <2>4 DEF AuthorizationIInv
  <1>4. ASSUME NEW o \in Operators, registerOperator(p, o) PROVE AuthorizationIInv'
    <2> USE DEF registerOperator
    <2>1. AuthorizationTypes'
      BY <1>4 DEF AuthorizationIInv, AuthorizationTypes
    <2>2. Registered'
      BY <1>4 DEF AuthorizationIInv, Registered, isRegistered, AuthorizationTypes
    <2>3. poolWeight[o] = 0
      BY <1>4 DEF AuthorizationIInv, Registered
    <2>4. 0 <= poolWeightOf(weight[p])
      BY PoolWeightMonotonic DEF AuthorizationIInv, AuthorizationTypes
    <2>5. ASSUME NEW r \in StakingProviders PROVE ProviderInv(r)'
      BY <1>4, <2>3, <2>4 DEF AuthorizationIInv, ProviderInv, Amounts, Counted, Delayed, activated, AuthorizationTypes, poolWeightOf
    <2> QED
      BY <2>1, <2>2, <2>5 DEF AuthorizationIInv
  <1> QED
    BY <1>1, <1>2, <1>3, <1>4

(* The steps that bring an entry of the pool up to date. The provider of   *)
(* the operator is the only one they concern.                              *)
LEMMA EntryStep ==
    ASSUME AuthorizationIInv, UNCHANGED statusUnchanged,
           NEW o \in Operators, NEW p \in StakingProviders, operatorOf[p] = o,
           NEW w \in Nat, w <= poolWeightOf(weight[p] - decreasingBy[p]),
           poolWeight' = [poolWeight EXCEPT ![o] = w],
           activateDecrease(p),
           \/ exposedAt' = exposedAt
           \/ /\ poolWeight[o] > poolWeightOf(weight[p] - decreasingBy[p])
              /\ exposedAt' = [exposedAt EXCEPT ![p] = now]
    PROVE  AuthorizationIInv'
  <1> USE AuthorizationAssumption DEF statusUnchanged, allowlistVars
  <1> DEFINE left == weight[p] - decreasingBy[p]
  <1>2. /\ left \in Nat /\ weight[p] \in Nat
        /\ poolWeightOf(left) \in Nat
        /\ poolWeightOf(weight[p]) \in Nat
        /\ w <= poolWeightOf(left)
        /\ poolWeightOf(left) <= poolWeightOf(weight[p])
    BY EligibleStake, PoolWeightMonotonic DEF AuthorizationIInv, AuthorizationTypes
  <1>4. decreasingAt' = [decreasingAt EXCEPT ![p] =
            IF @ = Never THEN now + parameters.authorizationDecreaseDelay ELSE @]
    BY DEF activateDecrease
  <1>5. exposedAt' = exposedAt \/ (poolWeight[o] > poolWeightOf(left)
                                     /\ exposedAt' = [exposedAt EXCEPT ![p] = now])
    OBVIOUS
  <1>6. parameters.authorizationDecreaseDelay \in Nat /\ now \in Nat \ {0}
    BY DEF AuthorizationIInv, AuthorizationTypes, ParametersType
  <1> HIDE DEF left
  <1>7. AuthorizationTypes'
    <2>1. poolWeight' \in [Operators -> Nat]
      BY <1>2 DEF AuthorizationIInv, AuthorizationTypes
    <2>2. decreasingAt' \in [StakingProviders -> Nat \cup {Never}]
      BY <1>4, <1>6 DEF AuthorizationIInv, AuthorizationTypes
    <2>3. exposedAt' \in [StakingProviders -> Nat]
      BY <1>5, <1>6 DEF AuthorizationIInv, AuthorizationTypes
    <2> QED
      BY <2>1, <2>2, <2>3 DEF AuthorizationIInv, AuthorizationTypes
  <1>8. Registered'
    BY DEF AuthorizationIInv, AuthorizationTypes, Registered, isRegistered
  <1>9. ASSUME NEW r \in StakingProviders, r # p PROVE ProviderInv(r)'
    <2>1. operatorOf[r] # o
      BY <1>9, AuthorizationAssumption DEF AuthorizationIInv, Registered
    <2>2. /\ decreasingAt'[r] = decreasingAt[r] /\ exposedAt'[r] = exposedAt[r]
          /\ operatorOf[r] # None => poolWeight'[operatorOf[r]] = poolWeight[operatorOf[r]]
      BY <1>4, <1>5, <1>9, <2>1 DEF AuthorizationIInv, AuthorizationTypes
    <2> QED
      BY <2>2 DEF AuthorizationIInv, ProviderInv, Amounts, Counted, Delayed, activated, poolWeightOf
  <1>10. ProviderInv(p)'
    <2>1. Amounts(p) /\ Counted(p) /\ Delayed(p)
      BY DEF AuthorizationIInv, ProviderInv
    <2>2. decreasingAt'[p] = IF decreasingAt[p] = Never
                             THEN now + parameters.authorizationDecreaseDelay ELSE decreasingAt[p]
      BY <1>4 DEF AuthorizationIInv, AuthorizationTypes
    <2>3. poolWeight'[o] = w
      BY DEF AuthorizationIInv, AuthorizationTypes
    <2>4. Amounts(p)'
      BY <1>6, <2>1, <2>2 DEF Amounts
    <2>5. Counted(p)'
      <3>1. poolWeight'[o] <= poolWeightOf(left) /\ poolWeight'[o] <= poolWeightOf(weight[p])
        BY <1>2, <2>3
      <3> QED
        BY <3>1 DEF Counted, left, poolWeightOf
    <2>6. Delayed(p)'
      <3>1. exposedAt'[p] \in {now, exposedAt[p]} /\ exposedAt[p] \in Nat
        BY <1>5 DEF AuthorizationIInv, AuthorizationTypes
      <3>2. exposedAt'[p] <= now
        BY <1>6, <2>1, <3>1 DEF Delayed
      <3>3. CASE decreasingAt[p] = Never
        BY <1>6, <2>2, <3>1, <3>2, <3>3 DEF Delayed, AuthorizationIInv, AuthorizationTypes
      <3>4. CASE decreasingAt[p] = 0
        BY <2>2, <3>2, <3>4 DEF Delayed, activated
      <3>5. CASE activated(p)
        <4>1. poolWeight[o] <= poolWeightOf(left) /\ poolWeight[o] \in Nat
          BY <2>1, <3>5 DEF Counted, AuthorizationIInv, AuthorizationTypes, left
        <4>2. exposedAt' = exposedAt
          BY <1>2, <1>5, <4>1
        <4>3. decreasingAt'[p] = decreasingAt[p]
          BY <2>2, <3>5 DEF activated
        <4> QED
          BY <2>1, <4>2, <4>3 DEF Delayed, activated
      <3> QED
        BY <3>3, <3>4, <3>5 DEF activated
    <2> QED
      BY <2>4, <2>5, <2>6 DEF ProviderInv
  <1> QED
    BY <1>7, <1>8, <1>9, <1>10 DEF AuthorizationIInv

(* Whoever updates or inserts an entry takes the eligible stake.           *)
LEMMA StatusSteps ==
    ASSUME AuthorizationIInv, UNCHANGED statusUnchanged, NEW o \in Operators,
           updateOperatorStatus(o) \/ joinSortitionPool(o)
    PROVE  AuthorizationIInv'
  <1>1. PICK p \in StakingProviders : p = providerOf(o) /\ operatorOf[p] = o
    BY ProviderOf DEF updateOperatorStatus, joinSortitionPool
  <1> DEFINE left == poolWeightOf(weight[p] - decreasingBy[p])
             counts == poolWeightOf(eligibleStake(p))
  <1>2. left \in Nat /\ counts \in Nat /\ counts <= left
    BY EligibleStake, PoolWeightMonotonic
  <1>3. activateDecrease(p)
    BY <1>1 DEF updateOperatorStatus, joinSortitionPool
  <1>4. CASE updateOperatorStatus(o)
    <2>1. poolWeight' = [poolWeight EXCEPT ![o] = IF inPool(o) THEN counts ELSE 0]
      BY <1>1, <1>4 DEF updateOperatorStatus, updatePoolEntry, inPool, AuthorizationIInv, AuthorizationTypes
    <2>2. \/ exposedAt' = exposedAt
          \/ poolWeight[o] > left /\ exposedAt' = [exposedAt EXCEPT ![p] = now]
      BY <1>1, <1>4 DEF updateOperatorStatus
    <2> HIDE DEF counts
    <2>3. CASE inPool(o)
      BY <1>1, <1>2, <1>3, <2>1, <2>2, <2>3, EntryStep, Zenon
    <2>4. CASE ~inPool(o)
      <3>1. poolWeight' = [poolWeight EXCEPT ![o] = 0] /\ 0 <= left
        BY <1>2, <2>1, <2>4
      <3> QED
        BY <1>1, <1>3, <2>2, <3>1, EntryStep, Zenon
    <2> QED
      BY <2>3, <2>4
  <1>5. CASE joinSortitionPool(o)
    <2>1. poolWeight' = [poolWeight EXCEPT ![o] = counts] /\ exposedAt' = exposedAt
      BY <1>1, <1>5 DEF joinSortitionPool, insertOperator
    <2> HIDE DEF counts
    <2> QED
      BY <1>1, <1>2, <1>3, <2>1, EntryStep, Zenon
  <1> QED
    BY <1>4, <1>5

(* The other steps change at most the parameters, the lock and the time.   *)
LEMMA OtherSteps ==
    ASSUME AuthorizationIInv,
           UNCHANGED <<allowlistVars, operatorOf, decreasingBy, decreasingAt, poolWeight, exposedAt>>,
           parameters' \in Parameters, now' \in {now, now + 1}
    PROVE  AuthorizationIInv'
  <1> USE DEF allowlistVars
  <1>1. AuthorizationTypes'
    BY DEF AuthorizationIInv, AuthorizationTypes
  <1>2. Registered'
    BY DEF AuthorizationIInv, Registered, isRegistered
  <1>3. ASSUME NEW p \in StakingProviders PROVE ProviderInv(p)'
    <2>1. Amounts(p)'
      BY DEF AuthorizationIInv, ProviderInv, Amounts
    <2>2. Counted(p)'
      BY DEF AuthorizationIInv, ProviderInv, Counted, activated, poolWeightOf
    <2>3. Delayed(p)'
      <3>1. exposedAt[p] <= now /\ exposedAt[p] \in Nat /\ now \in Nat
        BY DEF AuthorizationIInv, ProviderInv, Delayed, AuthorizationTypes
      <3> QED
        BY <3>1 DEF AuthorizationIInv, ProviderInv, Delayed, activated
    <2> QED
      BY <2>1, <2>2, <2>3 DEF ProviderInv
  <1> QED
    BY <1>1, <1>2, <1>3 DEF AuthorizationIInv

(* Every transaction keeps the invariant.                                  *)
LEMMA AuthorizationNextIInv == AuthorizationIInv /\ [AuthorizationNext]_authorizationVars => AuthorizationIInv'
  <1> SUFFICES ASSUME AuthorizationIInv, [AuthorizationNext]_authorizationVars PROVE AuthorizationIInv'
    OBVIOUS
  <1>0. parameters \in Parameters
    BY DEF AuthorizationIInv, AuthorizationTypes
  <1>1. ASSUME NEW p \in StakingProviders,
               \/ \E w \in Weights : addStakingProvider(p, w) \/ requestWeightDecrease(p, w)
               \/ approveAuthorizationDecrease(p)
               \/ \E o \in Operators : registerOperator(p, o)
        PROVE  AuthorizationIInv'
    BY <1>1, AllowlistSteps
  <1>2. ASSUME NEW q \in Parameters, updateAuthorizationParameters(q) PROVE AuthorizationIInv'
    BY <1>2, OtherSteps DEF updateAuthorizationParameters, poolVars
  <1>3. ASSUME NEW o \in Operators, updateOperatorStatusByAnyone(o) PROVE AuthorizationIInv'
    BY <1>3, StatusSteps DEF updateOperatorStatusByAnyone
  <1>4. ASSUME NEW o \in Operators, Client(o) PROVE AuthorizationIInv'
    <2>1. CASE act(o)
      BY <2>1, StatusSteps DEF act
    <2>2. CASE checkOperatorStatus(o)
      BY <1>0, <2>2, OtherSteps DEF checkOperatorStatus, poolVars, registryVars
    <2>3. CASE decideToAct(o)
      BY <1>0, <2>3, OtherSteps DEF decideToAct, poolVars, registryVars
    <2>4. CASE actInVain(o)
      BY <1>0, <2>4, OtherSteps DEF actInVain, poolVars, registryVars
    <2> QED
      BY <1>4, <2>1, <2>2, <2>3, <2>4 DEF Client
  <1>5. CASE lockPool \/ unlockPool \/ Tick \/ UNCHANGED authorizationVars
    BY <1>0, <1>5, OtherSteps DEF lockPool, unlockPool, Tick, authorizationVars, poolVars, registryVars
  <1> QED
    BY <1>1, <1>2, <1>3, <1>4, <1>5 DEF AuthorizationNext

(* The invariant holds throughout.                                         *)
LEMMA AuthorizationInductiveInvariant == AuthorizationSpec => []AuthorizationIInv
  BY AuthorizationInitIInv, AuthorizationNextIInv, PTL DEF AuthorizationSpec

(* The flag of the allowlist follows the registry's entry: only a request  *)
(* and an approval change them, and change both.                           *)
LEMMA NextFlags == AuthorizationIInv /\ Flags /\ [AuthorizationNext]_authorizationVars => Flags'
  <1> SUFFICES ASSUME AuthorizationIInv, Flags, [AuthorizationNext]_authorizationVars PROVE Flags'
    OBVIOUS
  <1> USE AuthorizationAssumption DEF poolVars, registryVars, allowlistVars
  <1>1. decreasingAt \in [StakingProviders -> Nat \cup {Never}] /\ now \in Nat \ {0}
    BY DEF AuthorizationIInv, AuthorizationTypes
  <1>2. ASSUME NEW p \in StakingProviders, NEW w \in Weights, requestWeightDecrease(p, w)
        PROVE  Flags'
    <2>1. decreasePending' = [decreasePending EXCEPT ![p] = TRUE]
      BY <1>2 DEF requestWeightDecrease
    <2> DEFINE t == IF operatorOf[p] = None THEN now ELSE Never
    <2>2. decreasingAt' = [decreasingAt EXCEPT ![p] = t]
      BY <1>2 DEF requestWeightDecrease, authorizationDecreaseRequested
    <2>3. t # 0
      BY <1>1
    <2> HIDE DEF t
    <2> QED
      BY <1>1, <2>1, <2>2, <2>3, Zenon DEF Flags
  <1>3. ASSUME NEW p \in StakingProviders, approveAuthorizationDecrease(p)
        PROVE  Flags'
    <2>1. decreasePending' = [decreasePending EXCEPT ![p] = FALSE]
      BY <1>3 DEF approveAuthorizationDecrease
    <2>2. decreasingAt' = [decreasingAt EXCEPT ![p] = 0]
      BY <1>3 DEF approveAuthorizationDecrease
    <2> QED
      BY <1>1, <2>1, <2>2, Zenon DEF Flags
  <1>4. ASSUME decreasePending' = decreasePending,
               \A p \in StakingProviders : decreasingAt'[p] = 0 <=> decreasingAt[p] = 0
        PROVE  Flags'
    BY <1>4, Zenon DEF Flags
  <1>5. ASSUME NEW p \in StakingProviders, activateDecrease(p), decreasePending' = decreasePending
        PROVE  Flags'
    <2>1. parameters.authorizationDecreaseDelay \in Nat
      BY DEF AuthorizationIInv, AuthorizationTypes, ParametersType
    <2>2. \A r \in StakingProviders : decreasingAt'[r] = 0 <=> decreasingAt[r] = 0
      BY <1>1, <1>5, <2>1 DEF activateDecrease
    <2> QED
      BY <1>4, <1>5, <2>2
  <1>6. ASSUME NEW o \in Operators, updateOperatorStatus(o) \/ joinSortitionPool(o),
               decreasePending' = decreasePending
        PROVE  Flags'
    <2>1. isRegistered(o) /\ activateDecrease(providerOf(o))
      BY <1>6, Zenon DEF updateOperatorStatus, joinSortitionPool
    <2>2. PICK p \in StakingProviders : p = providerOf(o)
      BY <2>1, ProviderOf, Zenon
    <2> QED
      BY <1>5, <1>6, <2>1, <2>2, Zenon
  <1>7. ASSUME NEW p \in StakingProviders,
               (\E w \in Weights : addStakingProvider(p, w)) \/ (\E o \in Operators : registerOperator(p, o))
        PROVE  Flags'
    BY <1>4, <1>7 DEF addStakingProvider, registerOperator
  <1>8. ASSUME NEW q \in Parameters, updateAuthorizationParameters(q) PROVE Flags'
    BY <1>4, <1>8 DEF updateAuthorizationParameters
  <1>9. ASSUME NEW o \in Operators, updateOperatorStatusByAnyone(o) \/ Client(o) PROVE Flags'
    <2>1. CASE updateOperatorStatusByAnyone(o) \/ act(o)
      BY <1>6, <2>1 DEF updateOperatorStatusByAnyone, act, statusUnchanged
    <2>2. CASE checkOperatorStatus(o) \/ decideToAct(o) \/ actInVain(o)
      BY <1>4, <2>2 DEF checkOperatorStatus, decideToAct, actInVain
    <2> QED
      BY <1>9, <2>1, <2>2 DEF Client
  <1>10. CASE lockPool \/ unlockPool \/ Tick \/ UNCHANGED authorizationVars
    BY <1>4, <1>10 DEF lockPool, unlockPool, Tick, authorizationVars
  <1> QED
    BY <1>2, <1>3, <1>7, <1>8, <1>9, <1>10 DEF AuthorizationNext

(* The two records of a pending decrease agree, in Allowlist.sol and in    *)
(* EcdsaAuthorization.sol, on whether there is one and on its amount.      *)
THEOREM DecreasesAgree == AuthorizationSpec => []PendingDecreasesAgree
  <1>1. AuthorizationInit => Flags
    <2> SUFFICES ASSUME AuthorizationInit PROVE Flags
      OBVIOUS
    <2>1. decreasePending = [p \in StakingProviders |-> FALSE]
      BY DEF AuthorizationInit
    <2>2. \A p \in StakingProviders : decreasingAt[p] = 0
      BY Zenon DEF AuthorizationInit
    <2> QED
      BY <2>1, <2>2, Zenon DEF Flags
  <1>2. AuthorizationSpec => []Flags
    BY <1>1, NextFlags, AuthorizationInductiveInvariant, PTL DEF AuthorizationSpec
  <1>3. AuthorizationIInv /\ Flags => PendingDecreasesAgree
    <2> SUFFICES ASSUME AuthorizationIInv, Flags, NEW p \in StakingProviders
                 PROVE  /\ decreasePending[p] <=> decreasingAt[p] # 0
                        /\ pendingNewWeight[p] + decreasingBy[p] =
                               IF decreasePending[p] THEN weight[p] ELSE 0
      BY Zenon DEF PendingDecreasesAgree
    <2>1. decreasePending[p] <=> decreasingAt[p] # 0
      BY Zenon DEF Flags
    <2>2. pendingNewWeight[p] + decreasingBy[p] = IF decreasingAt[p] # 0 THEN weight[p] ELSE 0
      BY DEF AuthorizationIInv, ProviderInv, Amounts
    <2> QED
      BY <2>1, <2>2, Zenon
  <1> QED
    BY <1>2, <1>3, AuthorizationInductiveInvariant, PTL

(* No operator counts in the pool with more than its provider is granted.  *)
THEOREM PoolIsWithinAuthorization == AuthorizationSpec => []PoolWithinAuthorization
  <1>1. AuthorizationIInv => PoolWithinAuthorization
    BY DEF AuthorizationIInv, ProviderInv, Counted, PoolWithinAuthorization
  <1> QED
    BY <1>1, AuthorizationInductiveInvariant, PTL

(* A decrease takes effect a full delay after the pool counted its weight. *)
THEOREM DecreasesWait == AuthorizationSpec => DecreaseWaitsForThePool
  <1> DEFINE A == \A p \in StakingProviders :
          weight'[p] < weight[p] /\ operatorOf[p] # None
            => /\ poolWeight[operatorOf[p]] <= poolWeightOf(weight'[p])
               /\ \E q \in Parameters : now >= exposedAt[p] + q.authorizationDecreaseDelay
  <1>1. AuthorizationIInv /\ [AuthorizationNext]_authorizationVars => [A]_authorizationVars
    <2> SUFFICES ASSUME AuthorizationIInv, AuthorizationNext, NEW p \in StakingProviders,
                        weight'[p] < weight[p], operatorOf[p] # None
                 PROVE  /\ poolWeight[operatorOf[p]] <= poolWeightOf(weight'[p])
                        /\ \E q \in Parameters : now >= exposedAt[p] + q.authorizationDecreaseDelay
      OBVIOUS
    <2>0. weight \in [StakingProviders -> Nat]
      BY DEF AuthorizationIInv, AuthorizationTypes
    <2>1. approveAuthorizationDecrease(p)
      <3>1. weight' # weight
        BY <2>0, SMTT(30)
      <3>2. \E r \in StakingProviders : (\E w \in Weights : addStakingProvider(r, w))
                                           \/ approveAuthorizationDecrease(r)
        BY <3>1, Zenon DEF AuthorizationNext, Client, requestWeightDecrease, registerOperator, updateAuthorizationParameters,
             updateOperatorStatusByAnyone, checkOperatorStatus, decideToAct, act, actInVain,
             lockPool, unlockPool, Tick, statusUnchanged, allowlistVars
      <3>3. PICK r \in StakingProviders : (\E w \in Weights : addStakingProvider(r, w))
                                           \/ approveAuthorizationDecrease(r)
        BY <3>2
      <3>4. ASSUME NEW w \in Weights, addStakingProvider(r, w) PROVE FALSE
        BY <2>0, <3>4, AuthorizationAssumption DEF addStakingProvider
      <3>5. r = p
        BY <2>0, <3>3, <3>4 DEF approveAuthorizationDecrease
      <3> QED
        BY <3>3, <3>4, <3>5
    <2>2. activated(p) /\ now >= decreasingAt[p] /\ weight'[p] = pendingNewWeight[p]
      BY <2>0, <2>1 DEF approveAuthorizationDecrease, activated
    <2>3. ProviderInv(p)
      BY DEF AuthorizationIInv
    <2>4. weight'[p] = weight[p] - decreasingBy[p]
      BY <2>2, <2>3 DEF ProviderInv, Amounts, activated, AuthorizationIInv, AuthorizationTypes
    <2>5. PICK q \in Parameters : decreasingAt[p] >= exposedAt[p] + q.authorizationDecreaseDelay
      BY <2>2, <2>3 DEF ProviderInv, Delayed
    <2>6. q.authorizationDecreaseDelay \in Nat /\ now \in Nat /\ decreasingAt[p] \in Nat /\ exposedAt[p] \in Nat
      BY <2>2, AuthorizationAssumption DEF AuthorizationIInv, AuthorizationTypes, activated, ParametersType
    <2>7. poolWeight[operatorOf[p]] <= poolWeightOf(weight'[p])
      BY <2>2, <2>3, <2>4, Zenon DEF ProviderInv, Counted
    <2>8. now >= exposedAt[p] + q.authorizationDecreaseDelay
      <3>1. now >= decreasingAt[p]
        BY <2>2, Zenon
      <3> QED
        BY <2>5, <2>6, <3>1
    <2> QED
      BY <2>7, <2>8, Zenon
  <1> QED
    BY <1>1, AuthorizationInductiveInvariant, PTL DEF AuthorizationSpec, DecreaseWaitsForThePool

(***************************************************************************)
(* Signing, for any group, any honest majority, any lengths of the phases  *)
(* and any number of attempts.                                             *)
(***************************************************************************)

(* A set of numbers that is not empty has a least element.                 *)
LEMMA MinIsLeast ==
    ASSUME NEW S \in SUBSET Nat, S # {}
    PROVE  Min(S) \in S /\ \A y \in S : Min(S) <= y
  <1> DEFINE R == {ss \in Nat \X Nat : ss[1] < ss[2]}
  <1>0. R = OpToRel(<, Nat)
    BY Zenon DEF OpToRel
  <1>1. IsWellFoundedOn(R, Nat)
    BY <1>0, NatLessThanWellFounded, Zenon
  <1> HIDE DEF R
  <1>2. PICK x \in S : \A y \in S : ~(<<y, x>> \in R)
    BY <1>1, WFMin, Zenon
  <1>3. ASSUME NEW y \in S PROVE x <= y
    <2>1. <<y, x>> \in Nat \X Nat /\ <<y, x>>[1] = y /\ <<y, x>>[2] = x
      BY Zenon
    <2>2. ~(y < x)
      BY <1>2, <2>1, Zenon DEF R
    <2> QED
      BY <2>2
  <1> QED
    BY <1>3, Zenon DEF Min

(* Two selections have a member in common.                                 *)
LEMMA SelectionsMeet ==
    ASSUME NEW Q \in SUBSET Members, NEW R \in SUBSET Members,
           Cardinality(Q) = HonestThreshold, Cardinality(R) = HonestThreshold
    PROVE  \E s \in Members : s \in Q /\ s \in R
  <1> SUFFICES ASSUME Q \cap R = {} PROVE FALSE
    BY Zenon
  <1>1. IsFiniteSet(Q) /\ IsFiniteSet(R)
    BY FS_Subset, SigningAssumption, Zenon
  <1>2. /\ IsFiniteSet(Q \cup R)
        /\ Cardinality(Q \cup R) = Cardinality(Q) + Cardinality(R) - Cardinality(Q \cap R)
    BY <1>1, FS_Union, Zenon
  <1>3. Cardinality(Q \cap R) = 0
    BY FS_EmptySet, Zenon
  <1>4. Cardinality(Q \cup R) <= Cardinality(Members)
    BY FS_Subset, SigningAssumption, Zenon
  <1>5. Cardinality(Members) \in Nat
    BY FS_CardinalityType, SigningAssumption, Zenon
  <1> QED
    BY <1>2, <1>3, <1>4, <1>5, SigningAssumption

(***************************************************************************)
(* The done check of an attempt that was given up is cancelled before the  *)
(* announcement phase of any later attempt is over, and the announcement   *)
(* phase past the last attempt ends after the loop.                        *)
(***************************************************************************)
LEMMA DanglingIsCancelled ==
    ASSUME NEW a \in Nat, NEW b \in Nat, b >= 1, b < a
    PROVE  /\ timeoutBlock(b) + Lag < announcementEndBlock(a)
           /\ announcementEndBlock(a) \in Nat
  <1> DEFINE M == signingAttemptMaximumBlocks
  <1>1. M \in Nat
    BY SigningAssumption DEF signingAttemptMaximumBlocks
  <1>2. b * M <= (a - 1) * M
    <2> HIDE DEF M
    <2> QED BY <1>1
  <1>3. b * M = (b - 1) * M + M
    <2> HIDE DEF M
    <2> QED BY <1>1
  <1>4. (b - 1) * M \in Nat /\ (a - 1) * M \in Nat
    <2> HIDE DEF M
    <2> QED BY <1>1
  <1> QED
    BY <1>1, <1>2, <1>3, <1>4, SigningAssumption
    DEF timeoutBlock, announcementEndBlock, announcementStartBlock, signingAttemptMaximumBlocks

(* When the announcement past the last attempt would end, the loop is      *)
(* over.                                                                   *)
LEMMA LastAttempt ==
    ASSUME block \in Nat, block >= announcementEndBlock(AttemptsLimit + 1)
    PROVE  loopIsDone
  <1> DEFINE M == signingAttemptMaximumBlocks
  <1>1. M \in Nat
    BY SigningAssumption DEF signingAttemptMaximumBlocks
  <1>2. (AttemptsLimit + 1) - 1 = AttemptsLimit
    BY SigningAssumption
  <1>3. AttemptsLimit * M \in Nat
    <2> HIDE DEF M
    <2> QED BY <1>1, SigningAssumption
  <1> QED
    BY <1>1, <1>2, <1>3, SigningAssumption
    DEF announcementEndBlock, announcementStartBlock, loopIsDone, loopTimeoutBlock

(***************************************************************************)
(* The inductive invariant.                                                *)
(***************************************************************************)
Types ==
    /\ block \in Nat
    /\ pc \in [Members -> {"waiting", "announcing", "signing", "checking", "done", "failed"}]
    /\ attemptCounter \in [Members -> 1..(AttemptsLimit + 1)]
    /\ included \in [Members -> SUBSET Members]
    /\ listeners \in [Members -> SUBSET Attempts]
    /\ dangling \in [Members -> SUBSET Attempts]
    /\ joined \in [Members -> [Attempts -> SUBSET Members]]
    /\ doneMessages \subseteq [sender : Members, attempt : Attempts,
                               signature : SUBSET Members, endBlock : Nat]
    /\ selection \in [Attempts -> [Majorities -> SUBSET Members]]
    /\ \A a \in Attempts, R \in Majorities :
          selection[a][R] \subseteq R /\ Cardinality(selection[a][R]) = HonestThreshold

(* The done checks a member left behind are of earlier attempts, so that   *)
(* the current one alone writes to its map.                                *)
LoopInv(m) ==
    /\ pc[m] \in {"waiting", "announcing", "signing", "checking"} =>
          \A b \in dangling[m] : b < attemptCounter[m]
    /\ pc[m] \in {"signing", "checking"} =>
          /\ attemptCounter[m] \in Attempts
          /\ listeners[m] = {attemptCounter[m]}
          /\ Cardinality(included[m]) = HonestThreshold
    /\ pc[m] = "signing" => m \in included[m] /\ joined[m][attemptCounter[m]] = included[m]
    /\ \A a \in Attempts : joined[m][a] # {} =>
          /\ a <= attemptCounter[m]
          /\ pc[m] \in {"waiting", "announcing"} => a < attemptCounter[m]

(* A done message is its sender's only one for the attempt, and everyone   *)
(* it names ran the protocol with exactly these members.                   *)
MessageInv(d) ==
    /\ d.sender \in d.signature
    /\ Cardinality(d.signature) = HonestThreshold
    /\ \A s \in d.signature : joined[s][d.attempt] = d.signature
    /\ d.attempt <= attemptCounter[d.sender]
    /\ pc[d.sender] \in {"waiting", "announcing", "signing"} => d.attempt < attemptCounter[d.sender]

UniqueMessages ==
    \A d, e \in doneMessages : d.sender = e.sender /\ d.attempt = e.attempt => d = e

(* An outcome is made of all the messages its attempt will ever have.      *)
messagesOf(a) == {d \in doneMessages : d.attempt = a}

OutcomeInv(m) ==
    \/ outcome[m] = NoOutcome
    \/ \E a \in Attempts :
          /\ Cardinality(messagesOf(a)) = HonestThreshold
          /\ outcome[m] = [attempt |-> a,
                           signature |-> (CHOOSE d \in messagesOf(a) : TRUE).signature,
                           latestEndBlock |-> Max({d.endBlock : d \in messagesOf(a)})]

IInv ==
    /\ Types
    /\ DOMAIN outcome = Members
    /\ \A m \in Members : LoopInv(m)
    /\ \A d \in doneMessages : MessageInv(d)
    /\ UniqueMessages
    /\ \A m \in Members : OutcomeInv(m)

(* Attempts are numbered from 1.                                           *)
LEMMA AttemptNumbers == \A a \in Attempts : a \in Nat /\ a >= 1
  BY SigningAssumption DEF Attempts

(* The counter of a loop past its last attempt is a number too.            *)
LEMMA CounterNumbers == 1..(AttemptsLimit + 1) \subseteq Nat
  BY SigningAssumption

(* The invariant holds at the start.                                       *)
LEMMA InitIInv == Init => IInv
  <1> SUFFICES ASSUME Init PROVE IInv
    BY Zenon
  <1>1. Types
    BY SigningAssumption DEF Init, Types
  <1>2. \A m \in Members : LoopInv(m)
    BY SigningAssumption, Zenon DEF Init, LoopInv
  <1>3. UniqueMessages /\ \A d \in doneMessages : MessageInv(d)
    BY Zenon DEF Init, UniqueMessages
  <1>4. DOMAIN outcome = Members /\ \A m \in Members : OutcomeInv(m)
    BY Zenon DEF Init, OutcomeInv
  <1> QED
    BY <1>1, <1>2, <1>3, <1>4, Zenon DEF IInv

(* What the head of the loop does to the member and leaves to the others.  *)
LEMMA NextAttemptSteps ==
    ASSUME Types, NEW m \in Members, nextAttempt(m)
    PROVE  /\ pc' \in [Members -> {"waiting", "announcing", "signing", "checking", "done", "failed"}]
           /\ attemptCounter' \in [Members -> 1..(AttemptsLimit + 1)]
           /\ included' \in [Members -> SUBSET Members]
           /\ listeners' \in [Members -> SUBSET Attempts]
           /\ \/ pc'[m] = "failed" /\ attemptCounter'[m] = attemptCounter[m]
              \/ pc'[m] = "waiting" /\ attemptCounter'[m] > attemptCounter[m]
           /\ \A n \in Members \ {m} :
                 /\ pc'[n] = pc[n] /\ attemptCounter'[n] = attemptCounter[n]
                 /\ included'[n] = included[n] /\ listeners'[n] = listeners[n]
  <1> DEFINE open == {a \in (attemptCounter[m] + 1)..(AttemptsLimit + 1) :
                          announcementEndBlock(a) > block}
  <1>1. attemptCounter[m] \in Nat /\ AttemptsLimit \in Nat
    BY SigningAssumption DEF Types
  <1>2. ASSUME open # {}
        PROVE  Min(open) \in 1..(AttemptsLimit + 1) /\ Min(open) > attemptCounter[m]
    <2>1. open \in SUBSET Nat
      BY <1>1
    <2>2. Min(open) \in open
      BY <1>2, <2>1, MinIsLeast, Zenon
    <2> HIDE DEF open
    <2> DEFINE mn == Min(open)
    <2>3. mn \in (attemptCounter[m] + 1)..(AttemptsLimit + 1)
      BY <2>2, Zenon DEF open
    <2> HIDE DEF mn
    <2>4. mn \in 1..(AttemptsLimit + 1) /\ mn > attemptCounter[m]
      BY <2>3, <1>1
    <2> QED
      BY <2>4, Zenon DEF mn
  <1>3. included' \in [Members -> SUBSET Members] /\ listeners' \in [Members -> SUBSET Attempts]
    BY Zenon DEF Types, nextAttempt
  <1>4. CASE loopIsDone \/ open = {}
    <2>1. pc' = [pc EXCEPT ![m] = "failed"] /\ attemptCounter' = attemptCounter
      BY <1>4, Zenon DEF nextAttempt
    <2> QED
      BY <1>3, <2>1, Zenon DEF Types, nextAttempt
  <1>5. CASE ~(loopIsDone \/ open = {})
    <2>1. /\ pc' = [pc EXCEPT ![m] = "waiting"]
          /\ attemptCounter' = [attemptCounter EXCEPT ![m] = Min(open)]
      BY <1>5, Zenon DEF nextAttempt
    <2>2. Min(open) \in 1..(AttemptsLimit + 1) /\ Min(open) > attemptCounter[m]
      BY <1>5, <1>2, Zenon
    <2> HIDE DEF open
    <2> QED
      BY <1>3, <2>1, <2>2, Zenon DEF Types, nextAttempt
  <1> QED
    BY <1>4, <1>5, Zenon

(* Outcomes depend on the done messages alone.                             *)
LEMMA OutcomeStays ==
    ASSUME NEW m \in Members, OutcomeInv(m), UNCHANGED <<doneMessages, outcome>>
    PROVE  OutcomeInv(m)'
  <1>1. doneMessages' = doneMessages /\ outcome' = outcome
    BY Zenon
  <1> QED
    BY <1>1, Zenon DEF OutcomeInv, messagesOf, NoOutcome, Attempts

(* A member gives up an attempt, with its done check left behind or not.   *)
LEMMA AttemptEnds ==
    ASSUME IInv, NEW m \in Members, nextAttempt(m),
           pc[m] \in {"waiting", "announcing", "signing", "checking"},
           UNCHANGED <<block, outcome, joined, doneMessages, selection>>,
           \/ UNCHANGED dangling
           \/ /\ attemptCounter[m] \in Attempts
              /\ dangling' = [dangling EXCEPT ![m] = @ \cup {attemptCounter[m]}]
    PROVE  IInv'
  <1>0. Types
    BY Zenon DEF IInv
  <1>1. /\ pc' \in [Members -> {"waiting", "announcing", "signing", "checking", "done", "failed"}]
        /\ attemptCounter' \in [Members -> 1..(AttemptsLimit + 1)]
        /\ included' \in [Members -> SUBSET Members]
        /\ listeners' \in [Members -> SUBSET Attempts]
        /\ \/ pc'[m] = "failed" /\ attemptCounter'[m] = attemptCounter[m]
           \/ pc'[m] = "waiting" /\ attemptCounter'[m] > attemptCounter[m]
        /\ \A n \in Members \ {m} :
              /\ pc'[n] = pc[n] /\ attemptCounter'[n] = attemptCounter[n]
              /\ included'[n] = included[n] /\ listeners'[n] = listeners[n]
    BY <1>0, NextAttemptSteps, Zenon
  <1>2. dangling' \in [Members -> SUBSET Attempts]
    <2>1. dangling \in [Members -> SUBSET Attempts]
      BY <1>0, Zenon DEF Types
    <2>2. attemptCounter[m] \in Attempts =>
            [dangling EXCEPT ![m] = @ \cup {attemptCounter[m]}] \in [Members -> SUBSET Attempts]
      BY <2>1, Zenon
    <2> QED
      BY <2>1, <2>2, Zenon
  <1>3. Types'
    BY <1>0, <1>1, <1>2, Zenon DEF Types, Majorities, Attempts
  <1>4. ASSUME NEW n \in Members PROVE LoopInv(n)'
    <2>1. CASE n = m
      <3>1. attemptCounter[m] \in Nat /\ attemptCounter'[m] \in Nat
        BY <1>0, <1>1, CounterNumbers, Zenon DEF Types
      <3>2. \A b \in dangling'[m] : b \in Nat /\ b <= attemptCounter[m]
        <4>1. \A b \in dangling[m] : b \in Nat /\ b <= attemptCounter[m]
          <5>1. dangling[m] \subseteq Attempts /\ \A b \in dangling[m] : b < attemptCounter[m]
            BY <1>0, Zenon DEF IInv, LoopInv, Types
          <5> QED
            BY <3>1, <5>1, AttemptNumbers
        <4>2. dangling'[m] \subseteq dangling[m] \cup {attemptCounter[m]}
          BY <1>0, Zenon DEF Types
        <4> QED
          BY <3>1, <4>1, <4>2
      <3>3. \A a \in Attempts : joined[m][a] # {} => a \in Nat /\ a <= attemptCounter[m]
        <4>1. \A a \in Attempts : joined[m][a] # {} => a <= attemptCounter[m]
          BY Zenon DEF IInv, LoopInv
        <4> QED
          BY <4>1, AttemptNumbers, Zenon
      <3>4. \/ pc'[m] = "failed" /\ attemptCounter'[m] = attemptCounter[m]
            \/ pc'[m] = "waiting" /\ attemptCounter'[m] > attemptCounter[m]
        BY <1>1, Zenon
      <3>5. pc'[m] = "waiting" => \A b \in dangling'[m] : b < attemptCounter'[m]
        BY <3>1, <3>2, <3>4
      <3>6. ASSUME NEW a \in Attempts, joined[m][a] # {}
            PROVE  a <= attemptCounter'[m] /\ (pc'[m] = "waiting" => a < attemptCounter'[m])
        <4>1. a \in Nat /\ a <= attemptCounter[m]
          BY <3>3, <3>6, Zenon
        <4> QED
          BY <3>1, <3>4, <4>1
      <3>7. pc'[m] \in {"failed", "waiting"}
        BY <3>4, Zenon
      <3> QED
        BY <2>1, <3>5, <3>6, <3>7, Zenon DEF LoopInv, Attempts
    <2>2. CASE n # m
      <3>1. dangling'[n] = dangling[n]
        BY <2>2, <1>0, Zenon DEF Types
      <3>2. LoopInv(n)
        BY Zenon DEF IInv
      <3> QED
        BY <1>1, <2>2, <3>1, <3>2, Zenon DEF LoopInv, Attempts
    <2> QED
      BY <2>1, <2>2, Zenon
  <1>5. ASSUME NEW d \in doneMessages PROVE MessageInv(d)'
    <2>1. MessageInv(d)
      BY Zenon DEF IInv
    <2>2. d.sender \in Members /\ d.attempt \in Nat
      <3>1. d.sender \in Members /\ d.attempt \in Attempts
        BY <1>0, Zenon DEF Types
      <3> QED
        BY <3>1, AttemptNumbers, Zenon
    <2>3. attemptCounter[m] \in Nat /\ attemptCounter'[m] \in Nat
      BY <1>0, <1>1, CounterNumbers, Zenon DEF Types
    <2>4. CASE d.sender = m
      <3>1. \/ pc'[m] = "failed" /\ attemptCounter'[m] = attemptCounter[m]
            \/ pc'[m] = "waiting" /\ attemptCounter'[m] > attemptCounter[m]
        BY <1>1, Zenon
      <3>2. d.attempt <= attemptCounter[m]
        BY <2>1, <2>4, Zenon DEF MessageInv
      <3>3. /\ d.attempt <= attemptCounter'[m]
            /\ pc'[m] = "waiting" => d.attempt < attemptCounter'[m]
            /\ pc'[m] \in {"failed", "waiting"}
        BY <2>2, <2>3, <3>1, <3>2
      <3> QED
        BY <2>1, <2>4, <3>3, Zenon DEF MessageInv
    <2>5. CASE d.sender # m
      <3>1. pc'[d.sender] = pc[d.sender] /\ attemptCounter'[d.sender] = attemptCounter[d.sender]
        BY <1>1, <2>2, <2>5, Zenon
      <3> QED
        BY <2>1, <3>1, Zenon DEF MessageInv
    <2> QED
      BY <2>4, <2>5, Zenon
  <1>6. UniqueMessages'
    BY Zenon DEF IInv, UniqueMessages
  <1>7. \A n \in Members : OutcomeInv(n)'
    BY OutcomeStays, Zenon DEF IInv
  <1> QED
    BY <1>3, <1>4, <1>5, <1>6, <1>7, Zenon DEF IInv

(* Messages of different senders are no more than the senders.             *)
LEMMA OneMessageEach ==
    ASSUME NEW D, NEW S, IsFiniteSet(S),
           \A d \in D : d.sender \in S,
           \A d, e \in D : d.sender = e.sender => d = e
    PROVE  /\ IsFiniteSet(D)
           /\ Cardinality(D) <= Cardinality(S)
           /\ Cardinality(D) = Cardinality(S) => \A s \in S : \E d \in D : d.sender = s
  <1> DEFINE f == [d \in D |-> d.sender]
  <1>1. f \in Injection(D, S)
    BY Zenon DEF Injection, IsInjective
  <1>2. f \in Surjection(D, S) => \A s \in S : \E d \in D : d.sender = s
    BY Zenon DEF Surjection
  <1> HIDE DEF f
  <1> QED
    BY <1>1, <1>2, FS_Injection, Zenon

(* The messages of an attempt carry one signature: two that differ would   *)
(* name a common member, which ran the protocol with one set of members.   *)
LEMMA OneSignature ==
    ASSUME IInv, NEW d \in doneMessages, NEW e \in doneMessages, d.attempt = e.attempt
    PROVE  d.signature = e.signature
  <1>1. MessageInv(d) /\ MessageInv(e)
    BY Zenon DEF IInv
  <1>2. d.signature \in SUBSET Members /\ e.signature \in SUBSET Members
    BY Zenon DEF IInv, Types
  <1>3. PICK s \in Members : s \in d.signature /\ s \in e.signature
    BY <1>1, <1>2, SelectionsMeet, Zenon DEF MessageInv
  <1> QED
    BY <1>1, <1>3 DEF MessageInv

(* An attempt has at most as many messages as the protocol has members,    *)
(* and once it has that many, everyone who may send one has.               *)
LEMMA MessagesOfAttempt ==
    ASSUME IInv, NEW a \in Attempts
    PROVE  /\ IsFiniteSet(messagesOf(a))
           /\ Cardinality(messagesOf(a)) <= HonestThreshold
           /\ Cardinality(messagesOf(a)) = HonestThreshold =>
                 \A d \in messagesOf(a) : \A s \in d.signature :
                     \E e \in messagesOf(a) : e.sender = s
  <1>1. CASE messagesOf(a) = {}
    BY <1>1, FS_EmptySet, SigningAssumption
  <1>2. ASSUME NEW d \in messagesOf(a)
        PROVE  /\ IsFiniteSet(messagesOf(a))
               /\ Cardinality(messagesOf(a)) <= HonestThreshold
               /\ Cardinality(messagesOf(a)) = HonestThreshold =>
                     \A s \in d.signature : \E e \in messagesOf(a) : e.sender = s
    <2>1. d \in doneMessages /\ d.attempt = a
      BY Zenon DEF messagesOf
    <2>2. IsFiniteSet(d.signature) /\ Cardinality(d.signature) = HonestThreshold
      <3>1. d.signature \in SUBSET Members
        BY <2>1, Zenon DEF IInv, Types
      <3> QED
        BY <2>1, <3>1, FS_Subset, SigningAssumption, Zenon DEF IInv, MessageInv
    <2>3. ASSUME NEW e \in messagesOf(a) PROVE e.sender \in d.signature
      <3>1. e \in doneMessages /\ e.attempt = a
        BY Zenon DEF messagesOf
      <3>2. e.signature = d.signature
        BY <2>1, <3>1, OneSignature, Zenon
      <3> QED
        BY <3>1, <3>2, Zenon DEF IInv, MessageInv
    <2>4. \A e, g \in messagesOf(a) : e.sender = g.sender => e = g
      BY Zenon DEF IInv, UniqueMessages, messagesOf
    <2> QED
      BY <2>2, <2>3, <2>4, OneMessageEach, Zenon
  <1> QED
    BY <1>1, <1>2, Zenon

(* A member that starts to announce has left all earlier attempts.         *)
LEMMA AnnounceStep ==
    ASSUME IInv, NEW m \in Members, announce(m)
    PROVE  IInv'
  <1>0. /\ pc[m] = "waiting" /\ pc' = [pc EXCEPT ![m] = "announcing"]
        /\ UNCHANGED <<block, attemptCounter, included, listeners, dangling, outcome,
                       joined, doneMessages, selection>>
    BY Zenon DEF announce
  <1>1. Types'
    BY <1>0, Zenon DEF IInv, Types, Majorities, Attempts
  <1>2. \A n \in Members : LoopInv(n)'
    BY <1>0, Zenon DEF IInv, Types, LoopInv, Attempts
  <1>3. \A d \in doneMessages : MessageInv(d)'
    BY <1>0, Zenon DEF IInv, Types, MessageInv
  <1>4. \A n \in Members : OutcomeInv(n)'
    BY <1>0, OutcomeStays, Zenon DEF IInv
  <1> QED
    BY <1>0, <1>1, <1>2, <1>3, <1>4, Zenon DEF IInv, UniqueMessages

(* The members are selected: the done check left behind by an earlier      *)
(* attempt is cancelled by now.                                            *)
LEMMA SelectionStep ==
    ASSUME IInv, NEW m \in Members, NEW ready \in Majorities,
           pc[m] = "announcing", ~loopIsDone,
           block >= announcementEndBlock(attemptCounter[m]),
           included' = [included EXCEPT ![m] = selection[attemptCounter[m]][ready]],
           listeners' = [listeners EXCEPT ![m] = listeningDuring(m, attemptCounter[m])],
           pc' = [pc EXCEPT ![m] = IF m \in selection[attemptCounter[m]][ready]
                                   THEN "signing" ELSE "checking"],
           joined' = IF m \in selection[attemptCounter[m]][ready]
                     THEN [joined EXCEPT ![m][attemptCounter[m]] = selection[attemptCounter[m]][ready]]
                     ELSE joined,
           UNCHANGED <<attemptCounter, block, dangling, outcome, doneMessages, selection>>
    PROVE  IInv'
  <1> DEFINE a == attemptCounter[m]
             selected == selection[a][ready]
  <1>0. Types /\ LoopInv(m)
    BY Zenon DEF IInv
  <1>1. a \in Attempts
    <2>1. a \in 1..(AttemptsLimit + 1) /\ block \in Nat
      BY <1>0, Zenon DEF Types
    <2>2. a # AttemptsLimit + 1
      BY <2>1, LastAttempt, Zenon
    <2> QED
      BY <2>1, <2>2, SigningAssumption DEF Attempts
  <1>2. selected \in SUBSET Members /\ Cardinality(selected) = HonestThreshold
    BY <1>0, <1>1 DEF Types
  <1>3. listeningDuring(m, a) = {a}
    <2>1. ASSUME NEW b \in dangling[m] PROVE ~(block <= timeoutBlock(b) + Lag)
      <3>1. b \in Nat /\ b >= 1 /\ b < a /\ a \in Nat /\ block \in Nat
        BY <1>0, <1>1, SigningAssumption DEF Types, LoopInv, Attempts
      <3>2. timeoutBlock(b) + Lag < announcementEndBlock(a) /\ announcementEndBlock(a) \in Nat
        BY <3>1, DanglingIsCancelled, Zenon
      <3>3. timeoutBlock(b) + Lag \in Int
        BY <3>1, SigningAssumption DEF timeoutBlock, announcementEndBlock,
           announcementStartBlock, signingAttemptMaximumBlocks
      <3>4. block >= announcementEndBlock(a)
        BY Zenon
      <3> DEFINE cancelled == timeoutBlock(b) + Lag
                 end == announcementEndBlock(a)
      <3>5. cancelled < end /\ cancelled \in Int /\ end \in Nat /\ block \in Nat /\ block >= end
        BY <3>1, <3>2, <3>3, <3>4, Zenon
      <3> HIDE DEF cancelled, end
      <3>6. ~(block <= cancelled)
        BY <3>5
      <3> QED
        BY <3>6, Zenon DEF cancelled
    <2> QED
      BY <2>1, Zenon DEF listeningDuring
  <1>4. joined[m][a] = {}
    BY <1>0, <1>1, SigningAssumption DEF LoopInv, Attempts
  <1> HIDE DEF a, selected
  <1>5. /\ included' = [included EXCEPT ![m] = selected]
        /\ listeners' = [listeners EXCEPT ![m] = {a}]
        /\ pc' = [pc EXCEPT ![m] = IF m \in selected THEN "signing" ELSE "checking"]
        /\ joined' = IF m \in selected THEN [joined EXCEPT ![m][a] = selected] ELSE joined
    BY <1>3, Zenon DEF a, selected
  <1>6. Types'
    <2>1. included' \in [Members -> SUBSET Members]
      BY <1>0, <1>2, <1>5, Zenon DEF Types
    <2>2. listeners' \in [Members -> SUBSET Attempts]
      BY <1>0, <1>1, <1>5 DEF Types
    <2>3. joined' \in [Members -> [Attempts -> SUBSET Members]]
      <3>1. joined \in [Members -> [Attempts -> SUBSET Members]]
        BY <1>0, Zenon DEF Types
      <3>2. [joined[m] EXCEPT ![a] = selected] \in [Attempts -> SUBSET Members]
        BY <3>1, <1>1, <1>2, Zenon
      <3>3. [joined EXCEPT ![m][a] = selected] \in [Members -> [Attempts -> SUBSET Members]]
        BY <3>1, <3>2, Zenon
      <3> QED
        BY <1>5, <3>1, <3>3, Zenon
    <2>4. pc' \in [Members -> {"waiting", "announcing", "signing", "checking", "done", "failed"}]
      BY <1>0, <1>5, Zenon DEF Types
    <2> QED
      BY <1>0, <2>1, <2>2, <2>3, <2>4, Zenon DEF Types, Majorities, Attempts
  <1>7. ASSUME NEW n \in Members PROVE LoopInv(n)'
    <2>1. CASE n = m
      <3>1. \A b \in dangling[m] : b < attemptCounter[m]
        BY <1>0, Zenon DEF LoopInv
      <3>2. included'[m] = selected /\ listeners'[m] = {a} /\ attemptCounter'[m] = a
        BY <1>0, <1>5, Zenon DEF Types, a
      <3>3. m \in selected => joined'[m][a] = selected
        BY <1>0, <1>1, <1>5 DEF Types
      <3>4. pc'[m] = IF m \in selected THEN "signing" ELSE "checking"
        BY <1>0, <1>5, Zenon DEF Types
      <3>5. ASSUME NEW c \in Attempts, joined'[m][c] # {} PROVE c <= a
        <4>1. CASE c = a
          BY <4>1, SigningAssumption DEF Attempts
        <4>2. CASE c # a
          <5>1. joined'[m][c] = joined[m][c]
            BY <1>0, <1>1, <1>5, <4>2 DEF Types
          <5> QED
            BY <5>1, <3>5, <1>0, Zenon DEF LoopInv, a
        <4> QED
          BY <4>1, <4>2, Zenon
      <3> QED
        <4>1. pc'[m] \in {"signing", "checking"} /\ (pc'[m] = "signing" => m \in selected)
          BY <3>4
        <4>2. \A b \in dangling'[m] : b < attemptCounter'[m]
          BY <3>1, Zenon
        <4> QED
          BY <2>1, <1>1, <1>2, <3>2, <3>3, <3>5, <4>1, <4>2, Zenon DEF LoopInv, Attempts
    <2>2. CASE n # m
      <3>1. LoopInv(n)
        BY Zenon DEF IInv
      <3>2. /\ pc'[n] = pc[n] /\ included'[n] = included[n] /\ listeners'[n] = listeners[n]
            /\ joined'[n] = joined[n]
        BY <1>0, <1>5, <2>2 DEF Types
      <3> QED
        BY <3>1, <3>2, Zenon DEF LoopInv, Attempts
    <2> QED
      BY <2>1, <2>2, Zenon
  <1>8. ASSUME NEW d \in doneMessages PROVE MessageInv(d)'
    <2>1. MessageInv(d)
      BY Zenon DEF IInv
    <2>2. d.sender \in Members /\ d.attempt \in Attempts /\ d.signature \in SUBSET Members
      BY <1>0, Zenon DEF Types
    <2>3. d.attempt = a => m \notin d.signature
      BY <1>4, <2>1, Zenon DEF MessageInv
    <2>4. \A s \in d.signature : joined'[s][d.attempt] = joined[s][d.attempt]
      BY <1>0, <1>1, <1>5, <2>2, <2>3 DEF Types
    <2>5. pc'[d.sender] = "signing" => d.attempt < attemptCounter[d.sender]
      BY <1>0, <1>5, <2>1, <2>2 DEF MessageInv, Types
    <2> QED
      BY <1>0, <1>5, <2>1, <2>2, <2>4, <2>5 DEF MessageInv, Types
  <1>9. \A n \in Members : OutcomeInv(n)'
    BY OutcomeStays, Zenon DEF IInv
  <1> QED
    BY <1>6, <1>7, <1>8, <1>9, Zenon DEF IInv, UniqueMessages

(* A member joins an attempt once, with the members it selects.            *)
LEMMA EndAnnouncementStep ==
    ASSUME IInv, NEW m \in Members, endAnnouncement(m)
    PROVE  IInv'
  <1> DEFINE a == attemptCounter[m]
  <1>0. pc[m] = "announcing" /\ UNCHANGED <<block, dangling, outcome, doneMessages, selection>>
    BY Zenon DEF endAnnouncement
  <1>1. CASE loopIsDone
    <2>1. pc' = [pc EXCEPT ![m] = "failed"] /\ UNCHANGED <<attemptCounter, included, listeners, joined>>
      BY <1>1, Zenon DEF endAnnouncement
    <2>2. Types'
      BY <1>0, <2>1, Zenon DEF IInv, Types, Majorities, Attempts
    <2>3. \A n \in Members : LoopInv(n)'
      BY <1>0, <2>1, Zenon DEF IInv, Types, LoopInv, Attempts
    <2>4. \A d \in doneMessages : MessageInv(d)'
      BY <1>0, <2>1, Zenon DEF IInv, Types, MessageInv
    <2>5. \A n \in Members : OutcomeInv(n)'
      BY <1>0, OutcomeStays, Zenon DEF IInv
    <2> QED
      BY <1>0, <2>2, <2>3, <2>4, <2>5, Zenon DEF IInv, UniqueMessages
  <1>2. CASE ~loopIsDone
    <2>1. PICK heard \in SUBSET {s \in Members : a \in announced[s]} :
            LET ready == heard \cup {m} IN
            IF ready \notin Majorities
            THEN /\ nextAttempt(m)
                 /\ UNCHANGED joined
            ELSE LET selected == performMembersSelection(a, ready) IN
                 /\ included' = [included EXCEPT ![m] = selected]
                 /\ listeners' = [listeners EXCEPT ![m] = listeningDuring(m, a)]
                 /\ pc' = [pc EXCEPT ![m] = IF m \in selected THEN "signing" ELSE "checking"]
                 /\ joined' = IF m \in selected THEN [joined EXCEPT ![m][a] = selected]
                              ELSE joined
                 /\ UNCHANGED attemptCounter
      BY <1>2, Zenon DEF endAnnouncement
    <2>2. CASE heard \cup {m} \notin Majorities
      BY <1>0, <2>1, <2>2, AttemptEnds, Zenon
    <2>3. CASE heard \cup {m} \in Majorities
      <3>1. block >= announcementEndBlock(a)
        BY <1>2, Zenon DEF endAnnouncement
      <3> QED
        BY <1>0, <1>2, <2>1, <2>3, <3>1, SelectionStep, Zenon DEF performMembersSelection
    <2> QED
      BY <2>2, <2>3, Zenon
  <1> QED
    BY <1>1, <1>2, Zenon

(* A message is added: its sender is in the signature of any message the   *)
(* attempt has, so an attempt that has them all gets no more.              *)
LEMMA SignalDoneStep ==
    ASSUME IInv, NEW m \in Members, signalDone(m)
    PROVE  IInv'
  <1> DEFINE a == attemptCounter[m]
             new == [sender |-> m, attempt |-> a, signature |-> included[m], endBlock |-> block]
  <1>0. Types /\ LoopInv(m) /\ pc[m] = "signing"
    BY Zenon DEF IInv, signalDone
  <1>1. /\ a \in Attempts /\ m \in included[m] /\ Cardinality(included[m]) = HonestThreshold
        /\ included[m] \in SUBSET Members
    BY <1>0, Zenon DEF LoopInv, Types
  <1>2. \A s \in included[m] : joined[s][a] = included[m]
    BY Zenon DEF signalDone
  <1>3. /\ doneMessages' = doneMessages \cup {new}
        /\ pc' = [pc EXCEPT ![m] = "checking"]
        /\ UNCHANGED <<block, attemptCounter, included, listeners, dangling, outcome,
                       joined, selection>>
    BY Zenon DEF signalDone
  <1>4. /\ new \in [sender : Members, attempt : Attempts, signature : SUBSET Members, endBlock : Nat]
        /\ new.sender = m /\ new.attempt = a /\ new.signature = included[m]
    BY <1>0, <1>1, Zenon DEF Types
  <1> HIDE DEF new
  <1>5. ASSUME NEW d \in doneMessages, d.attempt = a PROVE d.sender # m
    BY <1>0, <1>1, <1>5, SigningAssumption DEF IInv, MessageInv, Attempts
  <1>6. Types'
    BY <1>0, <1>3, <1>4, Zenon DEF Types, Majorities, Attempts
  <1>7. \A n \in Members : LoopInv(n)'
    BY <1>0, <1>3, Zenon DEF IInv, Types, LoopInv, Attempts
  <1>8. ASSUME NEW d \in doneMessages' PROVE MessageInv(d)'
    <2>1. CASE d = new
      <3>1. a \in Nat
        BY <1>1, AttemptNumbers, Zenon
      <3> HIDE DEF a
      <3>2. a <= a
        BY <3>1
      <3>3. attemptCounter'[m] = a /\ pc'[m] = "checking" /\ joined' = joined
        BY <1>0, <1>3, Zenon DEF Types, a
      <3> QED
        BY <1>1, <1>2, <1>4, <2>1, <3>2, <3>3, Zenon DEF MessageInv
    <2>2. CASE d \in doneMessages
      BY <1>0, <1>3, <2>2, Zenon DEF IInv, MessageInv, Types
    <2> QED
      BY <1>3, <2>1, <2>2, Zenon
  <1>9. UniqueMessages'
    <2>1. UniqueMessages
      BY Zenon DEF IInv
    <2>2. ASSUME NEW d \in doneMessages', NEW e \in doneMessages',
                 d.sender = e.sender, d.attempt = e.attempt
          PROVE  d = e
      <3>1. d = new \/ d \in doneMessages
        BY <1>3, Zenon
      <3>2. e = new \/ e \in doneMessages
        BY <1>3, Zenon
      <3> QED
        BY <1>4, <1>5, <2>1, <2>2, <3>1, <3>2, Zenon DEF UniqueMessages
    <2> QED
      BY <2>2, Zenon DEF UniqueMessages
  <1>10. ASSUME NEW c \in Attempts, Cardinality(messagesOf(c)) = HonestThreshold
         PROVE  messagesOf(c)' = messagesOf(c)
    <2>1. CASE c # a
      BY <1>3, <1>4, <2>1, Zenon DEF messagesOf
    <2>2. CASE c = a
      <3>1. messagesOf(a) # {}
        <4>1. Cardinality({}) = 0
          BY FS_EmptySet, Zenon
        <4>2. HonestThreshold # 0
          BY SigningAssumption
        <4> QED
          BY <1>10, <2>2, <4>1, <4>2, Zenon
      <3>2. PICK d \in messagesOf(a) : TRUE
        BY <3>1, Zenon
      <3>3. d \in doneMessages /\ d.attempt = a /\ MessageInv(d) /\ d.signature \in SUBSET Members
        BY <1>0, <3>2, Zenon DEF messagesOf, IInv, Types
      <3>4. PICK s \in Members : s \in d.signature /\ s \in included[m]
        BY <1>1, <3>3, SelectionsMeet, Zenon DEF MessageInv
      <3>5. m \in d.signature
        BY <1>1, <1>2, <3>3, <3>4 DEF MessageInv
      <3>6. PICK e \in messagesOf(a) : e.sender = m
        BY <1>10, <2>2, <3>2, <3>5, MessagesOfAttempt, Zenon
      <3> QED
        BY <1>5, <3>6, Zenon DEF messagesOf
    <2> QED
      BY <2>1, <2>2, Zenon
  <1>11. ASSUME NEW n \in Members PROVE OutcomeInv(n)'
    <2>1. OutcomeInv(n) /\ outcome'[n] = outcome[n]
      BY <1>3, Zenon DEF IInv
    <2>2. CASE outcome[n] = NoOutcome
      BY <2>1, <2>2, Zenon DEF OutcomeInv, NoOutcome
    <2>3. CASE outcome[n] # NoOutcome
      <3>1. PICK c \in Attempts :
              /\ Cardinality(messagesOf(c)) = HonestThreshold
              /\ outcome[n] = [attempt |-> c,
                               signature |-> (CHOOSE d \in messagesOf(c) : TRUE).signature,
                               latestEndBlock |-> Max({d.endBlock : d \in messagesOf(c)})]
        BY <2>1, <2>3, Zenon DEF OutcomeInv
      <3>2. messagesOf(c)' = messagesOf(c)
        BY <1>10, <3>1, Zenon
      <3>3. /\ Cardinality(messagesOf(c)') = HonestThreshold
            /\ outcome'[n] = [attempt |-> c,
                               signature |-> (CHOOSE d \in messagesOf(c)' : TRUE).signature,
                               latestEndBlock |-> Max({d.endBlock : d \in messagesOf(c)'})]
        BY <2>1, <3>1, <3>2, Zenon
      <3> QED
        BY <3>3, Zenon DEF OutcomeInv, Attempts
    <2> QED
      BY <2>2, <2>3, Zenon
  <1> QED
    BY <1>3, <1>6, <1>7, <1>8, <1>9, <1>11, Zenon DEF IInv

(* What the done check may count are messages of its own attempt.          *)
LEMMA AcceptableIsOfAttempt ==
    ASSUME IInv, NEW m \in Members, pc[m] = "checking"
    PROVE  attemptCounter[m] \in Attempts /\ acceptable(m) \subseteq messagesOf(attemptCounter[m])
  BY Zenon DEF IInv, LoopInv, acceptable, isValidDoneMessage, messagesOf

(* A member ends with all the messages its attempt will have.              *)
LEMMA WaitUntilAllDoneStep ==
    ASSUME IInv, NEW m \in Members, waitUntilAllDone(m)
    PROVE  IInv'
  <1> DEFINE a == attemptCounter[m]
             result(D) == [attempt |-> a,
                           signature |-> (CHOOSE d \in D : TRUE).signature,
                           latestEndBlock |-> Max({d.endBlock : d \in D})]
  <1>0. /\ Types /\ LoopInv(m) /\ pc[m] = "checking"
        /\ UNCHANGED <<block, dangling, announced, joined, doneMessages, selection>>
    BY Zenon DEF IInv, waitUntilAllDone, channelVars
  <1>1. PICK D \in doneSigners(m) :
          /\ allDone(m, D)
          /\ IF \A d, e \in D : d.signature = e.signature
             THEN /\ outcome' = [outcome EXCEPT ![m] = result(D)]
                  /\ pc' = [pc EXCEPT ![m] = "done"]
                  /\ included' = [included EXCEPT ![m] = {}]
                  /\ listeners' = [listeners EXCEPT ![m] = {}]
                  /\ UNCHANGED attemptCounter
             ELSE nextAttempt(m) /\ UNCHANGED outcome
    BY Zenon DEF waitUntilAllDone
  <1>2. a \in Attempts /\ D = messagesOf(a) /\ Cardinality(D) = HonestThreshold
    <2>1. a \in Attempts /\ D \in SUBSET messagesOf(a)
      BY <1>0, AcceptableIsOfAttempt, Zenon DEF doneSigners
    <2>2. Cardinality(D) = HonestThreshold
      BY <1>0, <1>1, Zenon DEF allDone, LoopInv
    <2>3. IsFiniteSet(messagesOf(a)) /\ Cardinality(messagesOf(a)) <= HonestThreshold
      BY <2>1, MessagesOfAttempt, Zenon
    <2>4. IsFiniteSet(D) /\ Cardinality(D) <= Cardinality(messagesOf(a))
      BY <2>1, <2>3, FS_Subset, Zenon
    <2>5. Cardinality(D) \in Nat /\ Cardinality(messagesOf(a)) \in Nat
      BY <2>3, <2>4, FS_CardinalityType, Zenon
    <2>6. Cardinality(messagesOf(a)) = Cardinality(D)
      BY <2>2, <2>3, <2>4, <2>5
    <2> QED
      BY <2>1, <2>2, <2>3, <2>6, FS_Subset, Zenon
  <1>3. CASE ~ \A d, e \in D : d.signature = e.signature
    <2>1. nextAttempt(m) /\ UNCHANGED outcome
      BY <1>1, <1>3, Zenon
    <2> QED
      BY <1>0, <2>1, AttemptEnds, Zenon
  <1>4. CASE \A d, e \in D : d.signature = e.signature
    <2> HIDE DEF result
    <2>1. /\ outcome' = [outcome EXCEPT ![m] = result(D)]
          /\ pc' = [pc EXCEPT ![m] = "done"]
          /\ included' = [included EXCEPT ![m] = {}]
          /\ listeners' = [listeners EXCEPT ![m] = {}]
          /\ UNCHANGED attemptCounter
      BY <1>1, <1>4, Zenon
    <2>2. Types'
      BY <1>0, <2>1, Zenon DEF Types, Majorities, Attempts
    <2>3. \A n \in Members : LoopInv(n)'
      BY <1>0, <2>1, Zenon DEF IInv, Types, LoopInv, Attempts
    <2>4. \A d \in doneMessages : MessageInv(d)'
      BY <1>0, <2>1, Zenon DEF IInv, Types, MessageInv
    <2>5. DOMAIN outcome' = Members
      BY <2>1, Zenon DEF IInv
    <2>6. messagesOf(a)' = messagesOf(a)
      BY <1>0, <2>1, Zenon DEF messagesOf
    <2>7. ASSUME NEW n \in Members PROVE OutcomeInv(n)'
      <3>1. CASE n = m
        <4>1. outcome'[m] = result(D)
          BY <2>1, Zenon DEF IInv
        <4>2. doneMessages' = doneMessages
          BY <1>0, Zenon
        <4> QED
          BY <1>2, <3>1, <4>1, <4>2, Zenon DEF OutcomeInv, result, messagesOf, Attempts
      <3>2. CASE n # m
        <4>1. OutcomeInv(n) /\ outcome'[n] = outcome[n] /\ doneMessages' = doneMessages
          BY <1>0, <2>1, <3>2, Zenon DEF IInv
        <4> QED
          BY <4>1, Zenon DEF OutcomeInv, messagesOf, NoOutcome, Attempts
      <3> QED
        BY <3>1, <3>2, Zenon
    <2> QED
      BY <1>0, <2>2, <2>3, <2>4, <2>5, <2>7, Zenon DEF IInv, UniqueMessages
  <1> QED
    BY <1>3, <1>4, Zenon

(* Every step keeps the invariant.                                         *)
LEMMA NextIInv == IInv /\ [Next]_vars => IInv'
  <1> SUFFICES ASSUME IInv, [Next]_vars PROVE IInv'
    BY Zenon
  <1>1. ASSUME NewBlock PROVE IInv'
    <2>1. /\ block' \in Nat
          /\ UNCHANGED <<pc, attemptCounter, included, listeners, dangling, outcome, joined,
                         doneMessages, selection>>
      <3>1. block \in Nat
        BY Zenon DEF IInv, Types
      <3>2. /\ block' = block + 1
            /\ UNCHANGED <<pc, attemptCounter, included, listeners, dangling, outcome, joined,
                           doneMessages, selection>>
        BY <1>1, Zenon DEF NewBlock, loopVars, channelVars
      <3>3. block + 1 \in Nat
        BY <3>1
      <3> QED
        BY <3>2, <3>3, Zenon
    <2>2. \A n \in Members : OutcomeInv(n)'
      BY <2>1, OutcomeStays, Zenon DEF IInv
    <2> QED
      BY <2>1, <2>2, Zenon DEF IInv, Types, LoopInv, MessageInv, UniqueMessages, Majorities, Attempts
  <1>2. ASSUME NEW m \in Members, announce(m) PROVE IInv'
    BY <1>2, AnnounceStep, Zenon
  <1>3. ASSUME NEW m \in Members, endAnnouncement(m) PROVE IInv'
    BY <1>3, EndAnnouncementStep, Zenon
  <1>4. ASSUME NEW m \in Members, failAttempt(m) PROVE IInv'
    <2>1. attemptCounter[m] \in Attempts
      BY <1>4, Zenon DEF failAttempt, IInv, LoopInv
    <2> QED
      BY <1>4, <2>1, AttemptEnds, Zenon DEF failAttempt, channelVars
  <1>5. ASSUME NEW m \in Members, waitDoneTimedOut(m) PROVE IInv'
    BY <1>5, AttemptEnds, Zenon DEF waitDoneTimedOut, channelVars
  <1>6. ASSUME NEW m \in Members, signalDone(m) PROVE IInv'
    BY <1>6, SignalDoneStep, Zenon
  <1>7. ASSUME NEW m \in Members, waitUntilAllDone(m) PROVE IInv'
    BY <1>7, WaitUntilAllDoneStep, Zenon
  <1>8. ASSUME NEW m \in Members, skipAttempt(m) PROVE IInv'
    BY <1>8, AttemptEnds, Zenon DEF skipAttempt, channelVars
  <1>9. ASSUME UNCHANGED vars PROVE IInv'
    <2>1. UNCHANGED <<block, pc, attemptCounter, included, listeners, dangling, outcome, joined,
                      doneMessages, selection>>
      BY <1>9, Zenon DEF vars, loopVars, channelVars
    <2>2. \A n \in Members : OutcomeInv(n)'
      BY <2>1, OutcomeStays, Zenon DEF IInv
    <2> QED
      BY <2>1, <2>2, Zenon DEF IInv, Types, LoopInv, MessageInv, UniqueMessages, Majorities, Attempts
  <1> QED
    BY <1>1, <1>2, <1>3, <1>4, <1>5, <1>6, <1>7, <1>8, <1>9, Zenon DEF Next, Loop

(* The invariant holds throughout.                                         *)
LEMMA InductiveInvariant == Spec => []IInv
  BY InitIInv, NextIInv, PTL DEF Spec

(***************************************************************************)
(* waitUntilAllDone compares a number of messages with a number of         *)
(* members, and never the senders with the members; what it counts are     *)
(* messages of its attempt from no more members than it waits for.         *)
(***************************************************************************)
THEOREM CountedSigners == Spec => []CountedSignersMadeTheSignature
  <1>1. IInv => CountedSignersMadeTheSignature
    <2> SUFFICES ASSUME IInv, NEW m \in Members, pc[m] = "checking"
                 PROVE  /\ Cardinality({d.sender : d \in acceptable(m)}) <= Cardinality(included[m])
                        /\ \A d \in acceptable(m) : d.attempt = attemptCounter[m]
      BY Zenon DEF CountedSignersMadeTheSignature
    <2>1. acceptable(m) \subseteq messagesOf(attemptCounter[m])
      BY AcceptableIsOfAttempt, Zenon
    <2>2. \A d \in acceptable(m) : d \in doneMessages /\ d.attempt = attemptCounter[m]
      BY <2>1, Zenon DEF messagesOf
    <2>3. Cardinality(included[m]) = HonestThreshold
      BY Zenon DEF IInv, LoopInv
    <2> DEFINE senders == {d.sender : d \in acceptable(m)}
    <2>4. CASE acceptable(m) = {}
      <3>1. senders = {}
        BY <2>4, Zenon
      <3> HIDE DEF senders
      <3>2. Cardinality(senders) = 0
        BY <3>1, FS_EmptySet, Zenon
      <3> QED
        <4>1. HonestThreshold \in Nat
          BY FS_CardinalityType, SigningAssumption
        <4>2. 0 <= HonestThreshold
          BY <4>1
        <4> QED
          BY <2>2, <2>3, <3>2, <4>2, Zenon DEF senders
    <2>5. ASSUME NEW e \in acceptable(m) PROVE Cardinality(senders) <= HonestThreshold
      <3>1. e.signature \in SUBSET Members /\ Cardinality(e.signature) = HonestThreshold
        BY <2>2, Zenon DEF IInv, Types, MessageInv
      <3>2. senders \in SUBSET e.signature
        <4>1. ASSUME NEW d \in acceptable(m) PROVE d.sender \in e.signature
          <5>1. d.signature = e.signature
            BY <2>2, OneSignature, Zenon
          <5> QED
            BY <5>1, <2>2, Zenon DEF IInv, MessageInv
        <4> QED
          BY <4>1, Zenon
      <3>3. IsFiniteSet(e.signature)
        BY <3>1, FS_Subset, SigningAssumption, Zenon
      <3> HIDE DEF senders
      <3> QED
        BY <3>1, <3>2, <3>3, FS_Subset, Zenon
    <2> QED
      BY <2>2, <2>3, <2>4, <2>5, Zenon
  <1> QED
    BY <1>1, InductiveInvariant, PTL

(***************************************************************************)
(* Members whose loops end with the same attempt return the same signature *)
(* and the same end block.                                                 *)
(***************************************************************************)
THEOREM OneOutcome == Spec => []AttemptHasOneOutcome
  <1>1. IInv => AttemptHasOneOutcome
    <2> SUFFICES ASSUME IInv, NEW m \in Members, NEW n \in Members,
                        outcome[m].attempt = outcome[n].attempt
                 PROVE  outcome[m] = outcome[n]
      BY Zenon DEF AttemptHasOneOutcome
    <2> DEFINE result(a) == [attempt |-> a,
                             signature |-> (CHOOSE d \in messagesOf(a) : TRUE).signature,
                             latestEndBlock |-> Max({d.endBlock : d \in messagesOf(a)})]
    <2>1. \A k \in Members : outcome[k] = NoOutcome \/ \E a \in Attempts : outcome[k] = result(a)
      BY Zenon DEF IInv, OutcomeInv
    <2>2. NoOutcome.attempt = 0 /\ \A a \in Attempts : result(a).attempt = a /\ a # 0
      BY SigningAssumption DEF NoOutcome, Attempts
    <2> HIDE DEF result
    <2> QED
      BY <2>1, <2>2
  <1> QED
    BY <1>1, InductiveInvariant, PTL

(***************************************************************************)
(* The messages the done check counts never carry different signatures, so *)
(* waitUntilAllDone never takes its "signatures differ" error path: that   *)
(* check only guards against members that do not follow the protocol.      *)
(***************************************************************************)
THEOREM SignaturesNeverDiffer ==
    Spec => [](\A m \in Members : pc[m] = "checking" =>
                  \A d, e \in acceptable(m) : d.signature = e.signature)
  <1>1. IInv => \A m \in Members : pc[m] = "checking" =>
                   \A d, e \in acceptable(m) : d.signature = e.signature
    <2> SUFFICES ASSUME IInv, NEW m \in Members, pc[m] = "checking",
                        NEW d \in acceptable(m), NEW e \in acceptable(m)
                 PROVE  d.signature = e.signature
      BY Zenon
    <2>1. d \in messagesOf(attemptCounter[m]) /\ e \in messagesOf(attemptCounter[m])
      BY AcceptableIsOfAttempt, Zenon
    <2> QED
      BY <2>1, OneSignature, Zenon DEF messagesOf
  <1> QED
    BY <1>1, InductiveInvariant, PTL

(***************************************************************************)
(* The time of an attempt is over before the time of the loop.             *)
(***************************************************************************)
LEMMA AttemptEndsWithinLoop ==
    ASSUME NEW a \in Attempts
    PROVE  timeoutBlock(a) <= loopTimeoutBlock /\ timeoutBlock(a) \in Nat /\ loopTimeoutBlock \in Nat
  <1> DEFINE M == signingAttemptMaximumBlocks
  <1>1. M \in Nat /\ M >= AnnouncementDelayBlocks + AnnouncementActiveBlocks + MaximumProtocolBlocks
    BY SigningAssumption DEF signingAttemptMaximumBlocks
  <1>2. a \in Nat /\ a >= 1 /\ a <= AttemptsLimit /\ AttemptsLimit \in Nat
    BY SigningAssumption DEF Attempts
  <1>3. (a - 1) * M + M <= AttemptsLimit * M /\ (a - 1) * M \in Nat /\ AttemptsLimit * M \in Nat
    <2> HIDE DEF M
    <2>1. a * M <= AttemptsLimit * M
      BY <1>1, <1>2
    <2>2. a * M = (a - 1) * M + M
      BY <1>1, <1>2
    <2>3. (a - 1) * M \in Nat /\ AttemptsLimit * M \in Nat
      BY <1>1, <1>2
    <2> QED
      BY <1>1, <2>1, <2>2, <2>3
  <1>4. timeoutBlock(a) = (((a - 1) * M + AnnouncementDelayBlocks) + AnnouncementActiveBlocks)
                              + MaximumProtocolBlocks
    BY Zenon DEF timeoutBlock, announcementEndBlock, announcementStartBlock
  <1>5. loopTimeoutBlock = AttemptsLimit * M
    BY Zenon DEF loopTimeoutBlock
  <1> DEFINE before == (a - 1) * M
             all == AttemptsLimit * M
  <1>6. before \in Nat /\ all \in Nat /\ before + M <= all
    BY <1>3, Zenon
  <1>7. /\ ((before + AnnouncementDelayBlocks) + AnnouncementActiveBlocks) + MaximumProtocolBlocks <= all
        /\ ((before + AnnouncementDelayBlocks) + AnnouncementActiveBlocks) + MaximumProtocolBlocks \in Nat
    <2> HIDE DEF M, before, all
    <2> QED
      BY <1>1, <1>6, SigningAssumption
  <1> QED
    BY <1>3, <1>4, <1>5, <1>7, Zenon

(***************************************************************************)
(* Once the time of the loop is over, every wait in it is: a member that   *)
(* waits for done messages is past the time of its attempt, so that the    *)
(* done check returns even if no message comes. The other waits end with   *)
(* the loop by their own conditions.                                       *)
(***************************************************************************)
THEOREM WaitsAreBounded ==
    Spec => [](loopIsDone => \A m \in Members : pc[m] = "checking" =>
                  block >= timeoutBlock(attemptCounter[m]))
  <1>1. IInv => (loopIsDone => \A m \in Members : pc[m] = "checking" =>
                    block >= timeoutBlock(attemptCounter[m]))
    <2> SUFFICES ASSUME IInv, loopIsDone, NEW m \in Members, pc[m] = "checking"
                 PROVE  block >= timeoutBlock(attemptCounter[m])
      BY Zenon
    <2> DEFINE t == timeoutBlock(attemptCounter[m])
    <2>1. attemptCounter[m] \in Attempts
      BY Zenon DEF IInv, LoopInv
    <2>2. t <= loopTimeoutBlock /\ t \in Nat /\ loopTimeoutBlock \in Nat
      BY <2>1, AttemptEndsWithinLoop, Zenon
    <2>3. block \in Nat /\ block >= loopTimeoutBlock
      BY Zenon DEF IInv, Types, loopIsDone
    <2> HIDE DEF t
    <2>4. block >= t
      BY <2>2, <2>3
    <2> QED
      BY <2>4, Zenon DEF t
  <1> QED
    BY <1>1, InductiveInvariant, PTL
=============================================================================
