----------------------------- MODULE NodeProofs -----------------------------
(***************************************************************************)
(* Proofs about what one node keeps and decides alone: its wallets         *)
(* (NodeWallets) and the members it selects for an attempt                 *)
(* (MemberSelection).                                                      *)
(***************************************************************************)
EXTENDS NodeWallets, MemberSelection, FiniteSetTheorems, TLAPS

(***************************************************************************)
(* NodeWallets, for any number of wallets, seats, executor caches,         *)
(* closures and crashes.                                                   *)
(***************************************************************************)

NodeTypes ==
    /\ chainState \in [Wallets -> {"pending", "live", "closed"}]
    /\ closures \in [Wallets -> Nat]
    /\ storage \in [Wallets -> SUBSET Seats]
    /\ archive \in [Wallets -> SUBSET Seats]
    /\ up \in BOOLEAN
    /\ walletCache \in [Wallets -> SUBSET Seats]
    /\ executors \in [Executors -> [Wallets -> SUBSET Seats]]
    /\ handlers \in [Wallets \X Closures \X Deliveries ->
                        {"none", "new", "confirming", "done", "ignored"}]

(* An event is handled after the closure it tells of, and a wallet that    *)
(* was closed has been approved.                                           *)
ClosureInv ==
    \A w \in Wallets :
        /\ \A n \in Closures, d \in Deliveries : handlers[<<w, n, d>>] # "none" => n <= closures[w]
        /\ closures[w] > 0 => chainState[w] # "pending"

DurableInv == NodeTypes /\ SharesAreDurable

NodeIInv == DurableInv /\ ClosureInv

(* The invariant holds at the start.                                       *)
LEMMA NodeInitIInv == NodeInit => NodeIInv
  <1> SUFFICES ASSUME NodeInit PROVE NodeIInv
    OBVIOUS
  <1>1. NodeTypes
    BY DEF NodeInit, NodeTypes, NoSeats, NoExecutors, NoHandlers
  <1>2. SharesAreDurable
    BY DEF NodeInit, SharesAreDurable, NoSeats, NoExecutors
  <1>3. ClosureInv
    <2>1. \A h \in Wallets \X Closures \X Deliveries : handlers[h] = "none"
      BY DEF NodeInit, NoHandlers
    <2>2. \A w \in Wallets, n \in Closures, d \in Deliveries :
             <<w, n, d>> \in Wallets \X Closures \X Deliveries
      OBVIOUS
    <2>3. \A w \in Wallets : ~(closures[w] > 0)
      <3>1. ASSUME NEW w \in Wallets PROVE closures[w] = 0
        BY DEF NodeInit
      <3>2. ~(0 > 0)
        OBVIOUS
      <3> QED
        BY <3>1, <3>2, Zenon
    <2> QED
      BY <2>1, <2>2, <2>3, Zenon DEF ClosureInv
  <1> QED
    BY <1>1, <1>2, <1>3 DEF NodeIInv, DurableInv

(* archiveWallets and archiveClosedWallets move signers and lose none.     *)
LEMMA ArchivingMoves ==
    ASSUME NodeTypes, NEW W \in SUBSET Wallets,
           archive' = [w \in Wallets |-> IF w \in W THEN archive[w] \cup storage[w] ELSE archive[w]],
           storage' = [w \in Wallets |-> IF w \in W THEN {} ELSE storage[w]]
    PROVE  /\ archive' \in [Wallets -> SUBSET Seats]
           /\ storage' \in [Wallets -> SUBSET Seats]
           /\ \A w \in Wallets : storage'[w] \cup archive'[w] = storage[w] \cup archive[w]
  <1>1. archive' \in [Wallets -> SUBSET Seats]
    BY DEF NodeTypes
  <1>2. storage' \in [Wallets -> SUBSET Seats]
    BY DEF NodeTypes
  <1>3. \A w \in Wallets : storage'[w] \cup archive'[w] = storage[w] \cup archive[w]
    BY DEF NodeTypes
  <1> QED
    BY <1>1, <1>2, <1>3

(* Every step keeps memory and disk together.                              *)
LEMMA NextDurable == DurableInv /\ [NodeNext]_nodeVars => DurableInv'
  <1> SUFFICES ASSUME NodeTypes, SharesAreDurable, [NodeNext]_nodeVars PROVE NodeTypes' /\ SharesAreDurable'
    BY DEF DurableInv
  <1> USE DEF Closures, Deliveries
  <1>1. ASSUME NEW w \in Wallets, approveWallet(w) \/ revertClosure(w)
        PROVE  NodeTypes' /\ SharesAreDurable'
    BY <1>1 DEF approveWallet, revertClosure, memoryVars, NodeTypes, SharesAreDurable
  <1>2. ASSUME NEW w \in Wallets, closeWallet(w) PROVE NodeTypes' /\ SharesAreDurable'
    BY <1>2 DEF closeWallet, NodeTypes, SharesAreDurable
  <1>3. ASSUME NEW w \in Wallets, finalizeClosure(w) PROVE NodeTypes' /\ SharesAreDurable'
    BY <1>3 DEF finalizeClosure, memoryVars, NodeTypes, SharesAreDurable
  <1>4. ASSUME NEW w \in Wallets, NEW seat \in Seats, registerSigner(w, seat)
        PROVE  NodeTypes' /\ SharesAreDurable'
    BY <1>4 DEF registerSigner, chainVars, NodeTypes, SharesAreDurable
  <1>5. ASSUME NEW e \in Executors, NEW w \in Wallets, getExecutor(e, w)
        PROVE  NodeTypes' /\ SharesAreDurable'
    BY <1>5 DEF getExecutor, chainVars, NodeTypes, SharesAreDurable
  <1>6. ASSUME NEW w \in Wallets, NEW n \in Closures, NEW d \in Deliveries,
               onWalletClosed(w, n, d) \/ notifyWalletClosed(w, n, d)
        PROVE  NodeTypes' /\ SharesAreDurable'
    BY <1>6, Zenon DEF onWalletClosed, notifyWalletClosed, chainVars, NodeTypes, SharesAreDurable
  <1>7. ASSUME NEW w \in Wallets, NEW n \in Closures, NEW d \in Deliveries,
               handleWalletClosure(w, n, d)
        PROVE  NodeTypes' /\ SharesAreDurable'
    <2>1. /\ up /\ UNCHANGED <<chainState, closures, up, executors>>
          /\ handlers' = [handlers EXCEPT ![<<w, n, d>>] = "done"]
      BY <1>7 DEF handleWalletClosure, chainVars
    <2>2. CASE ~isWalletRegistered(w) /\ walletCache[w] # {}
      <3>1. archiveWallets({w}) /\ walletCache = storage
        BY <1>7, <2>2 DEF handleWalletClosure, SharesAreDurable
      <3>2. /\ archive' \in [Wallets -> SUBSET Seats]
            /\ storage' \in [Wallets -> SUBSET Seats]
            /\ \A v \in Wallets : storage'[v] \cup archive'[v] = storage[v] \cup archive[v]
        BY <3>1, ArchivingMoves, Zenon DEF archiveWallets
      <3>3. walletCache' = storage'
        BY <3>1 DEF archiveWallets
      <3> QED
        BY <2>1, <3>2, <3>3 DEF NodeTypes, SharesAreDurable
    <2>3. CASE ~(~isWalletRegistered(w) /\ walletCache[w] # {})
      BY <1>7, <2>1, <2>3 DEF handleWalletClosure, NodeTypes, SharesAreDurable
    <2> QED
      BY <2>2, <2>3
  <1>8. ASSUME crash PROVE NodeTypes' /\ SharesAreDurable'
    BY <1>8, Zenon DEF crash, chainVars, NoSeats, NoExecutors, NoHandlers, NodeTypes, SharesAreDurable
  <1>9. ASSUME newNode PROVE NodeTypes' /\ SharesAreDurable'
    BY <1>9, ArchivingMoves DEF newNode, archiveClosedWallets, chainVars, NoSeats, NodeTypes, SharesAreDurable
  <1>10. ASSUME UNCHANGED nodeVars PROVE NodeTypes' /\ SharesAreDurable'
    BY <1>10 DEF nodeVars, chainVars, memoryVars, NodeTypes, SharesAreDurable
  <1> QED
    BY <1>1, <1>2, <1>3, <1>4, <1>5, <1>6, <1>7, <1>8, <1>9, <1>10 DEF NodeNext, Node

(* Every step keeps the order of closures and their events.                *)
LEMMA NextClosure == NodeTypes /\ ClosureInv /\ [NodeNext]_nodeVars => ClosureInv'
  <1> SUFFICES ASSUME NodeTypes, ClosureInv, [NodeNext]_nodeVars PROVE ClosureInv'
    OBVIOUS
  <1> USE DEF Closures, Deliveries
  <1>1. ASSUME NEW w \in Wallets, approveWallet(w) \/ revertClosure(w) PROVE ClosureInv'
    BY <1>1 DEF approveWallet, revertClosure, memoryVars, NodeTypes, ClosureInv
  <1>2. ASSUME NEW w \in Wallets, closeWallet(w) PROVE ClosureInv'
    BY <1>2, NodeAssumption DEF closeWallet, NodeTypes, ClosureInv
  <1>3. ASSUME NEW w \in Wallets, finalizeClosure(w) PROVE ClosureInv'
    BY <1>3 DEF finalizeClosure, memoryVars, NodeTypes, ClosureInv
  <1>4. ASSUME NEW w \in Wallets, NEW seat \in Seats, registerSigner(w, seat) PROVE ClosureInv'
    BY <1>4 DEF registerSigner, chainVars, ClosureInv
  <1>5. ASSUME NEW e \in Executors, NEW w \in Wallets, getExecutor(e, w) PROVE ClosureInv'
    BY <1>5 DEF getExecutor, chainVars, ClosureInv
  <1>6. ASSUME NEW w \in Wallets, NEW n \in Closures, NEW d \in Deliveries,
               onWalletClosed(w, n, d) \/ notifyWalletClosed(w, n, d)
        PROVE  ClosureInv'
    BY <1>6 DEF onWalletClosed, notifyWalletClosed, chainVars, NodeTypes, ClosureInv
  <1>7. ASSUME NEW w \in Wallets, NEW n \in Closures, NEW d \in Deliveries,
               handleWalletClosure(w, n, d)
        PROVE  ClosureInv'
    BY <1>7 DEF handleWalletClosure, chainVars, NodeTypes, ClosureInv
  <1>8. ASSUME crash PROVE ClosureInv'
    BY <1>8 DEF crash, chainVars, NoHandlers, NodeTypes, ClosureInv
  <1>9. ASSUME newNode PROVE ClosureInv'
    BY <1>9 DEF newNode, chainVars, ClosureInv
  <1>10. ASSUME UNCHANGED nodeVars PROVE ClosureInv'
    BY <1>10 DEF nodeVars, chainVars, memoryVars, ClosureInv
  <1> QED
    BY <1>1, <1>2, <1>3, <1>4, <1>5, <1>6, <1>7, <1>8, <1>9, <1>10 DEF NodeNext, Node

(* The invariant holds throughout.                                         *)
LEMMA NodeInductiveInvariant == NodeSpec => []NodeIInv
  <1>1. NodeIInv /\ [NodeNext]_nodeVars => NodeIInv'
    BY NextDurable, NextClosure DEF NodeIInv, DurableInv
  <1> QED
    BY <1>1, NodeInitIInv, PTL DEF NodeSpec

(***************************************************************************)
(* The registry's memory mirrors the disk while the node runs, and no      *)
(* executor holds a signer that is neither in use nor archived, wherever   *)
(* the node stops and however often.                                       *)
(***************************************************************************)
THEOREM DurableShares == NodeSpec => []SharesAreDurable
  <1>1. NodeIInv => SharesAreDurable
    BY DEF NodeIInv, DurableInv
  <1> QED
    BY <1>1, NodeInductiveInvariant, PTL

(***************************************************************************)
(* handleWalletClosure archives closed wallets only, and one closed for    *)
(* the first time only when the closure is final.                          *)
(***************************************************************************)
THEOREM OnlyClosedAreArchived == NodeSpec => RunningNodeArchivesClosedWallets
  <1> DEFINE A == up => \A w \in Wallets : archive'[w] # archive[w] =>
                            chainState[w] = "closed" /\ (closures[w] = 1 => final[w])
  <1>1. ASSUME NodeIInv, [NodeNext]_nodeVars PROVE A \/ UNCHANGED nodeVars
    <2> SUFFICES ASSUME NodeNext, up, NEW w \in Wallets, archive'[w] # archive[w]
                 PROVE  chainState[w] = "closed" /\ (closures[w] = 1 => final[w])
      BY <1>1
    <2>1. PICK v \in Wallets, n \in Closures, d \in Deliveries : handleWalletClosure(v, n, d)
      BY Zenon DEF NodeNext, Node, approveWallet, closeWallet, revertClosure, finalizeClosure, registerSigner,
             getExecutor, onWalletClosed, notifyWalletClosed, crash, newNode, memoryVars, chainVars
    <2>2. archiveWallets({v}) /\ ~isWalletRegistered(v) /\ settled(v, n)
          /\ handlers[<<v, n, d>>] = "confirming"
      BY <2>1 DEF handleWalletClosure
    <2>3. v = w
      BY <1>1, <2>2 DEF archiveWallets, NodeIInv, DurableInv, NodeTypes
    <2>4. n <= closures[w] /\ n \in Nat /\ n > 0 /\ closures[w] \in Nat
      <3>1. n <= closures[v]
        BY <1>1, <2>2 DEF NodeIInv, ClosureInv
      <3>2. n \in Nat /\ n > 0
        BY NodeAssumption DEF Closures
      <3> QED
        BY <1>1, <2>3, <3>1, <3>2 DEF NodeIInv, DurableInv, NodeTypes
    <2>5. chainState[w] = "closed"
      BY <1>1, <2>2, <2>3, <2>4 DEF NodeIInv, DurableInv, ClosureInv, NodeTypes, isWalletRegistered
    <2>6. closures[w] = 1 => final[w]
      BY <2>2, <2>3, <2>4 DEF settled
    <2> QED
      BY <2>5, <2>6
  <1> QED
    BY <1>1, NodeInductiveInvariant, PTL DEF NodeSpec, RunningNodeArchivesClosedWallets

(***************************************************************************)
(* A signer that was stored is never lost: no step, archiving, a crash and *)
(* a restart that fails half way included, takes it away from both the     *)
(* disk's directories.                                                     *)
(***************************************************************************)
THEOREM NoShareIsLost ==
    NodeSpec => [][\A w \in Wallets : storage[w] \cup archive[w] \subseteq storage'[w] \cup archive'[w]]_nodeVars
  <1> DEFINE A == \A w \in Wallets : storage[w] \cup archive[w] \subseteq storage'[w] \cup archive'[w]
  <1>1. ASSUME NodeIInv, [NodeNext]_nodeVars PROVE A \/ UNCHANGED nodeVars
    <2> SUFFICES ASSUME NodeNext PROVE A
      BY <1>1
    <2>0. NodeTypes
      BY <1>1 DEF NodeIInv, DurableInv
    <2>1. ASSUME UNCHANGED <<storage, archive>> PROVE A
      BY <2>1
    <2>2. ASSUME NEW w \in Wallets, NEW seat \in Seats, registerSigner(w, seat) PROVE A
      BY <2>0, <2>2 DEF registerSigner, NodeTypes
    <2>3. ASSUME NEW w \in Wallets, NEW n \in Closures, NEW d \in Deliveries,
                 handleWalletClosure(w, n, d)
          PROVE  A
      <3>1. CASE archiveWallets({w})
        BY <2>0, <3>1, ArchivingMoves DEF archiveWallets
      <3>2. CASE ~archiveWallets({w})
        BY <2>1, <2>3, <3>2 DEF handleWalletClosure
      <3> QED
        BY <3>1, <3>2
    <2>4. ASSUME newNode PROVE A
      BY <2>0, <2>4, ArchivingMoves DEF newNode, archiveClosedWallets
    <2> HIDE DEF A
    <2> QED
      BY <2>1, <2>2, <2>3, <2>4, Zenon DEF NodeNext, Node, approveWallet, closeWallet, revertClosure,
         finalizeClosure, getExecutor, onWalletClosed, notifyWalletClosed, crash
  <1> QED
    BY <1>1, NodeInductiveInvariant, PTL DEF NodeSpec

(***************************************************************************)
(* MemberSelection, for any group, thresholds, distribution of the seats   *)
(* and seeds, and any shuffle that permutes: the lists the searches build  *)
(* have every candidate once, so an index is a candidate.                  *)
(***************************************************************************)

(* f lists the elements of the finite set S, each of them once.            *)
Lists(f, S) ==
    /\ f \in [1..Cardinality(S) -> S]
    /\ \A i, j \in 1..Cardinality(S) : f[i] = f[j] => i = j
    /\ \A x \in S : \E i \in 1..Cardinality(S) : f[i] = x

(* The numbers up to n.                                                    *)
LEMMA UpTo ==
    ASSUME NEW n \in Nat
    PROVE  IsFiniteSet(1..n) /\ Cardinality(1..n) = n
  <1>1. IsFiniteSet(1..n) /\ Cardinality(1..n) = IF 1 > n THEN 0 ELSE n - 1 + 1
    BY FS_Interval, SMT
  <1> QED
    BY <1>1, SMT

(* An enumeration without repetition of as many elements as S has lists S. *)
LEMMA NoRepetition ==
    ASSUME NEW S, IsFiniteSet(S), NEW f \in [1..Cardinality(S) -> S], IsInjective(f)
    PROVE  Lists(f, S)
  <1>1. PICK n \in Nat : n = Cardinality(S)
    BY FS_CardinalityType, Zenon
  <1>2. f \in [1..n -> S] /\ DOMAIN f = 1..n
    BY <1>1, Zenon
  <1>3. f \in Injection(1..n, S)
    BY <1>2, Zenon DEF Injection
  <1>4. Cardinality(1..n) = Cardinality(S)
    BY <1>1, UpTo, Zenon
  <1>5. f \in Surjection(1..n, S)
    BY <1>3, <1>4, FS_Injection, Zenon
  <1>6. \A x \in S : \E i \in 1..n : f[i] = x
    BY <1>5, Zenon DEF Surjection
  <1> QED
    BY <1>1, <1>2, <1>6, Zenon DEF Lists, IsInjective

(* SetToSeq lists its set.                                                 *)
LEMMA SetToSeqLists ==
    ASSUME NEW S, IsFiniteSet(S)
    PROVE  Lists(SetToSeq(S), S)
  <1>1. \E f \in [1..Cardinality(S) -> S] : IsInjective(f)
    <2>1. ExistsBijection(1..Cardinality(S), S)
      BY FS_CardinalityType, Zenon
    <2> QED
      BY <2>1, Zenon DEF ExistsBijection, Bijection, Injection
  <1>2. SetToSeq(S) \in [1..Cardinality(S) -> S] /\ IsInjective(SetToSeq(S))
    BY <1>1, Zenon DEF SetToSeq
  <1> QED
    BY <1>2, NoRepetition, Zenon

(* The order of the sorted list does not matter to what follows; that it   *)
(* lists the set does.                                                     *)
LEMMA SortedLists ==
    ASSUME NEW S \in SUBSET Nat, IsFiniteSet(S)
    PROVE  Lists(sorted(S), S)
  <1> DEFINE below(x) == {y \in S : y < x}
             rank == [x \in S |-> Cardinality(below(x))]
  <1>1. PICK n \in Nat : n = Cardinality(S)
    BY FS_CardinalityType, Zenon
  <1>2. \A x \in S : rank[x] \in 0..(n - 1)
    <2>1. SUFFICES ASSUME NEW x \in S PROVE Cardinality(below(x)) \in 0..(n - 1)
      BY Zenon
    <2>2. below(x) \in SUBSET S /\ x \notin below(x)
      <3>1. ~ (x < x)
        BY SMT
      <3> QED
        BY <3>1, Zenon
    <2>3. /\ IsFiniteSet(below(x)) /\ Cardinality(below(x)) <= Cardinality(S)
          /\ Cardinality(S) # Cardinality(below(x))
      BY <2>1, <2>2, FS_Subset, Zenon
    <2>4. Cardinality(below(x)) \in Nat
      BY <2>3, FS_CardinalityType, Zenon
    <2> HIDE DEF below
    <2> QED
      BY <1>1, <2>3, <2>4, SMT
  <1>3. \A x, z \in S : x < z => rank[x] < rank[z]
    <2>1. SUFFICES ASSUME NEW x \in S, NEW z \in S, x < z PROVE Cardinality(below(x)) < Cardinality(below(z))
      BY Zenon
    <2>2. below(z) \in SUBSET S /\ x \in below(z) /\ x \notin below(x)
      <3>1. ~ (x < x)
        BY SMT
      <3> QED
        BY <2>1, <3>1, Zenon
    <2>3. below(x) \in SUBSET below(z)
      <3>1. \A y \in S : y < x => y < z
        BY <2>1, SMT
      <3> QED
        BY <3>1, Zenon
    <2>4. IsFiniteSet(below(z))
      BY <2>2, FS_Subset, Zenon
    <2>5. /\ IsFiniteSet(below(x)) /\ Cardinality(below(x)) <= Cardinality(below(z))
          /\ Cardinality(below(z)) # Cardinality(below(x))
      BY <2>2, <2>3, <2>4, FS_Subset, Zenon
    <2>6. Cardinality(below(x)) \in Nat /\ Cardinality(below(z)) \in Nat
      BY <2>4, <2>5, FS_CardinalityType, Zenon
    <2> HIDE DEF below
    <2> QED
      BY <2>5, <2>6, SMT
  <1>4. \A x, z \in S : rank[x] = rank[z] => x = z
    <2>1. \A x, z \in S : x < z \/ z < x \/ x = z
      BY SMT
    <2>2. \A i \in 0..(n - 1) : ~ (i < i)
      BY <1>1, SMT
    <2> HIDE DEF rank
    <2> QED
      BY <1>2, <1>3, <2>1, <2>2, Zenon
  <1>5. rank \in Surjection(S, 0..(n - 1))
    <2>1. rank \in [S -> 0..(n - 1)]
      BY <1>2, Zenon
    <2>2. rank \in Injection(S, 0..(n - 1))
      BY <1>4, <2>1, Zenon DEF Injection, IsInjective
    <2>3. IsFiniteSet(0..(n - 1)) /\ Cardinality(0..(n - 1)) = n
      <3>1. PICK b \in Int : b = n - 1
        BY <1>1, SMT
      <3>2. 0 \in Int
        BY SMT
      <3>3. IsFiniteSet(0..b) /\ Cardinality(0..b) = IF 0 > b THEN 0 ELSE b - 0 + 1
        BY <3>2, FS_Interval, Zenon
      <3>4. Cardinality(0..b) = n
        BY <1>1, <3>1, <3>3, SMT
      <3> QED
        BY <3>1, <3>3, <3>4, Zenon
    <2> HIDE DEF rank
    <2> QED
      BY <1>1, <2>2, <2>3, FS_Injection, Zenon
  <1>6. \A i \in 1..n : \E x \in S : Cardinality(below(x)) = i - 1
    <2>1. \A r \in 0..(n - 1) : \E x \in S : rank[x] = r
      BY <1>5, Zenon DEF Surjection
    <2>2. \A i \in 1..n : i - 1 \in 0..(n - 1)
      BY <1>1, SMT
    <2> QED
      BY <2>1, <2>2, Zenon
  <1>7. PICK f : f = sorted(S)
    BY Zenon
  <1>8. /\ f = [i \in 1..n |-> CHOOSE x \in S : Cardinality(below(x)) = i - 1]
        /\ \A i \in 1..n : f[i] = CHOOSE x \in S : Cardinality(below(x)) = i - 1
    BY <1>1, <1>7, Zenon DEF sorted
  <1> HIDE DEF below
  <1>9. \A i \in 1..n : f[i] \in S /\ Cardinality(below(f[i])) = i - 1
    BY <1>6, <1>8, Zenon
  <1>10. f \in [1..n -> S] /\ DOMAIN f = 1..n
    BY <1>8, <1>9, Zenon
  <1>11. \A i, j \in 1..n : f[i] = f[j] => i = j
    <2>1. \A i, j \in 1..n : i - 1 = j - 1 => i = j
      BY <1>1, SMT
    <2> QED
      BY <1>9, <2>1, Zenon
  <1> QED
    BY <1>1, <1>7, <1>10, <1>11, NoRepetition, Zenon DEF IsInjective

(* A shuffled list is a list of the same elements.                         *)
LEMMA ShuffledLists ==
    ASSUME ShufflesPermute, NEW S, IsFiniteSet(S), NEW f, Lists(f, S), NEW s \in Int
    PROVE  Lists(shuffle(f, s), S)
  <1>1. PICK n \in Nat : n = Cardinality(S)
    BY FS_CardinalityType, Zenon
  <1>2. f \in [1..n -> S] /\ DOMAIN f = 1..n /\ \A i, j \in 1..n : f[i] = f[j] => i = j
    BY <1>1, Zenon DEF Lists
  <1>3. Len(f) = n
    BY <1>1, <1>2, SMT
  <1>4. PICK p : p = permutation(n, s)
    BY Zenon
  <1>5. p \in [1..n -> 1..n] /\ DOMAIN p = 1..n /\ \A i, j \in 1..n : p[i] = p[j] => i = j
    <2>1. p \in [1..n -> 1..n] /\ IsInjective(p)
      BY <1>1, <1>4, Zenon DEF ShufflesPermute
    <2> QED
      BY <2>1, Zenon DEF IsInjective
  <1>6. PICK g : g = shuffle(f, s)
    BY Zenon
  <1>7. g = [i \in 1..n |-> f[p[i]]]
    BY <1>2, <1>3, <1>4, <1>6, Zenon DEF shuffle
  <1>8. g \in [1..n -> S] /\ DOMAIN g = 1..n /\ \A i \in 1..n : g[i] = f[p[i]]
    BY <1>2, <1>5, <1>7, Zenon
  <1>9. ASSUME NEW i \in 1..n, NEW j \in 1..n, g[i] = g[j] PROVE i = j
    <2>1. p[i] \in 1..n /\ p[j] \in 1..n /\ f[p[i]] = f[p[j]]
      BY <1>5, <1>8, <1>9, Zenon
    <2>2. p[i] = p[j]
      BY <1>2, <2>1, Zenon
    <2> QED
      BY <1>5, <2>2, Zenon
  <1> QED
    BY <1>1, <1>6, <1>8, <1>9, NoRepetition, Zenon DEF IsInjective

(* The first k entries of a list.                                          *)
First(f, k) == {f[i] : i \in 1..k}

(* The first k entries of a list are k elements.                           *)
LEMMA FirstEntries ==
    ASSUME NEW S, IsFiniteSet(S), NEW f, Lists(f, S), NEW k \in 0..Cardinality(S)
    PROVE  /\ First(f, k) \subseteq S
           /\ Cardinality(First(f, k)) = k
           /\ k = Cardinality(S) => First(f, k) = S
  <1>1. PICK n \in Nat : n = Cardinality(S) /\ k \in 0..n
    BY FS_CardinalityType, Zenon
  <1>2. k \in Nat /\ \A i \in 1..k : i \in 1..n
    BY <1>1, SMT
  <1>3. /\ \A i \in 1..n : f[i] \in S
        /\ \A i, j \in 1..n : f[i] = f[j] => i = j
        /\ \A x \in S : \E i \in 1..n : f[i] = x
    BY <1>1, Zenon DEF Lists
  <1>4. PICK T : T = First(f, k) /\ T = {f[i] : i \in 1..k}
    BY Zenon DEF First
  <1>5. T \subseteq S
    <2>1. ASSUME NEW i \in 1..k PROVE f[i] \in S
      BY <1>2, <1>3, Zenon
    <2> QED
      BY <1>4, <2>1, Zenon
  <1>6. Cardinality(T) = k
    <2>1. PICK g : g = [i \in 1..k |-> f[i]]
      BY Zenon
    <2>2. g \in [1..k -> T] /\ \A i \in 1..k : g[i] = f[i]
      BY <1>4, <2>1, Zenon
    <2>3. g \in Injection(1..k, T)
      BY <1>2, <1>3, <2>2, Zenon DEF Injection, IsInjective
    <2>4. g \in Surjection(1..k, T)
      BY <1>4, <2>2, Zenon DEF Surjection
    <2>5. IsFiniteSet(1..k) /\ Cardinality(1..k) = k
      BY <1>2, UpTo, Zenon
    <2>6. Cardinality(T) = Cardinality(1..k)
      BY <2>3, <2>4, <2>5, FS_Surjection, Zenon
    <2> QED
      BY <2>5, <2>6, Zenon
  <1>7. ASSUME k = n PROVE T = S
    <2>1. ASSUME NEW x \in S PROVE x \in T
      <3>1. PICK i \in 1..n : f[i] = x
        BY <1>3, Zenon
      <3> QED
        BY <1>4, <1>7, <3>1, Zenon
    <2> QED
      BY <1>5, <2>1, Zenon
  <1> QED
    BY <1>1, <1>4, <1>5, <1>6, <1>7, Zenon

(* The least of some numbers is one of them.                               *)
LEMMA LeastOf ==
    ASSUME NEW S \in SUBSET Nat, S # {}
    PROVE  Min(S) \in S
  <1> DEFINE R == {ss \in Nat \X Nat : ss[1] < ss[2]}
  <1>1. R = OpToRel(<, Nat)
    BY Zenon DEF OpToRel
  <1>2. IsWellFoundedOn(R, Nat)
    BY <1>1, NatLessThanWellFounded, Zenon
  <1> HIDE DEF R
  <1>3. PICK x \in S : \A y \in S : ~(<<y, x>> \in R)
    BY <1>2, WFMin, Zenon
  <1>4. ASSUME NEW y \in S PROVE x <= y
    <2>1. y < x => <<y, x>> \in R
      BY Zenon DEF R
    <2>2. ~(y < x)
      BY <1>3, <2>1, Zenon
    <2> QED
      BY <2>2, SMT
  <1> QED
    BY <1>3, <1>4, Zenon DEF Min

(* What every state of a loop is made of.                                  *)
SelectionTypes ==
    /\ addressOf \in [Members -> Nat]
    /\ attemptSeed \in Int
    /\ attemptCounter \in Nat \ {0}
    /\ ready \in SUBSET Members

(* The ready members are finitely many, and so are their operators.        *)
LEMMA ReadyMembers ==
    ASSUME SelectionTypes
    PROVE  /\ IsFiniteSet(ready) /\ Cardinality(ready) \in Nat
           /\ operatorsOf(ready) \in SUBSET Nat /\ IsFiniteSet(operatorsOf(ready))
           /\ \A m \in ready : addressOf[m] \in operatorsOf(ready)
           /\ HonestThreshold \in Nat \ {0} /\ GroupQuorum \in Nat \ {0}
  <1>1. GroupSize \in Nat /\ HonestThreshold \in Nat \ {0} /\ GroupQuorum \in Nat \ {0}
    BY SelectionAssumption, Zenon
  <1>2. IsFiniteSet(Members)
    BY <1>1, UpTo, Zenon DEF Members
  <1>3. IsFiniteSet(ready) /\ Cardinality(ready) \in Nat
    BY <1>2, FS_Subset, FS_CardinalityType, Zenon DEF SelectionTypes
  <1>4. \A m \in ready : addressOf[m] \in Nat /\ addressOf[m] \in operatorsOf(ready)
    BY Zenon DEF SelectionTypes, operatorsOf
  <1>5. operatorsOf(ready) \in SUBSET Nat
    BY <1>4, Zenon DEF operatorsOf
  <1>6. PICK g : g = [m \in ready |-> addressOf[m]]
    BY Zenon
  <1>7. g \in [ready -> operatorsOf(ready)]
    BY <1>4, <1>6, Zenon
  <1>8. \A o \in operatorsOf(ready) : \E m \in ready : g[m] = o
    BY <1>6, Zenon DEF operatorsOf
  <1>9. g \in Surjection(ready, operatorsOf(ready))
    BY <1>7, <1>8, Zenon DEF Surjection
  <1>10. IsFiniteSet(operatorsOf(ready))
    BY <1>3, <1>9, FS_Surjection, Zenon
  <1> QED
    BY <1>1, <1>3, <1>4, <1>5, <1>10, Zenon

(* The operators qualified for a signing attempt have enough ready seats:  *)
(* the loop that accepts them never runs out of operators.                 *)
LEMMA QualifiedHaveSeats ==
    ASSUME ShufflesPermute, SelectionTypes, Cardinality(ready) >= HonestThreshold,
           NEW qualified, qualified = EvaluateRetryParticipantsForSigning(
                                          ready, attemptSeed, attemptCounter - 1, HonestThreshold)
    PROVE  Cardinality(seatsOf(ready, qualified)) >= HonestThreshold
  <1>1. PICK O \in SUBSET Nat : O = operatorsOf(ready) /\ IsFiniteSet(O) /\ \A m \in ready : addressOf[m] \in O
    BY ReadyMembers, Zenon
  <1>2. PICK s \in Int : s = attemptSeed + (attemptCounter - 1)
    <2>1. attemptSeed \in Int /\ attemptCounter \in Nat
      BY Zenon DEF SelectionTypes
    <2>2. attemptSeed + (attemptCounter - 1) \in Int
      BY <2>1, SMT
    <2> QED
      BY <2>2, Zenon
  <1>3. PICK ops : ops = shuffle(sorted(O), s)
    BY Zenon
  <1>4. Lists(ops, O)
    BY <1>1, <1>2, <1>3, SortedLists, ShuffledLists, Zenon
  <1>5. PICK n \in Nat : n = Cardinality(O) /\ n = Len(ops)
    <2>1. PICK n \in Nat : n = Cardinality(O)
      BY <1>1, FS_CardinalityType, Zenon
    <2>2. ops \in [1..n -> O]
      BY <1>4, <2>1, Zenon DEF Lists
    <2>3. n = Len(ops)
      BY <2>1, <2>2, SMT
    <2> QED
      BY <2>1, <2>3, Zenon
  <1> DEFINE N == {k \in 0..n : Cardinality(seatsOf(ready, First(ops, k))) >= HonestThreshold}
  <1>6. qualified = First(ops, Min(N))
    BY <1>1, <1>2, <1>3, <1>5, Zenon DEF EvaluateRetryParticipantsForSigning, First
  <1>7. n \in 0..n /\ 0..n \subseteq Nat
    BY <1>5, SMT
  <1>8. First(ops, n) = O
    <2>1. n \in 0..Cardinality(O)
      BY <1>5, <1>7, Zenon
    <2> QED
      BY <1>1, <1>4, <1>5, <2>1, FirstEntries, Zenon
  <1>9. seatsOf(ready, First(ops, n)) = ready
    BY <1>1, <1>8, Zenon DEF seatsOf
  <1>10. n \in N
    BY <1>7, <1>9, Zenon
  <1>11. N \in SUBSET Nat
    BY <1>7, Zenon
  <1>12. Min(N) \in N
    <2> HIDE DEF N
    <2> QED
      BY <1>10, <1>11, LeastOf, Zenon
  <1>13. Cardinality(seatsOf(ready, First(ops, Min(N)))) >= HonestThreshold
    BY <1>12, Zenon
  <1> QED
    BY <1>6, <1>13, Zenon

(* A signing attempt has exactly as many members as are needed to sign,    *)
(* and they are ready.                                                     *)
LEMMA SigningSelection ==
    ASSUME ShufflesPermute, SelectionTypes
    PROVE  SigningSelectionIsExact
  <1> SUFFICES ASSUME Cardinality(ready) >= HonestThreshold
               PROVE  signingMembers \subseteq ready /\ Cardinality(signingMembers) = HonestThreshold
    BY Zenon DEF SigningSelectionIsExact
  <1>1. PICK qualified : qualified = EvaluateRetryParticipantsForSigning(
                                         ready, attemptSeed, attemptCounter - 1, HonestThreshold)
    BY Zenon
  <1>2. PICK I : I = seatsOf(ready, qualified)
    BY Zenon
  <1>3. PICK t \in Nat : t = HonestThreshold
    BY ReadyMembers, Zenon
  <1>4. Cardinality(I) >= t
    BY <1>1, <1>2, <1>3, QualifiedHaveSeats, Zenon
  <1>5. I \subseteq ready /\ IsFiniteSet(I) /\ Cardinality(I) \in Nat /\ I \in SUBSET Nat
    <2>1. I \in SUBSET ready
      BY <1>2, Zenon DEF seatsOf
    <2>2. IsFiniteSet(I) /\ Cardinality(I) \in Nat
      BY <2>1, ReadyMembers, FS_Subset, FS_CardinalityType, Zenon
    <2>3. \A m \in Members : m \in Nat
      BY SelectionAssumption, SMT DEF Members
    <2> QED
      BY <2>1, <2>2, <2>3, Zenon DEF SelectionTypes
  <1>6. PICK s \in Int : s = attemptSeed + attemptCounter
    <2>1. attemptSeed \in Int /\ attemptCounter \in Nat
      BY Zenon DEF SelectionTypes
    <2>2. attemptSeed + attemptCounter \in Int
      BY <2>1, SMT
    <2> QED
      BY <2>2, Zenon
  <1>7. PICK f : f = shuffle(sorted(I), s)
    BY Zenon
  <1>8. signingMembers = IF Cardinality(I) <= t THEN I ELSE First(f, t)
    BY <1>1, <1>2, <1>3, <1>6, <1>7, Zenon DEF signingMembers, includedInSigning, seatsOf, First
  <1>9. CASE Cardinality(I) <= t
    <2>1. Cardinality(I) = t
      BY <1>3, <1>4, <1>5, <1>9, SMT
    <2> QED
      BY <1>3, <1>5, <1>8, <1>9, <2>1, Zenon
  <1>10. CASE ~ (Cardinality(I) <= t)
    <2>1. t \in 0..Cardinality(I)
      BY <1>3, <1>4, <1>5, <1>10, SMT
    <2>2. Lists(f, I)
      BY <1>5, <1>6, <1>7, SortedLists, ShuffledLists, Zenon
    <2>3. First(f, t) \subseteq I /\ Cardinality(First(f, t)) = t
      BY <1>5, <2>1, <2>2, FirstEntries, Zenon
    <2> QED
      BY <1>3, <1>5, <1>8, <1>10, <2>3, Zenon
  <1> QED
    BY <1>9, <1>10, Zenon

-----------------------------------------------------------------------------
(* Sets of two and of three elements.                                      *)
LEMMA TwoElements ==
    ASSUME NEW a, NEW b, a # b
    PROVE  IsFiniteSet({a, b}) /\ Cardinality({a, b}) = 2
  <1>1. IsFiniteSet({a}) /\ Cardinality({a}) = 1
    BY FS_Singleton, Zenon
  <1>2. /\ IsFiniteSet({a} \cup {b})
        /\ Cardinality({a} \cup {b}) = IF b \in {a} THEN Cardinality({a}) ELSE Cardinality({a}) + 1
    BY <1>1, FS_AddElement, Zenon
  <1>3. {a} \cup {b} = {a, b} /\ b \notin {a}
    BY Zenon
  <1>4. Cardinality({a} \cup {b}) = Cardinality({a}) + 1
    BY <1>2, <1>3, Zenon
  <1>5. Cardinality({a} \cup {b}) = 2
    BY <1>1, <1>4, SMT
  <1> QED
    BY <1>2, <1>3, <1>5, Zenon

(* Three different elements.                                               *)
LEMMA ThreeElements ==
    ASSUME NEW a, NEW b, NEW c, a # b, a # c, b # c
    PROVE  Cardinality({a, b, c}) = 3
  <1>1. PICK T : T = {a, b} /\ IsFiniteSet(T) /\ Cardinality(T) = 2
    BY TwoElements, Zenon
  <1>2. Cardinality(T \cup {c}) = IF c \in T THEN Cardinality(T) ELSE Cardinality(T) + 1
    BY <1>1, FS_AddElement, Zenon
  <1>3. T \cup {c} = {a, b, c} /\ c \notin T
    BY <1>1, Zenon
  <1>4. Cardinality(T \cup {c}) = Cardinality(T) + 1
    BY <1>2, <1>3, Zenon
  <1>5. Cardinality(T \cup {c}) = 3
    BY <1>1, <1>4, SMT
  <1> QED
    BY <1>3, <1>5, Zenon

(* A set of two elements.                                                  *)
LEMMA PairOf ==
    ASSUME NEW P, IsFiniteSet(P), Cardinality(P) = 2
    PROVE  \E a, b \in P : a # b /\ P = {a, b}
  <1>1. PICK a : a \in P
    <2>1. 2 # 0
      BY SMT
    <2> QED
      BY <2>1, FS_EmptySet, Zenon
  <1>2. IsFiniteSet(P \ {a}) /\ Cardinality(P \ {a}) = IF a \in P THEN Cardinality(P) - 1 ELSE Cardinality(P)
    BY FS_RemoveElement, Zenon
  <1>3. Cardinality(P \ {a}) = Cardinality(P) - 1
    BY <1>1, <1>2, Zenon
  <1>4. Cardinality(P \ {a}) = 1
    BY <1>3, SMT
  <1>5. PICK b : P \ {a} = {b}
    BY <1>2, <1>4, FS_Singleton, Zenon
  <1>6. b \in P /\ a # b
    BY <1>5, Zenon
  <1>7. P = {a, b}
    BY <1>1, <1>5, Zenon
  <1> QED
    BY <1>1, <1>6, <1>7, Zenon

(* The seats that are left without one operator, and without two.          *)
LEMMA SeatsLeft ==
    ASSUME SelectionTypes
    PROVE  /\ \A a : seatCount(ready, a) \in Nat
           /\ \A a : Cardinality(ready \ seatsOf(ready, {a})) = Cardinality(ready) - seatCount(ready, a)
           /\ \A a, b : a # b => Cardinality(ready \ seatsOf(ready, {a, b}))
                                     = Cardinality(ready) - seatCount(ready, a) - seatCount(ready, b)
  <1>1. IsFiniteSet(ready) /\ Cardinality(ready) \in Nat
    BY ReadyMembers, Zenon
  <1>2. ASSUME NEW X PROVE /\ seatsOf(ready, X) \in SUBSET ready /\ IsFiniteSet(seatsOf(ready, X))
                           /\ Cardinality(seatsOf(ready, X)) \in Nat
                           /\ Cardinality(ready \ seatsOf(ready, X)) = Cardinality(ready) - Cardinality(seatsOf(ready, X))
    <2>1. seatsOf(ready, X) \in SUBSET ready
      BY Zenon DEF seatsOf
    <2>2. IsFiniteSet(seatsOf(ready, X)) /\ Cardinality(seatsOf(ready, X)) \in Nat
      BY <1>1, <2>1, FS_Subset, FS_CardinalityType, Zenon
    <2>3. ready \cap seatsOf(ready, X) = seatsOf(ready, X)
      BY <2>1, Zenon
    <2>4. Cardinality(ready \ seatsOf(ready, X)) = Cardinality(ready) - Cardinality(ready \cap seatsOf(ready, X))
      BY <1>1, FS_Difference, Zenon
    <2> QED
      BY <2>1, <2>2, <2>3, <2>4, Zenon
  <1>3. ASSUME NEW a PROVE seatCount(ready, a) = Cardinality(seatsOf(ready, {a}))
    <2>1. {m \in ready : addressOf[m] = a} = seatsOf(ready, {a})
      BY Zenon DEF seatsOf
    <2> QED
      BY <2>1, Zenon DEF seatCount
  <1>4. ASSUME NEW a, NEW b, a # b
        PROVE  Cardinality(ready \ seatsOf(ready, {a, b}))
                   = Cardinality(ready) - seatCount(ready, a) - seatCount(ready, b)
    <2>1. PICK A : A = seatsOf(ready, {a})
      BY Zenon
    <2>2. PICK B : B = seatsOf(ready, {b})
      BY Zenon
    <2>3. A \cap B = {} /\ A \cup B = seatsOf(ready, {a, b})
      BY <1>4, <2>1, <2>2, Zenon DEF seatsOf
    <2>4. IsFiniteSet(A) /\ IsFiniteSet(B) /\ Cardinality(A) \in Nat /\ Cardinality(B) \in Nat
      BY <1>2, <2>1, <2>2, Zenon
    <2>5. Cardinality(A \cup B) = Cardinality(A) + Cardinality(B) - Cardinality(A \cap B)
      BY <2>4, FS_Union, Zenon
    <2>6. Cardinality(A \cap B) = 0
      BY <2>3, FS_EmptySet, Zenon
    <2>7. Cardinality(A \cup B) = Cardinality(A) + Cardinality(B)
      BY <2>4, <2>5, <2>6, SMT
    <2>8. Cardinality(ready \ seatsOf(ready, {a, b})) = Cardinality(ready) - Cardinality(A \cup B)
      BY <1>2, <2>3, Zenon
    <2>9. seatCount(ready, a) = Cardinality(A) /\ seatCount(ready, b) = Cardinality(B)
      BY <1>3, <2>1, <2>2, Zenon
    <2> QED
      BY <1>1, <2>4, <2>7, <2>8, <2>9, SMT
  <1>5. \A a : seatCount(ready, a) \in Nat
    BY <1>2, <1>3, Zenon
  <1>6. \A a : Cardinality(ready \ seatsOf(ready, {a})) = Cardinality(ready) - seatCount(ready, a)
    BY <1>2, <1>3, Zenon
  <1> QED
    BY <1>4, <1>5, <1>6, Zenon

(* The operators that may be left out alone.                               *)
Eligible == {o \in operatorsOf(ready) : Cardinality(ready) >= GroupQuorum + seatCount(ready, o)}

(* Two operators that may be left out together.                            *)
Spared(a, b) == Cardinality(ready) >= GroupQuorum + seatCount(ready, a) + seatCount(ready, b)

Ones == singles(ready, GroupQuorum)
Twos == pairs(ready, GroupQuorum)
Threes == triplets(ready, GroupQuorum)

(* A list of the n eligible operators, the one the three searches start from. *)
ListsEligible(ops, n) ==
    /\ ops = eligibleOperators(ready, GroupQuorum)
    /\ Len(ops) = n /\ DOMAIN ops = 1..n
    /\ \A i \in 1..n : ops[i] \in Eligible
    /\ \A i, j \in 1..n : ops[i] = ops[j] => i = j
    /\ \A o \in Eligible : \E i \in 1..n : ops[i] = o

(* The list exists.                                                        *)
LEMMA EligibleListed ==
    ASSUME SelectionTypes
    PROVE  /\ \E n \in Nat : \E ops : ListsEligible(ops, n)
           /\ IsFiniteSet(Eligible) /\ Eligible \subseteq operatorsOf(ready)
  <1>1. Eligible \in SUBSET operatorsOf(ready)
    BY Zenon DEF Eligible
  <1>2. Eligible \in SUBSET Nat /\ IsFiniteSet(Eligible)
    BY <1>1, ReadyMembers, FS_Subset, Zenon
  <1>3. PICK n \in Nat : n = Cardinality(Eligible)
    BY <1>2, FS_CardinalityType, Zenon
  <1>4. PICK ops : ops = sorted(Eligible)
    BY Zenon
  <1>5. ops = eligibleOperators(ready, GroupQuorum)
    BY <1>4, Zenon DEF eligibleOperators, Eligible
  <1>6. /\ ops \in [1..n -> Eligible]
        /\ \A i, j \in 1..n : ops[i] = ops[j] => i = j
        /\ \A o \in Eligible : \E i \in 1..n : ops[i] = o
    BY <1>2, <1>3, <1>4, SortedLists, Zenon DEF Lists
  <1>7. Len(ops) = n
    BY <1>3, <1>6, SMT
  <1>8. DOMAIN ops = 1..n /\ \A i \in 1..n : ops[i] \in Eligible
    BY <1>6, Zenon
  <1>9. ListsEligible(ops, n)
    BY <1>5, <1>6, <1>7, <1>8, Zenon DEF ListsEligible
  <1>10. \E m \in Nat : \E l : ListsEligible(l, m)
    BY <1>9, Zenon
  <1> QED
    BY <1>1, <1>2, <1>10, Zenon

(* The singles are the sets of one eligible operator.                      *)
LEMMA OnesAre ==
    ASSUME SelectionTypes
    PROVE  /\ IsFiniteSet(Ones)
           /\ \A X : X \in Ones <=> \E o \in Eligible : X = {o}
  <1>1. PICK n \in Nat : \E ops : ListsEligible(ops, n)
    BY EligibleListed, Zenon
  <1>2. PICK ops : ListsEligible(ops, n)
    BY <1>1, Zenon
  <1>3. ToSet(ops) = Eligible
    <2>1. DOMAIN ops = 1..n /\ \A i \in 1..n : ops[i] \in Eligible
      BY <1>2, Zenon DEF ListsEligible
    <2>2. \A o \in Eligible : \E i \in 1..n : ops[i] = o
      BY <1>2, Zenon DEF ListsEligible
    <2>3. ToSet(ops) = {ops[i] : i \in 1..n}
      BY <2>1, Zenon DEF ToSet
    <2> QED
      BY <2>1, <2>2, <2>3, Zenon
  <1>4. \A X : X \in Ones <=> \E o \in Eligible : X = {o}
    BY <1>2, <1>3, Zenon DEF Ones, singles, ListsEligible
  <1>5. Ones \in SUBSET (SUBSET Eligible)
    <2>1. SUFFICES ASSUME NEW X \in Ones PROVE X \in SUBSET Eligible
      BY Zenon
    <2>2. PICK o \in Eligible : X = {o}
      BY <1>4, <2>1, Zenon
    <2> QED
      BY <2>2, Zenon
  <1>6. IsFiniteSet(SUBSET Eligible)
    BY EligibleListed, FS_SUBSET, Zenon
  <1>7. IsFiniteSet(Ones)
    BY <1>5, <1>6, FS_Subset, Zenon
  <1> QED
    BY <1>4, <1>7, Zenon

(* The pairs are the sets of two operators whose seats can be spared: that *)
(* each of them is eligible follows.                                       *)
LEMMA TwosAre ==
    ASSUME SelectionTypes
    PROVE  /\ IsFiniteSet(Twos)
           /\ \A X : X \in Twos <=> \E a, b \in Eligible : a # b /\ X = {a, b} /\ Spared(a, b)
  <1>1. PICK n \in Nat : \E ops : ListsEligible(ops, n)
    BY EligibleListed, Zenon
  <1>2. PICK ops : ListsEligible(ops, n)
    BY <1>1, Zenon
  <1>3. Twos = {{ops[p[1]], ops[p[2]]} :
                   p \in {q \in (1..n) \X (1..n) : q[1] < q[2] /\ Spared(ops[q[1]], ops[q[2]])}}
    <2>1. ops = eligibleOperators(ready, GroupQuorum) /\ Len(ops) = n
      BY <1>2, Zenon DEF ListsEligible
    <2> QED
      BY <2>1 DEF Twos, pairs, Spared
  <1>4. ASSUME NEW X \in Twos
        PROVE  \E a, b \in Eligible : a # b /\ X = {a, b} /\ Spared(a, b)
    <2>1. PICK p \in (1..n) \X (1..n) :
              p[1] < p[2] /\ Spared(ops[p[1]], ops[p[2]]) /\ X = {ops[p[1]], ops[p[2]]}
      BY <1>3, <1>4, Zenon
    <2>2. PICK i \in 1..n, j \in 1..n : i = p[1] /\ j = p[2]
      BY <2>1, Zenon
    <2>3. i # j
      BY <1>1, <2>1, <2>2, SMT
    <2> QED
      BY <1>2, <2>1, <2>2, <2>3, Zenon DEF ListsEligible
  <1>5. ASSUME NEW i \in 1..n, NEW j \in 1..n, i < j, Spared(ops[i], ops[j])
        PROVE  {ops[i], ops[j]} \in Twos
    <2>1. PICK p : p = <<i, j>>
      BY Zenon
    <2>2. p \in (1..n) \X (1..n) /\ p[1] = i /\ p[2] = j
      BY <2>1, Zenon
    <2> QED
      BY <1>3, <1>5, <2>2, Zenon
  <1>6. ASSUME NEW a \in Eligible, NEW b \in Eligible, a # b, Spared(a, b)
        PROVE  {a, b} \in Twos
    <2>a. \A o \in Eligible : \E i \in 1..n : ops[i] = o
      BY <1>2, Zenon DEF ListsEligible
    <2>b. PICK i \in 1..n : ops[i] = a
      BY <2>a, Zenon
    <2>1. PICK j \in 1..n : ops[j] = b
      BY <2>a, Zenon
    <2>2. i # j
      BY <1>6, <2>b, <2>1, Zenon
    <2>3. i < j \/ j < i
      BY <1>1, <2>2, SMT
    <2>4. {a, b} = {b, a} /\ Spared(b, a)
      <3>1. seatCount(ready, a) \in Nat /\ seatCount(ready, b) \in Nat /\ GroupQuorum \in Nat
        BY SeatsLeft, ReadyMembers, Zenon
      <3>2. GroupQuorum + seatCount(ready, a) + seatCount(ready, b)
               = GroupQuorum + seatCount(ready, b) + seatCount(ready, a)
        BY <3>1, SMT
      <3>3. Spared(b, a)
        BY <1>6, <3>2, Zenon DEF Spared
      <3> QED
        BY <3>3, Zenon
    <2> QED
      BY <1>5, <1>6, <2>b, <2>1, <2>3, <2>4, Zenon
  <1>7. Twos \in SUBSET (SUBSET Eligible)
    <2>1. SUFFICES ASSUME NEW X \in Twos PROVE X \in SUBSET Eligible
      BY Zenon
    <2> QED
      BY <1>4, Zenon
  <1>8. IsFiniteSet(SUBSET Eligible)
    BY EligibleListed, FS_SUBSET, Zenon
  <1>9. IsFiniteSet(Twos)
    BY <1>7, <1>8, FS_Subset, Zenon
  <1>10. ASSUME NEW X
         PROVE  X \in Twos <=> \E a, b \in Eligible : a # b /\ X = {a, b} /\ Spared(a, b)
    <2>1. ASSUME NEW a \in Eligible, NEW b \in Eligible, a # b, X = {a, b}, Spared(a, b)
          PROVE  X \in Twos
      BY <1>6, <2>1, Zenon
    <2> QED
      BY <1>4, <2>1, Zenon
  <1> QED
    BY <1>9, <1>10, Zenon

(* The triplets are sets of three operators.                               *)
LEMMA ThreesAre ==
    ASSUME SelectionTypes
    PROVE  IsFiniteSet(Threes) /\ \A X \in Threes : Cardinality(X) = 3
  <1>1. PICK n \in Nat : \E ops : ListsEligible(ops, n)
    BY EligibleListed, Zenon
  <1>2. PICK ops : ListsEligible(ops, n)
    BY <1>1, Zenon
  <1>3. ASSUME NEW X \in Threes
        PROVE  \E i, j, k \in 1..n : i < j /\ j < k /\ X = {ops[i], ops[j], ops[k]}
    <2>1. PICK t \in (1..n) \X (1..n) \X (1..n) :
              t[1] < t[2] /\ t[2] < t[3] /\ X = {ops[t[1]], ops[t[2]], ops[t[3]]}
      BY <1>2, <1>3, Zenon DEF Threes, triplets, ListsEligible
    <2>2. t[1] \in 1..n /\ t[2] \in 1..n /\ t[3] \in 1..n
      BY <2>1, SMT
    <2> QED
      BY <2>1, <2>2, Zenon
  <1>4. ASSUME NEW X \in Threes PROVE Cardinality(X) = 3 /\ X \in SUBSET Eligible
    <2>1. PICK i \in 1..n, j \in 1..n, k \in 1..n : i < j /\ j < k /\ X = {ops[i], ops[j], ops[k]}
      BY <1>3, <1>4, Zenon
    <2>2. i # j /\ i # k /\ j # k
      BY <1>1, <2>1, SMT
    <2>3. ops[i] # ops[j] /\ ops[i] # ops[k] /\ ops[j] # ops[k]
      BY <1>2, <2>2, Zenon DEF ListsEligible
    <2>4. Cardinality(X) = 3
      BY <2>1, <2>3, ThreeElements, Zenon
    <2> QED
      <3>1. ops[i] \in Eligible /\ ops[j] \in Eligible /\ ops[k] \in Eligible
        BY <1>2, <2>1, Zenon DEF ListsEligible
      <3> QED
        BY <2>1, <2>4, <3>1, Zenon
  <1>5. Threes \in SUBSET (SUBSET Eligible)
    BY <1>4, Zenon
  <1>6. IsFiniteSet(SUBSET Eligible)
    BY EligibleListed, FS_SUBSET, Zenon
  <1>7. IsFiniteSet(Threes)
    BY <1>5, <1>6, FS_Subset, Zenon
  <1> QED
    BY <1>4, <1>7, Zenon

(* A list of n entries, the elements of S, each once.                      *)
ListOf(g, n, S) ==
    /\ \A i \in 1..n : g[i] \in S
    /\ \A i, j \in 1..n : g[i] = g[j] => i = j
    /\ \A x \in S : \E i \in 1..n : g[i] = x

(* The shuffled list of a finite set.                                      *)
LEMMA ShuffledSet ==
    ASSUME ShufflesPermute, SelectionTypes, NEW S, IsFiniteSet(S)
    PROVE  \E n \in Nat : /\ Len(SetToSeq(S)) = n
                          /\ ListOf(shuffle(SetToSeq(S), attemptSeed), n, S)
  <1>1. PICK n \in Nat : n = Cardinality(S)
    BY FS_CardinalityType, Zenon
  <1>2. PICK f : f = SetToSeq(S)
    BY Zenon
  <1>3. Lists(f, S)
    BY <1>2, SetToSeqLists, Zenon
  <1>4. f \in [1..n -> S]
    BY <1>1, <1>3, Zenon DEF Lists
  <1>5. Len(f) = n
    BY <1>1, <1>4, SMT
  <1>6. attemptSeed \in Int
    BY Zenon DEF SelectionTypes
  <1>7. PICK g : g = shuffle(f, attemptSeed)
    BY Zenon
  <1>8. Lists(g, S)
    BY <1>3, <1>6, <1>7, ShuffledLists, Zenon
  <1>9. ListOf(g, n, S)
    BY <1>1, <1>8, Zenon DEF Lists, ListOf
  <1> QED
    BY <1>2, <1>5, <1>7, <1>9, Zenon

(* What the attempts leave out: the entries of g1, then those of g2, then  *)
(* those of g3, then nothing.                                              *)
LeftOutInTurn(g1, n1, g2, n2, g3, n3) ==
    /\ ListOf(g1, n1, Ones) /\ ListOf(g2, n2, Twos) /\ ListOf(g3, n3, Threes)
    /\ \A k \in Nat : k >= 2 =>
          /\ k =< n1 => leftOut(ready, k) = g1[k]
          /\ k > n1 /\ k =< n1 + n2 => leftOut(ready, k) = g2[k - n1]
          /\ k > n1 + n2 /\ k =< n1 + n2 + n3 => leftOut(ready, k) = g3[k - (n1 + n2)]
          /\ k > n1 + n2 + n3 => leftOut(ready, k) = {}

(* The lists of EvaluateRetryParticipantsForKeyGeneration.                 *)
LEMMA Turns ==
    ASSUME ShufflesPermute, SelectionTypes
    PROVE  \E n1, n2, n3 \in Nat : \E g1, g2, g3 : LeftOutInTurn(g1, n1, g2, n2, g3, n3)
  <1>1. PICK n1 \in Nat : /\ Len(SetToSeq(Ones)) = n1
                          /\ ListOf(shuffle(SetToSeq(Ones), attemptSeed), n1, Ones)
    BY OnesAre, ShuffledSet, Zenon
  <1>2. PICK n2 \in Nat : /\ Len(SetToSeq(Twos)) = n2
                          /\ ListOf(shuffle(SetToSeq(Twos), attemptSeed), n2, Twos)
    BY TwosAre, ShuffledSet, Zenon
  <1>3. PICK n3 \in Nat : /\ Len(SetToSeq(Threes)) = n3
                          /\ ListOf(shuffle(SetToSeq(Threes), attemptSeed), n3, Threes)
    BY ThreesAre, ShuffledSet, Zenon
  <1>4. PICK g1 : g1 = shuffle(SetToSeq(Ones), attemptSeed)
    BY Zenon
  <1>5. PICK g2 : g2 = shuffle(SetToSeq(Twos), attemptSeed)
    BY Zenon
  <1>6. PICK g3 : g3 = shuffle(SetToSeq(Threes), attemptSeed)
    BY Zenon
  <1>7. ASSUME NEW r
        PROVE  EvaluateRetryParticipantsForKeyGeneration(ready, attemptSeed, r, GroupQuorum) =
                  IF r < n1 THEN g1[r + 1]
                  ELSE IF r - n1 < n2 THEN g2[r - n1 + 1]
                  ELSE IF r - n1 - n2 < n3 THEN g3[r - n1 - n2 + 1]
                  ELSE {}
    BY <1>1, <1>2, <1>3, <1>4, <1>5, <1>6, Zenon
       DEF EvaluateRetryParticipantsForKeyGeneration, Ones, Twos, Threes
  <1>8. ASSUME NEW k \in Nat, k >= 2
        PROVE  /\ k =< n1 => leftOut(ready, k) = g1[k]
               /\ k > n1 /\ k =< n1 + n2 => leftOut(ready, k) = g2[k - n1]
               /\ k > n1 + n2 /\ k =< n1 + n2 + n3 => leftOut(ready, k) = g3[k - (n1 + n2)]
               /\ k > n1 + n2 + n3 => leftOut(ready, k) = {}
    <2>1. PICK r \in Nat : r = k - 1 /\ k # 1
      BY <1>8, SMT
    <2>2. leftOut(ready, k) = EvaluateRetryParticipantsForKeyGeneration(ready, attemptSeed, r, GroupQuorum)
      BY <2>1, Zenon DEF leftOut
    <2>3. leftOut(ready, k) = IF r < n1 THEN g1[r + 1]
                              ELSE IF r - n1 < n2 THEN g2[r - n1 + 1]
                              ELSE IF r - n1 - n2 < n3 THEN g3[r - n1 - n2 + 1]
                              ELSE {}
      BY <1>7, <2>2, Zenon
    <2>4. r + 1 = k /\ r - n1 + 1 = k - n1 /\ r - n1 - n2 + 1 = k - (n1 + n2)
      BY <2>1, SMT
    <2>5. ASSUME k =< n1 PROVE leftOut(ready, k) = g1[k]
      <3>1. r < n1
        BY <2>1, <2>5, SMT
      <3> QED
        BY <2>3, <2>4, <3>1, Zenon
    <2>6. ASSUME k > n1, k =< n1 + n2 PROVE leftOut(ready, k) = g2[k - n1]
      <3>1. ~ (r < n1) /\ r - n1 < n2
        BY <2>1, <2>6, SMT
      <3> QED
        BY <2>3, <2>4, <3>1, Zenon
    <2>7. ASSUME k > n1 + n2, k =< n1 + n2 + n3 PROVE leftOut(ready, k) = g3[k - (n1 + n2)]
      <3>1. ~ (r < n1) /\ ~ (r - n1 < n2) /\ r - n1 - n2 < n3
        BY <2>1, <2>7, SMT
      <3> QED
        BY <2>3, <2>4, <3>1, Zenon
    <2>8. ASSUME k > n1 + n2 + n3 PROVE leftOut(ready, k) = {}
      <3>1. ~ (r < n1) /\ ~ (r - n1 < n2) /\ ~ (r - n1 - n2 < n3)
        BY <2>1, <2>8, SMT
      <3> QED
        BY <2>3, <3>1, Zenon
    <2> QED
      BY <2>5, <2>6, <2>7, <2>8, Zenon
  <1>9. LeftOutInTurn(g1, n1, g2, n2, g3, n3)
    <2>1. ListOf(g1, n1, Ones) /\ ListOf(g2, n2, Twos) /\ ListOf(g3, n3, Threes)
      BY <1>1, <1>2, <1>3, <1>4, <1>5, <1>6, Zenon
    <2> QED
      BY <1>8, <2>1, Zenon DEF LeftOutInTurn
  <1> QED
    BY <1>9, Zenon

(* How many operators the sets of each list hold.                          *)
LEMMA Sizes ==
    ASSUME SelectionTypes
    PROVE  /\ \A X \in Ones : Cardinality(X) = 1
           /\ \A X \in Twos : Cardinality(X) = 2
           /\ \A X \in Threes : Cardinality(X) = 3
  <1>1. ASSUME NEW X \in Ones PROVE Cardinality(X) = 1
    <2>1. PICK o : X = {o}
      BY <1>1, OnesAre, Zenon
    <2> QED
      BY <2>1, FS_Singleton, Zenon
  <1>2. ASSUME NEW X \in Twos PROVE Cardinality(X) = 2
    <2>1. PICK a \in Eligible, b \in Eligible : a # b /\ X = {a, b}
      BY <1>2, TwosAre, Zenon
    <2> QED
      BY <2>1, TwoElements, Zenon
  <1> QED
    BY <1>1, <1>2, ThreesAre, Zenon

(* What attempt k leaves out, by the list k falls in.                      *)
TurnIs(k, g1, n1, g2, n2, g3, n3) ==
    /\ k =< n1 => /\ k \in 1..n1 /\ leftOut(ready, k) = g1[k]
                  /\ leftOut(ready, k) \in Ones /\ Cardinality(leftOut(ready, k)) = 1
    /\ k > n1 /\ k =< n1 + n2 =>
                  /\ k - n1 \in 1..n2 /\ leftOut(ready, k) = g2[k - n1]
                  /\ leftOut(ready, k) \in Twos /\ Cardinality(leftOut(ready, k)) = 2
    /\ k > n1 + n2 /\ k =< n1 + n2 + n3 =>
                  /\ k - (n1 + n2) \in 1..n3 /\ leftOut(ready, k) = g3[k - (n1 + n2)]
                  /\ Cardinality(leftOut(ready, k)) = 3
    /\ k > n1 + n2 + n3 => leftOut(ready, k) = {} /\ Cardinality(leftOut(ready, k)) = 0

(* It is an entry of that list, with the number of operators of the list.  *)
LEMMA TurnOf ==
    ASSUME SelectionTypes, NEW n1 \in Nat, NEW n2 \in Nat, NEW n3 \in Nat, NEW g1, NEW g2, NEW g3,
           LeftOutInTurn(g1, n1, g2, n2, g3, n3), NEW k \in Nat, k >= 2
    PROVE  TurnIs(k, g1, n1, g2, n2, g3, n3)
  <1>1. ASSUME k =< n1
        PROVE  /\ k \in 1..n1 /\ leftOut(ready, k) = g1[k]
               /\ leftOut(ready, k) \in Ones /\ Cardinality(leftOut(ready, k)) = 1
    <2>1. k \in 1..n1
      BY <1>1, SMT
    <2>2. leftOut(ready, k) = g1[k] /\ g1[k] \in Ones
      BY <1>1, <2>1, Zenon DEF LeftOutInTurn, ListOf
    <2> QED
      BY <2>1, <2>2, Sizes, Zenon
  <1>2. ASSUME k > n1, k =< n1 + n2
        PROVE  /\ k - n1 \in 1..n2 /\ leftOut(ready, k) = g2[k - n1]
               /\ leftOut(ready, k) \in Twos /\ Cardinality(leftOut(ready, k)) = 2
    <2>1. k - n1 \in 1..n2
      BY <1>2, SMT
    <2>2. leftOut(ready, k) = g2[k - n1] /\ g2[k - n1] \in Twos
      BY <1>2, <2>1, Zenon DEF LeftOutInTurn, ListOf
    <2> QED
      BY <2>1, <2>2, Sizes, Zenon
  <1>3. ASSUME k > n1 + n2, k =< n1 + n2 + n3
        PROVE  /\ k - (n1 + n2) \in 1..n3 /\ leftOut(ready, k) = g3[k - (n1 + n2)]
               /\ Cardinality(leftOut(ready, k)) = 3
    <2>1. k - (n1 + n2) \in 1..n3
      BY <1>3, SMT
    <2>2. leftOut(ready, k) = g3[k - (n1 + n2)] /\ g3[k - (n1 + n2)] \in Threes
      BY <1>3, <2>1, Zenon DEF LeftOutInTurn, ListOf
    <2> QED
      BY <2>1, <2>2, Sizes, Zenon
  <1>4. ASSUME k > n1 + n2 + n3
        PROVE  leftOut(ready, k) = {} /\ Cardinality(leftOut(ready, k)) = 0
    BY <1>4, FS_EmptySet, Zenon DEF LeftOutInTurn
  <1> QED
    BY <1>1, <1>2, <1>3, <1>4, Zenon DEF TurnIs

(* Who stays when operators are left out.                                  *)
LEMMA Staying ==
    keyGenerationMembers = ready \ seatsOf(ready, leftOut(ready, attemptCounter))
  BY Zenon DEF keyGenerationMembers, seatsOf

(* Singles and pairs leave a quorum, because the searches count the seats  *)
(* that remain.                                                            *)
LEMMA SmallExclusions ==
    ASSUME ShufflesPermute, SelectionTypes
    PROVE  SmallExclusionsKeepQuorum
  <1> SUFFICES ASSUME enoughReady, ~ selectionFails(ready, attemptCounter),
                      Cardinality(leftOut(ready, attemptCounter)) =< 2
               PROVE  Cardinality(keyGenerationMembers) >= GroupQuorum
    BY Zenon DEF SmallExclusionsKeepQuorum
  <1>1. PICK c \in Nat : c = attemptCounter /\ c >= 1
    BY SMT DEF SelectionTypes
  <1>2. PICK X : X = leftOut(ready, c)
    BY Zenon
  <1>3. keyGenerationMembers = ready \ seatsOf(ready, X)
    BY <1>1, <1>2, Staying, Zenon
  <1>4. CASE c = 1
    <2>1. X = {}
      BY <1>2, <1>4, Zenon DEF leftOut
    <2>2. ready \ seatsOf(ready, X) = ready
      BY <2>1, Zenon DEF seatsOf
    <2> QED
      BY <1>3, <2>2, Zenon DEF enoughReady
  <1>5. CASE c # 1
    <2>1. c >= 2 /\ c > 1
      BY <1>1, <1>5, SMT
    <2>2. PICK n1 \in Nat, n2 \in Nat, n3 \in Nat : \E g1, g2, g3 : LeftOutInTurn(g1, n1, g2, n2, g3, n3)
      BY Turns, Zenon
    <2>3. PICK g1, g2, g3 : LeftOutInTurn(g1, n1, g2, n2, g3, n3)
      BY <2>2, Zenon
    <2>4. X # {}
      BY <1>1, <1>2, <2>1, Zenon DEF selectionFails
    <2>5. Cardinality(X) # 3
      BY <1>1, <1>2, SMT
    <2>6. \/ c =< n1 \/ (c > n1 /\ c =< n1 + n2)
          \/ (c > n1 + n2 /\ c =< n1 + n2 + n3) \/ c > n1 + n2 + n3
      BY <1>1, <2>2, SMT
    <2>7. X \in Ones \/ X \in Twos
      <3>1. TurnIs(c, g1, n1, g2, n2, g3, n3)
        BY <1>1, <2>1, <2>2, <2>3, TurnOf, Zenon
      <3> QED
        BY <1>2, <2>4, <2>5, <2>6, <3>1, Zenon DEF TurnIs
    <2>8. Cardinality(ready) \in Nat /\ GroupQuorum \in Nat
      BY ReadyMembers, Zenon
    <2>9. CASE X \in Ones
      <3>1. PICK o \in Eligible : X = {o}
        BY <2>9, OnesAre, Zenon
      <3>2. Cardinality(ready) >= GroupQuorum + seatCount(ready, o)
        BY <3>1, Zenon DEF Eligible
      <3>3. /\ seatCount(ready, o) \in Nat
            /\ Cardinality(ready \ seatsOf(ready, X)) = Cardinality(ready) - seatCount(ready, o)
        BY <3>1, SeatsLeft, Zenon
      <3>4. Cardinality(ready \ seatsOf(ready, X)) >= GroupQuorum
        BY <2>8, <3>2, <3>3, SMT
      <3> QED
        BY <1>3, <3>4, Zenon
    <2>10. CASE X \in Twos
      <3>1. PICK a \in Eligible, b \in Eligible : a # b /\ X = {a, b} /\ Spared(a, b)
        BY <2>10, TwosAre, Zenon
      <3>2. Cardinality(ready) >= GroupQuorum + seatCount(ready, a) + seatCount(ready, b)
        BY <3>1, Zenon DEF Spared
      <3>3. /\ seatCount(ready, a) \in Nat /\ seatCount(ready, b) \in Nat
            /\ Cardinality(ready \ seatsOf(ready, X))
                  = Cardinality(ready) - seatCount(ready, a) - seatCount(ready, b)
        BY <3>1, SeatsLeft, Zenon
      <3>4. Cardinality(ready \ seatsOf(ready, X)) >= GroupQuorum
        BY <2>8, <3>2, <3>3, SMT
      <3> QED
        BY <1>3, <3>4, Zenon
    <2> QED
      BY <2>7, <2>9, <2>10, Zenon
  <1> QED
    BY <1>4, <1>5, Zenon

(* Two attempts leave out different sets, the later one no smaller.        *)
LEMMA NoTurnTwice ==
    ASSUME ShufflesPermute, SelectionTypes,
           NEW a \in Nat, NEW b \in Nat, a >= 2, a < b, leftOut(ready, b) # {}
    PROVE  /\ leftOut(ready, a) # leftOut(ready, b)
           /\ Cardinality(leftOut(ready, a)) =< Cardinality(leftOut(ready, b))
  <1>1. PICK n1 \in Nat, n2 \in Nat, n3 \in Nat : \E g1, g2, g3 : LeftOutInTurn(g1, n1, g2, n2, g3, n3)
    BY Turns, Zenon
  <1>2. PICK g1, g2, g3 : LeftOutInTurn(g1, n1, g2, n2, g3, n3)
    BY <1>1, Zenon
  <1>3. b >= 2
    BY SMT
  <1>4. PICK X : X = leftOut(ready, a)
    BY Zenon
  <1>5. PICK Y : Y = leftOut(ready, b)
    BY Zenon
  <1> DEFINE m == n1 + n2
  <1>6. m \in Nat
    BY <1>1, SMT
  <1>7. /\ a =< n1 => a \in 1..n1 /\ X = g1[a] /\ Cardinality(X) = 1
        /\ a > n1 /\ a =< m => a - n1 \in 1..n2 /\ X = g2[a - n1] /\ Cardinality(X) = 2
        /\ a > m /\ a =< m + n3 => a - m \in 1..n3 /\ X = g3[a - m] /\ Cardinality(X) = 3
    <2>1. TurnIs(a, g1, n1, g2, n2, g3, n3)
      BY <1>1, <1>2, TurnOf, Zenon
    <2> QED
      BY <1>4, <2>1, Zenon DEF TurnIs
  <1>8. /\ b =< n1 => b \in 1..n1 /\ Y = g1[b] /\ Cardinality(Y) = 1
        /\ b > n1 /\ b =< m => b - n1 \in 1..n2 /\ Y = g2[b - n1] /\ Cardinality(Y) = 2
        /\ b > m /\ b =< m + n3 => b - m \in 1..n3 /\ Y = g3[b - m] /\ Cardinality(Y) = 3
        /\ ~ (b > m + n3)
    <2>1. TurnIs(b, g1, n1, g2, n2, g3, n3)
      BY <1>1, <1>2, <1>3, TurnOf, Zenon
    <2> QED
      BY <1>5, <2>1, Zenon DEF TurnIs
  <1>9. CASE b =< n1
    <2>1. a =< n1 /\ a # b
      BY <1>1, <1>9, SMT
    <2>2. X = g1[a] /\ Y = g1[b] /\ a \in 1..n1 /\ b \in 1..n1 /\ Cardinality(X) = 1 /\ Cardinality(Y) = 1
      BY <1>7, <1>8, <1>9, <2>1, Zenon
    <2>3. \A i, j \in 1..n1 : g1[i] = g1[j] => i = j
      BY <1>2, Zenon DEF LeftOutInTurn, ListOf
    <2>4. X # Y
      BY <2>1, <2>2, <2>3, Zenon
    <2>5. Cardinality(X) =< Cardinality(Y)
      BY <2>2, SMT
    <2> QED
      BY <1>4, <1>5, <2>4, <2>5, Zenon
  <1>10. CASE b > n1 /\ b =< m
    <2>1. CASE a =< n1
      <3>1. Cardinality(X) = 1 /\ Cardinality(Y) = 2
        BY <1>7, <1>8, <1>10, <2>1, Zenon
      <3>2. Cardinality(X) =< Cardinality(Y) /\ Cardinality(X) # Cardinality(Y)
        BY <3>1, SMT
      <3> QED
        BY <1>4, <1>5, <3>2, Zenon
    <2>2. CASE a > n1
      <3>1. a =< m /\ a - n1 # b - n1
        BY <1>1, <1>10, SMT
      <3>2. /\ X = g2[a - n1] /\ Y = g2[b - n1] /\ a - n1 \in 1..n2 /\ b - n1 \in 1..n2
            /\ Cardinality(X) = 2 /\ Cardinality(Y) = 2
        BY <1>7, <1>8, <1>10, <2>2, <3>1, Zenon
      <3>3. \A i, j \in 1..n2 : g2[i] = g2[j] => i = j
        BY <1>2, Zenon DEF LeftOutInTurn, ListOf
      <3>4. X # Y
        BY <3>1, <3>2, <3>3, Zenon
      <3>5. Cardinality(X) =< Cardinality(Y)
        BY <3>2, SMT
      <3> QED
        BY <1>4, <1>5, <3>4, <3>5, Zenon
    <2>3. a =< n1 \/ a > n1
      BY <1>1, SMT
    <2> QED
      BY <2>1, <2>2, <2>3, Zenon
  <1>11. CASE b > m /\ b =< m + n3
    <2>1. CASE a =< m
      <3>1. a =< n1 \/ (a > n1 /\ a =< m)
        BY <1>1, <2>1, SMT
      <3>2. (Cardinality(X) = 1 \/ Cardinality(X) = 2) /\ Cardinality(Y) = 3
        BY <1>7, <1>8, <1>11, <3>1, Zenon
      <3>3. Cardinality(X) =< Cardinality(Y) /\ Cardinality(X) # Cardinality(Y)
        BY <3>2, SMT
      <3> QED
        BY <1>4, <1>5, <3>3, Zenon
    <2>2. CASE a > m
      <3>1. a =< m + n3 /\ a - m # b - m
        BY <1>6, <1>11, SMT
      <3>2. /\ X = g3[a - m] /\ Y = g3[b - m] /\ a - m \in 1..n3 /\ b - m \in 1..n3
            /\ Cardinality(X) = 3 /\ Cardinality(Y) = 3
        BY <1>7, <1>8, <1>11, <2>2, <3>1, Zenon
      <3>3. \A i, j \in 1..n3 : g3[i] = g3[j] => i = j
        BY <1>2, Zenon DEF LeftOutInTurn, ListOf
      <3>4. X # Y
        BY <3>1, <3>2, <3>3, Zenon
      <3>5. Cardinality(X) =< Cardinality(Y)
        BY <3>2, SMT
      <3> QED
        BY <1>4, <1>5, <3>4, <3>5, Zenon
    <2>3. a =< m \/ a > m
      BY <1>6, SMT
    <2> QED
      BY <2>1, <2>2, <2>3, Zenon
  <1>12. b =< n1 \/ (b > n1 /\ b =< m) \/ (b > m /\ b =< m + n3) \/ b > m + n3
    BY <1>1, <1>6, SMT
  <1> QED
    BY <1>8, <1>9, <1>10, <1>11, <1>12, Zenon

(* The pairs are those whose seats can be spared, counted together.        *)
LEMMA SparedPairs ==
    ASSUME SelectionTypes, NEW P \in SUBSET operatorsOf(ready), Cardinality(P) = 2
    PROVE  Cardinality(ready \ seatsOf(ready, P)) >= GroupQuorum <=> P \in Twos
  <1>1. IsFiniteSet(P)
    BY ReadyMembers, FS_Subset, Zenon
  <1>2. PICK a \in P, b \in P : a # b /\ P = {a, b}
    BY <1>1, PairOf, Zenon
  <1>3. PICK x \in Nat, y \in Nat, k \in Nat, q \in Nat :
            x = seatCount(ready, a) /\ y = seatCount(ready, b) /\ k = Cardinality(ready) /\ q = GroupQuorum
    BY SeatsLeft, ReadyMembers, Zenon
  <1>4. Cardinality(ready \ seatsOf(ready, P)) = k - x - y
    BY <1>2, <1>3, SeatsLeft, Zenon
  <1>5. ASSUME k - x - y >= q PROVE P \in Twos
    <2>1. k >= q + x /\ k >= q + y /\ k >= q + x + y
      BY <1>3, <1>5, SMT
    <2>2. a \in Eligible /\ b \in Eligible /\ Spared(a, b)
      BY <1>2, <1>3, <2>1, Zenon DEF Eligible, Spared
    <2> QED
      BY <1>2, <2>2, TwosAre, Zenon
  <1>6. ASSUME P \in Twos PROVE k - x - y >= q
    <2>1. PICK c \in Eligible, d \in Eligible : c # d /\ P = {c, d} /\ Spared(c, d)
      BY <1>6, TwosAre, Zenon
    <2>2. (c = a /\ d = b) \/ (c = b /\ d = a)
      BY <1>2, <2>1, Zenon
    <2>3. k >= q + x + y \/ k >= q + y + x
      BY <1>3, <2>1, <2>2, Zenon DEF Spared
    <2> QED
      BY <1>3, <2>3, SMT
  <1> QED
    BY <1>3, <1>4, <1>5, <1>6, Zenon

(* Before the first triplet, every pair has had its turn.                  *)
LEMMA PairsBeforeTriplets ==
    ASSUME ShufflesPermute, SelectionTypes, Cardinality(leftOut(ready, attemptCounter)) = 3,
           NEW P, Cardinality(P) = 2
    PROVE  P \in Twos <=> \E n \in 2..attemptCounter : leftOut(ready, n) = P
  <1>1. PICK c \in Nat : c = attemptCounter /\ c >= 1
    BY SMT DEF SelectionTypes
  <1>2. c # 1
    <2>1. ASSUME c = 1 PROVE Cardinality(leftOut(ready, attemptCounter)) = 0
      BY <1>1, <2>1, FS_EmptySet, Zenon DEF leftOut
    <2>2. 0 # 3
      BY SMT
    <2> QED
      BY <2>1, <2>2, Zenon
  <1>3. c >= 2
    BY <1>1, <1>2, SMT
  <1>4. PICK n1 \in Nat, n2 \in Nat, n3 \in Nat : \E g1, g2, g3 : LeftOutInTurn(g1, n1, g2, n2, g3, n3)
    BY Turns, Zenon
  <1>5. PICK g1, g2, g3 : LeftOutInTurn(g1, n1, g2, n2, g3, n3)
    BY <1>4, Zenon
  <1>6. c > n1 + n2
    <2>1. c =< n1 \/ (c > n1 /\ c =< n1 + n2) \/ c > n1 + n2
      BY <1>1, <1>4, SMT
    <2>2. 3 # 1 /\ 3 # 2
      BY SMT
    <2> QED
      <3>1. TurnIs(c, g1, n1, g2, n2, g3, n3)
        BY <1>1, <1>3, <1>4, <1>5, TurnOf, Zenon
      <3>2. Cardinality(leftOut(ready, c)) = 3
        BY <1>1, Zenon
      <3> QED
        BY <2>1, <2>2, <3>1, <3>2, Zenon DEF TurnIs
  <1>7. ASSUME P \in Twos PROVE \E n \in 2..attemptCounter : leftOut(ready, n) = P
    <2>1. PICK i \in 1..n2 : g2[i] = P
      BY <1>5, <1>7, Zenon DEF LeftOutInTurn, ListOf
    <2>2. PICK o \in Eligible : TRUE
      BY <1>7, TwosAre, Zenon
    <2>3. {o} \in Ones
      BY OnesAre, Zenon
    <2>4. PICK h \in 1..n1 : g1[h] = {o}
      BY <1>5, <2>3, Zenon DEF LeftOutInTurn, ListOf
    <2>5. PICK k \in Nat : k = n1 + i
      BY <1>4, <2>1, SMT
    <2>6. k >= 2 /\ k > n1 /\ k =< n1 + n2 /\ k - n1 = i /\ k \in 2..c
      BY <1>1, <1>4, <1>6, <2>1, <2>4, <2>5, SMT
    <2>7. TurnIs(k, g1, n1, g2, n2, g3, n3)
      BY <1>4, <1>5, <2>5, <2>6, TurnOf, Zenon
    <2>8. leftOut(ready, k) = g2[i]
      BY <2>6, <2>7, Zenon DEF TurnIs
    <2> QED
      BY <1>1, <2>1, <2>6, <2>8, Zenon
  <1>8. ASSUME NEW n \in 2..c, leftOut(ready, n) = P PROVE P \in Twos
    <2>1. PICK k \in Nat : k = n /\ k >= 2
      BY <1>1, SMT
    <2>2. \/ k =< n1 \/ (k > n1 /\ k =< n1 + n2)
          \/ (k > n1 + n2 /\ k =< n1 + n2 + n3) \/ k > n1 + n2 + n3
      BY <1>4, <2>1, SMT
    <2>3. 2 # 1 /\ 2 # 3 /\ 2 # 0
      BY SMT
    <2> QED
      <3>1. TurnIs(k, g1, n1, g2, n2, g3, n3)
        BY <1>4, <1>5, <2>1, TurnOf, Zenon
      <3>2. Cardinality(leftOut(ready, k)) = 2
        BY <1>8, <2>1, Zenon
      <3> QED
        BY <1>8, <2>1, <2>2, <2>3, <3>1, <3>2, Zenon DEF TurnIs
  <1> QED
    BY <1>1, <1>7, <1>8, Zenon

(* The order of the exclusions, from what two attempts leave out and what  *)
(* the pairs are.                                                          *)
LEMMA OrderedExclusions ==
    ASSUME ShufflesPermute, SelectionTypes
    PROVE  ExclusionsAreInOrder
  <1>1. ASSUME NEW a \in 2..attemptCounter, NEW b \in 2..attemptCounter,
               a < b, ~ selectionFails(ready, b)
        PROVE  /\ leftOut(ready, a) # leftOut(ready, b)
               /\ Cardinality(leftOut(ready, a)) =< Cardinality(leftOut(ready, b))
    <2>1. a \in Nat /\ b \in Nat /\ a >= 2 /\ b > 1
      BY SMT DEF SelectionTypes
    <2>2. leftOut(ready, b) # {}
      BY <1>1, <2>1, Zenon DEF selectionFails
    <2> QED
      BY <1>1, <2>1, <2>2, NoTurnTwice, Zenon
  <1>2. ASSUME Cardinality(leftOut(ready, attemptCounter)) = 3,
               NEW P \in SUBSET operatorsOf(ready), Cardinality(P) = 2
        PROVE  (Cardinality(ready \ seatsOf(ready, P)) >= GroupQuorum)
               <=> (\E n \in 2..attemptCounter : leftOut(ready, n) = P)
    <2>1. (Cardinality(ready \ seatsOf(ready, P)) >= GroupQuorum) <=> P \in Twos
      BY <1>2, SparedPairs, Zenon
    <2>2. P \in Twos <=> \E n \in 2..attemptCounter : leftOut(ready, n) = P
      BY <1>2, PairsBeforeTriplets, Zenon
    <2> QED
      BY <2>1, <2>2, Zenon
  <1> QED
    BY <1>1, <1>2, Zenon DEF ExclusionsAreInOrder

(* The types of the loop's state.                                          *)
LEMMA SelectionTyped ==
    SelectionSpec => []SelectionTypes
  <1>1. SelectionInit => SelectionTypes
    <2> SUFFICES ASSUME SelectionInit PROVE SelectionTypes
      BY Zenon
    <2>1. addressOf \in [Members -> Nat] /\ attemptSeed \in Int /\ ready \in SUBSET Members
      BY SelectionAssumption, Zenon DEF SelectionInit, Members
    <2>2. attemptCounter \in Nat \ {0}
      BY SMT DEF SelectionInit
    <2> QED
      BY <2>1, <2>2, Zenon DEF SelectionTypes
  <1>2. SelectionTypes /\ [SelectionNext]_selectionVars => SelectionTypes'
    <2> SUFFICES ASSUME SelectionTypes, [SelectionNext]_selectionVars PROVE SelectionTypes'
      BY Zenon
    <2>1. CASE nextAttempt
      <3>1. attemptCounter' \in Nat \ {0}
        BY <2>1, SMT DEF SelectionTypes, nextAttempt
      <3> QED
        BY <2>1, <3>1, Zenon DEF SelectionTypes, nextAttempt, Members
    <2>2. CASE selectionFailed
      BY <2>2, Zenon DEF SelectionTypes, selectionFailed, Members
    <2>3. CASE UNCHANGED selectionVars
      BY <2>3, Zenon DEF SelectionTypes, selectionVars, Members
    <2> QED
      BY <2>1, <2>2, <2>3, Zenon DEF SelectionNext
  <1> QED
    BY <1>1, <1>2, PTL DEF SelectionSpec

(* Whatever permutations the generator's shuffles are, every signing       *)
(* attempt with enough ready members gets exactly HonestThreshold of them, *)
(* whatever seats the operators have: evaluating the retry and trimming    *)
(* the surplus in signing_loop.go never return a stranger, too few members *)
(* or one too many.                                                        *)
THEOREM SigningSelectsExactly ==
    ShufflesPermute => (SelectionSpec => []SigningSelectionIsExact)
  <1>1. ASSUME ShufflesPermute PROVE SelectionTypes => SigningSelectionIsExact
    BY <1>1, SigningSelection, Zenon
  <1>2. ASSUME ShufflesPermute PROVE SelectionSpec => []SigningSelectionIsExact
    BY <1>1, <1>2, SelectionTyped, PTL
  <1> QED
    BY <1>2

(* Whatever the shuffles, an attempt at key generation that leaves out one *)
(* operator or two keeps GroupQuorum members.  Triplets are excepted: the  *)
(* third search counts one operator's seats twice.                         *)
THEOREM SmallExclusionsAreSafe ==
    ShufflesPermute => (SelectionSpec => []SmallExclusionsKeepQuorum)
  <1>1. ASSUME ShufflesPermute PROVE SelectionTypes => SmallExclusionsKeepQuorum
    BY <1>1, SmallExclusions, Zenon
  <1>2. ASSUME ShufflesPermute PROVE SelectionSpec => []SmallExclusionsKeepQuorum
    BY <1>1, <1>2, SelectionTyped, PTL
  <1> QED
    BY <1>2

(* Whatever the shuffles, the attempts at key generation run through the   *)
(* singles, the pairs and the triplets without repeating one, and no pair  *)
(* that could be spared is skipped.                                        *)
THEOREM ExclusionsStayInOrder ==
    ShufflesPermute => (SelectionSpec => []ExclusionsAreInOrder)
  <1>1. ASSUME ShufflesPermute PROVE SelectionTypes => ExclusionsAreInOrder
    BY <1>1, OrderedExclusions, Zenon
  <1>2. ASSUME ShufflesPermute PROVE SelectionSpec => []ExclusionsAreInOrder
    BY <1>1, <1>2, SelectionTyped, PTL
  <1> QED
    BY <1>2

=============================================================================
