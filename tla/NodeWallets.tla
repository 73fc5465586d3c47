---------------------------- MODULE NodeWallets ----------------------------
(***************************************************************************)
(* The wallets one node controls: the signers it stores and caches         *)
(* (registry.go), the executors built from them (node.go), and what        *)
(* becomes of them when the wallet is closed on chain, the chain is        *)
(* reorganised, or the node stops and starts again. Events of the chain    *)
(* come late, twice or, while the node is down, never.                     *)
(***************************************************************************)
EXTENDS Naturals

CONSTANTS
    Wallets,
    Seats,          \* the members of a wallet that the node controls
    Executors,      \* the executor caches: signing, coordination, inactivity claims
    MaxClosures,    \* bound on closures of one wallet, reverted ones included
    MaxCrashes      \* bound on crashes

ASSUME NodeAssumption == MaxClosures \in Nat /\ MaxCrashes \in Nat

VARIABLES
    chainState,     \* "pending": not approved yet, "live" or "closed"
    final,          \* the closure is too deep to be reverted
    closures,       \* closures of a wallet so far
    storage,        \* seats whose signer is on disk
    archive,        \* seats whose signer was moved to the archive
    up,             \* the node runs
    walletCache,    \* seats in the memory of the registry
    executors,      \* the seats an executor was created with
    walletClosedCache,  \* wallets whose closure the deduplicator has seen
    handlers,       \* the handling of a closure event, for each of its deliveries
    due,            \* events emitted while the node runs
    crashes

chainVars == <<chainState, final, closures>>
memoryVars == <<walletCache, executors, walletClosedCache, handlers, due>>
nodeVars == <<chainVars, storage, archive, up, memoryVars, crashes>>

Closures == 1..MaxClosures
Deliveries == 1..2

NodeTypeOK ==
    /\ chainState \in [Wallets -> {"pending", "live", "closed"}]
    /\ final \in [Wallets -> BOOLEAN]
    /\ closures \in [Wallets -> 0..MaxClosures]
    /\ storage \in [Wallets -> SUBSET Seats]
    /\ archive \in [Wallets -> SUBSET Seats]
    /\ up \in BOOLEAN
    /\ walletCache \in [Wallets -> SUBSET Seats]
    /\ executors \in [Executors -> [Wallets -> SUBSET Seats]]
    /\ walletClosedCache \subseteq Wallets
    /\ handlers \in [Wallets \X Closures \X Deliveries ->
                        {"none", "new", "confirming", "done", "ignored"}]
    /\ due \subseteq Wallets \X Closures
    /\ crashes \in 0..MaxCrashes

NoSeats == [w \in Wallets |-> {}]
NoExecutors == [e \in Executors |-> NoSeats]
NoHandlers == [h \in Wallets \X Closures \X Deliveries |-> "none"]

NodeInit ==
    /\ chainState = [w \in Wallets |-> "pending"]
    /\ final = [w \in Wallets |-> FALSE]
    /\ closures = [w \in Wallets |-> 0]
    /\ storage = NoSeats
    /\ archive = NoSeats
    /\ up = TRUE
    /\ walletCache = NoSeats
    /\ executors = NoExecutors
    /\ walletClosedCache = {}
    /\ handlers = NoHandlers
    /\ due = {}
    /\ crashes = 0

isWalletRegistered(w) == chainState[w] = "live"
-----------------------------------------------------------------------------
(* The chain.                                                              *)
approveWallet(w) ==
    /\ chainState[w] = "pending"
    /\ chainState' = [chainState EXCEPT ![w] = "live"]
    /\ UNCHANGED <<final, closures, storage, archive, up, memoryVars, crashes>>

closeWallet(w) ==
    /\ isWalletRegistered(w)
    /\ closures[w] < MaxClosures
    /\ chainState' = [chainState EXCEPT ![w] = "closed"]
    /\ closures' = [closures EXCEPT ![w] = @ + 1]
    /\ due' = IF up THEN due \cup {<<w, closures[w] + 1>>} ELSE due
    /\ UNCHANGED <<final, storage, archive, up, walletCache, executors, walletClosedCache,
                   handlers, crashes>>

revertClosure(w) ==
    /\ chainState[w] = "closed"
    /\ ~final[w]
    /\ chainState' = [chainState EXCEPT ![w] = "live"]
    /\ UNCHANGED <<final, closures, storage, archive, up, memoryVars, crashes>>

finalizeClosure(w) ==
    /\ chainState[w] = "closed"
    /\ ~final[w]
    /\ final' = [final EXCEPT ![w] = TRUE]
    /\ UNCHANGED <<chainState, closures, storage, archive, up, memoryVars, crashes>>

(* The closure is reverted, or the confirmation blocks have passed.        *)
settled(w, n) == n < closures[w] \/ isWalletRegistered(w) \/ final[w]
-----------------------------------------------------------------------------
(* A key generation the node takes part in yields a signer. The result is  *)
(* yet to be submitted and approved, or rejected.                          *)
registerSigner(w, seat) ==
    /\ up
    /\ chainState[w] = "pending"
    /\ seat \notin storage[w] \cup archive[w]
    /\ storage' = [storage EXCEPT ![w] = @ \cup {seat}]
    /\ walletCache' = [walletCache EXCEPT ![w] = @ \cup {seat}]
    /\ UNCHANGED <<chainVars, archive, up, executors, walletClosedCache, handlers, due,
                   crashes>>

(* getSigningExecutor and its like: an existing executor is taken from the *)
(* cache, a new one is made of the signers known now.                      *)
getExecutor(e, w) ==
    /\ up
    /\ executors[e][w] = {}
    /\ walletCache[w] # {}
    /\ executors' = [executors EXCEPT ![e][w] = walletCache[w]]
    /\ UNCHANGED <<chainVars, storage, archive, up, walletCache, walletClosedCache, handlers, due,
                   crashes>>

(* A subscription delivers an event and starts a goroutine for it, which   *)
(* first looks into the cache of the deduplicator.                         *)
onWalletClosed(w, n, delivery) ==
    /\ up
    /\ n <= closures[w]
    /\ handlers[<<w, n, delivery>>] = "none"
    /\ handlers' = [handlers EXCEPT ![<<w, n, delivery>>] =
                       IF w \in walletClosedCache THEN "ignored" ELSE "new"]
    /\ due' = due \ {<<w, n>>}
    /\ UNCHANGED <<chainVars, storage, archive, up, walletCache, executors, walletClosedCache, crashes>>

(* It adds the wallet, which another goroutine may have added since, and   *)
(* proceeds.                                                               *)
notifyWalletClosed(w, n, delivery) ==
    /\ up
    /\ handlers[<<w, n, delivery>>] = "new"
    /\ walletClosedCache' = walletClosedCache \cup {w}
    /\ handlers' = [handlers EXCEPT ![<<w, n, delivery>>] = "confirming"]
    /\ UNCHANGED <<chainVars, storage, archive, up, walletCache, executors, due, crashes>>

(* Mutant: only the cache forgets the wallet.                              *)
archiveWalletsInCache(W) ==
    /\ archive' = archive
    /\ storage' = storage
    /\ walletCache' = [w \in Wallets |-> IF w \in W THEN {} ELSE walletCache[w]]

(* The directories are moved to the archive and the cache forgets the      *)
(* wallets.                                                                *)
archiveWallets(W) ==
    /\ archive' = [w \in Wallets |-> IF w \in W THEN archive[w] \cup storage[w] ELSE archive[w]]
    /\ storage' = [w \in Wallets |-> IF w \in W THEN {} ELSE storage[w]]
    /\ walletCache' = [w \in Wallets |-> IF w \in W THEN {} ELSE walletCache[w]]

(* Mutant: the wallet is archived without another look at the chain.       *)
handleWalletClosureUnchecked(w, n, delivery) ==
    /\ up
    /\ handlers[<<w, n, delivery>>] = "confirming"
    /\ settled(w, n)
    /\ archiveWallets({w})
    /\ handlers' = [handlers EXCEPT ![<<w, n, delivery>>] = "done"]
    /\ UNCHANGED <<chainVars, up, executors, walletClosedCache, due, crashes>>

(* After the confirmation blocks: archive the wallet if it is indeed not   *)
(* registered and the node controls it.                                    *)
handleWalletClosure(w, n, delivery) ==
    /\ up
    /\ handlers[<<w, n, delivery>>] = "confirming"
    /\ settled(w, n)
    /\ IF ~isWalletRegistered(w) /\ walletCache[w] # {}
       THEN archiveWallets({w})
       ELSE UNCHANGED <<storage, archive, walletCache>>
    /\ handlers' = [handlers EXCEPT ![<<w, n, delivery>>] = "done"]
    /\ UNCHANGED <<chainVars, up, executors, walletClosedCache, due, crashes>>

crash ==
    /\ up
    /\ crashes < MaxCrashes
    /\ up' = FALSE
    /\ walletCache' = NoSeats
    /\ executors' = NoExecutors
    /\ walletClosedCache' = {}
    /\ handlers' = NoHandlers
    /\ due' = {}
    /\ crashes' = crashes + 1
    /\ UNCHANGED <<chainVars, storage, archive>>

(* Mutant: the node starts without a look at the chain.                    *)
archiveClosedWalletsNever ==
    /\ up' = TRUE
    /\ walletCache' = storage
    /\ UNCHANGED <<storage, archive>>

(* newNode loads the signers and archives every wallet that is not         *)
(* registered. A failure half way leaves the node down.                    *)
archiveClosedWallets ==
    LET unregistered == {w \in Wallets : storage[w] # {} /\ ~isWalletRegistered(w)}
    IN  \E W \in SUBSET unregistered :
           /\ up' = (W = unregistered)
           /\ archive' = [w \in Wallets |-> IF w \in W THEN archive[w] \cup storage[w] ELSE archive[w]]
           /\ storage' = [w \in Wallets |-> IF w \in W THEN {} ELSE storage[w]]
           /\ walletCache' = IF up' THEN storage' ELSE NoSeats

newNode ==
    /\ ~up
    /\ archiveClosedWallets
    /\ UNCHANGED <<chainVars, executors, walletClosedCache, handlers, due, crashes>>

Node ==
    \/ \E w \in Wallets, seat \in Seats : registerSigner(w, seat)
    \/ \E e \in Executors, w \in Wallets : getExecutor(e, w)
    \/ \E w \in Wallets, n \in Closures, d \in Deliveries :
          onWalletClosed(w, n, d) \/ notifyWalletClosed(w, n, d) \/ handleWalletClosure(w, n, d)
    \/ crash
    \/ newNode

NodeNext ==
    \/ Node
    \/ \E w \in Wallets :
          approveWallet(w) \/ closeWallet(w) \/ revertClosure(w) \/ finalizeClosure(w)

NodeSpec == NodeInit /\ [][NodeNext]_nodeVars
-----------------------------------------------------------------------------
(* While the node runs, what the registry has in memory is what a restart  *)
(* would load, and an executor only ever uses signers that are on disk, in *)
(* use or archived: no share lives in memory alone.                        *)
SharesAreDurable ==
    /\ up => walletCache = storage
    /\ \A e \in Executors, w \in Wallets : executors[e][w] \subseteq storage[w] \cup archive[w]

(* A running node archives a wallet only when it is closed at the end of   *)
(* the confirmation: neither a reverted closure nor a duplicate of its     *)
(* event gets a live wallet archived. The closure can then no longer be    *)
(* reverted, unless it follows one that was.                               *)
RunningNodeArchivesClosedWallets ==
    [][up => \A w \in Wallets : archive'[w] # archive[w] =>
                 chainState[w] = "closed" /\ (closures[w] = 1 => final[w])]_nodeVars

(* What archiveClosedWallets concludes from a wallet that is not           *)
(* registered: "it means the wallet has been closed or terminated".        *)
ArchivedWalletsWereClosed == \A w \in Wallets : archive[w] # {} => closures[w] > 0

(* The node is restarted when it is down, its goroutines run, the          *)
(* subscription delivers what is emitted while the node runs, and a block  *)
(* becomes final.                                                          *)
NodeFairness ==
    /\ WF_nodeVars(newNode /\ up')
    /\ \A w \in Wallets :
          /\ WF_nodeVars(finalizeClosure(w))
          /\ \A n \in Closures, d \in Deliveries :
                /\ WF_nodeVars(<<w, n>> \in due /\ onWalletClosed(w, n, d))
                /\ WF_nodeVars(notifyWalletClosed(w, n, d))
                /\ WF_nodeVars(handleWalletClosure(w, n, d))

NodeSpecFair == NodeSpec /\ NodeFairness

(* A wallet that is closed for good does not stay in use: the event, the   *)
(* restart or both get it archived, wherever the node stops in between.    *)
ClosedWalletIsArchived ==
    \A w \in Wallets : [](final[w] => <>(storage[w] = {}))
=============================================================================
