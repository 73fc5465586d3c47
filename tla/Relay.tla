------------------------------- MODULE Relay -------------------------------
(***************************************************************************)
(* The Relay library (random-beacon/contracts/libraries/Relay.sol): the    *)
(* one relay request that may be in progress, its two timeouts and the     *)
(* chain of entries. An entry is the BLS signature of the group in charge  *)
(* over the previous entry; its value is left open and it stands for the   *)
(* hash that later selects a group.                                        *)
(***************************************************************************)
EXTENDS HostChain

CONSTANTS
    Entries,        \* relay entries, as the numbers derived from them
    RelayTimeouts   \* soft and hard timeouts the governance may set

ASSUME EntriesAssumption == Entries \subseteq Nat

ASSUME RelayTimeoutsAssumption == RelayTimeouts \subseteq [soft : Nat, hard : Nat]

VARIABLES
    requestCount,
    currentRequestID,
    currentRequestGroupID,
    currentRequestStartBlock,
    previousEntry,
    timeouts            \* relayEntrySoftTimeout, relayEntryHardTimeout

requestVars == <<currentRequestID, currentRequestGroupID, currentRequestStartBlock>>
relayVars == <<requestCount, requestVars, previousEntry, timeouts>>

RelayTypeOK ==
    /\ requestCount \in Nat
    /\ currentRequestID \in Nat
    /\ currentRequestGroupID \in Nat
    /\ currentRequestStartBlock \in Nat
    /\ previousEntry \in Entries
    /\ timeouts \in RelayTimeouts

RelayInit ==
    /\ requestCount = 0
    /\ currentRequestID = 0
    /\ currentRequestGroupID = 0
    /\ currentRequestStartBlock = 0
    /\ previousEntry \in Entries
    /\ timeouts \in RelayTimeouts

isRequestInProgress == currentRequestID # 0

hasRequestTimedOut ==
    /\ isRequestInProgress
    /\ block > currentRequestStartBlock + timeouts.soft + timeouts.hard

softTimeoutBlock == currentRequestStartBlock + timeouts.soft

requestEntry(groupId) ==
    /\ ~isRequestInProgress
    /\ requestCount' = requestCount + 1
    /\ currentRequestID' = requestCount + 1
    /\ currentRequestGroupID' = groupId
    /\ currentRequestStartBlock' = block
    /\ UNCHANGED <<previousEntry, timeouts>>

clearRequest ==
    /\ currentRequestID' = 0
    /\ currentRequestGroupID' = 0
    /\ currentRequestStartBlock' = 0

submitEntry(entry) ==
    /\ isRequestInProgress
    /\ ~hasRequestTimedOut
    /\ previousEntry' = entry
    /\ clearRequest
    /\ UNCHANGED <<requestCount, timeouts>>

submitEntryBeforeSoftTimeout(entry) ==
    /\ block < softTimeoutBlock
    /\ submitEntry(entry)

retryOnEntryTimeout(groupId) ==
    /\ hasRequestTimedOut
    /\ currentRequestGroupID' = groupId
    /\ currentRequestStartBlock' = block
    /\ UNCHANGED <<requestCount, currentRequestID, previousEntry, timeouts>>

cleanupOnEntryTimeout ==
    /\ hasRequestTimedOut
    /\ clearRequest
    /\ UNCHANGED <<requestCount, previousEntry, timeouts>>

setTimeouts(t) ==
    /\ ~isRequestInProgress
    /\ timeouts' = t
    /\ UNCHANGED <<requestCount, requestVars, previousEntry>>
=============================================================================
