------------------------------- MODULE Groups -------------------------------
(***************************************************************************)
(* The Groups library (random-beacon/contracts/libraries/Groups.sol): the  *)
(* groups of the beacon in the order of their registration, their expiry   *)
(* by age, their termination, and the selection of an active one.          *)
(*                                                                         *)
(* Group identifiers are the zero-based indices of groupsRegistry.         *)
(***************************************************************************)
EXTENDS HostChain, Integers, SequencesExt, FiniteSetsExt

CONSTANTS
    GroupKeys,      \* group public keys (and their hashes)
    Members,        \* member lists of groups (and their hashes)
    Lifetimes       \* group lifetimes the governance may set

ASSUME LifetimesAssumption == Lifetimes \subseteq Nat

VARIABLES
    groupsData,             \* group details by key
    groupsRegistry,         \* keys in the order of registration
    activeTerminatedGroups,
    expiredGroupOffset,
    groupLifetime

groupsVars == <<groupsData, groupsRegistry, activeTerminatedGroups,
                expiredGroupOffset, groupLifetime>>

Group == [registrationBlockNumber : Nat, members : Members \cup {None},
          terminated : BOOLEAN]

GroupIds == 0..(Len(groupsRegistry) - 1)

GroupsTypeOK ==
    /\ groupsData \in [GroupKeys -> Group]
    /\ groupsRegistry \in Seq(GroupKeys)
    /\ activeTerminatedGroups \in Seq(Nat)
    /\ expiredGroupOffset \in Nat
    /\ groupLifetime \in Lifetimes

GroupsInit ==
    /\ groupsData = [k \in GroupKeys |->
           [registrationBlockNumber |-> 0, members |-> None, terminated |-> FALSE]]
    /\ groupsRegistry = <<>>
    /\ activeTerminatedGroups = <<>>
    /\ expiredGroupOffset = 0
    /\ groupLifetime \in Lifetimes

getGroup(id) == groupsData[groupsRegistry[id + 1]]

isGroupTerminated(id) == getGroup(id).terminated

groupLifetimeOf(id) == getGroup(id).registrationBlockNumber + groupLifetime

isGroupActive(id) == groupLifetimeOf(id) >= block /\ ~isGroupTerminated(id)

validatePublicKey(k) == groupsData[k].registrationBlockNumber = 0

(* Writes the entry of the key whatever it holds.                          *)
addGroup(k, members) ==
    /\ groupsData' = [groupsData EXCEPT ![k].members = members,
                                        ![k].registrationBlockNumber = block]
    /\ groupsRegistry' = Append(groupsRegistry, k)
    /\ UNCHANGED <<activeTerminatedGroups, expiredGroupOffset, groupLifetime>>

(* The values expireOldGroups leaves in expiredGroupOffset and, given the  *)
(* terminated groups, in activeTerminatedGroups.                           *)
expiredOffset ==
    Min({i \in expiredGroupOffset..Len(groupsRegistry) :
            i = Len(groupsRegistry) \/ groupLifetimeOf(i) >= block})

(* Mutant: terminated groups that expired are kept.                        *)
unexpiredAll(terminatedGroups) == terminatedGroups

unexpired(terminatedGroups) ==
    LET kept[n \in 0..Len(terminatedGroups)] ==
            IF n = 0 THEN <<>>
            ELSE IF expiredOffset > terminatedGroups[n] THEN kept[n - 1]
            ELSE Append(kept[n - 1], terminatedGroups[n])
    IN  kept[Len(terminatedGroups)]

expireOldGroups(terminatedGroups) ==
    /\ expiredGroupOffset' = expiredOffset
    /\ activeTerminatedGroups' = unexpired(terminatedGroups)

(* Negative where the checked subtraction of the code reverts.             *)
activeGroups(offset, terminatedGroups) ==
    IF groupsRegistry = <<>> THEN 0
    ELSE Len(groupsRegistry) - offset - Len(terminatedGroups)

numberOfActiveGroups == activeGroups(expiredGroupOffset, activeTerminatedGroups)

(* Mutant: the group at the index itself is not skipped.                   *)
shiftByTerminatedBelow(index, terminatedGroups) ==
    LET shifted[n \in 0..Len(terminatedGroups)] ==
            IF n = 0 THEN index
            ELSE IF terminatedGroups[n] < shifted[n - 1] THEN shifted[n - 1] + 1
            ELSE shifted[n - 1]
    IN  shifted[Len(terminatedGroups)]

(* shifted[n] is shiftedIndex after n rounds of the loop.                  *)
shiftByTerminatedGroups(index, terminatedGroups) ==
    LET shifted[n \in 0..Len(terminatedGroups)] ==
            IF n = 0 THEN index
            ELSE IF terminatedGroups[n] <= shifted[n - 1] THEN shifted[n - 1] + 1
            ELSE shifted[n - 1]
    IN  shifted[Len(terminatedGroups)]

(* What selectGroup returns, after expireOldGroups.                        *)
selectedGroup(seed, terminatedGroups) ==
    LET n == activeGroups(expiredOffset, unexpired(terminatedGroups))
    IN  shiftByTerminatedGroups(expiredOffset + (seed % n), unexpired(terminatedGroups))

canSelectGroup(terminatedGroups) ==
    activeGroups(expiredOffset, unexpired(terminatedGroups)) > 0

(* activeTerminatedGroups with id inserted from the end, before the ids    *)
(* that are greater.                                                       *)
withTerminated(id) ==
    LET smaller == {i \in DOMAIN activeTerminatedGroups : activeTerminatedGroups[i] <= id}
    IN  InsertAt(activeTerminatedGroups, Max(smaller \cup {0}) + 1, id)

markTerminated(id) ==
    /\ ~isGroupTerminated(id)
    /\ groupsData' = [groupsData EXCEPT ![groupsRegistry[id + 1]].terminated = TRUE]
-----------------------------------------------------------------------------
(* The library on its own, under every sequence of calls its users make.   *)
activateGroup(k, members) ==
    /\ validatePublicKey(k)
    /\ addGroup(k, members)
    /\ UNCHANGED block

(* reportUnauthorizedSigning terminates without expiring,                  *)
(* reportRelayEntryTimeout does both.                                      *)
terminateGroup(id) ==
    /\ markTerminated(id)
    /\ activeTerminatedGroups' = withTerminated(id)
    /\ UNCHANGED <<block, groupsRegistry, expiredGroupOffset, groupLifetime>>

terminateAndExpire(id) ==
    /\ markTerminated(id)
    /\ expireOldGroups(withTerminated(id))
    /\ UNCHANGED <<block, groupsRegistry, groupLifetime>>

selectGroup ==
    /\ canSelectGroup(activeTerminatedGroups)
    /\ expireOldGroups(activeTerminatedGroups)
    /\ UNCHANGED <<block, groupsData, groupsRegistry, groupLifetime>>

setGroupLifetime(lifetime) ==
    /\ groupLifetime' = lifetime
    /\ UNCHANGED <<block, groupsData, groupsRegistry, activeTerminatedGroups, expiredGroupOffset>>

GroupsNext ==
    \/ mineBlock /\ UNCHANGED groupsVars
    \/ \E k \in GroupKeys, m \in Members : activateGroup(k, m)
    \/ \E id \in GroupIds : terminateGroup(id)
    \/ \E id \in GroupIds : terminateAndExpire(id)
    \/ selectGroup
    \/ \E lifetime \in Lifetimes : setGroupLifetime(lifetime)

LibraryInit == block = 1 /\ GroupsInit

GroupsSpec == LibraryInit /\ [][GroupsNext]_<<block, groupsVars>>

(* The groups that may be selected, in the terms of the specification: not *)
(* terminated, not found to be expired so far, and not too old.            *)
Selectable ==
    {id \in GroupIds : id >= expiredGroupOffset /\ isGroupActive(id)}

(* The array the selection reads: it never grows beyond the groups that    *)
(* are terminated, and is strictly ascending. No entry is lost, duplicated *)
(* or reordered by the two loops that edit it.                             *)
TerminatedGroupsAreTracked ==
    /\ \A i, j \in DOMAIN activeTerminatedGroups :
          i < j => activeTerminatedGroups[i] < activeTerminatedGroups[j]
    /\ \A id \in GroupIds : isGroupTerminated(id) /\ id >= expiredGroupOffset
          => id \in ToSet(activeTerminatedGroups)
    /\ \A id \in ToSet(activeTerminatedGroups) : id \in GroupIds /\ isGroupTerminated(id)

(* selectGroup returns the member of Selectable that has seed mod n        *)
(* members below it, n being their number: every selectable group is hit   *)
(* by the same share of the seeds and no other group ever is, however      *)
(* registrations, terminations, expiries and lifetime changes interleave,  *)
(* and the array of terminated groups it skips stays in order.             *)
SelectionIsUniform ==
    LET n == Cardinality(Selectable)
    IN  /\ TerminatedGroupsAreTracked
        /\ canSelectGroup(activeTerminatedGroups) <=> n > 0
        /\ n > 0 => \A seed \in 0..(n - 1) :
               LET id == selectedGroup(seed, activeTerminatedGroups)
               IN  /\ id \in Selectable
                   /\ Cardinality({i \in Selectable : i < id}) = seed
=============================================================================
