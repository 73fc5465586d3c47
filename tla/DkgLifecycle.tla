---------------------------- MODULE DkgLifecycle ----------------------------
(***************************************************************************)
(* What an on-chain group creation promises to the rest of the system,     *)
(* with no clock, no parameters and no callers: at most one creation is in *)
(* progress, it passes through its stages in order, and a result joins the *)
(* registered ones only if it is the one candidate that is in its          *)
(* challenge stage.                                                        *)
(*                                                                         *)
(* Both EcdsaDkg.sol (as used by WalletRegistry.sol) and BeaconDkg.sol (as *)
(* used by RandomBeacon.sol) implement this specification.                 *)
(***************************************************************************)
CONSTANTS
    Result,         \* DKG results that can be submitted
    None,           \* stands for "no candidate"
    StartsAtOnce    \* whether a creation may begin with a seed that is known

VARIABLES
    stage,      \* DKG.State
    candidate,  \* the submitted result, or None
    registered  \* the results behind the wallets or groups that exist

vars == <<stage, candidate, registered>>

Stage == {"IDLE", "AWAITING_SEED", "AWAITING_RESULT", "CHALLENGE"}

Init ==
    /\ stage = "IDLE"
    /\ candidate = None
    /\ registered = {}

(* The pool is locked: a creation begins.                                  *)
Lock ==
    /\ stage = "IDLE"
    /\ stage' = "AWAITING_SEED"
    /\ UNCHANGED <<candidate, registered>>

(* The seed that selects the candidate group arrives.                      *)
Start ==
    /\ stage = "AWAITING_SEED"
    /\ stage' = "AWAITING_RESULT"
    /\ UNCHANGED <<candidate, registered>>

(* A creation begins and does not have to wait for a seed.                 *)
Genesis ==
    /\ StartsAtOnce
    /\ stage = "IDLE"
    /\ stage' = "AWAITING_RESULT"
    /\ UNCHANGED <<candidate, registered>>

(* A result is submitted; it may be any result.                            *)
Submit ==
    /\ stage = "AWAITING_RESULT"
    /\ stage' = "CHALLENGE"
    /\ candidate' \in Result
    /\ UNCHANGED registered

(* The candidate is proved wrong: the creation waits for another result.   *)
Challenge ==
    /\ stage = "CHALLENGE"
    /\ stage' = "AWAITING_RESULT"
    /\ candidate' = None
    /\ UNCHANGED registered

(* The candidate is accepted and the creation ends.                        *)
Approve ==
    /\ stage = "CHALLENGE"
    /\ stage' = "IDLE"
    /\ candidate' = None
    /\ registered' = registered \cup {candidate}

(* The creation is given up, never once there is a candidate.              *)
GiveUp ==
    /\ stage \in {"AWAITING_SEED", "AWAITING_RESULT"}
    /\ stage' = "IDLE"
    /\ UNCHANGED <<candidate, registered>>

(* Wallets are closed, whatever the stage.                                 *)
Remove ==
    /\ registered' \in SUBSET registered
    /\ UNCHANGED <<stage, candidate>>

Next == Lock \/ Start \/ Genesis \/ Submit \/ Challenge \/ Approve \/ GiveUp \/ Remove

Spec == Init /\ [][Next]_vars
=============================================================================
