----------------------------- MODULE HostChain -----------------------------
EXTENDS Naturals

(* block.number, as the contracts read it. *)
VARIABLE block

CONSTANTS
    None,           \* what a storage slot holds once it is deleted
    MaxBlock        \* no block is mined after this one

ASSUME MaxBlockAssumption == MaxBlock \in Nat \ {0}

mineBlock ==
    /\ block + 1 <= MaxBlock
    /\ block' = block + 1
=============================================================================
