-------------------------------- MODULE Pmm --------------------------------
(***************************************************************************)
(* The physical memory manager, src/kernel/memory/pmm.c: a bitmap with one *)
(* bit per 4 KiB block and a running count of the blocks in use.           *)
(*                                                                         *)
(* The bitmap is the set of blocks whose bit is set.  A block and its      *)
(* physical address (block * PMM_BLOCK_SIZE) are identified: every caller  *)
(* divides the address by the block size again.  The module has no         *)
(* specification of its own; PageFrames and Boot compose its operations.   *)
(***************************************************************************)
EXTENDS Integers, FiniteSetsExt

CONSTANTS
    MaxBlocks,   \* max_blocks, from the memory size the loader reports
    WordBits,    \* bits in a word of the bitmap (32)
    CounterMod   \* 2^32, the range of the unsigned used_blocks

ASSUME PmmAssumption ==
    /\ MaxBlocks \in Nat
    /\ WordBits \in Nat \ {0}
    /\ CounterMod \in Nat
    /\ MaxBlocks < CounterMod

VARIABLES
    bitmap,      \* the blocks whose bit in pmm_bitmap is set
    used_blocks  \* used_blocks

pmmVars == <<bitmap, used_blocks>>

(* first_free_block looks at max_blocks / 32 whole words only.             *)
ScannedCount == WordBits * (MaxBlocks \div WordBits)

Scanned == 0 .. (ScannedCount - 1)

(* Blocks a bit can ever be set for: the scanned ones, and block 0, which  *)
(* is also what a failed search answers.                                   *)
Block == Scanned \cup {0}

PmmTypeOK ==
    /\ bitmap \subseteq Block
    /\ used_blocks \in 0 .. (CounterMod - 1)

(* memset(pmm_bitmap, 0, pmm_bitmap_size); used_blocks starts at 0.        *)
PmmInit ==
    /\ bitmap = {}
    /\ used_blocks = 0

-----------------------------------------------------------------------------

\* Mutant: the search answers block 1 without looking at its bit.
first_free_block_blind == IF 1 \in Scanned THEN 1 ELSE 0

(* The lowest scanned block whose bit is clear; 0 when there is none.      *)
first_free_block ==
    IF Scanned \subseteq bitmap THEN 0 ELSE Min(Scanned \ bitmap)

\* Mutant: the comparison a signed subtraction would make.
pmm_exhausted_ge == used_blocks >= MaxBlocks

\* max_blocks - used_blocks is unsigned, so "<= 0" holds only at equality.
pmm_exhausted == used_blocks = MaxBlocks

(* What pmm_alloc_block returns: 0 both for a failure and for block 0.     *)
pmm_alloc_result == IF pmm_exhausted THEN 0 ELSE first_free_block

(* The state change of pmm_alloc_block: pmm_bitmap_set of the block found. *)
pmm_alloc_block ==
    \/ /\ pmm_exhausted
       /\ UNCHANGED pmmVars
    \/ /\ ~pmm_exhausted
       /\ bitmap' = bitmap \cup {first_free_block}
       /\ used_blocks' = (used_blocks + 1) % CounterMod

\* Mutant: the bit of the neighbouring block is cleared as well.
pmm_free_block_wide(b) ==
    /\ bitmap' = bitmap \ {b, b + 1}
    /\ used_blocks' = (used_blocks - 1) % CounterMod

(* pmm_free_block: pmm_bitmap_unset, which trusts its argument.            *)
pmm_free_block(b) ==
    /\ bitmap' = bitmap \ {b}
    /\ used_blocks' = (used_blocks - 1) % CounterMod

=============================================================================
