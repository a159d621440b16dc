----------------------------- MODULE PageFrames -----------------------------
(***************************************************************************)
(* One page directory on top of the physical memory manager: allocate_page *)
(* and free_page of src/kernel/memory/vmm.c, for pages whose table exists  *)
(* (creating tables is the subject of Boot and Kheap), over a machine that *)
(* may run out of blocks.                                                  *)
(***************************************************************************)
EXTENDS Pmm

CONSTANTS
    Pages,       \* virtual pages, as page numbers
    NotPresent   \* the entry of a page that is not mapped

ASSUME PagesAssumption ==
    /\ Pages \subseteq Nat
    /\ NotPresent \notin Nat
    \* 2^20 pages and at most 2^20 blocks, counted in 32 bits
    /\ IsFiniteSet(Pages)
    /\ Cardinality(Pages) + MaxBlocks < CounterMod

VARIABLES
    pages,       \* pages[p]: the frame of the entry of p, or NotPresent
    iden         \* pages mapped to the frame of their own number

frameVars == <<bitmap, used_blocks, pages, iden>>

Present == {p \in Pages : pages[p] # NotPresent}

(* Pages whose frame came from pmm_alloc_block.                            *)
Backed == Present \ iden

TypeOK ==
    /\ PmmTypeOK
    /\ pages \in [Pages -> Nat \cup {NotPresent}]
    /\ iden \subseteq Present
    /\ \A p \in Backed : pages[p] \in Block

FramesInit ==
    /\ PmmInit
    /\ pages = [p \in Pages |-> NotPresent]
    /\ iden = {}

-----------------------------------------------------------------------------

(* allocate_page(dir, p, 0, ...) on a page that is not present: the frame  *)
(* is whatever pmm_alloc_block answers, a failure (0) included.            *)
AllocatePage(p) ==
    /\ pages[p] = NotPresent
    /\ pages' = [pages EXCEPT ![p] = pmm_alloc_result]
    /\ pmm_alloc_block
    /\ UNCHANGED iden

(* allocate_page(dir, p, p, ...) from allocate_region with iden_map: a     *)
(* frame number other than 0 is used as it is.  Page 0 passes frame 0 and  *)
(* is therefore AllocatePage(0).                                           *)
IdenMapPage(p) ==
    /\ p # 0
    /\ pages[p] = NotPresent
    /\ pages' = [pages EXCEPT ![p] = p]
    /\ iden' = iden \cup {p}
    /\ UNCHANGED pmmVars

(* free_page(dir, p, 1): the frame goes back, the entry is cleared.  Its   *)
(* callers pass pages that allocate_page backed with a frame.              *)
FreePage(p) ==
    /\ p \in Backed
    /\ pmm_free_block(pages[p])
    /\ pages' = [pages EXCEPT ![p] = NotPresent]
    /\ UNCHANGED iden

(* free_page(dir, p, 0), as copy_page_table calls it for the page it       *)
(* mapped over a given frame: the entry is cleared, the frame is kept.     *)
UnmapPage(p) ==
    /\ p \in iden
    /\ pages' = [pages EXCEPT ![p] = NotPresent]
    /\ iden' = iden \ {p}
    /\ UNCHANGED pmmVars

FramesNext ==
    \E p \in Pages :
        \/ AllocatePage(p)
        \/ IdenMapPage(p)
        \/ FreePage(p)
        \/ UnmapPage(p)

FramesSpec == FramesInit /\ [][FramesNext]_frameVars

-----------------------------------------------------------------------------

(* No two pages backed by the allocator share a frame, except frame 0:     *)
(* allocate_page cannot tell a failed pmm_alloc_block from block 0, so     *)
(* every page mapped when memory has run out lands on frame 0.             *)
ExclusiveFrames ==
    \A p, q \in Backed : pages[p] = pages[q] /\ pages[p] # 0 => p = q

(* For every block but 0 the bit in pmm_bitmap says exactly whether a page *)
(* holds the block: nothing is handed out twice and nothing leaks, through *)
(* exhaustion, failed allocations and frees of frame 0.                    *)
BitmapExact ==
    \A b \in Block \ {0} : b \in bitmap <=> \E p \in Backed : pages[p] = b

(* used_blocks drifts from the number of bits set (block 0 is counted once *)
(* per failed search and uncounted once per failed allocation), but never  *)
(* far enough to refuse a request while a scanned block is free: a page    *)
(* mapped in that state gets a block that was free.                        *)
AllocationFindsFreeBlock ==
    [][\A p \in Pages :
          (AllocatePage(p) /\ ~(Scanned \subseteq bitmap)) =>
              pages'[p] \in Scanned \ bitmap]_frameVars

=============================================================================
