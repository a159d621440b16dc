------------------------------- MODULE Kheap --------------------------------
(***************************************************************************)
(* The kernel heap: malloc, kmalloc and kmalloc_a of                       *)
(* src/kernel/memory/kheap.c on top of ksbrk and allocate_page of          *)
(* src/kernel/memory/vmm.c.                                                *)
(*                                                                         *)
(* ksbrk maps pages to grow the heap; a page whose table is missing makes  *)
(* allocate_page call kmalloc_a, and so malloc and ksbrk again.  The calls *)
(* are a stack of frames, one per malloc in progress.                      *)
(*                                                                         *)
(* Addresses and sizes count 4-byte words.  Nothing in the running kernel  *)
(* frees memory yet, so the free list stays empty and bestfit finds        *)
(* nothing.  Physical blocks do not run out here (PageFrames).             *)
(***************************************************************************)
EXTENDS Integers, Sequences, FiniteSets

CONSTANTS
    PageSize,     \* PAGE_SIZE in words, also sizeof(page_table_t)
    TableSpan,    \* pages mapped by one page table
    HeapStart,    \* KHEAP_START
    HeapInitial,  \* KHEAP_INITIAL_SIZE
    HeapMax,      \* KHEAP_MAX_ADDRESS
    Sizes,        \* the sizes callers of kmalloc ask for, in words
    PageSizes,    \* the sizes callers of kmalloc_a ask for
    MaxDepth,     \* calls of malloc in each other the kernel stack can hold
    Null

ASSUME KheapAssumption ==
    /\ {PageSize, TableSpan, HeapInitial, MaxDepth} \subseteq Nat \ {0}
    /\ {HeapStart, HeapMax} \subseteq Nat
    /\ Sizes \cup PageSizes \subseteq Nat \ {0}
    /\ PageSize % 4 = 0
    \* vmm_init has mapped the initial heap, to the end of a page table
    /\ HeapStart % PageSize = 0
    /\ (HeapStart + HeapInitial) % (PageSize * TableSpan) = 0
    \* no caller asks for more than a page table maps, 4 MiB
    /\ \A n \in Sizes \cup PageSizes : n + PageSize + 8 =< PageSize * TableSpan
    /\ Null \notin Nat

VARIABLES
    heap_curr, heap_end,
    head, tail,    \* head and tail, the first and the last block
    tables,        \* the page tables kernel_page_dir has
    pages,         \* the pages of the heap that are mapped
    allocs,        \* what was handed out: block, payload and what was asked for
    hits,          \* <<k, w>>: malloc has stored to word w of the k-th payload
    frames,        \* the calls of malloc in progress, the innermost first
    outcome        \* "ok", or how the system came to a stop

vars == <<heap_curr, heap_end, head, tail, tables, pages, allocs, hits, frames, outcome>>

page(w) == w \div PageSize

table(w) == page(w) \div TableSpan

InitialPages == page(HeapStart) .. (page(HeapStart + HeapInitial) - 1)

InitialTables == {p \div TableSpan : p \in InitialPages}

Init ==
    /\ heap_curr = HeapStart
    /\ heap_end = HeapStart + HeapInitial
    /\ head = Null
    /\ tail = Null
    /\ tables = InitialTables
    /\ pages = InitialPages
    /\ allocs = <<>>
    /\ hits = {}
    /\ frames = <<>>
    /\ outcome = "ok"

-----------------------------------------------------------------------------

(* roundedSize: a multiple of 16 bytes.                                    *)
rounded(n) == ((n + 3) \div 4) * 4

(* sizeof(struct Block) + sizeof(size_t), 16 bytes.                        *)
OVERHEAD == 4

\* Mutant: no room is added for the alignment.
padded_not(n, align) == n

(* kmalloc_int asks malloc for a page more when the result is aligned.     *)
padded(n, align) == IF align THEN n + PageSize ELSE n

(* A call of kmalloc_int, and in it of malloc, before ksbrk is entered.    *)
Request(n, align) ==
    [n |-> n, align |-> align, size |-> rounded(padded(n, align)) + OVERHEAD,
     pc |-> "sbrk", old |-> 0, runner |-> 0]

Top == Head(frames)

At(pc) == outcome = "ok" /\ frames # <<>> /\ Top.pc = pc

Boundary == Top.old + Top.size

kmalloc ==
    /\ outcome = "ok"
    /\ frames = <<>>
    /\ \/ \E n \in Sizes : frames' = <<Request(n, FALSE)>>
       \/ \E n \in PageSizes : frames' = <<Request(n, TRUE)>>
    /\ UNCHANGED <<heap_curr, heap_end, head, tail, tables, pages, allocs, hits, outcome>>

Stop(how) ==
    /\ outcome' = how
    /\ UNCHANGED <<heap_curr, heap_end, head, tail, tables, pages, allocs, hits, frames>>

(* save + sizeof(struct Block) on a size_t pointer: 12 words, not bytes.   *)
payload(b) == b + 12

\* Mutant: the trailing size is at the end of the block.
trailing_at_end(b, size) == b + size - 1

(* ptr + blockSize - sizeof(uint32_t) on a uint32_t pointer: as many words *)
(* as the block has bytes.                                                 *)
trailing(b, size) == b + 4 * size - 4

(* What kmalloc_int returns: the payload, or the next page boundary in it. *)
result(b, align) ==
    IF align THEN (page(payload(b)) + 1) * PageSize ELSE payload(b)

(* The payloads a store to word w falls in.                                *)
HitBy(w) ==
    {<<k, w - allocs[k].addr>> : k \in {j \in DOMAIN allocs :
                                          w \in allocs[j].addr .. (allocs[j].addr + allocs[j].len - 1)}}

(* The rest of malloc for block b: the size is stored at both "ends".  The *)
(* second store may go to a page that is not mapped.                       *)
malloc_block(b) ==
    IF page(trailing(b, Top.size)) \notin pages
    THEN /\ outcome' = "page_fault"
         /\ UNCHANGED <<head, tail, allocs, hits, frames>>
    ELSE /\ head' = IF head = Null THEN b ELSE head
         /\ tail' = b
         /\ hits' = hits \cup HitBy(b) \cup HitBy(trailing(b, Top.size))
         /\ allocs' = Append(allocs, [base |-> b, size |-> Top.size,
                                      addr |-> result(b, Top.align), len |-> Top.n])
         /\ frames' = Tail(frames)
         /\ UNCHANGED outcome

(* ksbrk when the block fits below heap_end.                               *)
ksbrk_fits ==
    /\ At("sbrk")
    /\ heap_curr + Top.size =< heap_end
    /\ heap_curr' = heap_curr + Top.size
    /\ malloc_block(heap_curr)
    /\ UNCHANGED <<heap_end, tables, pages>>

(* ksbrk at the heap's limit: malloc goes on with NULL as its block, stores *)
(* its sizes there and returns an address near it.  The model ends here and *)
(* does not follow those stores: the limit is 256 MiB above KERN_BASE, and  *)
(* no caller in the kernel comes near it.                                   *)
ksbrk_fails ==
    /\ At("sbrk")
    /\ heap_curr + Top.size > heap_end
    /\ heap_curr + Top.size > HeapMax
    /\ Stop("null_block")

ksbrk_grows ==
    /\ At("sbrk")
    /\ heap_curr + Top.size > heap_end
    /\ heap_curr + Top.size =< HeapMax
    /\ frames' = [frames EXCEPT ![1].pc = "grow", ![1].old = heap_curr,
                                ![1].runner = heap_end]
    /\ UNCHANGED <<heap_curr, heap_end, head, tail, tables, pages, allocs, hits, outcome>>

\* Mutant: the runner stays.
allocate_page_stays ==
    /\ At("grow")
    /\ Top.runner < Boundary
    /\ table(Top.runner) \in tables
    /\ pages' = pages \cup {page(Top.runner)}
    /\ UNCHANGED <<heap_curr, heap_end, head, tail, tables, allocs, hits, frames, outcome>>

(* One round of ksbrk's loop over a page whose table exists.               *)
allocate_page ==
    /\ At("grow")
    /\ Top.runner < Boundary
    /\ table(Top.runner) \in tables
    /\ pages' = pages \cup {page(Top.runner)}
    /\ frames' = [frames EXCEPT ![1].runner = @ + PageSize]
    /\ UNCHANGED <<heap_curr, heap_end, head, tail, tables, allocs, hits, outcome>>

(* allocate_page needs a table and calls kmalloc_a for it.                 *)
allocate_table ==
    /\ At("grow")
    /\ Top.runner < Boundary
    /\ table(Top.runner) \notin tables
    /\ Len(frames) < MaxDepth
    /\ frames' = <<Request(PageSize, TRUE), [Top EXCEPT !.pc = "table"]>> \o Tail(frames)
    /\ UNCHANGED <<heap_curr, heap_end, head, tail, tables, pages, allocs, hits, outcome>>

stack_overflow ==
    /\ At("grow")
    /\ Top.runner < Boundary
    /\ table(Top.runner) \notin tables
    /\ Len(frames) = MaxDepth
    /\ Stop("overflow")

(* Back in allocate_page: the new table is cleared and entered.            *)
enter_table ==
    /\ At("table")
    /\ tables' = tables \cup {table(Top.runner)}
    /\ frames' = [frames EXCEPT ![1].pc = "grow"]
    /\ UNCHANGED <<heap_curr, heap_end, head, tail, pages, allocs, hits, outcome>>

(* All pages are there, but a table has been taken from the heap meanwhile.*)
restart_sbrk ==
    /\ At("grow")
    /\ Top.runner >= Boundary
    /\ Top.old # heap_curr
    /\ frames' = [frames EXCEPT ![1].pc = "sbrk"]
    /\ UNCHANGED <<heap_curr, heap_end, head, tail, tables, pages, allocs, hits, outcome>>

update_boundary ==
    /\ At("grow")
    /\ Top.runner >= Boundary
    /\ Top.old = heap_curr
    /\ heap_end' = Top.runner
    /\ heap_curr' = Boundary
    /\ malloc_block(Top.old)
    /\ UNCHANGED <<tables, pages>>

(* What a call of malloc does by itself.                                   *)
Step ==
    \/ ksbrk_fits
    \/ ksbrk_fails
    \/ ksbrk_grows
    \/ allocate_page
    \/ allocate_table
    \/ stack_overflow
    \/ enter_table
    \/ restart_sbrk
    \/ update_boundary

Next == kmalloc \/ Step

Spec == Init /\ [][Next]_vars /\ WF_vars(Step)

-----------------------------------------------------------------------------

Payload(k) == allocs[k].addr .. (allocs[k].addr + allocs[k].len - 1)

(* No two of the payloads handed out share a word, whatever malloc was in  *)
(* the middle of when it was called again, and each is mapped under a page *)
(* table that vmm_init created: it is there in every page directory copied *)
(* from kernel_page_dir, and no task lacks what another has allocated.     *)
PayloadsDisjoint ==
    \A k \in DOMAIN allocs :
        /\ \A w \in Payload(k) : page(w) \in pages /\ table(w) \in InitialTables
        /\ \A j \in DOMAIN allocs \ {k} : Payload(j) \cap Payload(k) = {}

(* malloc's own stores overlap the payloads: the size of the next block is *)
(* written 32 bytes before the rounded end of an allocation, and nowhere   *)
(* else.  List nodes and lists (12 bytes) are therefore never damaged, nor *)
(* is the context task_create builds in the last 24 bytes of a stack.      *)
OnlyOneWordHit ==
    \A hit \in hits :
        LET a == allocs[hit[1]]
        IN  a.addr + hit[2] = a.base + a.size

(* malloc does not go on forever: it returns or the system stops.          *)
MallocReturns == (frames # <<>>) ~> (frames = <<>> \/ outcome # "ok")

=============================================================================
