-------------------------------- MODULE Boot --------------------------------
(***************************************************************************)
(* Bringing up memory: pmm_init (src/kernel/memory/pmm.c) and vmm_init     *)
(* (src/kernel/memory/vmm.c), up to the point where the kernel runs on the *)
(* page tables it has built itself.                                        *)
(*                                                                         *)
(* Until switch_page_directory loads CR3, the processor runs on the boot   *)
(* directory of entry.asm, which maps the addresses a and KERN_BASE + a to *)
(* physical address a, for 4 MiB.  A store outside it cannot be handled    *)
(* (there is no page fault handler yet) and ends in the state "fault".     *)
(*                                                                         *)
(* Page numbers stand for page addresses; byte addresses are used where    *)
(* the code is not page aligned (the bitmap, temp_mem).  The rw and user   *)
(* bits of the entries are left out.                                       *)
(***************************************************************************)
EXTENDS Pmm

CONSTANTS
    PageSize,      \* PAGE_SIZE, also sizeof(page_table_t)
    TableSpan,     \* pages mapped by one page table (1024)
    KernPage,      \* KERN_BASE / PAGE_SIZE
    KernelPages,   \* pages in 4 MiB: the boot mapping and the kernel mapping
    HeapPages,     \* KHEAP_INITIAL_SIZE / PAGE_SIZE
    IdenLast,      \* last page of the low identity mapping, 0x10000 / PAGE_SIZE
    KernelEnd,     \* kernel_end_phys
    ModEnds        \* the mod_end values a boot module may have

KernBase == KernPage * PageSize

BootMapBytes == KernelPages * PageSize

HighEnd == KernPage + KernelPages + HeapPages

HighPages == KernPage .. (HighEnd - 1)

LowPages == 0 .. IdenLast

MappedPages == LowPages \cup HighPages

Tables == {p \div TableSpan : p \in MappedPages}

ASSUME BootAssumption ==
    /\ {PageSize, TableSpan, KernPage, KernelPages, HeapPages} \subseteq Nat \ {0}
    /\ {IdenLast, KernelEnd} \cup ModEnds \subseteq Nat
    /\ IsFiniteSet(ModEnds)
    /\ IdenLast < KernPage
    /\ IdenLast < KernelPages + HeapPages
    \* enough memory for every page vmm_init maps, and one for page 0
    /\ KernelPages + HeapPages < ScannedCount

VARIABLES
    pc,            \* the step of pmm_init / vmm_init that comes next
    modules,       \* mod_end of every module tag the loader passed
    bitmap_addr,   \* bitmap_addr, a physical byte address
    temp_mem,      \* temp_mem, as an offset from KERN_BASE
    kernel_dir,    \* kernel_page_dir, as an offset from KERN_BASE
    ref_tables,    \* ref_tables[d]: the table's offset from KERN_BASE, or NoTable
    pde,           \* tables[d].frame, meaningful when ref_tables[d] is set
    pte,           \* pte[p]: the frame of page p, or NoFrame
    i,             \* the loop variable: the next page to map
    cr3            \* the frame in CR3, or NoFrame while the boot directory is used

bootVars == <<pc, modules, bitmap_addr, temp_mem, kernel_dir, ref_tables, pde,
              pte, i, cr3>>
vars == <<bootVars, pmmVars>>

NoFrame == -1
NoTable == -1

Init ==
    /\ PmmInit
    /\ pc = "pmm_init"
    /\ modules \in SUBSET ModEnds
    /\ bitmap_addr = 0
    /\ temp_mem = 0
    /\ kernel_dir = 0
    /\ ref_tables = [d \in Tables |-> NoTable]
    /\ pde = [d \in Tables |-> NoFrame]
    /\ pte = [p \in MappedPages |-> NoFrame]
    /\ i = 0
    /\ cr3 = NoFrame

-----------------------------------------------------------------------------

(* align_to(n, 4).                                                         *)
align_to(n, align) == IF n % align = 0 THEN n ELSE n + (align - (n % align))

\* Mutant: ALIGN rounds down.
ALIGN_down(a) == a - (a % PageSize)

(* ALIGN: always the start of the NEXT page, for an aligned address too    *)
(* (IS_ALIGN is never true, so dumb_kmalloc always uses it).               *)
ALIGN(a) == (a - (a % PageSize)) + PageSize

(* The bytes [a, a + n) above KERN_BASE are covered by the boot mapping.   *)
BootMapped(a, n) == a + n =< BootMapBytes

pmm_bitmap == align_to(bitmap_addr, 4)
pmm_bitmap_size == MaxBlocks \div 8

(* pmm.c:75 compares the physical bitmap_addr with a virtual limit.        *)
KernelTooLarge(a) == a > KernBase + BootMapBytes

(* pmm_init: the bitmap goes behind the kernel and its last module.        *)
pmm_init ==
    /\ pc = "pmm_init"
    /\ bitmap_addr' = Max(modules \cup {KernelEnd})
    /\ pc' = CASE KernelTooLarge(bitmap_addr') -> "panic"
               [] ~BootMapped(align_to(bitmap_addr', 4), pmm_bitmap_size) -> "fault"
               [] OTHER -> "vmm_init"
    /\ UNCHANGED <<modules, temp_mem, kernel_dir, ref_tables, pde, pte, i, cr3,
                   pmmVars>>

(* vmm_init up to its first loop: dumb_kmalloc and memset of the kernel's  *)
(* page directory, two pages long.                                         *)
vmm_init ==
    LET start == pmm_bitmap + pmm_bitmap_size
    IN  /\ pc = "vmm_init"
        /\ kernel_dir' = ALIGN(start)
        /\ temp_mem' = start + 2 * PageSize
        /\ i' = KernPage
        /\ pc' = IF BootMapped(kernel_dir', 2 * PageSize) THEN "high" ELSE "fault"
        /\ UNCHANGED <<modules, bitmap_addr, ref_tables, pde, pte, cr3, pmmVars>>

\* Mutant: a table takes as much memory as a directory.
allocate_table_two(d) ==
    IF ref_tables[d] # NoTable
    THEN UNCHANGED <<ref_tables, pde, temp_mem>>
    ELSE /\ ref_tables' = [ref_tables EXCEPT ![d] = ALIGN(temp_mem)]
         /\ pde' = [pde EXCEPT ![d] = ALIGN(temp_mem) \div PageSize]
         /\ temp_mem' = temp_mem + 2 * PageSize

(* The first half of allocate_page before the heap exists: a missing page  *)
(* table is taken from dumb_kmalloc; virt2phys subtracts KERN_BASE.        *)
allocate_table(d) ==
    IF ref_tables[d] # NoTable
    THEN UNCHANGED <<ref_tables, pde, temp_mem>>
    ELSE /\ ref_tables' = [ref_tables EXCEPT ![d] = ALIGN(temp_mem)]
         /\ pde' = [pde EXCEPT ![d] = ALIGN(temp_mem) \div PageSize]
         /\ temp_mem' = temp_mem + PageSize

(* memset of a new table faults when the table is out of the boot mapping. *)
TableReachable(d) ==
    ref_tables[d] = NoTable => BootMapped(ALIGN(temp_mem), PageSize)

(* The second half of allocate_page: an entry that is not present gets the *)
(* frame given, or one from pmm_alloc_block when the frame given is 0.     *)
allocate_page(p, frame) ==
    /\ allocate_table(p \div TableSpan)
    /\ \/ /\ pte[p] # NoFrame
          /\ UNCHANGED <<pte, pmmVars>>
       \/ /\ pte[p] = NoFrame
          /\ frame # 0
          /\ pte' = [pte EXCEPT ![p] = frame]
          /\ UNCHANGED pmmVars
       \/ /\ pte[p] = NoFrame
          /\ frame = 0
          /\ pte' = [pte EXCEPT ![p] = pmm_alloc_result]
          /\ pmm_alloc_block

\* Mutant: the loop starts over with the heap without advancing the page.
map_high_skip ==
    /\ pc = "high"
    /\ TableReachable(i \div TableSpan)
    /\ allocate_page(i, 0)
    /\ i' = IF i + 2 < HighEnd THEN i + 2 ELSE 0
    /\ pc' = IF i + 2 < HighEnd THEN "high" ELSE "low"
    /\ UNCHANGED <<modules, bitmap_addr, kernel_dir, cr3>>

(* One round of the two loops over the kernel's 4 MiB and the heap.        *)
map_high ==
    /\ pc = "high"
    /\ TableReachable(i \div TableSpan)
    /\ allocate_page(i, 0)
    /\ i' = IF i + 1 < HighEnd THEN i + 1 ELSE 0
    /\ pc' = IF i + 1 < HighEnd THEN "high" ELSE "low"
    /\ UNCHANGED <<modules, bitmap_addr, kernel_dir, cr3>>

\* Mutant: page 0 is mapped to frame 0, which "iden_map" would suggest.
map_low_zero ==
    /\ pc = "low"
    /\ TableReachable(i \div TableSpan)
    /\ allocate_table(i \div TableSpan)
    /\ pte' = [pte EXCEPT ![i] = i]
    /\ i' = i + 1
    /\ pc' = IF i + 1 =< IdenLast THEN "low" ELSE "switch"
    /\ UNCHANGED <<modules, bitmap_addr, kernel_dir, cr3, pmmVars>>

(* One round of allocate_region(kernel_page_dir, 0, 0x10000, 1, ...).      *)
map_low ==
    /\ pc = "low"
    /\ TableReachable(i \div TableSpan)
    /\ allocate_page(i, i)
    /\ i' = i + 1
    /\ pc' = IF i + 1 =< IdenLast THEN "low" ELSE "switch"
    /\ UNCHANGED <<modules, bitmap_addr, kernel_dir, cr3>>

(* The memset of a new page table leaves the boot mapping.                 *)
table_fault ==
    /\ pc \in {"high", "low"}
    /\ ~TableReachable(i \div TableSpan)
    /\ pc' = "fault"
    /\ UNCHANGED <<modules, bitmap_addr, temp_mem, kernel_dir, ref_tables, pde,
                   pte, i, cr3, pmmVars>>

(* switch_page_directory: CR3 gets the directory's address minus KERN_BASE *)
(* (virt2phys before paging_enabled) and is live at once, because entry.asm*)
(* has already turned paging on; enable_paging then sets paging_enabled.   *)
switch_page_directory ==
    /\ pc = "switch"
    /\ cr3' = kernel_dir \div PageSize
    /\ pc' = "done"
    /\ UNCHANGED <<modules, bitmap_addr, temp_mem, kernel_dir, ref_tables, pde,
                   pte, i, pmmVars>>

Next ==
    \/ pmm_init
    \/ vmm_init
    \/ map_high
    \/ map_low
    \/ table_fault
    \/ switch_page_directory

Spec == Init /\ [][Next]_vars /\ WF_vars(Next)

-----------------------------------------------------------------------------

(* Every page of the kernel's 4 MiB and of the initial heap that is mapped *)
(* has the frame of its own offset from KERN_BASE, although vmm_init takes *)
(* the frames from the allocator one by one and never says which it wants. *)
(* The switch of CR3 is only survivable because of it: code, stack and     *)
(* tables stay where the boot mapping had them.                            *)
DirectMap ==
    \A p \in HighPages : pte[p] # NoFrame => pte[p] = p - KernPage

(* The pieces of memory handed out before the heap exists.                 *)
TableBytes(d) == ref_tables[d] .. (ref_tables[d] + PageSize - 1)
DirBytes == kernel_dir .. (kernel_dir + 2 * PageSize - 1)
BitmapBytes == pmm_bitmap .. (pmm_bitmap + pmm_bitmap_size - 1)

(* dumb_kmalloc advances temp_mem from the unaligned address but returns   *)
(* the aligned one; still no two of the bitmap, the directory and the page *)
(* tables overlap, and each table starts on the page its directory entry   *)
(* names.                                                                  *)
TablesDisjoint ==
    pc \in {"high", "low", "switch", "done"} =>
        /\ DirBytes \cap BitmapBytes = {}
        /\ \A d \in Tables : ref_tables[d] # NoTable =>
              /\ ref_tables[d] = pde[d] * PageSize
              /\ TableBytes(d) \cap (DirBytes \cup BitmapBytes) = {}
              /\ \A e \in Tables \ {d} : ref_tables[e] # NoTable =>
                    TableBytes(d) \cap TableBytes(e) = {}

(* Page 0 does not map frame 0: no other page shares its frame, so a store *)
(* through a null pointer (list_insert_front on an empty list,             *)
(* irq_handler before the first task) hits no memory of the kernel.        *)
NullPageIsolated ==
    pc = "done" =>
        /\ pte[0] # NoFrame
        /\ \A p \in MappedPages \ {0} : pte[p] # pte[0]

(* The bitmap, the directory (two pages) and the tables, each preceded by  *)
(* what ALIGN skips, end below 4 MiB.                                      *)
Room ==
    align_to(Max(modules \cup {KernelEnd}), 4) + pmm_bitmap_size
        + (3 + Cardinality(Tables)) * PageSize =< BootMapBytes

(* With a kernel and modules that leave room for the tables below 4 MiB    *)
(* the bring-up never faults or panics and reaches its end.                *)
BootCompletes == Room => <>(pc = "done")

=============================================================================
