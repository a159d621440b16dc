-------------------------------- MODULE Elf --------------------------------
(***************************************************************************)
(* elf_load (src/kernel/sys/elf.c): one step per program header.  A binary *)
(* is what the checks look at: whether its header is for this machine, its *)
(* program headers, and how long the file is.  Addresses are Span = 2^32   *)
(* in small and pages are Page bytes.  The page table and the memory are   *)
(* as vmm_init (src/kernel/memory/vmm.c) leaves them: BaseFrames frames    *)
(* from 0 on are mapped at KERN_BASE, and those from ImageFrame on hold the*)
(* kernel, its tables and its heap; pages 1 to IdenPages show the frame of *)
(* their own number, and page 0 a frame of its own.                        *)
(***************************************************************************)
EXTENDS Integers, Sequences, FiniteSets

CONSTANTS
    Span, Page, KERN_BASE,
    IdenPages,    \* last page of the identity mapping (16)
    ImageFrame,   \* frame in which the kernel image begins (1 MiB)
    BaseFrames,   \* frames that are mapped at KERN_BASE
    Frames        \* frames of the machine

BasePage == KERN_BASE \div Page

ASSUME ElfAssumption ==
    /\ {Span, Page, KERN_BASE, IdenPages, ImageFrame, BaseFrames, Frames} \subseteq Nat \ {0}
    /\ KERN_BASE < Span /\ KERN_BASE % Page = 0 /\ Span % Page = 0
    /\ IdenPages < ImageFrame /\ ImageFrame < BaseFrames /\ BaseFrames < Frames
    /\ IdenPages < BasePage

VARIABLES
    load,     \* the load under way: binary, next header, ret, and how far it is
    table,    \* the frames of the pages that are present in current_page_dir
    free,     \* frames that pmm_alloc_block may hand out
    mem       \* what each byte of the frames holds: Old, Zero, Foreign or a byte of the file

elf == <<load, table, free, mem>>

Addresses == 0 .. Span - 1
Segments == [type : {"LOAD", "NOTE"}, p_offset : Addresses, p_vaddr : Addresses,
             p_filesz : Addresses, p_memsz : Addresses]
Binary == [e_ok : BOOLEAN, ph : Seq(Segments), length : Addresses]
NoLoad == [e_ok |-> FALSE, ph |-> <<>>, length |-> 0, i |-> 1, ret |-> 0, at |-> "idle"]

Old == -1
Zero == 0
Foreign == -2    \* read from outside the file
Memory == 0 .. Frames * Page - 1

Add(a, b) == (a + b) % Span

\* What vmm_init has mapped.
BootTable ==
    [p \in (0 .. IdenPages) \union (BasePage .. BasePage + BaseFrames - 1) |->
        IF p = 0 THEN BaseFrames ELSE IF p <= IdenPages THEN p ELSE p - BasePage]

ElfInit ==
    /\ load = NoLoad
    /\ table = BootTable /\ free = BaseFrames + 1 .. Frames - 1
    /\ mem = [x \in Memory |-> Old]

\* The identification, machine and type in the header, taken together.
elf_check_header(binary) == binary.e_ok

\* elf_load up to elf_relocate.  A header that elf_check_header refuses sets
\* ret, and the program headers are gone through all the same.
elf_load(binary) ==
    /\ load.at # "run"
    /\ load' = [e_ok |-> binary.e_ok, ph |-> binary.ph, length |-> binary.length, i |-> 1,
                ret |-> IF elf_check_header(binary) THEN 0 ELSE -1, at |-> "run"]
    /\ UNCHANGED <<table, free, mem>>

\* Mutant: nobody looks where a segment ends.
refused_unchecked(s) == s.p_memsz < s.p_filesz

refused(s) == s.p_memsz < s.p_filesz \/ KERN_BASE <= Add(s.p_vaddr, s.p_memsz)

\* pmm_alloc_block for each of the pages that are new, in their order: the lowest
\* frame that is left, and frame 0 when none is.
Rank(S, x) == Cardinality({y \in S : y < x})
frame_of(new, p) ==
    LET fit == {f \in free : Rank(free, f) = Rank(new, p)}
    IN  IF fit = {} THEN 0 ELSE CHOOSE f \in fit : TRUE

\* The table after allocate_region.  The page of end_va is included; a page that
\* is present is left as it is.
allocate_region(start_va, end_va) ==
    LET new == ((start_va \div Page) .. (end_va \div Page)) \ DOMAIN table
    IN  [p \in DOMAIN table \union new |->
            IF p \in new THEN frame_of(new, p) ELSE table[p]]

\* Its loop passes the page of end_va, and never does when that is the last of all.
endless(end_va) == end_va \div Page = (Span \div Page) - 1

IsMapped(t, a) == a \div Page \in DOMAIN t
Physical(t, a) == t[a \div Page] * Page + (a % Page)

\* Byte k of the segment: memcpy takes it from the buffer that holds the file, or
\* from beyond it, and memset clears the rest.
InFile(s, k) == Add(s.p_offset, k) < load.length
SegmentByte(s, k) ==
    IF k >= s.p_filesz THEN Zero ELSE IF InFile(s, k) THEN 1 + Add(s.p_offset, k) ELSE Foreign

\* memcpy and memset ascend.  They stop at a byte that is not present, and memcpy
\* may stop at one whose source is outside the file, n bytes after the first.
Stores(t, s, n) ==
    /\ \A k \in 0 .. n - 1 : IsMapped(t, Add(s.p_vaddr, k))
    /\ \/ n = s.p_memsz
       \/ ~IsMapped(t, Add(s.p_vaddr, n))
       \/ n < s.p_filesz /\ ~InFile(s, n)

\* The bytes of the segment, of the first n, that are stored at x.
StoredAt(t, s, n, x) == {k \in 0 .. n - 1 : Physical(t, Add(s.p_vaddr, k)) = x}

\* Mutant: the tail is not cleared.
Fill_uncleared(t, s, n) ==
    [x \in Memory |->
        LET hits == StoredAt(t, s, n, x) \intersect (0 .. s.p_filesz - 1)
        IN  IF hits = {} THEN mem[x]
            ELSE SegmentByte(s, CHOOSE k \in hits : \A j \in hits : j <= k)]

\* Of two stores to one byte the later one counts.
Fill(t, s, n) ==
    [x \in Memory |->
        LET hits == StoredAt(t, s, n, x)
        IN  IF hits = {} THEN mem[x]
            ELSE SegmentByte(s, CHOOSE k \in hits : \A j \in hits : j <= k)]

KernelBytes == ImageFrame * Page .. BaseFrames * Page - 1

\* The first error ends elf_relocate and elf_load answers -1.
relocate_fails ==
    /\ load.at = "run" /\ load.i <= Len(load.ph)
    /\ load.ph[load.i].type = "LOAD" /\ refused(load.ph[load.i])
    /\ load' = [load EXCEPT !.ret = -1, !.at = "done"]
    /\ UNCHANGED <<table, free, mem>>

relocate_skips ==
    /\ load.at = "run" /\ load.i <= Len(load.ph)
    /\ load.ph[load.i].type # "LOAD"
    /\ load' = [load EXCEPT !.i = @ + 1]
    /\ UNCHANGED <<table, free, mem>>

\* allocate_region does not return: what it maps meanwhile is not followed.
relocate_hangs ==
    /\ load.at = "run" /\ load.i <= Len(load.ph)
    /\ LET s == load.ph[load.i]
       IN s.type = "LOAD" /\ ~refused(s) /\ endless(Add(s.p_vaddr, s.p_filesz))
    /\ load' = [load EXCEPT !.at = "hang"]
    /\ UNCHANGED <<table, free, mem>>

\* A loader that has stored over the kernel is "lost", and not followed further.
relocate_loads ==
    /\ load.at = "run" /\ load.i <= Len(load.ph)
    /\ LET s == load.ph[load.i]
           end_va == Add(s.p_vaddr, s.p_filesz)
           t == allocate_region(s.p_vaddr, end_va)
       IN /\ s.type = "LOAD" /\ ~refused(s) /\ ~endless(end_va)
          /\ table' = t /\ free' = free \ {t[p] : p \in DOMAIN t}
          /\ \E n \in 0 .. s.p_memsz :
                /\ Stores(t, s, n)
                /\ mem' = Fill(t, s, n)
                /\ load' = IF \E x \in KernelBytes : StoredAt(t, s, n, x) # {}
                           THEN [load EXCEPT !.at = "lost"]
                           ELSE IF n = s.p_memsz THEN [load EXCEPT !.i = @ + 1]
                           ELSE [load EXCEPT !.at = "fault"]

\* The last header is behind.
relocate_ends ==
    /\ load.at = "run" /\ load.i > Len(load.ph)
    /\ load' = [load EXCEPT !.at = "done"]
    /\ UNCHANGED <<table, free, mem>>

elf_relocate ==
    relocate_fails \/ relocate_skips \/ relocate_hangs \/ relocate_loads \/ relocate_ends

\* The loader by itself, for any binaries one after the other.
ElfNext == (\E binary \in Binary : elf_load(binary)) \/ elf_relocate
ElfSpec == ElfInit /\ [][ElfNext]_elf

(***************************************************************************)
(* Properties                                                              *)
(***************************************************************************)
Wraps(s) == s.p_vaddr + s.p_memsz >= Span
Outside(s) == s.type = "LOAD" /\ s.p_offset + s.p_filesz > load.length
NoneWraps == \A i \in DOMAIN load.ph : ~Wraps(load.ph[i])
NoneOutside == \A i \in DOMAIN load.ph : ~Outside(load.ph[i])
Bytes(start, n) == {Add(start, k) : k \in 0 .. n - 1}
Covering(a) == {i \in DOMAIN load.ph : load.ph[i].type = "LOAD"
                    /\ a \in Bytes(load.ph[i].p_vaddr, load.ph[i].p_memsz)}

\* Some page below the kernel was mapped when no frame was left.
Exhausted == \E p \in DOMAIN table : p < BasePage /\ table[p] = 0

\* The segment needs a page beyond the one in which its file contents end.
TooLong(s) == s.p_vaddr + s.p_memsz > ((s.p_vaddr + s.p_filesz) \div Page + 1) * Page

\* A load that answers 0 (elf.c:86) was of a binary for this machine, and each
\* byte of the image, read where the program will read it, holds what the last
\* segment that covers it says: its bytes of the file first, then zeros, whatever
\* the other segments share of its pages.  This is of binaries whose segments lie
\* in the file and below the end of the address space, as long as there are frames:
\* elf_relocate tests none of the three.  A load faults only in the zeros of a
\* segment, beyond the page in which its file contents end, the last page elf.c:52
\* maps, or in reading what is not in the file (elf.c:53).
ImageIsComplete ==
    /\ load.at = "done" /\ load.ret = 0 /\ NoneWraps /\ NoneOutside /\ ~Exhausted =>
          /\ load.e_ok
          /\ \A a \in Addresses : Covering(a) # {} =>
                LET i == CHOOSE j \in Covering(a) : \A k \in Covering(a) : k <= j
                    s == load.ph[i]
                IN  /\ IsMapped(table, a)
                    /\ mem[Physical(table, a)] = IF a - s.p_vaddr < s.p_filesz
                                                 THEN 1 + s.p_offset + (a - s.p_vaddr) ELSE Zero
    /\ load.at = "fault" /\ NoneWraps =>
          TooLong(load.ph[load.i]) \/ Outside(load.ph[load.i])

\* Loading a segment stores to no byte of the kernel, of its tables or of its heap,
\* by whatever page it reaches them, changes no page that was mapped and shows none
\* of those frames below KERN_BASE, even when memory is used up and page after page
\* gets frame 0 (vmm.c:75); as long as the segment's end does not exceed 32 bits
\* (elf.c:47 tests the sum after it has wrapped around).
KernelUntouched ==
    [][load.at = "run" /\ load.i <= Len(load.ph) /\ ~Wraps(load.ph[load.i]) =>
           /\ \A x \in KernelBytes : mem'[x] = mem[x]
           /\ \A p \in DOMAIN table : p \in DOMAIN table' /\ table'[p] = table[p]
           /\ \A p \in DOMAIN table' \ DOMAIN table :
                 p < BasePage /\ table'[p] \notin ImageFrame .. BaseFrames - 1]_elf
=============================================================================
