---------------------------- MODULE MemoryProofs ----------------------------
(***************************************************************************)
(* Proofs about the physical memory manager and its two users, the frames  *)
(* of a page directory (PageFrames) and the bring-up of paging (Boot), and *)
(* about the loader that fills the pages of a process (Elf), for every     *)
(* memory size, set of pages, kernel size and set of modules.              *)
(***************************************************************************)
EXTENDS PageFrames, Boot, Elf, FiniteSetTheorems, WellFoundedInduction, TLAPS

(* Every non-empty set of naturals has a least element, so Min denotes it. *)
LEMMA MinOfNaturals ==
    ASSUME NEW S \in SUBSET Nat, S # {}
    PROVE  /\ Min(S) \in S
           /\ \A x \in S : Min(S) =< x
<1> DEFINE R == OpToRel(<, Nat)
<1>1. IsWellFoundedOn(R, Nat)
  BY NatLessThanWellFounded, Zenon
<1> HIDE DEF R
<1>2. \E x \in S : \A y \in S : ~ (<<y, x>> \in R)
  BY <1>1, WFMin, Zenon
<1>3. PICK x \in S : \A y \in S : ~ (<<y, x>> \in R)
  BY <1>2, Zenon
<1>4. \A y \in S : x =< y
  <2> SUFFICES ASSUME NEW y \in S, ~ (x =< y) PROVE FALSE
    BY Zenon
  <2>1. y < x
    OBVIOUS
  <2>2. <<y, x>> \in R
    BY <2>1, Zenon DEF R, OpToRel
  <2> QED BY <2>2, <1>3, Zenon
<1> QED BY <1>4, Zenon DEF Min

(* As long as a scanned bit is clear, the search finds one.                *)
LEMMA FreeBlockFound ==
    ASSUME ~(Scanned \subseteq bitmap)
    PROVE  first_free_block \in Scanned \ bitmap
<1>1. Scanned \ bitmap # {} /\ Scanned \ bitmap \in SUBSET Nat
  BY DEF Scanned
<1> QED BY <1>1, MinOfNaturals, Zenon DEF first_free_block

(* first_free_block answers 0 or a scanned block whose bit is clear.       *)
LEMMA FirstFreeBlock ==
    ASSUME PmmTypeOK
    PROVE  /\ first_free_block \in Block
           /\ first_free_block # 0 => first_free_block \in Scanned \ bitmap
  BY FreeBlockFound, Zenon DEF first_free_block, Block

(* When the blocks below k are taken and no other, the search finds k.     *)
LEMMA FirstFreeIsNext ==
    ASSUME NEW k \in Nat, k < ScannedCount, ScannedCount \in Nat,
           bitmap = 0 .. (k - 1)
    PROVE  first_free_block = k
<1>1. k \in Scanned \ bitmap
  BY DEF Scanned
<1>2. \A b \in Scanned \ bitmap : k =< b
  BY DEF Scanned
<1>0. Scanned \subseteq Nat
  BY DEF Scanned
<1>3. Scanned \ bitmap # {} /\ Scanned \ bitmap \in SUBSET Nat
  BY <1>0, <1>1, Zenon
<1>4. /\ Min(Scanned \ bitmap) \in Scanned \ bitmap
      /\ Min(Scanned \ bitmap) =< k
  BY <1>1, <1>3, MinOfNaturals, Zenon
<1>5. Min(Scanned \ bitmap) = k
  BY <1>2, <1>3, <1>4
<1> QED BY <1>1, <1>5, Zenon DEF first_free_block

-----------------------------------------------------------------------------

(* The conjunction that is inductive: the three invariants of the run.     *)
IInv == TypeOK /\ ExclusiveFrames /\ BitmapExact

(* The invariant holds for an empty bitmap and directory.                  *)
LEMMA InitIInv == FramesInit => IInv
<1> SUFFICES ASSUME FramesInit PROVE IInv
  BY Zenon
<1>1. Backed = {} /\ Present = {}
  BY Zenon DEF FramesInit, Backed, Present
<1> QED
  BY <1>1, PmmAssumption
     DEF FramesInit, PmmInit, IInv, TypeOK, PmmTypeOK, ExclusiveFrames, BitmapExact

(* allocate_page with a frame from the allocator.                          *)
LEMMA AllocateIInv ==
    ASSUME IInv, NEW p \in Pages, AllocatePage(p)
    PROVE  IInv'
<1> DEFINE f == pmm_alloc_result
<1>0. PmmTypeOK /\ pages \in [Pages -> Nat \cup {NotPresent}]
  BY Zenon DEF IInv, TypeOK
<1>1. f \in Block /\ (f # 0 => f \in Scanned \ bitmap)
  BY <1>0, FirstFreeBlock, Zenon DEF pmm_alloc_result, Block
<1>2. f \in Nat /\ f # NotPresent
  BY <1>1, PagesAssumption DEF Block, Scanned
<1> HIDE DEF f
<1>3. pages' = [pages EXCEPT ![p] = f] /\ iden' = iden /\ p \notin Present
  BY Zenon DEF AllocatePage, f, Present
<1>4. Present' = Present \cup {p}
  BY <1>0, <1>2, <1>3, Zenon DEF Present
<1>5. Backed' = Backed \cup {p} /\ p \notin Backed
  BY <1>3, <1>4, Zenon DEF Backed, IInv, TypeOK
<1>6. \A q \in Backed : pages'[q] = pages[q]
  BY <1>0, <1>3, <1>5, Zenon DEF Backed, Present
<1>6a. pages'[p] = f
  BY <1>0, <1>3, Zenon
<1>7. bitmap' = bitmap \cup {f} \/ (f = 0 /\ bitmap' = bitmap)
  BY Zenon DEF AllocatePage, pmm_alloc_block, pmm_alloc_result, pmmVars, f
<1>8. \A b \in Block \ {0} : b \in bitmap' <=> (b \in bitmap \/ b = f)
  BY <1>7, Zenon
<1>9. TypeOK'
  <2>1. used_blocks' \in 0 .. (CounterMod - 1)
    BY <1>0, PmmAssumption DEF AllocatePage, pmm_alloc_block, pmmVars, PmmTypeOK
  <2>2. bitmap' \subseteq Block
    BY <1>0, <1>1, <1>7, Zenon DEF PmmTypeOK
  <2>3. pages' \in [Pages -> Nat \cup {NotPresent}]
    BY <1>0, <1>2, <1>3, Zenon
  <2>4. iden' \subseteq Present'
    BY <1>3, <1>4, Zenon DEF IInv, TypeOK
  <2>5. \A q \in Backed' : pages'[q] \in Block
    BY <1>1, <1>5, <1>6, <1>6a, Zenon DEF IInv, TypeOK
  <2> QED BY <2>1, <2>2, <2>3, <2>4, <2>5, Zenon DEF TypeOK, PmmTypeOK, Block, Scanned, ScannedCount
<1>10. ExclusiveFrames'
  <2>1. \A q \in Backed : pages[q] # 0 => pages[q] # f
    BY <1>1, Zenon DEF IInv, TypeOK, BitmapExact
  <2> QED BY <1>5, <1>6, <1>6a, <2>1 DEF IInv, ExclusiveFrames
<1>11. BitmapExact'
  BY <1>5, <1>6, <1>6a, <1>8, Zenon DEF IInv, BitmapExact, Block, Scanned, ScannedCount
<1> QED BY <1>9, <1>10, <1>11, Zenon DEF IInv

(* allocate_page with a given frame: the allocator is not involved.        *)
LEMMA IdenMapIInv ==
    ASSUME IInv, NEW p \in Pages, IdenMapPage(p)
    PROVE  IInv'
<1>0. PmmTypeOK /\ pages \in [Pages -> Nat \cup {NotPresent}]
  BY Zenon DEF IInv, TypeOK
<1>1. p \in Nat /\ p # NotPresent
  BY PagesAssumption, Zenon
<1>2. /\ pages' = [pages EXCEPT ![p] = p] /\ iden' = iden \cup {p}
      /\ p \notin Present /\ UNCHANGED pmmVars
  BY Zenon DEF IdenMapPage, Present
<1>3. Present' = Present \cup {p}
  BY <1>0, <1>1, <1>2, Zenon DEF Present
<1>4. Backed' = Backed
  BY <1>2, <1>3, Zenon DEF Backed
<1>5. \A q \in Backed : pages'[q] = pages[q]
  BY <1>0, <1>2, Zenon DEF Backed, Present
<1>6. TypeOK'
  BY <1>0, <1>1, <1>2, <1>3, <1>4, <1>5, Zenon
     DEF IInv, TypeOK, PmmTypeOK, pmmVars, Block, Scanned, ScannedCount
<1>7. ExclusiveFrames'
  BY <1>4, <1>5, Zenon DEF IInv, ExclusiveFrames
<1>8. BitmapExact'
  BY <1>2, <1>4, <1>5, Zenon DEF IInv, BitmapExact, pmmVars, Block, Scanned, ScannedCount
<1> QED BY <1>6, <1>7, <1>8, Zenon DEF IInv

(* free_page(..., 1): only the frame given back loses its bit.             *)
LEMMA FreeIInv ==
    ASSUME IInv, NEW p \in Pages, FreePage(p)
    PROVE  IInv'
<1>0. PmmTypeOK /\ pages \in [Pages -> Nat \cup {NotPresent}]
  BY Zenon DEF IInv, TypeOK
<1>2. /\ pages' = [pages EXCEPT ![p] = NotPresent] /\ iden' = iden
      /\ p \in Backed /\ bitmap' = bitmap \ {pages[p]}
  BY Zenon DEF FreePage, pmm_free_block
<1>3. Present' = Present \ {p}
  BY <1>0, <1>2, Zenon DEF Present
<1>4. Backed' = Backed \ {p}
  BY <1>2, <1>3, Zenon DEF Backed
<1>5. \A q \in Backed' : pages'[q] = pages[q]
  BY <1>0, <1>2, <1>4, Zenon DEF Backed, Present
<1>6. TypeOK'
  <2>1. used_blocks' \in 0 .. (CounterMod - 1)
    BY <1>0, PmmAssumption DEF FreePage, pmm_free_block, PmmTypeOK
  <2>2. iden' \subseteq Present'
    BY <1>2, <1>3, Zenon DEF IInv, TypeOK, Backed
  <2> QED
    BY <1>0, <1>2, <1>4, <1>5, <2>1, <2>2, Zenon
       DEF IInv, TypeOK, PmmTypeOK, Block, Scanned, ScannedCount
<1>7. ExclusiveFrames'
  BY <1>4, <1>5, Zenon DEF IInv, ExclusiveFrames
<1>8. BitmapExact'
  <2> SUFFICES ASSUME NEW b \in Block \ {0}
               PROVE  b \in bitmap' <=> \E q \in Backed' : pages'[q] = b
    BY Zenon DEF BitmapExact, Block, Scanned, ScannedCount
  <2>1. CASE b = pages[p]
    BY <1>2, <1>4, <1>5, <2>1, Zenon DEF IInv, ExclusiveFrames
  <2>2. CASE b # pages[p]
    BY <1>2, <1>4, <1>5, <2>2, Zenon DEF IInv, BitmapExact
  <2> QED BY <2>1, <2>2, Zenon
<1> QED BY <1>6, <1>7, <1>8, Zenon DEF IInv

(* free_page(..., 0): the bitmap is left alone.                            *)
LEMMA UnmapIInv ==
    ASSUME IInv, NEW p \in Pages, UnmapPage(p)
    PROVE  IInv'
<1>0. PmmTypeOK /\ pages \in [Pages -> Nat \cup {NotPresent}]
  BY Zenon DEF IInv, TypeOK
<1>2. /\ pages' = [pages EXCEPT ![p] = NotPresent] /\ iden' = iden \ {p}
      /\ p \in iden /\ UNCHANGED pmmVars
  BY Zenon DEF UnmapPage
<1>3. Present' = Present \ {p}
  BY <1>0, <1>2, Zenon DEF Present
<1>4. Backed' = Backed
  BY <1>2, <1>3, Zenon DEF Backed
<1>5. \A q \in Backed : pages'[q] = pages[q]
  BY <1>0, <1>2, Zenon DEF Backed, Present
<1>6. TypeOK'
  BY <1>0, <1>2, <1>3, <1>4, <1>5, Zenon
     DEF IInv, TypeOK, PmmTypeOK, pmmVars, Block, Scanned, ScannedCount
<1>7. ExclusiveFrames'
  BY <1>4, <1>5, Zenon DEF IInv, ExclusiveFrames
<1>8. BitmapExact'
  BY <1>2, <1>4, <1>5, Zenon DEF IInv, BitmapExact, pmmVars, Block, Scanned, ScannedCount
<1> QED BY <1>6, <1>7, <1>8, Zenon DEF IInv

(* Every step keeps the invariant.                                         *)
LEMMA StepIInv == IInv /\ [FramesNext]_frameVars => IInv'
<1>1. ASSUME IInv, FramesNext PROVE IInv'
  BY <1>1, AllocateIInv, IdenMapIInv, FreeIInv, UnmapIInv, Zenon DEF FramesNext
<1>2. ASSUME IInv, UNCHANGED frameVars PROVE IInv'
  BY <1>2, Zenon DEF frameVars, IInv, TypeOK, PmmTypeOK, ExclusiveFrames, BitmapExact,
              Backed, Present, Block, Scanned, ScannedCount
<1> QED BY <1>1, <1>2, Zenon

(* The invariant always holds.                                             *)
LEMMA AlwaysIInv == FramesSpec => []IInv
BY InitIInv, StepIInv, PTL DEF FramesSpec

(* Type correctness of the bitmap, the counter and the page entries.       *)
THEOREM TypeCorrect == FramesSpec => []TypeOK
BY AlwaysIInv, PTL DEF IInv

(* For every memory size and every set of pages, two pages that            *)
(* allocate_page backed share no frame but frame 0.                        *)
THEOREM FramesAreExclusive == FramesSpec => []ExclusiveFrames
BY AlwaysIInv, PTL DEF IInv

(* For every memory size and every set of pages, pmm_bitmap marks exactly  *)
(* the blocks other than 0 that a page holds.                              *)
THEOREM BitmapIsExact == FramesSpec => []BitmapExact
BY AlwaysIInv, PTL DEF IInv

(* used_blocks as a signed number: a counter above max_blocks has wrapped. *)
Signed == IF used_blocks =< MaxBlocks THEN used_blocks ELSE used_blocks - CounterMod

(* The drift of used_blocks: it exceeds the bits set by no more than the   *)
(* blocks that are never scanned, and a page that frame 0 stands in for    *)
(* makes it fall behind the pages at most once.                            *)
CounterClose ==
    /\ Cardinality(Backed) - Cardinality(Pages) =< Signed
    /\ Signed =< Cardinality(bitmap \cap Scanned) + (MaxBlocks - ScannedCount)

(* The search looks at no more blocks than there are.                      *)
LEMMA ScannedFits == ScannedCount \in Nat /\ ScannedCount =< MaxBlocks
<1>1. /\ MaxBlocks = WordBits * (MaxBlocks \div WordBits) + (MaxBlocks % WordBits)
      /\ MaxBlocks \div WordBits \in Nat /\ MaxBlocks % WordBits \in Nat
  BY PmmAssumption
<1>2. WordBits * (MaxBlocks \div WordBits) \in Nat
  BY <1>1, PmmAssumption
<1> QED BY <1>1, <1>2, PmmAssumption DEF ScannedCount

(* Sizes of the sets CounterClose compares.                                *)
LEMMA Sizes ==
    /\ Cardinality(Pages) \in Nat
    /\ IsFiniteSet(Backed) /\ Cardinality(Backed) \in Nat
    /\ Cardinality(Backed) =< Cardinality(Pages)
    /\ \A p \in Pages \ Backed : Cardinality(Backed) < Cardinality(Pages)
    /\ IsFiniteSet(bitmap \cap Scanned) /\ Cardinality(bitmap \cap Scanned) \in Nat
    /\ Cardinality(bitmap \cap Scanned) =< ScannedCount
    /\ ~(Scanned \subseteq bitmap) => Cardinality(bitmap \cap Scanned) < ScannedCount
    /\ Scanned \subseteq bitmap => Cardinality(bitmap \cap Scanned) = ScannedCount
<1>1. IsFiniteSet(Pages) /\ Cardinality(Pages) \in Nat
  BY PagesAssumption, FS_CardinalityType, Zenon
<1>2. Backed \in SUBSET Pages
  BY Zenon DEF Backed, Present
<1>3. /\ IsFiniteSet(Backed) /\ Cardinality(Backed) =< Cardinality(Pages)
      /\ Cardinality(Pages) = Cardinality(Backed) => Pages = Backed
  BY <1>1, <1>2, FS_Subset, Zenon
<1>4. Cardinality(Backed) \in Nat
  BY <1>3, FS_CardinalityType, Zenon
<1>5. IsFiniteSet(Scanned) /\ Cardinality(Scanned) = ScannedCount
  BY FS_Interval, ScannedFits DEF Scanned
<1>6. bitmap \cap Scanned \in SUBSET Scanned
  BY Zenon
<1>7. /\ IsFiniteSet(bitmap \cap Scanned)
      /\ Cardinality(bitmap \cap Scanned) =< ScannedCount
      /\ ScannedCount = Cardinality(bitmap \cap Scanned) => Scanned = bitmap \cap Scanned
  BY <1>5, <1>6, FS_Subset, Zenon
<1>8. Cardinality(bitmap \cap Scanned) \in Nat
  BY <1>7, FS_CardinalityType, Zenon
<1>9. Scanned \subseteq bitmap => bitmap \cap Scanned = Scanned
  BY Zenon
<1>10. \A p \in Pages \ Backed : Cardinality(Backed) < Cardinality(Pages)
  BY <1>1, <1>3, <1>4
<1>11. ~(Scanned \subseteq bitmap) => Cardinality(bitmap \cap Scanned) < ScannedCount
  BY <1>7, <1>8, ScannedFits
<1> QED BY <1>1, <1>3, <1>4, <1>5, <1>7, <1>8, <1>9, <1>10, <1>11, Zenon

(* The counter modulo CounterMod counts in the signed reading, as long as  *)
(* that stays between what the pages and the blocks allow.                 *)
LEMMA SignedSteps ==
    ASSUME used_blocks \in 0 .. CounterMod - 1,
           -Cardinality(Pages) =< Signed
    PROVE  /\ Signed \in Int /\ Signed =< MaxBlocks
           /\ pmm_exhausted <=> Signed = MaxBlocks
           /\ used_blocks' = (used_blocks + 1) % CounterMod /\ ~pmm_exhausted
                => Signed' = Signed + 1
           /\ used_blocks' = (used_blocks - 1) % CounterMod /\ -Cardinality(Pages) =< Signed - 1
                => Signed' = Signed - 1
<1>1. /\ MaxBlocks \in Nat /\ CounterMod \in Nat /\ Cardinality(Pages) \in Nat
      /\ Cardinality(Pages) + MaxBlocks < CounterMod
  BY PmmAssumption, PagesAssumption, Sizes, Zenon
<1>2. /\ (used_blocks + 1) % CounterMod =
            IF used_blocks = CounterMod - 1 THEN 0 ELSE used_blocks + 1
      /\ (used_blocks - 1) % CounterMod =
            IF used_blocks = 0 THEN CounterMod - 1 ELSE used_blocks - 1
  BY <1>1
<1> QED BY <1>1, <1>2 DEF Signed, pmm_exhausted

(* The counter starts at zero, with no page mapped.                        *)
LEMMA InitCounter == FramesInit => CounterClose
<1> SUFFICES ASSUME FramesInit PROVE CounterClose
  BY Zenon
<1>1. Backed = {} /\ bitmap \cap Scanned = {} /\ used_blocks = 0
  BY Zenon DEF FramesInit, PmmInit, Backed, Present
<1>2. Cardinality(Backed) = 0 /\ Cardinality(bitmap \cap Scanned) = 0
  BY <1>1, FS_EmptySet, Zenon
<1>3. Signed = 0
  BY <1>1, PmmAssumption DEF Signed
<1> QED BY <1>2, <1>3, Sizes, ScannedFits, PmmAssumption DEF CounterClose

(* allocate_page with a frame from the allocator.  A search that finds     *)
(* nothing counts frame 0 once more, but only below max_blocks.            *)
LEMMA AllocateCounter ==
    ASSUME IInv, CounterClose, NEW p \in Pages, AllocatePage(p)
    PROVE  CounterClose'
<1>0. /\ PmmTypeOK /\ pages \in [Pages -> Nat \cup {NotPresent}]
      /\ used_blocks \in 0 .. CounterMod - 1
  BY Zenon DEF IInv, TypeOK, PmmTypeOK
<1>1. /\ Cardinality(Backed) - Cardinality(Pages) =< Signed
      /\ Signed =< Cardinality(bitmap \cap Scanned) + (MaxBlocks - ScannedCount)
      /\ -Cardinality(Pages) =< Signed
      /\ Signed \in Int
  BY <1>0, Sizes, PmmAssumption DEF CounterClose, Signed
<1>2. pmm_alloc_result \in Nat /\ pmm_alloc_result # NotPresent
  BY <1>0, FirstFreeBlock, PagesAssumption DEF pmm_alloc_result, Block, Scanned
<1>3. Backed' = Backed \cup {p} /\ p \notin Backed
  BY <1>0, <1>2, Zenon DEF AllocatePage, Backed, Present, IInv, TypeOK
<1>4. Cardinality(Backed') = Cardinality(Backed) + 1
  BY <1>3, Sizes, FS_AddElement, Zenon
<1>5. CASE pmm_exhausted
  <2>1. Signed = MaxBlocks /\ bitmap' = bitmap /\ used_blocks' = used_blocks
    BY <1>0, <1>1, <1>5, SignedSteps, Zenon DEF AllocatePage, pmm_alloc_block, pmmVars
  <2>2. Signed' = Signed /\ Cardinality(bitmap' \cap Scanned) = Cardinality(bitmap \cap Scanned)
    BY <2>1, Zenon DEF Signed
  <2>3. Cardinality(Backed') =< Cardinality(Pages)
    BY <1>3, <1>4, Sizes
  <2>4. Cardinality(Backed') - Cardinality(Pages) =< Signed'
    BY <2>1, <2>2, <2>3, <1>4, Sizes, PmmAssumption
  <2> QED BY <1>1, <2>2, <2>4, Zenon DEF CounterClose, Scanned, ScannedCount
<1>6. CASE ~pmm_exhausted
  <2> DEFINE f == first_free_block
  <2>1. bitmap' = bitmap \cup {f} /\ used_blocks' = (used_blocks + 1) % CounterMod
    BY <1>6, Zenon DEF AllocatePage, pmm_alloc_block
  <2>2. Signed' = Signed + 1 /\ Signed < MaxBlocks
    BY <1>0, <1>1, <1>6, <2>1, SignedSteps, PmmAssumption
  <2>3. Cardinality(Backed') - Cardinality(Pages) =< Signed'
    BY <1>1, <1>4, <2>2, Sizes
  <2>4. CASE Scanned \subseteq bitmap
    <3>1. bitmap' \cap Scanned = bitmap \cap Scanned
      BY <2>1, <2>4, Zenon
    <3>2. Signed' =< Cardinality(bitmap' \cap Scanned) + (MaxBlocks - ScannedCount)
      <4>1. Cardinality(bitmap' \cap Scanned) = ScannedCount
        BY <2>4, <3>1, Sizes, Zenon
      <4> QED BY <1>1, <2>2, <4>1, ScannedFits, PmmAssumption
    <3> QED BY <2>3, <3>2, Zenon DEF CounterClose, Scanned, ScannedCount
  <2>5. CASE ~(Scanned \subseteq bitmap)
    <3>1. f \in Scanned \ bitmap
      BY <2>5, FreeBlockFound, Zenon
    <3> HIDE DEF f
    <3>2. bitmap' \cap Scanned = (bitmap \cap Scanned) \cup {f} /\ f \notin bitmap \cap Scanned
      BY <2>1, <3>1, Zenon
    <3>3. Cardinality(bitmap' \cap Scanned) = Cardinality(bitmap \cap Scanned) + 1
      BY <3>2, Sizes, FS_AddElement, Zenon
    <3>4. Signed' =< Cardinality(bitmap' \cap Scanned) + (MaxBlocks - ScannedCount)
      BY <1>1, <2>2, <3>3, Sizes, ScannedFits, PmmAssumption
    <3> QED BY <2>3, <3>4, Zenon DEF CounterClose, Scanned, ScannedCount
  <2> QED BY <2>4, <2>5, Zenon
<1> QED BY <1>5, <1>6, Zenon

(* free_page(..., 1): the counter and at most one bit go down.             *)
LEMMA FreeCounter ==
    ASSUME IInv, CounterClose, NEW p \in Pages, FreePage(p)
    PROVE  CounterClose'
<1>0. /\ pages \in [Pages -> Nat \cup {NotPresent}]
      /\ used_blocks \in 0 .. CounterMod - 1
  BY Zenon DEF IInv, TypeOK, PmmTypeOK
<1>1. /\ Cardinality(Backed) - Cardinality(Pages) =< Signed
      /\ Signed =< Cardinality(bitmap \cap Scanned) + (MaxBlocks - ScannedCount)
      /\ Signed \in Int
  BY <1>0, PmmAssumption DEF CounterClose, Signed
<1>2. /\ p \in Backed /\ bitmap' = bitmap \ {pages[p]}
      /\ used_blocks' = (used_blocks - 1) % CounterMod
  BY Zenon DEF FreePage, pmm_free_block
<1>3. Backed' = Backed \ {p}
  BY <1>0, Zenon DEF FreePage, Backed, Present
<1>4. Cardinality(Backed') = Cardinality(Backed) - 1 /\ Cardinality(Backed') \in Nat
  <2>1. Cardinality(Backed') = Cardinality(Backed) - 1 /\ IsFiniteSet(Backed')
    BY <1>2, <1>3, Sizes, FS_RemoveElement, Zenon
  <2> QED BY <2>1, FS_CardinalityType, Zenon
<1>5. Signed' = Signed - 1
  BY <1>0, <1>1, <1>2, <1>4, Sizes, SignedSteps
<1>6. bitmap' \cap Scanned = (bitmap \cap Scanned) \ {pages[p]}
  BY <1>2, Zenon
<1>7. Cardinality(bitmap' \cap Scanned) >= Cardinality(bitmap \cap Scanned) - 1
      /\ Cardinality(bitmap' \cap Scanned) \in Int
  <2> DEFINE S == bitmap \cap Scanned
             f == pages[p]
  <2>1. IsFiniteSet(S) /\ Cardinality(S) \in Nat
    BY Sizes, Zenon
  <2> HIDE DEF S, f
  <2>2. Cardinality(S \ {f}) = IF f \in S THEN Cardinality(S) - 1 ELSE Cardinality(S)
    BY <2>1, FS_RemoveElement, Zenon
  <2>3. Cardinality(S \ {f}) >= Cardinality(S) - 1 /\ Cardinality(S \ {f}) \in Int
    BY <2>1, <2>2
  <2> QED BY <1>6, <2>3, Zenon DEF S, f
<1>8. /\ Cardinality(Backed') - Cardinality(Pages) =< Signed'
      /\ Signed' =< Cardinality(bitmap' \cap Scanned) + (MaxBlocks - ScannedCount)
  BY <1>1, <1>4, <1>5, <1>7, Sizes, ScannedFits, PmmAssumption
<1> QED BY <1>8, Zenon DEF CounterClose, Scanned, ScannedCount

(* The steps that do not reach the allocator keep every size.              *)
LEMMA OtherCounter ==
    ASSUME IInv, CounterClose,
           (\E p \in Pages : IdenMapPage(p) \/ UnmapPage(p)) \/ UNCHANGED frameVars
    PROVE  CounterClose'
<1>0. pages \in [Pages -> Nat \cup {NotPresent}] /\ iden \subseteq Present
  BY Zenon DEF IInv, TypeOK
<1>1. UNCHANGED pmmVars
  BY Zenon DEF IdenMapPage, UnmapPage, frameVars, pmmVars
<1>2. Backed' = Backed
  <2>1. ASSUME NEW p \in Pages, IdenMapPage(p) PROVE Backed' = Backed
    BY <1>0, <2>1, PagesAssumption, Zenon DEF IdenMapPage, Backed, Present
  <2>2. ASSUME NEW p \in Pages, UnmapPage(p) PROVE Backed' = Backed
    BY <1>0, <2>2, Zenon DEF UnmapPage, Backed, Present
  <2>3. CASE UNCHANGED frameVars
    BY <2>3, Zenon DEF frameVars, Backed, Present
  <2> QED BY <2>1, <2>2, <2>3, Zenon
<1> QED BY <1>1, <1>2, Zenon DEF CounterClose, Signed, pmmVars, Scanned, ScannedCount

(* The counter always stays close.                                         *)
LEMMA AlwaysCounter == FramesSpec => [](IInv /\ CounterClose)
<1>1. IInv /\ CounterClose /\ [FramesNext]_frameVars => CounterClose'
  BY AllocateCounter, FreeCounter, OtherCounter, Zenon DEF FramesNext
<1> QED BY <1>1, InitIInv, InitCounter, StepIInv, PTL DEF FramesSpec

(* However many allocations have failed and whatever was freed since, for  *)
(* every memory size and number of pages: allocate_page gets a free block  *)
(* as long as first_free_block can see one.                                *)
THEOREM AllocationsFindFreeBlocks == FramesSpec => AllocationFindsFreeBlock
<1>1. ASSUME IInv, CounterClose, NEW p \in Pages, AllocatePage(p), ~(Scanned \subseteq bitmap)
      PROVE  pages'[p] \in Scanned \ bitmap
  <2>0. /\ pages \in [Pages -> Nat \cup {NotPresent}]
        /\ used_blocks \in 0 .. CounterMod - 1
    BY <1>1, Zenon DEF IInv, TypeOK, PmmTypeOK
  <2>1. Signed \in Int /\ -Cardinality(Pages) =< Signed
        /\ Signed =< Cardinality(bitmap \cap Scanned) + (MaxBlocks - ScannedCount)
    BY <1>1, <2>0, Sizes, PmmAssumption DEF CounterClose, Signed
  <2>2. Signed < MaxBlocks
    BY <1>1, <2>1, Sizes, ScannedFits, PmmAssumption
  <2>3. ~pmm_exhausted
    BY <2>0, <2>1, <2>2, SignedSteps, PmmAssumption
  <2>4. pages'[p] = first_free_block
    BY <1>1, <2>0, <2>3, Zenon DEF AllocatePage, pmm_alloc_result
  <2> QED BY <1>1, <2>4, FreeBlockFound, Zenon
<1>2. IInv /\ CounterClose =>
        [\A p \in Pages : (AllocatePage(p) /\ ~(Scanned \subseteq bitmap)) =>
              pages'[p] \in Scanned \ bitmap]_frameVars
  BY <1>1, Zenon
<1> QED BY <1>2, AlwaysCounter, PTL DEF AllocationFindsFreeBlock

-----------------------------------------------------------------------------

(* Blocks are taken in order: after k allocations exactly 0 .. k-1 are set.*)
Taken(k) == bitmap = 0 .. (k - 1) /\ used_blocks = k

(* The frame page 0 gets: the first block behind the kernel and the heap.  *)
NullFrame == KernelPages + HeapPages

LowFrame(p) == IF p = 0 THEN NullFrame ELSE p

(* The inductive invariant follows the loops of vmm_init.                  *)
HighFrames == \A p \in HighPages : pte[p] \in {NoFrame, p - KernPage}

BeforeLoops ==
    pc \in {"pmm_init", "vmm_init"} =>
        /\ Taken(0)
        /\ \A p \in MappedPages : pte[p] = NoFrame

InHighLoop ==
    pc = "high" =>
        /\ i \in HighPages
        /\ Taken(i - KernPage)
        /\ \A p \in HighPages : p >= i => pte[p] = NoFrame
        /\ \A p \in LowPages : pte[p] = NoFrame

InLowLoop ==
    pc = "low" =>
        /\ i \in LowPages
        /\ i = 0 => Taken(NullFrame)
        /\ \A p \in LowPages : pte[p] = IF p < i THEN LowFrame(p) ELSE NoFrame

AfterLoops ==
    pc \in {"switch", "done"} => \A p \in LowPages : pte[p] = LowFrame(p)

BInv ==
    /\ pte \in [MappedPages -> Nat \cup {NoFrame}]
    /\ HighFrames
    /\ BeforeLoops
    /\ InHighLoop
    /\ InLowLoop
    /\ AfterLoops

(* The page ranges of the two loops, and that block numbers stay in range. *)
LEMMA Ranges ==
    /\ HighPages \subseteq Nat /\ LowPages \subseteq Nat
    /\ HighPages \cap LowPages = {}
    /\ MappedPages = HighPages \cup LowPages
    /\ HighEnd \in Nat /\ KernPage \in Nat /\ HighEnd - KernPage = NullFrame
    /\ ScannedCount \in Nat /\ NullFrame \in Nat /\ NullFrame < ScannedCount
    /\ IdenLast < NullFrame /\ IdenLast \in Nat
    /\ KernPage \in HighPages /\ 0 \in LowPages
    /\ NullFrame < MaxBlocks /\ MaxBlocks \in Nat /\ MaxBlocks < CounterMod
    /\ CounterMod \in Nat
<1>1. /\ PageSize \in Nat \ {0} /\ TableSpan \in Nat \ {0}
      /\ KernPage \in Nat \ {0} /\ KernelPages \in Nat \ {0}
      /\ HeapPages \in Nat \ {0} /\ IdenLast \in Nat
  BY BootAssumption, Zenon
<1>2. ScannedCount \in Nat /\ ScannedCount =< MaxBlocks
  BY ScannedFits, Zenon
<1> QED
  BY <1>1, <1>2, BootAssumption, PmmAssumption
     DEF HighPages, LowPages, MappedPages, HighEnd, NullFrame

(* The invariant holds before pmm_init.                                    *)
LEMMA InitBInv == Init => BInv
<1> SUFFICES ASSUME Init PROVE BInv
  BY Zenon
<1>1. \A p \in MappedPages : pte[p] = NoFrame
  BY Zenon DEF Init
<1>2. pte \in [MappedPages -> Nat \cup {NoFrame}]
  BY Zenon DEF Init
<1>3. Taken(0)
  BY DEF Init, PmmInit, Taken
<1> QED
  BY <1>1, <1>2, <1>3, Ranges, Zenon
     DEF Init, BInv, HighFrames, BeforeLoops, InHighLoop, InLowLoop, AfterLoops

(* An allocation in a state where 0 .. k-1 are taken answers k.            *)
LEMMA AllocTakesNext ==
    ASSUME NEW k \in Nat, k =< NullFrame, Taken(k), pmm_alloc_block
    PROVE  pmm_alloc_result = k /\ bitmap' = 0 .. k /\ used_blocks' = k + 1
<1>1. k < ScannedCount /\ k < MaxBlocks /\ k + 1 < CounterMod
  BY Ranges
<1>2. first_free_block = k
  BY <1>1, FirstFreeIsNext, Ranges, Zenon DEF Taken
<1>3. ~pmm_exhausted
  BY <1>1, Ranges DEF pmm_exhausted, Taken
<1>4. bitmap' = (0 .. (k - 1)) \cup {k} /\ used_blocks' = (k + 1) % CounterMod
  BY <1>2, <1>3, Zenon DEF pmm_alloc_block, Taken
<1>5. (0 .. (k - 1)) \cup {k} = 0 .. k
  OBVIOUS
<1>6. (k + 1) % CounterMod = k + 1
  BY <1>1, Ranges
<1> QED BY <1>2, <1>3, <1>4, <1>5, <1>6, Zenon DEF pmm_alloc_result

(* A round of the loop over the kernel and the heap keeps the invariant.   *)
LEMMA HighStep ==
    ASSUME BInv, map_high
    PROVE  BInv'
<1>1. /\ pc = "high" /\ allocate_page(i, 0)
      /\ i' = IF i + 1 < HighEnd THEN i + 1 ELSE 0
      /\ pc' = IF i + 1 < HighEnd THEN "high" ELSE "low"
  BY Zenon DEF map_high
<1>2. /\ i \in HighPages /\ Taken(i - KernPage) /\ pte[i] = NoFrame
      /\ i \in Nat /\ i - KernPage \in Nat /\ i - KernPage < NullFrame
      /\ i \in MappedPages
  BY <1>1, Ranges DEF BInv, InHighLoop, HighPages
<1>3. pte' = [pte EXCEPT ![i] = pmm_alloc_result] /\ pmm_alloc_block
  BY <1>1, <1>2, Zenon DEF allocate_page
<1>4. /\ pmm_alloc_result = i - KernPage
      /\ bitmap' = 0 .. (i - KernPage) /\ used_blocks' = i - KernPage + 1
  <2> PICK k \in Nat : k = i - KernPage
    BY <1>2, Zenon
  <2>1. k =< NullFrame /\ Taken(k)
    BY <1>2, Ranges
  <2> QED BY <2>1, <1>3, AllocTakesNext, Zenon
<1>5. pte' = [pte EXCEPT ![i] = i - KernPage]
  BY <1>3, <1>4, Zenon
<1>6. pte' \in [MappedPages -> Nat \cup {NoFrame}]
  BY <1>2, <1>5, Zenon DEF BInv
<1>7. \A p \in MappedPages : pte'[p] = IF p = i THEN i - KernPage ELSE pte[p]
  BY <1>2, <1>5, Zenon DEF BInv
<1>8. HighFrames'
  BY <1>7, Ranges, Zenon DEF BInv, HighFrames, HighPages, HighEnd
<1>9. \A p \in LowPages : pte'[p] = NoFrame
  BY <1>1, <1>2, <1>7, Ranges DEF BInv, InHighLoop
<1>10. CASE i + 1 < HighEnd
  <2>1. pc' = "high" /\ i' = i + 1 /\ i' \in HighPages
    BY <1>1, <1>2, <1>10, Ranges DEF HighPages
  <2>2. i' - KernPage = i - KernPage + 1
    BY <2>1, <1>2, Ranges
  <2>3. Taken(i - KernPage)'
    <3>1. (i' - KernPage) - 1 = i - KernPage
      BY <2>2, <1>2
    <3> QED BY <1>4, <2>2, <3>1, Zenon DEF Taken
  <2>4. \A p \in HighPages : p >= i' => pte'[p] = NoFrame
    BY <2>1, <1>1, <1>2, <1>7, Ranges DEF BInv, InHighLoop
  <2>5. InHighLoop'
    BY <2>1, <2>3, <2>4, <1>9, Zenon DEF InHighLoop, HighPages, LowPages, HighEnd
  <2> QED
    BY <2>1, <2>5, <1>6, <1>8, Zenon
       DEF BInv, BeforeLoops, InLowLoop, AfterLoops
<1>11. CASE ~(i + 1 < HighEnd)
  <2>1. pc' = "low" /\ i' = 0
    BY <1>1, <1>11, Zenon
  <2>2. i - KernPage + 1 = NullFrame
    BY <1>2, <1>11, Ranges DEF HighPages
  <2>3. Taken(NullFrame)'
    <3>1. NullFrame - 1 = i - KernPage
      BY <2>2, <1>2
    <3> QED BY <1>4, <2>2, <3>1, Zenon DEF Taken, NullFrame
  <2>4. InLowLoop'
    BY <2>1, <2>3, <1>9, Ranges DEF InLowLoop, LowPages
  <2> QED
    BY <2>1, <2>4, <1>6, <1>8, Zenon
       DEF BInv, BeforeLoops, InHighLoop, AfterLoops
<1> QED BY <1>10, <1>11, Zenon

(* A round of the loop over the low pages keeps the invariant.             *)
LEMMA LowStep ==
    ASSUME BInv, map_low
    PROVE  BInv'
<1>1. /\ pc = "low" /\ allocate_page(i, i) /\ i' = i + 1
      /\ pc' = IF i + 1 =< IdenLast THEN "low" ELSE "switch"
  BY Zenon DEF map_low
<1>2. /\ i \in LowPages /\ (i = 0 => Taken(NullFrame)) /\ pte[i] = NoFrame
      /\ i \in Nat /\ i \in MappedPages
  <2>1. i \in LowPages /\ (i = 0 => Taken(NullFrame))
    BY <1>1, Zenon DEF BInv, InLowLoop
  <2>2. pte[i] = IF i < i THEN LowFrame(i) ELSE NoFrame
    BY <1>1, <2>1, Zenon DEF BInv, InLowLoop
  <2> QED BY <2>1, <2>2, Ranges
<1>3. pte' = [pte EXCEPT ![i] = LowFrame(i)]
  <2>1. CASE i = 0
    <3>1. pte' = [pte EXCEPT ![i] = pmm_alloc_result] /\ pmm_alloc_block
      BY <1>1, <1>2, <2>1, Zenon DEF allocate_page
    <3>2. pmm_alloc_result = NullFrame
      BY <3>1, <1>2, <2>1, AllocTakesNext, Ranges
    <3> QED BY <3>1, <3>2, <2>1, Zenon DEF LowFrame
  <2>2. CASE i # 0
    BY <1>1, <1>2, <2>2, Zenon DEF allocate_page, LowFrame
  <2> QED BY <2>1, <2>2, Zenon
<1>4. LowFrame(i) \in Nat
  BY <1>2, Ranges, Zenon DEF LowFrame
<1>5. pte' \in [MappedPages -> Nat \cup {NoFrame}]
  BY <1>2, <1>3, <1>4, Zenon DEF BInv
<1>6. \A p \in MappedPages : pte'[p] = IF p = i THEN LowFrame(i) ELSE pte[p]
  BY <1>2, <1>3, Zenon DEF BInv
<1>7. HighFrames'
  BY <1>2, <1>6, Ranges, Zenon DEF BInv, HighFrames, HighPages, HighEnd
<1>8. \A p \in LowPages : pte'[p] = IF p < i' THEN LowFrame(p) ELSE NoFrame
  BY <1>1, <1>2, <1>6, Ranges DEF BInv, InLowLoop
<1>9. CASE i + 1 =< IdenLast
  <2>1. pc' = "low" /\ i' \in LowPages /\ i' # 0
    BY <1>1, <1>2, <1>9, Ranges DEF LowPages
  <2>2. InLowLoop'
    BY <2>1, <1>8, Zenon DEF InLowLoop, LowPages, LowFrame, NullFrame
  <2> QED
    BY <2>1, <2>2, <1>5, <1>7, Zenon DEF BInv, BeforeLoops, InHighLoop, AfterLoops
<1>10. CASE ~(i + 1 =< IdenLast)
  <2>1. pc' = "switch" /\ \A p \in LowPages : p < i'
    BY <1>1, <1>2, <1>10, Ranges DEF LowPages
  <2>2. AfterLoops'
    BY <2>1, <1>8, Zenon DEF AfterLoops, LowPages, LowFrame, NullFrame
  <2> QED
    BY <2>1, <2>2, <1>5, <1>7, Zenon DEF BInv, BeforeLoops, InHighLoop, InLowLoop
<1> QED BY <1>9, <1>10, Zenon

(* The remaining steps map no page.                                        *)
LEMMA OtherSteps ==
    ASSUME BInv,
           pmm_init \/ vmm_init \/ table_fault \/ switch_page_directory
             \/ UNCHANGED vars
    PROVE  BInv'
<1> USE DEF BInv, HighFrames, BeforeLoops, InHighLoop, InLowLoop, AfterLoops,
            Taken, pmmVars
<1>1. CASE pmm_init
  BY <1>1, Zenon DEF pmm_init
<1>2. CASE vmm_init
  <2>1. KernPage - KernPage = 0 /\ KernPage \in HighPages
    BY Ranges
  <2> QED BY <1>2, <2>1, Ranges, Zenon DEF vmm_init
<1>3. CASE table_fault
  BY <1>3, Zenon DEF table_fault
<1>4. CASE switch_page_directory
  BY <1>4, Zenon DEF switch_page_directory
<1>5. CASE UNCHANGED vars
  BY <1>5, Zenon DEF vars, bootVars
<1> QED BY <1>1, <1>2, <1>3, <1>4, <1>5, Zenon

(* The invariant of vmm_init always holds.                                 *)
LEMMA AlwaysBInv == Spec => []BInv
<1>1. BInv /\ [Next]_vars => BInv'
  BY HighStep, LowStep, OtherSteps, Zenon DEF Next
<1> QED BY <1>1, InitBInv, PTL DEF Spec

(* vmm_init maps the kernel and the initial heap at their own offsets, for *)
(* every kernel, heap, page and memory size and every set of modules.      *)
THEOREM KernelIsDirectMapped == Spec => []DirectMap
<1>1. BInv => DirectMap
  BY Zenon DEF BInv, HighFrames, DirectMap
<1> QED BY <1>1, AlwaysBInv, PTL

(* The frame behind page 0 belongs to no other page, so a store through a  *)
(* null pointer cannot reach kernel memory.                                *)
THEOREM NullPageIsIsolated == Spec => []NullPageIsolated
<1>1. BInv => NullPageIsolated
  <2> SUFFICES ASSUME BInv, pc = "done"
               PROVE  /\ pte[0] # NoFrame
                      /\ \A p \in MappedPages \ {0} : pte[p] # pte[0]
    BY Zenon DEF NullPageIsolated
  <2>1. pte[0] = NullFrame
    BY Ranges, Zenon DEF BInv, AfterLoops, LowFrame
  <2>2. NullFrame # NoFrame
    BY Ranges DEF NoFrame
  <2>3. \A p \in HighPages : pte[p] # NullFrame
    BY <2>2, Ranges DEF BInv, HighFrames, HighPages
  <2>4. \A p \in LowPages \ {0} : pte[p] # NullFrame
    BY Ranges DEF BInv, AfterLoops, LowFrame, LowPages
  <2> QED BY <2>1, <2>2, <2>3, <2>4, Ranges, Zenon
<1> QED BY <1>1, AlwaysBInv, PTL

(* A finite set of naturals has an upper bound: a smallest set without one *)
(* would have one once an element is taken away.                           *)
LEMMA FiniteIsBounded ==
    ASSUME NEW S \in SUBSET Nat, IsFiniteSet(S)
    PROVE  \E n \in Nat : \A x \in S : x =< n
<1> DEFINE Bounded(T) == \E n \in Nat : \A x \in T : x =< n
           Wrong == {c \in Nat : \E T \in SUBSET S : Cardinality(T) = c /\ ~Bounded(T)}
<1> SUFFICES ASSUME ~Bounded(S) PROVE FALSE
  BY Zenon
<1>1. Cardinality(S) \in Wrong
  BY FS_CardinalityType, Zenon
<1>2. Wrong # {} /\ Wrong \in SUBSET Nat
  BY <1>1, Zenon
<1>3. Min(Wrong) \in Wrong /\ \A c \in Wrong : Min(Wrong) =< c
  BY <1>2, MinOfNaturals, Zenon
<1>4. PICK T \in SUBSET S : Cardinality(T) = Min(Wrong) /\ ~Bounded(T)
  BY <1>3, Zenon
<1>5. T # {}
  BY <1>4, Zenon
<1>6. PICK x \in T : TRUE
  BY <1>5, Zenon
<1>7. IsFiniteSet(T) /\ Cardinality(T) \in Nat
  BY <1>4, FS_Subset, FS_CardinalityType, Zenon
<1>8. Cardinality(T \ {x}) = Cardinality(T) - 1 /\ IsFiniteSet(T \ {x})
  BY <1>6, <1>7, FS_RemoveElement, Zenon
<1>9. Cardinality(T \ {x}) \in Nat
  BY <1>8, FS_CardinalityType, Zenon
<1>10. Bounded(T \ {x})
  <2> SUFFICES ASSUME ~Bounded(T \ {x}) PROVE FALSE
    BY Zenon
  <2> HIDE DEF Bounded
  <2>1. Cardinality(T \ {x}) \in Wrong
    BY <1>9, Zenon
  <2>2. Min(Wrong) =< Cardinality(T \ {x})
    BY <1>3, <2>1, Zenon
  <2> QED BY <1>4, <1>7, <1>8, <2>2
<1>11. PICK n \in Nat : \A y \in T \ {x} : y =< n
  BY <1>10, Zenon
<1>12. x \in Nat
  BY <1>6, Zenon
<1>13. n + x \in Nat /\ \A y \in T : y =< n + x
  BY <1>6, <1>11, <1>12
<1>14. Bounded(T)
  BY <1>13, Zenon
<1> QED BY <1>4, <1>14, Zenon

(* Every non-empty finite set of naturals has a largest element.           *)
LEMMA MaxOfNaturals ==
    ASSUME NEW S \in SUBSET Nat, IsFiniteSet(S), S # {}
    PROVE  Max(S) \in S /\ \A x \in S : Max(S) >= x
<1> DEFINE Bounds == {n \in Nat : \A x \in S : x =< n}
           top == Min(Bounds)
<1>1. Bounds # {} /\ Bounds \in SUBSET Nat
  BY FiniteIsBounded, Zenon
<1>2. top \in Bounds /\ \A n \in Bounds : top =< n
  BY <1>1, MinOfNaturals, Zenon
<1> HIDE DEF top
<1>3. top \in S
  <2> SUFFICES ASSUME top \notin S PROVE FALSE
    BY Zenon
  <2>1. PICK x \in S : TRUE
    BY Zenon
  <2>2. \A y \in S : y < top
    BY <1>2
  <2>3. top - 1 \in Bounds
    BY <1>2, <2>1, <2>2
  <2> QED BY <1>2, <2>3
<1>4. top \in S /\ \A x \in S : top >= x
  BY <1>2, <1>3, Zenon
<1> QED BY <1>4, Zenon DEF Max

(* ALIGN answers the start of the page after its argument.                 *)
LEMMA AlignIsNextPage ==
    ASSUME NEW a \in Nat
    PROVE  /\ ALIGN(a) \in Nat /\ a < ALIGN(a)
           /\ (ALIGN(a) \div PageSize) * PageSize = ALIGN(a)
           /\ ALIGN(a + PageSize) = ALIGN(a) + PageSize
<1>0. PageSize \in Nat \ {0}
  BY BootAssumption, Zenon
<1> DEFINE q == a \div PageSize
           r == a % PageSize
<1>1. q \in Nat /\ r \in 0 .. PageSize - 1 /\ a = PageSize * q + r
  BY <1>0
<1> HIDE DEF q, r
<1>2. ALIGN(a) = PageSize * q + PageSize
  BY <1>0, <1>1 DEF ALIGN, r
<1>3. PageSize * q \in Nat
  BY <1>0, <1>1
<1>4. PageSize * q + PageSize = (q + 1) * PageSize
  BY <1>0, <1>1
<1>5. ((q + 1) * PageSize) \div PageSize = q + 1
  BY <1>0, <1>1
<1>6. (a + PageSize) % PageSize = r
  BY <1>0, <1>1
<1> QED BY <1>0, <1>1, <1>2, <1>3, <1>4, <1>5, <1>6 DEF ALIGN

(* The places handed out before the heap exists lie one behind the other,  *)
(* and all of them before the one dumb_kmalloc would hand out next.        *)
Apart(a, b) == a + PageSize =< b \/ b + PageSize =< a

Handed(d) == ref_tables[d] # NoTable

Placed ==
    /\ temp_mem \in Nat /\ kernel_dir \in Nat /\ pmm_bitmap \in Nat
    /\ pmm_bitmap + pmm_bitmap_size =< kernel_dir
    /\ kernel_dir + 2 * PageSize =< ALIGN(temp_mem)
    /\ \A d \in Tables : Handed(d) =>
          /\ ref_tables[d] = pde[d] * PageSize
          /\ kernel_dir + 2 * PageSize =< ref_tables[d]
          /\ ref_tables[d] + PageSize =< ALIGN(temp_mem)
    /\ \A d, e \in Tables : Handed(d) /\ Handed(e) /\ d # e =>
          Apart(ref_tables[d], ref_tables[e])

TInv ==
    /\ modules \subseteq ModEnds
    /\ ref_tables \in [Tables -> Int] /\ pde \in [Tables -> Int]
    /\ pc \in {"pmm_init", "vmm_init"} => \A d \in Tables : ref_tables[d] = NoTable
    /\ pc = "vmm_init" => bitmap_addr \in Nat
    /\ pc \in {"high", "low", "switch", "done"} => Placed

(* A round of either loop that creates its table puts it behind the rest.  *)
LEMMA TablePlaced ==
    ASSUME TInv, Placed, NEW d \in Tables, allocate_table(d),
           UNCHANGED <<kernel_dir, bitmap_addr>>
    PROVE  Placed' /\ ref_tables' \in [Tables -> Int] /\ pde' \in [Tables -> Int]
<1>0. PageSize \in Nat \ {0} /\ ref_tables \in [Tables -> Int] /\ pde \in [Tables -> Int]
  BY BootAssumption, Zenon DEF TInv
<1>1. CASE Handed(d)
  BY <1>0, <1>1, Zenon DEF Placed, Handed, allocate_table, pmm_bitmap, pmm_bitmap_size
<1>2. CASE ~Handed(d)
  <2> DEFINE new == ALIGN(temp_mem)
             page == new \div PageSize
  <2>1. /\ ref_tables' = [ref_tables EXCEPT ![d] = new]
        /\ pde' = [pde EXCEPT ![d] = page]
        /\ temp_mem' = temp_mem + PageSize
    BY <1>2, Zenon DEF allocate_table, Handed
  <2>2. new \in Nat /\ page * PageSize = new /\ ALIGN(temp_mem)' = new + PageSize
    <3>1. ALIGN(temp_mem)' = ALIGN(temp_mem + PageSize)
      BY <2>1, Zenon DEF ALIGN
    <3> QED BY <3>1, AlignIsNextPage, Zenon DEF Placed
  <2>3. page \in Int
    BY <1>0, <2>2
  <2> HIDE DEF new, page
  <2>4. ref_tables' \in [Tables -> Int] /\ pde' \in [Tables -> Int]
    BY <1>0, <2>1, <2>2, <2>3
  <2>5. /\ ref_tables'[d] = new /\ pde'[d] = page
        /\ \A e \in Tables \ {d} : ref_tables'[e] = ref_tables[e] /\ pde'[e] = pde[e]
    BY <1>0, <2>1, Zenon
  <2>6. /\ temp_mem \in Nat /\ kernel_dir \in Nat /\ pmm_bitmap \in Nat
        /\ pmm_bitmap' = pmm_bitmap /\ pmm_bitmap_size' = pmm_bitmap_size
        /\ kernel_dir' = kernel_dir
        /\ kernel_dir + 2 * PageSize =< new
    BY Zenon DEF Placed, pmm_bitmap, pmm_bitmap_size, new
  <2>7. ASSUME NEW e \in Tables, Handed(e)'
        PROVE  /\ ref_tables'[e] = pde'[e] * PageSize
               /\ kernel_dir' + 2 * PageSize =< ref_tables'[e]
               /\ ref_tables'[e] + PageSize =< ALIGN(temp_mem)'
    <3>1. CASE e = d
      BY <1>0, <2>2, <2>5, <2>6, <3>1, SMTT(30)
    <3>2. CASE e # d
      <4>1. Handed(e)
        BY <2>5, <2>7, <3>2, Zenon DEF Handed, NoTable
      <4>2. /\ ref_tables[e] = pde[e] * PageSize /\ kernel_dir + 2 * PageSize =< ref_tables[e]
            /\ ref_tables[e] + PageSize =< new /\ ref_tables[e] \in Int
        BY <1>0, <4>1, Zenon DEF Placed, new
      <4> QED BY <1>0, <2>2, <2>5, <2>6, <3>2, <4>2
    <3> QED BY <3>1, <3>2, Zenon
  <2>8. ASSUME NEW e \in Tables, NEW f \in Tables, Handed(e)', Handed(f)', e # f
        PROVE  Apart(ref_tables[e], ref_tables[f])'
    <3>1. \A g \in Tables \ {d} : Handed(g)' => Handed(g) /\ ref_tables[g] + PageSize =< new
      BY <2>5, Zenon DEF Handed, NoTable, Placed, new
    <3>2. CASE e = d
      BY <2>5, <2>8, <3>1, <3>2, Zenon DEF Apart
    <3>3. CASE f = d
      BY <2>5, <2>8, <3>1, <3>3, Zenon DEF Apart
    <3>4. CASE e # d /\ f # d
      BY <2>5, <2>8, <3>1, <3>4, Zenon DEF Apart, Placed
    <3> QED BY <3>2, <3>3, <3>4, Zenon
  <2>9. /\ temp_mem' \in Nat /\ kernel_dir' \in Nat /\ pmm_bitmap' \in Nat
        /\ pmm_bitmap' + pmm_bitmap_size' =< kernel_dir'
        /\ kernel_dir' + 2 * PageSize =< ALIGN(temp_mem)'
    BY <1>0, <2>1, <2>2, <2>6 DEF Placed
  <2> QED BY <2>4, <2>7, <2>8, <2>9, Zenon DEF Placed, Tables, MappedPages, LowPages, HighPages, HighEnd
<1> QED BY <1>1, <1>2, Zenon

(* The page of a loop has a table of the directory.                        *)
LEMMA LoopTables ==
    ASSUME BInv, pc \in {"high", "low"}
    PROVE  i \div TableSpan \in Tables
  BY Ranges, Zenon DEF BInv, InHighLoop, InLowLoop, Tables

(* Every step keeps the places apart.                                      *)
LEMMA StepTInv == BInv /\ TInv /\ [Next]_vars => TInv'
<1> SUFFICES ASSUME BInv, TInv, [Next]_vars PROVE TInv'
  BY Zenon
<1>0. /\ PageSize \in Nat \ {0} /\ KernelEnd \in Nat /\ ModEnds \subseteq Nat
      /\ IsFiniteSet(ModEnds)
  BY BootAssumption, Zenon
<1>1. CASE pmm_init
  <2>1. bitmap_addr' = Max(modules \cup {KernelEnd}) /\ pc = "pmm_init"
        /\ ref_tables' = ref_tables /\ pde' = pde /\ modules' = modules
        /\ pc' \in {"panic", "fault", "vmm_init"}
    BY <1>1, Zenon DEF pmm_init
  <2>2. IsFiniteSet(modules \cup {KernelEnd}) /\ modules \cup {KernelEnd} \in SUBSET Nat
    <3>1. modules \in SUBSET ModEnds
      BY Zenon DEF TInv
    <3> QED BY <1>0, <3>1, FS_Subset, FS_AddElement, Zenon
  <2>3. Max(modules \cup {KernelEnd}) \in Nat
    BY <2>2, MaxOfNaturals, Zenon
  <2> QED BY <2>1, <2>3, Zenon DEF TInv, Tables, MappedPages, LowPages, HighPages, HighEnd
<1>2. CASE vmm_init
  <2> DEFINE start == pmm_bitmap + pmm_bitmap_size
  <2>1. /\ pc = "vmm_init" /\ kernel_dir' = ALIGN(start) /\ temp_mem' = start + 2 * PageSize
        /\ UNCHANGED <<bitmap_addr, ref_tables, pde, modules>>
        /\ pc' \in {"high", "fault"}
    BY <1>2, Zenon DEF vmm_init
  <2>2. pmm_bitmap \in Nat /\ pmm_bitmap_size \in Nat
    <3>1. bitmap_addr \in Nat
      BY <2>1, Zenon DEF TInv
    <3> QED BY <3>1, PmmAssumption DEF pmm_bitmap, pmm_bitmap_size, align_to
  <2>3. start \in Nat
    BY <2>2
  <2> HIDE DEF start
  <2>4. /\ ALIGN(start) \in Nat /\ start < ALIGN(start)
        /\ ALIGN(start + 2 * PageSize) = ALIGN(start) + 2 * PageSize
    <3>1. start + PageSize \in Nat /\ start + 2 * PageSize = (start + PageSize) + PageSize
      BY <1>0, <2>3
    <3>2. ALIGN(start + PageSize) = ALIGN(start) + PageSize /\ ALIGN(start) \in Nat /\ start < ALIGN(start)
      BY <2>3, AlignIsNextPage, Zenon
    <3>3. ALIGN((start + PageSize) + PageSize) = ALIGN(start + PageSize) + PageSize
      BY <3>1, AlignIsNextPage, Zenon
    <3> QED BY <1>0, <3>1, <3>2, <3>3
  <2>5. ALIGN(temp_mem)' = ALIGN(start) + 2 * PageSize
    BY <2>1, <2>4, Zenon DEF ALIGN
  <2>6. pmm_bitmap' = pmm_bitmap /\ pmm_bitmap_size' = pmm_bitmap_size
    BY <2>1, Zenon DEF pmm_bitmap, pmm_bitmap_size
  <2>7. start = pmm_bitmap + pmm_bitmap_size
    BY Zenon DEF start
  <2>8. /\ temp_mem' \in Nat /\ kernel_dir' \in Nat /\ pmm_bitmap' \in Nat
        /\ pmm_bitmap' + pmm_bitmap_size' =< kernel_dir'
        /\ kernel_dir' + 2 * PageSize =< ALIGN(temp_mem)'
    BY <1>0, <2>1, <2>2, <2>3, <2>4, <2>5, <2>6, <2>7
  <2>9. \A d \in Tables : ~Handed(d)'
    BY <2>1, Zenon DEF Handed, TInv
  <2>10. Placed'
    BY <2>8, <2>9, Zenon DEF Placed, Handed, Tables, MappedPages, LowPages, HighPages, HighEnd
  <2> QED BY <2>1, <2>10, Zenon DEF TInv, Tables, MappedPages, LowPages, HighPages, HighEnd
<1>3. CASE map_high \/ map_low
  <2>1. /\ pc \in {"high", "low"} /\ allocate_table(i \div TableSpan)
        /\ UNCHANGED <<kernel_dir, bitmap_addr, modules>>
        /\ pc' \in {"high", "low", "switch"}
    BY <1>3, Zenon DEF map_high, map_low, allocate_page
  <2>2. Placed' /\ ref_tables' \in [Tables -> Int] /\ pde' \in [Tables -> Int]
    BY <2>1, LoopTables, TablePlaced, Zenon DEF TInv
  <2> QED BY <2>1, <2>2, Zenon DEF TInv, Tables, MappedPages, LowPages, HighPages, HighEnd
<1>4. CASE table_fault \/ switch_page_directory \/ UNCHANGED vars
  <2>1. /\ UNCHANGED <<bitmap_addr, temp_mem, kernel_dir, ref_tables, pde, modules>>
        /\ \/ pc' = pc
           \/ pc' = "fault"
           \/ pc = "switch" /\ pc' = "done"
    BY <1>4, Zenon DEF table_fault, switch_page_directory, vars, bootVars
  <2>2. Placed => Placed'
    BY <2>1, Zenon DEF Placed, Handed, Tables, MappedPages, LowPages, HighPages, HighEnd,
                pmm_bitmap, pmm_bitmap_size, ALIGN
  <2> QED BY <2>1, <2>2, Zenon DEF TInv, Tables, MappedPages, LowPages, HighPages, HighEnd
<1> QED BY <1>1, <1>2, <1>3, <1>4, Zenon DEF Next

(* For every kernel, page and memory size and every set of modules the     *)
(* bitmap, the page directory and the page tables lie apart, and each      *)
(* table is where its directory entry says.                                *)
THEOREM TablesAreDisjoint == Spec => []TablesDisjoint
<1>1. Init => TInv
  BY DEF Init, TInv, NoTable, NoFrame
<1>2. TInv => TablesDisjoint
  <2> SUFFICES ASSUME TInv, Placed PROVE TablesDisjoint
    BY Zenon DEF TInv, TablesDisjoint
  <2>0. PageSize \in Nat \ {0} /\ pmm_bitmap_size \in Nat /\ ref_tables \in [Tables -> Int]
    BY BootAssumption, PmmAssumption DEF TInv, pmm_bitmap_size
  <2>1. DirBytes \cap BitmapBytes = {}
    BY <2>0 DEF Placed, DirBytes, BitmapBytes
  <2>2. ASSUME NEW d \in Tables, Handed(d)
        PROVE  TableBytes(d) \cap (DirBytes \cup BitmapBytes) = {}
    <3>1. kernel_dir + 2 * PageSize =< ref_tables[d]
      BY <2>2, Zenon DEF Placed
    <3> QED BY <2>0, <3>1 DEF Placed, TableBytes, DirBytes, BitmapBytes
  <2>3. ASSUME NEW d \in Tables, NEW e \in Tables \ {d}, Handed(d), Handed(e)
        PROVE  TableBytes(d) \cap TableBytes(e) = {}
    <3>1. Apart(ref_tables[d], ref_tables[e])
      BY <2>3, Zenon DEF Placed
    <3> QED BY <2>0, <3>1 DEF Apart, TableBytes
  <2> QED BY <2>1, <2>2, <2>3, Zenon DEF Placed, TablesDisjoint, Handed
<1> QED BY <1>1, <1>2, InitBInv, AlwaysBInv, StepTInv, PTL DEF Spec

-----------------------------------------------------------------------------

(***************************************************************************)
(* The loader and the kernel's memory, for any size of the address space,  *)
(* of a page and of the kernel, any number of frames and any sequence of   *)
(* binaries.                                                               *)
(***************************************************************************)

LoadOK ==
    /\ load \in [e_ok : BOOLEAN, ph : Seq(Segments), length : Addresses, i : Nat \ {0},
                 ret : {0, -1}, at : {"idle", "run", "done", "fault", "hang", "lost"}]

\* The frames below the kernel's pages: none is the kernel's or free, and only
\* frame 0, which stands for a failed allocation, is shown by two pages.
FramesApart(t, left) ==
    /\ left \subseteq BaseFrames + 1 .. Frames - 1
    /\ \A p \in DOMAIN t : p \in Nat /\ t[p] \in 0 .. Frames - 1 /\ t[p] \notin left
    /\ \A p \in DOMAIN t : p < BasePage => t[p] \notin ImageFrame .. BaseFrames - 1
    /\ \A p, q \in DOMAIN t :
          p < BasePage /\ q < BasePage /\ p # q /\ t[p] = t[q] => t[p] = 0

ElfInv ==
    /\ LoadOK
    /\ FramesApart(table, free)
    /\ mem = [x \in Memory |-> mem[x]]

\* The sizes of the machine are numbers.
LEMMA ElfConstants ==
    /\ Span \in Nat \ {0} /\ Page \in Nat \ {0} /\ KERN_BASE \in Nat \ {0}
    /\ IdenPages \in Nat \ {0} /\ ImageFrame \in Nat \ {0}
    /\ BaseFrames \in Nat \ {0} /\ Frames \in Nat \ {0}
    /\ BasePage \in Nat /\ BasePage * Page = KERN_BASE
  <1>1. /\ Span \in Nat \ {0} /\ Page \in Nat \ {0} /\ KERN_BASE \in Nat \ {0}
        /\ IdenPages \in Nat \ {0} /\ ImageFrame \in Nat \ {0}
        /\ BaseFrames \in Nat \ {0} /\ Frames \in Nat \ {0}
        /\ KERN_BASE % Page = 0
    BY ElfAssumption, Zenon
  <1>2. BasePage \in Nat /\ BasePage * Page = KERN_BASE
    BY ONLY <1>1 DEF BasePage
  <1> QED
    BY <1>1, <1>2, Zenon

\* An address computation that does not overflow is an addition.
LEMMA AddSmall ==
    ASSUME NEW a \in Nat, NEW b \in Nat, a + b < Span
    PROVE  Add(a, b) = a + b
  BY ElfConstants DEF Add

\* An address below the kernel is on a page below the kernel's.
LEMMA PageBelow ==
    ASSUME NEW a \in Nat, a < KERN_BASE
    PROVE  a \div Page \in Nat /\ a \div Page < BasePage
  <1>1. /\ Page \in Nat \ {0} /\ BasePage \in Nat /\ BasePage * Page = KERN_BASE
    BY ElfConstants, Zenon
  <1>2. PICK q \in Nat : q = a \div Page /\ q * Page <= a
    BY ONLY <1>1, a \in Nat
  <1>3. SUFFICES ASSUME BasePage <= q PROVE FALSE
    BY <1>1, <1>2
  <1>4. BasePage * Page <= q * Page
    BY ONLY <1>1, <1>3, q \in Nat
  <1>5. q * Page \in Nat /\ BasePage * Page \in Nat
    BY ONLY <1>1, q \in Nat
  <1> QED
    BY <1>1, <1>2, <1>4, <1>5

\* Where a byte of a frame is, and which frames two equal bytes are in.
LEMMA FrameOf ==
    ASSUME NEW f \in Nat, NEW g \in Nat, NEW r \in 0 .. Page - 1, NEW q \in 0 .. Page - 1
    PROVE  /\ f * Page + r = g * Page + q => f = g /\ r = q
           /\ f * Page + r \in KernelBytes => f \in ImageFrame .. BaseFrames - 1
           /\ f < Frames => f * Page + r \in Memory
  <1>1. Page \in Nat \ {0} /\ ImageFrame \in Nat /\ BaseFrames \in Nat /\ Frames \in Nat
    BY ElfConstants, Zenon
  <1>2. ASSUME NEW x \in Nat, NEW y \in Nat, x < y PROVE x * Page + Page <= y * Page
    <2>1. (x + 1) * Page <= y * Page
      BY ONLY <1>1, <1>2
    <2>2. (x + 1) * Page = x * Page + Page
      BY ONLY <1>1, x \in Nat
    <2> QED
      BY <2>1, <2>2
  <1>3. f * Page \in Nat /\ g * Page \in Nat /\ ImageFrame * Page \in Nat /\ BaseFrames * Page \in Nat
    BY ONLY <1>1, f \in Nat, g \in Nat
  <1>4. ASSUME f * Page + r = g * Page + q PROVE f = g /\ r = q
    <2>1. CASE f < g
      <3>1. f * Page + Page <= g * Page
        BY <1>2, <2>1, Zenon
      <3> QED
        BY ONLY <1>1, <1>3, <1>4, <3>1, r \in 0 .. Page - 1, q \in 0 .. Page - 1
    <2>2. CASE g < f
      <3>1. g * Page + Page <= f * Page
        BY <1>2, <2>2, Zenon
      <3> QED
        BY ONLY <1>1, <1>3, <1>4, <3>1, r \in 0 .. Page - 1, q \in 0 .. Page - 1
    <2>3. CASE f = g
      BY <1>1, <1>3, <1>4, <2>3
    <2> QED
      BY <2>1, <2>2, <2>3
  <1>5. ASSUME f * Page + r \in KernelBytes PROVE f \in ImageFrame .. BaseFrames - 1
    <2>0. f * Page + r >= ImageFrame * Page /\ f * Page + r < BaseFrames * Page
      BY <1>1, <1>3, <1>5 DEF KernelBytes
    <2>1. ~(f < ImageFrame)
      <3>1. SUFFICES ASSUME f < ImageFrame PROVE FALSE
        BY Zenon
      <3>2. f * Page + Page <= ImageFrame * Page
        BY <1>1, <1>2, <3>1, Zenon
      <3> QED
        BY ONLY <1>1, <1>3, <2>0, <3>2, r \in 0 .. Page - 1
    <2>2. f < BaseFrames
      <3>1. SUFFICES ASSUME ~(f < BaseFrames) PROVE FALSE
        BY Zenon
      <3>2. BaseFrames * Page <= f * Page
        BY ONLY <1>1, <3>1, f \in Nat
      <3> QED
        BY ONLY <1>1, <1>3, <2>0, <3>2, r \in 0 .. Page - 1
    <2> QED
      BY <1>1, <2>1, <2>2
  <1>6. ASSUME f < Frames PROVE f * Page + r \in Memory
    <2>1. f * Page + Page <= Frames * Page
      BY <1>1, <1>2, <1>6, Zenon
    <2>2. Frames * Page \in Nat
      BY ONLY <1>1
    <2> QED
      BY <1>1, <1>3, <2>1, <2>2 DEF Memory
  <1> QED
    BY <1>4, <1>5, <1>6, Zenon

\* Two pages of a finite set have different numbers of pages below them.
LEMMA RanksDiffer ==
    ASSUME NEW S \in SUBSET Nat, IsFiniteSet(S), NEW p \in S, NEW q \in S, p < q
    PROVE  Rank(S, p) # Rank(S, q)
  <1> DEFINE P == {y \in S : y < p}
             Q == {y \in S : y < q}
  <1>0. \A y \in S : (y < p => y < q) /\ ~(p < p)
    OBVIOUS
  <1>1. Q \subseteq S /\ P \subseteq Q /\ p \in Q /\ p \notin P
    BY <1>0, Zenon
  <1> HIDE DEF P, Q
  <1>2. IsFiniteSet(Q)
    BY <1>1, FS_Subset, Zenon
  <1>3. Cardinality(P) = Cardinality(Q) => P = Q
    BY <1>1, <1>2, FS_Subset, Zenon
  <1> QED
    BY <1>1, <1>3, Zenon DEF Rank, P, Q

\* What allocate_region maps: the pages of the region, new ones to frames that
\* were free, and each to one of its own as long as there are any.
LEMMA RegionApart ==
    ASSUME FramesApart(table, free), NEW v \in Nat, NEW e \in Nat
    PROVE  LET t == allocate_region(v, e)
           IN  /\ FramesApart(t, free \ {t[p] : p \in DOMAIN t})
               /\ DOMAIN t = DOMAIN table \union ((v \div Page) .. (e \div Page))
               /\ \A p \in DOMAIN table : t[p] = table[p]
               /\ \A p \in DOMAIN t \ DOMAIN table : t[p] \in free \/ t[p] = 0
  <1> DEFINE region == (v \div Page) .. (e \div Page)
             new == region \ DOMAIN table
             t == allocate_region(v, e)
             left == free \ {t[p] : p \in DOMAIN t}
  <1>0. /\ Page \in Nat \ {0} /\ BasePage \in Nat /\ Frames \in Nat \ {0}
        /\ BaseFrames \in Nat \ {0} /\ ImageFrame \in Nat \ {0}
    BY ElfConstants, Zenon
  <1>1. v \div Page \in Nat /\ e \div Page \in Nat
    BY ONLY <1>0, v \in Nat, e \in Nat
  <1>2. region \in SUBSET Nat /\ IsFiniteSet(region)
    <2>1. IsFiniteSet(region)
      BY <1>1, FS_Interval
    <2> QED
      BY <1>1, <2>1
  <1> HIDE DEF region
  <1>3. new \in SUBSET Nat /\ IsFiniteSet(new) /\ new \intersect DOMAIN table = {}
    BY <1>2, FS_Subset, Zenon
  <1>4. t = [p \in DOMAIN table \union new |-> IF p \in new THEN frame_of(new, p) ELSE table[p]]
    BY Zenon DEF allocate_region, region
  <1> HIDE DEF t, new
  <1>5. /\ DOMAIN t = DOMAIN table \union new
        /\ \A p \in new : t[p] = frame_of(new, p)
        /\ \A p \in DOMAIN table : t[p] = table[p]
    BY <1>3, <1>4, Zenon
  <1>6. ASSUME NEW p \in new
        PROVE  t[p] = 0 \/ (t[p] \in free /\ Rank(free, t[p]) = Rank(new, p))
    BY <1>5, <1>6, Zenon DEF frame_of
  <1>7. /\ free \subseteq BaseFrames + 1 .. Frames - 1
        /\ \A p \in DOMAIN table : p \in Nat /\ table[p] \in 0 .. Frames - 1 /\ table[p] \notin free
        /\ \A p \in DOMAIN table : p < BasePage => table[p] \notin ImageFrame .. BaseFrames - 1
        /\ \A p, q \in DOMAIN table :
              p < BasePage /\ q < BasePage /\ p # q /\ table[p] = table[q] => table[p] = 0
    BY Zenon DEF FramesApart
  <1>8. \A f \in free : f \in 0 .. Frames - 1 /\ f # 0 /\ f \notin ImageFrame .. BaseFrames - 1
    BY <1>0, <1>7
  <1>9. 0 \in 0 .. Frames - 1 /\ 0 \notin ImageFrame .. BaseFrames - 1 /\ 0 \notin free
    BY <1>0, <1>8, ElfConstants
  <1>10. ASSUME NEW p \in DOMAIN t
         PROVE  /\ p \in Nat /\ t[p] \in 0 .. Frames - 1 /\ t[p] \notin left
                /\ p < BasePage => t[p] \notin ImageFrame .. BaseFrames - 1
    <2>1. t[p] \notin left
      BY <1>10, Zenon
    <2>2. CASE p \in new
      BY <1>3, <1>6, <1>8, <1>9, <2>1, <2>2, Zenon
    <2>3. CASE p \in DOMAIN table
      BY <1>5, <1>7, <2>1, <2>3, Zenon
    <2> QED
      BY <1>5, <1>10, <2>2, <2>3, Zenon
  <1>11. ASSUME NEW p \in DOMAIN t, NEW q \in DOMAIN t,
                p < BasePage, q < BasePage, p # q, t[p] = t[q]
         PROVE  t[p] = 0
    <2>1. CASE p \in new /\ q \in new
      <3>1. SUFFICES ASSUME t[p] # 0 PROVE FALSE
        BY Zenon
      <3>2. Rank(new, p) = Rank(new, q)
        BY <1>6, <1>11, <2>1, <3>1, Zenon
      <3>3. p < q \/ q < p
        BY <1>10, <1>11
      <3> QED
        BY <1>3, <2>1, <3>2, <3>3, RanksDiffer, Zenon
    <2>2. CASE p \in new /\ q \in DOMAIN table
      BY <1>5, <1>6, <1>7, <1>11, <2>2, Zenon
    <2>3. CASE p \in DOMAIN table /\ q \in new
      BY <1>5, <1>6, <1>7, <1>11, <2>3, Zenon
    <2>4. CASE p \in DOMAIN table /\ q \in DOMAIN table
      BY <1>5, <1>7, <1>11, <2>4, Zenon
    <2> QED
      BY <1>5, <1>11, <2>1, <2>2, <2>3, <2>4, Zenon
  <1>12. left \subseteq BaseFrames + 1 .. Frames - 1
    BY <1>7, Zenon
  <1>13. FramesApart(t, left)
    BY <1>10, <1>11, <1>12, Zenon DEF FramesApart
  <1>14. DOMAIN t = DOMAIN table \union region
    BY <1>5, Zenon DEF new
  <1>15. \A p \in DOMAIN t \ DOMAIN table : t[p] \in free \/ t[p] = 0
    BY <1>5, <1>6, Zenon
  <1> QED
    BY <1>5, <1>13, <1>14, <1>15, Zenon DEF t, region

\* What vmm_init has mapped is apart.
LEMMA BootApart == FramesApart(BootTable, BaseFrames + 1 .. Frames - 1)
  <1> DEFINE low == 0 .. IdenPages
             high == BasePage .. BasePage + BaseFrames - 1
             t == BootTable
  <1>0. /\ IdenPages \in Nat \ {0} /\ ImageFrame \in Nat \ {0} /\ BaseFrames \in Nat \ {0}
        /\ BasePage \in Nat /\ Frames \in Nat
        /\ IdenPages < ImageFrame /\ ImageFrame < BaseFrames /\ IdenPages < BasePage
        /\ BaseFrames < Frames
    BY ElfConstants, ElfAssumption, Zenon
  <1>1. /\ DOMAIN t = low \union high
        /\ \A p \in DOMAIN t : t[p] = IF p = 0 THEN BaseFrames
                                      ELSE IF p <= IdenPages THEN p ELSE p - BasePage
    BY Zenon DEF BootTable
  <1> HIDE DEF t
  <1>2. ASSUME NEW p \in DOMAIN t
        PROVE  /\ p \in Nat /\ t[p] \in Nat /\ t[p] <= BaseFrames
               /\ p < BasePage => /\ p <= IdenPages
                                  /\ t[p] = IF p = 0 THEN BaseFrames ELSE p
                                  /\ t[p] \notin ImageFrame .. BaseFrames - 1
    <2>1. p \in low \/ p \in high
      BY <1>1, <1>2, Zenon
    <2>2. t[p] = IF p = 0 THEN BaseFrames ELSE IF p <= IdenPages THEN p ELSE p - BasePage
      BY <1>1, <1>2, Zenon
    <2> QED
      BY <1>0, <2>1, <2>2
  <1>3. ASSUME NEW p \in DOMAIN t, NEW q \in DOMAIN t,
               p < BasePage, q < BasePage, p # q, t[p] = t[q]
        PROVE  t[p] = 0
    <2>1. /\ p \in Nat /\ p <= IdenPages /\ t[p] = IF p = 0 THEN BaseFrames ELSE p
          /\ q \in Nat /\ q <= IdenPages /\ t[q] = IF q = 0 THEN BaseFrames ELSE q
      BY <1>2, <1>3, Zenon
    <2>2. (IF p = 0 THEN BaseFrames ELSE p) = (IF q = 0 THEN BaseFrames ELSE q)
      BY <1>3, <2>1, Zenon
    <2>3. p \in Nat /\ q \in Nat /\ p <= IdenPages /\ q <= IdenPages /\ p # q
      BY <1>3, <2>1, Zenon
    <2> QED
      BY ONLY <1>0, <2>2, <2>3
  <1>4. ASSUME NEW p \in DOMAIN t
        PROVE  t[p] \in 0 .. Frames - 1 /\ t[p] \notin BaseFrames + 1 .. Frames - 1
    <2>1. t[p] \in Nat /\ t[p] <= BaseFrames
      BY <1>2, <1>4, Zenon
    <2> QED
      BY <1>0, <2>1
  <1> QED
    BY <1>2, <1>3, <1>4, Zenon DEF FramesApart, t

\* Where the byte at an address below the kernel is, and that it is not a byte of the
\* kernel, and nowhere else than the byte at another such address, unless both
\* are in frame 0.
LEMMA BytesApart ==
    ASSUME NEW t, NEW left, FramesApart(t, left),
           NEW a \in Nat, a < KERN_BASE, IsMapped(t, a)
    PROVE  /\ Physical(t, a) \in Memory \ KernelBytes
           /\ \A b \in Nat : b < KERN_BASE /\ IsMapped(t, b) /\ Physical(t, a) = Physical(t, b)
                             /\ t[a \div Page] # 0 => a = b
  <1>0. Page \in Nat \ {0}
    BY ElfConstants, Zenon
  <1>1. \A x \in Nat : /\ x \div Page \in Nat /\ x % Page \in 0 .. Page - 1
                       /\ x = (x \div Page) * Page + (x % Page)
    BY ONLY <1>0
  <1>2. a \div Page \in DOMAIN t /\ a \div Page < BasePage
    BY PageBelow, Zenon DEF IsMapped
  <1>3. /\ t[a \div Page] \in Nat /\ t[a \div Page] < Frames
        /\ t[a \div Page] \notin ImageFrame .. BaseFrames - 1
    <2>1. /\ t[a \div Page] \in 0 .. Frames - 1
          /\ t[a \div Page] \notin ImageFrame .. BaseFrames - 1
      BY <1>2, Zenon DEF FramesApart
    <2> QED
      BY <2>1, ElfConstants
  <1>4. Physical(t, a) \in Memory \ KernelBytes
    BY <1>1, <1>3, FrameOf, Zenon DEF Physical
  <1>5. ASSUME NEW b \in Nat, b < KERN_BASE, IsMapped(t, b), Physical(t, a) = Physical(t, b),
               t[a \div Page] # 0
        PROVE  a = b
    <2>1. b \div Page \in DOMAIN t /\ b \div Page < BasePage
      BY <1>5, PageBelow, Zenon DEF IsMapped
    <2>2. t[b \div Page] \in Nat
      <3>1. t[b \div Page] \in 0 .. Frames - 1
        BY <2>1, Zenon DEF FramesApart
      <3> QED
        BY <3>1
    <2>3. t[a \div Page] = t[b \div Page] /\ a % Page = b % Page
      <3>1. PICK f \in Nat, g \in Nat : f = t[a \div Page] /\ g = t[b \div Page]
        BY <1>3, <2>2, Zenon
      <3>2. PICK r \in 0 .. Page - 1, q \in 0 .. Page - 1 : r = a % Page /\ q = b % Page
        BY <1>1, <1>5, Zenon
      <3>3. f * Page + r = g * Page + q
        BY <1>5, <3>1, <3>2, Zenon DEF Physical
      <3>4. f = g /\ r = q
        BY ONLY <3>3, FrameOf, f \in Nat, g \in Nat, r \in 0 .. Page - 1, q \in 0 .. Page - 1
      <3> QED
        BY <3>1, <3>2, <3>4, Zenon
    <2>4. a \div Page = b \div Page
      BY <1>2, <1>5, <2>1, <2>3, Zenon DEF FramesApart
    <2> QED
      BY <1>1, <2>3, <2>4, Zenon
  <1> QED
    BY <1>4, <1>5, Zenon

\* The segment that is next, as numbers.
LEMMA SegmentNumbers ==
    ASSUME LoadOK, load.i <= Len(load.ph)
    PROVE  LET s == load.ph[load.i]
           IN  /\ load.i \in DOMAIN load.ph
               /\ s.p_vaddr \in Nat /\ s.p_filesz \in Nat /\ s.p_memsz \in Nat /\ s.p_offset \in Nat
               /\ load.length \in Nat /\ load.length < Span
  <1>1. load.ph \in Seq(Segments) /\ load.i \in Nat \ {0} /\ load.length \in Addresses
    BY Zenon DEF LoadOK
  <1>2. load.i \in 1 .. Len(load.ph) /\ DOMAIN load.ph = 1 .. Len(load.ph)
        /\ load.ph[load.i] \in Segments
    BY <1>1
  <1>3. Addresses \subseteq Nat /\ \A a \in Addresses : a < Span
    BY ElfConstants DEF Addresses
  <1>4. /\ load.ph[load.i].p_vaddr \in Addresses /\ load.ph[load.i].p_filesz \in Addresses
        /\ load.ph[load.i].p_memsz \in Addresses /\ load.ph[load.i].p_offset \in Addresses
    BY <1>2, Zenon DEF Segments
  <1> QED
    BY <1>1, <1>2, <1>3, <1>4, Zenon

\* One segment that is accepted and whose end fits into an address: the pages it gets,
\* the bytes it stores, and that none of them is the kernel's.
LEMMA SegmentStores ==
    ASSUME relocate_loads, ElfInv, ~Wraps(load.ph[load.i])
    PROVE  LET s == load.ph[load.i]
               v == s.p_vaddr
               f == s.p_filesz
               m == s.p_memsz
           IN  /\ f <= m /\ v + m < KERN_BASE /\ v + m < Span /\ s.type = "LOAD"
               /\ FramesApart(table', free')
               /\ DOMAIN table' = DOMAIN table \union ((v \div Page) .. ((v + f) \div Page))
               /\ \A p \in DOMAIN table : table'[p] = table[p]
               /\ \A p \in DOMAIN table' \ DOMAIN table : table'[p] \in free \/ table'[p] = 0
               /\ \E n \in 0 .. m :
                     /\ Stores(table', s, n) /\ mem' = Fill(table', s, n)
                     /\ \A x \in KernelBytes : StoredAt(table', s, n, x) = {}
                     /\ load' = IF n = m THEN [load EXCEPT !.i = @ + 1]
                                ELSE [load EXCEPT !.at = "fault"]
  <1> DEFINE s == load.ph[load.i]
             v == s.p_vaddr
             f == s.p_filesz
             m == s.p_memsz
             t == allocate_region(v, v + f)
             u == allocate_region(v, Add(v, f))
  <1>1. /\ load.i <= Len(load.ph) /\ s.type = "LOAD" /\ ~refused(s)
        /\ table' = u /\ free' = free \ {u[p] : p \in DOMAIN u}
        /\ \E n \in 0 .. m :
              /\ Stores(u, s, n) /\ mem' = Fill(u, s, n)
              /\ load' = IF \E x \in KernelBytes : StoredAt(u, s, n, x) # {}
                         THEN [load EXCEPT !.at = "lost"]
                         ELSE IF n = m THEN [load EXCEPT !.i = @ + 1]
                         ELSE [load EXCEPT !.at = "fault"]
    BY Zenon DEF relocate_loads
  <1>2. v \in Nat /\ f \in Nat /\ m \in Nat /\ LoadOK /\ FramesApart(table, free)
    BY <1>1, SegmentNumbers, Zenon DEF ElfInv
  <1>3. ~(v + m >= Span) /\ ~(m < f) /\ ~(KERN_BASE <= Add(v, m))
    BY <1>1, Zenon DEF refused, Wraps
  <1> HIDE DEF s, v, f, m
  <1>4. Span \in Nat /\ KERN_BASE \in Nat
    BY ElfConstants, Zenon
  <1>5. v + m < Span /\ f <= m /\ v + f < Span
    BY <1>2, <1>3, <1>4
  <1>6. Add(v, m) = v + m /\ Add(v, f) = v + f
    BY <1>2, <1>5, AddSmall, Zenon
  <1>7. v + m < KERN_BASE /\ v + f \in Nat
    BY <1>2, <1>3, <1>4, <1>6
  <1>8. u = t
    BY <1>6, Zenon
  <1>9. /\ FramesApart(t, free \ {t[p] : p \in DOMAIN t})
        /\ DOMAIN t = DOMAIN table \union ((v \div Page) .. ((v + f) \div Page))
        /\ \A p \in DOMAIN table : t[p] = table[p]
        /\ \A p \in DOMAIN t \ DOMAIN table : t[p] \in free \/ t[p] = 0
    BY <1>2, <1>7, RegionApart, Zenon
  <1> HIDE DEF t, u
  <1>10. PICK n \in 0 .. m :
            /\ Stores(t, s, n) /\ mem' = Fill(t, s, n)
            /\ load' = IF \E x \in KernelBytes : StoredAt(t, s, n, x) # {}
                       THEN [load EXCEPT !.at = "lost"]
                       ELSE IF n = m THEN [load EXCEPT !.i = @ + 1]
                       ELSE [load EXCEPT !.at = "fault"]
    BY <1>1, <1>8, Zenon
  <1>11. ASSUME NEW x \in KernelBytes, NEW k \in StoredAt(t, s, n, x) PROVE FALSE
    <2>1. k \in 0 .. n - 1 /\ Physical(t, Add(v, k)) = x
      BY <1>11, Zenon DEF StoredAt, v
    <2>2. k \in Nat /\ v + k < Span /\ v + k < KERN_BASE /\ v + k \in Nat
      BY <1>2, <1>4, <1>5, <1>7, <2>1
    <2>3. Add(v, k) = v + k
      BY <1>2, <2>2, AddSmall, Zenon
    <2>4. IsMapped(t, v + k)
      BY <1>10, <2>1, <2>3, Zenon DEF Stores, v
    <2> QED
      BY <1>9, <1>11, <2>1, <2>2, <2>3, <2>4, BytesApart, Zenon
  <1>12. \A x \in KernelBytes : StoredAt(t, s, n, x) = {}
    BY <1>11, Zenon
  <1>13. load' = IF n = m THEN [load EXCEPT !.i = @ + 1] ELSE [load EXCEPT !.at = "fault"]
    BY <1>10, <1>12, Zenon
  <1>14. table' = t /\ free' = free \ {t[p] : p \in DOMAIN t} /\ s.type = "LOAD"
    BY <1>1, <1>8, Zenon
  <1> QED
    BY <1>5, <1>7, <1>9, <1>10, <1>12, <1>13, <1>14, Zenon DEF s, v, f, m

\* One segment that is accepted and whose end fits into an address.
LEMMA LoadKeepsKernel ==
    ASSUME relocate_loads, ElfInv, ~Wraps(load.ph[load.i])
    PROVE  /\ \A x \in KernelBytes : mem'[x] = mem[x]
           /\ \A p \in DOMAIN table : p \in DOMAIN table' /\ table'[p] = table[p]
           /\ \A p \in DOMAIN table' \ DOMAIN table :
                 p < BasePage /\ table'[p] \notin ImageFrame .. BaseFrames - 1
  <1> DEFINE s == load.ph[load.i]
             v == s.p_vaddr
             f == s.p_filesz
             m == s.p_memsz
  <1>1. /\ f <= m /\ v + m < KERN_BASE /\ FramesApart(table', free')
        /\ DOMAIN table' = DOMAIN table \union ((v \div Page) .. ((v + f) \div Page))
        /\ \A p \in DOMAIN table : table'[p] = table[p]
        /\ \E n \in 0 .. m :
              /\ mem' = Fill(table', s, n)
              /\ \A x \in KernelBytes : StoredAt(table', s, n, x) = {}
    BY SegmentStores, Zenon
  <1>2. v \in Nat /\ f \in Nat /\ m \in Nat
    BY SegmentNumbers, Zenon DEF relocate_loads, ElfInv
  <1>3. KernelBytes \subseteq Memory
    <2>1. /\ ImageFrame \in Nat /\ BaseFrames \in Nat /\ Frames \in Nat /\ Page \in Nat \ {0}
          /\ BaseFrames < Frames
      BY ElfConstants, ElfAssumption, Zenon
    <2>2. BaseFrames * Page <= Frames * Page /\ ImageFrame * Page \in Nat
          /\ BaseFrames * Page \in Nat /\ Frames * Page \in Nat
      BY ONLY <2>1
    <2> QED
      BY ONLY <2>2 DEF KernelBytes, Memory
  <1>4. ASSUME NEW x \in KernelBytes PROVE mem'[x] = mem[x]
    BY <1>1, <1>3, <1>4, Zenon DEF Fill
  <1> HIDE DEF s, v, f, m
  <1>5. ASSUME NEW p \in DOMAIN table' \ DOMAIN table
        PROVE  p < BasePage /\ table'[p] \notin ImageFrame .. BaseFrames - 1
    <2>1. p \in (v \div Page) .. ((v + f) \div Page) /\ p \in DOMAIN table'
      BY <1>1, <1>5, Zenon
    <2>2. v + f \in Nat /\ v + f < KERN_BASE /\ KERN_BASE \in Nat
      BY <1>1, <1>2, ElfConstants
    <2>3. (v + f) \div Page \in Nat /\ (v + f) \div Page < BasePage /\ BasePage \in Nat
      BY <2>2, PageBelow, ElfConstants, Zenon
    <2>4. p \in Nat
      BY <1>1, <2>1, Zenon DEF FramesApart
    <2>5. p < BasePage
      BY <2>1, <2>3, <2>4
    <2> QED
      BY <1>1, <2>1, <2>5, Zenon DEF FramesApart
  <1> QED
    BY <1>1, <1>4, <1>5, Zenon

\* No binary is being loaded in the beginning.
LEMMA ElfInvInit == ElfInit => ElfInv
  <1> SUFFICES ASSUME ElfInit PROVE ElfInv
    BY Zenon
  <1>1. <<>> \in Seq(Segments) /\ 0 \in Addresses /\ 1 \in Nat \ {0}
    BY ElfConstants DEF Addresses
  <1>2. LoadOK
    BY <1>1, Zenon DEF ElfInit, LoadOK, NoLoad
  <1>3. FramesApart(table, free)
    BY BootApart, Zenon DEF ElfInit
  <1>4. mem = [x \in Memory |-> mem[x]]
    BY Zenon DEF ElfInit
  <1> QED
    BY <1>2, <1>3, <1>4, Zenon DEF ElfInv

\* Every step of the loader keeps the types and the frames apart.
LEMMA ElfInvNext == ElfInv /\ [ElfNext]_elf => ElfInv'
  <1> SUFFICES ASSUME ElfInv, [ElfNext]_elf PROVE ElfInv'
    BY Zenon
  <1>1. ASSUME NEW binary \in Binary, elf_load(binary) PROVE ElfInv'
    <2> DEFINE answer == IF binary.e_ok THEN 0 ELSE -1
    <2>1. /\ load' = [e_ok |-> binary.e_ok, ph |-> binary.ph, length |-> binary.length, i |-> 1,
                      ret |-> answer, at |-> "run"]
          /\ table' = table /\ free' = free /\ mem' = mem
      BY <1>1, Zenon DEF elf_load, elf_check_header
    <2>2. answer \in {0, -1} /\ 1 \in Nat \ {0}
      <3>1. 1 \in Nat \ {0}
        OBVIOUS
      <3> QED
        BY <3>1, Zenon
    <2>3. binary.e_ok \in BOOLEAN /\ binary.ph \in Seq(Segments) /\ binary.length \in Addresses
      BY <1>1, Zenon DEF Binary
    <2> HIDE DEF answer
    <2>4. LoadOK'
      BY <2>1, <2>2, <2>3, Zenon DEF LoadOK
    <2> QED
      BY <2>1, <2>4, Zenon DEF ElfInv, FramesApart
  <1>2. CASE relocate_fails \/ relocate_skips \/ relocate_hangs \/ relocate_ends
    <2>1. /\ \/ load' = [load EXCEPT !.ret = -1, !.at = "done"]
             \/ load' = [load EXCEPT !.i = @ + 1]
             \/ load' = [load EXCEPT !.at = "hang"]
             \/ load' = [load EXCEPT !.at = "done"]
          /\ table' = table /\ free' = free /\ mem' = mem
      BY <1>2, Zenon DEF relocate_fails, relocate_skips, relocate_hangs, relocate_ends
    <2>2. LoadOK'
      <3>1. CASE load' = [load EXCEPT !.ret = -1, !.at = "done"]
        BY <3>1, Zenon DEF ElfInv, LoadOK
      <3>2. CASE load' = [load EXCEPT !.i = @ + 1]
        BY <3>2 DEF ElfInv, LoadOK
      <3>3. CASE load' = [load EXCEPT !.at = "hang"] \/ load' = [load EXCEPT !.at = "done"]
        BY <3>3, Zenon DEF ElfInv, LoadOK
      <3> QED
        BY <2>1, <3>1, <3>2, <3>3, Zenon
    <2> QED
      BY <2>1, <2>2, Zenon DEF ElfInv, FramesApart
  <1>3. CASE relocate_loads
    <2> DEFINE s == load.ph[load.i]
               t == allocate_region(s.p_vaddr, Add(s.p_vaddr, s.p_filesz))
    <2>1. /\ load' = [load EXCEPT !.i = @ + 1] \/ load' = [load EXCEPT !.at = "fault"]
             \/ load' = [load EXCEPT !.at = "lost"]
          /\ table' = t /\ free' = free \ {t[p] : p \in DOMAIN t}
          /\ \E n : mem' = Fill(t, s, n)
          /\ load.i <= Len(load.ph)
      BY <1>3, Zenon DEF relocate_loads
    <2>2. LoadOK'
      <3>1. CASE load' = [load EXCEPT !.i = @ + 1]
        BY <3>1 DEF ElfInv, LoadOK
      <3>2. CASE load' = [load EXCEPT !.at = "fault"] \/ load' = [load EXCEPT !.at = "lost"]
        BY <3>2, Zenon DEF ElfInv, LoadOK
      <3> QED
        BY <2>1, <3>1, <3>2, Zenon
    <2>3. mem' = [x \in Memory |-> mem'[x]]
      BY <2>1, Zenon DEF Fill
    <2>4. s.p_vaddr \in Nat /\ s.p_filesz \in Nat
      BY <2>1, SegmentNumbers, Zenon DEF ElfInv
    <2>5. Add(s.p_vaddr, s.p_filesz) \in Nat
      <3> HIDE DEF s
      <3> QED
        BY <2>4, ElfConstants DEF Add
    <2>6. FramesApart(t, free \ {t[p] : p \in DOMAIN t})
      BY <2>4, <2>5, RegionApart, Zenon DEF ElfInv
    <2>7. FramesApart(table, free)'
      <3> HIDE DEF t
      <3> QED
        BY <2>1, <2>6, Zenon DEF FramesApart
    <2> QED
      BY <2>2, <2>3, <2>7, Zenon DEF ElfInv
  <1>4. CASE UNCHANGED elf
    BY <1>4, Zenon DEF elf, ElfInv, LoadOK, FramesApart
  <1> QED
    BY <1>1, <1>2, <1>3, <1>4, Zenon DEF ElfNext, elf_relocate

\* No segment that elf_relocate accepts (elf.c:47) and whose end fits into an address
\* makes it store into the kernel's image, tables or heap, by whatever page, or map a
\* page of the kernel or a frame of it: for any number of frames, also when none is
\* left, any address of the kernel, and any binaries before it.
THEOREM KernelIsUntouched == ElfSpec => KernelUntouched
  <1>1. ElfInv /\ [ElfNext]_elf =>
          [load.at = "run" /\ load.i <= Len(load.ph) /\ ~Wraps(load.ph[load.i]) =>
              /\ \A x \in KernelBytes : mem'[x] = mem[x]
              /\ \A p \in DOMAIN table : p \in DOMAIN table' /\ table'[p] = table[p]
              /\ \A p \in DOMAIN table' \ DOMAIN table :
                    p < BasePage /\ table'[p] \notin ImageFrame .. BaseFrames - 1]_elf
    <2> SUFFICES ASSUME ElfInv, ElfNext, load.at = "run", ~Wraps(load.ph[load.i])
                 PROVE  /\ \A x \in KernelBytes : mem'[x] = mem[x]
                        /\ \A p \in DOMAIN table : p \in DOMAIN table' /\ table'[p] = table[p]
                        /\ \A p \in DOMAIN table' \ DOMAIN table :
                              p < BasePage /\ table'[p] \notin ImageFrame .. BaseFrames - 1
      BY Zenon
    <2>1. CASE relocate_loads
      BY <2>1, LoadKeepsKernel, Zenon
    <2>2. CASE relocate_fails \/ relocate_skips \/ relocate_hangs \/ relocate_ends
      BY <2>2, Zenon DEF relocate_fails, relocate_skips, relocate_hangs, relocate_ends
    <2> QED
      BY <2>1, <2>2, Zenon DEF ElfNext, elf_relocate, elf_load
  <1> QED
    BY <1>1, ElfInvInit, ElfInvNext, PTL DEF ElfSpec, KernelUntouched

-----------------------------------------------------------------------------
(***************************************************************************)
(* The image.  After the headers before the n-th one every byte holds what *)
(* the last of their segments that covers it says, in a frame that no      *)
(* other page shows.                                                       *)
(***************************************************************************)
Byte(j, a) ==
    IF a - load.ph[j].p_vaddr < load.ph[j].p_filesz
    THEN 1 + load.ph[j].p_offset + (a - load.ph[j].p_vaddr) ELSE Zero

LoadedTo(n) ==
    \A a \in Addresses : \A j \in Covering(a) :
        j < n /\ (\A k \in Covering(a) : k < n => k <= j) =>
            a < KERN_BASE /\ IsMapped(table, a) /\ mem[Physical(table, a)] = Byte(j, a)

ImageSound == NoneWraps /\ NoneOutside /\ ~Exhausted

ImageInv ==
    /\ ElfInv
    /\ load.at \in {"run", "done"} /\ load.ret = 0 => load.e_ok
    /\ load.at = "done" /\ load.ret = 0 => load.i > Len(load.ph)
    /\ load.at \in {"run", "done"} /\ ImageSound => LoadedTo(load.i)
    /\ load.at = "fault" /\ NoneWraps => TooLong(load.ph[load.i]) \/ Outside(load.ph[load.i])

\* The bytes of a segment whose end fits into an address.
LEMMA BytesAre ==
    ASSUME NEW v \in Nat, NEW n \in Nat, v + n < Span
    PROVE  Bytes(v, n) = v .. v + n - 1
  <1>1. ASSUME NEW k \in 0 .. n - 1 PROVE Add(v, k) = v + k
    BY AddSmall, ElfConstants
  <1>2. \A a \in Bytes(v, n) : a \in v .. v + n - 1
    BY <1>1 DEF Bytes
  <1>3. ASSUME NEW a \in v .. v + n - 1 PROVE a \in Bytes(v, n)
    <2>1. a - v \in 0 .. n - 1 /\ v + (a - v) = a
      OBVIOUS
    <2> QED
      BY <1>1, <2>1, Zenon DEF Bytes
  <1> QED
    BY <1>2, <1>3, Zenon

\* The pages that elf_relocate maps for a segment (elf.c:52) hold all the bytes
\* up to the end of the page in which its file contents end.
LEMMA RegionHolds ==
    ASSUME NEW v \in Nat, NEW e \in Nat, v <= e,
           NEW a \in Nat, v <= a, a < (e \div Page + 1) * Page
    PROVE  a \div Page \in (v \div Page) .. (e \div Page)
  <1>1. Page \in Nat \ {0}
    BY ElfConstants, Zenon
  <1>2. v \div Page <= a \div Page /\ v \div Page \in Nat /\ a \div Page \in Nat /\ e \div Page \in Nat
    BY <1>1
  <1>3. (a \div Page) * Page <= a
    BY <1>1
  <1>4. a \div Page <= e \div Page
    <2> DEFINE q == a \div Page
               r == e \div Page
    <2>1. SUFFICES ASSUME r + 1 <= q PROVE FALSE
      BY <1>2
    <2>2. (r + 1) * Page <= q * Page
      BY <1>1, <1>2, <2>1
    <2>3. (r + 1) * Page \in Nat /\ q * Page \in Nat
      BY <1>1, <1>2
    <2> QED
      BY <1>3, <2>2, <2>3
  <1> QED
    BY <1>2, <1>4

\* A segment that is not loaded to its end is longer than its pages, or its contents
\* are not all in the file.
LEMMA StopHasReason ==
    ASSUME relocate_loads, ElfInv, ~Wraps(load.ph[load.i]),
           NEW n \in 0 .. load.ph[load.i].p_memsz, n # load.ph[load.i].p_memsz,
           Stores(table', load.ph[load.i], n)
    PROVE  TooLong(load.ph[load.i]) \/ Outside(load.ph[load.i])
  <1> DEFINE s == load.ph[load.i]
             v == s.p_vaddr
             f == s.p_filesz
             m == s.p_memsz
             o == s.p_offset
             len == load.length
             end == ((v + f) \div Page + 1) * Page
  <1>1. /\ f <= m /\ v + m < Span /\ s.type = "LOAD"
        /\ DOMAIN table' = DOMAIN table \union ((v \div Page) .. ((v + f) \div Page))
    BY SegmentStores, Zenon
  <1>2. v \in Nat /\ f \in Nat /\ m \in Nat /\ o \in Nat /\ len \in Nat /\ len < Span
    BY SegmentNumbers, Zenon DEF relocate_loads, ElfInv
  <1>3. /\ n = m \/ ~IsMapped(table', Add(v, n)) \/ (n < f /\ ~(Add(o, n) < len))
    BY Zenon DEF Stores, InFile
  <1>4. SUFFICES ASSUME ~(v + m > end), ~(o + f > len) PROVE FALSE
    BY <1>1, Zenon DEF TooLong, Outside
  <1>5. n \in 0 .. m /\ n # m
    BY Zenon
  <1> HIDE DEF s, v, f, m, o, len
  <1>6. /\ n \in Nat /\ n < m /\ v + n \in Nat /\ v + n < Span /\ v <= v + n /\ v <= v + f /\ v + f \in Nat
    BY <1>1, <1>2, <1>5, ElfConstants
  <1>7. end \in Nat
    BY <1>6, ElfConstants
  <1>8. v + n < end
    BY <1>2, <1>4, <1>6, <1>7
  <1>9. IsMapped(table', Add(v, n))
    <2>1. Add(v, n) = v + n
      BY <1>2, <1>6, AddSmall, Zenon
    <2>2. (v + n) \div Page \in (v \div Page) .. ((v + f) \div Page)
      BY <1>2, <1>6, <1>8, RegionHolds, Zenon
    <2> QED
      BY <1>1, <2>1, <2>2, Zenon DEF IsMapped
  <1>10. n < f => Add(o, n) < len
    <2>1. SUFFICES ASSUME n < f PROVE Add(o, n) < len
      BY Zenon
    <2>2. o + n < len /\ o + n < Span
      BY <1>2, <1>4, <1>6, <2>1, ElfConstants
    <2>3. Add(o, n) = o + n
      BY <1>2, <1>6, <2>2, AddSmall, Zenon
    <2> QED
      BY <2>2, <2>3, Zenon
  <1> QED
    BY <1>3, <1>5, <1>9, <1>10, Zenon

\* A segment that is loaded to its end is mapped and stored to its end.
LEMMA SegmentLoaded ==
    ASSUME relocate_loads, ElfInv, ~Wraps(load.ph[load.i]), load' = [load EXCEPT !.i = @ + 1]
    PROVE  LET s == load.ph[load.i]
               v == s.p_vaddr
               m == s.p_memsz
           IN  /\ mem' = Fill(table', s, m)
               /\ \A a \in v .. v + m - 1 : a \in Nat /\ a < KERN_BASE /\ IsMapped(table', a)
  <1> DEFINE s == load.ph[load.i]
             v == s.p_vaddr
             m == s.p_memsz
  <1>1. /\ v + m < KERN_BASE /\ v + m < Span
        /\ \E n \in 0 .. m :
              /\ Stores(table', s, n) /\ mem' = Fill(table', s, n)
              /\ load' = IF n = m THEN [load EXCEPT !.i = @ + 1] ELSE [load EXCEPT !.at = "fault"]
    BY SegmentStores, Zenon
  <1>2. v \in Nat /\ m \in Nat
    BY SegmentNumbers, Zenon DEF relocate_loads, ElfInv
  <1>3. load' # [load EXCEPT !.at = "fault"]
    <2>1. load.at = "run"
      BY Zenon DEF relocate_loads
    <2>2. load'.at = "run"
      BY <2>1, Zenon DEF ElfInv, LoadOK
    <2>3. [load EXCEPT !.at = "fault"].at = "fault"
      BY Zenon DEF ElfInv, LoadOK
    <2> QED
      BY <2>2, <2>3, Zenon
  <1>4. Stores(table', s, m) /\ mem' = Fill(table', s, m)
    BY <1>1, <1>3, Zenon
  <1>5. \A k \in 0 .. m - 1 : IsMapped(table', Add(v, k))
    BY <1>4, Zenon DEF Stores
  <1> HIDE DEF s, v, m
  <1>6. ASSUME NEW a \in v .. v + m - 1 PROVE a \in Nat /\ a < KERN_BASE /\ IsMapped(table', a)
    <2>1. a - v \in 0 .. m - 1 /\ a - v \in Nat /\ v + (a - v) = a /\ a \in Nat
          /\ a < Span /\ a < KERN_BASE
      BY <1>1, <1>2, ElfConstants
    <2>2. Add(v, a - v) = a
      BY <1>2, <2>1, AddSmall
    <2> QED
      BY <1>5, <2>1, <2>2, Zenon
  <1> QED
    BY <1>4, <1>6, Zenon DEF s, v, m

\* What is at a byte after a segment was loaded to its end.
LEMMA ByteStored ==
    ASSUME relocate_loads, ElfInv, ~Wraps(load.ph[load.i]), ~Outside(load.ph[load.i]),
           ~Exhausted', load' = [load EXCEPT !.i = @ + 1],
           NEW a \in Nat, a < KERN_BASE, IsMapped(table', a)
    PROVE  LET s == load.ph[load.i]
               x == Physical(table', a)
           IN  IF a \in s.p_vaddr .. s.p_vaddr + s.p_memsz - 1
               THEN mem'[x] = Byte(load.i, a) ELSE mem'[x] = mem[x]
  <1> DEFINE s == load.ph[load.i]
             v == s.p_vaddr
             f == s.p_filesz
             m == s.p_memsz
             o == s.p_offset
             len == load.length
             x == Physical(table', a)
             at == StoredAt(table', s, m, x)
  <1>1. /\ f <= m /\ v + m < KERN_BASE /\ v + m < Span /\ s.type = "LOAD"
        /\ FramesApart(table', free')
    BY SegmentStores, Zenon
  <1>2. /\ v \in Nat /\ f \in Nat /\ m \in Nat /\ o \in Nat /\ len \in Nat /\ len < Span
    BY SegmentNumbers, Zenon DEF relocate_loads, ElfInv
  <1>3. /\ mem' = Fill(table', s, m)
        /\ \A b \in v .. v + m - 1 : b \in Nat /\ b < KERN_BASE /\ IsMapped(table', b)
    BY SegmentLoaded, Zenon
  <1>5. ~(o + f > len)
    BY <1>1, Zenon DEF Outside
  <1>7. at = {k \in 0 .. m - 1 : Physical(table', Add(v, k)) = x}
    BY Zenon DEF StoredAt
  <1>12. x \in Memory
    BY <1>1, BytesApart, Zenon
  <1>8. mem'[x] = IF at = {} THEN mem[x] ELSE SegmentByte(s, CHOOSE k \in at : \A j \in at : j <= k)
    BY <1>3, <1>12, Zenon DEF Fill
  <1>9. \A k : SegmentByte(s, k) = IF k >= f THEN Zero
                                   ELSE IF Add(o, k) < len THEN 1 + Add(o, k) ELSE Foreign
    BY Zenon DEF SegmentByte, InFile
  <1>10. Byte(load.i, a) = IF a - v < f THEN 1 + o + (a - v) ELSE Zero
    BY Zenon DEF Byte
  <1>11. table'[a \div Page] # 0
    BY PageBelow, Zenon DEF Exhausted, IsMapped
  <1> HIDE DEF s, v, f, m, o, len, at
  <1>13. ASSUME NEW k \in 0 .. m - 1 PROVE Physical(table', Add(v, k)) = x <=> v + k = a
    <2>1. k \in Nat /\ v + k \in v .. v + m - 1 /\ v + k < Span
      BY <1>1, <1>2, ElfConstants
    <2>2. Add(v, k) = v + k
      BY <1>2, <2>1, AddSmall, Zenon
    <2>3. v + k \in Nat /\ v + k < KERN_BASE /\ IsMapped(table', v + k)
      BY <1>3, <2>1, Zenon
    <2>4. x = Physical(table', v + k) => a = v + k
      BY <1>1, <1>11, <2>3, BytesApart, Zenon
    <2> QED
      BY <2>2, <2>4, Zenon
  <1>14. CASE a \in v .. v + m - 1
    <2>1. a - v \in 0 .. m - 1 /\ v + (a - v) = a /\ \A k \in 0 .. m - 1 : v + k = a <=> k = a - v
      BY <1>2, <1>14
    <2>2. at = {a - v}
      BY <1>7, <1>13, <2>1, Zenon
    <2>3. (CHOOSE k \in {a - v} : \A j \in {a - v} : j <= k) = a - v
      BY <2>1
    <2>4. mem'[x] = SegmentByte(s, a - v)
      BY <1>8, <1>12, <2>2, <2>3, Zenon
    <2>5. SegmentByte(s, a - v) = IF a - v < f THEN 1 + o + (a - v) ELSE Zero
      <3>1. CASE a - v < f
        <4>1. ~(a - v >= f) /\ a - v \in Nat /\ o + (a - v) < len /\ o + (a - v) < Span
          BY <1>2, <1>5, <2>1, <3>1, ElfConstants
        <4>2. Add(o, a - v) = o + (a - v)
          BY <1>2, <4>1, AddSmall, Zenon
        <4>3. 1 + (o + (a - v)) = 1 + o + (a - v)
          BY <1>2, <4>1
        <4> QED
          BY <1>9, <3>1, <4>1, <4>2, <4>3, Zenon
      <3>2. CASE ~(a - v < f)
        <4>1. a - v >= f
          BY <1>2, <2>1, <3>2
        <4> QED
          BY <1>9, <3>2, <4>1, Zenon
      <3> QED
        BY <3>1, <3>2, Zenon
    <2> QED
      BY <1>10, <1>14, <2>4, <2>5, Zenon DEF s, v, m
  <1>15. CASE a \notin v .. v + m - 1
    <2>1. \A k \in 0 .. m - 1 : v + k # a
      BY <1>2, <1>15
    <2>2. at = {}
      BY <1>7, <1>13, <2>1, Zenon
    <2> QED
      BY <1>8, <1>12, <1>15, <2>2, Zenon DEF s, v, m
  <1> QED
    BY <1>14, <1>15, Zenon

\* The image grows by one segment.
LEMMA ImageGrows ==
    ASSUME relocate_loads, ElfInv, ImageSound', LoadedTo(load.i),
           load' = [load EXCEPT !.i = @ + 1]
    PROVE  LoadedTo(load.i)'
  <1> DEFINE n == load.i
             s == load.ph[n]
             v == s.p_vaddr
             m == s.p_memsz
  <1>1. /\ n \in Nat \ {0} /\ load.ph' = load.ph /\ load.i' = n + 1 /\ load.length' = load.length
    BY DEF ElfInv, LoadOK
  <1>2. load.ph \in Seq(Segments) /\ n <= Len(load.ph)
    BY Zenon DEF relocate_loads, ElfInv, LoadOK
  <1>3. v \in Nat /\ m \in Nat /\ n \in DOMAIN load.ph
    BY <1>2, SegmentNumbers, Zenon DEF ElfInv
  <1>4. ~Wraps(s) /\ ~Outside(s) /\ ~Exhausted'
    BY <1>1, <1>3, Zenon DEF ImageSound, NoneWraps, NoneOutside, Wraps, Outside
  <1>5. /\ v + m < Span /\ s.type = "LOAD"
        /\ DOMAIN table \subseteq DOMAIN table'
        /\ \A p \in DOMAIN table : table'[p] = table[p]
    BY <1>4, SegmentStores, Zenon
  <1>6. \A a \in v .. v + m - 1 : a \in Nat /\ a < KERN_BASE /\ IsMapped(table', a)
    BY <1>4, SegmentLoaded, Zenon
  <1>7. \A a \in Addresses : n \in Covering(a) <=> a \in v .. v + m - 1
    <2>1. Bytes(v, m) = v .. v + m - 1
      BY <1>3, <1>5, BytesAre, Zenon
    <2> QED
      BY <1>3, <1>5, <2>1, Zenon DEF Covering
  <1>8. \A a : Covering(a)' = Covering(a)
    BY <1>1, Zenon DEF Covering
  <1>9. \A j, a : Byte(j, a)' = Byte(j, a)
    <2>1. load'.ph = load.ph
      BY <1>1, Zenon
    <2> QED
      BY ONLY <2>1 DEF Byte
  <1>10. \A a \in Addresses : Covering(a) \subseteq Nat
    BY <1>2 DEF Covering
  <1>11. ASSUME NEW a \in Addresses, NEW j \in Covering(a), j < n + 1,
                \A k \in Covering(a) : k < n + 1 => k <= j
         PROVE  a < KERN_BASE /\ IsMapped(table', a) /\ mem'[Physical(table', a)] = Byte(j, a)
    <2>0. a \in Nat /\ j \in Nat
      BY <1>10, <1>11, ElfConstants DEF Addresses
    <2>1. CASE n \in Covering(a)
      <3>1. j = n
        BY <1>1, <1>11, <2>0, <2>1
      <3>2. a \in v .. v + m - 1
        BY <1>7, <1>11, <2>1, Zenon
      <3>3. a < KERN_BASE /\ IsMapped(table', a)
        BY <1>6, <3>2, Zenon
      <3>4. mem'[Physical(table', a)] = Byte(n, a)
        BY <1>4, <2>0, <3>2, <3>3, ByteStored, Zenon
      <3> QED
        BY <3>1, <3>3, <3>4, Zenon
    <2>2. CASE n \notin Covering(a)
      <3>1. a \notin v .. v + m - 1
        BY <1>7, <1>11, <2>2, Zenon
      <3>2. j # n
        BY <1>11, <2>2, Zenon
      <3>3. j < n /\ \A k \in Covering(a) : k < n => k <= j
        <4>1. \A k \in Nat : k < n => k < n + 1
          BY <1>1
        <4>2. j < n
          BY <1>1, <1>11, <2>0, <3>2
        <4> QED
          BY <1>10, <1>11, <4>1, <4>2, Zenon
      <3>4. a < KERN_BASE /\ IsMapped(table, a) /\ mem[Physical(table, a)] = Byte(j, a)
        BY <1>11, <3>3, Zenon DEF LoadedTo
      <3>5. IsMapped(table', a) /\ Physical(table', a) = Physical(table, a)
        BY <1>5, <3>4, Zenon DEF IsMapped, Physical
      <3>6. mem'[Physical(table', a)] = mem[Physical(table', a)]
        BY <1>4, <2>0, <3>1, <3>4, <3>5, ByteStored, Zenon
      <3> QED
        BY <3>4, <3>5, <3>6, Zenon
    <2> QED
      BY <2>1, <2>2, Zenon
  <1> HIDE DEF n
  <1> QED
    BY <1>1, <1>8, <1>9, <1>11, Zenon DEF LoadedTo

\* No image is there in the beginning.
LEMMA ImageInvInit == ElfInit => ImageInv
  BY ElfInvInit DEF ElfInit, ImageInv, NoLoad

\* Every step of the loader keeps the image right.
LEMMA ImageInvNext == ImageInv /\ [ElfNext]_elf => ImageInv'
  <1> SUFFICES ASSUME ImageInv, [ElfNext]_elf PROVE ImageInv'
    BY Zenon
  <1>0. ElfInv /\ ElfInv' /\ LoadOK
    BY ElfInvNext, Zenon DEF ImageInv, ElfInv
  <1>K. ASSUME mem' = mem, table' = table, load.ph' = load.ph, load.length' = load.length
        PROVE  /\ ImageSound' = ImageSound
               /\ \A n : LoadedTo(n) => \A a \in Addresses : \A j \in Covering(a)' :
                       j < n /\ (\A k \in Covering(a)' : k < n => k <= j)
                           => /\ a < KERN_BASE /\ IsMapped(table', a)
                              /\ mem'[Physical(table', a)] = Byte(j, a)'
    <2>1. ImageSound' = ImageSound
      BY <1>K, Zenon DEF ImageSound, NoneWraps, NoneOutside, Wraps, Outside, Exhausted
    <2>2. \A a : Covering(a)' = Covering(a)
      BY <1>K, Zenon DEF Covering
    <2>3. \A j, a : Byte(j, a)' = Byte(j, a)
      BY <1>K, Zenon DEF Byte
    <2> QED
      BY <1>K, <2>1, <2>2, <2>3, Zenon DEF LoadedTo
  <1>1. ASSUME NEW binary \in Binary, elf_load(binary) PROVE ImageInv'
    <2>1. /\ load'.i = 1 /\ load'.at = "run" /\ load'.e_ok = binary.e_ok
          /\ load'.ret = IF binary.e_ok THEN 0 ELSE -1
      BY <1>1, Zenon DEF elf_load, elf_check_header
    <2>2. load'.ret = 0 => load'.e_ok
      BY <2>1
    <2>3. LoadedTo(load.i)'
      <3>1. \A a \in Addresses : Covering(a)' \subseteq Nat \ {0}
        BY <1>0 DEF Covering, ElfInv, LoadOK
      <3>2. \A j \in Nat \ {0} : ~(j < 1)
        OBVIOUS
      <3> QED
        BY <2>1, <3>1, <3>2, Zenon DEF LoadedTo
    <2> QED
      BY <1>0, <2>1, <2>2, <2>3, Zenon DEF ImageInv
  <1>2. CASE relocate_fails \/ relocate_ends
    <2>1. /\ load.at = "run" /\ load'.at = "done" /\ load'.i = load.i
          /\ load'.ph = load.ph /\ load'.e_ok = load.e_ok /\ load'.length = load.length
          /\ mem' = mem /\ table' = table
          /\ load'.ret = -1 \/ (load'.ret = load.ret /\ load.i > Len(load.ph))
      BY <1>0, <1>2, Zenon DEF relocate_fails, relocate_ends, LoadOK
    <2>2. ImageSound' => LoadedTo(load.i)'
      <3> SUFFICES ASSUME ImageSound' PROVE LoadedTo(load.i)'
        BY Zenon
      <3>1. LoadedTo(load.i)
        BY <1>K, <2>1, Zenon DEF ImageInv
      <3> QED
        BY <1>K, <2>1, <3>1, Zenon DEF LoadedTo
    <2>3. -1 # 0
      OBVIOUS
    <2> QED
      BY <1>0, <2>1, <2>2, <2>3, Zenon DEF ImageInv
  <1>3. CASE relocate_skips
    <2>1. /\ load.at = "run" /\ load'.at = "run" /\ load'.i = load.i + 1 /\ load.i \in Nat
          /\ load'.ph = load.ph /\ load'.e_ok = load.e_ok /\ load'.length = load.length
          /\ mem' = mem /\ table' = table
          /\ load'.ret = load.ret /\ load.ph[load.i].type # "LOAD"
      BY <1>0, <1>3, Zenon DEF relocate_skips, LoadOK
    <2>2. ImageSound' => LoadedTo(load.i)'
      <3> SUFFICES ASSUME ImageSound' PROVE LoadedTo(load.i)'
        BY Zenon
      <3>1. LoadedTo(load.i)
        BY <1>K, <2>1, Zenon DEF ImageInv
      <3>2. \A a \in Addresses : Covering(a) \subseteq Nat /\ load.i \notin Covering(a)
        BY <1>0, <2>1, SMTT(30) DEF Covering, LoadOK
      <3>3. \A j \in Nat : j # load.i => (j < load.i <=> j < load.i + 1)
        BY <2>1
      <3>4. PICK n : n = load.i + 1
        BY Zenon
      <3>5. LoadedTo(n)
        BY <3>1, <3>2, <3>3, <3>4, Zenon DEF LoadedTo
      <3>6. load'.i = n
        BY <2>1, <3>4, Zenon
      <3> QED
        BY <1>K, <2>1, <3>5, <3>6, Zenon DEF LoadedTo
    <2> QED
      BY <1>0, <2>1, <2>2, Zenon DEF ImageInv
  <1>4. CASE relocate_loads
    <2>1. /\ load.at = "run"
          /\ \/ load' = [load EXCEPT !.i = @ + 1] \/ load' = [load EXCEPT !.at = "fault"]
             \/ load' = [load EXCEPT !.at = "lost"]
      BY <1>4, Zenon DEF relocate_loads
    <2>2. load.i \in DOMAIN load.ph
      <3>1. load.ph \in Seq(Segments) /\ load.i \in Nat \ {0}
        BY <1>0, Zenon DEF LoadOK
      <3>2. load.i <= Len(load.ph)
        BY <1>4, Zenon DEF relocate_loads
      <3> QED
        BY <3>1, <3>2
    <2>3. CASE load' = [load EXCEPT !.i = @ + 1]
      <3>1. /\ load'.at = "run" /\ load'.ret = load.ret /\ load'.e_ok = load.e_ok
            /\ load'.ph = load.ph /\ load'.length = load.length
        BY <1>0, <2>1, <2>3, Zenon DEF LoadOK
      <3>2. ImageSound' => LoadedTo(load.i)'
        <4> SUFFICES ASSUME ImageSound' PROVE LoadedTo(load.i)'
          BY Zenon
        <4>1. NoneWraps /\ NoneOutside
          BY <3>1, Zenon DEF ImageSound, NoneWraps, Wraps, NoneOutside, Outside
        <4>2. /\ DOMAIN table \subseteq DOMAIN table'
              /\ \A p \in DOMAIN table : table'[p] = table[p]
          BY <1>0, <1>4, <2>2, <4>1, SegmentStores, Zenon DEF NoneWraps
        <4>3. ~Exhausted
          BY <4>2, Zenon DEF ImageSound, Exhausted
        <4> QED
          BY <1>0, <1>4, <2>1, <2>3, <4>1, <4>3, ImageGrows, Zenon DEF ImageInv, ImageSound
      <3> QED
        BY <1>0, <2>1, <3>1, <3>2, Zenon DEF ImageInv
    <2>4. CASE load' = [load EXCEPT !.at = "fault"]
      <3>1. /\ load'.at = "fault" /\ load'.ph = load.ph /\ load'.i = load.i
            /\ load'.length = load.length /\ load' # [load EXCEPT !.i = @ + 1]
            /\ load' # [load EXCEPT !.at = "lost"]
        BY <1>0, <2>1, <2>4, Zenon DEF LoadOK
      <3>2. NoneWraps' => TooLong(load.ph[load.i]) \/ Outside(load.ph[load.i])
        <4> SUFFICES ASSUME NoneWraps' PROVE TooLong(load.ph[load.i]) \/ Outside(load.ph[load.i])
          BY Zenon
        <4>1. ~Wraps(load.ph[load.i])
          BY <2>2, <3>1, Zenon DEF NoneWraps, Wraps
        <4>2. PICK n \in 0 .. load.ph[load.i].p_memsz :
                 n # load.ph[load.i].p_memsz /\ Stores(table', load.ph[load.i], n)
          BY <1>0, <1>4, <3>1, <4>1, SegmentStores, Zenon
        <4> QED
          BY <1>0, <1>4, <4>1, <4>2, StopHasReason, Zenon
      <3> QED
        BY <1>0, <3>1, <3>2, Zenon DEF ImageInv, TooLong, Outside
    <2>5. CASE load' = [load EXCEPT !.at = "lost"]
      <3>1. load'.at = "lost"
        BY <1>0, <2>5, Zenon DEF LoadOK
      <3> QED
        BY <1>0, <3>1, Zenon DEF ImageInv
    <2> QED
      BY <2>1, <2>3, <2>4, <2>5, Zenon
  <1>5. CASE relocate_hangs
    <2>1. load'.at = "hang"
      BY <1>0, <1>5, Zenon DEF relocate_hangs, LoadOK
    <2> QED
      BY <1>0, <2>1, Zenon DEF ImageInv
  <1>6. CASE UNCHANGED elf
    <2>1. load' = load /\ mem' = mem /\ table' = table
      BY <1>6, Zenon DEF elf
    <2>2. ImageSound' = ImageSound /\ (LoadedTo(load.i) => LoadedTo(load.i)')
      BY <1>K, <2>1, Zenon DEF LoadedTo
    <2> QED
      BY <1>0, <2>1, <2>2, Zenon DEF ImageInv, NoneWraps, Wraps, TooLong, Outside
  <1> QED
    BY <1>1, <1>2, <1>3, <1>4, <1>5, <1>6, Zenon DEF ElfNext, elf_relocate

\* A set of indices up to n that is not empty has a last element.
LEMMA LastOf ==
    ASSUME NEW n \in Nat, NEW S, S \subseteq 1 .. n, S # {}
    PROVE  \E j \in S : \A k \in S : k <= j
  <1> DEFINE R == OpToRel(<, Nat)
             T == {n - k : k \in S}
  <1>1. IsWellFoundedOn(R, Nat)
    BY NatLessThanWellFounded, Zenon
  <1>2. T \subseteq Nat /\ T # {}
    <2>1. ASSUME NEW k \in S PROVE n - k \in Nat
      BY <2>1
    <2>2. PICK k \in S : TRUE
      BY Zenon
    <2>3. n - k \in T
      BY Zenon
    <2> QED
      BY <2>1, <2>3, Zenon
  <1> HIDE DEF R, T
  <1>3. PICK x \in T : \A y \in T : ~(<<y, x>> \in R)
    BY <1>1, <1>2, WFMin, Zenon
  <1>4. PICK j \in S : x = n - j
    BY <1>3, Zenon DEF T
  <1>5. ASSUME NEW k \in S PROVE k <= j
    <2>1. n - k \in T /\ n - k \in Nat /\ x \in Nat
      BY <1>2, <1>3, <1>5, Zenon DEF T
    <2>2. ~(n - k < x)
      BY <1>3, <2>1, Zenon DEF R, OpToRel
    <2> QED
      BY <1>4, <1>5, <2>2
  <1> QED
    BY <1>5, Zenon

\* A load that answers 0 (elf.c:86) has put every byte of the image in its place, the
\* last segment that covers it decides which, and a load faults only in a segment that
\* needs more pages than elf.c:52 maps or whose contents are not all in the file: for
\* any machine, after any other loads, as ImageIsComplete limits it to segments in the
\* file that do not reach the end of the address space and to memory that lasts.
THEOREM ImagesAreComplete == ElfSpec => []ImageIsComplete
  <1>1. ImageInv => ImageIsComplete
    <2> SUFFICES ASSUME ImageInv PROVE ImageIsComplete
      BY Zenon
    <2>1. load.at = "fault" /\ NoneWraps => TooLong(load.ph[load.i]) \/ Outside(load.ph[load.i])
      BY Zenon DEF ImageInv
    <2>2. ASSUME load.at = "done", load.ret = 0, ImageSound, NEW a \in Addresses, Covering(a) # {}
          PROVE  LET last == CHOOSE j \in Covering(a) : \A k \in Covering(a) : k <= j
                 IN IsMapped(table, a) /\ mem[Physical(table, a)] = Byte(last, a)
      <3> DEFINE last == CHOOSE j \in Covering(a) : \A k \in Covering(a) : k <= j
      <3>1. load.ph \in Seq(Segments) /\ load.i \in Nat /\ load.i > Len(load.ph) /\ LoadedTo(load.i)
        BY <2>2, Zenon DEF ImageInv, ElfInv, LoadOK
      <3>2. Covering(a) \subseteq 1 .. Len(load.ph)
        BY <3>1, SMTT(30) DEF Covering
      <3>3. \E j \in Covering(a) : \A k \in Covering(a) : k <= j
        <4> DEFINE S == Covering(a)
                   n == Len(load.ph)
        <4>1. n \in Nat /\ S \subseteq 1 .. n /\ S # {}
          BY <2>2, <3>1, <3>2
        <4> HIDE DEF S, n
        <4>2. \E j \in S : \A k \in S : k <= j
          BY <4>1, LastOf, Zenon
        <4> QED
          BY <4>2, Zenon DEF S
      <3>4. last \in Covering(a) /\ \A k \in Covering(a) : k <= last
        BY <3>3, Zenon
      <3> HIDE DEF last
      <3>5. last < load.i
        BY <3>1, <3>2, <3>4
      <3>6. IsMapped(table, a) /\ mem[Physical(table, a)] = Byte(last, a)
        BY <3>1, <3>4, <3>5, Zenon DEF LoadedTo
      <3> QED
        BY <3>6, Zenon DEF last
    <2>3. load.at = "done" /\ load.ret = 0 => load.e_ok
      BY Zenon DEF ImageInv
    <2> QED
      BY <2>1, <2>2, <2>3, Zenon DEF ImageIsComplete, Byte, ImageSound
  <1> QED
    BY <1>1, ImageInvInit, ImageInvNext, PTL DEF ElfSpec
=============================================================================
