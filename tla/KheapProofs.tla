---------------------------- MODULE KheapProofs ----------------------------
(***************************************************************************)
(* The heap for every page size, table span, heap size and set of request  *)
(* sizes: payloads never overlap although the places malloc computes for   *)
(* them and for its own bookkeeping are not the ones it has reserved.      *)
(*                                                                         *)
(* The argument: a block that makes the heap grow stores its second size   *)
(* beyond everything ksbrk has mapped for it and faults, so all blocks in  *)
(* use lie, with what malloc makes of them, in the initial heap.           *)
(***************************************************************************)
EXTENDS Kheap, TLAPS

InitialEnd == HeapStart + HeapInitial

TableWords == PageSize * TableSpan

\* The size of the block a page table is put into.
TableBlock == 2 * PageSize + OVERHEAD

Frame == [n : Nat, align : BOOLEAN, size : Nat,
          pc : {"sbrk", "grow", "table"}, old : Nat, runner : Nat]

Alloc == [base : Nat, size : Nat, addr : Nat, len : Nat]

(* What every block keeps to: the payload lies behind the first twelve     *)
(* words and ends at most eight words behind the block, and the second     *)
(* size is in the initial heap.                                            *)
BlockOK(a) ==
    /\ HeapStart =< a.base
    /\ a.size >= 8
    /\ payload(a.base) =< a.addr
    /\ a.addr + a.len =< a.base + a.size + 8
    /\ trailing(a.base, a.size) < InitialEnd

Blocks ==
    /\ allocs \in Seq(Alloc)
    /\ \A k \in 1 .. Len(allocs) : BlockOK(allocs[k]) /\ allocs[k].base + allocs[k].size =< heap_curr
    /\ \A j, k \in 1 .. Len(allocs) : j < k => allocs[j].base + allocs[j].size =< allocs[k].base

(* Only words at the end of a block have been stored to.                   *)
Hits ==
    \A hit \in hits :
        /\ hit[1] \in 1 .. Len(allocs)
        /\ allocs[hit[1]].addr + hit[2] = allocs[hit[1]].base + allocs[hit[1]].size

(* A request: its block has room for what is asked for, the alignment and  *)
(* the overhead.                                                           *)
RequestOK(f) ==
    /\ f.size >= 8
    /\ padded(f.n, f.align) + OVERHEAD =< f.size

(* No page table has been added: the calls in progress wait for the table  *)
(* behind the initial heap, and but for the outermost they are all calls   *)
(* for that table.                                                         *)
Waits(f, k, last, curr) ==
    /\ k < last => f.size = TableBlock
    /\ k = last => f.size =< TableWords
    /\ k > 1 => f.pc = "table"
    /\ f.pc # "sbrk" =>
          /\ f.runner = InitialEnd
          /\ curr + f.size > InitialEnd
          /\ f.old =< curr
    /\ f.pc = "grow" => f.old = curr
    /\ f.pc = "table" /\ k = 1 => last = 1 /\ f.size > TableBlock

NotGrown ==
    /\ tables = InitialTables /\ pages = InitialPages
    /\ \A k \in 1 .. Len(frames) : Waits(frames[k], k, Len(frames), heap_curr)

(* The table behind the initial heap has been added: the one call left     *)
(* does not fit and has nothing mapped beyond its end.                     *)
Grown ==
    /\ tables = InitialTables \cup {table(InitialEnd)}
    /\ InitialPages \subseteq pages
    /\ Len(frames) = 1
    /\ frames[1].size =< TableWords
    /\ frames[1].size > TableBlock
    /\ heap_curr + frames[1].size > InitialEnd
    /\ frames[1].pc \in {"sbrk", "grow"}
    /\ frames[1].pc = "grow" => InitialEnd =< frames[1].runner /\ frames[1].old =< heap_curr
    /\ \A p \in pages : p \in Nat /\ p * PageSize < heap_curr + frames[1].size

Running ==
    /\ heap_end = InitialEnd /\ heap_curr =< InitialEnd
    /\ frames \in Seq(Frame)
    /\ \A k \in 1 .. Len(frames) : RequestOK(frames[k])
    /\ \A k \in 1 .. Len(allocs) : k = Len(allocs) => allocs[k].base + allocs[k].size = heap_curr
    /\ NotGrown \/ Grown

KInv ==
    /\ heap_curr \in Nat /\ HeapStart =< heap_curr
    /\ InitialPages \subseteq pages
    /\ Blocks
    /\ Hits
    /\ outcome = "ok" => Running

-----------------------------------------------------------------------------

\* A word lies in its page.
LEMMA PageHolds ==
    ASSUME NEW w \in Nat
    PROVE  page(w) \in Nat /\ page(w) * PageSize =< w /\ w < page(w) * PageSize + PageSize
<1>0. PageSize \in Nat \ {0}
  BY KheapAssumption
<1>1. w = PageSize * (w \div PageSize) + (w % PageSize) /\ w \div PageSize \in Nat
      /\ w % PageSize \in 0 .. PageSize - 1
  BY <1>0
<1>2. PageSize * (w \div PageSize) = (w \div PageSize) * PageSize
      /\ (w \div PageSize) * PageSize \in Nat
  BY <1>0, <1>1
<1> QED BY <1>0, <1>1, <1>2 DEF page

\* Division is monotone.
LEMMA DivMonotone ==
    ASSUME NEW a \in Nat, NEW b \in Nat, NEW d \in Nat \ {0}, a =< b
    PROVE  a \div d =< b \div d /\ a \div d \in Nat
<1>1. /\ a = d * (a \div d) + (a % d) /\ a \div d \in Nat /\ a % d \in 0 .. d - 1
      /\ b = d * (b \div d) + (b % d) /\ b \div d \in Nat /\ b % d \in 0 .. d - 1
  OBVIOUS
<1> DEFINE p == a \div d
           q == b \div d
           r == a % d
           s == b % d
<1>2. /\ p \in Nat /\ q \in Nat /\ r \in 0 .. d - 1 /\ s \in 0 .. d - 1
      /\ a = d * p + r /\ b = d * q + s
  BY <1>1
<1> HIDE DEF p, q, r, s
<1>3. ASSUME p >= q + 1 PROVE FALSE
  <2>1. d * p >= d * (q + 1)
    BY <1>2, <1>3
  <2>2. d * (q + 1) = d * q + d /\ d * q \in Nat /\ d * p \in Nat
    BY <1>2
  <2> QED BY <1>2, <2>1, <2>2
<1>4. p =< q
  BY <1>2, <1>3
<1> QED BY <1>1, <1>4 DEF p, q

\* The number of the table behind the initial heap, which starts with that table.
EndTable == InitialEnd \div TableWords

\* The end of the initial heap in pages and words.
LEMMA EndAligned ==
    /\ InitialEnd \in Nat /\ EndTable \in Nat /\ TableWords \in Nat \ {0}
    /\ page(InitialEnd) = TableSpan * EndTable
    /\ page(InitialEnd) * PageSize = InitialEnd
    /\ InitialEnd = TableWords * EndTable
    /\ table(InitialEnd) = EndTable
<1>0. /\ PageSize \in Nat \ {0} /\ TableSpan \in Nat \ {0} /\ HeapStart \in Nat
      /\ HeapInitial \in Nat /\ InitialEnd \in Nat /\ InitialEnd % TableWords = 0
  BY KheapAssumption DEF InitialEnd, TableWords
<1>1. TableWords \in Nat \ {0}
  BY <1>0 DEF TableWords
<1>2. InitialEnd = TableWords * EndTable /\ EndTable \in Nat
  BY <1>0, <1>1 DEF EndTable
<1>3. InitialEnd = PageSize * (TableSpan * EndTable) /\ TableSpan * EndTable \in Nat
  BY <1>0, <1>2 DEF TableWords
<1>4. page(InitialEnd) = TableSpan * EndTable
  <2> DEFINE m == TableSpan * EndTable
  <2>1. m \in Nat /\ InitialEnd = PageSize * m
    BY <1>3
  <2> HIDE DEF m
  <2>2. (PageSize * m) \div PageSize = m
    BY <1>0, <2>1
  <2> QED BY <2>1, <2>2 DEF page, m
<1>5. (TableSpan * EndTable) \div TableSpan = EndTable
  BY <1>0, <1>2
<1> QED BY <1>0, <1>1, <1>2, <1>3, <1>4, <1>5 DEF table

\* What lies in the initial heap is mapped by an initial table, and the other way round.
LEMMA InitialWords ==
    ASSUME NEW w \in Nat
    PROVE  /\ HeapStart =< w /\ w < InitialEnd
                => page(w) \in InitialPages /\ table(w) \in InitialTables
           /\ page(w) \in InitialPages => w < InitialEnd
<1>0. HeapStart \in Nat /\ PageSize \in Nat \ {0} /\ InitialEnd \in Nat
      /\ InitialEnd = page(InitialEnd) * PageSize
  BY KheapAssumption, EndAligned
<1>1. page(w) \in Nat /\ page(HeapStart) \in Nat /\ page(InitialEnd) \in Nat
      /\ page(w) * PageSize =< w /\ w < page(w) * PageSize + PageSize
  BY <1>0, PageHolds
<1>2. ASSUME HeapStart =< w, w < InitialEnd
      PROVE  page(w) \in InitialPages
  <2>1. page(HeapStart) =< page(w)
    BY <1>0, <1>2, DivMonotone DEF page
  <2>2. page(w) < page(InitialEnd)
    <3>1. page(w) * PageSize < page(InitialEnd) * PageSize
      BY <1>0, <1>1, <1>2
    <3> QED BY <1>0, <1>1, <3>1
  <2> QED BY <1>1, <2>1, <2>2 DEF InitialPages, InitialEnd
<1>3. ASSUME page(w) \in InitialPages PROVE w < InitialEnd
  <2>1. page(w) + 1 =< page(InitialEnd)
    BY <1>1, <1>3 DEF InitialPages, InitialEnd
  <2>2. (page(w) + 1) * PageSize =< page(InitialEnd) * PageSize
    BY <1>0, <1>1, <2>1
  <2>3. (page(w) + 1) * PageSize = page(w) * PageSize + PageSize
    BY <1>0, <1>1
  <2> QED BY <1>0, <1>1, <2>2, <2>3
<1> QED BY <1>2, <1>3 DEF InitialTables, table

\* The table behind the initial heap is not one of the initial ones.
LEMMA EndTableIsNew == table(InitialEnd) \notin InitialTables
<1> SUFFICES ASSUME NEW p \in InitialPages, p \div TableSpan = EndTable PROVE FALSE
  BY EndAligned DEF InitialTables
<1>0. TableSpan \in Nat \ {0} /\ HeapStart \in Nat /\ page(HeapStart) \in Nat
  BY KheapAssumption, PageHolds
<1>1. p \in Nat /\ p < TableSpan * EndTable
  BY <1>0, EndAligned DEF InitialPages, InitialEnd
<1>2. p = TableSpan * (p \div TableSpan) + (p % TableSpan) /\ p % TableSpan \in Nat
  BY <1>0, <1>1
<1> QED BY <1>0, <1>1, <1>2, EndAligned

\* What a request that fits into a table needs behind the initial heap is in one table.
LEMMA OneTable ==
    ASSUME NEW w \in Nat, InitialEnd =< w, w < InitialEnd + TableWords
    PROVE  table(w) = table(InitialEnd)
<1>0. PageSize \in Nat \ {0} /\ TableSpan \in Nat \ {0} /\ InitialEnd \in Nat /\ EndTable \in Nat
  BY KheapAssumption, EndAligned
<1>1. page(w) \in Nat /\ page(w) * PageSize =< w
  BY PageHolds
<1>2. TableSpan * EndTable =< page(w)
  BY <1>0, DivMonotone, EndAligned DEF page
<1>3. page(w) < TableSpan * EndTable + TableSpan
  <2>1. page(w) * PageSize < InitialEnd + TableWords
    BY <1>0, <1>1, EndAligned
  <2>2. InitialEnd + TableWords = (TableSpan * EndTable + TableSpan) * PageSize
    <3>1. InitialEnd = (TableSpan * EndTable) * PageSize /\ TableSpan * EndTable \in Nat
      BY <1>0, EndAligned
    <3> QED BY <1>0, <3>1 DEF TableWords
  <2>3. TableSpan * EndTable + TableSpan \in Nat
    BY <1>0
  <2> QED BY <1>0, <1>1, <2>1, <2>2, <2>3
<1>4. page(w) \div TableSpan = EndTable
  <2> DEFINE r == page(w) - TableSpan * EndTable
  <2>1. r \in 0 .. TableSpan - 1 /\ page(w) = TableSpan * EndTable + r
    BY <1>0, <1>1, <1>2, <1>3
  <2> HIDE DEF r
  <2>2. (TableSpan * EndTable + r) \div TableSpan = EndTable
    BY <1>0, <2>1
  <2> QED BY <2>1, <2>2
<1> QED BY <1>4, EndAligned DEF table

-----------------------------------------------------------------------------

\* The invariant holds for the heap vmm_init leaves.
LEMMA InitKInv == Init => KInv
<1> SUFFICES ASSUME Init PROVE KInv
  OBVIOUS
<1>1. <<>> \in Seq(Alloc) /\ <<>> \in Seq(Frame) /\ Len(allocs) = 0 /\ Len(frames) = 0
  BY DEF Init
<1>2. HeapStart \in Nat /\ HeapInitial \in Nat
  BY KheapAssumption
<1>3. NotGrown
  BY <1>1 DEF Init, NotGrown
<1>4. Running
  BY <1>1, <1>2, <1>3 DEF Init, Running, InitialEnd
<1>5. Blocks /\ Hits
  BY <1>1 DEF Init, Blocks, Hits
<1> QED BY <1>2, <1>4, <1>5 DEF Init, KInv

\* The call that is running.
LEMMA TopFrame ==
    ASSUME KInv, outcome = "ok", frames # <<>>
    PROVE  /\ frames \in Seq(Frame) /\ Len(frames) \in Nat \ {0}
           /\ Top = frames[1] /\ Top \in Frame /\ RequestOK(Top)
           /\ Top.n \in Nat /\ Top.align \in BOOLEAN /\ Top.size \in Nat
           /\ Top.old \in Nat /\ Top.runner \in Nat
           /\ heap_end = InitialEnd /\ heap_curr =< InitialEnd
<1>1. /\ frames \in Seq(Frame) /\ heap_end = InitialEnd /\ heap_curr =< InitialEnd
      /\ \A k \in 1 .. Len(frames) : RequestOK(frames[k])
  BY DEF KInv, Running
<1>2. Len(frames) \in Nat \ {0} /\ Top = frames[1] /\ Top \in Frame
  BY <1>1 DEF Top
<1>3. RequestOK(Top)
  BY <1>1, <1>2
<1> QED BY <1>1, <1>2, <1>3 DEF Frame

\* Where the payload of a new block goes.
LEMMA ResultInside ==
    ASSUME NEW b \in Nat, NEW f \in Frame, RequestOK(f)
    PROVE  /\ result(b, f.align) \in Nat
           /\ payload(b) =< result(b, f.align)
           /\ result(b, f.align) + f.n =< b + f.size + 8
<1>0. PageSize \in Nat \ {0} /\ f.n \in Nat /\ f.size \in Nat /\ f.align \in BOOLEAN
  BY KheapAssumption DEF Frame
<1>1. CASE f.align
  <2>1. payload(b) \in Nat /\ payload(b) = b + 12
    BY DEF payload
  <2>2. /\ page(payload(b)) \in Nat /\ page(payload(b)) * PageSize =< b + 12
        /\ b + 12 < page(payload(b)) * PageSize + PageSize
    BY <2>1, PageHolds
  <2>3. (page(payload(b)) + 1) * PageSize = page(payload(b)) * PageSize + PageSize
        /\ page(payload(b)) * PageSize \in Nat
    BY <1>0, <2>2
  <2>4. f.n + PageSize + 4 =< f.size
    BY <1>0, <1>1 DEF RequestOK, padded, OVERHEAD
  <2> QED BY <1>0, <1>1, <2>1, <2>2, <2>3, <2>4 DEF result
<1>2. CASE ~f.align
  BY <1>0, <1>2 DEF result, payload, RequestOK, padded, OVERHEAD
<1> QED BY <1>1, <1>2

\* malloc's part after ksbrk: the new block is the last one, and the only store into a
\* payload is that of its size, behind the block before it.
LEMMA NewBlock ==
    ASSUME KInv, outcome = "ok", frames # <<>>, malloc_block(heap_curr),
           heap_curr' = heap_curr + Top.size,
           page(trailing(heap_curr, Top.size)) \in pages =>
               trailing(heap_curr, Top.size) < InitialEnd
    PROVE  /\ Blocks' /\ Hits'
           /\ outcome' = "ok" =>
                \A k \in 1 .. Len(allocs') : k = Len(allocs') => allocs'[k].base + allocs'[k].size = heap_curr'
<1>0. /\ heap_curr \in Nat /\ HeapStart =< heap_curr /\ HeapStart \in Nat /\ Top \in Frame /\ RequestOK(Top)
      /\ Top.size \in Nat /\ Top.size >= 8 /\ Top.n \in Nat
  BY KheapAssumption, TopFrame DEF KInv, RequestOK
<1>1. /\ allocs \in Seq(Alloc)
      /\ \A k \in 1 .. Len(allocs) : BlockOK(allocs[k]) /\ allocs[k].base + allocs[k].size =< heap_curr
      /\ \A j, k \in 1 .. Len(allocs) : j < k => allocs[j].base + allocs[j].size =< allocs[k].base
      /\ \A k \in 1 .. Len(allocs) : k = Len(allocs) => allocs[k].base + allocs[k].size = heap_curr
  BY DEF KInv, Blocks, Running
<1>2. \A k \in 1 .. Len(allocs) : /\ allocs[k] \in Alloc /\ allocs[k].base \in Nat /\ allocs[k].size \in Nat
                                  /\ allocs[k].addr \in Nat /\ allocs[k].len \in Nat
  <2>1. \A k \in 1 .. Len(allocs) : allocs[k] \in Alloc
    BY <1>1
  <2> QED BY <2>1 DEF Alloc
<1>3. CASE page(trailing(heap_curr, Top.size)) \notin pages
  <2>1. allocs' = allocs /\ hits' = hits /\ outcome' # "ok"
    BY <1>3 DEF malloc_block
  <2>2. ASSUME NEW k \in 1 .. Len(allocs) PROVE allocs[k].base + allocs[k].size =< heap_curr'
    <3>1. allocs[k].base + allocs[k].size \in Nat /\ allocs[k].base + allocs[k].size =< heap_curr
      BY <1>1, <1>2
    <3>2. heap_curr' \in Nat /\ heap_curr =< heap_curr'
      BY <1>0
    <3> QED BY <1>0, <3>1, <3>2
  <2> QED BY <1>1, <2>1, <2>2 DEF KInv, Blocks, Hits
<1>4. CASE page(trailing(heap_curr, Top.size)) \in pages
  <2> DEFINE a == [base |-> heap_curr, size |-> Top.size,
                   addr |-> result(heap_curr, Top.align), len |-> Top.n]
             n == Len(allocs)
  <2>1. /\ allocs' = Append(allocs, a)
        /\ hits' = hits \cup HitBy(heap_curr) \cup HitBy(trailing(heap_curr, Top.size))
    BY <1>4 DEF malloc_block
  <2>2. /\ a \in Alloc /\ BlockOK(a) /\ a.base = heap_curr /\ a.base + a.size = heap_curr'
    <3>1. /\ result(heap_curr, Top.align) \in Nat
          /\ payload(heap_curr) =< result(heap_curr, Top.align)
          /\ result(heap_curr, Top.align) + Top.n =< heap_curr + Top.size + 8
      BY <1>0, ResultInside
    <3> QED BY <1>0, <1>4, <3>1 DEF Alloc, BlockOK
  <2>3. n \in Nat
    BY <1>1
  <2> HIDE DEF a, n
  <2>4. /\ allocs' \in Seq(Alloc) /\ Len(allocs') = n + 1
        /\ allocs'[n + 1] = a
        /\ \A k \in 1 .. n : allocs'[k] = allocs[k]
    BY <1>1, <2>1, <2>2, <2>3 DEF n
  <2>5. \A k \in 1 .. n + 1 : k \in 1 .. n \/ k = n + 1
    BY <2>3
  <2>6. \A k \in 1 .. n : allocs[k].base + allocs[k].size =< heap_curr /\ heap_curr =< heap_curr'
    BY <1>0, <1>1 DEF n
  <2>7. \A k \in 1 .. n + 1 : BlockOK(allocs'[k]) /\ allocs'[k].base + allocs'[k].size =< heap_curr'
    <3> SUFFICES ASSUME NEW k \in 1 .. n + 1
                 PROVE  BlockOK(allocs'[k]) /\ allocs'[k].base + allocs'[k].size =< heap_curr'
      OBVIOUS
    <3>1. CASE k = n + 1
      BY <1>0, <2>2, <2>4, <3>1
    <3>2. CASE k \in 1 .. n
      BY <1>0, <1>1, <1>2, <2>4, <2>6, <3>2, SMTT(30) DEF n
    <3> QED BY <2>5, <3>1, <3>2
  <2>8. \A j, k \in 1 .. n + 1 : j < k => allocs'[j].base + allocs'[j].size =< allocs'[k].base
    <3> SUFFICES ASSUME NEW j \in 1 .. n + 1, NEW k \in 1 .. n + 1, j < k
                 PROVE  allocs'[j].base + allocs'[j].size =< allocs'[k].base
      OBVIOUS
    <3>1. j \in 1 .. n
      BY <2>3
    <3>2. CASE k = n + 1
      BY <2>2, <2>4, <2>6, <3>1, <3>2
    <3>3. CASE k \in 1 .. n
      BY <1>1, <2>4, <3>1, <3>3 DEF n
    <3> QED BY <2>5, <3>2, <3>3
  <2>9. Blocks'
    BY <2>4, <2>7, <2>8 DEF Blocks, BlockOK, payload, trailing
  <2>10. Hits'
    <3> SUFFICES ASSUME NEW hit \in hits'
                 PROVE  /\ hit[1] \in 1 .. n
                        /\ allocs[hit[1]].addr + hit[2] = allocs[hit[1]].base + allocs[hit[1]].size
      BY <2>3, <2>4 DEF Hits
    <3>1. CASE hit \in hits
      BY <3>1 DEF KInv, Hits, n
    <3>2. ASSUME NEW w \in Nat, hit \in HitBy(w), w >= heap_curr
          PROVE  /\ hit[1] \in 1 .. n
                 /\ w < heap_curr + 8
                 /\ w = heap_curr => allocs[hit[1]].addr + hit[2] = allocs[hit[1]].base + allocs[hit[1]].size
      <4>1. PICK k \in 1 .. n : /\ w \in allocs[k].addr .. (allocs[k].addr + allocs[k].len - 1)
                                /\ hit = <<k, w - allocs[k].addr>>
        BY <1>1, <3>2 DEF HitBy, n
      <4> DEFINE base == allocs[k].base
                 end == allocs[k].base + allocs[k].size
      <4>2. /\ base \in Nat /\ end \in Nat /\ end =< heap_curr
            /\ allocs[k].addr \in Nat /\ allocs[k].len \in Nat
            /\ allocs[k].addr + allocs[k].len =< end + 8
        <5>1. BlockOK(allocs[k]) /\ end =< heap_curr
          BY <1>1, <4>1 DEF n
        <5>2. allocs[k].addr + allocs[k].len =< end + 8
          BY <5>1 DEF BlockOK
        <5>3. /\ base \in Nat /\ allocs[k].size \in Nat
              /\ allocs[k].addr \in Nat /\ allocs[k].len \in Nat
          BY <1>2, <4>1 DEF n
        <5>4. end \in Nat
          BY <5>3
        <5> QED BY <5>1, <5>2, <5>3, <5>4
      <4> HIDE DEF base, end
      <4>3. w < end + 8
        <5> DEFINE addr == allocs[k].addr
                   len == allocs[k].len
        <5>1. w \in addr .. (addr + len - 1) /\ addr \in Nat /\ len \in Nat /\ addr + len =< end + 8
          BY <4>1, <4>2
        <5> HIDE DEF addr, len
        <5> QED BY <4>2, <5>1
      <4>4. w < heap_curr + 8
        BY <1>0, <4>2, <4>3
      <4>5. k = n
        <5> SUFFICES ASSUME k # n PROVE FALSE
          OBVIOUS
        <5>1. n \in 1 .. n /\ k < n
          BY <2>3, <4>1
        <5> DEFINE last == allocs[n].base
                   size == allocs[n].size
        <5>2. end =< last /\ last + size = heap_curr /\ size >= 8 /\ last \in Nat /\ size \in Nat
          BY <1>1, <1>2, <4>1, <5>1 DEF n, BlockOK, end
        <5> HIDE DEF last, size
        <5> QED BY <1>0, <3>2, <4>2, <4>3, <5>2
      <4>6. allocs[k].base + allocs[k].size = heap_curr
        BY <1>1, <4>1, <4>5 DEF n
      <4>7. hit[1] = k /\ hit[2] = w - allocs[k].addr
        BY <4>1
      <4>8. allocs[k].addr + (w - allocs[k].addr) = w
        BY <4>2
      <4> QED BY <4>1, <4>4, <4>6, <4>7, <4>8
    <3>3. CASE hit \in HitBy(heap_curr)
      BY <1>0, <3>2, <3>3
    <3>4. CASE hit \in HitBy(trailing(heap_curr, Top.size))
      <4>1. trailing(heap_curr, Top.size) \in Nat /\ trailing(heap_curr, Top.size) >= heap_curr + 8
        BY <1>0 DEF trailing
      <4> QED BY <1>0, <3>2, <3>4, <4>1
    <3> QED BY <2>1, <3>1, <3>3, <3>4
  <2>11. \A k \in 1 .. Len(allocs') : k = Len(allocs') => allocs'[k].base + allocs'[k].size = heap_curr'
    BY <2>2, <2>4
  <2> QED BY <2>9, <2>10, <2>11
<1> QED BY <1>3, <1>4

\* The block of a request has room for it, and fits under one table when the caller
\* keeps to what callers ask for; that for a table is a TableBlock.
LEMMA Requests ==
    /\ \A n \in Nat \ {0}, align \in BOOLEAN :
          /\ Request(n, align) \in Frame /\ RequestOK(Request(n, align))
          /\ Request(n, align).pc = "sbrk"
          /\ n + PageSize + 8 =< TableWords => Request(n, align).size =< TableWords
    /\ Request(PageSize, TRUE).size = TableBlock
<1>0. PageSize \in Nat \ {0} /\ TableWords \in Nat /\ PageSize % 4 = 0
  BY KheapAssumption, EndAligned
<1>1. ASSUME NEW m \in Nat \ {0}
      PROVE  rounded(m) \in Nat /\ m =< rounded(m) /\ rounded(m) =< m + 3 /\ rounded(m) >= 4
  BY DEF rounded
<1>2. ASSUME NEW n \in Nat \ {0}, NEW align \in BOOLEAN
      PROVE  /\ Request(n, align) \in Frame /\ RequestOK(Request(n, align))
             /\ Request(n, align).pc = "sbrk"
             /\ n + PageSize + 8 =< TableWords => Request(n, align).size =< TableWords
  <2> DEFINE m == padded(n, align)
             size == rounded(m) + OVERHEAD
  <2>1. m \in Nat \ {0} /\ m =< n + PageSize
    BY <1>0 DEF padded
  <2> HIDE DEF m
  <2>2. size \in Nat /\ m + OVERHEAD =< size /\ size >= 8 /\ size =< m + 7
    BY <1>1, <2>1 DEF OVERHEAD
  <2> HIDE DEF size
  <2>3. Request(n, align) = [n |-> n, align |-> align, size |-> size, pc |-> "sbrk", old |-> 0, runner |-> 0]
    BY DEF Request, size, m
  <2>4. Request(n, align) \in Frame /\ RequestOK(Request(n, align))
    BY <2>2, <2>3 DEF Frame, RequestOK, m
  <2> QED BY <1>0, <2>1, <2>2, <2>3, <2>4
<1>3. Request(PageSize, TRUE).size = TableBlock
  <2>1. PICK q \in Nat : PageSize = 4 * q
    <3>1. PageSize = 4 * (PageSize \div 4) /\ PageSize \div 4 \in Nat
      BY <1>0
    <3> QED BY <3>1
  <2>2. rounded(2 * PageSize) = 2 * PageSize
    BY <2>1 DEF rounded
  <2> QED BY <1>0, <2>2 DEF Request, padded, TableBlock
<1> QED BY <1>2, <1>3

\* The running call goes on with another frame.
LEMMA ReplaceTop ==
    ASSUME frames \in Seq(Frame), Len(frames) \in Nat \ {0}, NEW g \in Frame,
           frames' = [frames EXCEPT ![1] = g]
    PROVE  /\ frames' \in Seq(Frame) /\ Len(frames') = Len(frames)
           /\ frames'[1] = g /\ \A k \in 2 .. Len(frames) : frames'[k] = frames[k]
  OBVIOUS

\* What a step leaves of the invariant when it changes neither blocks nor pages.
LEMMA KeepsBlocks ==
    ASSUME KInv, UNCHANGED <<heap_curr, allocs, hits>>, pages \subseteq pages',
           outcome' = "ok" => Running'
    PROVE  KInv'
  BY DEF KInv, Blocks, Hits, BlockOK, payload, trailing, InitialEnd, InitialPages, page

\* A call of kmalloc or kmalloc_a.
LEMMA KmallocStep == ASSUME KInv, kmalloc PROVE KInv'
<1>1. outcome = "ok" /\ frames = <<>> /\ UNCHANGED <<heap_curr, heap_end, tables, pages, allocs, hits, outcome>>
  BY DEF kmalloc
<1>2. PICK r \in Frame : frames' = <<r>> /\ RequestOK(r) /\ r.pc = "sbrk" /\ r.size =< TableWords
  <2>1. PICK n \in Sizes \cup PageSizes, align \in BOOLEAN : frames' = <<Request(n, align)>>
    BY DEF kmalloc
  <2>2. n \in Nat \ {0} /\ n + PageSize + 8 =< TableWords
    BY KheapAssumption DEF TableWords
  <2> QED BY <2>1, <2>2, Requests
<1>3. Len(frames) = 0
  BY <1>1
<1>4. Running /\ NotGrown
  BY <1>1, <1>3 DEF KInv, Running, Grown
<1>5. frames' \in Seq(Frame) /\ Len(frames') = 1 /\ frames'[1] = r
  BY <1>2
<1>6. Waits(r, 1, 1, heap_curr)
  BY <1>2 DEF Waits
<1>7. NotGrown'
  BY <1>1, <1>4, <1>5, <1>6 DEF NotGrown, Waits, TableBlock, TableWords, InitialEnd, InitialPages, InitialTables, page
<1>8. Running'
  BY <1>1, <1>2, <1>4, <1>5, <1>7 DEF Running, RequestOK, InitialEnd, padded
<1> QED BY <1>1, <1>8, KeepsBlocks

\* ksbrk when the block fits: only the outermost call or the call for a table of its own.
LEMMA FitsStep == ASSUME KInv, ksbrk_fits PROVE KInv'
<1>1. /\ outcome = "ok" /\ frames # <<>> /\ Top.pc = "sbrk"
      /\ heap_curr + Top.size =< heap_end /\ heap_curr' = heap_curr + Top.size
      /\ malloc_block(heap_curr) /\ UNCHANGED <<heap_end, tables, pages>>
  BY DEF ksbrk_fits, At
<1>2. /\ frames \in Seq(Frame) /\ Len(frames) \in Nat \ {0} /\ Top = frames[1] /\ Top \in Frame /\ Top.size \in Nat
      /\ heap_curr \in Nat /\ heap_end = InitialEnd /\ InitialEnd \in Nat /\ heap_curr =< InitialEnd
      /\ HeapStart \in Nat /\ HeapStart =< heap_curr /\ Top.size >= 8
  BY <1>1, TopFrame, EndAligned, KheapAssumption DEF KInv, RequestOK
<1>3. NotGrown
  BY <1>1, <1>2 DEF KInv, Running, Grown
<1>4. page(trailing(heap_curr, Top.size)) \in pages => trailing(heap_curr, Top.size) < InitialEnd
  <2>1. trailing(heap_curr, Top.size) \in Nat
    BY <1>2 DEF trailing
  <2> QED BY <1>3, <2>1, InitialWords DEF NotGrown
<1>5. /\ Blocks' /\ Hits'
      /\ outcome' = "ok" =>
           \A k \in 1 .. Len(allocs') : k = Len(allocs') => allocs'[k].base + allocs'[k].size = heap_curr'
  BY <1>1, <1>4, NewBlock
<1>6. ASSUME outcome' = "ok" PROVE Running'
  <2>1. frames' = Tail(frames)
    BY <1>1, <1>6 DEF malloc_block
  <2>2. /\ frames' \in Seq(Frame) /\ Len(frames') = Len(frames) - 1
        /\ \A k \in 1 .. Len(frames') : frames'[k] = frames[k + 1]
    BY <1>2, <2>1
  <2>3. \A k \in 1 .. Len(frames) : RequestOK(frames[k]) /\ Waits(frames[k], k, Len(frames), heap_curr)
    BY <1>1, <1>3 DEF KInv, Running, NotGrown
  <2>4. Len(frames) \in {1, 2}
    <3>0. \A m \in Nat \ {0} : ~(m > 2) => m \in {1, 2}
      OBVIOUS
    <3> SUFFICES ASSUME Len(frames) > 2 PROVE FALSE
      BY <1>2, <3>0, Zenon
    <3>1. 1 \in 1 .. Len(frames) /\ 2 \in 1 .. Len(frames) /\ 1 < Len(frames) /\ 2 < Len(frames)
      BY <1>2
    <3>2. Waits(Top, 1, Len(frames), heap_curr) /\ Waits(frames[2], 2, Len(frames), heap_curr)
      BY <1>2, <2>3, <3>1, Zenon
    <3>3. Top.size = TableBlock /\ frames[2].size = TableBlock /\ frames[2].pc = "table"
      BY <3>1, <3>2 DEF Waits
    <3>4. heap_curr + frames[2].size > InitialEnd
      BY <3>2, <3>3 DEF Waits
    <3> QED BY <1>1, <1>2, <3>3, <3>4
  <2>5. \A k \in 1 .. Len(frames') : RequestOK(frames'[k])
    BY <1>2, <2>2, <2>3
  <2>6. \A k \in 1 .. Len(frames') : Waits(frames'[k], k, Len(frames'), heap_curr')
    <3>1. CASE Len(frames) = 1
      BY <2>2, <3>1
    <3>2. CASE Len(frames) = 2
      <4> DEFINE f == frames[2]
      <4>1. Waits(f, 2, 2, heap_curr) /\ Waits(Top, 1, 2, heap_curr) /\ f \in Frame
        <5>1. 1 \in 1 .. Len(frames) /\ 2 \in 1 .. Len(frames)
          BY <3>2
        <5>2. Waits(frames[2], 2, Len(frames), heap_curr) /\ Waits(frames[1], 1, Len(frames), heap_curr)
          BY <2>3, <5>1, Zenon
        <5>3. f \in Frame
          BY <1>2, <5>1
        <5> QED BY <1>2, <3>2, <5>2, <5>3, Zenon
      <4>2. Len(frames') = 1 /\ frames'[1] = f
        BY <2>2, <3>2
      <4> HIDE DEF f
      <4>3. /\ f.pc = "table" /\ f.runner = InitialEnd /\ f.size =< TableWords /\ Top.size = TableBlock
            /\ heap_curr + f.size > InitialEnd /\ f.old =< heap_curr /\ f.size \in Nat /\ f.old \in Nat
        BY <4>1 DEF Waits, Frame
      <4>4. f.size > TableBlock /\ heap_curr' + f.size > InitialEnd /\ f.old =< heap_curr'
        BY <1>1, <1>2, <4>3
      <4>5. Waits(f, 1, 1, heap_curr')
        BY <4>3, <4>4 DEF Waits
      <4> QED BY <4>2, <4>5
    <3> QED BY <2>4, <3>1, <3>2
  <2>7. NotGrown'
    BY <1>1, <1>3, <2>6 DEF NotGrown, Waits, TableBlock, TableWords, InitialEnd, InitialPages, InitialTables, page
  <2>8. heap_end' = InitialEnd /\ heap_curr' =< InitialEnd
    BY <1>1, <1>2
  <2> QED BY <1>5, <1>6, <2>2, <2>5, <2>7, <2>8 DEF Running, RequestOK, InitialEnd, padded
<1>7. heap_curr' \in Nat /\ HeapStart =< heap_curr'
  BY <1>1, <1>2
<1> QED BY <1>1, <1>5, <1>6, <1>7 DEF KInv, InitialPages, page

\* The conditions under which calls wait do not depend on the state but for heap_curr.
LEMMA NotGrownKept ==
    ASSUME NotGrown, UNCHANGED <<tables, pages, heap_curr>>,
           \A k \in 1 .. Len(frames') : Waits(frames'[k], k, Len(frames'), heap_curr)
    PROVE  NotGrown'
  BY DEF NotGrown, Waits, TableBlock, TableWords, InitialEnd, InitialPages, InitialTables, page

\* Running, when only the frames have changed.
LEMMA RunningKept ==
    ASSUME Running, UNCHANGED <<heap_curr, heap_end, allocs>>,
           frames' \in Seq(Frame),
           \A k \in 1 .. Len(frames') : RequestOK(frames'[k]),
           NotGrown' \/ Grown'
    PROVE  Running'
  BY DEF Running, RequestOK, InitialEnd, padded

\* ksbrk starts to grow the heap at its end.
LEMMA GrowsStep == ASSUME KInv, ksbrk_grows PROVE KInv'
<1>1. /\ outcome = "ok" /\ frames # <<>> /\ Top.pc = "sbrk" /\ heap_curr + Top.size > heap_end
      /\ UNCHANGED <<heap_curr, heap_end, tables, pages, allocs, hits, outcome>>
  BY DEF ksbrk_grows, At
<1>2. /\ frames \in Seq(Frame) /\ Len(frames) \in Nat \ {0} /\ Top = frames[1] /\ Top \in Frame
      /\ heap_curr \in Nat /\ heap_end = InitialEnd /\ InitialEnd \in Nat /\ Running /\ RequestOK(Top)
  BY <1>1, TopFrame, EndAligned DEF KInv
<1> DEFINE g == [Top EXCEPT !.pc = "grow", !.old = heap_curr, !.runner = heap_end]
<1>3. frames' = [frames EXCEPT ![1] = g]
  BY <1>2 DEF ksbrk_grows
<1>4. /\ g \in Frame /\ g.pc = "grow" /\ g.old = heap_curr /\ g.runner = InitialEnd
      /\ g.size = Top.size /\ g.n = Top.n /\ g.align = Top.align
  BY <1>2 DEF Frame
<1> HIDE DEF g
<1>5. /\ frames' \in Seq(Frame) /\ Len(frames') = Len(frames) /\ frames'[1] = g
      /\ \A k \in 2 .. Len(frames) : frames'[k] = frames[k]
  BY <1>2, <1>3, <1>4, ReplaceTop
<1>6. \A k \in 1 .. Len(frames') : k = 1 \/ k \in 2 .. Len(frames)
  BY <1>2, <1>5
<1>7. \A k \in 1 .. Len(frames') : RequestOK(frames'[k])
  <2>1. RequestOK(g)
    BY <1>2, <1>4 DEF RequestOK
  <2>2. \A k \in 2 .. Len(frames) : RequestOK(frames[k])
    BY <1>2 DEF Running
  <2> QED BY <1>5, <1>6, <2>1, <2>2, Zenon
<1>8. CASE NotGrown
  <2>1. \A k \in 1 .. Len(frames) : Waits(frames[k], k, Len(frames), heap_curr)
    BY <1>8 DEF NotGrown
  <2>2. Waits(Top, 1, Len(frames), heap_curr)
    <3>1. 1 \in 1 .. Len(frames)
      BY <1>2
    <3> QED BY <1>2, <2>1, <3>1, Zenon
  <2>3. Waits(g, 1, Len(frames), heap_curr)
    BY <1>1, <1>2, <1>4, <2>2 DEF Waits
  <2>4. \A k \in 2 .. Len(frames) : k \in 1 .. Len(frames)
    OBVIOUS
  <2>5. \A k \in 1 .. Len(frames') : Waits(frames'[k], k, Len(frames'), heap_curr)
    BY <1>5, <1>6, <2>1, <2>3, <2>4, Zenon
  <2>6. NotGrown'
    BY <1>1, <1>8, <2>5, NotGrownKept
  <2> QED BY <1>1, <1>2, <1>5, <1>7, <2>6, RunningKept, KeepsBlocks
<1>9. CASE Grown
  <2>1. Grown'
    BY <1>1, <1>2, <1>4, <1>5, <1>9
       DEF Grown, TableBlock, TableWords, InitialEnd, InitialPages, InitialTables, page, table
  <2> QED BY <1>1, <1>2, <1>5, <1>7, <2>1, RunningKept, KeepsBlocks
<1> QED BY <1>2, <1>8, <1>9 DEF Running

\* ksbrk's loop reaches a page only when its table has been added.
LEMMA GrowMeansGrown ==
    ASSUME KInv, At("grow"), table(Top.runner) \in tables \/ Top.runner >= Boundary
    PROVE  Grown
<1>1. /\ frames \in Seq(Frame) /\ Len(frames) \in Nat \ {0} /\ Top = frames[1] /\ Top \in Frame
      /\ Top.size \in Nat /\ heap_curr \in Nat /\ InitialEnd \in Nat /\ Running /\ Top.pc = "grow"
  BY TopFrame, EndAligned DEF KInv, At
<1> SUFFICES ASSUME NotGrown PROVE FALSE
  BY <1>1 DEF Running
<1>2. Waits(Top, 1, Len(frames), heap_curr)
  <2>1. 1 \in 1 .. Len(frames) /\ \A k \in 1 .. Len(frames) : Waits(frames[k], k, Len(frames), heap_curr)
    BY <1>1 DEF NotGrown
  <2> QED BY <1>1, <2>1, Zenon
<1>3. Top.runner = InitialEnd /\ Top.old = heap_curr /\ heap_curr + Top.size > InitialEnd
  BY <1>1, <1>2 DEF Waits
<1> QED BY <1>1, <1>3, EndTableIsNew DEF NotGrown, Boundary

\* A round of ksbrk's loop, within the table that was added.
LEMMA PageStep == ASSUME KInv, allocate_page PROVE KInv'
<1>1. /\ At("grow") /\ outcome = "ok" /\ frames # <<>> /\ Top.pc = "grow" /\ Top.runner < Boundary
      /\ table(Top.runner) \in tables /\ pages' = pages \cup {page(Top.runner)}
      /\ UNCHANGED <<heap_curr, heap_end, tables, allocs, hits, outcome>>
  BY DEF allocate_page, At
<1>2. /\ frames \in Seq(Frame) /\ Len(frames) \in Nat \ {0} /\ Top = frames[1] /\ Top \in Frame
      /\ Top.size \in Nat /\ Top.old \in Nat /\ Top.runner \in Nat
      /\ heap_curr \in Nat /\ InitialEnd \in Nat /\ PageSize \in Nat /\ Running /\ RequestOK(Top)
  BY <1>1, TopFrame, EndAligned, KheapAssumption DEF KInv
<1>3. Grown
  BY <1>1, GrowMeansGrown
<1> DEFINE next == Top.runner + PageSize
           g == [Top EXCEPT !.runner = next]
<1>4. frames' = [frames EXCEPT ![1] = g] /\ next \in Nat
  BY <1>2 DEF allocate_page
<1> HIDE DEF next
<1>5. /\ g \in Frame /\ g.pc = "grow" /\ g.old = Top.old /\ g.runner = next
      /\ g.size = Top.size /\ g.n = Top.n /\ g.align = Top.align
  BY <1>1, <1>2, <1>4 DEF Frame
<1> HIDE DEF g
<1>6. /\ frames' \in Seq(Frame) /\ Len(frames') = Len(frames) /\ frames'[1] = g /\ Len(frames) = 1
  <2>1. frames' \in Seq(Frame) /\ Len(frames') = Len(frames) /\ frames'[1] = g
    BY <1>2, <1>4, <1>5, ReplaceTop
  <2> QED BY <1>3, <2>1 DEF Grown
<1>7. \A k \in 1 .. Len(frames') : RequestOK(frames'[k])
  <2>1. RequestOK(g)
    BY <1>2, <1>5 DEF RequestOK
  <2> QED BY <1>6, <2>1
<1>8. page(Top.runner) \in Nat /\ page(Top.runner) * PageSize < heap_curr + Top.size
  <2>1. page(Top.runner) \in Nat /\ page(Top.runner) * PageSize =< Top.runner
    BY <1>2, PageHolds
  <2>2. Top.old =< heap_curr
    BY <1>1, <1>2, <1>3 DEF Grown
  <2>3. page(Top.runner) * PageSize \in Nat
    BY <1>2, <2>1
  <2> QED BY <1>1, <1>2, <2>1, <2>2, <2>3 DEF Boundary
<1>9. Grown'
  <2>1. /\ Top.size =< TableWords /\ Top.size > TableBlock /\ heap_curr + Top.size > InitialEnd
        /\ InitialEnd =< Top.runner /\ Top.old =< heap_curr
        /\ \A p \in pages : p \in Nat /\ p * PageSize < heap_curr + Top.size
    BY <1>1, <1>2, <1>3 DEF Grown
  <2>2. \A p \in pages' : p \in Nat /\ p * PageSize < heap_curr + Top.size
    BY <1>1, <1>8, <2>1
  <2>3. InitialEnd =< next
    BY <1>2, <2>1 DEF next
  <2> QED BY <1>1, <1>3, <1>5, <1>6, <2>1, <2>2, <2>3
          DEF Grown, TableBlock, TableWords, InitialEnd, InitialPages, InitialTables, page, table
<1> QED BY <1>1, <1>2, <1>6, <1>7, <1>9, RunningKept, KeepsBlocks

\* allocate_page calls kmalloc_a for the table behind the initial heap.
LEMMA TableStep == ASSUME KInv, allocate_table PROVE KInv'
<1>1. /\ At("grow") /\ outcome = "ok" /\ frames # <<>> /\ Top.pc = "grow" /\ Top.runner < Boundary
      /\ table(Top.runner) \notin tables
      /\ UNCHANGED <<heap_curr, heap_end, tables, pages, allocs, hits, outcome>>
  BY DEF allocate_table, At
<1>2. /\ frames \in Seq(Frame) /\ Len(frames) \in Nat \ {0} /\ Top = frames[1] /\ Top \in Frame
      /\ Top.size \in Nat /\ Top.old \in Nat /\ Top.runner \in Nat
      /\ heap_curr \in Nat /\ heap_curr =< InitialEnd /\ InitialEnd \in Nat /\ Running /\ RequestOK(Top)
  BY <1>1, TopFrame, EndAligned DEF KInv
<1>3. NotGrown
  <2> SUFFICES ASSUME Grown PROVE FALSE
    BY <1>2 DEF Running
  <2>1. /\ Top.size =< TableWords /\ InitialEnd =< Top.runner /\ Top.old =< heap_curr
        /\ tables = InitialTables \cup {table(InitialEnd)}
    BY <1>1, <1>2 DEF Grown
  <2>2. Top.runner < InitialEnd + TableWords
    BY <1>1, <1>2, <2>1, EndAligned DEF Boundary
  <2>3. table(Top.runner) = table(InitialEnd)
    BY <1>2, <2>1, <2>2, OneTable
  <2> QED BY <1>1, <2>1, <2>3
<1> DEFINE r == Request(PageSize, TRUE)
           g == [Top EXCEPT !.pc = "table"]
           n == Len(frames)
<1>4. frames' = <<r, g>> \o Tail(frames) /\ n \in Nat \ {0}
  BY <1>2 DEF allocate_table
<1>5. r \in Frame /\ RequestOK(r) /\ r.pc = "sbrk" /\ r.size = TableBlock
  BY Requests, KheapAssumption
<1>6. /\ g \in Frame /\ g.pc = "table" /\ g.old = Top.old /\ g.runner = Top.runner
      /\ g.size = Top.size /\ g.n = Top.n /\ g.align = Top.align
  BY <1>1, <1>2 DEF Frame
<1> HIDE DEF r, g
<1>7. /\ frames' \in Seq(Frame) /\ Len(frames') = n + 1 /\ frames'[1] = r /\ frames'[2] = g
      /\ \A k \in 3 .. n + 1 : frames'[k] = frames[k - 1]
  BY <1>2, <1>4, <1>5, <1>6
<1>8. \A k \in 1 .. n : RequestOK(frames[k]) /\ Waits(frames[k], k, n, heap_curr)
  BY <1>2, <1>3 DEF Running, NotGrown
<1>9. Waits(Top, 1, n, heap_curr)
  <2>1. 1 \in 1 .. n
    BY <1>4
  <2> QED BY <1>2, <1>8, <2>1, Zenon
<1> HIDE DEF n
<1>10. RequestOK(g) /\ Waits(g, 2, n + 1, heap_curr)
  BY <1>1, <1>2, <1>4, <1>6, <1>9 DEF Waits, RequestOK
<1>11. Waits(r, 1, n + 1, heap_curr)
  BY <1>4, <1>5 DEF Waits
<1>12. ASSUME NEW k \in 3 .. n + 1
       PROVE  RequestOK(frames[k - 1]) /\ Waits(frames[k - 1], k, n + 1, heap_curr)
  <2>1. PICK j \in 2 .. n : j = k - 1
    BY <1>4
  <2>2. RequestOK(frames[j]) /\ Waits(frames[j], j, n, heap_curr)
    BY <1>8
  <2>3. Waits(frames[j], k, n + 1, heap_curr)
    BY <1>4, <2>1, <2>2 DEF Waits
  <2> QED BY <2>1, <2>2, <2>3
<1>13. \A k \in 1 .. n + 1 : k = 1 \/ k = 2 \/ k \in 3 .. n + 1
  BY <1>4
<1>14. \A k \in 1 .. Len(frames') : RequestOK(frames'[k]) /\ Waits(frames'[k], k, Len(frames'), heap_curr)
  <2> SUFFICES ASSUME NEW k \in 1 .. n + 1
               PROVE  RequestOK(frames'[k]) /\ Waits(frames'[k], k, n + 1, heap_curr)
    BY <1>7
  <2>1. CASE k = 1
    BY <1>5, <1>7, <1>11, <2>1
  <2>2. CASE k = 2
    BY <1>7, <1>10, <2>2
  <2>3. CASE k \in 3 .. n + 1
    BY <1>7, <1>12, <2>3
  <2> QED BY <1>13, <2>1, <2>2, <2>3
<1>15. NotGrown'
  BY <1>1, <1>3, <1>14, NotGrownKept
<1> QED BY <1>1, <1>2, <1>7, <1>14, <1>15, RunningKept, KeepsBlocks

\* The new table is entered: the call that asked for it is the only one left.
LEMMA EnterStep == ASSUME KInv, enter_table PROVE KInv'
<1>1. /\ outcome = "ok" /\ frames # <<>> /\ Top.pc = "table"
      /\ tables' = tables \cup {table(Top.runner)}
      /\ UNCHANGED <<heap_curr, heap_end, pages, allocs, hits, outcome>>
  BY DEF enter_table, At
<1>2. /\ frames \in Seq(Frame) /\ Len(frames) \in Nat \ {0} /\ Top = frames[1] /\ Top \in Frame
      /\ Top.size \in Nat /\ Top.old \in Nat /\ Top.runner \in Nat
      /\ heap_curr \in Nat /\ heap_curr =< InitialEnd /\ InitialEnd \in Nat /\ Running /\ RequestOK(Top)
  BY <1>1, TopFrame, EndAligned DEF KInv
<1>3. NotGrown
  BY <1>1, <1>2 DEF Running, Grown
<1>4. Waits(Top, 1, Len(frames), heap_curr)
  <2>1. 1 \in 1 .. Len(frames) /\ \A k \in 1 .. Len(frames) : Waits(frames[k], k, Len(frames), heap_curr)
    BY <1>2, <1>3 DEF NotGrown
  <2> QED BY <1>2, <2>1, Zenon
<1>5. /\ Len(frames) = 1 /\ Top.size > TableBlock /\ Top.runner = InitialEnd
      /\ heap_curr + Top.size > InitialEnd /\ Top.old =< heap_curr /\ Top.size =< TableWords
  BY <1>1, <1>4 DEF Waits
<1> DEFINE g == [Top EXCEPT !.pc = "grow"]
<1>6. frames' = [frames EXCEPT ![1] = g]
  BY <1>2 DEF enter_table
<1>7. /\ g \in Frame /\ g.pc = "grow" /\ g.old = Top.old /\ g.runner = Top.runner
      /\ g.size = Top.size /\ g.n = Top.n /\ g.align = Top.align
  BY <1>1, <1>2 DEF Frame
<1> HIDE DEF g
<1>8. frames' \in Seq(Frame) /\ Len(frames') = Len(frames) /\ frames'[1] = g
  BY <1>2, <1>6, <1>7, ReplaceTop
<1>9. \A k \in 1 .. Len(frames') : RequestOK(frames'[k])
  <2>1. RequestOK(g)
    BY <1>2, <1>7 DEF RequestOK
  <2> QED BY <1>5, <1>8, <2>1
<1>10. \A p \in pages : p \in Nat /\ p * PageSize < heap_curr + Top.size
  <2> SUFFICES ASSUME NEW p \in InitialPages
               PROVE  p \in Nat /\ p * PageSize < heap_curr + Top.size
    BY <1>3 DEF NotGrown
  <2>1. page(HeapStart) \in Nat /\ PageSize \in Nat \ {0} /\ page(InitialEnd) \in Nat
    BY KheapAssumption, EndAligned, PageHolds
  <2>2. p \in Nat /\ p < page(InitialEnd)
    BY <2>1 DEF InitialPages, InitialEnd
  <2>3. p * PageSize < page(InitialEnd) * PageSize /\ p * PageSize \in Nat
    BY <2>1, <2>2
  <2> QED BY <1>2, <1>5, <2>2, <2>3, EndAligned
<1>11. tables' = InitialTables \cup {table(InitialEnd)} /\ pages' = InitialPages
  BY <1>1, <1>3, <1>5 DEF NotGrown
<1>12. Grown'
  BY <1>1, <1>2, <1>3, <1>5, <1>7, <1>8, <1>10, <1>11
     DEF NotGrown, Grown, TableBlock, TableWords, InitialEnd, InitialPages, InitialTables, page, table
<1> QED BY <1>1, <1>2, <1>8, <1>9, <1>12, RunningKept, KeepsBlocks

\* A table was taken from the heap meanwhile: ksbrk starts over.
LEMMA RestartStep == ASSUME KInv, restart_sbrk PROVE KInv'
<1>1. /\ At("grow") /\ outcome = "ok" /\ frames # <<>> /\ Top.pc = "grow" /\ Top.runner >= Boundary
      /\ UNCHANGED <<heap_curr, heap_end, tables, pages, allocs, hits, outcome>>
  BY DEF restart_sbrk, At
<1>2. /\ frames \in Seq(Frame) /\ Len(frames) \in Nat \ {0} /\ Top = frames[1] /\ Top \in Frame
      /\ Running /\ RequestOK(Top)
  BY <1>1, TopFrame DEF KInv
<1>3. Grown
  BY <1>1, GrowMeansGrown
<1> DEFINE g == [Top EXCEPT !.pc = "sbrk"]
<1>4. frames' = [frames EXCEPT ![1] = g]
  BY <1>2 DEF restart_sbrk
<1>5. /\ g \in Frame /\ g.pc = "sbrk" /\ g.size = Top.size /\ g.n = Top.n /\ g.align = Top.align
  BY <1>1, <1>2 DEF Frame
<1> HIDE DEF g
<1>6. frames' \in Seq(Frame) /\ Len(frames') = Len(frames) /\ frames'[1] = g
  BY <1>2, <1>4, <1>5, ReplaceTop
<1>7. \A k \in 1 .. Len(frames') : RequestOK(frames'[k])
  <2>1. RequestOK(g)
    BY <1>2, <1>5 DEF RequestOK
  <2> QED BY <1>3, <1>6, <2>1 DEF Grown
<1>8. Grown'
  BY <1>1, <1>2, <1>3, <1>5, <1>6
     DEF Grown, TableBlock, TableWords, InitialEnd, InitialPages, InitialTables, page, table
<1> QED BY <1>1, <1>2, <1>6, <1>7, <1>8, RunningKept, KeepsBlocks

\* The heap has grown, and the second size of the block faults: four times its size
\* is further than the last page that was mapped.
LEMMA UpdateStep == ASSUME KInv, update_boundary PROVE KInv'
<1>1. /\ At("grow") /\ outcome = "ok" /\ frames # <<>> /\ Top.pc = "grow" /\ Top.runner >= Boundary
      /\ Top.old = heap_curr /\ heap_curr' = Boundary /\ malloc_block(Top.old) /\ pages' = pages
  BY DEF update_boundary, At
<1>2. /\ frames \in Seq(Frame) /\ Len(frames) \in Nat \ {0} /\ Top = frames[1] /\ Top.size \in Nat
      /\ heap_curr \in Nat /\ InitialEnd \in Nat /\ HeapStart \in Nat /\ HeapStart =< heap_curr
      /\ PageSize \in Nat \ {0}
  BY <1>1, TopFrame, EndAligned, KheapAssumption DEF KInv
<1>3. Grown
  BY <1>1, GrowMeansGrown
<1>4. /\ Top.size > 2 * PageSize + 4
      /\ \A p \in pages : p \in Nat /\ p * PageSize < heap_curr + Top.size
  BY <1>2, <1>3 DEF Grown, TableBlock, OVERHEAD
<1>5. page(trailing(heap_curr, Top.size)) \notin pages
  <2> DEFINE w == trailing(heap_curr, Top.size)
  <2>1. w \in Nat /\ w = heap_curr + 4 * Top.size - 4
    BY <1>2, <1>4 DEF trailing
  <2> HIDE DEF w
  <2>2. page(w) \in Nat /\ w < page(w) * PageSize + PageSize
    BY <2>1, PageHolds
  <2>3. page(w) * PageSize \in Nat
    BY <1>2, <2>2
  <2> SUFFICES ASSUME page(w) \in pages PROVE FALSE
    BY DEF w
  <2>4. page(w) * PageSize < heap_curr + Top.size
    BY <1>4
  <2> DEFINE size == Top.size
             start == page(w) * PageSize
  <2>5. /\ size \in Nat /\ start \in Nat /\ w = heap_curr + 4 * size - 4 /\ size > 2 * PageSize + 4
        /\ w < start + PageSize /\ start < heap_curr + size
    BY <1>2, <1>4, <2>1, <2>2, <2>3, <2>4
  <2> HIDE DEF size, start
  <2> QED BY <1>2, <2>1, <2>5
<1>6. heap_curr' = heap_curr + Top.size /\ heap_curr' \in Nat /\ HeapStart =< heap_curr'
  BY <1>1, <1>2 DEF Boundary
<1>7. Blocks' /\ Hits'
  BY <1>1, <1>5, <1>6, NewBlock
<1>8. outcome' # "ok"
  BY <1>1, <1>5 DEF malloc_block
<1>9. InitialPages' \subseteq pages'
  BY <1>1 DEF KInv, InitialPages, page
<1> QED BY <1>6, <1>7, <1>8, <1>9 DEF KInv

\* Every step keeps the invariant.
LEMMA StepKInv == KInv /\ [Next]_vars => KInv'
<1>1. ASSUME KInv, ksbrk_fails \/ stack_overflow PROVE KInv'
  <2>1. UNCHANGED <<heap_curr, allocs, hits, pages>> /\ outcome' # "ok"
    BY <1>1 DEF ksbrk_fails, stack_overflow, Stop
  <2> QED BY <1>1, <2>1, KeepsBlocks
<1>2. ASSUME KInv, UNCHANGED vars PROVE KInv'
  BY <1>2 DEF vars, KInv, Blocks, Hits, Running, NotGrown, Grown, BlockOK, RequestOK, Waits, payload,
              trailing, padded, InitialEnd, InitialPages, InitialTables, TableBlock, TableWords, page, table
<1> QED
  BY <1>1, <1>2, KmallocStep, FitsStep, GrowsStep, PageStep, TableStep, EnterStep, RestartStep, UpdateStep
     DEF Next, Step

\* The invariant always holds.
LEMMA AlwaysKInv == Spec => []KInv
  BY InitKInv, StepKInv, PTL DEF Spec

\* kmalloc and kmalloc_a (kheap.c:33) hand out disjoint memory that is mapped in every
\* page directory, for every heap and page size and every mix of request sizes.
THEOREM PayloadsAreDisjoint == Spec => []PayloadsDisjoint
<1>1. KInv => PayloadsDisjoint
  <2> SUFFICES ASSUME KInv, NEW k \in DOMAIN allocs
               PROVE  /\ \A w \in Payload(k) : page(w) \in pages /\ table(w) \in InitialTables
                      /\ \A j \in DOMAIN allocs \ {k} : Payload(j) \cap Payload(k) = {}
    BY DEF PayloadsDisjoint
  <2>1. allocs \in Seq(Alloc) /\ DOMAIN allocs = 1 .. Len(allocs) /\ HeapStart \in Nat
    BY KheapAssumption DEF KInv, Blocks
  <2>2. ASSUME NEW j \in 1 .. Len(allocs), NEW w \in Payload(j)
        PROVE  /\ w \in Nat /\ allocs[j].base \in Nat /\ allocs[j].size \in Nat
               /\ allocs[j].base + 12 =< w /\ w < allocs[j].base + allocs[j].size + 8
               /\ HeapStart =< w /\ w < InitialEnd
    <3> DEFINE a == allocs[j]
    <3>1. a \in Alloc /\ BlockOK(a) /\ w \in a.addr .. (a.addr + a.len - 1)
      BY <2>1 DEF KInv, Blocks, Payload
    <3> HIDE DEF a
    <3> DEFINE base == a.base
               size == a.size
               addr == a.addr
               len == a.len
    <3>2. /\ base \in Nat /\ size \in Nat /\ addr \in Nat /\ len \in Nat
          /\ w \in addr .. (addr + len - 1)
      BY <3>1 DEF Alloc
    <3>3. /\ HeapStart =< base /\ size >= 8 /\ base + 12 =< addr
          /\ addr + len =< base + size + 8 /\ base + 4 * size - 4 < InitialEnd
      BY <3>1 DEF BlockOK, payload, trailing
    <3> HIDE DEF base, size, addr, len
    <3>4. /\ w \in Nat /\ base + 12 =< w /\ w < base + size + 8
          /\ HeapStart =< w /\ w < InitialEnd
      BY <2>1, <3>2, <3>3, EndAligned
    <3> QED BY <3>2, <3>4 DEF a, base, size
  <2>3. ASSUME NEW w \in Payload(k) PROVE page(w) \in pages /\ table(w) \in InitialTables
    BY <2>1, <2>2, InitialWords DEF KInv
  <2>4. ASSUME NEW j \in DOMAIN allocs \ {k}, NEW w \in Payload(j) \cap Payload(k) PROVE FALSE
    <3>1. ASSUME NEW l \in 1 .. Len(allocs), NEW m \in 1 .. Len(allocs), l < m,
                 w \in Payload(l), w \in Payload(m)
          PROVE  FALSE
      <4>1. allocs[l].base + allocs[l].size =< allocs[m].base
        BY <3>1 DEF KInv, Blocks
      <4>2. /\ w \in Nat /\ allocs[l].base \in Nat /\ allocs[l].size \in Nat /\ allocs[m].base \in Nat
            /\ w < allocs[l].base + allocs[l].size + 8 /\ allocs[m].base + 12 =< w
        BY <2>2, <3>1
      <4> QED BY <4>1, <4>2, SMTT(30)
    <3>2. j < k \/ k < j
      BY <2>1, <2>4
    <3> QED BY <2>1, <2>4, <3>1, <3>2
  <2> QED BY <2>3, <2>4
<1> QED BY <1>1, AlwaysKInv, PTL

\* Of all the sizes malloc stores (kheap.c:252) at what it takes for the two ends of a
\* block, the only one that falls into memory in use is that of the next block, at the end of the block before it.
THEOREM OneWordIsHit == Spec => []OnlyOneWordHit
<1>1. KInv => OnlyOneWordHit
  BY DEF KInv, Hits, OnlyOneWordHit
<1> QED BY <1>1, AlwaysKInv, PTL

=============================================================================
