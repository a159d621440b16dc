-------------------------- MODULE SchedulerProofs --------------------------
(***************************************************************************)
(* The operations of list.c, and the scheduler of task.c that keeps its    *)
(* tasks in such a list, for every set of nodes.                           *)
(*                                                                         *)
(* The first part is about values: what becomes of a chain of nodes when a *)
(* node is put in front of it, behind it, or taken out.  The second part   *)
(* applies it to the operations of List.  The third part finds the         *)
(* invariant of the scheduler: where each task may be, what its stack      *)
(* holds there, and that current_task, the kernel stack in the tss and the *)
(* page directory belong to the task that the processor works for.         *)
(***************************************************************************)
EXTENDS Scheduler, ListSpec, TLAPS

(* The nodes s[1], ..., s[m], all in lv, are linked by nx and pv.          *)
Chain(m, s, nx, pv, lv) ==
    /\ s \in [1 .. m -> Nodes]
    /\ \A j, k \in 1 .. m : s[j] = s[k] => j = k
    /\ \A k \in 1 .. m : s[k] \in lv
    /\ \A k \in 1 .. (m - 1) : nx[s[k]] = s[k + 1] /\ pv[s[k + 1]] = s[k]

(* Its ends are h and t, and marked.                                       *)
Ends(m, s, h, t, nx, pv) ==
    /\ m = 0 => h = Null
    /\ m > 0 => /\ h = s[1] /\ pv[s[1]] = Null
                /\ t = s[m] /\ nx[s[m]] = Null

(* nx2 and pv2 are nx and pv after n was put in front of h,                *)
LinkedFront(n, h, nx, pv, nx2, pv2) ==
    \A p \in Nodes : /\ pv2[p] = IF p = n THEN Null ELSE IF p = h THEN n ELSE pv[p]
                     /\ nx2[p] = IF p = n THEN h ELSE nx[p]

(* behind t,                                                               *)
LinkedBack(n, t, nx, pv, nx2, pv2) ==
    \A p \in Nodes : /\ nx2[p] = IF p = n THEN Null ELSE IF p = t THEN n ELSE nx[p]
                     /\ pv2[p] = IF p = n THEN t ELSE pv[p]

(* and after n was taken out.                                              *)
Unlinked(n, nx, pv, nx2, pv2) ==
    \A p \in Nodes : p # n =>
        /\ nx2[p] = IF p = pv[n] THEN nx[n] ELSE nx[p]
        /\ pv2[p] = IF p = nx[n] THEN pv[n] ELSE pv[p]

(* The chain after that.                                                   *)
Prepended(m, s, n) == [k \in 1 .. (m + 1) |-> IF k = 1 THEN n ELSE s[k - 1]]
Appended(m, s, n) == [k \in 1 .. (m + 1) |-> IF k = m + 1 THEN n ELSE s[k]]
Removed(m, s, i) == [k \in 1 .. (m - 1) |-> IF k < i THEN s[k] ELSE s[k + 1]]

(* A node linked in front makes a chain longer by one.                     *)
LEMMA ChainPrepend ==
    ASSUME NEW m \in Nat, NEW s, NEW nx, NEW pv, NEW lv, NEW h, NEW t,
           NEW nx2, NEW pv2, NEW n \in Nodes,
           Chain(m, s, nx, pv, lv), Ends(m, s, h, t, nx, pv), n \notin lv,
           LinkedFront(n, h, nx, pv, nx2, pv2)
    PROVE  /\ Chain(m + 1, Prepended(m, s, n), nx2, pv2, lv \cup {n})
           /\ Ends(m + 1, Prepended(m, s, n), n, IF h = Null THEN n ELSE t, nx2, pv2)
<1>u. \A p \in Nodes : /\ pv2[p] = IF p = n THEN Null ELSE IF p = h THEN n ELSE pv[p]
                       /\ nx2[p] = IF p = n THEN h ELSE nx[p]
  BY Zenon DEF LinkedFront
<1> DEFINE r == Prepended(m, s, n)
<1>1. /\ r \in [1 .. (m + 1) -> Nodes] /\ r[1] = n
      /\ \A k \in 1 .. m : r[k + 1] = s[k]
      /\ \A k \in 1 .. (m + 1) : k # 1 => r[k] = s[k - 1] /\ k - 1 \in 1 .. m
  BY DEF Chain, Prepended
<1> HIDE DEF r
<1>2. \A k \in 1 .. m : s[k] # n /\ s[k] \in lv /\ s[k] \in Nodes
  BY Zenon DEF Chain
<1>3. ASSUME NEW j \in 1 .. (m + 1), NEW k \in 1 .. (m + 1), r[j] = r[k]
      PROVE  j = k
  <2>1. CASE j = 1 \/ k = 1
    BY <2>1, <1>1, <1>2, <1>3
  <2>2. CASE j # 1 /\ k # 1
    <3>1. j - 1 \in 1 .. m /\ k - 1 \in 1 .. m /\ s[j - 1] = s[k - 1]
      BY <2>2, <1>1, <1>3, Zenon
    <3>2. j - 1 = k - 1
      BY <3>1, Zenon DEF Chain
    <3> QED BY <3>2
  <2> QED BY <2>1, <2>2, Zenon
<1>4. \A k \in 1 .. (m + 1) : r[k] \in lv \cup {n}
  BY <1>1, <1>2, Zenon
<1>5. ASSUME NEW k \in 1 .. m
      PROVE  nx2[r[k]] = r[k + 1] /\ pv2[r[k + 1]] = r[k]
  <2>0. r[k + 1] = s[k] /\ s[k] \in Nodes /\ s[k] # n /\ 1 \in 1 .. m /\ h = s[1]
    BY <1>1, <1>2 DEF Ends
  <2>1. CASE k = 1
    BY <1>u, <2>0, <2>1, <1>1, Zenon
  <2>2. CASE k # 1
    <3>1. k - 1 \in 1 .. (m - 1) /\ (k - 1) + 1 = k /\ k - 1 \in 1 .. m
      BY <2>2
    <3>2. nx[s[k - 1]] = s[k] /\ pv[s[k]] = s[k - 1]
      BY <3>1, Zenon DEF Chain
    <3>3. s[k] # s[1]
      BY <2>0, <2>2, Zenon DEF Chain
    <3>4. r[k] = s[k - 1] /\ s[k - 1] \in Nodes /\ s[k - 1] # n
      BY <3>1, <1>1, <1>2, <2>2, Zenon
    <3> QED BY <1>u, <2>0, <3>2, <3>3, <3>4, Zenon
  <2> QED BY <2>1, <2>2, Zenon
<1>6. Chain(m + 1, r, nx2, pv2, lv \cup {n})
  <2>1. (m + 1) - 1 = m
    OBVIOUS
  <2> QED BY <2>1, <1>1, <1>3, <1>4, <1>5, Zenon DEF Chain
<1>7. Ends(m + 1, r, n, IF h = Null THEN n ELSE t, nx2, pv2)
  <2>1. CASE m = 0
    BY <1>u, <2>1, <1>1 DEF Ends
  <2>2. CASE m # 0
    <3>1. t = s[m] /\ nx[s[m]] = Null /\ m \in 1 .. m /\ h = s[1] /\ 1 \in 1 .. m
      BY <2>2 DEF Ends
    <3>2. h # Null /\ r[m + 1] = s[m] /\ s[m] \in Nodes /\ s[m] # n
      BY <3>1, <1>1, <1>2, ListAssumption, Zenon
    <3> QED BY <1>u, <3>1, <3>2, <1>1 DEF Ends
  <2> QED BY <2>1, <2>2, Zenon
<1> QED BY <1>6, <1>7, Zenon DEF r

(* A node linked behind the tail makes a chain longer by one.              *)
LEMMA ChainAppend ==
    ASSUME NEW m \in Nat, NEW s, NEW nx, NEW pv, NEW lv, NEW h, NEW t,
           NEW nx2, NEW pv2, NEW n \in Nodes,
           Chain(m, s, nx, pv, lv), Ends(m, s, h, t, nx, pv), n \notin lv,
           m = 0 => t = Null,
           LinkedBack(n, t, nx, pv, nx2, pv2)
    PROVE  /\ Chain(m + 1, Appended(m, s, n), nx2, pv2, lv \cup {n})
           /\ Ends(m + 1, Appended(m, s, n), IF h = Null THEN n ELSE h, n, nx2, pv2)
<1>u. \A p \in Nodes : /\ nx2[p] = IF p = n THEN Null ELSE IF p = t THEN n ELSE nx[p]
                       /\ pv2[p] = IF p = n THEN t ELSE pv[p]
  BY Zenon DEF LinkedBack
<1> DEFINE r == Appended(m, s, n)
<1>1. /\ r \in [1 .. (m + 1) -> Nodes] /\ r[m + 1] = n
      /\ \A k \in 1 .. m : r[k] = s[k]
  BY DEF Chain, Appended
<1> HIDE DEF r
<1>2. \A k \in 1 .. m : s[k] # n /\ s[k] \in lv /\ s[k] \in Nodes
  BY Zenon DEF Chain
<1>3. ASSUME NEW j \in 1 .. (m + 1), NEW k \in 1 .. (m + 1), r[j] = r[k]
      PROVE  j = k
  <2>1. CASE j = m + 1 \/ k = m + 1
    BY <2>1, <1>1, <1>2, <1>3
  <2>2. CASE j # m + 1 /\ k # m + 1
    <3>1. j \in 1 .. m /\ k \in 1 .. m
      BY <2>2
    <3>2. s[j] = s[k]
      BY <3>1, <1>1, <1>3, Zenon
    <3> QED BY <3>1, <3>2, Zenon DEF Chain
  <2> QED BY <2>1, <2>2, Zenon
<1>4. \A k \in 1 .. (m + 1) : r[k] \in lv \cup {n}
  BY <1>1, <1>2
<1>5. ASSUME NEW k \in 1 .. m
      PROVE  nx2[r[k]] = r[k + 1] /\ pv2[r[k + 1]] = r[k]
  <2>0. r[k] = s[k] /\ s[k] \in Nodes /\ s[k] # n /\ m \in 1 .. m /\ t = s[m]
    BY <1>1, <1>2 DEF Ends
  <2>1. CASE k = m
    BY <1>u, <2>0, <2>1, <1>1, Zenon
  <2>2. CASE k # m
    <3>1. k \in 1 .. (m - 1) /\ k + 1 \in 1 .. m
      BY <2>2
    <3>2. nx[s[k]] = s[k + 1] /\ pv[s[k + 1]] = s[k]
      BY <3>1, Zenon DEF Chain
    <3>3. s[k] # s[m]
      BY <2>0, <2>2, Zenon DEF Chain
    <3>4. r[k + 1] = s[k + 1] /\ s[k + 1] \in Nodes /\ s[k + 1] # n
      BY <3>1, <1>1, <1>2, Zenon
    <3> QED BY <1>u, <2>0, <3>2, <3>3, <3>4, Zenon
  <2> QED BY <2>1, <2>2, Zenon
<1>6. Chain(m + 1, r, nx2, pv2, lv \cup {n})
  <2>1. (m + 1) - 1 = m
    OBVIOUS
  <2> QED BY <2>1, <1>1, <1>3, <1>4, <1>5, Zenon DEF Chain
<1>7. Ends(m + 1, r, IF h = Null THEN n ELSE h, n, nx2, pv2)
  <2>1. CASE m = 0
    BY <1>u, <2>1, <1>1 DEF Ends
  <2>2. CASE m # 0
    <3>1. h = s[1] /\ pv[s[1]] = Null /\ 1 \in 1 .. m
      BY <2>2 DEF Ends
    <3>2. h # Null /\ r[1] = s[1] /\ s[1] \in Nodes /\ s[1] # n
      BY <3>1, <1>1, <1>2, ListAssumption, Zenon
    <3> QED BY <1>u, <3>1, <3>2, <1>1 DEF Ends
  <2> QED BY <2>1, <2>2, Zenon
<1> QED BY <1>6, <1>7, Zenon DEF r

(* Taking out the i-th node, at an end or in the middle.                   *)
LEMMA ChainRemove ==
    ASSUME NEW m \in Nat, NEW s, NEW nx, NEW pv, NEW lv, NEW h, NEW t,
           NEW nx2, NEW pv2, NEW lv2, NEW h2, NEW t2, NEW i \in 1 .. m,
           Chain(m, s, nx, pv, lv), Ends(m, s, h, t, nx, pv),
           lv \ {s[i]} \subseteq lv2,
           Unlinked(s[i], nx, pv, nx2, pv2),
           h2 = IF i = 1 THEN nx[s[1]] ELSE h,
           m > 1 => t2 = IF i = m THEN pv[s[m]] ELSE t
    PROVE  /\ Chain(m - 1, Removed(m, s, i), nx2, pv2, lv2)
           /\ Ends(m - 1, Removed(m, s, i), h2, t2, nx2, pv2)
<1>u. \A p \in Nodes : p # s[i] =>
        /\ nx2[p] = IF p = pv[s[i]] THEN nx[s[i]] ELSE nx[p]
        /\ pv2[p] = IF p = nx[s[i]] THEN pv[s[i]] ELSE pv[p]
  BY Zenon DEF Unlinked
<1> DEFINE r == Removed(m, s, i)
<1>0. m - 1 \in Nat /\ 1 \in 1 .. m /\ m \in 1 .. m
  OBVIOUS
<1>1. /\ r \in [1 .. (m - 1) -> Nodes]
      /\ \A k \in 1 .. (m - 1) : r[k] = IF k < i THEN s[k] ELSE s[k + 1]
  BY DEF Chain, Removed
<1> HIDE DEF r
<1>2. \A k \in 1 .. m : s[k] \in Nodes /\ s[k] \in lv /\ (k # i => s[k] # s[i])
  BY Zenon DEF Chain
<1>3. /\ h = s[1] /\ pv[s[1]] = Null
      /\ t = s[m] /\ nx[s[m]] = Null
  BY <1>0 DEF Ends
<1>4. ASSUME NEW k \in 1 .. m, k # m
      PROVE  nx[s[k]] = s[k + 1] /\ pv[s[k + 1]] = s[k] /\ k + 1 \in 1 .. m
  <2>1. k \in 1 .. (m - 1) /\ k + 1 \in 1 .. m
    BY <1>4
  <2> QED BY <2>1, Zenon DEF Chain
<1>5. pv[s[i]] = IF i = 1 THEN Null ELSE s[i - 1]
  <2>1. CASE i # 1
    <3>1. i - 1 \in 1 .. m /\ i - 1 # m /\ (i - 1) + 1 = i
      BY <2>1
    <3>2. pv[s[(i - 1) + 1]] = s[i - 1]
      BY <3>1, <1>4, Zenon
    <3> QED BY <3>1, <3>2, <2>1, Zenon
  <2> QED BY <2>1, <1>3, Zenon
<1>6. nx[s[i]] = IF i = m THEN Null ELSE s[i + 1]
  BY <1>3, <1>4, Zenon
<1>7. ASSUME NEW j \in 1 .. (m - 1), NEW k \in 1 .. (m - 1), r[j] = r[k]
      PROVE  j = k
  <2>1. PICK a \in 1 .. m : r[j] = s[a] /\ a = IF j < i THEN j ELSE j + 1
    BY <1>1
  <2>2. PICK b \in 1 .. m : r[k] = s[b] /\ b = IF k < i THEN k ELSE k + 1
    BY <1>1
  <2>3. s[a] = s[b]
    BY <1>7, <2>1, <2>2, Zenon
  <2>4. a = b
    BY <2>3, Zenon DEF Chain
  <2> QED BY <2>1, <2>2, <2>4
<1>8. ASSUME NEW k \in 1 .. (m - 1)
      PROVE  r[k] \in lv2 /\ r[k] # s[i]
  <2>1. PICK a \in 1 .. m : r[k] = s[a] /\ a # i
    BY <1>1
  <2> QED BY <2>1, <1>2, Zenon
<1>9. ASSUME NEW k \in 1 .. (m - 2)
      PROVE  nx2[r[k]] = r[k + 1] /\ pv2[r[k + 1]] = r[k]
  <2>0. k \in 1 .. (m - 1) /\ k + 1 \in 1 .. (m - 1) /\ k \in 1 .. m /\ k + 1 \in 1 .. m
        /\ k + 2 \in 1 .. m /\ (k + 1) + 1 = k + 2 /\ k # m /\ k + 1 # m
    OBVIOUS
  <2>1. CASE k + 1 < i
    <3>1. r[k] = s[k] /\ r[k + 1] = s[k + 1] /\ k # i /\ k + 1 # i /\ k # i - 1 /\ i # 1
      BY <1>u, <2>0, <2>1, <1>1
    <3>2. s[k] # s[i - 1] /\ i - 1 \in 1 .. m
      BY <2>0, <3>1 DEF Chain
    <3>3. i # m => s[k + 1] # s[i + 1]
      BY <2>0, <2>1 DEF Chain
    <3>4. nx2[s[k]] = nx[s[k]]
      BY <1>u, <3>1, <3>2, <2>0, <1>2, <1>5, Zenon
    <3>5. pv2[s[k + 1]] = pv[s[k + 1]]
      BY <1>u, <3>1, <3>3, <2>0, <1>2, <1>6, ListAssumption
    <3> QED BY <3>1, <3>4, <3>5, <2>0, <1>4, Zenon
  <2>2. CASE k + 1 = i
    <3>1. r[k] = s[k] /\ r[k + 1] = s[k + 2] /\ k # i /\ k + 2 # i /\ k = i - 1 /\ i # 1
          /\ k + 2 = i + 1 /\ i # m
      BY <2>0, <2>2, <1>1
    <3>2. pv[s[i]] = s[k] /\ nx[s[i]] = s[k + 2]
      BY <3>1, <1>5, <1>6, Zenon
    <3> QED BY <1>u, <3>1, <3>2, <2>0, <1>2
  <2>3. CASE i < k + 1
    <3>1. r[k] = s[k + 1] /\ r[k + 1] = s[k + 2] /\ k + 1 # i /\ k + 2 # i /\ i # m
          /\ i + 1 \in 1 .. m /\ k + 2 # i + 1
      BY <2>0, <2>3, <1>1
    <3>2. i # 1 => s[k + 1] # s[i - 1]
      BY <2>0, <2>3 DEF Chain
    <3>3. s[k + 2] # s[i + 1]
      BY <2>0, <3>1, Zenon DEF Chain
    <3>4. nx2[s[k + 1]] = nx[s[k + 1]]
      BY <1>u, <3>1, <3>2, <2>0, <1>2, <1>5, ListAssumption
    <3>5. pv2[s[k + 2]] = pv[s[k + 2]]
      BY <1>u, <3>1, <3>3, <2>0, <1>2, <1>6, Zenon
    <3>6. nx[s[k + 1]] = s[k + 2] /\ pv[s[k + 2]] = s[k + 1]
      BY <2>0, <1>4, Zenon
    <3> QED BY <3>1, <3>4, <3>5, <3>6, Zenon
  <2> QED BY <2>0, <2>1, <2>2, <2>3
<1>10. Chain(m - 1, r, nx2, pv2, lv2)
  <2>1. (m - 1) - 1 = m - 2
    OBVIOUS
  <2> QED BY <2>1, <1>1, <1>7, <1>8, <1>9, Zenon DEF Chain
<1>11. CASE m = 1
  <2>1. Ends(m - 1, r, h2, t2, nx2, pv2)
    BY <1>0, <1>3, <1>11 DEF Ends
  <2> QED BY <2>1, <1>10, Zenon DEF r
<1>12. CASE m # 1
  <2>0. m > 1 /\ 1 \in 1 .. (m - 1) /\ m - 1 \in 1 .. (m - 1) /\ 2 \in 1 .. m
        /\ m - 1 \in 1 .. m /\ (m - 1) + 1 = m /\ m - 1 > 0 /\ 1 # m
    BY <1>12
  <2>1. h2 = r[1] /\ pv2[r[1]] = Null
    <3>1. CASE i = 1
      <4>1. r[1] = s[2] /\ nx[s[1]] = s[2] /\ s[2] \in Nodes /\ s[2] # s[i]
        BY <3>1, <2>0, <1>1, <1>2, <1>4
      <4> QED BY <1>u, <3>1, <4>1, <1>3, Zenon
    <3>2. CASE i # 1
      <4>1. r[1] = s[1] /\ s[1] \in Nodes /\ s[1] # s[i]
        BY <3>2, <2>0, <1>0, <1>1, <1>2
      <4>2. s[1] # nx[s[i]]
        <5>1. i # m => i + 1 \in 1 .. m /\ i + 1 # 1
          OBVIOUS
        <5>2. i # m => s[1] # s[i + 1]
          BY <5>1, <1>0, Zenon DEF Chain
        <5> QED BY <5>2, <4>1, <1>6, ListAssumption, Zenon
      <4> QED BY <1>u, <3>2, <4>1, <4>2, <1>3, Zenon
    <3> QED BY <3>1, <3>2, Zenon
  <2>2. t2 = r[m - 1] /\ nx2[r[m - 1]] = Null
    <3>1. CASE i = m
      <4>1. r[m - 1] = s[m - 1] /\ pv[s[m]] = s[m - 1] /\ s[m - 1] \in Nodes
            /\ s[m - 1] # s[i]
        BY <3>1, <2>0, <1>1, <1>2, <1>5
      <4> QED BY <1>u, <3>1, <4>1, <2>0, <1>3, Zenon
    <3>2. CASE i # m
      <4>1. r[m - 1] = s[m] /\ s[m] \in Nodes /\ s[m] # s[i]
        BY <3>2, <2>0, <1>0, <1>1, <1>2
      <4>2. s[m] # pv[s[i]]
        <5>1. i # 1 => i - 1 \in 1 .. m /\ i - 1 # m
          OBVIOUS
        <5>2. i # 1 => s[m] # s[i - 1]
          BY <5>1, <1>0, Zenon DEF Chain
        <5> QED BY <5>2, <4>1, <1>5, ListAssumption, Zenon
      <4> QED BY <1>u, <3>2, <4>1, <4>2, <2>0, <1>3, Zenon
    <3> QED BY <3>1, <3>2, Zenon
  <2>3. Ends(m - 1, r, h2, t2, nx2, pv2)
    BY <2>0, <2>1, <2>2 DEF Ends
  <2> QED BY <2>3, <1>10, Zenon DEF r
<1> QED BY <1>11, <1>12, Zenon

-----------------------------------------------------------------------------

(* list.c on its own.  Sound is inductive together with the types.    *)
LInv ==
    /\ ListTypeOK
    /\ Sound

(* The nodes of the list, in order.                                        *)
IsList(s) ==
    /\ Chain(size, s, nxt, prv, live)
    /\ Ends(size, s, head, tail, nxt, prv)

(* A well-formed list is a chain with its ends.                            *)
LEMMA Unfold == Sound <=> \E s : IsList(s)
<1>1. ASSUME NEW s, IsList(s) PROVE s \in [1 .. size -> Nodes] /\ Represents(s)
  BY <1>1, Zenon DEF IsList, Represents, Chain, Ends
<1>2. ASSUME NEW s \in [1 .. size -> Nodes], Represents(s) PROVE IsList(s)
  <2>1. Chain(size, s, nxt, prv, live)
    BY <1>2, Zenon DEF Represents, Chain
  <2>2. Ends(size, s, head, tail, nxt, prv)
    BY <1>2, Zenon DEF Represents, Ends
  <2> QED BY <2>1, <2>2, Zenon DEF IsList
<1> QED BY <1>1, <1>2, Zenon DEF Sound

(* The same after a step.                                                  *)
LEMMA Fold ==
    ASSUME NEW s, Chain(size', s, nxt', prv', live'), Ends(size', s, head', tail', nxt', prv')
    PROVE  IsList(s)' /\ Sound'
<1>1. IsList(s)'
  BY Zenon DEF IsList, Chain, Ends
<1>2. s \in [1 .. size' -> Nodes]
  BY Zenon DEF Chain
<1>3. Represents(s)'
  BY Zenon DEF Represents, Chain, Ends
<1> QED BY <1>1, <1>2, <1>3, Zenon DEF Sound

(* What the invariant says about the types.                                *)
LEMMA Types ==
    ASSUME LInv
    PROVE  /\ head \in Pointer /\ tail \in Pointer /\ size \in Nat
           /\ nxt \in [Nodes -> Pointer] /\ prv \in [Nodes -> Pointer]
           /\ live \subseteq Nodes /\ Null \in Pointer /\ Null \notin Nodes
           /\ Nodes \subseteq Pointer
BY ListAssumption, Zenon DEF LInv, ListTypeOK, Pointer

(* The first half of list_insert_front.                                    *)
LEMMA LinkFront ==
    ASSUME NEW t \in Nodes, link_front(t),
           head \in Pointer, nxt \in [Nodes -> Pointer], prv \in [Nodes -> Pointer]
    PROVE  /\ nxt' \in [Nodes -> Pointer] /\ prv' \in [Nodes -> Pointer]
           /\ LinkedFront(t, head, nxt, prv, nxt', prv')
<1>1. /\ nxt' = [nxt EXCEPT ![t] = head]
      /\ prv' = [Store(prv, head, t) EXCEPT ![t] = Null]
      /\ t \in Pointer /\ Null \in Pointer /\ Null \notin Nodes
  BY ListAssumption, Zenon DEF link_front, Pointer
<1>2. /\ Store(prv, head, t) \in [Nodes -> Pointer]
      /\ \A n \in Nodes : Store(prv, head, t)[n] = IF n = head THEN t ELSE prv[n]
  BY <1>1, Zenon DEF Store
<1>3. /\ prv' \in [Nodes -> Pointer] /\ nxt' \in [Nodes -> Pointer]
      /\ \A n \in Nodes : prv'[n] = IF n = t THEN Null ELSE IF n = head THEN t ELSE prv[n]
      /\ \A n \in Nodes : nxt'[n] = IF n = t THEN head ELSE nxt[n]
  BY <1>1, <1>2, Zenon
<1> QED BY <1>3, Zenon DEF LinkedFront

(* list_insert_front keeps the invariant.                                  *)
LEMMA InsertFrontInv ==
    ASSUME LInv, NEW s, IsList(s), NEW t \in Nodes, list_insert_front(t),
           NEW r, r = Prepended(size, s, t)
    PROVE  LInv' /\ IsList(r)'
<1>0. /\ head \in Pointer /\ tail \in Pointer /\ size \in Nat
      /\ nxt \in [Nodes -> Pointer] /\ prv \in [Nodes -> Pointer]
      /\ live \subseteq Nodes /\ Null \in Pointer /\ Null \notin Nodes
      /\ Nodes \subseteq Pointer /\ t \in Pointer
  BY Types, Zenon
<1>1. /\ t \notin live /\ live' = live \cup {t} /\ head' = t /\ size' = size + 1
      /\ tail' = IF head = Null THEN t ELSE tail
  BY Zenon DEF list_insert_front, publish_front
<1>u. /\ nxt' \in [Nodes -> Pointer] /\ prv' \in [Nodes -> Pointer]
      /\ LinkedFront(t, head, nxt, prv, nxt', prv')
  BY <1>0, LinkFront, Zenon DEF list_insert_front
<1>5. /\ Chain(size + 1, r, nxt', prv', live \cup {t})
      /\ Ends(size + 1, r, t, IF head = Null THEN t ELSE tail, nxt', prv')
  BY <1>0, <1>1, <1>u, ChainPrepend, Zenon DEF IsList
<1>6. IsList(r)' /\ Sound'
  BY <1>1, <1>5, Fold, Zenon
<1>7. ListTypeOK'
  BY <1>0, <1>1, <1>u DEF ListTypeOK
<1> QED BY <1>6, <1>7, Zenon DEF LInv

(* list_insert_back keeps it on a list that was never emptied.             *)
LEMMA InsertBackInv ==
    ASSUME LInv, NEW s, IsList(s), NEW t \in Nodes, list_insert_back(t),
           size = 0 => tail = Null,
           NEW r, r = Appended(size, s, t)
    PROVE  LInv' /\ IsList(r)'
<1>0. /\ head \in Pointer /\ tail \in Pointer /\ size \in Nat
      /\ nxt \in [Nodes -> Pointer] /\ prv \in [Nodes -> Pointer]
      /\ live \subseteq Nodes /\ Null \in Pointer /\ Null \notin Nodes
      /\ Nodes \subseteq Pointer /\ t \in Pointer
  BY Types, Zenon
<1>1. /\ t \notin live /\ live' = live \cup {t} /\ tail' = t /\ size' = size + 1
      /\ head' = IF head = Null THEN t ELSE head
      /\ prv' = [prv EXCEPT ![t] = tail]
      /\ nxt' = Store([nxt EXCEPT ![t] = Null], tail, t)
  BY Zenon DEF list_insert_back
<1>2. t # tail
  <2>1. CASE size = 0
    BY <2>1, <1>0, Zenon
  <2>2. CASE size # 0
    <3>1. tail = s[size] /\ s[size] \in live
      BY <2>2, <1>0 DEF IsList, Chain, Ends
    <3> QED BY <3>1, <1>1, Zenon
  <2> QED BY <2>1, <2>2, Zenon
<1>v. PICK v : v = [nxt EXCEPT ![t] = Null]
  BY Zenon
<1>w. v \in [Nodes -> Pointer] /\ \A n \in Nodes : v[n] = IF n = t THEN Null ELSE nxt[n]
  BY <1>0, <1>v, Zenon
<1>x. /\ nxt' \in [Nodes -> Pointer]
      /\ \A n \in Nodes : nxt'[n] = IF n = tail THEN t ELSE v[n]
  BY <1>0, <1>1, <1>v, <1>w, Zenon DEF Store
<1>3. /\ prv' \in [Nodes -> Pointer] /\ nxt' \in [Nodes -> Pointer]
      /\ \A n \in Nodes : nxt'[n] = IF n = t THEN Null ELSE IF n = tail THEN t ELSE nxt[n]
      /\ \A n \in Nodes : prv'[n] = IF n = t THEN tail ELSE prv[n]
  BY <1>0, <1>1, <1>2, <1>w, <1>x, Zenon
<1>u. LinkedBack(t, tail, nxt, prv, nxt', prv')
  BY <1>3, Zenon DEF LinkedBack
<1>6. /\ Chain(size + 1, r, nxt', prv', live \cup {t})
      /\ Ends(size + 1, r, IF head = Null THEN t ELSE head, t, nxt', prv')
  BY <1>0, <1>1, <1>u, ChainAppend DEF IsList
<1>7. IsList(r)' /\ Sound'
  BY <1>1, <1>6, Fold, Zenon
<1>8. ListTypeOK'
  <2>1. size + 1 \in Nat
    BY <1>0
  <2> QED BY <2>1, <1>0, <1>1, <1>3, Zenon DEF ListTypeOK
<1> QED BY <1>7, <1>8, Zenon DEF LInv

(* All removals leave the pointers of the other nodes as ChainRemove asks. *)
LEMMA RemovedInv ==
    ASSUME LInv, NEW s, IsList(s), NEW i \in 1 .. size,
           NEW r, r = Removed(size, s, i),
           size' = size - 1,
           nxt' \in [Nodes -> Pointer], prv' \in [Nodes -> Pointer],
           head' \in Pointer, tail' \in Pointer,
           live' \subseteq Nodes, live \ {s[i]} \subseteq live',
           Unlinked(s[i], nxt, prv, nxt', prv'),
           head' = IF i = 1 THEN nxt[s[1]] ELSE head,
           size > 1 => tail' = IF i = size THEN prv[s[size]] ELSE tail
    PROVE  LInv' /\ IsList(r)'
<1>1. /\ Chain(size - 1, r, nxt', prv', live')
      /\ Ends(size - 1, r, head', tail', nxt', prv')
  <2>1. size \in Nat
    BY Types, Zenon
  <2> QED BY <2>1, ChainRemove, Zenon DEF IsList
<1>2. IsList(r)' /\ Sound'
  BY <1>1, Fold, Zenon
<1>3. size - 1 \in Nat
  BY Types
<1>4. ListTypeOK'
  BY <1>3, Zenon DEF ListTypeOK
<1> QED BY <1>2, <1>4, Zenon DEF LInv

(* list_remove_front keeps it on a list that is not empty.                 *)
LEMMA RemoveFrontInv ==
    ASSUME LInv, NEW s, IsList(s), list_remove_front, size > 0,
           NEW r, r = Removed(size, s, 1)
    PROVE  LInv' /\ IsList(r)' /\ live' = live \ {s[1]} /\ size' = size - 1
<1>0. /\ head \in Pointer /\ tail \in Pointer /\ size \in Nat
      /\ nxt \in [Nodes -> Pointer] /\ prv \in [Nodes -> Pointer]
      /\ live \subseteq Nodes /\ Null \in Pointer /\ Null \notin Nodes
      /\ Nodes \subseteq Pointer
  BY Types, Zenon
<1>2. size > 0 /\ 1 \in 1 .. size
  BY <1>0
<1>3. head = s[1] /\ prv[s[1]] = Null /\ s[1] \in Nodes
  BY <1>2, Zenon DEF IsList, Chain, Ends
<1>4. /\ head' = nxt[s[1]] /\ prv' = Store(prv, nxt[s[1]], Null)
      /\ live' = live \ {s[1]} /\ size' = size - 1
      /\ tail' = tail /\ nxt' = nxt
  BY <1>0, <1>3, Zenon DEF list_remove_front
<1>5. nxt[s[1]] \in Pointer
  BY <1>0, <1>3, Zenon
<1>6. /\ prv' \in [Nodes -> Pointer]
      /\ \A p \in Nodes : prv'[p] = IF p = nxt[s[1]] THEN prv[s[1]] ELSE prv[p]
  BY <1>0, <1>3, <1>4, <1>5, Zenon DEF Store
<1>7. Unlinked(s[1], nxt, prv, nxt', prv')
  BY <1>0, <1>3, <1>4, <1>6, Zenon DEF Unlinked
<1>8. size > 1 => tail' = IF 1 = size THEN prv[s[size]] ELSE tail
  BY <1>0, <1>4
<1>9. /\ nxt' \in [Nodes -> Pointer] /\ head' \in Pointer /\ tail' \in Pointer
      /\ live' \subseteq Nodes /\ live \ {s[1]} \subseteq live'
      /\ head' = IF 1 = 1 THEN nxt[s[1]] ELSE head
  BY <1>0, <1>4, <1>5, Zenon
<1>10. LInv' /\ IsList(r)'
  BY <1>2, <1>4, <1>6, <1>7, <1>8, <1>9, RemovedInv, Zenon
<1> QED BY <1>4, <1>10, Zenon

(* The same for the last node, freed or handed to the caller.              *)
LEMMA UnlinkBackInv ==
    ASSUME LInv, NEW s, IsList(s), unlink_back, size > 1,
           live' \in {live, live \ {tail}},
           NEW r, r = Removed(size, s, size)
    PROVE  LInv' /\ IsList(r)'
<1>0. /\ head \in Pointer /\ tail \in Pointer /\ size \in Nat
      /\ nxt \in [Nodes -> Pointer] /\ prv \in [Nodes -> Pointer]
      /\ live \subseteq Nodes /\ Null \in Pointer /\ Null \notin Nodes
      /\ Nodes \subseteq Pointer
  BY Types, Zenon
<1>2. size \in 1 .. size /\ size # 1
  BY <1>0
<1>3. tail = s[size] /\ nxt[s[size]] = Null /\ s[size] \in Nodes
  BY <1>2 DEF IsList, Chain, Ends
<1>4. /\ tail' = prv[s[size]] /\ nxt' = Store(nxt, prv[s[size]], Null)
      /\ size' = size - 1 /\ head' = head /\ prv' = prv
  BY <1>3, Zenon DEF unlink_back
<1>5. prv[s[size]] \in Pointer
  BY <1>0, <1>3, Zenon
<1>6. /\ nxt' \in [Nodes -> Pointer]
      /\ \A p \in Nodes : nxt'[p] = IF p = prv[s[size]] THEN nxt[s[size]] ELSE nxt[p]
  BY <1>0, <1>3, <1>4, <1>5, Zenon DEF Store
<1>7. Unlinked(s[size], nxt, prv, nxt', prv')
  BY <1>0, <1>3, <1>4, <1>6, Zenon DEF Unlinked
<1>8. head' = IF size = 1 THEN nxt[s[1]] ELSE head
  BY <1>2, <1>4, Zenon
<1>9. /\ prv' \in [Nodes -> Pointer] /\ head' \in Pointer /\ tail' \in Pointer
      /\ live' \subseteq Nodes /\ live \ {s[size]} \subseteq live'
      /\ tail' = IF size = size THEN prv[s[size]] ELSE tail
  BY <1>0, <1>3, <1>4, <1>5, Zenon
<1> QED BY <1>2, <1>4, <1>6, <1>7, <1>8, <1>9, RemovedInv, Zenon

(* list_remove_node keeps it for every node of the list.                   *)
LEMMA RemoveNodeInv ==
    ASSUME LInv, NEW s, IsList(s), NEW i \in 1 .. size, list_remove_node(s[i]),
           NEW r, r = Removed(size, s, i)
    PROVE  LInv' /\ IsList(r)' /\ live' = live \ {s[i]} /\ size' = size - 1
<1>0. /\ head \in Pointer /\ tail \in Pointer /\ size \in Nat
      /\ nxt \in [Nodes -> Pointer] /\ prv \in [Nodes -> Pointer]
      /\ live \subseteq Nodes /\ Null \in Pointer /\ Null \notin Nodes
      /\ Nodes \subseteq Pointer
  BY Types, Zenon
<1>1. s[i] \in Nodes /\ s[1] \in Nodes /\ head = s[1] /\ tail = s[size] /\ size > 0
      /\ 1 \in 1 .. size /\ size \in 1 .. size
  BY <1>0 DEF IsList, Chain, Ends
<1>2. CASE head = s[i]
  <2>1. i = 1 /\ list_remove_front
    BY <1>1, <1>2, Zenon DEF list_remove_node, IsList, Chain
  <2> QED BY <1>1, <2>1, RemoveFrontInv, Zenon
<1>3. CASE head # s[i] /\ tail = s[i]
  <2>1. list_remove_back /\ size > 1
    BY <1>0, <1>1, <1>3 DEF list_remove_node
  <2>2. unlink_back /\ live' = live \ {tail}
    BY <2>1, <1>0, <1>1, Zenon DEF list_remove_back
  <2>3. i = size
    BY <1>1, <1>3 DEF IsList, Chain
  <2>4. LInv' /\ IsList(r)'
    BY <2>1, <2>2, <2>3, UnlinkBackInv, Zenon
  <2> QED BY <1>3, <2>2, <2>4, Zenon DEF unlink_back
<1>4. CASE head # s[i] /\ tail # s[i]
  <2>1. /\ prv' = Store(prv, nxt[s[i]], prv[s[i]])
        /\ nxt' = Store(nxt, prv[s[i]], nxt[s[i]])
        /\ live' = live \ {s[i]} /\ size' = size - 1
        /\ head' = head /\ tail' = tail
    BY <1>0, <1>1, <1>4, Zenon DEF list_remove_node
  <2>2. i # 1 /\ i # size
    BY <1>1, <1>4, Zenon
  <2>3. nxt[s[i]] \in Pointer /\ prv[s[i]] \in Pointer
    BY <1>0, <1>1, Zenon
  <2>4. /\ prv' \in [Nodes -> Pointer]
        /\ \A p \in Nodes : prv'[p] = IF p = nxt[s[i]] THEN prv[s[i]] ELSE prv[p]
    BY <1>0, <2>1, <2>3, Zenon DEF Store
  <2>5. /\ nxt' \in [Nodes -> Pointer]
        /\ \A p \in Nodes : nxt'[p] = IF p = prv[s[i]] THEN nxt[s[i]] ELSE nxt[p]
    BY <1>0, <2>1, <2>3, Zenon DEF Store
  <2>6. Unlinked(s[i], nxt, prv, nxt', prv')
    BY <2>4, <2>5, Zenon DEF Unlinked
  <2>7. /\ head' \in Pointer /\ tail' \in Pointer
        /\ live' \subseteq Nodes /\ live \ {s[i]} \subseteq live'
        /\ head' = IF i = 1 THEN nxt[s[1]] ELSE head
        /\ tail' = IF i = size THEN prv[s[size]] ELSE tail
    BY <1>0, <2>1, <2>2, Zenon
  <2>8. LInv' /\ IsList(r)'
    BY <2>1, <2>4, <2>5, <2>6, <2>7, RemovedInv, Zenon
  <2> QED BY <2>1, <2>8, Zenon
<1> QED BY <1>2, <1>3, <1>4, Zenon

-----------------------------------------------------------------------------

(***************************************************************************)
(* The scheduler, for a kernel in which no task creates tasks with         *)
(* interrupts enabled and the first task does not exit.                    *)
(***************************************************************************)

(* The two frames a task keeps under the one that works: the code of the   *)
(* task, and the loop of sys_exit.                                         *)
Body == NewFrame("body", TRUE)
Spin == NewFrame("spin", FALSE)

(* The lines a task may be at inside schedule, and inside the kernel.      *)
Scheduling == {"enter", "pick", "account", "prev", "tss", "cr3", "switch"}
Working == {"alloc", "link", "publish", "self"} \cup Scheduling

BootLines == {"boot", "alloc", "link", "publish", "self", "enter"}

(* The frames of task t: its body, or one call into the kernel with        *)
(* interrupts disabled, at a line of pcs, from the body or from sys_exit.  *)
TaskStack(t, pcs) ==
    \/ stack[t] = <<Body>>
    \/ /\ \/ stack[t] = <<stack[t][1], Body>>
          \/ stack[t] = <<stack[t][1], Spin, Body>> /\ tstate[t] = "zombie"
       /\ stack[t][1].pc \in pcs
       /\ ~stack[t][1].ifl

(* The frames of the boot thread, until the first switch: kernel_main, and *)
(* the timer's call of schedule on top of it.                              *)
Main == stack[Null][Len(stack[Null])]

BootStack ==
    /\ \/ stack[Null] = <<Main>>
       \/ /\ stack[Null] = <<stack[Null][1], Main>>
          /\ stack[Null][1].pc = "enter"
          /\ ~stack[Null][1].ifl
    /\ Main.pc \in BootLines
    /\ Main.ifl

Stacks ==
    /\ stack \in [Pointer -> Seq(Frame)]
    /\ \A t \in Nodes : TaskStack(t, IF t = current THEN Working ELSE {"switched"})
    /\ current = Null => BootStack

(* The frame that may be inside task_create.                               *)
Work == IF current = Null THEN Main ELSE Top

(* task_list stands for s, the task t being created at line pc.  From      *)
(* list_insert_front's stores into the neighbours to its stores into the   *)
(* list, t is the first node of the chain but not yet the head.            *)
Links(pc) == IF pc = "publish" THEN size + 1 ELSE size

TaskChain(s, pc, t) ==
    /\ Chain(Links(pc), s, nxt, prv, live)
    /\ pc # "publish" => Ends(size, s, head, tail, nxt, prv)
    /\ pc = "publish" =>
         /\ Ends(size + 1, s, t, IF head = Null THEN t ELSE tail, nxt, prv)
         /\ head = IF size = 0 THEN Null ELSE s[2]
    /\ \A u \in live : (\E k \in 1 .. Links(pc) : s[k] = u) \/ (pc = "link" /\ u = t)
    /\ pc = "link" => t \in live /\ \A k \in 1 .. size : s[k] # t
    /\ Links(pc) > 0 => s[Links(pc)] = Idle
    /\ \A k \in 1 .. Links(pc) :
          self[s[k]] = s[k] \/ s[k] = Idle \/ (pc \in {"publish", "self"} /\ s[k] = t)

(* What the tasks' own fields say.                                         *)
Fields ==
    /\ tstate \in [Nodes -> {"none", "ready", "zombie"}]
    /\ self \in [Nodes -> Pointer]
    /\ \A t \in Nodes : self[t] \in {t, Null}
    /\ \A t \in live : tstate[t] # "none"
    /\ tstate[Idle] # "zombie"

(* Until the first switch there is at most the first task.                 *)
Starting ==
    /\ \A t \in Nodes : tstate[t] # "zombie"
    /\ task_list <=> Main.pc # "boot"
    /\ Main.pc \in {"link", "publish", "self"} => Main.t = Idle
    /\ size = IF Main.pc \in {"boot", "alloc", "link", "publish"} THEN 0 ELSE 1
    /\ tss = Null /\ cr3 = Null

(* What the frame that works knows about the task to run next.             *)
Chosen(f) ==
    /\ f.pc = "pick" => f.node # current /\ (f.node = Null => current = Idle)
    /\ f.pc \in {"account", "prev", "tss", "cr3", "switch"} =>
         f.next \in live /\ tstate[f.next] # "zombie"
    /\ IF f.pc \in {"cr3", "switch"} THEN tss = f.next ELSE tss = cr3
    /\ IF f.pc = "switch" THEN cr3 = f.next
       ELSE cr3 = current \/ (cr3 = Null /\ current = Idle)

Switched ==
    /\ task_list
    /\ current \in live
    /\ size > 0
    /\ Top.pc \in {"link", "publish", "self"} => Top.t \in Nodes
    /\ Chosen(Top)

TaskInv ==
    /\ ListTypeOK
    /\ current \in Pointer
    /\ timer_ticks \in 0 .. (TickMod - 1)
    /\ Stacks
    /\ Fields
    /\ \E s : TaskChain(s, Work.pc, Work.t)
    /\ current = Null => Starting
    /\ current # Null => Switched
-----------------------------------------------------------------------------

(* What call and interrupt push.                                           *)
LEMMA Pushed ==
    ASSUME NEW S, NEW a \in S, NEW b \in S, NEW c \in S
    PROVE  <<a>> \o <<b>> = <<a, b>> /\ <<a, b>> \o <<c>> = <<a, b, c>>
<1> DEFINE q == <<a>> \o <<b>>
           r == <<a, b>> \o <<c>>
<1>1. q \in Seq(S) /\ Len(q) = 2 /\ q[1] = a /\ q[2] = b
  OBVIOUS
<1>2. r \in Seq(S) /\ Len(r) = 3 /\ r[1] = a /\ r[2] = b /\ r[3] = c
  OBVIOUS
<1> HIDE DEF q, r
<1>3. q = <<a, b>>
  BY <1>1
<1>4. r = <<a, b, c>>
  BY <1>2
<1> QED BY <1>3, <1>4, Zenon DEF q, r

(* A thread with a frame has a stack.                                      *)
LEMMA NotEmpty == \A a, b, c : <<a>> # <<>> /\ <<a, b>> # <<>> /\ <<a, b, c>> # <<>>
BY Zenon

(* A new frame is a frame.                                                 *)
LEMMA NewFrames ==
    ASSUME NEW p \in Lines, NEW b \in BOOLEAN
    PROVE  /\ NewFrame(p, b) \in Frame
           /\ NewFrame(p, b).pc = p /\ NewFrame(p, b).ifl = b /\ NewFrame(p, b).t = Null
<1>1. 0 \in 0 .. (TickMod - 1)
  BY SchedulerAssumption
<1> QED BY <1>1, Zenon DEF NewFrame, Frame, Pointer

(* The frames that stay under the working one.                             *)
LEMMA Bases ==
    /\ Body \in Frame /\ Body.pc = "body" /\ Body.ifl = TRUE
    /\ Spin \in Frame /\ Spin.pc = "spin"
BY NewFrames, Zenon DEF Body, Spin, Lines

(* The stack of a task that runs.                                          *)
LEMMA TaskTop ==
    ASSUME Stacks, current \in Nodes
    PROVE  /\ Top \in Frame /\ Top = stack[current][1]
           /\ \/ stack[current] = <<Body>> /\ Top = Body
              \/ /\ Top.pc \in Working /\ ~Top.ifl
                 /\ \/ stack[current] = <<Top, Body>>
                    \/ stack[current] = <<Top, Spin, Body>> /\ tstate[current] = "zombie"
<1>1. TaskStack(current, Working) /\ stack[current] \in Seq(Frame)
  BY Zenon DEF Stacks, Pointer
<1>2. stack[current] # <<>>
  BY <1>1, NotEmpty, Zenon DEF TaskStack
<1>3. Top = stack[current][1] /\ Top \in Frame
  BY <1>1, <1>2 DEF Top
<1>4. stack[current] = <<Body>> => Top = Body
  BY DEF Top
<1> QED BY <1>1, <1>3, <1>4, Zenon DEF TaskStack

(* The stack of the boot thread.                                           *)
LEMMA BootTop ==
    ASSUME Stacks, current = Null
    PROVE  /\ Top \in Frame /\ Top = stack[Null][1]
           /\ Main \in Frame /\ Main.pc \in BootLines /\ Main.ifl
           /\ \/ stack[Null] = <<Top>> /\ Main = Top
              \/ stack[Null] = <<Top, Main>> /\ Top.pc = "enter" /\ ~Top.ifl
<1>1. BootStack /\ stack[Null] \in Seq(Frame)
  BY Zenon DEF Stacks, Pointer
<1>2. stack[Null] # <<>>
  BY <1>1, NotEmpty, Zenon DEF BootStack
<1>3. Top = stack[Null][1] /\ Top \in Frame
  BY <1>1, <1>2 DEF Top
<1>4. Main \in Frame
  BY <1>1, <1>2 DEF Main
<1>5. stack[Null] = <<Main>> => Main = Top
  BY DEF Top
<1> QED BY <1>1, <1>3, <1>4, <1>5, Zenon DEF BootStack

(* The other tasks keep their stacks.                                      *)
LEMMA OtherStacks ==
    ASSUME NEW t \in Nodes, NEW pcs, TaskStack(t, pcs), stack'[t] = stack[t],
           tstate[t] = "zombie" => tstate'[t] = "zombie"
    PROVE  TaskStack(t, pcs)'
BY Zenon DEF TaskStack

(* Going on to another line leaves the stacks in shape.                    *)
LEMMA GotoStacks ==
    ASSUME Stacks, current \in Pointer, NEW f \in Frame, Goto(f), current' = current,
           \A t \in Nodes : tstate[t] = "zombie" => tstate'[t] = "zombie",
           Top.pc # "body", f.ifl = Top.ifl, f.pc \in Working,
           current = Null => Top.pc # "enter" /\ f.pc \in BootLines
    PROVE  Stacks' /\ Top' = f /\ Work = Top /\ Work' = f
<1>1. stack \in [Pointer -> Seq(Frame)] /\ Null \in Pointer /\ Nodes \subseteq Pointer
      /\ Null \notin Nodes
  BY ListAssumption, Zenon DEF Stacks, Pointer
<1>2. stack[current] # <<>>
  <2>1. CASE current = Null
    BY <2>1, BootTop, NotEmpty, Zenon
  <2>2. CASE current # Null
    <3>1. current \in Nodes
      BY <2>2, Zenon DEF Pointer
    <3> QED BY <3>1, TaskTop, NotEmpty, Zenon
  <2> QED BY <2>1, <2>2, Zenon
<1>3. /\ stack' \in [Pointer -> Seq(Frame)]
      /\ stack'[current] = [stack[current] EXCEPT ![1] = f]
      /\ \A x \in Pointer : x # current => stack'[x] = stack[x]
  BY <1>1, <1>2 DEF Goto
<1>4. ASSUME NEW t \in Nodes, t # current
      PROVE  TaskStack(t, {"switched"})'
  <2>1. TaskStack(t, {"switched"})
    BY <1>4, Zenon DEF Stacks
  <2>2. stack'[t] = stack[t]
    BY <1>1, <1>3, <1>4, Zenon
  <2> QED BY <2>1, <2>2, OtherStacks, Zenon
<1>5. CASE current = Null
  <2>1. stack[Null] = <<Top>> /\ Main = Top /\ Top.ifl
    BY <1>5, BootTop, Zenon
  <2>2. stack'[Null] = <<f>>
    BY <1>3, <1>5, <2>1
  <2>3. Main' = f /\ Top' = f
    BY <1>5, <2>2 DEF Main, Top
  <2>4. BootStack'
    BY <2>1, <2>2, <2>3, <1>5, Zenon DEF BootStack
  <2>5. \A t \in Nodes : TaskStack(t, IF t = current THEN Working ELSE {"switched"})'
    BY <1>1, <1>4, <1>5, Zenon
  <2> QED BY <1>3, <1>5, <2>1, <2>3, <2>4, <2>5, Zenon DEF Stacks, Work
<1>6. CASE current # Null
  <2>0. current \in Nodes
    BY <1>6, Zenon DEF Pointer
  <2>1. /\ ~Top.ifl
        /\ \/ stack[current] = <<Top, Body>>
           \/ stack[current] = <<Top, Spin, Body>> /\ tstate[current] = "zombie"
    BY <2>0, TaskTop, Bases, Zenon
  <2>2. \/ stack'[current] = <<f, Body>>
        \/ stack'[current] = <<f, Spin, Body>> /\ tstate'[current] = "zombie"
    BY <2>0, <2>1, <1>3
  <2>3. Top' = f
    BY <2>2 DEF Top
  <2>4. TaskStack(current, Working)'
    <3>1. stack'[current][1] = f
      BY <2>2
    <3> QED BY <3>1, <2>1, <2>2, Zenon DEF TaskStack
  <2>5. \A t \in Nodes : TaskStack(t, IF t = current THEN Working ELSE {"switched"})'
    BY <1>4, <2>4, Zenon
  <2> QED BY <1>3, <1>6, <2>3, <2>5, Zenon DEF Stacks, Work
<1> QED BY <1>5, <1>6, Zenon

(* A call or an interrupt out of the body of a task, or of kernel_main.    *)
LEMMA CallStacks ==
    ASSUME Stacks, current \in Pointer, NEW f \in Frame, Call(f), current' = current,
           tstate' = tstate, Top.ifl, ~f.ifl, f.pc \in Working,
           current = Null => f.pc = "enter"
    PROVE  /\ Stacks' /\ Top' = f
           /\ current = Null => Main' = Main
           /\ current # Null => Top = Body
<1>1. stack \in [Pointer -> Seq(Frame)] /\ Null \in Pointer /\ Nodes \subseteq Pointer
      /\ Null \notin Nodes
  BY ListAssumption, Zenon DEF Stacks, Pointer
<1>3. /\ stack' = [stack EXCEPT ![current] = <<f>> \o stack[current]]
      /\ <<f>> \o stack[current] \in Seq(Frame)
  BY <1>1 DEF Call
<1>4. /\ stack' \in [Pointer -> Seq(Frame)]
      /\ stack'[current] = <<f>> \o stack[current]
      /\ \A x \in Pointer : x # current => stack'[x] = stack[x]
  BY <1>1, <1>3, Zenon
<1>5. ASSUME NEW t \in Nodes, t # current
      PROVE  TaskStack(t, {"switched"})'
  <2>1. TaskStack(t, {"switched"})
    BY <1>5, Zenon DEF Stacks
  <2>2. stack'[t] = stack[t]
    BY <1>1, <1>4, <1>5, Zenon
  <2> QED BY <2>1, <2>2, OtherStacks, Zenon
<1>6. CASE current = Null
  <2>1. stack[Null] = <<Main>> /\ Main \in Frame /\ Main.ifl /\ Main.pc \in BootLines
    BY <1>6, BootTop, Zenon
  <2>2. stack'[Null] = <<f, Main>>
    BY <1>4, <1>6, <2>1, Pushed, Zenon
  <2>3. Main' = Main /\ Top' = f /\ stack'[Null][1] = f
    BY <1>6, <2>2 DEF Main, Top
  <2>4. BootStack'
    BY <2>1, <2>2, <2>3, <1>6, Zenon DEF BootStack
  <2>5. \A t \in Nodes : TaskStack(t, IF t = current THEN Working ELSE {"switched"})'
    BY <1>1, <1>5, <1>6, Zenon
  <2> QED BY <1>4, <1>6, <2>3, <2>4, <2>5, Zenon DEF Stacks
<1>7. CASE current # Null
  <2>0. current \in Nodes
    BY <1>7, Zenon DEF Pointer
  <2>1. stack[current] = <<Body>> /\ Top = Body
    BY <2>0, TaskTop, Zenon
  <2>2. stack'[current] = <<f, Body>>
    BY <1>4, <2>1, Bases, Pushed, Zenon
  <2>3. Top' = f
    BY <2>2, SMTT(30) DEF Top
  <2>4. TaskStack(current, Working)'
    <3>1. stack'[current][1] = f
      BY <2>2
    <3> QED BY <3>1, <2>2, Zenon DEF TaskStack
  <2>5. \A t \in Nodes : TaskStack(t, IF t = current THEN Working ELSE {"switched"})'
    BY <1>5, <2>4, Zenon
  <2> QED BY <1>4, <1>7, <2>1, <2>3, <2>5, Zenon DEF Stacks
<1> QED BY <1>6, <1>7, Zenon

(* sys_exit calls schedule and would spin after it.                        *)
LEMMA ExitStacks ==
    ASSUME Stacks, current \in Nodes, tstate \in [Nodes -> {"none", "ready", "zombie"}],
           sys_exit
    PROVE  Stacks' /\ Top = Body /\ Top' = NewFrame("enter", FALSE)
<1> DEFINE f == NewFrame("enter", FALSE)
<1>0. f \in Frame /\ f.pc = "enter" /\ ~f.ifl
  BY NewFrames, Zenon DEF Lines
<1>1. stack \in [Pointer -> Seq(Frame)] /\ Null \notin Nodes /\ Nodes \subseteq Pointer
  BY ListAssumption, Zenon DEF Stacks, Pointer
<1>2. stack[current] = <<Body>> /\ Top = Body
  <2>1. Top.pc = "body"
    BY Zenon DEF sys_exit, At
  <2> QED BY <2>1, TaskTop, Zenon DEF Working, Scheduling
<1>3. /\ stack' = [stack EXCEPT ![current] = <<f, Spin>> \o stack[current]]
      /\ current' = current /\ tstate' = [tstate EXCEPT ![current] = "zombie"]
  BY Zenon DEF sys_exit, Spin
<1> HIDE DEF f
<1>4. <<f, Spin>> \o stack[current] = <<f, Spin, Body>>
  BY <1>0, <1>2, Bases, Pushed, ZenonT(60)
<1>5. <<f, Spin, Body>> \in Seq(Frame)
  BY <1>0, Bases
<1>6. /\ stack' \in [Pointer -> Seq(Frame)]
      /\ stack'[current] = <<f, Spin, Body>>
      /\ \A x \in Pointer : x # current => stack'[x] = stack[x]
  BY <1>1, <1>3, <1>4, <1>5, Zenon
<1>7. tstate'[current] = "zombie" /\ \A t \in Nodes : t # current => tstate'[t] = tstate[t]
  BY <1>3, Zenon
<1>8. Top' = f
  BY <1>3, <1>6 DEF Top
<1>9. TaskStack(current, Working)'
  <2>1. stack'[current][1] = f
    BY <1>6
  <2> QED BY <2>1, <1>0, <1>3, <1>6, <1>7, Zenon DEF TaskStack, Working, Scheduling
<1>10. ASSUME NEW t \in Nodes, t # current
       PROVE  TaskStack(t, {"switched"})'
  <2>1. TaskStack(t, {"switched"})
    BY <1>10, Zenon DEF Stacks
  <2>2. stack'[t] = stack[t]
    BY <1>1, <1>6, <1>10, Zenon
  <2> QED BY <2>1, <2>2, <1>7, <1>10, OtherStacks, Zenon
<1>11. \A t \in Nodes : TaskStack(t, IF t = current THEN Working ELSE {"switched"})'
  BY <1>3, <1>9, <1>10, Zenon
<1>12. current' # Null
  BY <1>1, <1>3, Zenon
<1> QED BY <1>2, <1>6, <1>8, <1>11, <1>12, Zenon DEF Stacks, f

(* Before task_list is created, schedule returns to kernel_main.           *)
LEMMA ReturnStacks ==
    ASSUME Stacks, current = Null, Top.pc = "enter", Main.pc # "enter", Return,
           current' = current, tstate' = tstate
    PROVE  Stacks' /\ Main' = Main
<1>1. stack \in [Pointer -> Seq(Frame)] /\ Null \in Pointer /\ Nodes \subseteq Pointer
      /\ Null \notin Nodes
  BY ListAssumption, Zenon DEF Stacks, Pointer
<1>2. stack[Null] = <<Top, Main>> /\ Main \in Frame /\ Main.ifl /\ Main.pc \in BootLines
  BY BootTop, Zenon
<1>3. Tail(stack[Null]) = <<Main>> /\ <<Main>> \in Seq(Frame)
  BY <1>2
<1>4. /\ stack' \in [Pointer -> Seq(Frame)]
      /\ stack'[Null] = <<Main>>
      /\ \A x \in Pointer : x # Null => stack'[x] = stack[x]
  BY <1>1, <1>3, Zenon DEF Return
<1>5. Main' = Main
  BY <1>4 DEF Main
<1>6. BootStack'
  BY <1>2, <1>4, <1>5, Zenon DEF BootStack
<1>7. ASSUME NEW t \in Nodes
      PROVE  TaskStack(t, IF t = current THEN Working ELSE {"switched"})'
  <2>1. t # current /\ TaskStack(t, {"switched"})
    BY <1>1, Zenon DEF Stacks
  <2>2. stack'[t] = stack[t]
    BY <1>1, <1>4, Zenon
  <2> QED BY <2>1, <2>2, OtherStacks, Zenon
<1> QED BY <1>4, <1>5, <1>6, <1>7, Zenon DEF Stacks

(* context_switch leaves the running thread in the call, and the next one, *)
(* which is not dead, goes on with its body.                               *)
LEMMA SwitchStacks ==
    ASSUME Stacks, current \in Pointer, NEW n \in Nodes, tstate[n] # "zombie",
           context_switch(n), tstate' = tstate, Top.pc # "body"
    PROVE  Stacks' /\ Top' = Body /\ Work' = Body
<1> DEFINE left == [stack EXCEPT ![current][1].pc = "switched"]
           g == [Top EXCEPT !.pc = "switched"]
<1>1. stack \in [Pointer -> Seq(Frame)] /\ Null \in Pointer /\ Nodes \subseteq Pointer
      /\ Null \notin Nodes
  BY ListAssumption, Zenon DEF Stacks, Pointer
<1>2. Top \in Frame /\ Top = stack[current][1] /\ stack[current] # <<>>
  <2>1. CASE current = Null
    BY <2>1, BootTop, NotEmpty, Zenon
  <2>2. CASE current # Null
    <3>1. current \in Nodes
      BY <2>2, Zenon DEF Pointer
    <3> QED BY <3>1, TaskTop, NotEmpty, Zenon
  <2> QED BY <2>1, <2>2, Zenon
<1>3. g \in Frame /\ g.pc = "switched" /\ g.ifl = Top.ifl
  BY <1>2, Zenon DEF Frame, Lines
<1>4. left = [stack EXCEPT ![current] = [stack[current] EXCEPT ![1] = g]]
  BY <1>1, <1>2, Zenon
<1>5. /\ stack' = IF Head(left[n]).pc = "switched" THEN [left EXCEPT ![n] = Tail(left[n])]
                  ELSE left
      /\ current' = n
  BY Zenon DEF context_switch
<1> HIDE DEF g, left
<1>6. /\ left \in [Pointer -> Seq(Frame)]
      /\ left[current] = [stack[current] EXCEPT ![1] = g]
      /\ \A x \in Pointer : x # current => left[x] = stack[x]
  BY <1>1, <1>2, <1>3, <1>4
<1>7. ASSUME NEW t \in Nodes
      PROVE  \/ left[t] = <<Body>>
             \/ \E h \in Frame : /\ h.pc = "switched" /\ ~h.ifl
                                 /\ \/ left[t] = <<h, Body>>
                                    \/ left[t] = <<h, Spin, Body>> /\ tstate[t] = "zombie"
  <2>1. CASE t = current
    <3>1. /\ ~Top.ifl
          /\ \/ stack[t] = <<Top, Body>>
             \/ stack[t] = <<Top, Spin, Body>> /\ tstate[t] = "zombie"
      BY <2>1, TaskTop, Bases, Zenon
    <3>2. \/ left[t] = <<g, Body>>
          \/ left[t] = <<g, Spin, Body>> /\ tstate[t] = "zombie"
      BY <3>1, <2>1, <1>6
    <3> QED BY <3>1, <3>2, <1>3, Zenon
  <2>2. CASE t # current
    <3>1. TaskStack(t, {"switched"}) /\ left[t] = stack[t] /\ stack[t] \in Seq(Frame)
      BY <2>2, <1>1, <1>6, Zenon DEF Stacks
    <3>2. stack[t] # <<>>
      BY <3>1, NotEmpty, Zenon DEF TaskStack
    <3>3. stack[t][1] \in Frame
      BY <3>1, <3>2
    <3> QED BY <3>1, <3>3, Zenon DEF TaskStack
  <2> QED BY <2>1, <2>2, Zenon
<1>8. stack'[n] = <<Body>> /\ stack' \in [Pointer -> Seq(Frame)]
      /\ \A x \in Pointer : x # n => stack'[x] = left[x]
  <2>1. CASE left[n] = <<Body>>
    <3>1. Head(left[n]).pc # "switched"
      BY <2>1, Bases
    <3> QED BY <3>1, <2>1, <1>5, <1>6, Zenon
  <2>2. CASE left[n] # <<Body>>
    <3>1. PICK h \in Frame : h.pc = "switched" /\ left[n] = <<h, Body>>
      BY <2>2, <1>7, Zenon
    <3>2. Head(left[n]).pc = "switched" /\ Tail(left[n]) = <<Body>>
      BY <3>1
    <3>3. stack' = [left EXCEPT ![n] = <<Body>>]
      BY <3>2, <1>5, Zenon
    <3>4. <<Body>> \in Seq(Frame)
      BY Bases
    <3> QED BY <3>3, <3>4, <1>1, <1>6, Zenon
  <2> QED BY <2>1, <2>2, Zenon
<1>9. Top' = Body /\ Work' = Body
  <2>1. Head(<<Body>>) = Body /\ stack'[current'] = <<Body>>
    BY <1>5, <1>8
  <2>2. Top' = Body
    BY <2>1, Zenon DEF Top
  <2> QED BY <2>2, <1>1, <1>5, Zenon DEF Work
<1>10. ASSUME NEW t \in Nodes
       PROVE  TaskStack(t, IF t = current THEN Working ELSE {"switched"})'
  <2>1. CASE t = n
    BY <2>1, <1>8, Zenon DEF TaskStack
  <2>2. CASE t # n
    <3>1. stack'[t] = left[t] /\ t # current'
      BY <2>2, <1>1, <1>5, <1>8, Zenon
    <3>2. TaskStack(t, {"switched"})'
      <4>1. CASE left[t] = <<Body>>
        BY <4>1, <3>1, Zenon DEF TaskStack
      <4>2. CASE left[t] # <<Body>>
        <5>1. PICK h \in Frame : /\ h.pc = "switched" /\ ~h.ifl
                                 /\ \/ stack'[t] = <<h, Body>>
                                    \/ stack'[t] = <<h, Spin, Body>> /\ tstate'[t] = "zombie"
          BY <4>2, <3>1, <1>7, Zenon
        <5>2. stack'[t][1] = h
          BY <5>1
        <5> QED BY <5>1, <5>2, Zenon DEF TaskStack
      <4> QED BY <4>1, <4>2, Zenon
    <3> QED BY <3>1, <3>2, Zenon
  <2> QED BY <2>1, <2>2, Zenon
<1>11. current' # Null
  BY <1>1, <1>5, Zenon
<1> QED BY <1>8, <1>9, <1>10, <1>11, Zenon DEF Stacks

-----------------------------------------------------------------------------

(* A chain no task is being put into does not depend on the frame at work. *)
LEMMA ChainPlain ==
    ASSUME NEW s, NEW pc, NEW t, NEW pc2, NEW t2, TaskChain(s, pc, t),
           pc \notin {"link", "publish"}, pc = "self" => t = Idle,
           pc2 \notin {"link", "publish"}, UNCHANGED <<listVars, self>>
    PROVE  TaskChain(s, pc2, t2)'
<1>1. /\ head' = head /\ tail' = tail /\ size' = size /\ nxt' = nxt /\ prv' = prv
      /\ live' = live /\ self' = self
  BY Zenon DEF listVars
<1>2. Links(pc) = size /\ Links(pc2)' = size
  BY <1>1, Zenon DEF Links
<1>3. Chain(size, s, nxt, prv, live) /\ Ends(size, s, head, tail, nxt, prv)
  BY <1>2, Zenon DEF TaskChain
<1>4. /\ \A u \in live : \E k \in 1 .. size : s[k] = u
      /\ size > 0 => s[size] = Idle
      /\ \A k \in 1 .. size : self[s[k]] = s[k] \/ s[k] = Idle
  BY <1>2, Zenon DEF TaskChain
<1> QED BY <1>1, <1>2, <1>3, <1>4, Zenon DEF TaskChain, Chain, Ends

(* A step that has nothing to do with the list keeps it.                   *)
LEMMA ChainSame ==
    ASSUME NEW s, NEW pc, NEW t, TaskChain(s, pc, t), UNCHANGED <<listVars, self>>
    PROVE  TaskChain(s, pc, t)'
BY DEF TaskChain, Links, Chain, Ends, listVars

(* What the invariant says about the types.                                *)
LEMMA TaskTypes ==
    ASSUME TaskInv
    PROVE  /\ head \in Pointer /\ tail \in Pointer /\ size \in Nat
           /\ nxt \in [Nodes -> Pointer] /\ prv \in [Nodes -> Pointer]
           /\ live \subseteq Nodes /\ Null \in Pointer /\ Null \notin Nodes
           /\ Nodes \subseteq Pointer /\ current \in Pointer /\ Idle \in Nodes
           /\ current # Null => current \in Nodes
           /\ self \in [Nodes -> Pointer]
           /\ tstate \in [Nodes -> {"none", "ready", "zombie"}]
           /\ stack \in [Pointer -> Seq(Frame)]
BY ListAssumption, SchedulerAssumption, Zenon DEF TaskInv, ListTypeOK, Pointer, Fields, Stacks

(* The list does not change the types when nothing of it changes.          *)
LEMMA SameTypes ==
    ASSUME ListTypeOK, UNCHANGED listVars
    PROVE  ListTypeOK'
BY Zenon DEF ListTypeOK, listVars

(* A step inside schedule that changes nothing of the tasks.               *)
LEMMA QuietStep ==
    ASSUME TaskInv, current # Null, NEW f \in Frame, Goto(f),
           UNCHANGED <<listVars, taskVars, current, timer_ticks>>,
           Top.pc \in Scheduling, f.pc \in Scheduling, f.ifl = Top.ifl, Chosen(f)'
    PROVE  TaskInv'
<1>0. /\ current' = current /\ timer_ticks' = timer_ticks /\ task_list' = task_list
      /\ tstate' = tstate /\ self' = self /\ live' = live /\ size' = size
      /\ UNCHANGED listVars /\ current \in Pointer
  BY TaskTypes, Zenon DEF taskVars, listVars
<1>1. Stacks' /\ Top' = f /\ Work = Top /\ Work' = f
  <2>1. Stacks /\ Top.pc # "body" /\ f.pc \in Working
    BY Zenon DEF TaskInv, Scheduling, Working
  <2>2. \A t \in Nodes : tstate[t] = "zombie" => tstate'[t] = "zombie"
    BY <1>0, Zenon
  <2> QED BY <1>0, <2>1, <2>2, GotoStacks, Zenon
<1>2. \E s : TaskChain(s, Work.pc, Work.t)'
  <2>1. PICK s : TaskChain(s, Top.pc, Top.t)
    BY <1>1, Zenon DEF TaskInv
  <2>2. Top.pc \notin {"link", "publish"} /\ Top.pc # "self" /\ f.pc \notin {"link", "publish"}
    BY Zenon DEF Scheduling
  <2>3. \A t2 : TaskChain(s, f.pc, t2)'
    BY <2>1, <2>2, <1>0, ChainPlain, Zenon
  <2>4. TaskChain(s, Work.pc, Work.t)'
    BY <2>3, <1>1, Zenon
  <2> QED BY <2>4, Zenon
<1>3. Fields'
  BY <1>0, Zenon DEF TaskInv, Fields
<1>4. ListTypeOK'
  BY <1>0, SameTypes, Zenon DEF TaskInv
<1>5. Switched'
  <2>1. Chosen(Top)'
    BY <1>1, Zenon DEF Chosen
  <2>2. Top'.pc \notin {"link", "publish", "self"}
    BY <1>1, Zenon DEF Scheduling
  <2> QED BY <2>1, <2>2, <1>0, Zenon DEF TaskInv, Switched
<1> QED BY <1>0, <1>1, <1>2, <1>3, <1>4, <1>5, Zenon DEF TaskInv

(* Inside schedule task_list is a list that holds every task there is, the *)
(* first task at its end.                                                  *)
LEMMA ScheduleList ==
    ASSUME TaskInv, current # Null, Top.pc \in Scheduling
    PROVE  \E s : /\ IsList(s)
                  /\ \A u \in live : \E k \in 1 .. size : s[k] = u
                  /\ size \in Nat /\ size > 0 /\ s[size] = Idle
                  /\ \A k \in 1 .. size : self[s[k]] = s[k] \/ s[k] = Idle
<1>1. PICK s : TaskChain(s, Top.pc, Top.t)
  BY Zenon DEF TaskInv, Work
<1>2. Links(Top.pc) = size /\ Top.pc \notin {"link", "publish", "self"}
  BY Zenon DEF Links, Scheduling
<1>3. size \in Nat /\ size > 0
  BY TaskTypes, Zenon DEF TaskInv, Switched
<1> QED BY <1>1, <1>2, <1>3, Zenon DEF TaskChain, IsList

(* schedule looks behind the running task, or at the front of the list     *)
(* when the running task is the last one.                                  *)
LEMMA EnterInv == TaskInv /\ schedule_enter => TaskInv'
<1> SUFFICES ASSUME TaskInv, schedule_enter PROVE TaskInv'
  BY Zenon
<1> DEFINE n == IF self[current] = Null THEN Null ELSE nxt[self[current]]
<1>0. PICK f : f = [Top EXCEPT !.pc = "pick", !.node = n]
  BY Zenon
<1>1. /\ current # Null /\ Top.pc = "enter" /\ Goto(f)
      /\ UNCHANGED <<listVars, taskVars, current, timer_ticks>>
      /\ live' = live /\ tstate' = tstate /\ tss' = tss /\ cr3' = cr3 /\ current' = current
  BY <1>0, Zenon DEF schedule_enter, At, timeVars, loadVars, taskVars, listVars
<1>2. current \in Nodes /\ current \in live /\ Top \in Frame /\ Chosen(Top)
      /\ self[current] \in {current, Null}
  BY <1>1, TaskTypes, TaskTop, Zenon DEF TaskInv, Switched, Fields
<1>3. n \in Pointer /\ n # current /\ (n = Null => current = Idle)
  <2>1. PICK s : /\ IsList(s)
                 /\ \A u \in live : \E k \in 1 .. size : s[k] = u
                 /\ size \in Nat /\ size > 0 /\ s[size] = Idle
                 /\ \A k \in 1 .. size : self[s[k]] = s[k] \/ s[k] = Idle
    BY <1>1, ScheduleList, Zenon DEF Scheduling
  <2>2. PICK k \in 1 .. size : s[k] = current
    BY <1>2, <2>1, Zenon
  <2>3. CASE self[current] = Null
    BY <2>1, <2>2, <2>3, <1>2, TaskTypes, Zenon
  <2>4. CASE self[current] = current
    <3>0. n = nxt[current]
      BY <2>4, <1>2, TaskTypes, Zenon
    <3>1. CASE k = size
      <4>1. nxt[current] = Null /\ current = Idle
        BY <3>1, <2>1, <2>2, Zenon DEF IsList, Ends
      <4> QED BY <4>1, <3>0, <1>2, TaskTypes, Zenon
    <3>2. CASE k # size
      <4>1. k \in 1 .. (size - 1) /\ k + 1 \in 1 .. size /\ k # k + 1
        BY <3>2, <2>1
      <4>2. nxt[current] = s[k + 1] /\ s[k + 1] \in Nodes /\ s[k + 1] # s[k]
        BY <4>1, <2>1, <2>2, Zenon DEF IsList, Chain
      <4> QED BY <4>2, <3>0, <2>2, TaskTypes, Zenon
    <3> QED BY <3>1, <3>2, Zenon
  <2> QED BY <2>3, <2>4, <1>2, Zenon
<1> HIDE DEF n
<1>4. f \in Frame /\ f.pc = "pick" /\ f.ifl = Top.ifl /\ f.node = n
  BY <1>0, <1>2, <1>3, Zenon DEF Frame, Lines
<1>5. Chosen(f)'
  BY <1>1, <1>2, <1>3, <1>4, Zenon DEF Chosen
<1> QED BY <1>1, <1>4, <1>5, QuietStep, Zenon DEF Scheduling

(* A candidate that is not dead is a task: the list is not empty.          *)
LEMMA PickInv == TaskInv /\ pick_next => TaskInv'
<1> SUFFICES ASSUME TaskInv, pick_next PROVE TaskInv'
  BY Zenon
<1>0. PICK f : f = [Top EXCEPT !.pc = "account", !.next = Candidate]
  BY Zenon
<1>1. /\ Top.pc = "pick" /\ Goto(f) /\ Candidate \in live \cup {Null} /\ ~Dead(Candidate)
      /\ UNCHANGED <<listVars, taskVars, current, timer_ticks>>
      /\ live' = live /\ tstate' = tstate /\ tss' = tss /\ cr3' = cr3 /\ current' = current
  BY <1>0, Zenon DEF pick_next, At, timeVars, loadVars, taskVars, listVars
<1>2. current # Null
  BY <1>1, BootTop, Zenon DEF TaskInv, BootLines
<1>3. Top \in Frame /\ Chosen(Top)
  BY <1>2, TaskTypes, TaskTop, Zenon DEF TaskInv, Switched
<1>4. Candidate \in live /\ tstate[Candidate] # "zombie" /\ Candidate \in Pointer
  <2>1. PICK s : IsList(s) /\ size \in Nat /\ size > 0
    BY <1>1, <1>2, ScheduleList, Zenon DEF Scheduling
  <2>2. head \in Nodes
    BY <2>1 DEF IsList, Chain, Ends
  <2>3. Candidate # Null
    BY <2>2, TaskTypes, Zenon DEF Candidate, list_peek_front
  <2> QED BY <2>3, <1>1, TaskTypes, Zenon DEF Dead
<1>5. f \in Frame /\ f.pc = "account" /\ f.ifl = Top.ifl /\ f.next = Candidate
  BY <1>0, <1>3, <1>4, Zenon DEF Frame, Lines
<1>6. Chosen(f)'
  BY <1>1, <1>3, <1>4, <1>5, Zenon DEF Chosen
<1> QED BY <1>1, <1>2, <1>5, <1>6, QuietStep, Zenon DEF Scheduling

(* The lines between the choice and the switch.                            *)
LEMMA AccountInv == TaskInv /\ (account \/ account_prev) => TaskInv'
<1> SUFFICES ASSUME TaskInv, account \/ account_prev PROVE TaskInv'
  BY Zenon
<1>1. \E f : /\ \/ f = [Top EXCEPT !.pc = "prev", !.curr = timer_ticks] /\ Top.pc = "account"
                \/ f = [Top EXCEPT !.pc = "tss"] /\ Top.pc = "prev"
             /\ Goto(f)
             /\ UNCHANGED <<listVars, taskVars, current, timer_ticks>>
             /\ live' = live /\ tstate' = tstate /\ tss' = tss /\ cr3' = cr3
             /\ current' = current
  BY Zenon DEF account, account_prev, At, loadVars, taskVars, listVars
<1>2. PICK f : /\ \/ f = [Top EXCEPT !.pc = "prev", !.curr = timer_ticks] /\ Top.pc = "account"
                  \/ f = [Top EXCEPT !.pc = "tss"] /\ Top.pc = "prev"
               /\ Goto(f)
               /\ UNCHANGED <<listVars, taskVars, current, timer_ticks>>
               /\ live' = live /\ tstate' = tstate /\ tss' = tss /\ cr3' = cr3
               /\ current' = current
  BY <1>1, Zenon
<1>3. current # Null
  BY <1>2, BootTop, Zenon DEF TaskInv, BootLines
<1>4. Top \in Frame /\ Chosen(Top) /\ timer_ticks \in 0 .. (TickMod - 1)
  BY <1>3, TaskTypes, TaskTop, Zenon DEF TaskInv, Switched
<1>5. f \in Frame /\ f.pc \in {"prev", "tss"} /\ f.ifl = Top.ifl /\ f.next = Top.next
  BY <1>2, <1>4, Zenon DEF Frame, Lines
<1>6. Chosen(f)'
  BY <1>2, <1>4, <1>5, Zenon DEF Chosen
<1> QED BY <1>2, <1>3, <1>5, <1>6, QuietStep, Zenon DEF Scheduling

(* The stack and the directory of the next task are loaded.                *)
LEMMA LoadInv == TaskInv /\ (tss_set_stack \/ switch_page_directory) => TaskInv'
<1> SUFFICES ASSUME TaskInv, tss_set_stack \/ switch_page_directory PROVE TaskInv'
  BY Zenon
<1>1. \E f : /\ \/ f = [Top EXCEPT !.pc = "cr3"] /\ Top.pc = "tss" /\ tss' = Top.next /\ cr3' = cr3
                \/ f = [Top EXCEPT !.pc = "switch"] /\ Top.pc = "cr3" /\ cr3' = Top.next /\ tss' = tss
             /\ Goto(f)
             /\ UNCHANGED <<listVars, taskVars, current, timer_ticks>>
             /\ live' = live /\ tstate' = tstate /\ current' = current
  BY Zenon DEF tss_set_stack, switch_page_directory, At, timeVars, taskVars, listVars
<1>2. PICK f : /\ \/ f = [Top EXCEPT !.pc = "cr3"] /\ Top.pc = "tss" /\ tss' = Top.next /\ cr3' = cr3
                  \/ f = [Top EXCEPT !.pc = "switch"] /\ Top.pc = "cr3" /\ cr3' = Top.next /\ tss' = tss
               /\ Goto(f)
               /\ UNCHANGED <<listVars, taskVars, current, timer_ticks>>
               /\ live' = live /\ tstate' = tstate /\ current' = current
  BY <1>1, Zenon
<1>3. current # Null
  BY <1>2, BootTop, Zenon DEF TaskInv, BootLines
<1>4. Top \in Frame /\ Chosen(Top)
  BY <1>3, TaskTypes, TaskTop, Zenon DEF TaskInv, Switched
<1>5. f \in Frame /\ f.ifl = Top.ifl /\ f.next = Top.next
      /\ f.pc = IF Top.pc = "tss" THEN "cr3" ELSE "switch"
  BY <1>2, <1>4, Zenon DEF Frame, Lines
<1>6. Chosen(f)'
  BY <1>2, <1>4, <1>5, Zenon DEF Chosen
<1> QED BY <1>2, <1>3, <1>5, <1>6, QuietStep, Zenon DEF Scheduling

(* A dead task is never the running one, nor the first one: taking it off  *)
(* the list and freeing it keeps the others.                               *)
LEMMA DestroyInv == TaskInv /\ task_destroy => TaskInv'
<1> SUFFICES ASSUME TaskInv, task_destroy PROVE TaskInv'
  BY Zenon
<1>1. PICK c : c = Candidate
  BY Zenon
<1>2. /\ Top.pc = "pick" /\ c \in live /\ tstate[c] = "zombie" /\ self[c] # Null
      /\ list_remove_node(self[c])
      /\ UNCHANGED <<taskVars, current, stack, timeVars, loadVars>>
  BY <1>1, Zenon DEF task_destroy, At, Dead
<1>3. current # Null
  BY <1>2, BootTop, Zenon DEF TaskInv, BootLines
<1>4. /\ current \in Nodes /\ current \in live /\ Chosen(Top) /\ self[c] = c /\ c \in Nodes
      /\ tstate[Idle] # "zombie"
  BY <1>2, <1>3, TaskTypes, Zenon DEF TaskInv, Switched, Fields
<1>5. c # Idle /\ c # current
  <2>1. c # Idle
    BY <1>2, <1>4, Zenon
  <2>2. Top.node # current /\ (Top.node = Null => current = Idle)
    BY <1>2, <1>4, Zenon DEF Chosen
  <2>3. c = IF Top.node = Null THEN head ELSE Top.node
    BY <1>1, Zenon DEF Candidate, list_peek_front
  <2> QED BY <2>1, <2>2, <2>3, Zenon
<1>6. PICK s : /\ IsList(s)
               /\ \A u \in live : \E k \in 1 .. size : s[k] = u
               /\ size \in Nat /\ size > 0 /\ s[size] = Idle
               /\ \A k \in 1 .. size : self[s[k]] = s[k] \/ s[k] = Idle
  BY <1>2, <1>3, ScheduleList, Zenon DEF Scheduling
<1>7. PICK i \in 1 .. size : s[i] = c
  BY <1>2, <1>6, Zenon
<1>8. i # size /\ size - 1 \in Nat /\ size - 1 > 0
  BY <1>5, <1>6, <1>7, SMTT(30)
<1>9. PICK r : r = Removed(size, s, i)
  BY Zenon
<1>10. LInv' /\ IsList(r)' /\ live' = live \ {c} /\ size' = size - 1
  <2>1. LInv
    BY <1>6, Unfold, Zenon DEF LInv, TaskInv
  <2>2. list_remove_node(s[i])
    BY <1>2, <1>4, <1>7, Zenon
  <2> QED BY <2>1, <2>2, <1>6, <1>7, <1>9, RemoveNodeInv, Zenon
<1>11. /\ \A k \in 1 .. (size - 1) : r[k] = IF k < i THEN s[k] ELSE s[k + 1]
       /\ \A k \in 1 .. (size - 1) : k \in 1 .. size /\ k + 1 \in 1 .. size
  BY <1>6, <1>8, <1>9 DEF Removed
<1>12. ASSUME NEW u \in live' PROVE \E k \in 1 .. size' : r[k] = u
  <2>1. PICK k \in 1 .. size : s[k] = u /\ k # i
    BY <1>6, <1>7, <1>10, Zenon
  <2>2. CASE k < i
    <3>1. k \in 1 .. (size - 1) /\ r[k] = u
      BY <2>1, <2>2, <1>6, <1>11
    <3> QED BY <3>1, <1>10, Zenon
  <2>3. CASE ~(k < i)
    <3>1. k - 1 \in 1 .. (size - 1) /\ ~(k - 1 < i) /\ (k - 1) + 1 = k
      BY <2>1, <2>3, <1>6
    <3>2. r[k - 1] = u
      BY <2>1, <3>1, <1>11, Zenon
    <3> QED BY <3>1, <3>2, <1>10, Zenon
  <2> QED BY <2>2, <2>3, Zenon
<1>13. r[size'] = Idle /\ size' > 0
  <2>1. size - 1 \in 1 .. (size - 1) /\ ~(size - 1 < i) /\ (size - 1) + 1 = size
    BY <1>6, <1>8
  <2>2. r[size - 1] = s[size]
    BY <2>1, <1>11, Zenon
  <2> QED BY <2>2, <1>6, <1>8, <1>10, Zenon
<1>14. /\ Top' = Top /\ Work = Top /\ Work' = Top /\ current' = current /\ tstate' = tstate
       /\ self' = self /\ stack' = stack /\ task_list' = task_list
       /\ tss' = tss /\ cr3' = cr3 /\ timer_ticks' = timer_ticks
  BY <1>2, <1>3, Zenon DEF Top, Work, taskVars, timeVars, loadVars
<1>15. \A k \in 1 .. size' : self'[r[k]] = r[k] \/ r[k] = Idle
  <2>1. ASSUME NEW k \in 1 .. (size - 1) PROVE self[r[k]] = r[k] \/ r[k] = Idle
    BY <1>6, <1>11
  <2> QED BY <2>1, <1>10, <1>14, Zenon
<1>16. TaskChain(r, Work.pc, Work.t)'
  <2>1. Work'.pc = "pick"
    BY <1>2, <1>14, Zenon
  <2>2. Links(Work.pc)' = size'
    BY <2>1, Zenon DEF Links
  <2>3. Chain(size', r, nxt', prv', live') /\ Ends(size', r, head', tail', nxt', prv')
    BY <1>10, Zenon DEF IsList, Chain, Ends
  <2> QED BY <2>1, <2>2, <2>3, <1>12, <1>13, <1>15, Zenon DEF TaskChain, Chain, Ends
<1>17. Stacks'
  BY <1>3, <1>14, Zenon DEF TaskInv, Stacks, TaskStack
<1>18. Fields'
  BY <1>10, <1>14, Zenon DEF TaskInv, Fields
<1>19. Switched'
  <2>1. Chosen(Top)'
    BY <1>2, <1>4, <1>14, Zenon DEF Chosen
  <2>2. current' \in live'
    BY <1>4, <1>5, <1>10, <1>14, Zenon
  <2> QED BY <2>1, <2>2, <1>2, <1>3, <1>13, <1>14, Zenon DEF TaskInv, Switched
<1>20. ListTypeOK'
  BY <1>10, Zenon DEF LInv
<1> QED BY <1>3, <1>14, <1>16, <1>17, <1>18, <1>19, <1>20, Zenon DEF TaskInv

(* A switch to a task that is not dead, from a task or from kernel_main.   *)
LEMMA SwitchedInv ==
    ASSUME TaskInv, NEW n \in live, tstate[n] # "zombie", context_switch(n),
           UNCHANGED <<listVars, taskVars, timeVars, loadVars>>,
           Top.pc # "body", task_list, size > 0,
           Work.pc \notin {"link", "publish"}, Work.pc = "self" => Work.t = Idle,
           tss = cr3, cr3 = n \/ (cr3 = Null /\ n = Idle)
    PROVE  TaskInv'
<1>1. /\ tstate' = tstate /\ self' = self /\ task_list' = task_list /\ size' = size
      /\ live' = live /\ tss' = tss /\ cr3' = cr3 /\ timer_ticks' = timer_ticks
      /\ current' = n /\ n \in Nodes /\ n # Null /\ UNCHANGED listVars
  BY TaskTypes, Zenon DEF taskVars, listVars, timeVars, loadVars, context_switch
<1>2. Stacks' /\ Top' = Body /\ Work' = Body
  <2>1. Stacks /\ current \in Pointer
    BY Zenon DEF TaskInv
  <2> QED BY <1>1, <2>1, SwitchStacks, Zenon
<1>3. \E s : TaskChain(s, Work.pc, Work.t)'
  <2>1. PICK s : TaskChain(s, Work.pc, Work.t)
    BY Zenon DEF TaskInv
  <2>2. \A t2 : TaskChain(s, "body", t2)'
    <3>1. "body" \notin {"link", "publish"}
      BY Zenon
    <3> QED BY <2>1, <3>1, <1>1, ChainPlain, Zenon
  <2>3. TaskChain(s, Work.pc, Work.t)'
    BY <2>2, <1>2, Bases, Zenon
  <2> QED BY <2>3, Zenon
<1>4. Fields'
  BY <1>1, Zenon DEF TaskInv, Fields
<1>5. Switched'
  <2>1. Chosen(Top)'
    BY <1>1, <1>2, Bases, Zenon DEF Chosen
  <2> QED BY <2>1, <1>1, <1>2, Bases, Zenon DEF Switched
<1>6. ListTypeOK'
  BY <1>1, SameTypes, Zenon DEF TaskInv
<1>7. current' \in Pointer /\ current' # Null /\ timer_ticks' \in 0 .. (TickMod - 1)
  BY <1>1, Zenon DEF TaskInv, Pointer
<1> QED BY <1>2, <1>3, <1>4, <1>5, <1>6, <1>7, Zenon DEF TaskInv

(* schedule switches to the task it has chosen.                            *)
LEMMA SwitchInv == TaskInv /\ switch_to_next => TaskInv'
<1> SUFFICES ASSUME TaskInv, switch_to_next PROVE TaskInv'
  BY Zenon
<1>1. PICK n : n = Top.next
  BY Zenon
<1>2. /\ Top.pc = "switch" /\ context_switch(n)
      /\ UNCHANGED <<listVars, taskVars, timeVars, loadVars>>
  BY <1>1, Zenon DEF switch_to_next, At
<1>3. current # Null
  BY <1>2, BootTop, Zenon DEF TaskInv, BootLines
<1>4. Chosen(Top) /\ task_list /\ size > 0 /\ Work = Top
  BY <1>3, Zenon DEF TaskInv, Switched, Work
<1>5. n \in live /\ tstate[n] # "zombie" /\ tss = n /\ cr3 = n
  BY <1>1, <1>2, <1>4, Zenon DEF Chosen
<1> QED BY <1>2, <1>4, <1>5, SwitchedInv, Zenon

(* The boot thread switches to the first task for good.                    *)
LEMMA FirstInv == TaskInv /\ schedule_first => TaskInv'
<1> SUFFICES ASSUME TaskInv, schedule_first PROVE TaskInv'
  BY Zenon
<1>1. PICK n : n = head
  BY Zenon
<1>2. /\ Top.pc = "enter" /\ task_list /\ current = Null /\ n # Null /\ context_switch(n)
      /\ UNCHANGED <<listVars, taskVars, timeVars, loadVars>>
  BY <1>1, Zenon DEF schedule_first, At, list_peek_front
<1>3. Starting /\ Work = Main
  BY <1>2, Zenon DEF TaskInv, Work
<1>4. PICK s : TaskChain(s, Main.pc, Main.t)
  BY <1>3, Zenon DEF TaskInv
<1>5. size \in Nat
  BY TaskTypes, Zenon
<1>6. Main.pc # "publish"
  <2>1. SUFFICES ASSUME Main.pc = "publish" PROVE FALSE
    BY Zenon
  <2>2. size = 0
    BY <2>1, <1>3, Zenon DEF Starting
  <2>3. head = Null
    BY <2>1, <2>2, <1>4, Zenon DEF TaskChain
  <2> QED BY <2>3, <1>1, <1>2, Zenon
<1>7. Links(Main.pc) = size /\ Chain(size, s, nxt, prv, live) /\ Ends(size, s, head, tail, nxt, prv)
  BY <1>4, <1>6, Zenon DEF TaskChain, Links
<1>8. size > 0
  BY <1>1, <1>2, <1>5, <1>7, SMTT(30) DEF Ends
<1>9. n \in live
  BY <1>1, <1>5, <1>7, <1>8, SMTT(30) DEF Chain, Ends
<1>10. Main.pc # "link" /\ size = 1
  BY <1>3, <1>8 DEF Starting
<1>11. n = Idle
  <2>1. s[1] = Idle
    BY <1>4, <1>7, <1>8, <1>10, Zenon DEF TaskChain
  <2> QED BY <2>1, <1>1, <1>7, <1>8, Zenon DEF Ends
<1>12. /\ tstate[n] # "zombie" /\ tss = Null /\ cr3 = Null
       /\ Main.pc = "self" => Main.t = Idle
  BY <1>3, <1>9, TaskTypes, Zenon DEF Starting
<1> QED BY <1>2, <1>3, <1>6, <1>8, <1>9, <1>10, <1>11, <1>12, SwitchedInv, Zenon

(* A timer interrupt, a system call or a call of task_create.              *)
LEMMA CallInv ==
    ASSUME TaskInv, NEW f \in Frame, Call(f),
           UNCHANGED <<listVars, taskVars, current, loadVars>>,
           timer_ticks' \in 0 .. (TickMod - 1),
           Top.ifl, ~f.ifl, f.pc \in {"enter", "alloc"}, current = Null => f.pc = "enter"
    PROVE  TaskInv'
<1>1. /\ tstate' = tstate /\ self' = self /\ task_list' = task_list /\ size' = size
      /\ live' = live /\ tss' = tss /\ cr3' = cr3 /\ current' = current
      /\ UNCHANGED listVars /\ current \in Pointer
  BY TaskTypes, Zenon DEF taskVars, listVars, loadVars
<1>2. /\ Stacks' /\ Top' = f
      /\ current = Null => Main' = Main
      /\ current # Null => Top = Body
  <2>1. Stacks /\ f.pc \in Working
    BY Zenon DEF TaskInv, Working, Scheduling
  <2> QED BY <1>1, <2>1, CallStacks, Zenon
<1>3. Fields'
  BY <1>1, Zenon DEF TaskInv, Fields
<1>4. ListTypeOK'
  BY <1>1, SameTypes, Zenon DEF TaskInv
<1>5. CASE current = Null
  <2>1. Work = Main /\ Work' = Main /\ Main' = Main
    BY <1>1, <1>2, <1>5, Zenon DEF Work
  <2>2. \E s : TaskChain(s, Work.pc, Work.t)'
    <3>1. PICK s : TaskChain(s, Main.pc, Main.t)
      BY <2>1, Zenon DEF TaskInv
    <3>2. PICK pc, t : pc = Main.pc /\ t = Main.t
      BY Zenon
    <3>3. TaskChain(s, pc, t)'
      BY <3>1, <3>2, <1>1, ChainSame, Zenon
    <3>4. TaskChain(s, Work.pc, Work.t)'
      BY <3>2, <3>3, <2>1, Zenon
    <3> QED BY <3>4, Zenon
  <2>3. Starting'
    BY <1>1, <1>5, <2>1, Zenon DEF TaskInv, Starting
  <2> QED BY <1>1, <1>2, <1>3, <1>4, <1>5, <2>2, <2>3, Zenon DEF TaskInv
<1>6. CASE current # Null
  <2>1. Work = Body /\ Work' = f /\ Top = Body
    BY <1>1, <1>2, <1>6, Zenon DEF Work
  <2>2. \E s : TaskChain(s, Work.pc, Work.t)'
    <3>1. PICK s : TaskChain(s, "body", Body.t)
      BY <2>1, Bases, Zenon DEF TaskInv
    <3>2. PICK pc, t : pc = f.pc /\ t = f.t /\ pc \notin {"link", "publish"}
      BY Zenon
    <3>3. TaskChain(s, pc, t)'
      BY <3>1, <3>2, <1>1, ChainPlain
    <3>4. TaskChain(s, Work.pc, Work.t)'
      BY <3>2, <3>3, <2>1, Zenon
    <3> QED BY <3>4, Zenon
  <2>3. Switched'
    <3>1. Chosen(Body)
      BY <1>6, <2>1, Zenon DEF TaskInv, Switched
    <3>2. tss = cr3 /\ (cr3 = current \/ (cr3 = Null /\ current = Idle))
      BY <3>1, Bases, Zenon DEF Chosen
    <3>3. Chosen(Top)'
      BY <3>2, <1>1, <1>2, Zenon DEF Chosen
    <3> QED BY <3>3, <1>1, <1>2, <1>6, Zenon DEF TaskInv, Switched
  <2> QED BY <1>1, <1>2, <1>3, <1>4, <1>6, <2>2, <2>3, Zenon DEF TaskInv
<1> QED BY <1>5, <1>6, Zenon

(* The body of a task is interruptible code of a task.                     *)
LEMMA AtBody ==
    ASSUME TaskInv, Top.pc = "body"
    PROVE  current \in Nodes /\ Top = Body /\ Top.ifl
<1>1. current # Null
  BY BootTop, Zenon DEF TaskInv, BootLines
<1>2. current \in Nodes
  BY <1>1, TaskTypes, Zenon
<1>3. Top = Body
  BY <1>2, TaskTop, Zenon DEF TaskInv, Working, Scheduling
<1> QED BY <1>2, <1>3, Bases, Zenon

(* The timer.                                                              *)
LEMMA TimerInv == TaskInv /\ timer_irq_handler => TaskInv'
<1> SUFFICES ASSUME TaskInv, timer_irq_handler PROVE TaskInv'
  BY Zenon
<1>1. PICK f : f = NewFrame("enter", FALSE)
  BY Zenon
<1>2. f \in Frame /\ f.pc = "enter" /\ ~f.ifl
  BY <1>1, NewFrames, Zenon DEF Lines
<1>3. /\ Top.ifl /\ Call(f) /\ timer_ticks' = (timer_ticks + 1) % TickMod
      /\ UNCHANGED <<listVars, taskVars, current, loadVars>>
  BY <1>1, Zenon DEF timer_irq_handler
<1>4. timer_ticks' \in 0 .. (TickMod - 1)
  <2>1. timer_ticks + 1 \in Int /\ TickMod \in Nat /\ TickMod > 0
    BY SchedulerAssumption DEF TaskInv
  <2> QED BY <2>1, <1>3
<1> QED BY <1>2, <1>3, <1>4, CallInv, Zenon

(* The calls of the tasks.                                                 *)
LEMMA SyscallInv ==
    ASSUME TaskInv, sys_yield \/ call_task_create
    PROVE  TaskInv'
<1>1. \E f : /\ f = NewFrame("enter", FALSE) \/ f = NewFrame("alloc", FALSE)
             /\ Call(f) /\ Top.pc = "body"
             /\ UNCHANGED <<listVars, taskVars, current, loadVars, timer_ticks>>
  BY Zenon DEF sys_yield, call_task_create, At, timeVars
<1>2. PICK f : /\ f = NewFrame("enter", FALSE) \/ f = NewFrame("alloc", FALSE)
               /\ Call(f) /\ Top.pc = "body"
               /\ UNCHANGED <<listVars, taskVars, current, loadVars, timer_ticks>>
  BY <1>1, Zenon
<1>3. f \in Frame /\ f.pc \in {"enter", "alloc"} /\ ~f.ifl
  BY <1>2, NewFrames, ZenonT(60) DEF Lines
<1>4. current \in Nodes /\ Top.ifl /\ current # Null
  BY <1>2, AtBody, ListAssumption, Zenon
<1>5. timer_ticks' \in 0 .. (TickMod - 1)
  BY <1>2, Zenon DEF TaskInv
<1> QED BY <1>2, <1>3, <1>4, <1>5, CallInv, Zenon

(* A task that exits is dead, and still runs.                              *)
LEMMA ExitInv ==
    ASSUME TaskInv, sys_exit
    PROVE  TaskInv'
<1>1. Top.pc = "body" /\ current \in Exiters
  BY Zenon DEF sys_exit, At
<1>2. current \in Nodes /\ current # Null /\ Top = Body
  BY <1>1, AtBody, ListAssumption, Zenon
<1>3. /\ tstate' = [tstate EXCEPT ![current] = "zombie"]
      /\ self' = self /\ task_list' = task_list /\ size' = size
      /\ live' = live /\ tss' = tss /\ cr3' = cr3 /\ current' = current
      /\ UNCHANGED listVars /\ timer_ticks' = timer_ticks
  BY Zenon DEF sys_exit, listVars, loadVars, timeVars
<1>4. PICK f : f = NewFrame("enter", FALSE)
  BY Zenon
<1>5. f.pc = "enter"
  BY <1>4, NewFrames, Zenon DEF Lines
<1>6. Stacks' /\ Top' = f
  BY <1>2, <1>4, TaskTypes, ExitStacks, Zenon DEF TaskInv
<1>7. Work = Body /\ Work' = f
  BY <1>2, <1>3, <1>6, Zenon DEF Work
<1>8. \E s : TaskChain(s, Work.pc, Work.t)'
  <2>1. PICK s : TaskChain(s, "body", Body.t)
    BY <1>7, Bases, Zenon DEF TaskInv
  <2>2. PICK t : t = f.t
    BY Zenon
  <2>3. TaskChain(s, "enter", t)'
    BY <2>1, <1>3, ChainPlain
  <2>4. TaskChain(s, Work.pc, Work.t)'
    BY <2>2, <2>3, <1>5, <1>7, Zenon
  <2> QED BY <2>4, Zenon
<1>9. Fields'
  <2>1. tstate \in [Nodes -> {"none", "ready", "zombie"}] /\ Idle \in Nodes /\ live \subseteq Nodes
    BY TaskTypes, Zenon
  <2>2. /\ tstate' \in [Nodes -> {"none", "ready", "zombie"}]
        /\ \A t \in Nodes : tstate'[t] = IF t = current THEN "zombie" ELSE tstate[t]
    BY <2>1, <1>2, <1>3, Zenon
  <2> QED BY <2>1, <2>2, <1>1, <1>3, IdleAssumption, Zenon DEF TaskInv, Fields
<1>10. ListTypeOK'
  BY <1>3, SameTypes, Zenon DEF TaskInv
<1>11. Switched'
  <2>1. Chosen(Body)
    BY <1>2, Zenon DEF TaskInv, Switched
  <2>2. tss = cr3 /\ (cr3 = current \/ (cr3 = Null /\ current = Idle))
    BY <2>1, Bases, Zenon DEF Chosen
  <2>3. Chosen(Top)'
    BY <2>2, <1>3, <1>5, <1>6, Zenon DEF Chosen
  <2> QED BY <2>3, <1>2, <1>3, <1>5, <1>6, Zenon DEF TaskInv, Switched
<1> QED BY <1>2, <1>3, <1>6, <1>8, <1>9, <1>10, <1>11, Zenon DEF TaskInv

(* schedule before task_list is created.                                   *)
LEMMA EarlyInv == TaskInv /\ schedule_early => TaskInv'
<1> SUFFICES ASSUME TaskInv, schedule_early PROVE TaskInv'
  BY Zenon
<1>1. /\ Top.pc = "enter" /\ ~task_list /\ Return
      /\ tstate' = tstate /\ self' = self /\ task_list' = task_list /\ size' = size
      /\ live' = live /\ tss' = tss /\ cr3' = cr3 /\ current' = current
      /\ UNCHANGED listVars /\ timer_ticks' = timer_ticks
  BY Zenon DEF schedule_early, At, taskVars, listVars, loadVars, timeVars
<1>2. current = Null /\ Starting /\ Main.pc = "boot"
  BY <1>1, Zenon DEF TaskInv, Switched, Starting
<1>3. Stacks' /\ Main' = Main
  BY <1>1, <1>2, ReturnStacks, Zenon DEF TaskInv
<1>4. Work = Main /\ Work' = Main
  BY <1>1, <1>2, <1>3, Zenon DEF Work
<1>5. \E s : TaskChain(s, Work.pc, Work.t)'
  <2>1. PICK s : TaskChain(s, Main.pc, Main.t)
    BY <1>4, Zenon DEF TaskInv
  <2>2. PICK pc, t : pc = Main.pc /\ t = Main.t
    BY Zenon
  <2>3. TaskChain(s, pc, t)'
    BY <2>1, <2>2, <1>1, ChainSame, Zenon
  <2>4. TaskChain(s, Work.pc, Work.t)'
    BY <2>2, <2>3, <1>4, Zenon
  <2> QED BY <2>4, Zenon
<1>6. Fields'
  BY <1>1, Zenon DEF TaskInv, Fields
<1>7. ListTypeOK'
  BY <1>1, SameTypes, Zenon DEF TaskInv
<1>8. Starting'
  BY <1>1, <1>2, <1>3, Zenon DEF Starting
<1> QED BY <1>1, <1>2, <1>3, <1>5, <1>6, <1>7, <1>8, Zenon DEF TaskInv

(* The steps of task_create, by kernel_main or by a task.                  *)
LEMMA CreateStacks ==
    ASSUME TaskInv, NEW f \in Frame, Goto(f), current' = current,
           \A t \in Nodes : tstate[t] = "zombie" => tstate'[t] = "zombie",
           Top.pc \in {"boot", "alloc", "link", "publish", "self"}, f.ifl = Top.ifl,
           f.pc \in {"alloc", "link", "publish", "self", "enter"}
    PROVE  /\ Stacks' /\ Top' = f /\ Work = Top /\ Work' = f
           /\ current = Null => Main = Top /\ Main' = f
<1>1. /\ Stacks /\ current \in Pointer /\ Top.pc # "body" /\ Top.pc # "enter"
      /\ f.pc \in Working /\ f.pc \in BootLines
  BY Zenon DEF TaskInv, Working, Scheduling, BootLines
<1>2. Stacks' /\ Top' = f /\ Work = Top /\ Work' = f
  BY <1>1, GotoStacks, Zenon
<1> QED BY <1>2, Zenon DEF Work

(* multitasking_init.                                                      *)
LEMMA MultitaskingInv == TaskInv /\ multitasking_init => TaskInv'
<1> SUFFICES ASSUME TaskInv, multitasking_init PROVE TaskInv'
  BY Zenon
<1>1. PICK f : f = NewFrame("alloc", TRUE)
  BY Zenon
<1>2. f \in Frame /\ f.pc = "alloc" /\ f.ifl = TRUE
  BY <1>1, NewFrames, Zenon DEF Lines
<1>3. /\ Top.pc = "boot" /\ Goto(f) /\ task_list' = TRUE
      /\ tstate' = tstate /\ self' = self /\ size' = size
      /\ live' = live /\ tss' = tss /\ cr3' = cr3 /\ current' = current
      /\ UNCHANGED listVars /\ timer_ticks' = timer_ticks
  BY <1>1, Zenon DEF multitasking_init, At, listVars, loadVars, timeVars
<1>4. current = Null
  BY <1>3, TaskTypes, TaskTop, Bases, Zenon DEF TaskInv, Working, Scheduling
<1>5. Starting /\ Top.ifl = f.ifl
  <2>1. Top.ifl /\ Top \in Frame
    BY <1>3, <1>4, BootTop, Zenon DEF TaskInv
  <2>2. Top.ifl \in BOOLEAN
    BY <2>1, Zenon DEF Frame
  <2> QED BY <2>1, <2>2, <1>2, <1>4, Zenon DEF TaskInv
<1>6. Stacks' /\ Work = Top /\ Work' = f /\ Main = Top /\ Main' = f
  BY <1>2, <1>3, <1>4, <1>5, CreateStacks, Zenon
<1>7. \E s : TaskChain(s, Work.pc, Work.t)'
  <2>1. PICK s : TaskChain(s, "boot", Top.t)
    BY <1>3, <1>6, Zenon DEF TaskInv
  <2>2. PICK t : t = f.t
    BY Zenon
  <2>3. TaskChain(s, "alloc", t)'
    BY <2>1, <1>3, ChainPlain, Zenon
  <2>4. TaskChain(s, Work.pc, Work.t)'
    BY <2>2, <2>3, <1>2, <1>6, Zenon
  <2> QED BY <2>4, Zenon
<1>8. Fields'
  BY <1>3, Zenon DEF TaskInv, Fields
<1>9. ListTypeOK'
  BY <1>3, SameTypes, Zenon DEF TaskInv
<1>10. Starting'
  BY <1>2, <1>3, <1>5, <1>6, Zenon DEF Starting
<1> QED BY <1>3, <1>4, <1>6, <1>7, <1>8, <1>9, <1>10, Zenon DEF TaskInv

(* A new task is allocated: it is not on the list.                         *)
LEMMA AllocInv == TaskInv /\ task_create => TaskInv'
<1> SUFFICES ASSUME TaskInv, task_create PROVE TaskInv'
  BY Zenon
<1>1. PICK t \in Nodes : /\ tstate[t] = "none" /\ (current = Null => t = Idle)
                         /\ tstate' = [tstate EXCEPT ![t] = "ready"]
                         /\ live' = live \cup {t}
                         /\ Goto([Top EXCEPT !.pc = "link", !.t = t])
  BY Zenon DEF task_create
<1>2. /\ Top.pc = "alloc" /\ current' = current /\ self' = self /\ task_list' = task_list
      /\ head' = head /\ tail' = tail /\ size' = size /\ nxt' = nxt /\ prv' = prv
      /\ tss' = tss /\ cr3' = cr3 /\ timer_ticks' = timer_ticks
  BY Zenon DEF task_create, At, timeVars, loadVars
<1>3. PICK f : f = [Top EXCEPT !.pc = "link", !.t = t]
  BY Zenon
<1>4. Top \in Frame
  BY TaskTypes, TaskTop, BootTop, Zenon DEF TaskInv
<1>5. f \in Frame /\ f.pc = "link" /\ f.ifl = Top.ifl /\ f.t = t
  BY <1>3, <1>4, Zenon DEF Frame, Lines, Pointer
<1>6. /\ tstate' \in [Nodes -> {"none", "ready", "zombie"}]
      /\ \A u \in Nodes : tstate'[u] = IF u = t THEN "ready" ELSE tstate[u]
  BY <1>1, TaskTypes, Zenon
<1>7. /\ Stacks' /\ Top' = f /\ Work = Top /\ Work' = f
      /\ current = Null => Main = Top /\ Main' = f
  <2>1. \A u \in Nodes : tstate[u] = "zombie" => tstate'[u] = "zombie"
    BY <1>1, <1>6, Zenon
  <2>2. Goto(f)
    BY <1>1, <1>3, Zenon
  <2> QED BY <2>1, <2>2, <1>2, <1>5, CreateStacks, Zenon
<1>8. t \notin live
  BY <1>1, Zenon DEF TaskInv, Fields
<1>9. \E s : TaskChain(s, Work.pc, Work.t)'
  <2>1. PICK s : TaskChain(s, "alloc", Top.t)
    BY <1>2, <1>7, Zenon DEF TaskInv
  <2>2. /\ Chain(size, s, nxt, prv, live) /\ Ends(size, s, head, tail, nxt, prv)
        /\ \A u \in live : \E k \in 1 .. size : s[k] = u
        /\ size > 0 => s[size] = Idle
        /\ \A k \in 1 .. size : self[s[k]] = s[k] \/ s[k] = Idle
    BY <2>1, Zenon DEF TaskChain, Links
  <2>3. \A k \in 1 .. size : s[k] # t
    BY <2>2, <1>8, SMTT(30) DEF Chain
  <2>4. TaskChain(s, "link", t)'
    BY <2>2, <2>3, <1>1, <1>2, Zenon DEF TaskChain, Links, Chain, Ends
  <2>5. TaskChain(s, Work.pc, Work.t)'
    BY <2>4, <1>5, <1>7, Zenon
  <2> QED BY <2>5, Zenon
<1>10. Fields'
  <2>1. tstate'[Idle] # "zombie"
    BY <1>6, SchedulerAssumption, Zenon DEF TaskInv, Fields
  <2> QED BY <2>1, <1>1, <1>2, <1>6, TaskTypes DEF TaskInv, Fields
<1>11. ListTypeOK'
  BY <1>1, <1>2, Zenon DEF TaskInv, ListTypeOK
<1>12. current = Null => Starting'
  BY <1>1, <1>2, <1>5, <1>6, <1>7, Zenon DEF TaskInv, Starting
<1>13. current # Null => Switched'
  <2>1. current # Null => Chosen(Top)'
    BY <1>2, <1>5, <1>7, Zenon DEF TaskInv, Switched, Chosen
  <2> QED BY <2>1, <1>1, <1>2, <1>5, <1>7, Zenon DEF TaskInv, Switched
<1> QED BY <1>2, <1>7, <1>9, <1>10, <1>11, <1>12, <1>13, Zenon DEF TaskInv

(* The facts the two halves of list_insert_front and t->self have in       *)
(* common: a line of task_create that changes nothing else of the tasks.   *)
LEMMA CreateStep ==
    ASSUME TaskInv, NEW f \in Frame, Goto(f),
           f.ifl = Top.ifl, f.t = Top.t,
           \/ Top.pc = "link" /\ f.pc = "publish" /\ size' = size
           \/ Top.pc = "publish" /\ f.pc = "self" /\ size' = size + 1
           \/ Top.pc = "self" /\ f.pc = "enter" /\ size' = size,
           UNCHANGED <<task_list, tstate, current, live, timer_ticks, tss, cr3>>,
           ListTypeOK', self' \in [Nodes -> Pointer],
           \A t \in Nodes : self'[t] \in {t, Null},
           \E s : TaskChain(s, f.pc, f.t)'
    PROVE  TaskInv'
<1>0. Top.pc \in {"link", "publish", "self"} /\ f.pc \in {"publish", "self", "enter"}
  BY Zenon
<1>1. /\ current' = current /\ tstate' = tstate /\ live' = live /\ task_list' = task_list
      /\ tss' = tss /\ cr3' = cr3 /\ timer_ticks' = timer_ticks
  BY Zenon
<1>2. /\ Stacks' /\ Top' = f /\ Work = Top /\ Work' = f
      /\ current = Null => Main = Top /\ Main' = f
  BY <1>0, <1>1, CreateStacks, Zenon
<1>3. \E s : TaskChain(s, Work.pc, Work.t)'
  <2>1. PICK s : TaskChain(s, f.pc, f.t)'
    BY Zenon
  <2>2. TaskChain(s, Work.pc, Work.t)'
    BY <2>1, <1>2, Zenon
  <2> QED BY <2>2, Zenon
<1>4. Fields'
  BY <1>1, Zenon DEF TaskInv, Fields
<1>5. current = Null => Starting'
  <2>1. SUFFICES ASSUME current = Null PROVE Starting'
    BY Zenon
  <2>2. Main = Top /\ Main' = f /\ Starting
    BY <2>1, <1>2, Zenon DEF TaskInv
  <2>3. Main'.t = Idle /\ task_list
    BY <2>2, <1>0, Zenon DEF Starting
  <2>4. size' = IF f.pc \in {"boot", "alloc", "link", "publish"} THEN 0 ELSE 1
    <3>1. size = IF Top.pc \in {"link", "publish"} THEN 0 ELSE 1
      BY <2>2, <1>0, Zenon DEF Starting
    <3> QED BY <3>1
  <2>5. f.pc # "boot"
    BY <1>0, Zenon
  <2> QED BY <2>2, <2>3, <2>4, <2>5, <1>1 DEF Starting
<1>6. current # Null => Switched'
  <2>1. SUFFICES ASSUME current # Null PROVE Switched'
    BY Zenon
  <2>2. Switched
    BY <2>1, Zenon DEF TaskInv
  <2>3. tss = cr3 /\ (cr3 = current \/ (cr3 = Null /\ current = Idle))
    BY <2>2, Zenon DEF Switched, Chosen
  <2>4. Chosen(Top)'
    BY <2>3, <1>0, <1>1, <1>2, Zenon DEF Chosen
  <2>5. size' > 0
    <3>1. size \in Nat /\ size > 0
      BY <2>2, TaskTypes, Zenon DEF Switched
    <3>2. size' = size \/ size' = size + 1
      BY Zenon
    <3>3. \A n \in Nat : n > 0 => n + 1 > 0
      BY ONLY TRUE
    <3> QED BY <3>1, <3>2, <3>3, Zenon
  <2>6. Top'.t \in Nodes
    BY <2>2, <1>0, <1>2, Zenon DEF Switched
  <2> QED BY <2>2, <2>4, <2>5, <2>6, <1>1 DEF Switched
<1> QED BY <1>1, <1>2, <1>3, <1>4, <1>5, <1>6, Zenon DEF TaskInv

(* What is known of the task being created.                                *)
LEMMA Created ==
    ASSUME TaskInv, Top.pc \in {"link", "publish", "self"}
    PROVE  /\ Top \in Frame /\ Work = Top /\ Top.t \in Nodes
           /\ current = Null => Top.t = Idle
           /\ size = 0 => current = Null /\ Top.pc # "self"
<1>1. CASE current = Null
  <2>1. Top \in Frame /\ Main = Top
    BY <1>1, BootTop, Zenon DEF TaskInv
  <2> QED BY <2>1, <1>1, TaskTypes DEF TaskInv, Starting, Work
<1>2. CASE current # Null
  <2>1. Top \in Frame
    BY <1>2, TaskTypes, TaskTop, Zenon DEF TaskInv
  <2>2. Top.t \in Nodes /\ size > 0
    BY <1>2, Zenon DEF TaskInv, Switched
  <2>3. Work = Top
    BY <1>2, Zenon DEF Work
  <2>4. size # 0
    BY <2>2
  <2> QED BY <2>1, <2>2, <2>3, <2>4, <1>2, Zenon
<1> QED BY <1>1, <1>2, Zenon

(* The new task is linked in front of the list.                            *)
LEMMA LinkInv == TaskInv /\ insert_link => TaskInv'
<1> SUFFICES ASSUME TaskInv, insert_link PROVE TaskInv'
  BY Zenon
<1>1. PICK t, f : t = Top.t /\ f = [Top EXCEPT !.pc = "publish"]
  BY Zenon
<1>2. /\ Top.pc = "link" /\ link_front(t) /\ Goto(f)
      /\ UNCHANGED <<task_list, tstate, current, live, timer_ticks, tss, cr3>>
      /\ head' = head /\ tail' = tail /\ size' = size /\ live' = live /\ self' = self
  BY <1>1, Zenon DEF insert_link, At, taskVars, timeVars, loadVars
<1>3. /\ Top \in Frame /\ Work = Top /\ t \in Nodes
      /\ size = 0 => t = Idle
  BY <1>1, <1>2, Created, Zenon
<1>4. f \in Frame /\ f.pc = "publish" /\ f.ifl = Top.ifl /\ f.t = t
  BY <1>1, <1>3, Zenon DEF Frame, Lines
<1>5. /\ nxt' \in [Nodes -> Pointer] /\ prv' \in [Nodes -> Pointer]
      /\ LinkedFront(t, head, nxt, prv, nxt', prv')
  BY <1>2, <1>3, TaskTypes, LinkFront, Zenon
<1>6. PICK s : TaskChain(s, "link", t)
  BY <1>1, <1>2, <1>3, Zenon DEF TaskInv
<1>7. /\ Chain(size, s, nxt, prv, live) /\ Ends(size, s, head, tail, nxt, prv)
      /\ \A u \in live : (\E k \in 1 .. size : s[k] = u) \/ u = t
      /\ t \in live /\ \A k \in 1 .. size : s[k] # t
      /\ size > 0 => s[size] = Idle
      /\ \A k \in 1 .. size : self[s[k]] = s[k] \/ s[k] = Idle
  BY <1>6, Zenon DEF TaskChain, Links
<1>8. PICK r : r = Prepended(size, s, t)
  BY Zenon
<1>9. /\ Chain(size + 1, r, nxt', prv', live)
      /\ Ends(size + 1, r, t, IF head = Null THEN t ELSE tail, nxt', prv')
  <2>1. PICK lv : lv = live \ {t}
    BY Zenon
  <2>2. Chain(size, s, nxt, prv, lv) /\ t \notin lv /\ lv \cup {t} = live
    <3>1. t \notin lv /\ lv \cup {t} = live /\ \A k \in 1 .. size : s[k] \in live => s[k] \in lv
      BY <2>1, <1>7, Zenon
    <3> QED BY <3>1, <1>7, Zenon DEF Chain
  <2>3. size \in Nat
    BY TaskTypes, Zenon
  <2>4. /\ Chain(size + 1, Prepended(size, s, t), nxt', prv', lv \cup {t})
        /\ Ends(size + 1, Prepended(size, s, t), t, IF head = Null THEN t ELSE tail, nxt', prv')
    BY <2>2, <2>3, <1>3, <1>5, <1>7, ChainPrepend, Zenon
  <2> QED BY <2>2, <2>4, <1>8, Zenon
<1>10. /\ r[1] = t /\ size \in Nat
       /\ \A k \in 1 .. size : k + 1 \in 1 .. (size + 1) /\ r[k + 1] = s[k]
       /\ \A k \in 1 .. (size + 1) : k # 1 => r[k] = s[k - 1] /\ k - 1 \in 1 .. size
  BY <1>8, TaskTypes DEF Prepended
<1>11. \A u \in live : \E k \in 1 .. (size + 1) : r[k] = u
  BY <1>7, <1>10, SMTT(30)
<1>12. r[size + 1] = Idle
  <2>1. CASE size = 0
    BY <2>1, <1>3, <1>10, SMTT(30)
  <2>2. CASE size # 0
    <3>1. size > 0 /\ size \in 1 .. size
      BY <2>2, <1>10
    <3> QED BY <3>1, <1>7, <1>10, Zenon
  <2> QED BY <2>1, <2>2, Zenon
<1>13. \A k \in 1 .. (size + 1) : self[r[k]] = r[k] \/ r[k] = Idle \/ r[k] = t
  BY <1>7, <1>10
<1>14. head = IF size = 0 THEN Null ELSE r[2]
  <2>1. size # 0 => 1 \in 1 .. size /\ size > 0 /\ 1 + 1 = 2
    BY <1>10
  <2>2. size # 0 => r[2] = s[1]
    BY <2>1, <1>10, Zenon
  <2> QED BY <2>1, <2>2, <1>7, Zenon DEF Ends
<1>15. TaskChain(r, "publish", t)'
  <2>1. Links("publish")' = size + 1
    BY <1>2, Zenon DEF Links
  <2>2. Chain(Links("publish"), r, nxt, prv, live)'
    BY <2>1, <1>2, <1>9, Zenon DEF Chain
  <2>3. Ends(size + 1, r, t, IF head = Null THEN t ELSE tail, nxt, prv)'
    BY <1>2, <1>9, Zenon DEF Ends
  <2> QED BY <2>1, <2>2, <2>3, <1>2, <1>11, <1>12, <1>13, <1>14, Zenon DEF TaskChain
<1>16. ListTypeOK' /\ self' \in [Nodes -> Pointer] /\ \A u \in Nodes : self'[u] \in {u, Null}
  BY <1>2, <1>5, TaskTypes, Zenon DEF TaskInv, ListTypeOK, Fields
<1>17. \E s2 : TaskChain(s2, f.pc, f.t)'
  BY <1>4, <1>15, Zenon
<1> QED BY <1>1, <1>2, <1>3, <1>4, <1>16, <1>17, CreateStep, Zenon

(* It becomes the head.                                                    *)
LEMMA PublishInv == TaskInv /\ insert_publish => TaskInv'
<1> SUFFICES ASSUME TaskInv, insert_publish PROVE TaskInv'
  BY Zenon
<1>1. PICK t, f : t = Top.t /\ f = [Top EXCEPT !.pc = "self"]
  BY Zenon
<1>2. /\ Top.pc = "publish" /\ Goto(f)
      /\ head' = t /\ tail' = (IF head = Null THEN t ELSE tail) /\ size' = size + 1
      /\ UNCHANGED <<task_list, tstate, current, live, timer_ticks, tss, cr3>>
      /\ nxt' = nxt /\ prv' = prv /\ live' = live /\ self' = self
  BY <1>1, Zenon DEF insert_publish, publish_front, At, taskVars, timeVars, loadVars
<1>3. Top \in Frame /\ Work = Top /\ t \in Nodes /\ size \in Nat
  BY <1>1, <1>2, Created, TaskTypes, Zenon
<1>4. f \in Frame /\ f.pc = "self" /\ f.ifl = Top.ifl /\ f.t = t
  BY <1>1, <1>3, Zenon DEF Frame, Lines
<1>5. PICK s : TaskChain(s, "publish", t)
  BY <1>1, <1>2, <1>3, Zenon DEF TaskInv
<1>6. /\ Chain(size + 1, s, nxt, prv, live)
      /\ Ends(size + 1, s, t, IF head = Null THEN t ELSE tail, nxt, prv)
      /\ \A u \in live : \E k \in 1 .. (size + 1) : s[k] = u
      /\ size + 1 > 0 => s[size + 1] = Idle
      /\ \A k \in 1 .. (size + 1) : self[s[k]] = s[k] \/ s[k] = Idle \/ s[k] = t
  BY <1>5, Zenon DEF TaskChain, Links
<1>7. TaskChain(s, "self", t)'
  <2>1. Links("self")' = size'
    BY Zenon DEF Links
  <2>2. Chain(Links("self"), s, nxt, prv, live)'
    BY <2>1, <1>2, <1>6, Zenon DEF Chain
  <2>3. Ends(size, s, head, tail, nxt, prv)'
    BY <1>2, <1>6, Zenon DEF Ends
  <2> QED BY <2>1, <2>2, <2>3, <1>2, <1>6, Zenon DEF TaskChain
<1>8. ListTypeOK' /\ self' \in [Nodes -> Pointer] /\ \A u \in Nodes : self'[u] \in {u, Null}
  BY <1>2, <1>3, TaskTypes, SMTT(30) DEF TaskInv, ListTypeOK, Fields
<1>9. \E s2 : TaskChain(s2, f.pc, f.t)'
  BY <1>4, <1>7, Zenon
<1> QED BY <1>1, <1>2, <1>3, <1>4, <1>8, <1>9, CreateStep, Zenon

(* It is told its node.                                                    *)
LEMMA SelfInv == TaskInv /\ set_self => TaskInv'
<1> SUFFICES ASSUME TaskInv, set_self PROVE TaskInv'
  BY Zenon
<1>1. PICK t, f : t = Top.t /\ f = [Top EXCEPT !.pc = "enter"]
  BY Zenon
<1>2. /\ Top.pc = "self" /\ Goto(f) /\ self' = [self EXCEPT ![t] = t]
      /\ UNCHANGED <<task_list, tstate, current, live, timer_ticks, tss, cr3>>
      /\ UNCHANGED listVars
      /\ head' = head /\ tail' = tail /\ size' = size
      /\ nxt' = nxt /\ prv' = prv /\ live' = live
  BY <1>1, Zenon DEF set_self, At, listVars, timeVars, loadVars
<1>3. Top \in Frame /\ Work = Top /\ t \in Nodes /\ size \in Nat /\ size # 0
  BY <1>1, <1>2, Created, TaskTypes, Zenon
<1>4. f \in Frame /\ f.pc = "enter" /\ f.ifl = Top.ifl /\ f.t = t
  BY <1>1, <1>3, Zenon DEF Frame, Lines
<1>5. PICK s : TaskChain(s, "self", t)
  BY <1>1, <1>2, <1>3, Zenon DEF TaskInv
<1>6. /\ Chain(size, s, nxt, prv, live) /\ Ends(size, s, head, tail, nxt, prv)
      /\ \A u \in live : \E k \in 1 .. size : s[k] = u
      /\ size > 0 => s[size] = Idle
      /\ \A k \in 1 .. size : self[s[k]] = s[k] \/ s[k] = Idle \/ s[k] = t
  BY <1>5, Zenon DEF TaskChain, Links
<1>7. /\ self' \in [Nodes -> Pointer]
      /\ \A u \in Nodes : self'[u] = IF u = t THEN t ELSE self[u]
  BY <1>2, <1>3, TaskTypes, Zenon
<1>8. \A k \in 1 .. size : self'[s[k]] = s[k] \/ s[k] = Idle
  <2>1. \A k \in 1 .. size : s[k] \in Nodes
    BY <1>6, Zenon DEF Chain
  <2> QED BY <2>1, <1>6, <1>7, Zenon
<1>9. TaskChain(s, "enter", t)'
  <2>1. Links("enter")' = size
    BY <1>2, Zenon DEF Links
  <2>2. Chain(Links("enter"), s, nxt, prv, live)'
    BY <2>1, <1>2, <1>6, Zenon DEF Chain
  <2>3. Ends(size, s, head, tail, nxt, prv)'
    BY <1>2, <1>6, Zenon DEF Ends
  <2> QED BY <2>1, <2>2, <2>3, <1>2, <1>6, <1>8, Zenon DEF TaskChain
<1>10. ListTypeOK' /\ \A u \in Nodes : self'[u] \in {u, Null}
  BY <1>2, <1>7, SameTypes, Zenon DEF TaskInv, Fields
<1>11. \E s2 : TaskChain(s2, f.pc, f.t)'
  BY <1>4, <1>9, Zenon
<1> QED BY <1>1, <1>2, <1>3, <1>4, <1>7, <1>10, <1>11, CreateStep, Zenon

-----------------------------------------------------------------------------

(* kernel_main starts with no tasks.                                       *)
LEMMA TaskInvInit == Init => TaskInv
<1> SUFFICES ASSUME Init PROVE TaskInv
  BY Zenon
<1>1. /\ head = Null /\ tail = Null /\ size = 0 /\ live = {}
      /\ task_list = FALSE /\ current = Null /\ tss = Null /\ cr3 = Null /\ timer_ticks = 0
      /\ tstate = [t \in Nodes |-> "none"] /\ self = [t \in Nodes |-> Null]
      /\ stack = [th \in Pointer |-> <<NewFrame(IF th = Null THEN "boot" ELSE "body", TRUE)>>]
  BY Zenon DEF Init, ListInit
<1>2. PICK f : f = NewFrame("boot", TRUE) /\ f \in Frame /\ f.pc = "boot" /\ f.ifl = TRUE
  BY NewFrames, Zenon DEF Lines
<1>3. Null \in Pointer /\ Null \notin Nodes /\ Nodes \subseteq Pointer /\ Idle \in Nodes
  BY ListAssumption, SchedulerAssumption, Zenon DEF Pointer
<1>4. /\ stack \in [Pointer -> Seq(Frame)] /\ stack[Null] = <<f>>
      /\ \A t \in Nodes : stack[t] = <<Body>>
  <2>1. stack = [th \in Pointer |-> IF th = Null THEN <<f>> ELSE <<Body>>]
    BY <1>1, <1>2, Zenon DEF Body
  <2>2. <<f>> \in Seq(Frame) /\ <<Body>> \in Seq(Frame)
    <3>1. \A S : \A a \in S : <<a>> \in Seq(S)
      OBVIOUS
    <3> QED BY <3>1, <1>2, Bases, Zenon
  <2> QED BY <2>1, <2>2, <1>3, Zenon
<1>5. Main = f
  BY <1>4 DEF Main
<1>6. Stacks
  <2>1. BootStack
    BY <1>2, <1>4, <1>5, Zenon DEF BootStack, BootLines
  <2>2. \A t \in Nodes : TaskStack(t, IF t = current THEN Working ELSE {"switched"})
    BY <1>4, Zenon DEF TaskStack
  <2> QED BY <1>4, <2>1, <2>2, Zenon DEF Stacks
<1>7. Work = f
  BY <1>1, <1>5, Zenon DEF Work
<1>8. \E s : TaskChain(s, Work.pc, Work.t)
  <2>1. PICK s : s = [k \in 1 .. 0 |-> Null]
    BY Zenon
  <2>2. Chain(0, s, nxt, prv, live) /\ Ends(0, s, head, tail, nxt, prv) /\ 1 .. 0 = {}
    BY <2>1, <1>1, SMTT(30) DEF Chain, Ends
  <2>3. Links("boot") = 0
    BY <1>1, Zenon DEF Links
  <2>4. TaskChain(s, "boot", f.t)
    <3>1. size = 0 /\ live = {} /\ ~(0 > 0)
      BY <1>1
    <3>2. "boot" # "publish" /\ "boot" # "link" /\ "boot" \notin {"publish", "self"}
      BY Zenon
    <3> QED BY <2>2, <2>3, <3>1, <3>2, Zenon DEF TaskChain
  <2> QED BY <2>4, <1>2, <1>7, Zenon
<1>9. Fields
  BY <1>1, <1>3, Zenon DEF Fields
<1>10. Starting
  BY <1>1, <1>2, <1>5, Zenon DEF Starting
<1>11. ListTypeOK
  BY <1>3, Zenon DEF Init, ListInit, ListTypeOK
<1>12. current \in Pointer /\ timer_ticks \in 0 .. (TickMod - 1)
  BY <1>1, <1>3, SchedulerAssumption
<1> QED BY <1>1, <1>6, <1>8, <1>9, <1>10, <1>11, <1>12, Zenon DEF TaskInv

(* A step of none of the tasks' state keeps the invariant.                 *)
LEMMA StopInv ==
    ASSUME TaskInv, UNCHANGED <<listVars, taskVars, current, stack, timeVars, loadVars>>
    PROVE  TaskInv'
<1>1. /\ current' = current /\ tstate' = tstate /\ live' = live /\ task_list' = task_list
      /\ tss' = tss /\ cr3' = cr3 /\ timer_ticks' = timer_ticks /\ stack' = stack
      /\ self' = self /\ size' = size /\ UNCHANGED listVars
  BY Zenon DEF taskVars, timeVars, loadVars, listVars
<1>2. Top' = Top /\ Main' = Main /\ Work' = Work
  BY <1>1, Zenon DEF Top, Main, Work
<1>3. Stacks'
  BY <1>1, <1>2, Zenon DEF TaskInv, Stacks, TaskStack, BootStack
<1>4. \E s : TaskChain(s, Work.pc, Work.t)'
  <2>1. PICK s, pc, t : TaskChain(s, pc, t) /\ pc = Work.pc /\ t = Work.t
    BY Zenon DEF TaskInv
  <2>2. TaskChain(s, pc, t)'
    BY <2>1, <1>1, ChainSame, Zenon
  <2>3. TaskChain(s, Work.pc, Work.t)'
    BY <2>1, <2>2, <1>2, Zenon
  <2> QED BY <2>3, Zenon
<1>5. Fields' /\ ListTypeOK'
  BY <1>1, SameTypes, Zenon DEF TaskInv, Fields
<1>6. current = Null => Starting'
  BY <1>1, <1>2, Zenon DEF TaskInv, Starting
<1>7. current # Null => Switched'
  BY <1>1, <1>2, Zenon DEF TaskInv, Switched, Chosen
<1> QED BY <1>1, <1>3, <1>4, <1>5, <1>6, <1>7, Zenon DEF TaskInv

(* Every step of every thread, and every interrupt, keeps the invariant.   *)
LEMMA TaskInvNext ==
    ASSUME TaskInv, [Next]_vars
    PROVE  TaskInv'
<1>1. CASE multitasking_init \/ task_create \/ insert_link \/ insert_publish \/ set_self
  BY <1>1, MultitaskingInv, AllocInv, LinkInv, PublishInv, SelfInv, Zenon
<1>2. CASE schedule_early \/ schedule_first \/ schedule_enter \/ pick_next \/ task_destroy
  BY <1>2, EarlyInv, FirstInv, EnterInv, PickInv, DestroyInv, Zenon
<1>3. CASE account \/ account_prev \/ tss_set_stack \/ switch_page_directory \/ switch_to_next
  BY <1>3, AccountInv, LoadInv, SwitchInv, Zenon
<1>4. CASE timer_irq_handler \/ sys_yield \/ sys_exit \/ call_task_create
  BY <1>4, TimerInv, SyscallInv, ExitInv, Zenon
<1>5. CASE schedule_none \/ pick_freed
  BY <1>5, StopInv, Zenon DEF schedule_none, pick_freed, Stop
<1>6. CASE UNCHANGED vars
  BY <1>6, StopInv, Zenon DEF vars
<1> QED BY <1>1, <1>2, <1>3, <1>4, <1>5, <1>6, Zenon DEF Next, Step, Halted

(* schedule and task_destroy never free the running task, the stack in the *)
(* TSS or the directory in CR3, whatever the tasks and whenever the timer  *)
(* ticks: whoever it switches to has not been freed.                       *)
THEOREM TasksRunOnLiveMemory == Spec => []RunsOnLiveMemory
<1>1. TaskInv => RunsOnLiveMemory
  <2> SUFFICES ASSUME TaskInv PROVE {current, cr3, tss} \subseteq live \cup {Null}
    BY Zenon DEF RunsOnLiveMemory
  <2>1. CASE current = Null
    BY <2>1, Zenon DEF TaskInv, Starting
  <2>2. CASE current # Null
    <3>1. current \in live /\ Chosen(Top)
      BY <2>2, Zenon DEF TaskInv, Switched
    <3>2. cr3 \in live \cup {Null}
      BY <3>1, Zenon DEF Chosen
    <3>3. tss \in live \cup {Null}
      BY <3>1, <3>2, Zenon DEF Chosen
    <3> QED BY <3>1, <3>2, <3>3, Zenon
  <2> QED BY <2>1, <2>2, Zenon
<1>2. TaskInv /\ [Next]_vars => TaskInv'
  BY TaskInvNext, Zenon
<1> QED BY <1>1, <1>2, TaskInvInit, PTL DEF Spec

(* A task runs its own code with its own stack in the TSS and its own      *)
(* directory in CR3, or with the kernel's if it is the first task before   *)
(* its first switch.                                                       *)
THEOREM TasksRunInOwnContext == Spec => []OwnContext
<1>1. TaskInv => OwnContext
  <2> SUFFICES ASSUME TaskInv, Top.pc = "body"
               PROVE  tss = cr3 /\ (cr3 = current \/ (cr3 = Null /\ current = Idle))
    BY Zenon DEF OwnContext, At
  <2>1. current # Null
    BY AtBody, ListAssumption, Zenon
  <2>2. Chosen(Top)
    BY <2>1, Zenon DEF TaskInv, Switched
  <2> QED BY <2>2, Zenon DEF Chosen
<1>2. TaskInv /\ [Next]_vars => TaskInv'
  BY TaskInvNext, Zenon
<1> QED BY <1>1, <1>2, TaskInvInit, PTL DEF Spec

=============================================================================
