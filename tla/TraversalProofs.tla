-------------------------- MODULE TraversalProofs --------------------------
(***************************************************************************)
(* What a foreach loop finds in the list of list.c: the nodes of a well    *)
(* formed list, in order, whatever the operations were; and every task, in *)
(* the list of the scheduler.  The sum of the times charged to the tasks   *)
(* is here as well, because it needs the same facts about finite sets.     *)
(***************************************************************************)
EXTENDS SchedulerProofs, ListRefinement, FiniteSetTheorems, WellFoundedInduction, TLAPS

(* walk is what the first k rounds of a foreach loop behind h go through.  *)
Walks(walk, k, h, nx) ==
    /\ walk \in [0 .. k -> Nodes]
    /\ walk[0] = h
    /\ \A j \in 0 .. (k - 1) : walk[j + 1] = nx[walk[j]]

(* foreach stays on the list: its k-th round is at the k-th node.  Were it *)
(* elsewhere, there would be a first round to go wrong.                    *)
LEMMA ForeachOnList ==
    ASSUME NEW m \in Nat, NEW s, NEW nx, NEW pv, NEW lv, NEW h, NEW t,
           Chain(m, s, nx, pv, lv), Ends(m, s, h, t, nx, pv),
           NEW k \in Nat, k < m, NEW walk, Walks(walk, k, h, nx)
    PROVE  walk[k] = s[k + 1]
<1> DEFINE Wrong == {j \in 0 .. k : walk[j] # s[j + 1]}
<1>1. SUFFICES ASSUME Wrong # {} PROVE FALSE
  OBVIOUS
<1>2. Wrong \subseteq Nat
  OBVIOUS
<1>3. PICK j \in Wrong : \A x \in Wrong : ~(<<x, j>> \in OpToRel(<, Nat))
  <2> HIDE DEF Wrong
  <2> QED BY <1>1, <1>2, NatLessThanWellFounded, WFMin, Zenon
<1>4. \A x \in Wrong : ~(x < j)
  BY <1>2, <1>3, Zenon DEF OpToRel
<1>5. j # 0
  <2>1. walk[0] = s[1]
    BY DEF Ends, Walks
  <2> QED BY <2>1
<1>6. j \in 1 .. k /\ j - 1 \in 0 .. (k - 1) /\ j - 1 \in 0 .. k /\ (j - 1) + 1 = j
      /\ j \in 1 .. (m - 1)
  BY <1>5
<1>7. walk[j - 1] = s[j]
  <2>1. j - 1 \notin Wrong
    BY <1>4, <1>6
  <2> QED BY <2>1, <1>6, Zenon
<1>8. walk[j] = nx[s[j]]
  <2>1. walk[(j - 1) + 1] = nx[walk[j - 1]]
    BY <1>6, Zenon DEF Walks
  <2> QED BY <2>1, <1>6, <1>7, Zenon
<1>9. nx[s[j]] = s[j + 1]
  BY <1>6, Zenon DEF Chain
<1> QED BY <1>8, <1>9, Zenon

(* What an operation makes of the nodes s[1], ..., s[m] of the list.       *)
Changed(m, s, r) ==
    \/ r = s
    \/ \E n \in Nodes : /\ \A k \in 1 .. m : s[k] # n
                        /\ r = Prepended(m, s, n) \/ r = Appended(m, s, n)
    \/ \E i \in 1 .. m : r = Removed(m, s, i)

(* An operation that is no misuse keeps the invariant, and adds or takes   *)
(* away at most one node.                                                  *)
LEMMA ListStep ==
    ASSUME LInv, ListNext, ~misused'
    PROVE  LInv' /\ \E s, r : IsList(s) /\ IsList(r)' /\ Changed(size, s, r)
<1>0. size \in Nat
  BY Types, Zenon
<1>s. PICK s : IsList(s)
  BY Unfold, Zenon DEF LInv
<1>e. size = 0 => head = Null
  BY <1>s, Zenon DEF IsList, Ends
<1>n. \A k \in 1 .. size : s[k] \in live
  BY <1>s, Zenon DEF IsList, Chain
<1>u. UNCHANGED listVars => LInv' /\ IsList(s)' /\ Changed(size, s, s)
  <2>1. SUFFICES ASSUME UNCHANGED listVars PROVE LInv' /\ IsList(s)'
    BY Zenon DEF Changed
  <2>2. LInv'
    BY <2>1, Zenon DEF LInv, listVars, ListTypeOK, Sound, Represents
  <2>3. IsList(s)'
    BY <2>1, <1>s, Zenon DEF listVars, IsList, Chain, Ends
  <2> QED BY <2>2, <2>3, Zenon
<1>1. CASE InsertFront
  <2>1. PICK n \in Nodes : list_insert_front(n)
    BY <1>1, Zenon DEF InsertFront
  <2>2. PICK r : r = Prepended(size, s, n)
    BY Zenon
  <2>3. LInv' /\ IsList(r)'
    BY <2>1, <2>2, <1>s, InsertFrontInv, Zenon
  <2>4. n \notin live
    BY <2>1, Zenon DEF list_insert_front
  <2>5. Changed(size, s, r)
    BY <2>2, <2>4, <1>n, Zenon DEF Changed
  <2> QED BY <2>3, <2>5, <1>s, Zenon
<1>2. CASE InsertBack
  <2>1. PICK n \in Nodes : list_insert_back(n)
    BY <1>2, Zenon DEF InsertBack
  <2>2. PICK r : r = Appended(size, s, n)
    BY Zenon
  <2>3. LInv' /\ IsList(r)'
    BY <2>1, <2>2, <1>s, <1>2, InsertBackInv, Zenon DEF InsertBack
  <2>4. n \notin live
    BY <2>1, Zenon DEF list_insert_back
  <2>5. Changed(size, s, r)
    BY <2>2, <2>4, <1>n, Zenon DEF Changed
  <2> QED BY <2>3, <2>5, <1>s, Zenon
<1>3. CASE RemoveFront
  <2>1. CASE size = 0
    BY <2>1, <1>3, <1>e, <1>u, <1>s, Zenon DEF RemoveFront, list_remove_front
  <2>2. CASE size # 0
    <3>1. PICK r : r = Removed(size, s, 1)
      BY Zenon
    <3>2. size > 0 /\ 1 \in 1 .. size
      BY <2>2, <1>0
    <3>3. LInv' /\ IsList(r)'
      BY <3>1, <3>2, <1>s, <1>3, RemoveFrontInv, Zenon DEF RemoveFront
    <3>4. Changed(size, s, r)
      BY <3>1, <3>2, Zenon DEF Changed
    <3> QED BY <3>3, <3>4, <1>s, Zenon
  <2> QED BY <2>1, <2>2, Zenon
<1>4. CASE RemoveBack \/ Pop
  <2>1. CASE size = 0
    BY <2>1, <1>4, <1>e, <1>u, <1>s, Zenon DEF RemoveBack, list_remove_back, Pop, list_pop
  <2>2. CASE size # 0
    <3>0. size # 1
      BY <1>4, Zenon DEF RemoveBack, Pop
    <3>1. size > 1 /\ size \in 1 .. size
      BY <2>2, <3>0, <1>0
    <3>2. head # Null
      <4>1. head = s[1] /\ s[1] \in Nodes
        BY <3>1, <1>0, <1>s DEF IsList, Chain, Ends
      <4> QED BY <4>1, ListAssumption, Zenon
    <3>3. unlink_back /\ live' \in {live, live \ {tail}}
      BY <3>2, <1>4, Zenon DEF RemoveBack, list_remove_back, Pop, list_pop
    <3>4. PICK r : r = Removed(size, s, size)
      BY Zenon
    <3>5. LInv' /\ IsList(r)'
      BY <3>1, <3>3, <3>4, <1>s, UnlinkBackInv, Zenon
    <3>6. Changed(size, s, r)
      BY <3>1, <3>4, Zenon DEF Changed
    <3> QED BY <3>5, <3>6, <1>s, Zenon
  <2> QED BY <2>1, <2>2, Zenon
<1>6. CASE Destroy
  <2>1. PICK n \in live : ~Linked(n) /\ listnode_destroy(n)
    BY <1>6, Zenon DEF Destroy
  <2>2. s \in [1 .. size -> Nodes] /\ Represents(s)
    BY <1>s, Zenon DEF IsList, Represents, Chain, Ends
  <2>3. \A k \in 1 .. size : s[k] # n
    BY <2>1, <2>2, Zenon DEF Linked
  <2>4. /\ live' = live \ {n} /\ head' = head /\ tail' = tail /\ size' = size
        /\ nxt' = nxt /\ prv' = prv
    BY <2>1, Zenon DEF listnode_destroy
  <2>5. Chain(size', s, nxt', prv', live') /\ Ends(size', s, head', tail', nxt', prv')
    BY <1>s, <2>3, <2>4, Zenon DEF IsList, Chain, Ends
  <2>6. IsList(s)' /\ Sound'
    BY <2>5, Fold, Zenon
  <2>7. ListTypeOK'
    BY <2>4, Zenon DEF LInv, ListTypeOK
  <2> QED BY <2>6, <2>7, <1>s, Zenon DEF LInv, Changed
<1>7. CASE \E i \in 1 .. size : \E q : IsList(q) /\ list_remove_node(q[i])
  <2>0. PICK i \in 1 .. size : \E q : IsList(q) /\ list_remove_node(q[i])
    BY <1>7, Zenon
  <2>1. PICK q : IsList(q) /\ list_remove_node(q[i])
    BY <2>0, Zenon
  <2>2. PICK r : r = Removed(size, q, i)
    BY Zenon
  <2>3. LInv' /\ IsList(r)'
    BY <2>1, <2>2, RemoveNodeInv, Zenon
  <2>4. Changed(size, q, r)
    BY <2>2, Zenon DEF Changed
  <2> QED BY <2>1, <2>3, <2>4, Zenon
<1>0n. ASSUME list_remove_node(Null), size = 0
       PROVE  LInv' /\ IsList(s)' /\ Changed(size, s, s)
  BY <1>0n, <1>e, <1>u, Zenon DEF list_remove_node, list_remove_front
<1>8. CASE RemoveNode
  <2>0. PICK n \in Pointer :
          /\ n = Null \/ Linked(n)
          /\ list_remove_node(n)
          /\ misused' = (n = Null /\ size > 0)
    BY <1>8, Zenon DEF RemoveNode
  <2>c. CASE n = Null
    <3>0. ~(size > 0)
      BY <2>0, <2>c, Zenon
    <3>1. size = 0
      BY <3>0, <1>0
    <3> QED BY <2>0, <2>c, <3>1, <1>0n, <1>s, Zenon
  <2>1. SUFFICES ASSUME n # Null PROVE \E i \in 1 .. size : \E q : IsList(q) /\ list_remove_node(q[i])
    BY <2>c, <1>7, Zenon
  <2>2. PICK r \in [1 .. size -> Nodes] : Represents(r) /\ n \in {r[k] : k \in 1 .. size}
    BY <2>0, <2>1, Zenon DEF Linked
  <2>3. PICK i \in 1 .. size : n = r[i]
    BY <2>2, Zenon
  <2>4. IsList(r)
    BY <2>2, Zenon DEF Represents, IsList, Chain, Ends
  <2> QED BY <2>0, <2>3, <2>4, Zenon
<1>9. CASE RemoveByIndex
  <2>a. PICK index \in 0 .. size :
          list_remove_by_index(index) /\ misused' = (index = size /\ size > 0)
    BY <1>9, Zenon DEF RemoveByIndex
  <2>b. PICK n \in Pointer : list_get_node_by_index(index, n) /\ list_remove_node(n)
    BY <2>a, Zenon DEF list_remove_by_index
  <2>c. CASE ~(index < size)
    <3>0. ~(index = size /\ size > 0)
      BY <2>a, Zenon
    <3>1. size = 0
      BY <3>0, <2>c, <1>0
    <3>2. n = Null
      BY <2>b, <2>c, Zenon DEF list_get_node_by_index
    <3> QED BY <2>b, <3>1, <3>2, <1>0n, <1>s, Zenon
  <2>d. SUFFICES ASSUME index < size PROVE list_remove_node(s[index + 1]) /\ index + 1 \in 1 .. size
    BY <2>c, <1>s, <1>7, Zenon
  <2>1. foreach_at(index, n) /\ list_remove_node(n)
    BY <2>b, <2>d, Zenon DEF list_get_node_by_index
  <2>2. PICK walk \in [0 .. index -> Nodes] :
          /\ walk[0] = head
          /\ \A j \in 0 .. (index - 1) : walk[j + 1] = nxt[walk[j]]
          /\ walk[index] = n
    BY <2>1, Zenon DEF foreach_at
  <2>3. index \in Nat /\ index < size /\ index + 1 \in 1 .. size
    BY <1>0, <2>d
  <2>4. walk[index] = s[index + 1]
    <3>1. Walks(walk, index, head, nxt)
      BY <2>2, Zenon DEF Walks
    <3>2. Chain(size, s, nxt, prv, live) /\ Ends(size, s, head, tail, nxt, prv) /\ size \in Nat
      BY <1>0, <1>s, Zenon DEF IsList
    <3> QED BY <2>3, <3>1, <3>2, ForeachOnList
  <2>5. list_remove_node(s[index + 1])
    BY <2>1, <2>2, <2>4, Zenon
  <2> QED BY <2>3, <2>5, Zenon
<1> QED BY <1>1, <1>2, <1>3, <1>4, <1>6, <1>8, <1>9, Zenon DEF ListNext

(* Removing NULL from a list with nodes breaks it: the size is one too     *)
(* small for its tail, wherever the store through NULL->prev went.         *)
LEMMA NullBreaks ==
    ASSUME LInv, size > 0, list_remove_node(Null)
    PROVE  ~Sound'
<1>0. size \in Nat /\ nxt \in [Nodes -> Pointer] /\ Null \notin Nodes
  BY Types, Zenon
<1>1. PICK s : IsList(s)
  BY Unfold, Zenon DEF LInv
<1>2. /\ Chain(size, s, nxt, prv, live) /\ Ends(size, s, head, tail, nxt, prv)
      /\ s \in [1 .. size -> Nodes]
  BY <1>1, Zenon DEF IsList, Chain
<1>3. head = s[1] /\ tail = s[size] /\ s[1] \in Nodes /\ s[size] \in Nodes
  BY <1>0, <1>2 DEF Ends
<1>4. PICK p \in Pointer : /\ nxt' = Store(nxt, p, Null)
                           /\ size' = size - 1 /\ head' = head /\ tail' = tail
  BY <1>0, <1>3, Zenon DEF list_remove_node, unlink_null
<1>5. SUFFICES ASSUME Sound' PROVE FALSE
  OBVIOUS
<1>6. PICK r \in [1 .. (size - 1) -> Nodes] :
        /\ \A k \in 1 .. ((size - 1) - 1) : nxt'[r[k]] = r[k + 1]
        /\ size - 1 = 0 => head = Null
        /\ size - 1 > 0 => head = r[1] /\ tail = r[size - 1]
  BY <1>4, <1>5, Zenon DEF Sound, Represents
<1>7. CASE size = 1
  BY <1>3, <1>6, <1>7, <1>0
<1>8. CASE size # 1
  <2>1. PICK k \in Nat : k = size - 2
    BY <1>8, <1>0
  <2>2. k < size /\ k + 1 = size - 1 /\ k + 1 \in 1 .. size /\ k + 1 # size /\ size \in 1 .. size
        /\ size - 1 > 0
    BY <2>1, <1>0
  <2>3. PICK walk : walk = [j \in 0 .. k |-> r[j + 1]]
    BY Zenon
  <2>4. \A j \in 0 .. k : j + 1 \in 1 .. (size - 1)
    BY <2>1, <1>0
  <2>5. walk \in [0 .. k -> Nodes] /\ walk[0] = head /\ walk[k] = r[size - 1]
    <3>1. 0 \in 0 .. k /\ k \in 0 .. k /\ 0 + 1 = 1
      BY <2>1
    <3> QED BY <3>1, <2>2, <2>3, <2>4, <1>6, Zenon
  <2>6. ASSUME NEW j \in 0 .. (k - 1) PROVE walk[j + 1] = nxt[walk[j]]
    <3>1. j + 1 \in 1 .. ((size - 1) - 1) /\ j \in 0 .. k /\ j + 1 \in 0 .. k
      BY <2>1, <1>0
    <3>2. nxt'[r[j + 1]] = r[(j + 1) + 1] /\ r[j + 1] \in Nodes /\ r[(j + 1) + 1] \in Nodes
      BY <3>1, <2>4, <1>6, Zenon
    <3>3. nxt'[r[j + 1]] = nxt[r[j + 1]]
      BY <3>2, <1>0, <1>4, Zenon DEF Store
    <3> QED BY <3>1, <3>2, <3>3, <2>3, Zenon
  <2>7. Walks(walk, k, head, nxt)
    BY <2>5, <2>6, Zenon DEF Walks
  <2>8. walk[k] = s[k + 1]
    BY <1>0, <1>2, <2>2, <2>7, ForeachOnList
  <2>9. s[k + 1] = s[size]
    BY <2>2, <2>5, <2>8, <1>3, <1>6, Zenon
  <2> QED BY <2>2, <2>9, <1>2, Zenon DEF Chain
<1> QED BY <1>7, <1>8, Zenon

(* Each misuse breaks a sound list.                                        *)
LEMMA MisuseBreaks ==
    ASSUME LInv, ~misused, ListNext, misused'
    PROVE  ~Sound'
<1>0. size \in Nat /\ Null \notin Nodes /\ prv \in [Nodes -> Pointer]
  BY Types, Zenon
<1>s. PICK s : IsList(s)
  BY Unfold, Zenon DEF LInv
<1>1. size = 0 => head = Null
  BY <1>s, Zenon DEF IsList, Ends
<1>2. size # 0 => head \in Nodes
  BY <1>s, <1>0 DEF IsList, Chain, Ends
<1>3. CASE InsertBack
  <2>1. PICK n \in Nodes : list_insert_back(n)
    BY <1>3, Zenon DEF InsertBack
  <2>2. size = 0 /\ tail # Null
    BY <1>3, Zenon DEF InsertBack
  <2>3. size' = 1 /\ head' = n /\ prv'[n] = tail
    BY <2>1, <2>2, <1>0, <1>1 DEF list_insert_back
  <2>4. Sound' => prv'[head'] = Null
    BY <2>3 DEF Sound, Represents
  <2> QED BY <2>2, <2>3, <2>4, Zenon
<1>4. CASE RemoveBack \/ Pop
  <2>1. size = 1
    BY <1>4, Zenon DEF RemoveBack, Pop
  <2>2. head # Null
    BY <2>1, <1>0, <1>2
  <2>3. size' = size - 1 /\ head' = head
    BY <2>2, <1>4, Zenon DEF RemoveBack, Pop, list_remove_back, list_pop, unlink_back
  <2>4. size' = 0
    BY <2>1, <2>3
  <2> QED BY <2>2, <2>3, <2>4, Zenon DEF Sound, Represents
<1>5. CASE RemoveNode
  <2>1. list_remove_node(Null) /\ size > 0
    BY <1>5, Zenon DEF RemoveNode
  <2> QED BY <2>1, NullBreaks, Zenon
<1>6. CASE RemoveByIndex
  <2>1. PICK index \in 0 .. size :
          list_remove_by_index(index) /\ misused' = (index = size /\ size > 0)
    BY <1>6, Zenon DEF RemoveByIndex
  <2>0. index = size /\ size > 0
    BY <2>1, Zenon
  <2>2. index = size /\ size > 0 /\ ~(index < size)
    BY <2>0, <1>0
  <2>3. list_remove_node(Null)
    BY <2>1, <2>2, Zenon DEF list_remove_by_index, list_get_node_by_index
  <2> QED BY <2>2, <2>3, NullBreaks, Zenon
<1>7. ~InsertFront /\ ~RemoveFront /\ ~Destroy
  BY Zenon DEF InsertFront, RemoveFront, Destroy
<1> QED BY <1>3, <1>4, <1>5, <1>6, <1>7, Zenon DEF ListNext

(* The invariant of the list and of the record of its misuse.              *)
UseInv == IF misused THEN misused = TRUE /\ ~Sound ELSE misused = FALSE /\ LInv

(* Every step keeps it.                                                    *)
LEMMA UseInvNext ==
    ASSUME UseInv, [ListNext]_listSpecVars
    PROVE  UseInv'
<1>1. CASE ListNext
  <2>1. ~misused /\ LInv
    BY <1>1, Zenon DEF ListNext, UseInv
  <2>2. misused' \in BOOLEAN
    BY <1>1, <2>1, Zenon DEF ListNext, UseInv, InsertFront, InsertBack, RemoveFront, RemoveBack,
                             Pop, Destroy, RemoveNode, RemoveByIndex
  <2>3. CASE misused'
    BY <1>1, <2>1, <2>2, <2>3, MisuseBreaks, Zenon DEF UseInv
  <2>4. CASE ~misused'
    BY <1>1, <2>1, <2>2, <2>4, ListStep, Zenon DEF UseInv
  <2> QED BY <2>3, <2>4, Zenon
<1>2. CASE UNCHANGED listSpecVars
  <2>1. /\ head' = head /\ tail' = tail /\ size' = size /\ nxt' = nxt /\ prv' = prv
        /\ live' = live /\ misused' = misused
    BY <1>2, Zenon DEF listSpecVars, listVars
  <2>2. Sound' <=> Sound
    BY <2>1 DEF Sound, Represents
  <2>3. ListTypeOK' <=> ListTypeOK
    BY <2>1, Zenon DEF ListTypeOK
  <2> QED BY <2>1, <2>2, <2>3, Zenon DEF UseInv, LInv
<1> QED BY <1>1, <1>2, Zenon

(* list_create makes an empty list, for which the invariant holds.         *)
LEMMA InitInv == ListInit => LInv
<1> SUFFICES ASSUME ListInit PROVE LInv
  BY Zenon
<1>1. ListTypeOK
  BY Zenon DEF ListInit, ListTypeOK, Pointer
<1>2. size = 0 /\ head = Null /\ tail = Null
  BY Zenon DEF ListInit
<1>3. PICK s : s = [k \in 1 .. 0 |-> Null]
  BY Zenon
<1>4. s \in [1 .. size -> Nodes] /\ Represents(s)
  BY <1>2, <1>3 DEF Represents
<1> QED BY <1>1, <1>2, <1>4, Zenon DEF LInv, Sound

(* Whatever the nodes and whatever the order of the calls, a list of       *)
(* list.c is sound exactly as long as no caller took the last node away at *)
(* the back, inserted at the back of an emptied list or removed NULL: no   *)
(* other operation uses a pointer to a freed node, and each of these       *)
(* leaves a broken list.                                                   *)
THEOREM ListIsWellFormed == ListSpecification => []WellFormed
<1>1. ListSpecInit => UseInv
  BY InitInv, Zenon DEF UseInv, ListSpecInit
<1>2. UseInv => WellFormed
  BY Zenon DEF UseInv, WellFormed, LInv
<1>3. UseInv /\ [ListNext]_listSpecVars => UseInv'
  BY UseInvNext, Zenon
<1> QED BY <1>1, <1>2, <1>3, PTL DEF ListSpecification

(* The traversal of a chain is unique: a loop that follows nx from h meets *)
(* the nodes of the chain in order and stops behind the last one.          *)
LEMMA OneTraversal ==
    ASSUME NEW m \in Nat, NEW s, NEW nx, NEW pv, NEW lv, NEW h, NEW t,
           Chain(m, s, nx, pv, lv), Ends(m, s, h, t, nx, pv),
           NEW n \in Nat, NEW u \in [1 .. n -> Nodes],
           n = 0 => h = Null,
           n > 0 => u[1] = h /\ nx[u[n]] = Null,
           \A k \in 1 .. (n - 1) : u[k + 1] = nx[u[k]]
    PROVE  u = s
<1>0. s \in [1 .. m -> Nodes] /\ Null \notin Nodes
  BY ListAssumption, Zenon DEF Chain
<1>1. ASSUME NEW k \in Nat, k < m, k < n PROVE u[k + 1] = s[k + 1]
  <2>1. PICK walk : walk = [j \in 0 .. k |-> u[j + 1]]
    BY Zenon
  <2>2. \A j \in 0 .. k : j + 1 \in 1 .. n
    BY <1>1
  <2>3. walk \in [0 .. k -> Nodes] /\ walk[0] = h /\ walk[k] = u[k + 1]
    <3>1. 0 \in 0 .. k /\ k \in 0 .. k /\ 0 + 1 = 1 /\ n > 0
      BY <1>1
    <3> QED BY <3>1, <2>1, <2>2, Zenon
  <2>4. ASSUME NEW j \in 0 .. (k - 1) PROVE walk[j + 1] = nx[walk[j]]
    <3>1. j + 1 \in 1 .. (n - 1) /\ j \in 0 .. k /\ j + 1 \in 0 .. k
      BY <1>1
    <3>2. u[(j + 1) + 1] = nx[u[j + 1]]
      BY <3>1, Zenon
    <3> QED BY <3>1, <3>2, <2>1, Zenon
  <2>5. Walks(walk, k, h, nx)
    BY <2>3, <2>4, Zenon DEF Walks
  <2>6. walk[k] = s[k + 1]
    BY <1>1, <2>5, ForeachOnList
  <2> QED BY <2>3, <2>6, Zenon
<1>2. ASSUME n < m PROVE FALSE
  <2>1. CASE n = 0
    <3>1. h = s[1] /\ 1 \in 1 .. m
      BY <1>2, <2>1 DEF Ends
    <3> QED BY <3>1, <2>1, <1>0
  <2>2. CASE n # 0
    <3>1. n - 1 \in Nat /\ n - 1 < m /\ n - 1 < n /\ (n - 1) + 1 = n /\ n \in 1 .. (m - 1)
          /\ n + 1 \in 1 .. m /\ n > 0
      BY <1>2, <2>2
    <3>2. u[(n - 1) + 1] = s[(n - 1) + 1]
      BY <3>1, <1>1, Zenon
    <3>3. nx[s[n]] = s[n + 1] /\ s[n + 1] \in Nodes
      BY <3>1, <1>0, Zenon DEF Chain
    <3> QED BY <3>1, <3>2, <3>3, <1>0, Zenon
  <2> QED BY <2>1, <2>2, Zenon
<1>3. ASSUME m < n PROVE FALSE
  <2>1. CASE m = 0
    <3>1. h = Null /\ 1 \in 1 .. n /\ n > 0
      BY <1>3, <2>1 DEF Ends
    <3> QED BY <3>1, <1>0, Zenon
  <2>2. CASE m # 0
    <3>1. m - 1 \in Nat /\ m - 1 < m /\ m - 1 < n /\ (m - 1) + 1 = m /\ m \in 1 .. (n - 1)
          /\ m + 1 \in 1 .. n /\ m > 0
      BY <1>3, <2>2
    <3>2. u[(m - 1) + 1] = s[(m - 1) + 1]
      BY <3>1, <1>1, Zenon
    <3>3. nx[s[m]] = Null
      BY <3>1, Zenon DEF Ends
    <3>4. u[m + 1] = nx[u[m]] /\ u[m + 1] \in Nodes
      BY <3>1, Zenon
    <3> QED BY <3>1, <3>2, <3>3, <3>4, <1>0, Zenon
  <2> QED BY <2>1, <2>2, Zenon
<1>4. n = m
  BY <1>2, <1>3
<1>5. ASSUME NEW k \in 1 .. m PROVE u[k] = s[k]
  <2>1. k - 1 \in Nat /\ k - 1 < m /\ k - 1 < n /\ (k - 1) + 1 = k
    BY <1>4
  <2>2. u[(k - 1) + 1] = s[(k - 1) + 1]
    BY <2>1, <1>1, Zenon
  <2> QED BY <2>1, <2>2, Zenon
<1> QED BY <1>0, <1>4, <1>5

(* A function on 1 .. m is a sequence.                                     *)
LEMMA Sequence ==
    ASSUME NEW S, NEW m \in Nat, NEW s \in [1 .. m -> S]
    PROVE  s \in Seq(S) /\ Len(s) = m /\ DOMAIN s = 1 .. m /\ (s = <<>> <=> m = 0)
<1>1. s \in Seq(S) /\ Len(s) = m /\ DOMAIN s = 1 .. m
  OBVIOUS
<1>2. s = <<>> => m = 0
  BY <1>1, Zenon
<1>3. m = 0 => s = <<>>
  BY <1>1
<1> QED BY <1>1, <1>2, <1>3, Zenon

(* A list has no more nodes than there are.                                *)
LEMMA ChainBound ==
    ASSUME IsFiniteSet(Nodes), NEW m \in Nat, NEW s, NEW nx, NEW pv, NEW lv,
           Chain(m, s, nx, pv, lv)
    PROVE  m <= Cardinality(Nodes) /\ Cardinality(Nodes) \in Nat
<1>1. IsFiniteSet(1 .. m) /\ Cardinality(1 .. m) = m
  BY FS_Interval
<1>2. s \in Injection(1 .. m, Nodes)
  BY Zenon DEF Chain, Injection, IsInjective
<1>3. Cardinality(1 .. m) <= Cardinality(Nodes)
  BY <1>1, <1>2, FS_Injection, Zenon
<1> QED BY <1>1, <1>3, FS_CardinalityType, Zenon

(* What foreach visits is the list.                                        *)
LEMMA TraversalIs ==
    IsFiniteSet(Nodes) => \A s : size \in Nat /\ IsList(s) => Traversal = s
<1> SUFFICES ASSUME IsFiniteSet(Nodes), NEW s, size \in Nat, IsList(s) PROVE Traversal = s
  BY Zenon
<1> DEFINE All == UNION {[1 .. n -> Nodes] : n \in 0 .. Cardinality(Nodes)}
<1>1. Chain(size, s, nxt, prv, live) /\ Ends(size, s, head, tail, nxt, prv)
      /\ s \in [1 .. size -> Nodes]
  BY Zenon DEF IsList, Chain
<1>2. size \in 0 .. Cardinality(Nodes)
  <2>1. size <= Cardinality(Nodes) /\ Cardinality(Nodes) \in Nat
    BY <1>1, ChainBound, Zenon
  <2> QED BY <2>1
<1>3. s \in All
  BY <1>1, <1>2, Zenon
<1>4. IsTraversal(s)
  <2>1. Len(s) = size /\ (s = <<>> <=> size = 0)
    BY <1>1, Sequence, Zenon
  <2>2. CASE size = 0
    BY <2>1, <2>2, <1>1, Zenon DEF IsTraversal, Ends
  <2>3. CASE size # 0
    <3>1. size > 0 /\ s # <<>>
      BY <2>1, <2>3
    <3>2. s[1] = head /\ nxt[s[size]] = Null
      BY <3>1, <1>1, Zenon DEF Ends
    <3>3. \A k \in 1 .. (size - 1) : s[k + 1] = nxt[s[k]]
      BY <1>1, Zenon DEF Chain
    <3> QED BY <2>1, <3>1, <3>2, <3>3, Zenon DEF IsTraversal
  <2> QED BY <2>2, <2>3, Zenon
<1>5. ASSUME NEW u \in All, IsTraversal(u) PROVE u = s
  <2>1. PICK n \in 0 .. Cardinality(Nodes) : u \in [1 .. n -> Nodes]
    BY Zenon
  <2>2. n \in Nat
    OBVIOUS
  <2>3. Len(u) = n /\ (u = <<>> <=> n = 0)
    BY <2>1, <2>2, Sequence, Zenon
  <2>4. n = 0 => head = Null
    BY <2>3, <1>5, Zenon DEF IsTraversal
  <2>5. n > 0 => u[1] = head /\ nxt[u[n]] = Null
    BY <2>3, <1>5 DEF IsTraversal
  <2>6. \A k \in 1 .. (n - 1) : u[k + 1] = nxt[u[k]]
    BY <2>2, <2>3, <1>5 DEF IsTraversal
  <2> QED BY <1>1, <2>1, <2>2, <2>4, <2>5, <2>6, OneTraversal
<1> HIDE DEF All
<1>6. (CHOOSE u \in All : IsTraversal(u)) = s
  BY <1>3, <1>4, <1>5, Zenon
<1> QED BY <1>6, Zenon DEF Traversal, All

(* What the operations do to the chain, as operations on sequences.        *)
LEMMA Shapes ==
    ASSUME NEW m \in Nat, NEW s \in [1 .. m -> Nodes]
    PROVE  /\ \A n \in Nodes : Prepended(m, s, n) = <<n>> \o s
           /\ \A n \in Nodes : Appended(m, s, n) = Append(s, n)
           /\ \A i \in 1 .. m : Removed(m, s, i) = SubSeq(s, 1, i - 1) \o SubSeq(s, i + 1, Len(s))
<1>0. s \in Seq(Nodes) /\ Len(s) = m
  BY Sequence, Zenon
<1>1. ASSUME NEW n \in Nodes PROVE Prepended(m, s, n) = <<n>> \o s
  <2> DEFINE q == <<n>> \o s
             r == Prepended(m, s, n)
  <2>1. q \in Seq(Nodes) /\ Len(q) = m + 1
        /\ \A k \in 1 .. (m + 1) : q[k] = IF k = 1 THEN n ELSE s[k - 1]
    BY <1>0
  <2>2. r \in [1 .. (m + 1) -> Nodes] /\ \A k \in 1 .. (m + 1) : r[k] = IF k = 1 THEN n ELSE s[k - 1]
    BY DEF Prepended
  <2> HIDE DEF q, r
  <2>3. q \in [1 .. (m + 1) -> Nodes]
    BY <2>1
  <2>4. q = r
    BY <2>1, <2>2, <2>3
  <2> QED BY <2>4, Zenon DEF q, r
<1>2. ASSUME NEW n \in Nodes PROVE Appended(m, s, n) = Append(s, n)
  <2> DEFINE q == Append(s, n)
             r == Appended(m, s, n)
  <2>1. q \in Seq(Nodes) /\ Len(q) = m + 1
        /\ \A k \in 1 .. (m + 1) : q[k] = IF k = m + 1 THEN n ELSE s[k]
    BY <1>0
  <2>2. r \in [1 .. (m + 1) -> Nodes] /\ \A k \in 1 .. (m + 1) : r[k] = IF k = m + 1 THEN n ELSE s[k]
    BY DEF Appended
  <2> HIDE DEF q, r
  <2>3. q \in [1 .. (m + 1) -> Nodes]
    BY <2>1
  <2>4. q = r
    BY <2>1, <2>2, <2>3
  <2> QED BY <2>4, Zenon DEF q, r
<1>3. ASSUME NEW i \in 1 .. m
      PROVE  Removed(m, s, i) = SubSeq(s, 1, i - 1) \o SubSeq(s, i + 1, Len(s))
  <2> DEFINE a == SubSeq(s, 1, i - 1)
             b == SubSeq(s, i + 1, m)
             q == a \o b
             r == Removed(m, s, i)
  <2>1. a \in Seq(Nodes) /\ Len(a) = i - 1 /\ \A k \in 1 .. (i - 1) : a[k] = s[k]
    BY <1>0
  <2>2. b \in Seq(Nodes) /\ Len(b) = m - i /\ \A k \in 1 .. (m - i) : b[k] = s[k + i]
    BY <1>0
  <2>3. /\ r \in [1 .. (m - 1) -> Nodes]
        /\ \A k \in 1 .. (m - 1) : r[k] = IF k < i THEN s[k] ELSE s[k + 1]
    BY DEF Removed
  <2> HIDE DEF a, b, r
  <2>4. /\ q \in Seq(Nodes) /\ Len(q) = m - 1
        /\ \A k \in 1 .. (m - 1) : q[k] = IF k <= i - 1 THEN a[k] ELSE b[k - (i - 1)]
    <3>1. q \in Seq(Nodes) /\ Len(q) = Len(a) + Len(b)
      BY <2>1, <2>2
    <3>2. \A k \in 1 .. (Len(a) + Len(b)) :
            q[k] = IF k <= Len(a) THEN a[k] ELSE b[k - Len(a)]
      BY <2>1, <2>2
    <3>3. Len(a) + Len(b) = m - 1
      BY <2>1, <2>2
    <3> HIDE DEF q
    <3> QED BY <3>1, <3>2, <3>3, <2>1, Zenon
  <2> HIDE DEF q
  <2>5. ASSUME NEW k \in 1 .. (m - 1) PROVE q[k] = r[k]
    <3>1. CASE k < i
      <4>1. k \in 1 .. (i - 1) /\ k <= i - 1
        BY <3>1
      <4> QED BY <4>1, <3>1, <2>1, <2>3, <2>4, Zenon
    <3>2. CASE ~(k < i)
      <4>1. k - (i - 1) \in 1 .. (m - i) /\ ~(k <= i - 1) /\ (k - (i - 1)) + i = k + 1
        BY <3>2
      <4>2. b[k - (i - 1)] = s[(k - (i - 1)) + i]
        BY <4>1, <2>2, Zenon
      <4> QED BY <4>1, <4>2, <3>2, <2>3, <2>4, Zenon
    <3> QED BY <3>1, <3>2, Zenon
  <2>6. q \in [1 .. (m - 1) -> Nodes]
    BY <2>4
  <2>7. q = r
    BY <2>3, <2>5, <2>6
  <2> QED BY <2>7, <1>0, Zenon DEF a, b, q, r
<1> QED BY <1>1, <1>2, <1>3, Zenon

(* Every operation on one list, until the first misuse, is an operation of *)
(* the abstract list, for a heap of any size: the pointer code implements  *)
(* a sequence.  (list_merge and list_destroy, which end a list and which   *)
(* only tree.c calls, are not among the operations.)                       *)
THEOREM ListImplementsSequence ==
    ASSUME IsFiniteSet(Nodes)
    PROVE  ListSpecification => IsAbstractList
<1>1. ListInit => Traversal = <<>>
  <2> SUFFICES ASSUME ListInit PROVE Traversal = <<>>
    BY Zenon
  <2>1. size = 0 /\ head = Null
    BY Zenon DEF ListInit
  <2>2. PICK s : s = [k \in 1 .. 0 |-> Null]
    BY Zenon
  <2>3. IsList(s) /\ s \in [1 .. 0 -> Nodes]
    BY <2>1, <2>2 DEF IsList, Chain, Ends
  <2>4. Traversal = s
    BY <2>1, <2>3, TraversalIs, Zenon
  <2> QED BY <2>3, <2>4, Sequence
<1>2. UseInv /\ [ListNext]_listSpecVars => UseInv'
  BY UseInvNext, Zenon
<1>3. (IsFiniteSet(Nodes) => \A s : size \in Nat /\ IsList(s) => Traversal = s)'
  BY TraversalIs, PTL
<1>4. ASSUME LInv, ListNext, ~misused'
      PROVE  Traversal' = Traversal \/ Abstract!Insert \/ Abstract!Delete
  <2>0. ~misused
    BY <1>4, Zenon DEF ListNext
  <2>1. PICK s, r : LInv' /\ IsList(s) /\ IsList(r)' /\ Changed(size, s, r)
    BY <1>4, ListStep, Zenon
  <2>2. size \in Nat /\ size' \in Nat
    BY <1>4, <2>1, Zenon DEF LInv, ListTypeOK
  <2>3. Traversal = s
    BY <2>1, <2>2, TraversalIs, Zenon
  <2>4. Traversal' = r
    BY <2>1, <2>2, <1>3, Zenon
  <2>5. s \in [1 .. size -> Nodes]
    BY <2>1, Zenon DEF IsList, Chain
  <2>6. DOMAIN s = 1 .. size
    BY <2>2, <2>5, Sequence, Zenon
  <2>7. CASE r = s
    BY <2>3, <2>4, <2>7, Zenon
  <2>8. ASSUME NEW n \in Nodes, \A k \in 1 .. size : s[k] # n,
               r = Prepended(size, s, n) \/ r = Appended(size, s, n)
        PROVE  Abstract!Insert
    <3>1. r \in {<<n>> \o s, Append(s, n)}
      BY <2>2, <2>5, <2>8, Shapes, Zenon
    <3> QED BY <3>1, <2>3, <2>4, <2>6, <2>8, <2>0, <1>4, Zenon DEF Abstract!Insert
  <2>9. ASSUME NEW i \in 1 .. size, r = Removed(size, s, i)
        PROVE  Abstract!Delete
    <3>1. r = SubSeq(s, 1, i - 1) \o SubSeq(s, i + 1, Len(s))
      BY <2>2, <2>5, <2>9, Shapes, Zenon
    <3> QED BY <3>1, <2>3, <2>4, <2>6, <2>0, <1>4, Zenon DEF Abstract!Delete
  <2> QED BY <2>1, <2>7, <2>8, <2>9, Zenon DEF Changed
<1>5. UseInv /\ [ListNext]_listSpecVars =>
        [Abstract!Insert \/ Abstract!Delete \/ Abstract!Misuse]_<<IF misused THEN <<>> ELSE Traversal, ~misused>>
  <2> SUFFICES ASSUME UseInv, [ListNext]_listSpecVars
               PROVE  \/ Abstract!Insert \/ Abstract!Delete \/ Abstract!Misuse
                      \/ UNCHANGED <<IF misused THEN <<>> ELSE Traversal, ~misused>>
    BY Zenon
  <2>1. CASE ListNext /\ misused'
    BY <2>1, Zenon DEF ListNext, Abstract!Misuse
  <2>2. CASE ListNext /\ ~misused'
    <3>1. LInv /\ misused = FALSE /\ misused' = FALSE
      BY <2>2, UseInvNext, Zenon DEF UseInv, ListNext
    <3>2. Traversal' = Traversal \/ Abstract!Insert \/ Abstract!Delete
      BY <2>2, <3>1, <1>4, Zenon
    <3>3. (IF misused THEN <<>> ELSE Traversal) = Traversal
      BY <3>1, Zenon
    <3>4. (IF misused THEN <<>> ELSE Traversal)' = Traversal'
      BY <3>1, Zenon
    <3>5. (~misused)' = ~misused
      BY <3>1, Zenon
    <3> QED BY <3>2, <3>3, <3>4, <3>5, Zenon
  <2>3. CASE UNCHANGED listSpecVars
    <3>1. misused' = misused /\ head' = head /\ nxt' = nxt
      BY <2>3, Zenon DEF listSpecVars, listVars
    <3>2. Traversal' = Traversal
      BY <3>1 DEF Traversal, IsTraversal
    <3> QED BY <3>1, <3>2, Zenon
  <2> QED BY <2>1, <2>2, <2>3, Zenon
<1>6. ListSpecInit => UseInv
  BY InitInv, Zenon DEF UseInv, ListSpecInit
<1>7. ListSpecInit => (IF misused THEN <<>> ELSE Traversal) = <<>> /\ (~misused) = TRUE
  BY <1>1, Zenon DEF ListSpecInit
<1> QED BY <1>2, <1>5, <1>6, <1>7, PTL DEF ListSpecification, IsAbstractList, Abstract!Spec

(* foreach gets to the k-th node behind h in k rounds.                     *)
LEMMA Reached ==
    ASSUME IsFiniteSet(Nodes), NEW m \in Nat, NEW s, NEW d \in {0, 1},
           Chain(m, s, nxt, prv, live), NEW k \in Nat, k + 1 + d <= m, head = s[1 + d]
    PROVE  Reachable(s[k + 1 + d])
<1>1. /\ s \in [1 .. m -> Nodes] /\ \A i, j \in 1 .. m : s[i] = s[j] => i = j
      /\ \A j \in 1 .. (m - 1) : nxt[s[j]] = s[j + 1]
  BY Zenon DEF Chain
<1>2. m <= Cardinality(Nodes) /\ Cardinality(Nodes) \in Nat
  <2>1. IsFiniteSet(1 .. m) /\ Cardinality(1 .. m) = m
    BY FS_Interval
  <2>2. s \in Injection(1 .. m, Nodes)
    BY <1>1, Zenon DEF Injection, IsInjective
  <2>3. Cardinality(1 .. m) <= Cardinality(Nodes)
    BY <2>1, <2>2, FS_Injection, Zenon
  <2> QED BY <2>1, <2>3, FS_CardinalityType, Zenon
<1>3. k \in 0 .. (Cardinality(Nodes) - 1)
  BY <1>2
<1>4. PICK walk : walk = [j \in 0 .. k |-> s[j + 1 + d]]
  BY Zenon
<1>5. \A j \in 0 .. k : j + 1 + d \in 1 .. m
  OBVIOUS
<1>6. walk \in [0 .. k -> Nodes] /\ walk[0] = head /\ walk[k] = s[k + 1 + d]
  <2>1. 0 + 1 + d = 1 + d /\ 0 \in 0 .. k /\ k \in 0 .. k
    OBVIOUS
  <2> QED BY <2>1, <1>1, <1>4, <1>5, Zenon
<1>7. ASSUME NEW j \in 0 .. (k - 1) PROVE walk[j + 1] = nxt[walk[j]]
  <2>1. j \in 0 .. k /\ j + 1 \in 0 .. k /\ j + 1 + d \in 1 .. (m - 1)
        /\ (j + 1 + d) + 1 = (j + 1) + 1 + d
    OBVIOUS
  <2>2. nxt[s[j + 1 + d]] = s[(j + 1) + 1 + d]
    BY <2>1, <1>1, Zenon
  <2> QED BY <2>1, <2>2, <1>4, Zenon
<1>8. foreach_at(k, s[k + 1 + d])
  BY <1>6, <1>7, Zenon DEF foreach_at
<1> QED BY <1>3, <1>8, Zenon DEF Reachable

(* A task is on task_list, where schedule finds it, from the moment        *)
(* list_insert_front is done until task_destroy frees it.                  *)
THEOREM TasksAreNeverLost ==
    ASSUME IsFiniteSet(Nodes)
    PROVE  Spec => []NoTaskLost
<1>1. TaskInv => NoTaskLost
  <2> SUFFICES ASSUME TaskInv, NEW t \in live, ~Reachable(t)
               PROVE  \E th \in Pointer : \E k \in DOMAIN stack[th] :
                          stack[th][k].t = t /\ stack[th][k].pc \in {"link", "publish"}
    BY Zenon DEF NoTaskLost
  <2>0. size \in Nat /\ current \in Pointer /\ (current # Null => current \in Nodes)
    BY TaskTypes, Zenon
  <2>1. PICK s : TaskChain(s, Work.pc, Work.t)
    BY Zenon DEF TaskInv
  <2>2. Work.t = t /\ Work.pc \in {"link", "publish"}
    <3>1. CASE \E k \in 1 .. Links(Work.pc) : s[k] = t
      <4>1. PICK k \in 1 .. Links(Work.pc) : s[k] = t
        BY <3>1, Zenon
      <4>2. CASE Work.pc # "publish"
        <5>1. Chain(size, s, nxt, prv, live) /\ Ends(size, s, head, tail, nxt, prv)
              /\ k \in 1 .. size
          BY <2>1, <4>1, <4>2, Zenon DEF TaskChain, Links
        <5>2. head = s[1 + 0]
          BY <5>1, <2>0 DEF Ends
        <5>3. k - 1 \in Nat /\ (k - 1) + 1 + 0 <= size /\ (k - 1) + 1 + 0 = k
          BY <5>1, <2>0
        <5>4. Reachable(s[(k - 1) + 1 + 0])
          BY <5>1, <5>2, <5>3, <2>0, Reached, Zenon
        <5> QED BY <5>3, <5>4, <4>1, Zenon
      <4>3. CASE Work.pc = "publish"
        <5>1. /\ Chain(size + 1, s, nxt, prv, live) /\ k \in 1 .. (size + 1)
              /\ Ends(size + 1, s, Work.t, IF head = Null THEN Work.t ELSE tail, nxt, prv)
              /\ head = IF size = 0 THEN Null ELSE s[2]
          BY <2>1, <4>1, <4>3, Zenon DEF TaskChain, Links
        <5>2. s[1] = Work.t
          <6>1. size + 1 > 0
            BY <2>0
          <6> QED BY <5>1, <6>1, Zenon DEF Ends
        <5>3. CASE k = 1
          BY <5>2, <5>3, <4>1, <4>3, Zenon
        <5>4. CASE k # 1
          <6>1. k - 2 \in Nat /\ (k - 2) + 1 + 1 <= size + 1 /\ (k - 2) + 1 + 1 = k
                /\ size + 1 \in Nat /\ size # 0 /\ 1 + 1 = 2
            BY <5>1, <5>4, <2>0
          <6>2. head = s[1 + 1]
            BY <5>1, <6>1, Zenon
          <6>3. Reachable(s[(k - 2) + 1 + 1])
            BY <5>1, <6>1, <6>2, Reached, Zenon
          <6> QED BY <6>1, <6>3, <4>1, Zenon
        <5> QED BY <5>3, <5>4, Zenon
      <4> QED BY <4>2, <4>3, Zenon
    <3>2. CASE ~\E k \in 1 .. Links(Work.pc) : s[k] = t
      BY <3>2, <2>1, Zenon DEF TaskChain
    <3> QED BY <3>1, <3>2, Zenon
  <2>3. CASE current = Null
    <3>1. Main = Work
      BY <2>3, Zenon DEF Work
    <3>2. \E k \in DOMAIN stack[Null] : stack[Null][k] = Main
      <4>1. \/ stack[Null] = <<Top>> /\ Main = Top
            \/ stack[Null] = <<Top, Main>>
        BY <2>3, BootTop, Zenon DEF TaskInv
      <4>2. CASE stack[Null] = <<Top>> /\ Main = Top
        <5>1. 1 \in DOMAIN stack[Null] /\ stack[Null][1] = Main
          BY <4>2
        <5> QED BY <5>1, Zenon
      <4>3. CASE stack[Null] = <<Top, Main>>
        <5>1. 2 \in DOMAIN stack[Null] /\ stack[Null][2] = Main
          BY <4>3
        <5> QED BY <5>1, Zenon
      <4> QED BY <4>1, <4>2, <4>3, Zenon
    <3>3. Null \in Pointer
      BY Zenon DEF Pointer
    <3> QED BY <3>1, <3>2, <3>3, <2>2, Zenon
  <2>4. CASE current # Null
    <3>1. Top = Work /\ current \in Pointer /\ current \in Nodes
      BY <2>4, <2>0, Zenon DEF Work
    <3>2. stack[current] \in Seq(Frame) /\ stack[current] # <<>> /\ Top = stack[current][1]
      <4>1. \/ stack[current] = <<Body>>
            \/ stack[current] = <<Top, Body>>
            \/ stack[current] = <<Top, Spin, Body>>
        BY <3>1, TaskTop, Zenon DEF TaskInv
      <4>2. stack[current] # <<>>
        BY <4>1, NotEmpty, Zenon
      <4>3. stack \in [Pointer -> Seq(Frame)]
        BY Zenon DEF TaskInv, Stacks
      <4>4. stack[current] \in Seq(Frame)
        BY <4>3, <3>1, Zenon
      <4> QED BY <4>2, <4>4 DEF Top
    <3>3. 1 \in DOMAIN stack[current]
      BY <3>2
    <3> QED BY <3>1, <3>2, <3>3, <2>2, Zenon
  <2> QED BY <2>3, <2>4, Zenon
<1>2. TaskInv /\ [Next]_vars => TaskInv'
  BY TaskInvNext, Zenon
<1> QED BY <1>1, <1>2, TaskInvInit, PTL DEF Spec

-----------------------------------------------------------------------------

(* The element a sum over S takes first, and what is left of S.            *)
First(S) == CHOOSE x \in S : TRUE
Others(S) == S \ {First(S)}

(* One round of the sum, and the sum over every subset of Nodes.           *)
Adds(f, g, S) == IF S = {} THEN 0 ELSE f[First(S)] + g[Others(S)]
Sums(f) == CHOOSE g : g = [S \in SUBSET Nodes |-> Adds(f, g, S)]

(* The sum that FiniteSetsExt defines.                                     *)
LEMMA TotalIsSum ==
    ASSUME NEW f
    PROVE  MapThenSumSet(LAMBDA t : f[t], Nodes) = Sums(f)[Nodes]
BY Zenon DEF MapThenSumSet, MapThenFoldSet, Sums, Adds, First, Others

(* A set of naturals has a least element.                                  *)
LEMMA LeastNatural ==
    ASSUME NEW A \in SUBSET Nat, A # {}
    PROVE  \E n \in A : \A m \in A : n <= m
<1>1. PICK n \in A : \A x \in A : ~(<<x, n>> \in OpToRel(<, Nat))
  BY NatLessThanWellFounded, WFMin, Zenon
<1>2. \A m \in A : ~(m < n)
  BY <1>1, Zenon DEF OpToRel
<1> QED BY <1>2

(* A nonempty set has one element more than the Others.                    *)
LEMMA OneLess ==
    ASSUME IsFiniteSet(Nodes), NEW S \in SUBSET Nodes, S # {}
    PROVE  /\ First(S) \in S /\ First(S) \in Nodes
           /\ Others(S) \in SUBSET Nodes
           /\ Cardinality(S) \in Nat \ {0}
           /\ Cardinality(Others(S)) = Cardinality(S) - 1
<1>1. First(S) \in S
  BY Zenon DEF First
<1>2. IsFiniteSet(S)
  BY FS_Subset, Zenon
<1>3. Cardinality(S) \in Nat /\ Cardinality(S) # 0
  BY <1>2, FS_CardinalityType, FS_EmptySet, Zenon
<1>4. Cardinality(Others(S)) = Cardinality(S) - 1
  BY <1>1, <1>2, FS_RemoveElement, Zenon DEF Others
<1> QED BY <1>1, <1>3, <1>4, Zenon DEF Others

(* A set of sets that has the empty one, and every one whose Others it     *)
(* has, has all: one it has not would leave a smallest one.                *)
LEMMA SubsetsByElement ==
    ASSUME IsFiniteSet(Nodes), NEW Q, {} \in Q,
           \A S \in SUBSET Nodes : S # {} /\ Others(S) \in Q => S \in Q
    PROVE  SUBSET Nodes \subseteq Q
<1> DEFINE Wrong == {Cardinality(S) : S \in (SUBSET Nodes) \ Q}
<1>1. SUFFICES ASSUME (SUBSET Nodes) \ Q # {} PROVE FALSE
  BY Zenon
<1>2. Wrong # {}
  BY <1>1
<1>3. Wrong \in SUBSET Nat
  BY FS_Subset, FS_CardinalityType
<1>4. PICK n \in Wrong : \A m \in Wrong : n <= m
  <2> HIDE DEF Wrong
  <2> QED BY <1>2, <1>3, LeastNatural, Zenon
<1>5. PICK S \in (SUBSET Nodes) \ Q : n = Cardinality(S)
  BY <1>4, Zenon
<1>6. S # {}
  BY <1>5, Zenon
<1>7. Cardinality(Others(S)) \in Wrong
  BY <1>5, <1>6, OneLess, Zenon
<1>8. n <= n - 1 /\ n \in Nat
  BY <1>4, <1>5, <1>6, <1>7, OneLess, Zenon
<1> QED BY <1>8

(* The sums over the sets of up to n elements exist, for every n, so the   *)
(* sum over every set is what it takes from Adds.                          *)
LEMMA SumsExist ==
    ASSUME IsFiniteSet(Nodes), NEW f
    PROVE  \A S \in SUBSET Nodes : Sums(f)[S] = Adds(f, Sums(f), S)
<1> DEFINE Upto(n) == {S \in SUBSET Nodes : Cardinality(S) <= n}
           Wrong == {n \in Nat : ~\E g : g = [S \in Upto(n) |-> Adds(f, g, S)]}
<1>1. ASSUME Wrong # {} PROVE FALSE
  <2>1. PICK n \in Wrong : \A m \in Wrong : n <= m
    <3>1. Wrong \in SUBSET Nat
      BY Zenon
    <3> HIDE DEF Wrong
    <3> QED BY <1>1, <3>1, LeastNatural, Zenon
  <2>2. n # 0
    <3>1. ASSUME n = 0 PROVE FALSE
      <4>1. \A S \in Upto(n) : S = {}
        BY <3>1, OneLess
      <4>2. \A g, S : S \in Upto(n) => Adds(f, g, S) = 0
        BY <4>1, Zenon DEF Adds
      <4> DEFINE z == [S \in Upto(n) |-> 0]
      <4>3. z = [S \in Upto(n) |-> Adds(f, z, S)]
        <5> HIDE DEF Upto
        <5> QED BY <4>2, Zenon
      <4> QED BY <4>3, <2>1, Zenon
    <3> QED BY <3>1, Zenon
  <2>3. n \in Nat /\ n - 1 \in Nat /\ ~(n <= n - 1)
    BY <2>1, <2>2
  <2>4. n - 1 \notin Wrong
    BY <2>1, <2>3, Zenon
  <2>5. PICK g : g = [S \in Upto(n - 1) |-> Adds(f, g, S)]
    BY <2>3, <2>4, Zenon
  <2> DEFINE h == [S \in Upto(n) |-> Adds(f, g, S)]
  <2>6. ASSUME NEW S \in Upto(n) PROVE Adds(f, g, S) = Adds(f, h, S)
    <3>1. CASE S = {}
      BY <3>1, Zenon DEF Adds
    <3>2. CASE S # {}
      <4>1. Others(S) \in Upto(n - 1) /\ Others(S) \in Upto(n)
        BY <3>2, <2>3, OneLess
      <4>2. g[Others(S)] = Adds(f, g, Others(S)) /\ h[Others(S)] = Adds(f, g, Others(S))
        <5> HIDE DEF Upto
        <5> QED BY <4>1, <2>5, Zenon
      <4> QED BY <4>2, Zenon DEF Adds
    <3> QED BY <3>1, <3>2, Zenon
  <2>7. h = [S \in Upto(n) |-> Adds(f, h, S)]
    <3> HIDE DEF Upto
    <3> QED BY <2>6, Zenon
  <2> QED BY <2>1, <2>7, Zenon
<1>2. Cardinality(Nodes) \in Nat
  BY FS_CardinalityType, Zenon
<1>3. Upto(Cardinality(Nodes)) = SUBSET Nodes
  BY FS_Subset, Zenon
<1>4. \E g : g = [S \in Upto(Cardinality(Nodes)) |-> Adds(f, g, S)]
  <2> HIDE DEF Upto
  <2> QED BY <1>1, <1>2, Zenon
<1>5. \E g : g = [S \in SUBSET Nodes |-> Adds(f, g, S)]
  <2> HIDE DEF Upto
  <2> QED BY <1>3, <1>4, Zenon
<1>6. Sums(f) = [S \in SUBSET Nodes |-> Adds(f, Sums(f), S)]
  BY <1>5, Zenon DEF Sums
<1> QED BY <1>6, Zenon

(* Nothing adds up to nothing.                                             *)
LEMMA SumOfZeros ==
    ASSUME IsFiniteSet(Nodes)
    PROVE  Sums([t \in Nodes |-> 0])[Nodes] = 0
<1> DEFINE f == [t \in Nodes |-> 0]
           Q == {S \in SUBSET Nodes : Sums(f)[S] = 0}
<1>1. {} \in Q
  BY SumsExist, Zenon DEF Adds
<1>2. ASSUME NEW S \in SUBSET Nodes, S # {}, Others(S) \in Q PROVE S \in Q
  <2>1. Sums(f)[S] = f[First(S)] + Sums(f)[Others(S)]
    BY <1>2, SumsExist, Zenon DEF Adds
  <2>2. f[First(S)] = 0
    BY <1>2, OneLess, Zenon
  <2> QED BY <1>2, <2>1, <2>2
<1>3. Nodes \in Q
  <2> HIDE DEF Q
  <2> QED BY <1>1, <1>2, SubsetsByElement, Zenon
<1> QED BY <1>3, Zenon

(* Where only one value changes, the sum changes by as much.               *)
LEMMA SumChanges ==
    ASSUME IsFiniteSet(Nodes), NEW f \in [Nodes -> Int], NEW h \in [Nodes -> Int],
           NEW u \in Nodes, \A t \in Nodes \ {u} : h[t] = f[t]
    PROVE  Sums(f)[Nodes] \in Int /\ Sums(h)[Nodes] = Sums(f)[Nodes] + h[u] - f[u]
<1> DEFINE Q == {S \in SUBSET Nodes : 
                   /\ Sums(f)[S] \in Int
                   /\ Sums(h)[S] = IF u \in S THEN Sums(f)[S] + h[u] - f[u] ELSE Sums(f)[S]}
<1>1. {} \in Q
  <2>1. {} \in SUBSET Nodes
    BY Zenon
  <2>2. Sums(f)[{}] = 0 /\ Sums(h)[{}] = 0
    BY <2>1, SumsExist, Zenon DEF Adds
  <2> QED BY <2>1, <2>2
<1>2. ASSUME NEW S \in SUBSET Nodes, S # {}, Others(S) \in Q PROVE S \in Q
  <2>1. Sums(f)[S] = f[First(S)] + Sums(f)[Others(S)]
        /\ Sums(h)[S] = h[First(S)] + Sums(h)[Others(S)]
    BY <1>2, SumsExist, Zenon DEF Adds
  <2>2. First(S) \in S /\ First(S) \in Nodes
    BY <1>2, OneLess, Zenon
  <2>3. u \in S <=> (u = First(S) \/ u \in Others(S))
    BY <2>2, Zenon DEF Others
  <2>4. ~(u = First(S) /\ u \in Others(S))
    BY Zenon DEF Others
  <2> QED BY <1>2, <2>1, <2>2, <2>3, <2>4
<1>3. Nodes \in Q
  <2> HIDE DEF Q
  <2> QED BY <1>1, <1>2, SubsetsByElement, Zenon
<1> QED BY <1>3, Zenon

(* Division leaves a remainder, and only one.                              *)
LEMMA Remainder ==
    ASSUME NEW m \in Nat \ {0}, NEW x \in Int
    PROVE  x % m \in 0 .. (m - 1) /\ x \div m \in Int /\ x = m * (x \div m) + (x % m)
OBVIOUS

LEMMA RemainderUnique ==
    ASSUME NEW m \in Nat \ {0}, NEW q \in Int, NEW r \in 0 .. (m - 1)
    PROVE  (m * q + r) % m = r
OBVIOUS

(* What account does to the sum of the usages, modulo the counters' range. *)
LEMMA Charged ==
    ASSUME NEW m \in Nat \ {0}, NEW a \in Int, NEW u \in Int, NEW t \in 0 .. (m - 1)
    PROVE  (a + ((u + t - (a % m)) % m) - u) % m = t
<1>1. \A x, y, p, e \in Int : u + t - p = m * y + e =>
         m * x + p + e - u = m * (x - y) + t
  <2>1. SUFFICES ASSUME NEW x \in Int, NEW y \in Int, NEW p \in Int, NEW e \in Int,
                        u + t - p = m * y + e
                 PROVE  m * x + p + e - u = m * (x - y) + t
    BY Zenon
  <2>2. m * (x - y) = m * x - m * y /\ m * x \in Int /\ m * y \in Int
    OBVIOUS
  <2> QED BY <2>1, <2>2
<1>2. PICK d \in Int : d = u + t - (a % m)
  <2>1. a % m \in Int
    BY Remainder
  <2>2. u + t - (a % m) \in Int
    BY <2>1
  <2> QED BY <2>2, Zenon
<1>3. /\ a % m \in Int /\ a \div m \in Int /\ a = m * (a \div m) + (a % m)
      /\ d % m \in Int /\ d \div m \in Int /\ d = m * (d \div m) + (d % m)
  BY Remainder
<1>4. a + (d % m) - u = m * (a \div m - d \div m) + t
  BY <1>1, <1>2, <1>3
<1>5. a \div m - d \div m \in Int
  BY <1>3
<1>6. (m * (a \div m - d \div m) + t) % m = t
  BY ONLY <1>5, RemainderUnique, m \in Nat \ {0}, t \in 0 .. (m - 1), Zenon
<1> QED BY <1>2, <1>4, <1>6, Zenon

(* The running thread has a frame.                                         *)
LEMMA TopFrame ==
    ASSUME TaskInv
    PROVE  /\ stack \in [Pointer -> Seq(Frame)] /\ current \in Pointer
           /\ stack[current] # <<>> /\ Top \in Frame
           /\ Top.ifl => Top.pc \in BootLines \cup {"body"}
           /\ current = Null => Top.pc \in BootLines
<1>1. stack \in [Pointer -> Seq(Frame)] /\ current \in Pointer
      /\ (current # Null => current \in Nodes)
  BY TaskTypes, Zenon
<1>2. CASE current = Null
  <2>1. /\ Top \in Frame /\ Main.pc \in BootLines
        /\ \/ stack[Null] = <<Top>> /\ Main = Top
           \/ stack[Null] = <<Top, Main>> /\ Top.pc = "enter"
    BY <1>2, BootTop, Zenon DEF TaskInv
  <2>2. stack[current] # <<>>
    BY <1>2, <2>1, NotEmpty, Zenon
  <2> QED BY <1>1, <2>1, <2>2, Zenon DEF BootLines
<1>3. CASE current # Null
  <2>1. /\ Top \in Frame
        /\ \/ stack[current] = <<Body>> /\ Top = Body
           \/ stack[current] = <<Top, Body>> /\ ~Top.ifl
           \/ stack[current] = <<Top, Spin, Body>> /\ ~Top.ifl
    BY <1>1, <1>3, TaskTop, Zenon DEF TaskInv
  <2>2. stack[current] # <<>>
    BY <2>1, NotEmpty, Zenon
  <2> QED BY <1>1, <1>3, <2>1, <2>2, Bases, Zenon
<1> QED BY <1>2, <1>3, Zenon

(* Where the running thread is after going to a line, and after a call.    *)
LEMMA NextTop ==
    ASSUME TaskInv, NEW f, Goto(f) \/ Call(f), current' = current
    PROVE  Top' = f
<1> DEFINE F == Frame \cup {f}
<1>1. PICK s : s = stack[current]
  BY Zenon
<1>2. s \in Seq(F) /\ s # <<>> /\ f \in F /\ current \in DOMAIN stack
  <2>1. s \in Seq(Frame) /\ s # <<>> /\ current \in DOMAIN stack
    BY <1>1, TopFrame, Zenon
  <2> QED BY <2>1
<1>3. Top' = Head(stack'[current])
  BY Zenon DEF Top
<1>4. CASE Goto(f)
  <2>1. stack'[current] = [s EXCEPT ![1] = f]
    BY <1>1, <1>2, <1>4, Zenon DEF Goto
  <2>2. Head([s EXCEPT ![1] = f]) = f
    <3> HIDE DEF F
    <3> QED BY <1>2
  <2> QED BY <1>3, <2>1, <2>2, Zenon
<1>5. CASE Call(f)
  <2>1. stack'[current] = <<f>> \o s
    BY <1>1, <1>2, <1>5, Zenon DEF Call
  <2>2. Head(<<f>> \o s) = f
    <3> HIDE DEF F
    <3> QED BY <1>2
  <2> QED BY <1>3, <2>1, <2>2, Zenon
<1> QED BY <1>4, <1>5, Zenon

-----------------------------------------------------------------------------

(* The time all tasks have used.                                           *)
Total == Sums(usage)[Nodes]

(* Between the two stores of schedule the time up to curr_ticks has been   *)
(* charged, at all other times the time up to prev_ticks.                  *)
UsageInv ==
    /\ usage \in [Nodes -> Int]
    /\ Total % TickMod = IF Top.pc = "prev" THEN Top.curr ELSE prev_ticks

(* A step that charges nothing and does not come from or lead to the place *)
(* between the two stores.                                                 *)
LEMMA NoCharge ==
    ASSUME UsageInv, usage' = usage, prev_ticks' = prev_ticks,
           Top.pc # "prev", Top'.pc # "prev"
    PROVE  UsageInv'
BY Zenon DEF UsageInv, Total

LEMMA UsageInvInit ==
    ASSUME IsFiniteSet(Nodes)
    PROVE  Init => UsageInv
<1> SUFFICES ASSUME Init PROVE UsageInv
  BY Zenon
<1>1. usage = [t \in Nodes |-> 0] /\ prev_ticks = 0 /\ usage \in [Nodes -> Int]
  BY DEF Init
<1>2. Top.pc = "boot"
  <2>1. Null \in Pointer
    BY Zenon DEF Pointer
  <2>2. stack[current] = <<NewFrame("boot", TRUE)>>
    BY <2>1, Zenon DEF Init
  <2> QED BY <2>2 DEF Top, NewFrame
<1>3. Total = Sums(usage)[Nodes]
  BY Zenon DEF Total
<1>4. Sums(usage)[Nodes] = 0
  BY <1>1, SumOfZeros, Zenon
<1>5. 0 % TickMod = 0
  BY SchedulerAssumption
<1> QED BY <1>1, <1>2, <1>3, <1>4, <1>5, Zenon DEF UsageInv

(* account charges the running task, and the sum follows the clock.        *)
LEMMA AccountCharges ==
    ASSUME IsFiniteSet(Nodes), TaskInv, UsageInv, account
    PROVE  UsageInv'
<1> DEFINE c == current
           m == TickMod
           charged == (usage[c] + timer_ticks - prev_ticks) % m
<1>1. /\ Top.pc = "account" /\ usage' = [usage EXCEPT ![c] = charged]
      /\ Goto([Top EXCEPT !.pc = "prev", !.curr = timer_ticks]) /\ current' = current
  BY Zenon DEF account, At
<1>2. Top \in Frame /\ c \in Nodes
  BY <1>1, TopFrame, TaskTypes, Zenon DEF BootLines
<1>3. Top'.pc = "prev" /\ Top'.curr = timer_ticks
  BY <1>1, <1>2, NextTop, Zenon DEF Frame
<1>4. m \in Nat \ {0} /\ timer_ticks \in 0 .. (m - 1)
  BY SchedulerAssumption, Zenon DEF TaskInv
<1>5. usage \in [Nodes -> Int] /\ Total % m = prev_ticks /\ usage[c] \in Int
  BY <1>1, <1>2, Zenon DEF UsageInv
<1>6. Total = Sums(usage)[Nodes] /\ Total' = Sums(usage')[Nodes]
  BY Zenon DEF Total
<1>7. Total \in Int
  BY <1>2, <1>5, <1>6, SumChanges, Zenon
<1>8. prev_ticks \in Int /\ charged \in Int
  <2>1. prev_ticks \in Int
    BY <1>4, <1>5, <1>7, Remainder
  <2>2. usage[c] + timer_ticks - prev_ticks \in Int
    BY <2>1, <1>4, <1>5
  <2> QED BY <2>1, <2>2, <1>4, Remainder
<1>9. /\ usage' \in [Nodes -> Int] /\ usage'[c] = charged
      /\ \A t \in Nodes \ {c} : usage'[t] = usage[t]
  <2> HIDE DEF charged
  <2> QED BY <1>1, <1>2, <1>5, <1>8, Zenon
<1>10. Total' = Total + charged - usage[c]
  <2> HIDE DEF charged
  <2> QED BY <1>2, <1>5, <1>6, <1>9, SumChanges, Zenon
<1>11. (Total + charged - usage[c]) % m = timer_ticks
  <2>1. (Total + ((usage[c] + timer_ticks - (Total % m)) % m) - usage[c]) % m = timer_ticks
    BY ONLY <1>4, <1>5, <1>7, Charged, Zenon
  <2> QED BY <2>1, <1>5, Zenon
<1> QED BY <1>3, <1>9, <1>10, <1>11, Zenon DEF UsageInv

(* The second store.                                                       *)
LEMMA AccountCloses ==
    ASSUME TaskInv, UsageInv, account_prev
    PROVE  UsageInv'
<1>1. /\ Top.pc = "prev" /\ usage' = usage /\ prev_ticks' = Top.curr
      /\ Goto([Top EXCEPT !.pc = "tss"]) /\ current' = current
  BY Zenon DEF account_prev, At
<1>2. Top \in Frame
  BY TopFrame, Zenon
<1>3. Top'.pc = "tss"
  BY <1>1, <1>2, NextTop, Zenon DEF Frame
<1> QED BY <1>1, <1>3, Zenon DEF UsageInv, Total

(* The steps after which the running thread is at another line, in a call  *)
(* or in an interrupt.                                                     *)
LEMMA MovesOn ==
    ASSUME TaskInv, UsageInv, usage' = usage, prev_ticks' = prev_ticks,
           current' = current, Top.pc # "prev",
           NEW f, Goto(f) \/ Call(f), f.pc # "prev"
    PROVE  UsageInv'
<1>1. Top' = f
  BY NextTop, Zenon
<1> QED BY <1>1, NoCharge, Zenon

(* One step per group of lines of the model.                               *)
LEMMA UsageInvNext ==
    ASSUME IsFiniteSet(Nodes), TaskInv, UsageInv, [Next]_vars
    PROVE  UsageInv'
<1>0. Top \in Frame /\ \A v : [Top EXCEPT !.pc = v].pc = v
  BY TopFrame, Zenon DEF Frame
<1>1. CASE multitasking_init
  BY <1>1, MovesOn, Zenon DEF multitasking_init, At, timeVars, NewFrame
<1>2. CASE task_create
  <2>1. PICK t \in Nodes : Goto([Top EXCEPT !.pc = "link", !.t = t])
    BY <1>2, Zenon DEF task_create
  <2>2. [Top EXCEPT !.pc = "link", !.t = t].pc = "link"
    BY <1>0, Zenon DEF Frame
  <2> QED BY <1>2, <2>1, <2>2, MovesOn, Zenon DEF task_create, At, timeVars
<1>3. CASE insert_link
  BY <1>0, <1>3, MovesOn, Zenon DEF insert_link, At, timeVars
<1>4. CASE insert_publish
  BY <1>0, <1>4, MovesOn, Zenon DEF insert_publish, At, timeVars
<1>5. CASE set_self
  BY <1>0, <1>5, MovesOn, Zenon DEF set_self, At, timeVars
<1>6. CASE schedule_early
  <2>1. /\ Top.pc = "enter" /\ ~task_list /\ Return /\ current' = current
        /\ tstate' = tstate /\ usage' = usage /\ prev_ticks' = prev_ticks
    BY <1>6, Zenon DEF schedule_early, At, taskVars, timeVars
  <2>2. current = Null /\ Main.pc = "boot"
    BY <2>1, Zenon DEF TaskInv, Switched, Starting
  <2>3. stack[Null] = <<Top, Main>>
    BY <2>1, <2>2, BootTop, Zenon DEF TaskInv
  <2>4. stack'[Null] = <<Main>>
    <3>1. Tail(stack[Null]) = <<Main>>
      BY <2>3
    <3>2. Null \in DOMAIN stack
      BY <2>2, TopFrame, Zenon
    <3> QED BY <2>1, <2>2, <3>1, <3>2, Zenon DEF Return
  <2>5. Top' = Main
    BY <2>1, <2>2, <2>4 DEF Top
  <2> QED BY <2>1, <2>2, <2>5, NoCharge, Zenon
<1>7. CASE schedule_first
  <2>1. /\ Top.pc = "enter" /\ current = Null /\ head # Null /\ context_switch(head)
        /\ tstate' = tstate /\ usage' = usage /\ prev_ticks' = prev_ticks
    BY <1>7, Zenon DEF schedule_first, At, list_peek_front, taskVars, timeVars
  <2>2. head \in Nodes /\ current \in Pointer
    BY <2>1, TaskTypes, Zenon DEF Pointer
  <2>3. tstate[head] # "zombie" /\ Stacks
    BY <2>1, <2>2, Zenon DEF TaskInv, Starting
  <2>4. Top' = Body
    BY <2>1, <2>2, <2>3, SwitchStacks, Zenon
  <2> QED BY <2>1, <2>4, Bases, NoCharge, Zenon
<1>8. CASE schedule_enter
  <2> DEFINE f == [Top EXCEPT !.pc = "pick", !.node = IF self[current] = Null THEN Null
                                                      ELSE nxt[self[current]]]
  <2>1. f.pc = "pick"
    BY <1>0, Zenon DEF Frame
  <2>2. /\ Top.pc = "enter" /\ Goto(f) /\ current' = current
        /\ usage' = usage /\ prev_ticks' = prev_ticks
    BY <1>8, Zenon DEF schedule_enter, At, timeVars
  <2> HIDE DEF f
  <2> QED BY <2>1, <2>2, MovesOn, Zenon
<1>9. CASE pick_next
  <2> DEFINE f == [Top EXCEPT !.pc = "account", !.next = Candidate]
  <2>1. f.pc = "account"
    BY <1>0, Zenon DEF Frame
  <2>2. /\ Top.pc = "pick" /\ Goto(f) /\ current' = current
        /\ usage' = usage /\ prev_ticks' = prev_ticks
    BY <1>9, Zenon DEF pick_next, At, timeVars
  <2> HIDE DEF f
  <2> QED BY <2>1, <2>2, MovesOn, Zenon
<1>10. CASE account
  BY <1>10, AccountCharges, Zenon
<1>11. CASE account_prev
  BY <1>11, AccountCloses, Zenon
<1>12. CASE tss_set_stack
  BY <1>0, <1>12, MovesOn, Zenon DEF tss_set_stack, At, timeVars
<1>13. CASE switch_page_directory
  BY <1>0, <1>13, MovesOn, Zenon DEF switch_page_directory, At, timeVars
<1>14. CASE switch_to_next
  <2>1. PICK n : n = Top.next
    BY Zenon
  <2>2. /\ Top.pc = "switch" /\ context_switch(n)
        /\ tstate' = tstate /\ usage' = usage /\ prev_ticks' = prev_ticks
    BY <1>14, <2>1, Zenon DEF switch_to_next, At, taskVars, timeVars
  <2>3. current \in Pointer /\ current # Null
    BY <2>2, TopFrame, TaskTypes, Zenon DEF BootLines
  <2>4. n \in Nodes /\ tstate[n] # "zombie" /\ Stacks
    BY <2>1, <2>2, <2>3, TaskTypes, Zenon DEF TaskInv, Switched, Chosen
  <2>5. Top' = Body
    BY <2>2, <2>3, <2>4, SwitchStacks, Zenon
  <2> QED BY <2>2, <2>5, Bases, NoCharge, Zenon
<1>15. CASE timer_irq_handler
  <2>1. Top.pc # "prev"
    BY <1>15, TopFrame, Zenon DEF timer_irq_handler, BootLines
  <2>2. NewFrame("enter", FALSE).pc = "enter"
    BY Zenon DEF NewFrame
  <2> QED BY <1>15, <2>1, <2>2, MovesOn, Zenon DEF timer_irq_handler
<1>16. CASE sys_yield
  BY <1>16, MovesOn, Zenon DEF sys_yield, At, timeVars, NewFrame
<1>17. CASE call_task_create
  BY <1>17, MovesOn, Zenon DEF call_task_create, At, timeVars, NewFrame
<1>18. CASE sys_exit
  <2>1. Top.pc = "body" /\ usage' = usage /\ prev_ticks' = prev_ticks
    BY <1>18, Zenon DEF sys_exit, At, timeVars
  <2>2. current \in Nodes
    BY <2>1, TopFrame, TaskTypes, Zenon DEF BootLines
  <2>3. Top' = NewFrame("enter", FALSE)
    BY <1>18, <2>2, ExitStacks, TaskTypes, Zenon DEF TaskInv
  <2> QED BY <2>1, <2>3, NoCharge, Zenon DEF NewFrame
<1>19. CASE UNCHANGED <<stack, current, usage, prev_ticks>>
  BY <1>19, Zenon DEF UsageInv, Total, Top
<1>20. \/ schedule_none \/ task_destroy \/ pick_freed \/ Halted \/ UNCHANGED vars
       => UNCHANGED <<stack, current, usage, prev_ticks>>
  BY Zenon DEF schedule_none, task_destroy, pick_freed, Halted, Stop, vars, timeVars
<1> QED BY <1>1, <1>2, <1>3, <1>4, <1>5, <1>6, <1>7, <1>8, <1>9, <1>10, <1>11, <1>12, <1>13,
           <1>14, <1>15, <1>16, <1>17, <1>18, <1>19, <1>20 DEF Next, Step

(* Every tick up to prev_ticks is charged to exactly one task, however     *)
(* often the counters wrap around: schedule stores the time it has charged *)
(* up to, and no tick handler runs between the two stores.                 *)
THEOREM EveryTickIsCharged ==
    ASSUME IsFiniteSet(Nodes)
    PROVE  Spec => []UsageAddsUp
<1>1. Init => TaskInv /\ UsageInv
  BY TaskInvInit, UsageInvInit, Zenon
<1>2. TaskInv /\ UsageInv /\ [Next]_vars => (TaskInv /\ UsageInv)'
  BY TaskInvNext, UsageInvNext, Zenon
<1>3. TaskInv /\ UsageInv => UsageAddsUp
  <2> SUFFICES ASSUME TaskInv, UsageInv, ~Pending
               PROVE  MapThenSumSet(LAMBDA t : usage[t], Nodes) % TickMod = prev_ticks
    BY Zenon DEF UsageAddsUp
  <2>1. 1 \in DOMAIN stack[current] /\ Top = stack[current][1] /\ current \in Pointer
    <3>1. PICK s \in Seq(Frame) : s = stack[current]
      BY TopFrame, Zenon
    <3>2. s # <<>> /\ Top = Head(s) /\ current \in Pointer
      BY <3>1, TopFrame, Zenon DEF Top
    <3> QED BY <3>1, <3>2
  <2>2. Top.pc # "prev"
    BY <2>1, Zenon DEF Pending
  <2>3. MapThenSumSet(LAMBDA t : usage[t], Nodes) = Total
    BY TotalIsSum, Zenon DEF Total
  <2> QED BY <2>2, <2>3, Zenon DEF UsageInv
<1> QED BY <1>1, <1>2, <1>3, PTL DEF Spec

=============================================================================
