-------------------------------- MODULE List --------------------------------
(***************************************************************************)
(* The kernel's doubly linked list, src/kernel/utils/dsa/list.c, at the    *)
(* level of its pointers.  A node's address also stands for its value: the *)
(* value is stored once, before the node can be reached.                   *)
(*                                                                         *)
(* This module holds the state and the operations; ListSpec is the list on *)
(* its own, Scheduler uses it as task_list.                                *)
(***************************************************************************)
EXTENDS Integers, FiniteSets

CONSTANTS
    Nodes,    \* the node addresses the heap can hand out
    Null      \* NULL

ASSUME ListAssumption == Null \notin Nodes

VARIABLES
    head, tail, size,   \* the fields of list_t
    nxt, prv,           \* node->next and node->prev, of freed nodes too
    live                \* the nodes that are allocated

listVars == <<head, tail, size, nxt, prv, live>>

Pointer == Nodes \cup {Null}

ListTypeOK ==
    /\ {head, tail} \subseteq Pointer
    /\ size \in Nat
    /\ nxt \in [Nodes -> Pointer]
    /\ prv \in [Nodes -> Pointer]
    /\ live \subseteq Nodes

(* list_create: kcalloc clears the fields.                                 *)
ListInit ==
    /\ head = Null /\ tail = Null /\ size = 0
    /\ nxt = [n \in Nodes |-> Null]
    /\ prv = [n \in Nodes |-> Null]
    /\ live = {}

-----------------------------------------------------------------------------

(* p->field = v.  A store through NULL goes to the page mapped at address  *)
(* 0, which holds nothing else (Boot: NullPageIsolated).                   *)
Store(field, p, v) == IF p = Null THEN field ELSE [field EXCEPT ![p] = v]

\* Mutant: t->next keeps the NULL of kcalloc.
link_front_cut(t) ==
    /\ nxt' = [nxt EXCEPT ![t] = Null]
    /\ prv' = [Store(prv, head, t) EXCEPT ![t] = Null]

(* list_insert_front up to t->value: t comes zeroed from kcalloc.          *)
link_front(t) ==
    /\ nxt' = [nxt EXCEPT ![t] = head]
    /\ prv' = [Store(prv, head, t) EXCEPT ![t] = Null]

\* Mutant: the tail is not set for the first node.
publish_front_tail(t) ==
    /\ head' = t
    /\ UNCHANGED tail
    /\ size' = size + 1

(* The rest of list_insert_front: t becomes the head.                      *)
publish_front(t) ==
    /\ head' = t
    /\ tail' = IF head = Null THEN t ELSE tail
    /\ size' = size + 1

list_insert_front(t) ==
    /\ t \notin live
    /\ live' = live \cup {t}
    /\ link_front(t)
    /\ publish_front(t)

list_insert_back(t) ==
    /\ t \notin live
    /\ live' = live \cup {t}
    /\ nxt' = Store([nxt EXCEPT ![t] = Null], tail, t)
    /\ prv' = [prv EXCEPT ![t] = tail]
    /\ head' = IF head = Null THEN t ELSE head
    /\ tail' = t
    /\ size' = size + 1

(* The tail is left alone, also when the list becomes empty.               *)
list_remove_front ==
    IF head = Null THEN UNCHANGED listVars
    ELSE /\ head' = nxt[head]
         /\ prv' = Store(prv, nxt[head], Null)
         /\ live' = live \ {head}
         /\ size' = size - 1
         /\ UNCHANGED <<tail, nxt>>

(* Cutting off the last node; the head is left alone, also when the list   *)
(* becomes empty.                                                          *)
unlink_back ==
    /\ tail' = prv[tail]
    /\ nxt' = Store(nxt, prv[tail], Null)
    /\ size' = size - 1
    /\ UNCHANGED <<head, prv>>

list_remove_back ==
    IF head = Null THEN UNCHANGED listVars
    ELSE /\ unlink_back
         /\ live' = live \ {tail}

(* Like list_remove_back, but the caller gets the node.                    *)
list_pop ==
    IF head = Null THEN UNCHANGED listVars
    ELSE /\ unlink_back
         /\ UNCHANGED live

listnode_destroy(n) ==
    /\ live' = live \ {n}
    /\ UNCHANGED <<head, tail, size, nxt, prv>>

(* The pointer code run on node = NULL.  NULL->next is 0: nothing stores   *)
(* there.  NULL->prev is the node list_insert_front last put into an empty *)
(* list, of this list or (p = Null) of another: it loses its next.         *)
unlink_null ==
    /\ \E p \in Pointer : nxt' = Store(nxt, p, Null)
    /\ size' = size - 1
    /\ UNCHANGED <<head, tail, prv, live>>

list_remove_node(n) ==
    IF head = n THEN list_remove_front
    ELSE IF tail = n THEN list_remove_back
    ELSE IF n = Null THEN unlink_null
    ELSE /\ prv' = Store(prv, nxt[n], prv[n])
         /\ nxt' = Store(nxt, prv[n], nxt[n])
         /\ live' = live \ {n}
         /\ size' = size - 1
         /\ UNCHANGED <<head, tail>>

list_peek_front == head

(* The node foreach is at after k rounds.                                  *)
foreach_at(k, n) ==
    \E walk \in [0 .. k -> Nodes] :
        /\ walk[0] = head
        /\ \A j \in 0 .. (k - 1) : walk[j + 1] = nxt[walk[j]]
        /\ walk[k] = n

(* n is the node list_get_node_by_index answers.                           *)
list_get_node_by_index(index, n) ==
    IF index < size THEN foreach_at(index, n) ELSE n = Null

(* The answer is not looked at: an index out of range removes NULL.        *)
list_remove_by_index(index) ==
    \E n \in Pointer :
        /\ list_get_node_by_index(index, n)
        /\ list_remove_node(n)

=============================================================================
