------------------------------ MODULE ListSpec ------------------------------
(***************************************************************************)
(* One list of list.c on its own, used by callers that choose freely among *)
(* its operations.  Three uses break a list, and nothing in list.c stops   *)
(* them:                                                                   *)
(*   - removing at the back, or popping, the only node: the head stays     *)
(*     behind;                                                             *)
(*   - inserting at the back of a list that list_remove_front emptied: the *)
(*     tail stayed behind;                                                 *)
(*   - removing by an index out of range, or removing NULL (the answer of  *)
(*     list_contain for a value it does not find), while there are nodes.  *)
(* The kernel, which inserts at the front and removes nodes of the list,   *)
(* does none of these.  What happens after one of them is not modelled.    *)
(***************************************************************************)
EXTENDS List

VARIABLE misused    \* one of the three uses has happened

listSpecVars == <<listVars, misused>>

(* The list stands for s: linked in both directions, the ends marked.      *)
Represents(s) ==
    /\ \A j, k \in 1 .. size : s[j] = s[k] => j = k
    /\ \A k \in 1 .. size : s[k] \in live
    /\ \A k \in 1 .. (size - 1) : nxt[s[k]] = s[k + 1] /\ prv[s[k + 1]] = s[k]
    /\ size = 0 => head = Null
    /\ size > 0 => /\ head = s[1] /\ prv[s[1]] = Null
                   /\ tail = s[size] /\ nxt[s[size]] = Null

Linked(n) == \E s \in [1 .. size -> Nodes] : Represents(s) /\ n \in {s[k] : k \in 1 .. size}

-----------------------------------------------------------------------------

InsertFront ==
    /\ \E n \in Nodes : list_insert_front(n)
    /\ UNCHANGED misused

InsertBack ==
    /\ \E n \in Nodes : list_insert_back(n)
    /\ misused' = (size = 0 /\ tail # Null)

RemoveFront ==
    /\ list_remove_front
    /\ UNCHANGED misused

RemoveBack ==
    /\ list_remove_back
    /\ misused' = (size = 1)

Pop ==
    /\ list_pop
    /\ misused' = (size = 1)

(* The owner of a popped node frees it.                                    *)
Destroy ==
    /\ \E n \in live : ~Linked(n) /\ listnode_destroy(n)
    /\ UNCHANGED misused

RemoveNode ==
    \E n \in Pointer :
        /\ n = Null \/ Linked(n)
        /\ list_remove_node(n)
        /\ misused' = (n = Null /\ size > 0)

RemoveByIndex ==
    \E index \in 0 .. size :
        /\ list_remove_by_index(index)
        /\ misused' = (index = size /\ size > 0)

ListNext ==
    /\ ~misused
    /\ \/ InsertFront
       \/ InsertBack
       \/ RemoveFront
       \/ RemoveBack
       \/ Pop
       \/ Destroy
       \/ RemoveNode
       \/ RemoveByIndex

ListSpecInit == ListInit /\ misused = FALSE

ListSpecification == ListSpecInit /\ [][ListNext]_listSpecVars

-----------------------------------------------------------------------------

(* Some sequence of size allocated, distinct nodes is linked forwards from *)
(* head and backwards from tail, and both ends are marked.                 *)
Sound == \E s \in [1 .. size -> Nodes] : Represents(s)

(* After any sequence of operations the list is sound, and in particular   *)
(* has no freed node, exactly as long as its callers kept to the three     *)
(* rules: no other use of list.c breaks a list, and each of the three does *)
(* break it, whatever the list looked like.                                *)
WellFormed == Sound <=> ~misused

=============================================================================
