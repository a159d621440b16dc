--------------------------- MODULE ListRefinement ---------------------------
(***************************************************************************)
(* The pointer code of list.c implements the sequence of AbstractList.     *)
(***************************************************************************)
EXTENDS ListSpec, Sequences

(* What a foreach loop visits.                                             *)
IsTraversal(s) ==
    IF s = <<>> THEN head = Null
    ELSE /\ s[1] = head
         /\ \A k \in 1 .. (Len(s) - 1) : s[k + 1] = nxt[s[k]]
         /\ nxt[s[Len(s)]] = Null

Traversal ==
    CHOOSE s \in UNION {[1 .. n -> Nodes] : n \in 0 .. Cardinality(Nodes)} :
        IsTraversal(s)

Abstract ==
    INSTANCE AbstractList WITH seq <- IF misused THEN <<>> ELSE Traversal, ok <- ~misused

(* Seen through foreach, and until the first misuse, every operation       *)
(* inserts one node at an end or deletes exactly one node and keeps the    *)
(* order of the others: the pointer code implements the abstract list.     *)
IsAbstractList == Abstract!Spec

=============================================================================
