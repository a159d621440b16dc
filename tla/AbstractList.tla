---------------------------- MODULE AbstractList ----------------------------
(***************************************************************************)
(* What src/kernel/utils/dsa/list.c promises: a sequence of distinct nodes *)
(* that grows at either end and loses one node at a time from any place;   *)
(* and nothing about the sequence once its callers have misused it.        *)
(***************************************************************************)
EXTENDS Integers, Sequences

CONSTANT Nodes

VARIABLES seq, ok

Insert ==
    /\ ok /\ ok'
    /\ \E n \in Nodes :
        /\ \A k \in DOMAIN seq : seq[k] # n
        /\ seq' \in {<<n>> \o seq, Append(seq, n)}

Delete ==
    /\ ok /\ ok'
    /\ \E k \in DOMAIN seq : seq' = SubSeq(seq, 1, k - 1) \o SubSeq(seq, k + 1, Len(seq))

Misuse == ok /\ ~ok'

Spec == seq = <<>> /\ ok = TRUE /\ [][Insert \/ Delete \/ Misuse]_<<seq, ok>>

=============================================================================
