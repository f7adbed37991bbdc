------------------------------- MODULE Lists -------------------------------
(***************************************************************************)
(* The doubly linked lists of list.h and vmm_list.h, which the VMM and     *)
(* Kitten have from Linux, as sequences.                                   *)
(***************************************************************************)
EXTENDS Integers, Sequences

ToSet(q) == {q[i] : i \in DOMAIN q}

\* list_del.
Without(q, x) ==
    LET i == CHOOSE i \in DOMAIN q : q[i] = x
    IN  SubSeq(q, 1, i - 1) \o SubSeq(q, i + 1, Len(q))

Least(S) == CHOOSE i \in S : \A j \in S : i <= j

\* How many entries a walk along q passes before it stops at the first one in stops.
Passed(q, stops) == IF stops = {} THEN Len(q) ELSE Least(stops) - 1

=============================================================================
