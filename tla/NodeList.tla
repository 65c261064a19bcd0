------------------------------ MODULE NodeList ------------------------------
(***************************************************************************)
(* What a list of miau promises to its users: a sequence of nodes, no node *)
(* twice, that grows at any place, loses any node and can move its first.  *)
(***************************************************************************)
EXTENDS SequencesExt

CONSTANT Node

VARIABLE seq

Init == seq = <<>>

Insert == \E n \in Node \ ToSet(seq), i \in 1 .. Len(seq) + 1 :
    seq' = InsertAt(seq, i, n)

Delete == \E i \in 1 .. Len(seq) : seq' = RemoveAt(seq, i)

MoveFirst ==
    /\ seq # <<>>
    /\ \E i \in 1 .. Len(seq) : seq' = InsertAt(Tail(seq), i, Head(seq))

Next == Insert \/ Delete \/ MoveFirst

Spec == Init /\ [][Next]_seq
==============================================================================
