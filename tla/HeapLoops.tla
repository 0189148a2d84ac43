------------------------------- MODULE HeapLoops -------------------------------
(***************************************************************************)
(* The loops of Go's container/heap as they run, a swap at a time.         *)
(* PriorityQueue defines up and down by where the entries end up instead,  *)
(* which can be reasoned about without recursion; Agree compares the two.  *)
(***************************************************************************)
EXTENDS PriorityQueue

RECURSIVE upLoop(_, _), downLoop(_, _, _)

upLoop(q, j) ==
    IF Rises(q, q[j], j) THEN upLoop(Swap(q, j \div 2, j), j \div 2) ELSE q

downLoop(q, i, n) ==
    IF Sinks(q, q[i], i, n)
    THEN downLoop(Swap(q, i, Child(q, i, n)), Child(q, i, n), n)
    ELSE q

\* On an array of entries that know their places, whatever their order.
Agree(q) ==
    /\ \A j \in 1..Len(q) : up(q, j) = upLoop(q, j)
    /\ \A n \in 0..Len(q) : \A i \in 1..n : down(q, i, n) = downLoop(q, i, n)

=============================================================================
