----------------------------- MODULE PriorityQueue -----------------------------
(***************************************************************************)
(* The binary heap of queue entries (pokebedrock/queue/priority.go) and    *)
(* the operations of Go's container/heap on it, which call its Less, Swap, *)
(* Push and Pop.  A heap is a sequence q of entries; position i here is    *)
(* index i - 1 there.  An entry is a record with at least the fields rank, *)
(* joined (its joinTime) and index.                                        *)
(***************************************************************************)
EXTENDS Integers, Sequences

\* Less(i, j) of the two entries e = pq[i] and f = pq[j].
Less(e, f) ==
    \/ e.rank > f.rank
    \/ e.rank = f.rank /\ e.joined < f.joined

Swap(q, i, j) ==
    [q EXCEPT ![i] = [q[j] EXCEPT !.index = i],
              ![j] = [q[i] EXCEPT !.index = j]]

Push(q, e) == Append(q, [e EXCEPT !.index = Len(q) + 1])

Pop(q) == SubSeq(q, 1, Len(q) - 1)

-----------------------------------------------------------------------------
(* container/heap *)

\* Its two loops move one entry along a branch, a swap at a time, and with each
\* swap another entry takes the place that it leaves.  Place k then has the entry
\* that was at from[k].
Rearranged(q, from) ==
    [k \in 1..Len(q) |-> IF from[k] = k THEN q[k] ELSE [q[from[k]] EXCEPT !.index = k]]

\* The entry e, come up to place k, comes before its parent.
Rises(q, e, k) == k > 1 /\ Less(e, q[k \div 2])

\* The places that the entry at j comes by: the least set that has j, and the
\* parent of each of its places where the entry rises.
Climb(q, j) ==
    {k \in 1..j :
        \A S \in SUBSET (1..j) :
            (j \in S /\ \A l \in S : Rises(q, q[j], l) => l \div 2 \in S) => k \in S}

\* Moves the entry at j up until its parent does not come after it.
up(q, j) ==
    LET way == Climb(q, j)
    IN  Rearranged(q, [k \in 1..Len(q) |-> IF k \notin way THEN k
                                           ELSE IF Rises(q, q[j], k) THEN k \div 2
                                           ELSE j])

\* The child of k, within the first n, that comes before the other.
Child(q, k, n) ==
    IF 2 * k + 1 <= n /\ Less(q[2 * k + 1], q[2 * k]) THEN 2 * k + 1 ELSE 2 * k

\* A child comes before the entry e, come down to place k.
Sinks(q, e, k, n) == 2 * k <= n /\ Less(q[Child(q, k, n)], e)

Descent(q, i, n) ==
    {k \in i..n :
        \A S \in SUBSET (i..n) :
            (i \in S /\ \A l \in S : Sinks(q, q[i], l, n) => Child(q, l, n) \in S) => k \in S}

\* Moves the entry at i down, within the first n, until no child comes before it.
down(q, i, n) ==
    LET way == Descent(q, i, n)
    IN  Rearranged(q, [k \in 1..Len(q) |-> IF k \notin way THEN k
                                           ELSE IF Sinks(q, q[i], k, n) THEN Child(q, k, n)
                                           ELSE i])

heapPush(q, e) == up(Push(q, e), Len(q) + 1)

\* The last entry takes the place of the i-th and moves down or else up.
heapRemove(q, i) ==
    LET n       == Len(q) - 1
        swapped == Swap(q, i, n + 1)
        sunk    == down(swapped, i, n)
        settled == IF sunk # swapped THEN sunk ELSE up(swapped, i)
    IN  Pop(IF i = n + 1 THEN q ELSE settled)

-----------------------------------------------------------------------------
(* What the operations promise *)

\* No entry comes before its parent.
HeapOrder(q) == \A i \in 2..Len(q) : ~Less(q[i], q[i \div 2])

\* Each entry knows its place, which removal by index relies on.
IndexInPlace(q) == \A i \in 1..Len(q) : q[i].index = i

=============================================================================
