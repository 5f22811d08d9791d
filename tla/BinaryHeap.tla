----------------------------- MODULE BinaryHeap -----------------------------
(***************************************************************************)
(* BinaryHeap.h: the array heap[1 .. size_] as a sequence.  Each operator  *)
(* is one operation of the class; the spare capacity behind size_ is not   *)
(* part of the value.  Where the code moves a hole through the array and   *)
(* puts the element into it at the end, the element itself moves here.     *)
(***************************************************************************)
EXTENDS Naturals, Sequences

CONSTANT Less(_, _)     \* operator< of the elements

\* The arrays with the elements of h that percolation goes through.
Arrays(h) == [1 .. Len(h) -> {h[i] : i \in 1 .. Len(h)}]

Swap(g, i, j) == [g EXCEPT ![i] = g[j], ![j] = g[i]]

\* The element at p moves up while it is less than the one above it.
PercolateUp(h, p) ==
    LET up[i \in 1 .. Len(h)] ==
            [g \in Arrays(h) |->
                IF i > 1 /\ Less(g[i], g[i \div 2])
                THEN up[i \div 2][Swap(g, i, i \div 2)] ELSE g]
    IN  up[p][h]

\* insert: the new element comes behind the last one and moves up.
Insert(h, x) == PercolateUp(Append(h, x), Len(h) + 1)

\* The child percolate_down looks at: the left one unless the right is less.
Child(h, i) == IF 2 * i # Len(h) /\ Less(h[2 * i + 1], h[2 * i])
               THEN 2 * i + 1 ELSE 2 * i

\* percolate_down: the element at p moves down while a child is less than it.
PercolateDown(h, p) ==
    LET down[i \in 1 .. Len(h)] ==
            [g \in Arrays(h) |->
                IF 2 * i <= Len(g) /\ Less(g[Child(g, i)], g[i])
                THEN down[Child(g, i)][Swap(g, i, Child(g, i))] ELSE g]
    IN  down[p][h]

FindMin(h) == h[1]

\* The last element replaces the one at i (erase_if at the first match).
EraseAt(h, i) ==
    LET last == Len(h)
        short == SubSeq([h EXCEPT ![i] = h[last]], 1, last - 1)
    IN  IF i = last THEN short ELSE PercolateDown(short, i)

\* delete_min of a heap that is not empty.
DeleteMin(h) == EraseAt(h, 1)
=============================================================================
