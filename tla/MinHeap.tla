------------------------------- MODULE MinHeap -------------------------------
(***************************************************************************)
(* internal/idle/heap.go: a binary heap ordered by DatedTime, kept by      *)
(* container/heap.  Indices start at 1, so the parent of j is j \div 2.    *)
(***************************************************************************)
EXTENDS Integers, Sequences

CONSTANTS Expiry, None

NewMinHeap == [inner |-> <<>>, size |-> 0]

Less(h, i, j, dated) == dated[h[i]] < dated[h[j]]

Swap(h, i, j) == [h EXCEPT ![i] = h[j], ![j] = h[i]]

\* container/heap: move the element at j up, or the one at i down among the
\* first n, until the order is restored.
RECURSIVE up(_, _, _)
up(h, j, dated) ==
  IF j = 1 \/ ~Less(h, j, j \div 2, dated)
    THEN h
    ELSE up(Swap(h, j, j \div 2), j \div 2, dated)

RECURSIVE down(_, _, _, _)
down(h, i, n, dated) ==
  LET left  == 2 * i
      child == IF left + 1 <= n /\ Less(h, left + 1, left, dated)
                 THEN left + 1 ELSE left
  IN IF left > n \/ ~Less(h, child, i, dated)
       THEN h
       ELSE down(Swap(h, child, i), child, n, dated)

Add(h, w, dated) ==
  [inner |-> up(Append(h.inner, w), Len(h.inner) + 1, dated),
   size  |-> h.size + 1]

\* The last element takes the root's place and sinks; the root is cut off.
Pop(h, dated) ==
  LET n == Len(h.inner)
  IN IF n = 0
       THEN [container |-> h, val |-> None]
       ELSE [container |->
               [inner |-> SubSeq(down(Swap(h.inner, 1, n), 1, n - 1, dated),
                                 1, n - 1),
                size  |-> h.size - 1],
             val |-> h.inner[1]]

\* The loop of RemoveExpired, which stops at the first root not expired.
RECURSIVE PopExpired(_, _, _, _)
PopExpired(h, removed, dated, now) ==
  IF h.inner = <<>> \/ dated[h.inner[1]] + Expiry > now
    THEN [container |-> h, val |-> removed]
    ELSE PopExpired(Pop(h, dated).container, removed + 1, dated, now)

RemoveExpired(h, dated, now) == PopExpired(h, 0, dated, now)

\* No element is older than its parent.
WellFormed(h, dated) ==
  \A j \in 2..Len(h.inner) : ~Less(h.inner, j, j \div 2, dated)
=============================================================================
