----------------------------- MODULE LinkedList -----------------------------
(***************************************************************************)
(* internal/idle/linkedlist.go: the default idle container, a doubly linked *)
(* list.  A node is named by the worker it holds; next and prev are the     *)
(* nodes' pointers, those of unlinked nodes included.                       *)
(***************************************************************************)
EXTENDS Integers, Sequences, SequencesExt

CONSTANTS Workers, Expiry, None

NewLinkedList ==
  [head |-> None, tail |-> None, length |-> 0,
   next |-> [w \in Workers |-> None], prev |-> [w \in Workers |-> None]]

\* Add creates a node and links it behind the tail.
Add(ll, w) ==
  LET node == [ll EXCEPT !.next[w] = None, !.prev[w] = None, !.length = @ + 1]
  IN IF ll.head = None /\ ll.tail = None
       THEN [node EXCEPT !.head = w, !.tail = w]
       ELSE [node EXCEPT !.next[ll.tail] = w, !.prev[w] = ll.tail, !.tail = w]

Pop(ll) ==
  IF ll.head = None
    THEN [container |-> ll, val |-> None]
    ELSE LET second == ll.next[ll.head]
             rest   == IF ll.head = ll.tail
                         THEN [ll EXCEPT !.head = None, !.tail = None]
                         ELSE [ll EXCEPT !.head = second, !.prev[second] = None]
         IN [container |-> [rest EXCEPT !.length = @ - 1], val |-> ll.head]

\* Variant: the counter is left to the caller.
removeNodeUncounted(ll, node) ==
  LET before == ll.prev[node]
      after  == ll.next[node]
      cut    == IF before # None THEN [ll EXCEPT !.next[before] = after]
                                 ELSE [ll EXCEPT !.head = after]
      closed == IF after # None THEN [cut EXCEPT !.prev[after] = before]
                                ELSE [cut EXCEPT !.tail = before]
  IN [closed EXCEPT !.prev[node] = None, !.next[node] = None]

removeNode(ll, node) ==
  LET before == ll.prev[node]
      after  == ll.next[node]
      cut    == IF before # None THEN [ll EXCEPT !.next[before] = after]
                                 ELSE [ll EXCEPT !.head = after]
      closed == IF after # None THEN [cut EXCEPT !.prev[after] = before]
                                ELSE [cut EXCEPT !.tail = before]
  IN [closed EXCEPT !.prev[node] = None, !.next[node] = None, !.length = @ - 1]

\* The traversal of RemoveExpired from node on.
RECURSIVE Sweep(_, _, _, _, _)
Sweep(ll, node, removed, dated, now) ==
  IF node = None
    THEN [container |-> ll, val |-> removed]
    ELSE IF dated[node] + Expiry > now
           THEN Sweep(ll, ll.next[node], removed, dated, now)
           ELSE Sweep(removeNode(ll, node), ll.next[node], removed + 1,
                      dated, now)

RemoveExpired(ll, dated, now) == Sweep(ll, ll.head, 0, dated, now)

RECURSIVE Walk(_, _)
Walk(link, node) ==
  IF node = None THEN <<>> ELSE <<node>> \o Walk(link, link[node])

\* The workers in the order in which Pop returns them.
Contents(ll) == Walk(ll.next, ll.head)

\* The two directions agree.
WellFormed(ll) == Walk(ll.prev, ll.tail) = Reverse(Contents(ll))
=============================================================================
