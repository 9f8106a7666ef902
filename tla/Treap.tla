-------------------------------- MODULE Treap --------------------------------
(***************************************************************************)
(* internal/idle/treap.go: a search tree by DatedTime whose shape follows  *)
(* random priorities.  A tree is None or a node record holding its         *)
(* subtrees.  pool is the set of states in which nodes have been put back; *)
(* the stale priority, which Add overwrites, is dropped.                   *)
(***************************************************************************)
EXTENDS Integers, Sequences

CONSTANTS Expiry, None

newNode == [value |-> None, left |-> None, right |-> None, priority |-> 0]

NewTreap == [root |-> None, size |-> 0, pool |-> {}]

\* The part of u dated up to k, and the part dated after it.
RECURSIVE split(_, _, _)
split(u, k, dated) ==
  IF u = None
    THEN [left |-> None, right |-> None]
    ELSE IF dated[u.value] > k
           THEN LET s == split(u.left, k, dated)
                IN [left |-> s.left, right |-> [u EXCEPT !.left = s.right]]
           ELSE LET s == split(u.right, k, dated)
                IN [left |-> [u EXCEPT !.right = s.left], right |-> s.right]

RECURSIVE merge(_, _)
merge(left, right) ==
  IF left = None THEN right
  ELSE IF right = None THEN left
  ELSE IF left.priority < right.priority
         THEN [left EXCEPT !.right = merge(left.right, right)]
         ELSE [right EXCEPT !.left = merge(left, right.left)]

\* The pool gets u as it is.
Put(t, u) == [t EXCEPT !.pool = @ \cup {[u EXCEPT !.priority = 0]},
                       !.size = @ - 1]

RECURSIVE removeTree(_, _)
removeTree(t, u) ==
  IF u = None
    THEN t
    ELSE Put(removeTree(removeTree(t, u.left), u.right),
             [u EXCEPT !.value = None, !.left = None, !.right = None])

\* node comes from the pool, or is new.
Add(t, w, node, priority, dated) ==
  LET fresh == [node EXCEPT !.value = w, !.priority = priority]
      parts == split(t.root, dated[w], dated)
  IN [t EXCEPT !.root = merge(parts.left, merge(fresh, parts.right)),
               !.size = @ + 1]

\* The leftmost node of u, and u without it.
RECURSIVE CutLeftmost(_)
CutLeftmost(u) ==
  IF u.left = None
    THEN [node |-> u, rest |-> u.right]
    ELSE LET c == CutLeftmost(u.left)
         IN [node |-> c.node, rest |-> [u EXCEPT !.left = c.rest]]

\* Variant: the popped node goes back to the pool with its right subtree.
PopAttached(t) ==
  IF t.root = None
    THEN [container |-> t, val |-> None]
    ELSE LET c == CutLeftmost(t.root)
         IN [container |-> Put([t EXCEPT !.root = c.rest],
                               [c.node EXCEPT !.value = None]),
             val |-> c.node.value]

Pop(t) ==
  IF t.root = None
    THEN [container |-> t, val |-> None]
    ELSE LET c == CutLeftmost(t.root)
         IN [container |-> Put([t EXCEPT !.root = c.rest],
                               [c.node EXCEPT !.value = None, !.right = None]),
             val |-> c.node.value]

RemoveExpired(t, dated, now) ==
  LET parts == split(t.root, now - Expiry, dated)
      left  == removeTree([t EXCEPT !.root = parts.right], parts.left)
  IN [container |-> left, val |-> t.size - left.size]

RECURSIVE InOrder(_)
InOrder(u) ==
  IF u = None THEN <<>> ELSE InOrder(u.left) \o <<u.value>> \o InOrder(u.right)

\* The workers in the order in which Pop returns them.
Contents(t) == InOrder(t.root)

RECURSIVE HeapOrdered(_)
HeapOrdered(u) ==
  u # None => \A v \in {u.left, u.right} \ {None} :
                v.priority >= u.priority /\ HeapOrdered(v)

\* The tree is sorted by date, balanced by priority, and the nodes waiting in
\* the pool hold on to nothing.
WellFormed(t, dated) ==
  LET s == Contents(t)
  IN /\ \A i \in 1..Len(s) - 1 : dated[s[i]] <= dated[s[i + 1]]
     /\ HeapOrdered(t.root)
     /\ t.pool \subseteq {newNode}
=============================================================================
