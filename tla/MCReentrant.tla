---------------------------- MODULE MCReentrant ----------------------------
(***************************************************************************)
(* AgilePool with a task whose body submits another one.                   *)
(***************************************************************************)
EXTENDS AgilePool

CONSTANTS Outer, Inner

\* The body of Outer submits Inner; every other task comes from outside.
OuterSubmitsInner == [t \in Tasks |-> IF t = Inner THEN Outer ELSE None]
=============================================================================
