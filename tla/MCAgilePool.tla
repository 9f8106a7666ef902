---------------------------- MODULE MCAgilePool ----------------------------
(***************************************************************************)
(* Constants and symmetry for model checking AgilePool.                    *)
(***************************************************************************)
EXTENDS AgilePool, TLC

\* No body submits another task.
NoParents == [t \in Tasks |-> None]

TaskSymmetry == Permutations(Tasks)
CloserSymmetry == Permutations(Closers)
TaskCloserSymmetry == TaskSymmetry \cup CloserSymmetry
=============================================================================
