----------------------------- MODULE MCScaling -----------------------------
(***************************************************************************)
(* Scaling with the first buckets of the code's tables.                    *)
(***************************************************************************)
EXTENDS Scaling

FirstRateBuckets ==
  <<[low |-> 0, high |-> 0], [low |-> 1, high |-> 5], [low |-> 6, high |-> -1]>>

FirstExitBuckets ==
  <<[low |-> 0, high |-> 0], [low |-> 1, high |-> 2], [low |-> 3, high |-> -1]>>
=============================================================================
