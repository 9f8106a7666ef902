------------------------------ MODULE IdleSlice ------------------------------
(***************************************************************************)
(* internal/idle/slice.go: a dynamic array with a counter beside it.  The  *)
(* backing array is left out: RemoveExpired writes survivors only to slots *)
(* it has read, and every released slot is zeroed.                         *)
(***************************************************************************)
EXTENDS Integers, Sequences

CONSTANTS Expiry, None

NewSlice == [workers |-> <<>>, length |-> 0]

Add(s, w) == [workers |-> Append(s.workers, w), length |-> s.length + 1]

Pop(s) ==
  IF s.length = 0
    THEN [container |-> s, val |-> None]
    ELSE [container |-> [workers |-> Tail(s.workers), length |-> s.length - 1],
          val |-> Head(s.workers)]

RemoveExpired(s, dated, now) ==
  LET survivors == SelectSeq(s.workers, LAMBDA w : dated[w] > now - Expiry)
      removed   == Len(s.workers) - Len(survivors)
  IN IF s.length = 0
       THEN [container |-> s, val |-> 0]
       ELSE [container |-> [workers |-> survivors,
                            length  |-> s.length - removed],
             val |-> removed]
=============================================================================
