---------------------------- MODULE IdleContainer ----------------------------
(***************************************************************************)
(* What an idle container promises the pool: it gives back the workers put *)
(* into it, each once, in order of arrival or oldest first, and drops      *)
(* exactly the expired ones.                                               *)
(***************************************************************************)
EXTENDS Integers, FiniteSets, Sequences

CONSTANTS Workers, Expiry, MaxTime, None

VARIABLES
  fifo,    \* Pop follows the order of arrival, not the dates
  held,    \* the workers in the container
  queue,   \* the same in order of arrival, if fifo
  dated,   \* the time each worker was last active
  now,
  result   \* what the last call returned

vars == <<fifo, held, queue, dated, now, result>>

Init ==
  /\ fifo \in BOOLEAN
  /\ held = {} /\ queue = <<>>
  /\ dated = [w \in Workers |-> 0]
  /\ now = 0
  /\ result = None

Add(w) ==
  /\ w \notin held
  /\ held' = held \cup {w}
  /\ queue' = IF fifo THEN Append(queue, w) ELSE queue
  /\ result' = None
  /\ UNCHANGED <<fifo, dated, now>>

PopNothing ==
  /\ held = {}
  /\ result' = None
  /\ UNCHANGED <<fifo, held, queue, dated, now>>

Pop(w) ==
  /\ w \in held
  /\ \/ fifo /\ w = Head(queue) /\ queue' = Tail(queue)
     \/ ~fifo /\ (\A v \in held : dated[w] <= dated[v]) /\ UNCHANGED queue
  /\ held' = held \ {w}
  /\ result' = w
  /\ UNCHANGED <<fifo, dated, now>>

RemoveExpired ==
  LET Fresh(w) == dated[w] + Expiry > now
  IN /\ held' = {w \in held : Fresh(w)}
     /\ queue' = SelectSeq(queue, Fresh)
     /\ result' = Cardinality(held \ held')
     /\ UNCHANGED <<fifo, dated, now>>

\* Time passes, and workers outside the container are active.
Outside ==
  /\ \/ now < MaxTime /\ now' = now + 1 /\ UNCHANGED dated
     \/ \E w \in Workers \ held :
          dated' = [dated EXCEPT ![w] = now] /\ UNCHANGED now
  /\ UNCHANGED <<fifo, held, queue, result>>

Next ==
  \/ \E w \in Workers : Add(w) \/ Pop(w)
  \/ PopNothing \/ RemoveExpired \/ Outside

Spec == Init /\ [][Next]_vars
=============================================================================
