--------------------------- MODULE IdleContainers ---------------------------
(***************************************************************************)
(* The five idle containers behind idleWorks, used the way the pool uses   *)
(* them: parking workers are added, the scaler pops, the cleaner removes   *)
(* the expired.  muIdle serialises the calls, so each is one step.  The    *)
(* type is chosen when the pool is made and never changes.                 *)
(***************************************************************************)
EXTENDS Integers, FiniteSets, Sequences

CONSTANTS
  Workers,
  Expiry,            \* how long a worker may stay idle
  MaxTime,           \* bound on the clock
  DefaultCapacity,   \* the ring's first size
  Priorities,        \* what rand.Int may return
  None

VARIABLES
  idleContainerType, idleWorks,
  lastActiveAt,      \* per worker
  now,               \* the clock
  result             \* what the last call returned

vars == <<idleContainerType, idleWorks, lastActiveAt, now, result>>

LL == INSTANCE LinkedList
MH == INSTANCE MinHeap
SL == INSTANCE IdleSlice
RQ == INSTANCE RingQueue
TR == INSTANCE Treap

Types == {"LinkedList", "MinHeap", "Slice", "RingQueue", "Treap"}

Contents ==
  CASE idleContainerType = "LinkedList" -> LL!Contents(idleWorks)
    [] idleContainerType = "MinHeap"    -> idleWorks.inner
    [] idleContainerType = "Slice"      -> idleWorks.workers
    [] idleContainerType = "RingQueue"  -> RQ!Contents(idleWorks)
    [] idleContainerType = "Treap"      -> TR!Contents(idleWorks)

Held == {Contents[i] : i \in DOMAIN Contents}

Init ==
  /\ idleContainerType \in Types
  /\ idleWorks = CASE idleContainerType = "LinkedList" -> LL!NewLinkedList
                   [] idleContainerType = "MinHeap"    -> MH!NewMinHeap
                   [] idleContainerType = "Slice"      -> SL!NewSlice
                   [] idleContainerType = "RingQueue"  -> RQ!NewRingQueue
                   [] idleContainerType = "Treap"      -> TR!NewTreap
  /\ lastActiveAt = [w \in Workers |-> 0]
  /\ now = 0
  /\ result = None

\* A worker parks.  Only a worker that runs can park, and a running one is not
\* in the container.
addToIdle(w) ==
  /\ w \notin Held
  /\ \/ idleContainerType = "LinkedList" /\ idleWorks' = LL!Add(idleWorks, w)
     \/ /\ idleContainerType = "MinHeap"
        /\ idleWorks' = MH!Add(idleWorks, w, lastActiveAt)
     \/ idleContainerType = "Slice" /\ idleWorks' = SL!Add(idleWorks, w)
     \/ idleContainerType = "RingQueue" /\ idleWorks' = RQ!Add(idleWorks, w)
     \/ /\ idleContainerType = "Treap"
        /\ \E node \in idleWorks.pool \cup {TR!newNode}, p \in Priorities :
             idleWorks' = TR!Add(idleWorks, w, node, p, lastActiveAt)
  /\ result' = None
  /\ UNCHANGED <<idleContainerType, lastActiveAt, now>>

\* The call returned r.
Returns(r) ==
  /\ idleWorks' = r.container
  /\ result' = r.val
  /\ UNCHANGED <<idleContainerType, lastActiveAt, now>>

\* The scaler takes a worker to start, or finds none.
Pop ==
  \/ idleContainerType = "LinkedList" /\ Returns(LL!Pop(idleWorks))
  \/ idleContainerType = "MinHeap" /\ Returns(MH!Pop(idleWorks, lastActiveAt))
  \/ idleContainerType = "Slice" /\ Returns(SL!Pop(idleWorks))
  \/ idleContainerType = "RingQueue" /\ Returns(RQ!Pop(idleWorks))
  \/ idleContainerType = "Treap" /\ Returns(TR!Pop(idleWorks))

\* A tick of expiredWorkerCleaner.
RemoveExpired ==
  \/ /\ idleContainerType = "LinkedList"
     /\ Returns(LL!RemoveExpired(idleWorks, lastActiveAt, now))
  \/ /\ idleContainerType = "MinHeap"
     /\ Returns(MH!RemoveExpired(idleWorks, lastActiveAt, now))
  \/ /\ idleContainerType = "Slice"
     /\ Returns(SL!RemoveExpired(idleWorks, lastActiveAt, now))
  \/ /\ idleContainerType = "RingQueue"
     /\ Returns(RQ!RemoveExpired(idleWorks, lastActiveAt, now))
  \/ /\ idleContainerType = "Treap"
     /\ Returns(TR!RemoveExpired(idleWorks, lastActiveAt, now))

\* A worker that runs begins a task.
BeginTask(w) ==
  /\ w \notin Held
  /\ lastActiveAt' = [lastActiveAt EXCEPT ![w] = now]
  /\ UNCHANGED <<idleContainerType, idleWorks, now, result>>

Tick ==
  /\ now < MaxTime
  /\ now' = now + 1
  /\ UNCHANGED <<idleContainerType, idleWorks, lastActiveAt, result>>

Next ==
  \/ \E w \in Workers : addToIdle(w) \/ BeginTask(w)
  \/ Pop \/ RemoveExpired \/ Tick

Spec == Init /\ [][Next]_vars

----------------------------------------------------------------------------
(* Properties. *)

\* The counter behind Len, which GetIdleWorkerCount reads without the lock.
Length ==
  IF idleContainerType \in {"MinHeap", "Treap"} THEN idleWorks.size
                                                ELSE idleWorks.length

\* The counter that each container updates beside its structure counts the
\* workers in it, each of them once.
LenExact == Length = Cardinality(Held) /\ Len(Contents) = Cardinality(Held)

\* Removal in the middle, growth and recycling leave the structure intact:
\* the list's two directions agree, the ring's and the treap's free slots and
\* nodes hold no worker, the heap and the treap are ordered.
StructureSound ==
  CASE idleContainerType = "LinkedList" -> LL!WellFormed(idleWorks)
    [] idleContainerType = "MinHeap"    -> MH!WellFormed(idleWorks, lastActiveAt)
    [] idleContainerType = "Slice"      -> TRUE
    [] idleContainerType = "RingQueue"  -> RQ!WellFormed(idleWorks)
    [] idleContainerType = "Treap"      -> TR!WellFormed(idleWorks, lastActiveAt)

Fifo == idleContainerType \in {"LinkedList", "Slice", "RingQueue"}

Promise == INSTANCE IdleContainer
             WITH fifo  <- Fifo,
                  held  <- Held,
                  queue <- IF Fifo THEN Contents ELSE <<>>,
                  dated <- lastActiveAt

\* Add, Pop and RemoveExpired of each container, their return values included,
\* do what IdleContainer says: list, slice and ring are FIFO, heap and treap
\* give the least recently active worker, and the dates compared with the
\* cutoff or with the present drop the same workers.
RefinesContainer == Promise!Spec
=============================================================================
