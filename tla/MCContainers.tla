---------------------------- MODULE MCContainers ----------------------------
(***************************************************************************)
(* The two data structures that the pool keeps behind a lock, side by      *)
(* side: a behaviour is one of the idle container or one of the overflow   *)
(* buffer.  The names of the workers also name the chunks of the buffer,   *)
(* so that one symmetry serves both.                                       *)
(***************************************************************************)
EXTENDS IdleContainers, TLC

VARIABLES
  structure, \* "idle" or "buffer"
  buf, overflowClosed, given

Buffer == INSTANCE TaskBuffer
            WITH Tasks <- {1, 2}, Chunks <- Workers, TaskChunkSize <- 2,
                 MaxChunkLen <- 5, BatchSize <- 3, Nil <- None,
                 result <- given

bufferVars == <<buf, overflowClosed, given>>
bothVars == <<structure, vars, bufferVars>>

BothInit ==
  /\ structure \in {"idle", "buffer"}
  /\ Init /\ (structure = "buffer" => idleContainerType = "LinkedList")
  /\ Buffer!Init

BothNext ==
  \/ structure = "idle" /\ Next /\ UNCHANGED <<structure, bufferVars>>
  \/ structure = "buffer" /\ Buffer!Next /\ UNCHANGED <<structure, vars>>

BothSpec == BothInit /\ [][BothNext]_bothVars

WorkerSymmetry == Permutations(Workers)

----------------------------------------------------------------------------
(* Properties. *)

\* Buffer: a recycled chunk is out of the list and clean.
RecycledClean == Buffer!RecycledClean

\* The sizes that both structures count apart from their contents, chunkLen
\* and the len or size of a container, are exact.
SizesExact == LenExact /\ Buffer!LenExact

\* Buffer: the chunks behave as one bounded FIFO queue.
RefinesQueue == Buffer!RefinesQueue
=============================================================================
