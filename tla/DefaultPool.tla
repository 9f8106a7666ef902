---------------------------- MODULE DefaultPool ----------------------------
(***************************************************************************)
(* The package-level default pool: NewPool stores the pool it made, Close  *)
(* clears the pointer if it still holds that pool, and GetDefaultPool      *)
(* loads the pointer and then the closed flag of what it found.            *)
(***************************************************************************)

CONSTANTS Pools, Callers, Nil

ASSUME PoolsAssumption == Nil \notin Pools

VARIABLES
  defaultPool, \* the pointer
  life,        \* each pool: "unborn", "open", "closing" (flag set), "closed"
  found,       \* what a caller of GetDefaultPool has loaded, Nil outside
  shut,        \* history: the pools closed when the caller's call began
  latest       \* history: the pool created last

defaultVars == <<defaultPool, life, found, shut, latest>>

Closed(p) == life[p] \in {"closing", "closed"}

DefaultInit ==
  /\ defaultPool = Nil
  /\ life = [p \in Pools |-> "unborn"]
  /\ found = [g \in Callers |-> Nil]
  /\ shut = [g \in Callers |-> {}]
  /\ latest = Nil

NewPool(p) ==
  /\ life[p] = "unborn"
  /\ life' = [life EXCEPT ![p] = "open"]
  /\ defaultPool' = p
  /\ latest' = p
  /\ UNCHANGED <<found, shut>>

\* The swap of closed by the first Close; later calls return at once.
CloseFlag(p) ==
  /\ life[p] = "open"
  /\ life' = [life EXCEPT ![p] = "closing"]
  /\ UNCHANGED <<defaultPool, found, shut, latest>>

\* Variant: Close clears the pointer whatever it holds.
ClearAny(p) ==
  /\ life[p] = "closing"
  /\ life' = [life EXCEPT ![p] = "closed"]
  /\ defaultPool' = Nil
  /\ UNCHANGED <<found, shut, latest>>

\* defaultPool.CompareAndSwap(p, nil)
CloseClear(p) ==
  /\ life[p] = "closing"
  /\ life' = [life EXCEPT ![p] = "closed"]
  /\ defaultPool' = IF defaultPool = p THEN Nil ELSE defaultPool
  /\ UNCHANGED <<found, shut, latest>>

\* The load; a nil pointer is the answer.
GetLoad(g) ==
  /\ found[g] = Nil
  /\ found' = [found EXCEPT ![g] = defaultPool]
  /\ shut' = [shut EXCEPT ![g] = {p \in Pools : Closed(p)}]
  /\ UNCHANGED <<defaultPool, life, latest>>

\* Variant: the closed flag is not looked at.
AnswerUnchecked(p) == p

\* What GetDefaultPool makes of the pool it loaded.
Answer(p) == IF Closed(p) THEN Nil ELSE p

GetCheck(g) ==
  /\ found[g] # Nil
  /\ found' = [found EXCEPT ![g] = Nil]
  /\ UNCHANGED <<defaultPool, life, shut, latest>>

DefaultNext ==
  \/ \E p \in Pools : NewPool(p) \/ CloseFlag(p) \/ CloseClear(p)
  \/ \E g \in Callers : GetLoad(g) \/ GetCheck(g)

DefaultSpec == DefaultInit /\ [][DefaultNext]_defaultVars

\* The pointer follows the newest pool: it never holds an older one, and the
\* Close of an older pool, however late, never takes a newer open one away.
DefaultLatest ==
  /\ defaultPool \in {latest, Nil}
  /\ latest # Nil /\ defaultPool = Nil => Closed(latest)

\* GetDefaultPool never answers with a pool that was already closed when the
\* call began.
GetSound ==
  \A g \in Callers :
    found[g] # Nil /\ Answer(found[g]) # Nil => Answer(found[g]) \notin shut[g]
=============================================================================
