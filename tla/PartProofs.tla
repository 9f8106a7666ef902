----------------------------- MODULE PartProofs -----------------------------
(***************************************************************************)
(* Proofs about the spin lock and the default pool, for any number of      *)
(* threads, pools and callers.                                             *)
(***************************************************************************)
EXTENDS SpinLock, DefaultPool, TLAPS

(***************************************************************************)
(* The spin lock.                                                          *)
(***************************************************************************)

LockInv ==
  /\ lpc \in [Threads -> {"out", "fast", "backoff", "fallback", "in"}]
  /\ LockWordExact
  /\ MutualExclusion

\* The lock's inductive invariant: the word is 1 exactly while one thread is
\* inside.  A compare-and-swap succeeds on 0 only, so nobody is inside then,
\* and the thread that stores 0 was the only one inside.
LEMMA LockStep == LockInv /\ [LockNext]_lockVars => LockInv'
<1> USE DEF LockInv, LockWordExact, MutualExclusion
<1> SUFFICES ASSUME LockInv, [LockNext]_lockVars PROVE LockInv'
  OBVIOUS
<1>1. CASE UNCHANGED lockVars
  BY <1>1 DEF lockVars
<1>2. ASSUME NEW t \in Threads, Lock(t) PROVE LockInv'
  BY <1>2 DEF Lock
<1>3. ASSUME NEW t \in Threads, CompareAndSwap(t) PROVE LockInv'
  <2>1. CASE state = 0
    BY <1>3, <2>1 DEF CompareAndSwap, Waiting
  <2>2. CASE state = 1
    BY <1>3, <2>2 DEF CompareAndSwap, Waiting, LostTry
  <2> QED BY <2>1, <2>2
<1>4. ASSUME NEW t \in Threads, Unlock(t) PROVE LockInv'
  BY <1>4 DEF Unlock
<1> QED BY <1>1, <1>2, <1>3, <1>4 DEF LockNext

\* Two threads are never inside the section the lock protects, whatever the
\* numbers of tries of the three loops of Lock.
THEOREM LockExcludes == LockSpec => [](MutualExclusion /\ LockWordExact)
<1>1. NewSpinLock => LockInv
  BY DEF NewSpinLock, LockInv, LockWordExact, MutualExclusion
<1>2. LockInv => MutualExclusion /\ LockWordExact
  BY DEF LockInv
<1> QED BY <1>1, <1>2, LockStep, PTL DEF LockSpec

(***************************************************************************)
(* The default pool.                                                       *)
(***************************************************************************)

\* The newest pool has been created, the pointer holds it or nothing, and what
\* was closed when a call began still is.
DefaultInv ==
  /\ life \in [Pools -> {"unborn", "open", "closing", "closed"}]
  /\ found \in [Callers -> Pools \cup {Nil}]
  /\ shut \in [Callers -> SUBSET Pools]
  /\ latest \in Pools \cup {Nil}
  /\ latest # Nil => life[latest] # "unborn"
  /\ DefaultLatest
  /\ \A g \in Callers : \A p \in shut[g] : Closed(p)

LEMMA DefaultStep == DefaultInv /\ [DefaultNext]_defaultVars => DefaultInv'
<1> SUFFICES ASSUME DefaultInv, [DefaultNext]_defaultVars PROVE DefaultInv'
  OBVIOUS
<1> USE PoolsAssumption DEF DefaultInv, DefaultLatest, Closed
<1>1. ASSUME NEW p \in Pools, NewPool(p) PROVE DefaultInv'
  BY <1>1 DEF NewPool
<1>2. ASSUME NEW p \in Pools, CloseFlag(p) PROVE DefaultInv'
  BY <1>2 DEF CloseFlag
<1>3. ASSUME NEW p \in Pools, CloseClear(p) PROVE DefaultInv'
  BY <1>3 DEF CloseClear
<1>4. ASSUME NEW g \in Callers, GetLoad(g) PROVE DefaultInv'
  BY <1>4 DEF GetLoad
<1>5. ASSUME NEW g \in Callers, GetCheck(g) PROVE DefaultInv'
  BY <1>5 DEF GetCheck
<1>6. CASE UNCHANGED defaultVars
  BY <1>6 DEF defaultVars
<1> QED BY <1>1, <1>2, <1>3, <1>4, <1>5, <1>6 DEF DefaultNext

LEMMA DefaultInvariant == DefaultSpec => []DefaultInv
<1>1. DefaultInit => DefaultInv
  BY PoolsAssumption DEF DefaultInit, DefaultInv, DefaultLatest, Closed
<1> QED BY <1>1, DefaultStep, PTL DEF DefaultSpec

\* However the calls of NewPool and Close interleave, the pointer holds the
\* newest pool, or nothing once that pool is closed.
THEOREM DefaultIsLatest == DefaultSpec => []DefaultLatest
<1>1. DefaultInv => DefaultLatest
  BY DEF DefaultInv
<1> QED BY <1>1, DefaultInvariant, PTL

\* GetDefaultPool never hands out a pool that was closed when it was called.
THEOREM GetNeverClosed == DefaultSpec => []GetSound
<1>1. DefaultInv => GetSound
  BY DEF DefaultInv, GetSound, Answer
<1> QED BY <1>1, DefaultInvariant, PTL
=============================================================================
