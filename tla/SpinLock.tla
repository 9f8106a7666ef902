------------------------------ MODULE SpinLock ------------------------------
(***************************************************************************)
(* spinLock of spinlock.go, which WithLockType selects for muIdle: one     *)
(* word, taken by a compare-and-swap that is tried FastSpinTries times at  *)
(* full speed, MaxRounds times with a growing back-off, then for ever.     *)
(* What the yields between two tries change is the schedule only, so a try *)
(* is one step and any number of other steps may come between two tries.   *)
(***************************************************************************)
EXTENDS Integers

CONSTANTS
  Threads,
  FastSpinTries, \* fastSpinTries
  MaxRounds      \* maxRounds

VARIABLES
  state, \* state: 0 is unlocked, 1 is locked
  lpc,   \* where each thread is in Lock, or "out", or "in" its section
  tries  \* the counter of the loop a thread is in

lockVars == <<state, lpc, tries>>

NewSpinLock ==
  /\ state = 0
  /\ lpc = [t \in Threads |-> "out"]
  /\ tries = [t \in Threads |-> 0]

Lock(t) ==
  /\ lpc[t] = "out"
  /\ lpc' = [lpc EXCEPT ![t] = "fast"]
  /\ tries' = [tries EXCEPT ![t] = 0]
  /\ UNCHANGED state

\* A failed try: the next one of the same loop, or the next loop.
LostTry(t, loop, bound, nextLoop) ==
  /\ lpc[t] = loop
  /\ \/ /\ tries[t] + 1 < bound
        /\ tries' = [tries EXCEPT ![t] = @ + 1]
        /\ UNCHANGED lpc
     \/ /\ tries[t] + 1 >= bound
        /\ tries' = [tries EXCEPT ![t] = 0]
        /\ lpc' = [lpc EXCEPT ![t] = nextLoop]

Waiting(t) == lpc[t] \in {"fast", "backoff", "fallback"}

\* Variant: the word is loaded and stored, not swapped, in the last loop.
TryWithoutSwap(t) ==
  /\ Waiting(t)
  /\ \/ /\ state = 0 \/ lpc[t] = "fallback"
        /\ state' = 1
        /\ lpc' = [lpc EXCEPT ![t] = "in"]
        /\ UNCHANGED tries
     \/ /\ state = 1
        /\ \/ LostTry(t, "fast", FastSpinTries, "backoff")
           \/ LostTry(t, "backoff", MaxRounds, "fallback")
        /\ UNCHANGED state

\* CompareAndSwapInt32(&s.state, 0, 1) in any of the three loops.
CompareAndSwap(t) ==
  /\ Waiting(t)
  /\ \/ /\ state = 0
        /\ state' = 1
        /\ lpc' = [lpc EXCEPT ![t] = "in"]
        /\ UNCHANGED tries
     \/ /\ state = 1
        /\ \/ LostTry(t, "fast", FastSpinTries, "backoff")
           \/ LostTry(t, "backoff", MaxRounds, "fallback")
           \/ lpc[t] = "fallback" /\ UNCHANGED <<lpc, tries>>
        /\ UNCHANGED state

Unlock(t) ==
  /\ lpc[t] = "in"
  /\ state' = 0
  /\ lpc' = [lpc EXCEPT ![t] = "out"]
  /\ UNCHANGED tries

LockNext == \E t \in Threads : Lock(t) \/ CompareAndSwap(t) \/ Unlock(t)

LockSpec == NewSpinLock /\ [][LockNext]_lockVars

\* At most one thread is between Lock and Unlock, in whichever of the three
\* loops it obtained the lock.
MutualExclusion ==
  \A s, t \in Threads : lpc[s] = "in" /\ lpc[t] = "in" => s = t

\* The word tells whether a thread is inside: 0 with a thread inside would let
\* a second one in, 1 with nobody inside would keep every thread out for ever.
LockWordExact == state = IF \E t \in Threads : lpc[t] = "in" THEN 1 ELSE 0
=============================================================================
