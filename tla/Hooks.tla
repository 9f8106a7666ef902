------------------------------- MODULE Hooks -------------------------------
(***************************************************************************)
(* The two dispatchers of lifecycle callbacks.                             *)
(*                                                                         *)
(*   static   hook/hook.go: registration appends to a slice under a lock   *)
(*            that Dispatch does not take, so it must precede the tasks.   *)
(*   dynamic  hook/dynamic/dynamic.go: registration publishes a new        *)
(*            snapshot of all the slices, and Dispatch ranges over the one *)
(*            it loaded.                                                   *)
(*                                                                         *)
(* The five Add methods differ in the event they name only, and so do the  *)
(* five Dispatch methods: an event is a parameter.                         *)
(***************************************************************************)
EXTENDS Integers, Sequences, SequencesExt

CONSTANTS
  Registrars,  \* goroutines that register one callback each, named by them
  Dispatchers, \* goroutines that dispatch one event each
  EventOf,     \* the event of each of them
  Nobody

Events == {EventOf[r] : r \in Registrars}

VARIABLES
  kind,     \* "static" or "dynamic"
  snapshot, \* the published callbacks of each event
  mu,       \* the holder of mu
  current,  \* the snapshot a registration has loaded
  added,    \* each registrar: "new", "building", "done"
  calls,    \* the callbacks a dispatch still has to invoke
  invoked,  \* those it has invoked
  dpc,      \* each dispatcher: "new", "running", "done"
  known,    \* history: the registrations that had returned when it began
  begun     \* history: the registrations that had begun when it began

hookVars == <<kind, snapshot, mu, current, added, calls, invoked, dpc,
              known, begun>>

NewHooks ==
  /\ kind \in {"static", "dynamic"}
  /\ snapshot = [e \in Events |-> <<>>]
  /\ mu = Nobody
  /\ current = [r \in Registrars |-> snapshot]
  /\ added = [r \in Registrars |-> "new"]
  /\ calls = [d \in Dispatchers |-> <<>>]
  /\ invoked = [d \in Dispatchers |-> <<>>]
  /\ dpc = [d \in Dispatchers |-> "new"]
  /\ known = [d \in Dispatchers |-> {}]
  /\ begun = [d \in Dispatchers |-> {}]

\* The copy of the other slices and a new slice for the event.
appendCallback(s, r) == [s EXCEPT ![EventOf[r]] = Append(@, r)]

\* Add of hook.go, legal until the first event.
StaticAdd(r) ==
  /\ kind = "static"
  /\ \A d \in Dispatchers : dpc[d] = "new"
  /\ added[r] = "new"
  /\ added' = [added EXCEPT ![r] = "done"]
  /\ snapshot' = appendCallback(snapshot, r)
  /\ UNCHANGED <<kind, mu, current, calls, invoked, dpc, known, begun>>

\* Variant: mu is not taken.
AddLoadUnlocked(r) ==
  /\ kind = "dynamic"
  /\ added[r] = "new"
  /\ added' = [added EXCEPT ![r] = "building"]
  /\ current' = [current EXCEPT ![r] = snapshot]
  /\ UNCHANGED <<kind, snapshot, mu, calls, invoked, dpc, known, begun>>

\* Add of dynamic.go: lock and load, then build, publish and unlock.
AddLoad(r) ==
  /\ kind = "dynamic"
  /\ added[r] = "new"
  /\ mu = Nobody
  /\ mu' = r
  /\ added' = [added EXCEPT ![r] = "building"]
  /\ current' = [current EXCEPT ![r] = snapshot]
  /\ UNCHANGED <<kind, snapshot, calls, invoked, dpc, known, begun>>

AddStore(r) ==
  /\ added[r] = "building"
  /\ snapshot' = appendCallback(current[r], r)
  /\ mu' = Nobody
  /\ added' = [added EXCEPT ![r] = "done"]
  /\ UNCHANGED <<kind, current, calls, invoked, dpc, known, begun>>

\* The range expression of Dispatch is evaluated once.
DispatchLoad(d) ==
  /\ dpc[d] = "new"
  /\ dpc' = [dpc EXCEPT ![d] = "running"]
  /\ calls' = [calls EXCEPT ![d] = snapshot[EventOf[d]]]
  /\ known' = [known EXCEPT ![d] = {r \in Registrars : added[r] = "done"}]
  /\ begun' = [begun EXCEPT ![d] = {r \in Registrars : added[r] # "new"}]
  /\ UNCHANGED <<kind, snapshot, mu, current, added, invoked>>

\* Variant: a panic leaves the loop, not only the callback.
InvokeUnguarded(d) ==
  /\ dpc[d] = "running" /\ calls[d] # <<>>
  /\ \E panics \in BOOLEAN :
       calls' = [calls EXCEPT ![d] = IF panics THEN <<>> ELSE Tail(@)]
  /\ invoked' = [invoked EXCEPT ![d] = Append(@, Head(calls[d]))]
  /\ UNCHANGED <<kind, snapshot, mu, current, added, dpc, known, begun>>

\* invoke: the callback returns, or panics and is recovered.
Invoke(d) ==
  /\ dpc[d] = "running" /\ calls[d] # <<>>
  /\ calls' = [calls EXCEPT ![d] = Tail(@)]
  /\ invoked' = [invoked EXCEPT ![d] = Append(@, Head(calls[d]))]
  /\ UNCHANGED <<kind, snapshot, mu, current, added, dpc, known, begun>>

DispatchReturn(d) ==
  /\ dpc[d] = "running" /\ calls[d] = <<>>
  /\ dpc' = [dpc EXCEPT ![d] = "done"]
  /\ UNCHANGED <<kind, snapshot, mu, current, added, calls, invoked, known,
                 begun>>

HookNext ==
  \/ \E r \in Registrars : StaticAdd(r) \/ AddLoad(r) \/ AddStore(r)
  \/ \E d \in Dispatchers : DispatchLoad(d) \/ Invoke(d) \/ DispatchReturn(d)

HookSpec == NewHooks /\ [][HookNext]_hookVars

----------------------------------------------------------------------------
(* Properties. *)

For(d, rs) == {r \in rs : EventOf[r] = EventOf[d]}

\* A dispatch that has returned has invoked, in the order of registration and
\* once each, every callback of its event whose Add had returned before it
\* began and none whose Add had not begun by then, although other callbacks
\* were registered meanwhile, for this event or another, and some panicked.
DispatchExact ==
  \A d \in Dispatchers : dpc[d] = "done" =>
    /\ For(d, known[d]) \subseteq ToSet(invoked[d])
    /\ ToSet(invoked[d]) \subseteq For(d, begun[d])
    /\ IsPrefix(invoked[d], snapshot[EventOf[d]])
    /\ IsInjective(invoked[d])

\* A published registration stays published: the next snapshot of an event
\* always extends the one before.
SnapshotsGrow == [][\A e \in Events : IsPrefix(snapshot[e], snapshot'[e])]_hookVars
=============================================================================
