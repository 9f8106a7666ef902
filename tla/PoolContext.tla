---------------------------- MODULE PoolContext ----------------------------
(***************************************************************************)
(* The pooled task context of internal/context: a parent, a map of labels  *)
(* behind a mutex, a trace id made on demand, and a sync.Pool the contexts *)
(* are recycled through.  A goroutine uses at most one context, which      *)
(* others may share with it or derive theirs from; as Release asks, its    *)
(* last user releases it, once, when no other context derives from it.     *)
(***************************************************************************)
EXTENDS Integers, FiniteSets

CONSTANTS Ctxs, Goroutines, Background, None

Keys == {"trace_id", "user"}

VARIABLES
  labels,      \* the map of each context, None where a key is absent
  parent,      \* what NewContext wrapped, None outside NewContext and Release
  contextPool, \* the released contexts
  using,       \* the context a goroutine uses
  tpc,         \* "idle", or "generate" inside TraceID's slow path
  ids,         \* history: the trace ids given out or set since the last set
  stored       \* history: what was last stored under a key since NewContext

contextVars == <<labels, parent, contextPool, using, tpc, ids, stored>>

NoLabels == [k \in Keys |-> None]

ContextInit ==
  /\ labels = [c \in Ctxs |-> NoLabels]
  /\ parent = [c \in Ctxs |-> None]
  /\ contextPool = {}
  /\ using = [g \in Goroutines |-> None]
  /\ tpc = [g \in Goroutines |-> "idle"]
  /\ ids = [c \in Ctxs |-> {}]
  /\ stored = [c \in Ctxs |-> NoLabels]

Live == {c \in Ctxs : parent[c] # None}

\* contextPool.Get: a recycled context, with the labels it has, or a new one,
\* with none.
NewContext(g, p) ==
  /\ using[g] = None
  /\ \E c \in Ctxs \ Live :
       /\ parent' = [parent EXCEPT ![c] = p]
       /\ contextPool' = contextPool \ {c}
       /\ using' = [using EXCEPT ![g] = c]
  /\ UNCHANGED <<labels, tpc, ids, stored>>

\* A goroutine hands its context to another one, or stops using a shared one.
Share(g, h) ==
  /\ using[g] # None /\ using[h] = None
  /\ using' = [using EXCEPT ![h] = using[g]]
  /\ UNCHANGED <<labels, parent, contextPool, tpc, ids, stored>>

Leave(g) ==
  /\ using[g] # None /\ tpc[g] = "idle"
  /\ \E h \in Goroutines \ {g} : using[h] = using[g]
  /\ using' = [using EXCEPT ![g] = None]
  /\ UNCHANGED <<labels, parent, contextPool, tpc, ids, stored>>

Put(c, k, v) ==
  /\ labels' = [labels EXCEPT ![c][k] = v]
  /\ stored' = [stored EXCEPT ![c][k] = v]

\* Store, and with other keys EnableTiming and the stamps of a timing hook.
Store(g) ==
  /\ using[g] # None /\ tpc[g] = "idle"
  /\ Put(using[g], "user", g)
  /\ UNCHANGED <<parent, contextPool, using, tpc, ids>>

SetTraceID(g, id) ==
  /\ using[g] # None /\ tpc[g] = "idle"
  /\ Put(using[g], "trace_id", id)
  /\ ids' = [ids EXCEPT ![using[g]] = {id} \ {""}]
  /\ UNCHANGED <<parent, contextPool, using, tpc>>

\* An id is named by the goroutine it comes from; "" is the empty string.
\* The trace id TraceID finds, None for one it has to make.
TraceLabel(c) ==
  IF labels[c]["trace_id"] = "" THEN None ELSE labels[c]["trace_id"]

Returns(c, id) == ids' = [ids EXCEPT ![c] = @ \cup {id}]

\* The fast path of TraceID, or the fall into the slow one.
TraceID(g) ==
  /\ using[g] # None /\ tpc[g] = "idle"
  /\ \/ /\ TraceLabel(using[g]) # None
        /\ Returns(using[g], TraceLabel(using[g]))
        /\ UNCHANGED tpc
     \/ /\ TraceLabel(using[g]) = None
        /\ tpc' = [tpc EXCEPT ![g] = "generate"]
        /\ UNCHANGED ids
  /\ UNCHANGED <<labels, parent, contextPool, using, stored>>

\* Variant: the label is not looked at again after newTraceID.
TraceIDUnchecked(g) ==
  /\ tpc[g] = "generate"
  /\ tpc' = [tpc EXCEPT ![g] = "idle"]
  /\ \/ UNCHANGED <<labels, ids, stored>>
     \/ Put(using[g], "trace_id", g) /\ Returns(using[g], g)
  /\ UNCHANGED <<parent, contextPool, using>>

\* The rest of the slow path: newTraceID fails, or the label is looked at
\* again and the id stored if it is still absent.
TraceIDStore(g) ==
  LET c == using[g] IN
  /\ tpc[g] = "generate"
  /\ tpc' = [tpc EXCEPT ![g] = "idle"]
  /\ \/ UNCHANGED <<labels, ids, stored>>
     \/ TraceLabel(c) # None /\ Returns(c, TraceLabel(c)) /\ UNCHANGED <<labels, stored>>
     \/ TraceLabel(c) = None /\ Put(c, "trace_id", g) /\ Returns(c, g)
  /\ UNCHANGED <<parent, contextPool, using>>


Reset(c) == labels' = [labels EXCEPT ![c] = NoLabels]

Release(g) ==
  LET c == using[g] IN
  /\ c # None /\ tpc[g] = "idle"
  /\ \A h \in Goroutines \ {g} : using[h] # c
  /\ \A d \in Ctxs : parent[d] # c
  /\ Reset(c)
  /\ parent' = [parent EXCEPT ![c] = None]
  /\ contextPool' = contextPool \cup {c}
  /\ using' = [using EXCEPT ![g] = None]
  /\ ids' = [ids EXCEPT ![c] = {}]
  /\ stored' = [stored EXCEPT ![c] = NoLabels]
  /\ UNCHANGED tpc

ContextNext ==
  \E g \in Goroutines :
    \/ \E p \in {Background} \cup Live : NewContext(g, p)
    \/ \E h \in Goroutines : Share(g, h)
    \/ Leave(g) \/ Store(g) \/ TraceID(g) \/ TraceIDStore(g) \/ Release(g)
    \/ \E id \in {g, ""} : SetTraceID(g, id)

ContextSpec == ContextInit /\ [][ContextNext]_contextVars

----------------------------------------------------------------------------
(* Properties. *)

\* Value of a string key: the label of the first context that has it on the
\* way from c up the chain of parents.
ValueFrom(c, k) ==
  LET up[n \in 0 .. Cardinality(Ctxs)] ==
        IF n = 0 THEN c
        ELSE LET d == up[n - 1] IN
             IF d \in Ctxs /\ labels[d][k] = None THEN parent[d] ELSE d
  IN up[Cardinality(Ctxs)]

\* All callers of TraceID on one context are given one id until SetTraceID
\* sets another, however the calls race with each other and with SetTraceID.
TraceAgreement == \A c \in Ctxs : Cardinality(ids[c]) <= 1

=============================================================================
