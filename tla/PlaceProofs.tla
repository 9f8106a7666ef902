---------------------------- MODULE PlaceProofs ----------------------------
(***************************************************************************)
(* Where the tasks of AgilePool are, and how the steps of submitters and   *)
(* workers move them: a task is in one place at a time.                    *)
(***************************************************************************)
EXTENDS WorkerProofs

(***************************************************************************)
(* What the operations on sequences do to the set of their elements.       *)
(***************************************************************************)

LEMMA AppendSet ==
  ASSUME NEW S, NEW q \in Seq(S), NEW e \in S
  PROVE  /\ ToSet(Append(q, e)) = ToSet(q) \cup {e}
         /\ IsInjective(q) /\ e \notin ToSet(q) => IsInjective(Append(q, e))
<1>1. /\ Len(q) \in Nat /\ DOMAIN q = 1 .. Len(q)
      /\ DOMAIN Append(q, e) = 1 .. Len(q) + 1
      /\ \A i \in 1 .. Len(q) : Append(q, e)[i] = q[i]
      /\ Append(q, e)[Len(q) + 1] = e
  BY AppendProperties, LenProperties
<1>2. ToSet(Append(q, e)) = ToSet(q) \cup {e}
  BY <1>1 DEF ToSet
<1>3. IsInjective(q) /\ e \notin ToSet(q) => IsInjective(Append(q, e))
  BY <1>1 DEF ToSet, IsInjective
<1> QED BY <1>2, <1>3

LEMMA TailSet ==
  ASSUME NEW S, NEW q \in Seq(S), q # <<>>
  PROVE  /\ ToSet(q) = {Head(q)} \cup ToSet(Tail(q))
         /\ IsInjective(q) => /\ Head(q) \notin ToSet(Tail(q))
                              /\ IsInjective(Tail(q))
<1>1. /\ Len(q) \in Nat /\ Len(q) > 0 /\ DOMAIN q = 1 .. Len(q)
      /\ Head(q) = q[1]
      /\ DOMAIN Tail(q) = 1 .. Len(q) - 1
      /\ \A i \in 1 .. Len(q) - 1 : Tail(q)[i] = q[i + 1]
  BY HeadTailProperties, LenProperties, EmptySeq
<1>2. ToSet(q) \subseteq {Head(q)} \cup ToSet(Tail(q))
  <2> SUFFICES ASSUME NEW i \in 1 .. Len(q), i # 1
               PROVE  q[i] \in ToSet(Tail(q))
    BY <1>1 DEF ToSet
  <2>1. i - 1 \in 1 .. Len(q) - 1 /\ Tail(q)[i - 1] = q[i]
    BY <1>1
  <2> QED BY <1>1, <2>1 DEF ToSet
<1>3. {Head(q)} \cup ToSet(Tail(q)) \subseteq ToSet(q)
  BY <1>1 DEF ToSet
<1>4. IsInjective(q) => Head(q) \notin ToSet(Tail(q)) /\ IsInjective(Tail(q))
  BY <1>1 DEF ToSet, IsInjective
<1> QED BY <1>2, <1>3, <1>4

LEMMA SplitSet ==
  ASSUME NEW S, NEW q \in Seq(S), NEW n \in Nat, n <= Len(q)
  PROVE  LET taken == SubSeq(q, 1, n)
             left  == SubSeq(q, n + 1, Len(q))
         IN  /\ ToSet(q) = ToSet(taken) \cup ToSet(left)
             /\ IsInjective(q) => /\ IsInjective(taken) /\ IsInjective(left)
                                  /\ ToSet(taken) \cap ToSet(left) = {}
<1> DEFINE taken == SubSeq(q, 1, n)
           left  == SubSeq(q, n + 1, Len(q))
<1>1. /\ Len(q) \in Nat /\ DOMAIN q = 1 .. Len(q)
      /\ \A i \in 1 .. Len(q) : q[i] \in S
  BY LenProperties
<1>2. /\ DOMAIN taken = 1 .. n
      /\ \A i \in 1 .. n : taken[i] = q[i]
  BY <1>1, SubSeqProperties
<1>3. /\ DOMAIN left = 1 .. Len(q) - n
      /\ \A i \in 1 .. Len(q) - n : left[i] = q[n + i]
  BY <1>1, SubSeqProperties
<1> HIDE DEF taken, left
<1>4. ToSet(q) \subseteq ToSet(taken) \cup ToSet(left)
  <2> SUFFICES ASSUME NEW i \in 1 .. Len(q), ~(i \in 1 .. n)
               PROVE  q[i] \in ToSet(left)
    BY <1>1, <1>2 DEF ToSet
  <2>1. i - n \in 1 .. Len(q) - n /\ left[i - n] = q[i]
    BY <1>1, <1>3
  <2> QED BY <1>3, <2>1 DEF ToSet
<1>5. /\ \A i \in 1 .. n : i \in 1 .. Len(q)
      /\ \A i \in 1 .. Len(q) - n : n + i \in 1 .. Len(q)
  BY <1>1
<1>6. ToSet(taken) \subseteq ToSet(q)
  BY <1>1, <1>2, <1>5 DEF ToSet
<1>7. ToSet(left) \subseteq ToSet(q)
  BY <1>1, <1>3, <1>5 DEF ToSet
<1>8. ASSUME IsInjective(q)
      PROVE  /\ IsInjective(taken) /\ IsInjective(left)
             /\ ToSet(taken) \cap ToSet(left) = {}
  <2>1. \A i, j \in 1 .. Len(q) : q[i] = q[j] => i = j
    BY <1>1, <1>8 DEF IsInjective
  <2>2. IsInjective(taken)
    BY <1>2, <1>5, <2>1 DEF IsInjective
  <2>3. IsInjective(left)
    <3> SUFFICES ASSUME NEW i \in 1 .. Len(q) - n, NEW j \in 1 .. Len(q) - n,
                        left[i] = left[j]
                 PROVE  i = j
      BY <1>3 DEF IsInjective
    <3>1. n + i = n + j
      BY <1>3, <1>5, <2>1
    <3> QED BY <3>1
  <2>4. \A i \in 1 .. n, j \in 1 .. Len(q) - n : taken[i] # left[j]
    <3> SUFFICES ASSUME NEW i \in 1 .. n, NEW j \in 1 .. Len(q) - n,
                        taken[i] = left[j]
                 PROVE  FALSE
      OBVIOUS
    <3>1. i = n + j
      BY <1>2, <1>3, <1>5, <2>1
    <3> QED BY <3>1
  <2>5. ToSet(taken) \cap ToSet(left) = {}
    BY <1>2, <1>3, <2>4 DEF ToSet
  <2> QED BY <2>2, <2>3, <2>5
<1> QED BY <1>4, <1>6, <1>7, <1>8 DEF taken, left

(***************************************************************************)
(* Places.  A task that the pool has taken is in the overflow buffer, in a *)
(* handoff channel or in the hands of a worker.                            *)
(***************************************************************************)

Buffer    == <<"buffer", 0>>
Shard(s)  == <<"shard", s>>
Hand(w)   == <<"hand", w>>
OffBuffer == {Shard(s) : s \in Shards} \cup {Hand(w) : w \in Workers}
Places    == {Buffer} \cup OffBuffer

At(p) == IF p[1] = "buffer" THEN taskBuf
         ELSE IF p[1] = "shard" THEN taskQueues[p[2]] ELSE InHand(p[2])

\* The tasks in the buffer, and those beyond it.
Buffered == ToSet(taskBuf)
Beyond   == UNION {ToSet(At(p)) : p \in OffBuffer}

\* A task is in one place, once.
OnePlace ==
  /\ \A p \in Places : IsInjective(At(p))
  /\ \A p, q \in Places : p # q => ToSet(At(p)) \cap ToSet(At(q)) = {}

\* Reading the places.
LEMMA AtIs ==
  /\ At(Buffer) = taskBuf /\ At(Buffer)' = taskBuf'
  /\ \A s \in Shards : At(Shard(s)) = taskQueues[s]
                       /\ At(Shard(s))' = taskQueues'[s]
  /\ \A w \in Workers : At(Hand(w)) = InHand(w) /\ At(Hand(w))' = InHand(w)'
BY DEF At, Buffer, Shard, Hand

LEMMA PlacesDiffer ==
  /\ Buffer \in Places /\ Buffer \notin OffBuffer
  /\ OffBuffer \subseteq Places
  /\ \A s \in Shards : Shard(s) \in OffBuffer
  /\ \A w \in Workers : Hand(w) \in OffBuffer
  /\ \A s, r \in Shards : Shard(s) = Shard(r) => s = r
  /\ \A v, w \in Workers : Hand(v) = Hand(w) => v = w
  /\ \A s \in Shards, w \in Workers : Shard(s) # Hand(w)
BY DEF Places, OffBuffer, Buffer, Shard, Hand

\* The places other than p and q keep what they have; p and q share out what
\* they had, and perhaps tasks that were in no place.
LEMMA Rearranged ==
  ASSUME OnePlace, NEW p \in Places, NEW q \in Places, NEW fresh,
         \A r \in Places \ {p, q} : At(r)' = At(r),
         \A r \in Places : ToSet(At(r)) \cap fresh = {},
         IsInjective(At(p)'), IsInjective(At(q)'),
         p # q => ToSet(At(p)') \cap ToSet(At(q)') = {},
         ToSet(At(p)') \cup ToSet(At(q)')
           \subseteq ToSet(At(p)) \cup ToSet(At(q)) \cup fresh
  PROVE  OnePlace'
<1>1. \A r \in Places : IsInjective(At(r)')
  BY DEF OnePlace
<1>2. ASSUME NEW a \in Places, NEW b \in Places, a # b
      PROVE  ToSet(At(a)') \cap ToSet(At(b)') = {}
  <2>1. CASE a \in {p, q} /\ b \in {p, q}
    BY <1>2, <2>1
  <2>2. CASE a \in {p, q} /\ b \notin {p, q}
    BY <2>2 DEF OnePlace
  <2>3. CASE a \notin {p, q} /\ b \in {p, q}
    BY <2>3 DEF OnePlace
  <2>4. CASE a \notin {p, q} /\ b \notin {p, q}
    BY <1>2, <2>4 DEF OnePlace
  <2> QED BY <2>1, <2>2, <2>3, <2>4
<1> QED BY <1>1, <1>2 DEF OnePlace, Places, OffBuffer, Buffer

LEMMA BeyondIs ==
  /\ \A x : x \in Beyond <=> \E p \in OffBuffer : x \in ToSet(At(p))
  /\ \A x : x \in Beyond' <=> \E p \in OffBuffer : x \in ToSet(At(p)')
BY DEF Beyond

LEMMA AtSeq ==
  ASSUME TypeInv
  PROVE  /\ \A w \in Workers : InHand(w) \in Seq(Tasks)
         /\ \A s \in Shards : taskQueues[s] \in Seq(Tasks)
         /\ taskBuf \in Seq(Tasks)
<1>1. ASSUME NEW w \in Workers PROVE InHand(w) \in Seq(Tasks)
  <2>1. batch[w] \in Seq(Tasks)
    BY DEF TypeInv, TypeOK, WorkerTypes
  <2>2. wpc[w] = "wake" => Tail(batch[w]) \in Seq(Tasks)
    BY <2>1, TailSeq DEF TypeInv, BatchInv
  <2> QED BY <2>1, <2>2 DEF InHand
<1> QED BY <1>1 DEF TypeInv, TypeOK, QueueTypes

SameHands(except) ==
  \A w \in Workers \ except : InHand(w)' = InHand(w)

LEMMA StayMove ==
  ASSUME OnePlace, UNCHANGED <<taskBuf, taskQueues>>, SameHands({})
  PROVE  OnePlace' /\ Buffered' = Buffered /\ Beyond' = Beyond
<1>1. \A r \in Places : At(r)' = At(r)
  BY AtIs DEF Places, OffBuffer, SameHands
<1>2. OnePlace'
  BY <1>1 DEF OnePlace, Places, OffBuffer, Buffer
<1>3. Beyond' = Beyond
  <2>1. \A x : x \in Beyond' <=> x \in Beyond
    BY <1>1, BeyondIs, PlacesDiffer
  <2> QED BY <2>1
<1> QED BY <1>2, <1>3 DEF Buffered

\* A submitter sends its task to a shard.
LEMMA SendMove ==
  ASSUME TypeInv, OnePlace, NEW t \in Tasks, t \notin Buffered \cup Beyond,
         NEW s \in Shards, Enqueue(s, t), UNCHANGED taskBuf, SameHands({})
  PROVE  OnePlace' /\ Buffered' = Buffered /\ Beyond' = Beyond \cup {t}
<1>1. /\ At(Shard(s)) = taskQueues[s]
      /\ At(Shard(s))' = Append(taskQueues[s], t)
      /\ \A r \in Places \ {Shard(s)} : At(r)' = At(r)
  BY AtIs, PlacesDiffer DEF Enqueue, Places, OffBuffer, SameHands, TypeInv,
     TypeOK, QueueTypes
<1>2. t \notin ToSet(taskQueues[s]) /\ \A r \in Places : t \notin ToSet(At(r))
  BY <1>1, AtIs, BeyondIs, PlacesDiffer DEF Buffered, Places
<1>3. /\ ToSet(At(Shard(s))') = ToSet(At(Shard(s))) \cup {t}
      /\ IsInjective(At(Shard(s))')
  BY <1>1, <1>2, AtSeq, AppendSet, PlacesDiffer DEF OnePlace
<1>4. OnePlace'
  <2>1. /\ Shard(s) \in Places
        /\ \A r \in Places \ {Shard(s), Shard(s)} : At(r)' = At(r)
        /\ \A r \in Places : ToSet(At(r)) \cap {t} = {}
        /\ ToSet(At(Shard(s))') \cup ToSet(At(Shard(s))')
             \subseteq ToSet(At(Shard(s))) \cup ToSet(At(Shard(s))) \cup {t}
    BY <1>1, <1>2, <1>3, PlacesDiffer
  <2> QED BY <1>3, <2>1, Rearranged
<1>5. Beyond' = Beyond \cup {t}
  BY <1>1, <1>3, BeyondIs, PlacesDiffer
<1> QED BY <1>4, <1>5 DEF Buffered

\* A submitter puts its task into the buffer.
LEMMA PushMove ==
  ASSUME TypeInv, OnePlace, NEW t \in Tasks, t \notin Buffered \cup Beyond,
         taskBuf' = Append(taskBuf, t), UNCHANGED taskQueues, SameHands({})
  PROVE  OnePlace' /\ Buffered' = Buffered \cup {t} /\ Beyond' = Beyond
<1>1. /\ At(Buffer) = taskBuf
      /\ At(Buffer)' = Append(taskBuf, t)
      /\ \A r \in Places \ {Buffer} : At(r)' = At(r)
  BY AtIs, PlacesDiffer DEF Places, OffBuffer, SameHands
<1>2. t \notin ToSet(taskBuf) /\ \A r \in Places : t \notin ToSet(At(r))
  BY <1>1, BeyondIs DEF Buffered, Places
<1>3. /\ ToSet(At(Buffer)') = ToSet(At(Buffer)) \cup {t}
      /\ IsInjective(At(Buffer)')
  BY <1>1, <1>2, AtSeq, AppendSet, PlacesDiffer DEF OnePlace
<1>4. OnePlace'
  <2>1. /\ Buffer \in Places
        /\ \A r \in Places \ {Buffer, Buffer} : At(r)' = At(r)
        /\ \A r \in Places : ToSet(At(r)) \cap {t} = {}
        /\ ToSet(At(Buffer)') \cup ToSet(At(Buffer)')
             \subseteq ToSet(At(Buffer)) \cup ToSet(At(Buffer)) \cup {t}
    BY <1>1, <1>2, <1>3, PlacesDiffer
  <2> QED BY <1>3, <2>1, Rearranged
<1>5. Beyond' = Beyond
  <2>1. \A x : x \in Beyond' <=> x \in Beyond
    BY <1>1, BeyondIs, PlacesDiffer
  <2> QED BY <2>1
<1> QED BY <1>1, <1>3, <1>4, <1>5, AtIs DEF Buffered

\* The oldest task of the buffer goes to a shard.
LEMMA ForwardMove ==
  ASSUME TypeInv, OnePlace, taskBuf # <<>>,
         NEW s \in Shards, Enqueue(s, Head(taskBuf)), taskBuf' = Tail(taskBuf),
         SameHands({})
  PROVE  /\ OnePlace' /\ Head(taskBuf) \in Buffered
         /\ Buffered' = Buffered \ {Head(taskBuf)}
         /\ Beyond' = Beyond \cup {Head(taskBuf)}
<1> DEFINE t == Head(taskBuf)
<1>1. /\ At(Buffer) = taskBuf /\ At(Buffer)' = Tail(taskBuf)
      /\ At(Shard(s)) = taskQueues[s]
      /\ At(Shard(s))' = Append(taskQueues[s], t)
      /\ \A r \in Places \ {Buffer, Shard(s)} : At(r)' = At(r)
  BY AtIs, PlacesDiffer DEF Enqueue, Places, OffBuffer, SameHands, TypeInv,
     TypeOK, QueueTypes
<1>2. /\ taskBuf \in Seq(Tasks) /\ taskQueues[s] \in Seq(Tasks)
      /\ t \in Tasks
  BY AtSeq, TailSeq
<1> HIDE DEF t
<1>3. /\ IsInjective(taskBuf) /\ IsInjective(taskQueues[s])
      /\ ToSet(taskBuf) \cap ToSet(taskQueues[s]) = {}
  BY <1>1, PlacesDiffer DEF OnePlace
<1>4. /\ ToSet(taskBuf) = {t} \cup ToSet(Tail(taskBuf))
      /\ t \notin ToSet(Tail(taskBuf)) /\ IsInjective(Tail(taskBuf))
  BY <1>2, <1>3, TailSet DEF t
<1>5. /\ ToSet(Append(taskQueues[s], t)) = ToSet(taskQueues[s]) \cup {t}
      /\ IsInjective(Append(taskQueues[s], t))
  BY <1>2, <1>3, <1>4, AppendSet
<1>6. OnePlace'
  <2>1. /\ Buffer \in Places /\ Shard(s) \in Places
        /\ \A r \in Places : ToSet(At(r)) \cap {} = {}
        /\ IsInjective(At(Buffer)') /\ IsInjective(At(Shard(s))')
        /\ ToSet(At(Buffer)') \cap ToSet(At(Shard(s))') = {}
        /\ ToSet(At(Buffer)') \cup ToSet(At(Shard(s))')
             \subseteq ToSet(At(Buffer)) \cup ToSet(At(Shard(s))) \cup {}
    BY <1>1, <1>3, <1>4, <1>5, PlacesDiffer
  <2> QED BY <1>1, <2>1, Rearranged
<1>7. Beyond' = Beyond \cup {t}
  <2>1. \A x : x \in Beyond' <=> x \in Beyond \/ x = t
    <3>1. \A r \in OffBuffer \ {Shard(s)} : At(r)' = At(r)
      BY <1>1, PlacesDiffer
    <3>2. \A x : x \in ToSet(At(Shard(s))')
                   <=> x \in ToSet(At(Shard(s))) \/ x = t
      BY <1>1, <1>5
    <3> QED BY <3>1, <3>2, BeyondIs, PlacesDiffer
  <2> QED BY <2>1
<1>8. t \in Buffered /\ Buffered' = Buffered \ {t}
  BY <1>1, <1>4, AtIs DEF Buffered
<1> QED BY <1>6, <1>7, <1>8 DEF t

\* A worker receives from a shard.
LEMMA ReceiveMove ==
  ASSUME TypeInv, OnePlace, NEW s \in Shards, NEW w \in Workers,
         taskQueues[s] # <<>>, InHand(w) = <<>>,
         InHand(w)' = <<Head(taskQueues[s])>>,
         taskQueues' = [taskQueues EXCEPT ![s] = Tail(@)],
         UNCHANGED taskBuf, SameHands({w})
  PROVE  OnePlace' /\ Buffered' = Buffered /\ Beyond' = Beyond
<1> DEFINE t == Head(taskQueues[s])
<1>1. /\ At(Shard(s)) = taskQueues[s] /\ At(Shard(s))' = Tail(taskQueues[s])
      /\ At(Hand(w)) = <<>> /\ At(Hand(w))' = <<t>>
      /\ \A r \in Places \ {Shard(s), Hand(w)} : At(r)' = At(r)
  BY AtIs, PlacesDiffer DEF Places, OffBuffer, SameHands, TypeInv, TypeOK,
     QueueTypes
<1>2. taskQueues[s] \in Seq(Tasks)
  BY AtSeq
<1> HIDE DEF t
<1>3. IsInjective(taskQueues[s])
  BY <1>1, PlacesDiffer DEF OnePlace
<1>4. /\ ToSet(taskQueues[s]) = {t} \cup ToSet(Tail(taskQueues[s]))
      /\ t \notin ToSet(Tail(taskQueues[s]))
      /\ IsInjective(Tail(taskQueues[s]))
  BY <1>2, <1>3, TailSet DEF t
<1>5. ToSet(<<t>>) = {t} /\ IsInjective(<<t>>) /\ ToSet(<<>>) = {}
  BY DEF ToSet, IsInjective
<1>6. OnePlace'
  <2>1. /\ Hand(w) \in Places /\ Shard(s) \in Places
        /\ \A r \in Places : ToSet(At(r)) \cap {} = {}
        /\ IsInjective(At(Shard(s))') /\ IsInjective(At(Hand(w))')
        /\ ToSet(At(Shard(s))') \cap ToSet(At(Hand(w))') = {}
        /\ ToSet(At(Shard(s))') \cup ToSet(At(Hand(w))')
             \subseteq ToSet(At(Shard(s))) \cup ToSet(At(Hand(w))) \cup {}
    BY <1>1, <1>4, <1>5, PlacesDiffer
  <2> QED BY <1>1, <2>1, Rearranged
<1>7. Beyond' = Beyond
  <2>1. \A x : x \in Beyond' <=> x \in Beyond
    <3>1. \A x : x \in ToSet(At(Shard(s))') \cup ToSet(At(Hand(w))')
                   <=> x \in ToSet(At(Shard(s))) \cup ToSet(At(Hand(w)))
      BY <1>1, <1>4, <1>5
    <3> QED BY <1>1, <3>1, BeyondIs, PlacesDiffer
  <2> QED BY <2>1
<1> QED BY <1>6, <1>7 DEF Buffered

\* A worker takes the first tasks of the buffer.
LEMMA PopMove ==
  ASSUME TypeInv, OnePlace, NEW w \in Workers, NEW n \in Nat,
         n <= Len(taskBuf), InHand(w) = <<>>,
         InHand(w)' = SubSeq(taskBuf, 1, n),
         taskBuf' = SubSeq(taskBuf, n + 1, Len(taskBuf)),
         UNCHANGED taskQueues, SameHands({w})
  PROVE  /\ OnePlace' /\ Buffered' \subseteq Buffered
         /\ Beyond' = Beyond \cup (Buffered \ Buffered')
<1> DEFINE taken == SubSeq(taskBuf, 1, n)
           left  == SubSeq(taskBuf, n + 1, Len(taskBuf))
<1>1. InHand(w)' = taken /\ taskBuf' = left
  OBVIOUS
<1>2. taskBuf \in Seq(Tasks) /\ IsInjective(taskBuf)
  BY AtIs, AtSeq, PlacesDiffer DEF OnePlace
<1>3. /\ ToSet(taskBuf) = ToSet(taken) \cup ToSet(left)
      /\ IsInjective(taken) /\ IsInjective(left)
      /\ ToSet(taken) \cap ToSet(left) = {}
  BY <1>2, SplitSet
<1> HIDE DEF taken, left
<1>4. /\ At(Buffer) = taskBuf /\ At(Buffer)' = left
      /\ At(Hand(w)) = <<>> /\ At(Hand(w))' = taken
      /\ \A r \in Places \ {Buffer, Hand(w)} : At(r)' = At(r)
  BY <1>1, AtIs, PlacesDiffer DEF Places, OffBuffer, SameHands
<1>5. ToSet(<<>>) = {}
  BY DEF ToSet
<1>6. OnePlace'
  <2>1. /\ Hand(w) \in Places /\ Buffer \in Places
        /\ \A r \in Places : ToSet(At(r)) \cap {} = {}
        /\ IsInjective(At(Buffer)') /\ IsInjective(At(Hand(w))')
        /\ ToSet(At(Buffer)') \cap ToSet(At(Hand(w))') = {}
        /\ ToSet(At(Buffer)') \cup ToSet(At(Hand(w))')
             \subseteq ToSet(At(Buffer)) \cup ToSet(At(Hand(w))) \cup {}
    BY <1>4, <1>3, <1>5, PlacesDiffer
  <2> QED BY <1>4, <2>1, Rearranged
<1>7. Buffered' = ToSet(left) /\ Buffered = ToSet(taskBuf)
  BY <1>4, AtIs DEF Buffered
<1>8. Beyond' = Beyond \cup ToSet(taken)
  BY <1>4, <1>5, BeyondIs, PlacesDiffer
<1> QED BY <1>3, <1>6, <1>7, <1>8

\* A worker counts the task it has executed off.
LEMMA DropMove ==
  ASSUME TypeInv, OnePlace, NEW w \in Workers, InHand(w) # <<>>,
         InHand(w)' = Tail(InHand(w)),
         UNCHANGED <<taskBuf, taskQueues>>, SameHands({w})
  PROVE  /\ OnePlace' /\ Buffered' = Buffered
         /\ Head(InHand(w)) \in Beyond
         /\ Beyond' = Beyond \ {Head(InHand(w))}
<1> DEFINE t == Head(InHand(w))
<1>1. /\ At(Hand(w)) = InHand(w) /\ At(Hand(w))' = Tail(InHand(w))
      /\ \A r \in Places \ {Hand(w)} : At(r)' = At(r)
  BY AtIs, PlacesDiffer DEF Places, OffBuffer, SameHands
<1>2. InHand(w) \in Seq(Tasks) /\ IsInjective(InHand(w))
  BY <1>1, AtSeq, PlacesDiffer DEF OnePlace
<1> HIDE DEF t
<1>3. /\ ToSet(InHand(w)) = {t} \cup ToSet(Tail(InHand(w)))
      /\ t \notin ToSet(Tail(InHand(w))) /\ IsInjective(Tail(InHand(w)))
  BY <1>2, TailSet DEF t
<1>4. OnePlace'
  <2>1. /\ Hand(w) \in Places
        /\ \A r \in Places \ {Hand(w), Hand(w)} : At(r)' = At(r)
        /\ \A r \in Places : ToSet(At(r)) \cap {} = {}
        /\ IsInjective(At(Hand(w))')
        /\ ToSet(At(Hand(w))') \cup ToSet(At(Hand(w))')
             \subseteq ToSet(At(Hand(w))) \cup ToSet(At(Hand(w))) \cup {}
    BY <1>1, <1>3, PlacesDiffer
  <2> QED BY <2>1, Rearranged
<1>5. \A r \in Places \ {Hand(w)} : t \notin ToSet(At(r))
  BY <1>1, <1>3, PlacesDiffer DEF OnePlace
<1>6. t \in Beyond
  BY <1>1, <1>3, BeyondIs, PlacesDiffer
<1>7. Beyond' = Beyond \ {t}
  <2>1. \A x : x \in Beyond' <=> x \in Beyond /\ x # t
    <3>1. \A r \in OffBuffer \ {Hand(w)} : At(r)' = At(r) /\ t \notin ToSet(At(r))
      BY <1>1, <1>5, PlacesDiffer
    <3>2. \A x : x \in ToSet(At(Hand(w))')
                   <=> x \in ToSet(At(Hand(w))) /\ x # t
      BY <1>1, <1>3
    <3> QED BY <3>1, <3>2, BeyondIs, PlacesDiffer
  <2> QED BY <2>1
<1> QED BY <1>4, <1>6, <1>7 DEF Buffered, t
=============================================================================
