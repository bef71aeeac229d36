-------------------------- MODULE ThreadPoolProofs --------------------------
(***************************************************************************)
(* Proofs about ThreadPool for any number of workers, controllers, queues  *)
(* and items: the types, and that pause(), drain() and stop() mean what    *)
(* they say when they return.                                              *)
(***************************************************************************)
EXTENDS ThreadPool, SetInduction, TLAPS

Busy == {w \in Workers : worker[w] = "busy"}

\* The controllers that are in one of the calls K.
Calling(K) == {c \in Controllers : control[c] \in K}

\* What a queue still has for the caller of drain(); drain(NULL) asks for no
\* queue.
Ahead(q) == IF q = AnyQueue THEN {} ELSE Elements(queue[q])

\* Every item that drain() has to see done is done, taken out, in work, or
\* still in its queue.
DrainKept ==
    \A c \in Calling({"draining"}) :
        before[c] \subseteq done \cup dropped \cup Held \cup Ahead(target[c])

\* A pause() that has returned finds nobody at work, and keeps it so because
\* it is counted.
PauseKept ==
    /\ pause = Cardinality(Calling({"pausing", "paused"}))
    /\ Calling({"paused"}) # {} => Busy = {}

\* The inductive invariant: the counters count the threads they are about.
PoolInv ==
    /\ TypeOK
    /\ \A w \in Busy : item[w] \in Items
    /\ PauseKept
    /\ Cardinality(Calling({"draining"})) <= draining
    /\ DrainKept

-----------------------------------------------------------------------------
\* What is in a queue, before and after its first item leaves or a last one
\* comes.
LEMMA ElementsTail ==
    ASSUME NEW q \in Seq(Items), q # <<>>
    PROVE  /\ Head(q) \in Items /\ Tail(q) \in Seq(Items)
           /\ Elements(q) = Elements(Tail(q)) \cup {Head(q)}
<1>1. /\ Head(q) \in Items /\ Tail(q) \in Seq(Items) /\ Head(q) = q[1]
      /\ Len(q) \in Nat /\ Len(q) > 0 /\ Len(Tail(q)) = Len(q) - 1
      /\ DOMAIN q = 1..Len(q) /\ DOMAIN Tail(q) = 1..(Len(q) - 1)
      /\ \A i \in 1..(Len(q) - 1) : Tail(q)[i] = q[i + 1]
  OBVIOUS
<1>2. \A i \in DOMAIN q : i = 1 \/ (i - 1 \in DOMAIN Tail(q) /\ q[i] = Tail(q)[i - 1])
  BY <1>1
<1>3. \A i \in DOMAIN Tail(q) : i + 1 \in DOMAIN q /\ Tail(q)[i] = q[i + 1]
  BY <1>1
<1>4. 1 \in DOMAIN q
  BY <1>1
<1> QED
  BY <1>1, <1>2, <1>3, <1>4 DEF Elements

LEMMA ElementsAppend ==
    ASSUME NEW q \in Seq(Items), NEW i \in Items
    PROVE  Append(q, i) \in Seq(Items) /\ Elements(Append(q, i)) = Elements(q) \cup {i}
<1>1. /\ Append(q, i) \in Seq(Items) /\ Len(q) \in Nat
      /\ DOMAIN q = 1..Len(q) /\ DOMAIN Append(q, i) = 1..(Len(q) + 1)
      /\ \A j \in 1..Len(q) : Append(q, i)[j] = q[j]
      /\ Append(q, i)[Len(q) + 1] = i
  OBVIOUS
<1>2. 1..(Len(q) + 1) = (1..Len(q)) \cup {Len(q) + 1}
  BY <1>1
<1> HIDE DEF Elements
<1>3. Elements(Append(q, i)) = {Append(q, i)[j] : j \in (1..Len(q)) \cup {Len(q) + 1}}
  BY <1>1, <1>2 DEF Elements
<1> QED
  BY <1>1, <1>3 DEF Elements

\* A queue has items, and an empty one has none.
LEMMA ElementsType ==
    ASSUME NEW q \in Seq(Items)
    PROVE  Elements(q) \subseteq Items /\ Elements(<<>>) = {}
BY DEF Elements

\* How a call that begins or ends changes the number of the controllers in
\* such calls.
LEMMA CallCounts ==
    ASSUME TypeOK, NEW c \in Controllers, NEW from, NEW to, Call(c, from, to), NEW K
    PROVE  /\ Calling(K)' = IF to \in K THEN Calling(K) \cup {c} ELSE Calling(K) \ {c}
           /\ c \in Calling(K) <=> from \in K
           /\ IsFiniteSet(Calling(K)) /\ Cardinality(Calling(K)) \in Nat
           /\ Cardinality(Calling(K)') =
                Cardinality(Calling(K)) + (IF to \in K THEN 1 ELSE 0)
                                        - (IF from \in K THEN 1 ELSE 0)
<1>1. /\ control \in [Controllers -> {"idle", "pausing", "paused", "draining", "stopping"}]
      /\ control[c] = from /\ control' = [control EXCEPT ![c] = to]
  BY DEF TypeOK, Call
<1>2. Calling(K)' = IF to \in K THEN Calling(K) \cup {c} ELSE Calling(K) \ {c}
  BY <1>1 DEF Calling
<1>3. c \in Calling(K) <=> from \in K
  BY <1>1 DEF Calling
<1>4. IsFiniteSet(Calling(K)) /\ Cardinality(Calling(K)) \in Nat
  BY PoolAssumption, FS_Subset, FS_CardinalityType DEF Calling
<1>5. CASE to \in K
  <2>1. Calling(K)' = Calling(K) \cup {c}
    BY <1>2, <1>5
  <2>2. Cardinality(Calling(K) \cup {c}) =
            IF from \in K THEN Cardinality(Calling(K)) ELSE Cardinality(Calling(K)) + 1
    BY <1>3, <1>4, FS_AddElement
  <2> QED
    BY <1>2, <1>3, <1>4, <1>5, <2>1, <2>2
<1>6. CASE to \notin K
  <2>1. Calling(K)' = Calling(K) \ {c}
    BY <1>2, <1>6
  <2>2. Cardinality(Calling(K) \ {c}) =
            IF from \in K THEN Cardinality(Calling(K)) - 1 ELSE Cardinality(Calling(K))
    BY <1>3, <1>4, FS_RemoveElement
  <2> QED
    BY <1>3, <1>4, <1>6, <2>1, <2>2
<1> QED
  BY <1>2, <1>3, <1>4, <1>5, <1>6

-----------------------------------------------------------------------------
\* What one round of a worker does: at most it itself is at work afterwards,
\* it starts only when nobody pauses, and what it takes out of a queue it has
\* in hand.
LEMMA LoopEffect ==
    ASSUME TypeOK, \A v \in Busy : item[v] \in Items,
           NEW w \in Workers, NEW running, running = Cardinality(Busy \ {w}), Loop(w, running)
    PROVE  /\ queue' \in [Queues -> Seq(Items)] /\ last' \in Queues
           /\ worker' \in [Workers -> {"off", "ready", "busy"}]
           /\ item' \in [Workers -> Items \cup {NoItem}]
           /\ processing' = Cardinality(Busy')
           /\ \A v \in Busy' : item'[v] \in Items
           /\ \A v \in Busy \ {w} : v \in Busy' /\ item'[v] = item[v]
           /\ Busy' \subseteq Busy \cup {w}
           /\ Busy' \subseteq Busy \/ pause = 0
           /\ \A q \in Queues : Elements(queue[q]) \subseteq Elements(queue'[q]) \cup Held'
<1> DEFINE found == {k \in 1..NumQueues : queue[InTurn(k)] # <<>>}
           first == CHOOSE k \in found : \A j \in found : k <= j
           q == InTurn(first)
<1>t. /\ queue \in [Queues -> Seq(Items)] /\ last \in Queues
      /\ worker \in [Workers -> {"off", "ready", "busy"}]
      /\ item \in [Workers -> Items \cup {NoItem}]
  BY DEF TypeOK
<1>f. IsFiniteSet(Busy \ {w}) /\ running \in Nat /\ w \notin Busy \ {w}
  <2>1. Busy \ {w} \subseteq Workers
    BY DEF Busy
  <2> QED
    BY <2>1, PoolAssumption, FS_Subset, FS_CardinalityType
<1>1. CASE found # {} /\ ~stop /\ pause = 0
  <2>1. /\ worker' = [worker EXCEPT ![w] = "busy"]
        /\ item' = [item EXCEPT ![w] = Head(queue[q])]
        /\ queue' = [queue EXCEPT ![q] = Tail(@)]
        /\ last' = q
        /\ processing' = running + 1
    BY <1>1 DEF Loop
  <2>2. q \in Queues /\ queue[q] # <<>>
    <3>1. first \in found
      <4>1. \E k \in found : \A j \in found : k <= j
        <5>1. found \in SUBSET Nat
          BY PoolAssumption
        <5> HIDE DEF found
        <5> QED
          BY <1>1, <5>1, LeastNat
      <4> QED
        BY <4>1
    <3>2. queue[q] # <<>> /\ first \in Nat
      BY <3>1, PoolAssumption
    <3>3. NumQueues \in Nat /\ NumQueues > 0 /\ last \in Nat
      BY <1>t, PoolAssumption DEF Queues
    <3> HIDE DEF first
    <3>4. q \in Queues
      BY <3>2, <3>3 DEF InTurn, Queues
    <3> QED
      BY <3>2, <3>4
  <2> HIDE DEF q, first, found
  <2>3. Head(queue[q]) \in Items /\ Tail(queue[q]) \in Seq(Items)
        /\ Elements(queue[q]) = Elements(Tail(queue[q])) \cup {Head(queue[q])}
    BY <1>t, <2>2, ElementsTail
  <2>4. /\ queue' \in [Queues -> Seq(Items)] /\ last' \in Queues
        /\ worker' \in [Workers -> {"off", "ready", "busy"}]
        /\ item' \in [Workers -> Items \cup {NoItem}]
    BY <1>t, <2>1, <2>2, <2>3
  <2>5. Busy' = (Busy \ {w}) \cup {w}
    BY <1>t, <2>1 DEF Busy
  <2>6. processing' = Cardinality(Busy')
    BY <1>f, <2>1, <2>5, FS_AddElement
  <2>7. \A v \in Busy \ {w} : v \in Busy' /\ item'[v] = item[v]
    BY <1>t, <2>1, <2>5 DEF Busy
  <2>8. item'[w] = Head(queue[q]) /\ w \in Busy'
    BY <1>t, <2>1, <2>5
  <2>9. Head(queue[q]) \in Held'
    BY <2>8 DEF Held, Busy
  <2>10. \A r \in Queues : Elements(queue[r]) \subseteq Elements(queue'[r]) \cup Held'
    <3> TAKE r \in Queues
    <3>1. CASE r = q
      BY <1>t, <2>1, <2>2, <2>3, <2>9, <3>1
    <3>2. CASE r # q
      BY <1>t, <2>1, <3>2
    <3> QED
      BY <3>1, <3>2
  <2> QED
    BY <1>1, <2>3, <2>4, <2>5, <2>6, <2>7, <2>8, <2>10
<1>2. CASE ~(found # {} /\ ~stop /\ pause = 0)
  <2>1. /\ worker' = [worker EXCEPT ![w] = IF stop THEN "off" ELSE "ready"]
        /\ item' = [item EXCEPT ![w] = NoItem]
        /\ processing' = running
        /\ UNCHANGED <<queue, last>>
    BY <1>2 DEF Loop
  <2>2. Busy' = Busy \ {w}
    BY <1>t, <2>1 DEF Busy
  <2>3. \A v \in Busy \ {w} : item'[v] = item[v]
    BY <1>t, <2>1 DEF Busy
  <2>4. /\ worker' \in [Workers -> {"off", "ready", "busy"}]
        /\ item' \in [Workers -> Items \cup {NoItem}]
    BY <1>t, <2>1
  <2> HIDE DEF found
  <2> QED
    BY <1>t, <1>f, <2>1, <2>2, <2>3, <2>4
<1> QED
  BY <1>1, <1>2

-----------------------------------------------------------------------------
\* Nobody has called anything yet.
LEMMA PoolInvInit == Init => PoolInv
<1> SUFFICES ASSUME Init PROVE PoolInv
  OBVIOUS
<1>1. Busy = {} /\ Waiting = {} /\ \A K : "idle" \notin K => Calling(K) = {}
  BY DEF Init, Busy, Waiting, Calling
<1>2. {w \in Workers : worker[w] = "busy"} = {}
  BY <1>1 DEF Busy
<1>3. Cardinality({}) = 0
  BY FS_EmptySet
<1>4. TypeOK
  <2>1. queue \in [Queues -> Seq(Items)] /\ last \in Queues /\ draining \in Nat
    BY PoolAssumption DEF Init, Queues
  <2>2. /\ processing = Cardinality({w \in Workers : worker[w] = "busy"})
        /\ pause \in Nat /\ stops \in Nat /\ stop \in BOOLEAN
        /\ signalled = {} /\ done = {} /\ dropped = {}
    BY <1>2, <1>3 DEF Init
  <2>3. /\ worker \in [Workers -> {"off", "ready", "busy"}]
        /\ item \in [Workers -> Items \cup {NoItem}]
        /\ control \in [Controllers -> {"idle", "pausing", "paused", "draining", "stopping"}]
        /\ target \in [Controllers -> Queues \cup {AnyQueue}]
        /\ before \in [Controllers -> SUBSET Items]
    BY DEF Init
  <2> QED
    BY <2>1, <2>2, <2>3 DEF TypeOK
<1>5. PauseKept /\ Cardinality(Calling({"draining"})) <= draining /\ DrainKept
  <2>1. draining \in Nat /\ pause = 0
    BY PoolAssumption DEF Init
  <2>2. Calling({"draining"}) = {} /\ Calling({"pausing", "paused"}) = {} /\ Calling({"paused"}) = {}
    BY <1>1
  <2>3. PauseKept
    BY <1>3, <2>1, <2>2 DEF PauseKept
  <2>4. Cardinality(Calling({"draining"})) <= draining
    BY <1>3, <2>1, <2>2
  <2>5. DrainKept
    BY <2>2 DEF DrainKept
  <2> QED
    BY <2>3, <2>4, <2>5
<1> QED
  BY <1>1, <1>4, <1>5 DEF PoolInv

\* A step of a worker keeps the invariant.
LEMMA WorkerStep ==
    ASSUME PoolInv, NEW w \in Workers, NEW running, running = Cardinality(Busy \ {w}),
           Loop(w, running), done \subseteq done', done' \subseteq Items,
           w \in Busy => item[w] \in done', signalled' \subseteq Waiting,
           UNCHANGED <<pause, draining, stop, control, target, before, stops, dropped>>
    PROVE  PoolInv'
<1>1. TypeOK /\ \A v \in Busy : item[v] \in Items
  BY DEF PoolInv
<1>2. /\ queue' \in [Queues -> Seq(Items)] /\ last' \in Queues
      /\ worker' \in [Workers -> {"off", "ready", "busy"}]
      /\ item' \in [Workers -> Items \cup {NoItem}]
      /\ processing' = Cardinality(Busy')
      /\ \A v \in Busy' : item'[v] \in Items
      /\ \A v \in Busy \ {w} : v \in Busy' /\ item'[v] = item[v]
      /\ Busy' \subseteq Busy \cup {w}
      /\ Busy' \subseteq Busy \/ pause = 0
      /\ \A q \in Queues : Elements(queue[q]) \subseteq Elements(queue'[q]) \cup Held'
  BY <1>1, LoopEffect
<1>3. Calling({"paused"})' = Calling({"paused"}) /\ Waiting' = Waiting
      /\ Calling({"pausing", "paused"})' = Calling({"pausing", "paused"})
      /\ Calling({"draining"})' = Calling({"draining"})
  BY DEF Calling, Waiting
<1>4. TypeOK'
  BY <1>1, <1>2, <1>3 DEF TypeOK, Busy
<1>5. PauseKept'
  <2>1. pause = 0 => Calling({"paused"}) = {}
    <3>1. Calling({"paused"}) \subseteq Calling({"pausing", "paused"})
      BY DEF Calling
    <3>2. IsFiniteSet(Calling({"pausing", "paused"}))
      BY PoolAssumption, FS_Subset DEF Calling
    <3> QED
      BY <3>1, <3>2, FS_EmptySet DEF PoolInv, PauseKept
  <2>2. Calling({"paused"}) # {} => Busy' = {}
    BY <1>2, <2>1 DEF PoolInv, PauseKept
  <2> QED
    BY <1>3, <2>2 DEF PoolInv, PauseKept
<1>6. DrainKept'
  <2>1. Held \subseteq Held' \cup done'
    BY <1>2 DEF Held, Busy
  <2>2. ASSUME NEW q \in Queues \cup {AnyQueue} PROVE Ahead(q) \subseteq Ahead(q)' \cup Held'
    BY <1>2 DEF Ahead, AnyQueue
  <2>3. \A c \in Controllers : target[c] \in Queues \cup {AnyQueue}
    BY <1>1 DEF TypeOK
  <2>4. ASSUME NEW c \in Calling({"draining"})
        PROVE  before[c] \subseteq done' \cup dropped \cup Held' \cup Ahead(target[c])'
    <3>1. c \in Controllers
      BY DEF Calling
    <3>2. before[c] \subseteq done \cup dropped \cup Held \cup Ahead(target[c])
      BY DEF PoolInv, DrainKept
    <3>3. Ahead(target[c]) \subseteq Ahead(target[c])' \cup Held'
      BY <2>2, <2>3, <3>1 DEF Ahead
    <3> QED
      BY <2>1, <3>2, <3>3
  <2> QED
    BY <1>3, <2>4 DEF DrainKept, Ahead
<1> QED
  BY <1>2, <1>3, <1>4, <1>5, <1>6 DEF PoolInv

\* A step that puts something into a queue or takes it out keeps the
\* invariant, as long as what it takes out counts as dropped.
LEMMA QueueStep ==
    ASSUME PoolInv, queue' \in [Queues -> Seq(Items)], dropped' \subseteq Items,
           dropped \subseteq dropped',
           \A q \in Queues : Elements(queue[q]) \subseteq Elements(queue'[q]) \cup dropped',
           UNCHANGED <<last, processing, worker, item, done, calls>>
    PROVE  PoolInv'
<1>1. /\ Busy' = Busy /\ Held' = Held /\ Waiting' = Waiting
      /\ \A K : Calling(K)' = Calling(K)
  BY DEF calls, Busy, Held, Waiting, Calling
<1>2. TypeOK'
  BY <1>1 DEF PoolInv, TypeOK, calls
<1>3. DrainKept'
  <2>1. ASSUME NEW c \in Calling({"draining"})
        PROVE  before[c] \subseteq done \cup dropped' \cup Held \cup Ahead(target[c])'
    <3>1. before[c] \subseteq done \cup dropped \cup Held \cup Ahead(target[c])
      BY DEF PoolInv, DrainKept
    <3>2. c \in Controllers /\ target[c] \in Queues \cup {AnyQueue} /\ target' = target
      BY DEF PoolInv, TypeOK, Calling, calls
    <3>3. Ahead(target[c]) \subseteq Ahead(target[c])' \cup dropped'
      BY <3>2 DEF Ahead, AnyQueue
    <3> QED
      BY <3>1, <3>3
  <2>2. done' = done /\ before' = before /\ target' = target
    BY DEF calls
  <2> QED
    BY <1>1, <2>1, <2>2 DEF DrainKept
<1> QED
  BY <1>1, <1>2, <1>3 DEF PoolInv, PauseKept, calls

\* A step of a controller that leaves the workers and the queues alone.
LEMMA ControlStep ==
    ASSUME PoolInv, UNCHANGED <<jobs, dropped>>, NEW c \in Controllers,
           NEW from, NEW to \in {"idle", "pausing", "paused", "draining", "stopping"},
           Call(c, from, to), to = "paused" => processing = 0,
           pause' \in Nat, draining' \in Nat, stops' \in Nat, stop' \in BOOLEAN,
           pause' = pause + (IF to \in {"pausing", "paused"} THEN 1 ELSE 0)
                          - (IF from \in {"pausing", "paused"} THEN 1 ELSE 0),
           draining' >= draining + (IF to = "draining" THEN 1 ELSE 0)
                                 - (IF from = "draining" THEN 1 ELSE 0),
           \A d \in Controllers \ {c} : target'[d] = target[d] /\ before'[d] = before[d],
           target' \in [Controllers -> Queues \cup {AnyQueue}],
           before' \in [Controllers -> SUBSET Items],
           to = "draining" =>
               before'[c] \subseteq done \cup dropped \cup Held \cup Ahead(target'[c]),
           signalled' \subseteq signalled, c \in signalled' => to \in {"pausing", "draining"}
    PROVE  PoolInv'
<1>1. Busy' = Busy /\ Held' = Held /\ (\A q : Ahead(q)' = Ahead(q))
  BY DEF jobs, Busy, Held, Ahead
<1>2. control' = [control EXCEPT ![c] = to] /\ control[c] = from
  BY DEF Call
<1>t. TypeOK
  BY DEF PoolInv
<1>3. TypeOK'
  <2>1. control' \in [Controllers -> {"idle", "pausing", "paused", "draining", "stopping"}]
    BY <1>2, <1>t DEF TypeOK
  <2>2. signalled' \subseteq Waiting'
    BY <1>2, <1>t DEF TypeOK, Waiting
  <2> QED
    BY <1>t, <2>1, <2>2 DEF TypeOK, jobs
<1>4. PauseKept'
  <2> DEFINE K == {"pausing", "paused"}
  <2>1. /\ Cardinality(Calling(K)) \in Nat
        /\ Cardinality(Calling(K)') =
             Cardinality(Calling(K)) + (IF to \in K THEN 1 ELSE 0) - (IF from \in K THEN 1 ELSE 0)
    BY <1>t, CallCounts
  <2>2. pause = Cardinality(Calling(K))
    BY DEF PoolInv, PauseKept
  <2>3. pause' = Cardinality(Calling(K)')
    BY <2>1, <2>2
  <2>4. Calling({"paused"})' # {} => Busy = {}
    <3>1. to # "paused" => Calling({"paused"})' \subseteq Calling({"paused"})
      BY <1>2, <1>t DEF Calling, TypeOK
    <3>2. processing = 0 => Busy = {}
      <4>1. IsFiniteSet(Busy) /\ processing = Cardinality(Busy)
        BY <1>t, PoolAssumption, FS_Subset DEF Busy, TypeOK
      <4> QED
        BY <4>1, FS_EmptySet
    <3> QED
      BY <3>1, <3>2 DEF PoolInv, PauseKept
  <2> QED
    BY <1>1, <2>3, <2>4 DEF PauseKept
<1>5. Cardinality(Calling({"draining"})') <= draining'
  <2>1. /\ Cardinality(Calling({"draining"})) \in Nat
        /\ Cardinality(Calling({"draining"})') = Cardinality(Calling({"draining"}))
             + (IF to \in {"draining"} THEN 1 ELSE 0) - (IF from \in {"draining"} THEN 1 ELSE 0)
    BY <1>t, CallCounts
  <2>2. Cardinality(Calling({"draining"})) <= draining /\ draining \in Nat
    BY <1>t DEF PoolInv, TypeOK
  <2> QED
    BY <2>1, <2>2
<1>6. DrainKept'
  <2>1. ASSUME NEW d \in Calling({"draining"})'
        PROVE  before'[d] \subseteq done \cup dropped \cup Held \cup Ahead(target'[d])
    <3>1. CASE d = c
      BY <1>2, <1>t, <3>1 DEF Calling, TypeOK
    <3>2. CASE d # c
      <4>1. d \in Calling({"draining"}) /\ d \in Controllers \ {c}
        BY <1>2, <1>t, <3>2 DEF Calling, TypeOK
      <4> QED
        BY <4>1 DEF PoolInv, DrainKept
    <3> QED
      BY <3>1, <3>2
  <2>2. done' = done /\ dropped' = dropped
    BY DEF jobs
  <2> QED
    BY <1>1, <2>1, <2>2 DEF DrainKept, Ahead
<1>7. \A w \in Busy' : item'[w] \in Items
  BY <1>1 DEF PoolInv, jobs
<1> QED
  BY <1>3, <1>4, <1>5, <1>6, <1>7 DEF PoolInv

\* Every step keeps the invariant.
LEMMA PoolInvStep == PoolInv /\ [Next]_vars => PoolInv'
<1> SUFFICES ASSUME PoolInv, [Next]_vars PROVE PoolInv'
  OBVIOUS
<1>t. TypeOK
  BY DEF PoolInv
<1>s. /\ {pause, draining, stops} \subseteq Nat /\ stop \in BOOLEAN
      /\ target \in [Controllers -> Queues \cup {AnyQueue}]
      /\ before \in [Controllers -> SUBSET Items]
  BY <1>t DEF TypeOK
<1>c. ASSUME NEW c \in Controllers, NEW K, c \in Calling(K)
      PROVE  Cardinality(Calling(K)) \in Nat \ {0}
  <2>1. IsFiniteSet(Calling(K))
    BY PoolAssumption, FS_Subset DEF Calling
  <2> QED
    BY <1>c, <2>1, FS_EmptySet, FS_CardinalityType
<1>1. ASSUME NEW w \in Workers, Work(w) PROVE PoolInv'
  <2>1. /\ Loop(w, processing) /\ w \notin Busy /\ UNCHANGED <<calls, dropped, done>>
    BY <1>1 DEF Work, Busy
  <2>2. processing = Cardinality(Busy \ {w})
    <3>1. Busy \ {w} = Busy
      BY <2>1
    <3> QED
      BY <1>t, <3>1 DEF TypeOK, Busy
  <2> QED
    BY <1>t, <2>1, <2>2, WorkerStep DEF calls, TypeOK
<1>2. ASSUME NEW w \in Workers, Finish(w) PROVE PoolInv'
  <2>1. /\ Loop(w, processing - 1) /\ w \in Busy /\ done' = done \cup {item[w]}
        /\ UNCHANGED <<pause, draining, stop, control, target, before, stops, dropped>>
    BY <1>2 DEF Finish, Busy
  <2>2. signalled' \subseteq Waiting
    BY <1>2, <1>t DEF Finish, TypeOK
  <2>3. processing - 1 = Cardinality(Busy \ {w})
    <3>1. IsFiniteSet(Busy)
      BY PoolAssumption, FS_Subset DEF Busy
    <3>2. Cardinality(Busy \ {w}) = Cardinality(Busy) - 1
      BY <2>1, <3>1, FS_RemoveElement
    <3> QED
      BY <1>t, <3>2 DEF TypeOK, Busy
  <2>4. done' \subseteq Items /\ item[w] \in done'
    BY <1>t, <2>1 DEF PoolInv, TypeOK
  <2> QED
    BY <2>1, <2>2, <2>3, <2>4, WorkerStep
<1>3. ASSUME NEW q \in Queues, Dequeue(q) PROVE PoolInv'
  <2>1. /\ queue[q] \in Seq(Items) /\ queue[q] # <<>>
        /\ queue' = [queue EXCEPT ![q] = Tail(@)]
        /\ dropped' = dropped \cup {Head(queue[q])}
        /\ UNCHANGED <<last, processing, worker, item, done, calls>>
    BY <1>t, <1>3 DEF Dequeue, TypeOK
  <2>2. /\ Head(queue[q]) \in Items /\ Tail(queue[q]) \in Seq(Items)
        /\ Elements(queue[q]) = Elements(Tail(queue[q])) \cup {Head(queue[q])}
    BY <2>1, ElementsTail
  <2>3. queue' \in [Queues -> Seq(Items)] /\ dropped' \subseteq Items
    BY <1>t, <2>1, <2>2 DEF TypeOK
  <2>4. \A r \in Queues : Elements(queue[r]) \subseteq Elements(queue'[r]) \cup dropped'
    BY <1>t, <2>1, <2>2 DEF TypeOK
  <2> QED
    BY <2>1, <2>3, <2>4, QueueStep
<1>4. ASSUME NEW q \in Queues, Clear(q) PROVE PoolInv'
  <2>1. /\ queue[q] \in Seq(Items)
        /\ queue' = [queue EXCEPT ![q] = <<>>]
        /\ dropped' = dropped \cup Elements(queue[q])
        /\ UNCHANGED <<last, processing, worker, item, done, calls>>
    BY <1>t, <1>4 DEF Clear, TypeOK
  <2>2. Elements(queue[q]) \subseteq Items
    BY <2>1, ElementsType
  <2>3. queue' \in [Queues -> Seq(Items)] /\ dropped' \subseteq Items
    BY <1>t, <2>1, <2>2 DEF TypeOK
  <2>4. \A r \in Queues : Elements(queue[r]) \subseteq Elements(queue'[r]) \cup dropped'
    BY <1>t, <2>1 DEF TypeOK
  <2> QED
    BY <2>1, <2>3, <2>4, QueueStep
<1>5. ASSUME NEW q \in Queues, NEW i \in Items, Enqueue(q, i) PROVE PoolInv'
  <2>1. /\ queue[q] \in Seq(Items)
        /\ queue' = [queue EXCEPT ![q] = Append(@, i)]
        /\ UNCHANGED <<last, processing, worker, item, done, calls, dropped>>
    BY <1>t, <1>5 DEF Enqueue, TypeOK
  <2>2. Append(queue[q], i) \in Seq(Items)
        /\ Elements(Append(queue[q], i)) = Elements(queue[q]) \cup {i}
    BY <2>1, ElementsAppend
  <2>3. queue' \in [Queues -> Seq(Items)] /\ dropped' \subseteq Items
    BY <1>t, <2>1, <2>2 DEF TypeOK
  <2>4. \A r \in Queues : Elements(queue[r]) \subseteq Elements(queue'[r]) \cup dropped'
    BY <1>t, <2>1, <2>2 DEF TypeOK
  <2> QED
    BY <2>1, <2>3, <2>4, QueueStep
<1>6. CASE Start
  <2>1. /\ \A w \in Workers : worker[w] = "off"
        /\ worker' = [w \in Workers |-> "ready"]
        /\ UNCHANGED <<queue, last, processing, item, done, calls, dropped>>
    BY <1>6 DEF Start
  <2>2. Busy' = {} /\ Busy = {} /\ Held' = Held /\ Waiting' = Waiting
        /\ (\A K : Calling(K)' = Calling(K)) /\ (\A q : Ahead(q)' = Ahead(q))
    BY <2>1 DEF Busy, Held, Waiting, Calling, Ahead, calls
  <2>3. TypeOK'
    BY <1>t, <2>1, <2>2 DEF TypeOK, Busy, calls
  <2>4. DrainKept'
    BY <2>1, <2>2 DEF PoolInv, DrainKept, Ahead, calls
  <2> QED
    BY <2>1, <2>2, <2>3, <2>4 DEF PoolInv, PauseKept, calls
<1>7. ASSUME NEW c \in Controllers, Pause(c) PROVE PoolInv'
  <2>1. Call(c, "idle", IF processing > 0 THEN "pausing" ELSE "paused") /\ pause' = pause + 1
        /\ UNCHANGED <<jobs, draining, stop, target, signalled, before, stops, dropped>>
    BY <1>7 DEF Pause
  <2>2. c \notin signalled /\ processing \in Nat
    <3>1. processing \in Nat
      BY <1>t, PoolAssumption, FS_Subset, FS_CardinalityType DEF TypeOK
    <3> QED
      BY <1>t, <2>1, <3>1 DEF TypeOK, Waiting, Call
  <2>3. CASE processing > 0
    BY <1>s, <2>1, <2>2, <2>3, ControlStep
  <2>4. CASE processing = 0
    BY <1>s, <2>1, <2>2, <2>4, ControlStep
  <2> QED
    BY <2>2, <2>3, <2>4
<1>8. ASSUME NEW c \in Controllers, PauseWakes(c) PROVE PoolInv'
  <2>1. Call(c, "pausing", IF processing > 0 THEN "pausing" ELSE "paused")
        /\ signalled' = signalled \ {c}
        /\ UNCHANGED <<jobs, pause, draining, stop, target, before, stops, dropped>>
    BY <1>8 DEF PauseWakes
  <2>2. processing \in Nat
    BY <1>t, PoolAssumption, FS_Subset, FS_CardinalityType DEF TypeOK
  <2>3. CASE processing > 0
    BY <1>s, <2>1, <2>2, <2>3, ControlStep
  <2>4. CASE processing = 0
    BY <1>s, <2>1, <2>2, <2>4, ControlStep
  <2> QED
    BY <2>2, <2>3, <2>4
<1>9. ASSUME NEW c \in Controllers, Unpause(c) PROVE PoolInv'
  <2>1. Call(c, "paused", "idle") /\ pause' = pause - 1
        /\ UNCHANGED <<jobs, draining, stop, target, signalled, before, stops, dropped>>
    BY <1>9 DEF Unpause
  <2>2. pause \in Nat \ {0}
    <3>1. c \in Calling({"pausing", "paused"})
      BY <2>1 DEF Calling, Call
    <3> QED
      BY <1>c, <3>1 DEF PoolInv, PauseKept
  <2>3. c \notin signalled
    BY <1>t, <2>1 DEF TypeOK, Waiting, Call
  <2> QED
    BY <1>s, <2>1, <2>2, <2>3, ControlStep
<1>10. ASSUME NEW c \in Controllers, NEW q \in Queues \cup {AnyQueue}, Drain(c, q) PROVE PoolInv'
  <2>1. Call(c, "idle", IF Undrained(q) THEN "draining" ELSE "idle")
        /\ UNCHANGED <<jobs, pause, stop, signalled, stops, dropped>>
    BY <1>10 DEF Drain
  <2>2. c \notin signalled
    BY <1>t, <2>1 DEF TypeOK, Waiting, Call
  <2>3. CASE Undrained(q)
    <3>1. /\ draining' = draining + 1
          /\ target' = [target EXCEPT ![c] = q]
          /\ before' = [before EXCEPT ![c] = Held \cup Ahead(q)]
      BY <1>10, <2>3 DEF Drain, Ahead
    <3>2. Held \subseteq Items
      BY DEF PoolInv, Held, Busy
    <3>3. Ahead(q) \subseteq Items
      BY <1>t, ElementsType DEF Ahead, TypeOK
    <3>4. target'[c] = q /\ before'[c] = Held \cup Ahead(q)
      BY <1>t, <3>1 DEF TypeOK
    <3>5. /\ target' \in [Controllers -> Queues \cup {AnyQueue}]
          /\ before' \in [Controllers -> SUBSET Items]
          /\ \A d \in Controllers \ {c} : target'[d] = target[d] /\ before'[d] = before[d]
      BY <1>t, <3>1, <3>2, <3>3 DEF TypeOK
    <3> QED
      BY <1>s, <2>1, <2>2, <2>3, <3>1, <3>4, <3>5, ControlStep
  <2>4. CASE ~Undrained(q)
    <3>1. UNCHANGED <<draining, target, before>>
      BY <1>10, <2>4 DEF Drain
    <3> QED
      BY <1>s, <2>1, <2>2, <2>4, <3>1, ControlStep
  <2> QED
    BY <2>3, <2>4
<1>11. ASSUME NEW c \in Controllers, DrainWakes(c) PROVE PoolInv'
  <2>1. Call(c, "draining", IF Undrained(target[c]) THEN "draining" ELSE "idle")
        /\ signalled' = signalled \ {c}
        /\ draining' = (IF Undrained(target[c]) THEN draining ELSE draining - 1)
        /\ UNCHANGED <<jobs, pause, stop, target, before, stops, dropped>>
    BY <1>11 DEF DrainWakes
  <2>2. draining \in Nat \ {0} /\ c \in Calling({"draining"})
    <3>1. c \in Calling({"draining"})
      BY <2>1 DEF Calling, Call
    <3> QED
      BY <1>t, <1>c, <3>1 DEF PoolInv, TypeOK
  <2>3. before[c] \subseteq done \cup dropped \cup Held \cup Ahead(target[c])
    BY <2>2 DEF PoolInv, DrainKept
  <2>4. CASE Undrained(target[c])
    BY <1>s, <2>1, <2>2, <2>3, <2>4, ControlStep
  <2>5. CASE ~Undrained(target[c])
    BY <1>s, <2>1, <2>2, <2>3, <2>5, ControlStep
  <2> QED
    BY <2>4, <2>5
<1>12. ASSUME NEW c \in Controllers, SpuriousWakeup(c) PROVE PoolInv'
  <2>1. c \in Waiting /\ signalled' = signalled \cup {c} /\ UNCHANGED <<jobs, dropped>>
        /\ UNCHANGED <<pause, draining, stop, control, target, before, stops>>
    BY <1>12 DEF SpuriousWakeup
  <2>2. /\ Busy' = Busy /\ Held' = Held /\ Waiting' = Waiting
        /\ (\A K : Calling(K)' = Calling(K)) /\ (\A q : Ahead(q)' = Ahead(q))
    BY <2>1 DEF Busy, Held, Waiting, Calling, Ahead, jobs
  <2>3. TypeOK'
    BY <1>t, <2>1, <2>2 DEF TypeOK, jobs
  <2>4. DrainKept'
    BY <2>1, <2>2 DEF PoolInv, DrainKept, Ahead, jobs
  <2> QED
    BY <2>1, <2>2, <2>3, <2>4 DEF PoolInv, PauseKept, jobs
<1>13. ASSUME NEW c \in Controllers, Stop(c) PROVE PoolInv'
  <2>1. Call(c, "idle", "stopping") /\ stop' = TRUE /\ stops' = stops + 1
        /\ UNCHANGED <<jobs, pause, draining, target, signalled, before, dropped>>
    BY <1>13 DEF Stop
  <2>2. c \notin signalled
    BY <1>t, <2>1 DEF TypeOK, Waiting, Call
  <2> QED
    BY <1>s, <2>1, <2>2, ControlStep
<1>14. ASSUME NEW c \in Controllers, Stopped(c) PROVE PoolInv'
  <2>1. /\ Call(c, "stopping", "idle") /\ stop' = FALSE
        /\ dropped' = dropped \cup UNION {Elements(queue[q]) : q \in Queues}
        /\ queue' = [q \in Queues |-> <<>>]
        /\ UNCHANGED <<last, processing, worker, item, done, pause, draining, target,
                       signalled, before, stops>>
    BY <1>14 DEF Stopped
  <2>2. /\ control \in [Controllers -> {"idle", "pausing", "paused", "draining", "stopping"}]
        /\ control[c] = "stopping" /\ control' = [control EXCEPT ![c] = "idle"]
    BY <1>t, <2>1 DEF TypeOK, Call
  <2>3. \A K : "idle" \notin K /\ "stopping" \notin K => Calling(K)' = Calling(K)
    BY <2>2 DEF Calling
  <2>4. Waiting' = Waiting
    BY <2>2 DEF Waiting
  <2>5. Busy' = Busy /\ Held' = Held
    BY <2>1 DEF Busy, Held
  <2>6. \A q \in Queues : Elements(queue[q]) \subseteq dropped' /\ Elements(queue[q]) \subseteq Items
    BY <1>t, <2>1, ElementsType DEF TypeOK
  <2>7. dropped \subseteq dropped' /\ dropped' \subseteq Items /\ queue' \in [Queues -> Seq(Items)]
    BY <1>t, <2>1, <2>6 DEF TypeOK
  <2>8. control' \in [Controllers -> {"idle", "pausing", "paused", "draining", "stopping"}]
    BY <2>2
  <2>9. TypeOK'
    BY <1>t, <2>1, <2>4, <2>7, <2>8 DEF TypeOK
  <2>10. DrainKept'
    <3>1. ASSUME NEW d \in Calling({"draining"}) PROVE before[d] \subseteq done \cup dropped' \cup Held
      <4>1. before[d] \subseteq done \cup dropped \cup Held \cup Ahead(target[d])
        BY DEF PoolInv, DrainKept
      <4>2. target[d] \in Queues \cup {AnyQueue}
        BY <1>t DEF TypeOK, Calling
      <4>3. Ahead(target[d]) \subseteq dropped'
        BY <2>6, <4>2 DEF Ahead
      <4> QED
        BY <2>7, <4>1, <4>3
    <3> QED
      BY <2>1, <2>3, <2>5, <3>1 DEF DrainKept
  <2>11. Calling({"draining"})' = Calling({"draining"}) /\ Calling({"paused"})' = Calling({"paused"})
         /\ Calling({"pausing", "paused"})' = Calling({"pausing", "paused"})
    BY <2>3
  <2> QED
    BY <2>1, <2>5, <2>9, <2>10, <2>11 DEF PoolInv, PauseKept
<1>15. CASE UNCHANGED vars
  <2>1. UNCHANGED <<queue, last, processing, worker, item, done, calls, dropped>>
    BY <1>15 DEF vars, jobs
  <2>2. queue' \in [Queues -> Seq(Items)] /\ dropped' \subseteq Items
    BY <1>t, <2>1 DEF TypeOK
  <2> QED
    BY <2>1, <2>2, QueueStep
<1> QED
  BY <1>1, <1>2, <1>3, <1>4, <1>5, <1>6, <1>7, <1>8, <1>9, <1>10, <1>11, <1>12, <1>13, <1>14,
     <1>15 DEF Next, Returns

-----------------------------------------------------------------------------
\* The invariant holds in every reachable state.
LEMMA PoolInvHolds == Spec => []PoolInv
<1> QED
  BY PoolInvInit, PoolInvStep, PTL DEF Spec

\* Nothing is at work while a pause() that has returned is not taken back,
\* however the calls of any number of controllers overlap.
THEOREM PauseIsQuiet == Spec => []PausedIsQuiet
<1>1. PoolInv => PausedIsQuiet
  BY DEF PoolInv, PauseKept, PausedIsQuiet, Calling, Busy, Held
<1> QED
  BY <1>1, PoolInvHolds, PTL

\* Only DrainWakes ends a drain(), and only Stopped a stop().
LEMMA ReturnsBy ==
    ASSUME PoolInv, [Next]_vars, NEW c \in Controllers, control'[c] = "idle"
    PROVE  /\ control[c] = "draining" => DrainWakes(c)
           /\ control[c] = "stopping" => Stopped(c)
<1>t. control \in [Controllers -> {"idle", "pausing", "paused", "draining", "stopping"}]
  BY DEF PoolInv, TypeOK
<1> SUFFICES ASSUME control[c] \in {"draining", "stopping"}
             PROVE  \/ control[c] = "draining" /\ DrainWakes(c)
                    \/ control[c] = "stopping" /\ Stopped(c)
  OBVIOUS
<1>1. ASSUME NEW d \in Controllers, NEW from, NEW to, Call(d, from, to),
             from \notin {"draining", "stopping"}
      PROVE  FALSE
  BY <1>t, <1>1 DEF Call
<1>2. ASSUME NEW d \in Controllers,
             \/ Pause(d) \/ PauseWakes(d) \/ Unpause(d) \/ Stop(d)
             \/ \E q \in Queues \cup {AnyQueue} : Drain(d, q)
      PROVE  FALSE
  BY <1>1, <1>2 DEF Pause, PauseWakes, Unpause, Stop, Drain
<1>3. ASSUME NEW d \in Controllers, DrainWakes(d) PROVE d = c /\ control[c] = "draining"
  BY <1>t, <1>3 DEF DrainWakes, Call
<1>8. ASSUME NEW d \in Controllers, Stopped(d) PROVE d = c /\ control[c] = "stopping"
  BY <1>t, <1>8 DEF Stopped, Call
<1>4. ASSUME control' = control PROVE FALSE
  BY <1>4
<1>5. ASSUME NEW w \in Workers, Work(w) \/ Finish(w) PROVE FALSE
  BY <1>4, <1>5 DEF Work, Finish, calls
<1>6. ASSUME NEW q \in Queues, Dequeue(q) \/ Clear(q) \/ (\E i \in Items : Enqueue(q, i))
      PROVE  FALSE
  BY <1>4, <1>6 DEF Dequeue, Clear, Enqueue, calls
<1>7. ASSUME \/ Start \/ UNCHANGED vars \/ \E d \in Controllers : SpuriousWakeup(d) PROVE FALSE
  BY <1>4, <1>7 DEF Start, SpuriousWakeup, vars, calls
<1> QED
  BY <1>2, <1>3, <1>5, <1>6, <1>7, <1>8 DEF Next, Returns

\* When drain() returns, what it found queued or in work is done or was taken
\* out, whatever other callers did meanwhile.
THEOREM DrainIsComplete == Spec => DrainWaits
<1>1. ASSUME PoolInv, [Next]_vars, NEW c \in Controllers,
             control[c] = "draining", control'[c] = "idle"
      PROVE  before[c] \subseteq done \cup dropped
  <2>1. control' = [control EXCEPT ![c] = IF Undrained(target[c]) THEN "draining" ELSE "idle"]
    BY <1>1, ReturnsBy DEF DrainWakes, Call
  <2>2. ~Undrained(target[c])
    BY <1>1, <2>1 DEF PoolInv, TypeOK
  <2>3. Held = {}
    <3>1. IsFiniteSet(Busy) /\ processing = Cardinality(Busy)
      BY <1>1, PoolAssumption, FS_Subset DEF Busy, PoolInv, TypeOK
    <3>2. Busy = {}
      BY <2>2, <3>1, FS_EmptySet, FS_CardinalityType DEF Undrained
    <3> QED
      BY <3>2 DEF Busy, Held
  <2>4. Ahead(target[c]) = {}
    BY <2>2, ElementsType DEF Undrained, Ahead, Elements
  <2>5. before[c] \subseteq done \cup dropped \cup Held \cup Ahead(target[c])
    BY <1>1 DEF PoolInv, DrainKept, Calling
  <2> QED
    BY <2>3, <2>4, <2>5
<1>2. PoolInv /\ [Next]_vars =>
          \A c \in Controllers : control[c] = "draining" /\ control'[c] = "idle"
                                     => before[c] \subseteq done \cup dropped
  BY <1>1
<1> QED
  BY <1>2, PoolInvHolds, PTL DEF Spec, DrainWaits

\* When stop() returns, every worker has ended and nothing is in work.
THEOREM StopIsComplete == Spec => StopIsFinal
<1>1. ASSUME PoolInv, [Next]_vars, NEW c \in Controllers,
             control[c] = "stopping", control'[c] = "idle"
      PROVE  Held' = {} /\ \A w \in Workers : worker'[w] = "off"
  <2>1. (\A w \in Workers : worker[w] = "off") /\ worker' = worker
    BY <1>1, ReturnsBy DEF Stopped
  <2> QED
    BY <2>1 DEF Held
<1>2. PoolInv /\ [Next]_vars =>
          \A c \in Controllers : control[c] = "stopping" /\ control'[c] = "idle"
              => Held' = {} /\ \A w \in Workers : worker'[w] = "off"
  BY <1>1
<1> QED
  BY <1>2, PoolInvHolds, PTL DEF Spec, StopIsFinal
=============================================================================
