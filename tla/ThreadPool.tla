----------------------------- MODULE ThreadPool -----------------------------
(***************************************************************************)
(* The thread pool of src/trunk/src/sys/thread_pool.cpp: workers take      *)
(* items from the work queues in turn and process them without the lock;   *)
(* controllers pause, drain and stop the pool.                             *)
(*                                                                         *)
(* Every step but the processing of an item runs under _lock.  Workers     *)
(* sleep on _cond with a timeout, so that its signals do not matter;       *)
(* pause() and drain() sleep on _wait_cond without one, and a signal there *)
(* wakes one of them.                                                      *)
(***************************************************************************)
EXTENDS Naturals, Sequences, FiniteSets

CONSTANTS
    Workers,        \* the _num_threads worker threads
    Controllers,    \* the threads that call pause(), drain() and stop()
    Items,          \* the items queued, each of them once
    NumQueues,      \* the number of work queues
    InitDraining,   \* the values the uninitialised member _draining may hold
    MaxStops        \* bound on the number of stop() calls

ASSUME PoolAssumption ==
    /\ IsFiniteSet(Workers) /\ IsFiniteSet(Controllers)
    /\ NumQueues \in Nat \ {0}
    /\ InitDraining \subseteq Nat
    /\ MaxStops \in Nat

Queues == 0 .. NumQueues - 1
NoItem == "no item"
AnyQueue == NumQueues   \* drain(NULL)

VARIABLES
    queue,       \* the items in each work queue
    last,        \* _last_work_index
    processing,  \* _processing
    pause,       \* _pause
    draining,    \* _draining
    stop,        \* _stop
    worker,      \* [worker -> "off", "ready" or "busy"]
    item,        \* [worker -> the item it processes]
    control,     \* [controller -> the call it is in, or "paused" after pause()]
    target,      \* [controller -> the queue it drains]
    signalled,   \* the controllers woken from _wait_cond
    done,        \* history: the items that were processed
    dropped,     \* history: the items removed from a queue unprocessed
    before,      \* history: [controller -> the items drain() has to see done]
    stops        \* history: the number of stop() calls

jobs == <<queue, last, processing, worker, item, done>>
calls == <<pause, draining, stop, control, target, signalled, before, stops>>
vars == <<jobs, calls, dropped>>

Elements(q) == {q[i] : i \in DOMAIN q}
Held == {item[w] : w \in {v \in Workers : worker[v] = "busy"}}
Waiting == {c \in Controllers : control[c] \in {"pausing", "draining"}}

TypeOK ==
    /\ queue \in [Queues -> Seq(Items)]
    /\ last \in Queues
    /\ processing = Cardinality({w \in Workers : worker[w] = "busy"})
    /\ {pause, draining, stops} \subseteq Nat /\ stop \in BOOLEAN
    /\ worker \in [Workers -> {"off", "ready", "busy"}]
    /\ item \in [Workers -> Items \cup {NoItem}]
    /\ control \in [Controllers -> {"idle", "pausing", "paused", "draining", "stopping"}]
    /\ target \in [Controllers -> Queues \cup {AnyQueue}]
    /\ signalled \in SUBSET Waiting
    /\ {done, dropped} \subseteq SUBSET Items
    /\ before \in [Controllers -> SUBSET Items]

Init ==
    /\ queue = [q \in Queues |-> <<>>]
    /\ last = 0 /\ processing = 0 /\ pause = 0 /\ stop = FALSE
    /\ draining \in InitDraining
    /\ worker = [w \in Workers |-> "off"]
    /\ item = [w \in Workers |-> NoItem]
    /\ control = [c \in Controllers |-> "idle"]
    /\ target = [c \in Controllers |-> AnyQueue]
    /\ signalled = {} /\ done = {} /\ dropped = {} /\ stops = 0
    /\ before = [c \in Controllers |-> {}]

-----------------------------------------------------------------------------
(* worker()                                                                *)

\* (mutant) The round trip over the queues is one queue short.
InTurnShort(k) == (last + 1 + (k % (NumQueues - 1))) % NumQueues

\* The k-th queue looked at.
InTurn(k) == (last + k) % NumQueues

\* The loop from its head to the next unlock, with `running' items in work:
\* the worker ends, takes an item, or sleeps on _cond.
Loop(w, running) ==
    LET found == {k \in 1..NumQueues : queue[InTurn(k)] # <<>>}
        q == InTurn(CHOOSE k \in found : \A j \in found : k <= j)
    IN
    IF found # {} /\ ~stop /\ pause = 0
    THEN /\ worker' = [worker EXCEPT ![w] = "busy"]
         /\ item' = [item EXCEPT ![w] = Head(queue[q])]
         /\ queue' = [queue EXCEPT ![q] = Tail(@)]
         /\ last' = q
         /\ processing' = running + 1
    ELSE /\ worker' = [worker EXCEPT ![w] = IF stop THEN "off" ELSE "ready"]
         /\ item' = [item EXCEPT ![w] = NoItem]
         /\ processing' = running
         /\ UNCHANGED <<queue, last>>

\* The worker starts, or its sleep on _cond ends after a millisecond.
Work(w) ==
    /\ worker[w] = "ready"
    /\ Loop(w, processing)
    /\ UNCHANGED <<calls, dropped, done>>

\* (mutant) The end of an item is announced to draining controllers only.
FinishDrainOnly(w) ==
    /\ worker[w] = "busy"
    /\ done' = done \cup {item[w]}
    /\ Loop(w, processing - 1)
    /\ \/ /\ draining > 0
          /\ \E c \in Waiting \ signalled : signalled' = signalled \cup {c}
       \/ /\ draining = 0 \/ Waiting \subseteq signalled
          /\ UNCHANGED signalled
    /\ UNCHANGED <<pause, draining, stop, control, target, before, stops, dropped>>

\* An item is done: one waiting controller is woken, and the loop goes on.
Finish(w) ==
    /\ worker[w] = "busy"
    /\ done' = done \cup {item[w]}
    /\ Loop(w, processing - 1)
    /\ \/ /\ pause > 0 \/ draining > 0
          /\ \E c \in Waiting \ signalled : signalled' = signalled \cup {c}
       \/ /\ (pause = 0 /\ draining = 0) \/ Waiting \subseteq signalled
          /\ UNCHANGED signalled
    /\ UNCHANGED <<pause, draining, stop, control, target, before, stops, dropped>>

-----------------------------------------------------------------------------
(* WorkQueue and the callers of its member functions.                      *)

Unseen == Items \ (done \cup dropped \cup Held \cup UNION {Elements(queue[q]) : q \in Queues})

\* queue(item)
Enqueue(q, i) ==
    /\ i \in Unseen
    /\ queue' = [queue EXCEPT ![q] = Append(@, i)]
    /\ UNCHANGED <<last, processing, worker, item, done, calls, dropped>>

\* dequeue(item): the queue of src/demo takes out the first item, whatever
\* the argument is.
Dequeue(q) ==
    /\ queue[q] # <<>>
    /\ queue' = [queue EXCEPT ![q] = Tail(@)]
    /\ dropped' = dropped \cup {Head(queue[q])}
    /\ UNCHANGED <<last, processing, worker, item, done, calls>>

\* clear()
Clear(q) ==
    /\ queue[q] # <<>>
    /\ queue' = [queue EXCEPT ![q] = <<>>]
    /\ dropped' = dropped \cup Elements(queue[q])
    /\ UNCHANGED <<last, processing, worker, item, done, calls>>

-----------------------------------------------------------------------------
(* The controllers.                                                        *)

Call(c, from, to) == control[c] = from /\ control' = [control EXCEPT ![c] = to]

\* start() makes the missing workers; nobody calls it while the pool stops.
Start ==
    /\ \A c \in Controllers : control[c] # "stopping"
    /\ \A w \in Workers : worker[w] = "off"
    /\ worker' = [w \in Workers |-> "ready"]
    /\ UNCHANGED <<queue, last, processing, item, done, calls, dropped>>

\* (mutant) pause() is content when the queues are empty.
PauseUnlessQueued(c) ==
    /\ Call(c, "idle", IF processing > 0 /\ \E q \in Queues : queue[q] # <<>>
                       THEN "pausing" ELSE "paused")
    /\ pause' = pause + 1
    /\ UNCHANGED <<jobs, draining, stop, target, signalled, before, stops, dropped>>

\* pause(), until it returns or sleeps on _wait_cond.
Pause(c) ==
    /\ Call(c, "idle", IF processing > 0 THEN "pausing" ELSE "paused")
    /\ pause' = pause + 1
    /\ UNCHANGED <<jobs, draining, stop, target, signalled, before, stops, dropped>>

\* A controller that pauses the pool wakes: spuriously, too.
PauseWakes(c) ==
    /\ c \in signalled
    /\ Call(c, "pausing", IF processing > 0 THEN "pausing" ELSE "paused")
    /\ signalled' = signalled \ {c}
    /\ UNCHANGED <<jobs, pause, draining, stop, target, before, stops, dropped>>

Unpause(c) ==
    /\ Call(c, "paused", "idle")
    /\ pause' = pause - 1
    /\ UNCHANGED <<jobs, draining, stop, target, signalled, before, stops, dropped>>

\* (mutant) drain() looks at the queue and not at the items in work.
UndrainedQueue(q) == q # AnyQueue /\ queue[q] # <<>>

Undrained(q) == processing > 0 \/ (q # AnyQueue /\ queue[q] # <<>>)

\* drain(wq), until it returns or sleeps on _wait_cond.
Drain(c, q) ==
    /\ Call(c, "idle", IF Undrained(q) THEN "draining" ELSE "idle")
    /\ IF Undrained(q)
       THEN /\ draining' = draining + 1
            /\ target' = [target EXCEPT ![c] = q]
            /\ before' = [before EXCEPT ![c] =
                    Held \cup (IF q = AnyQueue THEN {} ELSE Elements(queue[q]))]
       ELSE UNCHANGED <<draining, target, before>>
    /\ UNCHANGED <<jobs, pause, stop, signalled, stops, dropped>>

DrainWakes(c) ==
    /\ c \in signalled
    /\ Call(c, "draining", IF Undrained(target[c]) THEN "draining" ELSE "idle")
    /\ signalled' = signalled \ {c}
    /\ draining' = IF Undrained(target[c]) THEN draining ELSE draining - 1
    /\ UNCHANGED <<jobs, pause, stop, target, before, stops, dropped>>

\* pthread_cond_wait may return without a signal.
SpuriousWakeup(c) ==
    /\ c \in Waiting \ signalled
    /\ signalled' = signalled \cup {c}
    /\ UNCHANGED <<jobs, pause, draining, stop, control, target, before, stops, dropped>>

\* stop() up to the join of the workers; one controller stops at a time.
Stop(c) ==
    /\ stops < MaxStops
    /\ \A d \in Controllers : control[d] # "stopping"
    /\ Call(c, "idle", "stopping")
    /\ stop' = TRUE
    /\ stops' = stops + 1
    /\ UNCHANGED <<jobs, pause, draining, target, signalled, before, dropped>>

\* (mutant) stop() does not join the workers.
StoppedUnjoined(c) ==
    /\ Call(c, "stopping", "idle")
    /\ stop' = FALSE
    /\ dropped' = dropped \cup UNION {Elements(queue[q]) : q \in Queues}
    /\ queue' = [q \in Queues |-> <<>>]
    /\ UNCHANGED <<last, processing, worker, item, done, pause, draining, target,
                   signalled, before, stops>>

\* stop() from there: the queues are cleared, whatever clear_after says.
Stopped(c) ==
    /\ \A w \in Workers : worker[w] = "off"
    /\ Call(c, "stopping", "idle")
    /\ stop' = FALSE
    /\ dropped' = dropped \cup UNION {Elements(queue[q]) : q \in Queues}
    /\ queue' = [q \in Queues |-> <<>>]
    /\ UNCHANGED <<last, processing, worker, item, done, pause, draining, target,
                   signalled, before, stops>>

-----------------------------------------------------------------------------
Returns(c) == PauseWakes(c) \/ DrainWakes(c) \/ Stopped(c)

Next ==
    \/ \E w \in Workers : Work(w) \/ Finish(w)
    \/ \E q \in Queues : Dequeue(q) \/ Clear(q) \/ \E i \in Items : Enqueue(q, i)
    \/ Start
    \/ \E c \in Controllers :
        \/ Pause(c) \/ Unpause(c) \/ Stop(c) \/ SpuriousWakeup(c) \/ Returns(c)
        \/ \E q \in Queues \cup {AnyQueue} : Drain(c, q)

Spec == Init /\ [][Next]_vars

\* Workers run, items end, and a controller that can return does.
FairSpec ==
    /\ Spec
    /\ \A w \in Workers : WF_vars(Work(w)) /\ WF_vars(Finish(w))
    /\ \A c \in Controllers : WF_vars(Returns(c))

-----------------------------------------------------------------------------
\* pause() has returned and nobody took it back: no item is in work, however
\* many controllers pause and take back their pauses around it; and the types
\* hold.
PausedIsQuiet ==
    /\ TypeOK
    /\ (\E c \in Controllers : control[c] = "paused") => Held = {}

\* When drain() returns, what was in the queue and in work when it was called
\* has been processed, or somebody took it out of the queue.
DrainWaits ==
    [][\A c \in Controllers :
          control[c] = "draining" /\ control'[c] = "idle"
              => before[c] \subseteq done \cup dropped]_vars

\* When stop() returns, no worker is left that could take or process an item.
StopIsFinal ==
    [][\A c \in Controllers :
          control[c] = "stopping" /\ control'[c] = "idle"
              => Held' = {} /\ \A w \in Workers : worker'[w] = "off"]_vars

\* An item that was queued is processed, unless it is taken out, the pool is
\* paused or its workers have ended.
ItemsGetDone ==
    \A i \in Items :
        (\E q \in Queues : i \in Elements(queue[q]))
            ~> \/ i \in done \cup dropped
               \/ pause > 0
               \/ \E w \in Workers : worker[w] = "off"

\* As long as no two controllers sleep at a time, pause() returns, and drain()
\* as well when nothing is taken out of a queue and the pool runs meanwhile.
LoneCallReturns ==
    [](Cardinality(Waiting) <= 1) =>
        \A c \in Controllers :
            c \in Waiting
                ~> \/ c \notin Waiting
                   \/ control[c] = "draining" /\ (\/ pause > 0 \/ dropped # {}
                                                  \/ \E w \in Workers : worker[w] = "off")

\* A pausing controller is woken when the items in work are done.
PauseReturns ==
    \A c \in Controllers : control[c] = "pausing" ~> control[c] # "pausing"
=============================================================================
