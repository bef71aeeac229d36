--------------------------- MODULE DispatchQueue ---------------------------
(***************************************************************************)
(* The dispatch queue of src/trunk/src/net/dispatch_queue.cpp.  The reader *)
(* of a connection hands its messages to the connection's delay thread,    *)
(* which puts them into the queue; what happens to a connection is put     *)
(* there as a code.  One dispatch thread hands both to the application,    *)
(* one more thread takes the messages the process sends to itself.         *)
(* shutdown() and wait() end these two threads.                            *)
(*                                                                         *)
(* A step is what happens between two releases of _lock, or of             *)
(* _local_delivery_lock, or of a _delay_lock.                              *)
(***************************************************************************)
EXTENDS PrioritizedQueue

CONSTANTS
    Mail,      \* [message -> [conn, prio, cost]]; conn 0 is the process itself
    Fast,      \* the local messages that can_fast_dispatch() accepts
    Streams,   \* the messages that come again and again, the others once
    Resets,    \* the connections that may have their session reset
    Faults,    \* the lossy connections, which may fail
    PrioLow,      \* MSG_PRIO_LOW: from this priority on the queue is strict
    PrioHighest   \* MSG_PRIO_HIGHEST, the priority of the codes

Messages == DOMAIN Mail
Local == {x \in Messages : Mail[x].conn = 0}
Remote == Messages \ Local
Conns == {Mail[x].conn : x \in Remote}
Codes == ({"remote reset"} \X Resets) \cup ({"reset"} \X Faults)
Items == Messages \cup Codes
Nothing == <<>>

\* get_id() numbers the connections from 1 on: 0 is left for the rest.
ASSUME MailAssumption ==
    /\ Messages \cap (Codes \cup {Nothing}) = {}
    /\ Fast \subseteq Local /\ Streams \subseteq Remote
    /\ Resets \cup Faults \subseteq Conns /\ Conns \subseteq Nat \ {0}
    /\ PrioLow \in Nat /\ PrioHighest \in Nat /\ PrioLow <= PrioHighest
    /\ \A x \in Messages : Mail[x].prio \in Nat \ {0} /\ Mail[x].cost \in Nat

VARIABLES
    mqueue,      \* _mqueue
    arrival,     \* _marrival, the messages in _mqueue
    delayed,     \* [connection -> its _delay_queue]
    task,        \* [connection -> what its reader is doing]
    stop,        \* _stop
    dispatcher,  \* the dispatch thread: "run", "sleep", "deliver" or "off"
    inHand,      \* what it delivers
    woken,       \* it was signalled in its sleep
    local,       \* _local_messages
    localStop,   \* _stop_local_delivery
    courier,     \* the local delivery thread, like dispatcher
    localHand,   \* what it delivers
    localWoken,  \* it was signalled in its sleep
    control,     \* the thread that calls shutdown() and wait()
    sent,        \* history: the items that were handed over
    fifo,        \* history: [<<class, priority>> -> its items in order]
    passed,      \* history: <<p, k, j>>: class j had its turn, k waits
    early        \* history: what was queued before _stop and still waits

queue == <<mqueue, arrival, fifo, passed, early>>
conns == <<delayed, task>>
dispatching == <<dispatcher, inHand>>
locals == <<local, courier, localHand, localWoken>>
ending == <<stop, localStop, control>>
vars == <<queue, conns, dispatching, woken, locals, ending, sent>>

Conn(x) == IF x \in Messages THEN Mail[x].conn ELSE 0
Prio(x) == IF x \in Messages THEN Mail[x].prio ELSE PrioHighest
Key(x) == <<Conn(x), Prio(x)>>
Keys == {Key(x) : x \in Items}
Queued == QueuedItems(mqueue)
Of(k) == {x \in Remote : Mail[x].conn = k}
Delayed(k) == {delayed[k][i] : i \in DOMAIN delayed[k]}

TypeOK ==
    /\ Queued \subseteq Items /\ arrival \subseteq Messages
    /\ \A p \in DOMAIN mqueue.low : mqueue.low[p].tokens \in 0..MaxTokens
    /\ delayed \in [Conns -> Seq(Remote)]
    /\ task \in [Conns -> {"read", "reset", "tell reset", "fault", "tell fault", "closed"}]
    /\ {stop, localStop, woken, localWoken} \subseteq BOOLEAN
    /\ {dispatcher, courier} \subseteq {"run", "sleep", "deliver", "off"}
    /\ inHand \in Items \cup {Nothing} /\ localHand \in Local \cup {Nothing}
    /\ local \in Seq(Local)
    /\ control \in {"up", "stopping", "waiting", "joined"}
    /\ {sent, early} \subseteq SUBSET Items
    /\ fifo \in [Keys -> Seq(Items)]

\* start() has run.
Init ==
    /\ mqueue = EmptyQueue /\ arrival = {}
    /\ delayed = [k \in Conns |-> <<>>] /\ task = [k \in Conns |-> "read"]
    /\ stop = FALSE /\ localStop = FALSE /\ control = "up"
    /\ dispatcher = "run" /\ inHand = Nothing /\ woken = FALSE
    /\ local = <<>> /\ courier = "run" /\ localHand = Nothing /\ localWoken = FALSE
    /\ sent = {} /\ fifo = [k \in Keys |-> <<>>] /\ passed = {} /\ early = {}

-----------------------------------------------------------------------------
(* Putting things in                                                       *)

\* _cond.signal(), _local_delivery_cond.signal(): each has one waiter.
Signal == woken' = (dispatcher = "sleep")
LocalSignal == localWoken' = (courier = "sleep")

\* The queue with one more item.
Put(x) ==
    /\ mqueue' = IF Prio(x) >= PrioLow THEN EnqueueStrict(mqueue, Conn(x), Prio(x), x)
                 ELSE Enqueue(mqueue, Conn(x), Prio(x), Mail[x].cost, x)
    /\ fifo' = [fifo EXCEPT ![Key(x)] = Append(@, x)]
    /\ early' = IF stop THEN early ELSE early \cup {x}
    /\ UNCHANGED passed
    /\ Signal

\* enqueue()
Push(x) == Put(x) /\ arrival' = arrival \cup {x}

\* The reader of a connection got a message.
Receive(x) ==
    /\ x \in Remote /\ task[Conn(x)] = "read"
    /\ \/ x \notin sent
       \/ x \in Streams /\ x \notin Queued \cup Delayed(Conn(x)) \cup {inHand}
    /\ delayed' = [delayed EXCEPT ![Conn(x)] = Append(@, x)]
    /\ sent' = sent \cup {x}
    /\ UNCHANGED <<queue, task, dispatching, woken, locals, ending>>

\* The delay thread of connection k passes a message on.
Release(k) ==
    /\ delayed[k] # <<>>
    /\ Push(Head(delayed[k]))
    /\ delayed' = [delayed EXCEPT ![k] = Tail(@)]
    /\ UNCHANGED <<task, dispatching, locals, ending, sent>>

\* (mutant) The list is looked at after the message was appended.
LocalDeliveryLate(x) ==
    /\ x \in Local \ sent
    /\ sent' = sent \cup {x}
    /\ local' = Append(local, x)
    /\ IF local' = <<>> THEN LocalSignal ELSE UNCHANGED localWoken
    /\ UNCHANGED <<queue, conns, dispatching, woken, courier, localHand, ending>>

\* local_delivery()
LocalDelivery(x) ==
    /\ x \in Local \ sent
    /\ sent' = sent \cup {x}
    /\ IF local = <<>> THEN LocalSignal ELSE UNCHANGED localWoken
    /\ local' = Append(local, x)
    /\ UNCHANGED <<queue, conns, dispatching, woken, courier, localHand, ending>>

-----------------------------------------------------------------------------
(* A connection fails or has its session reset                             *)

Goto(k, from, to) == task[k] = from /\ task' = [task EXCEPT ![k] = to]

\* discard_queue(): what connection k has in the queue is dropped.
DiscardQueued(k) ==
    /\ mqueue' = RemoveClass(mqueue, k)
    /\ LET gone == Queued \ QueuedItems(mqueue')
       IN  arrival' = arrival \ gone /\ early' = early \ gone
    /\ fifo' = [key \in Keys |-> IF key[1] = k THEN <<>> ELSE fifo[key]]
    /\ passed' = {t \in passed : t[2] # k}
    /\ UNCHANGED <<delayed, dispatching, woken, locals, ending, sent>>

\* DelayedDelivery::discard()
DiscardDelayed(k) ==
    /\ delayed' = [delayed EXCEPT ![k] = <<>>]
    /\ UNCHANGED <<queue, dispatching, woken, locals, ending, sent>>

\* queue_remote_reset() and queue_reset(), which the stopped queue ignores.
Tell(x) ==
    /\ sent' = sent \cup {x}
    /\ IF stop THEN UNCHANGED <<queue, woken>> ELSE Put(x) /\ UNCHANGED arrival
    /\ UNCHANGED <<delayed, dispatching, locals, ending>>

\* was_session_reset(), once
WasSessionReset(k) ==
    /\ k \in Resets /\ <<"remote reset", k>> \notin sent
    /\ \/ Goto(k, "read", "reset") /\ DiscardQueued(k)
       \/ Goto(k, "reset", "tell reset") /\ DiscardDelayed(k)
       \/ Goto(k, "tell reset", "read") /\ Tell(<<"remote reset", k>>)

\* (mutant) The queues are emptied in the order of was_session_reset().
LossyFaultQueueFirst(k) ==
    /\ k \in Faults
    /\ \/ Goto(k, "read", "fault") /\ DiscardQueued(k)
       \/ Goto(k, "fault", "tell fault") /\ DiscardDelayed(k)
       \/ Goto(k, "tell fault", "closed") /\ Tell(<<"reset", k>>)

\* fault() of a lossy connection, which stops the reader first
LossyFault(k) ==
    /\ k \in Faults
    /\ \/ Goto(k, "read", "fault") /\ DiscardDelayed(k)
       \/ Goto(k, "fault", "tell fault") /\ DiscardQueued(k)
       \/ Goto(k, "tell fault", "closed") /\ Tell(<<"reset", k>>)

-----------------------------------------------------------------------------
(* The dispatch thread                                                     *)

Awake == dispatcher = "run" \/ (dispatcher = "sleep" /\ woken)

\* The classes with items of the priority of x.
Classes(x) == {key[1] : key \in {l \in Keys : l[2] = Prio(x) /\ fifo[l] # <<>>}}

Take ==
    /\ Awake /\ ~IsEmpty(mqueue)
    /\ LET x == Dequeued(mqueue) IN
        /\ mqueue' = Rest(mqueue)
        /\ arrival' = arrival \ {x}
        /\ inHand' = x
        /\ fifo' = [fifo EXCEPT ![Key(x)] = Tail(@)]
        /\ passed' = {t \in passed : t[1] # Prio(x) \/ t[2] # Conn(x)} \cup
                     {<<Prio(x), k, Conn(x)>> : k \in Classes(x) \ {Conn(x)}}
        /\ early' = early \ {x}
    /\ dispatcher' = "deliver" /\ woken' = FALSE
    /\ UNCHANGED <<conns, locals, ending, sent>>

\* The application, or nobody when _stop is set, got what is in hand.
Deliver ==
    /\ dispatcher = "deliver"
    /\ dispatcher' = "run" /\ inHand' = Nothing
    /\ UNCHANGED <<queue, conns, woken, locals, ending, sent>>

\* (mutant) _stop is looked at before the queue.
RestOrEndEarly ==
    /\ Awake /\ (stop \/ IsEmpty(mqueue))
    /\ dispatcher' = (IF stop THEN "off" ELSE "sleep")
    /\ woken' = FALSE
    /\ UNCHANGED <<queue, conns, inHand, locals, ending, sent>>

\* There is nothing to take.
RestOrEnd ==
    /\ Awake /\ IsEmpty(mqueue)
    /\ dispatcher' = (IF stop THEN "off" ELSE "sleep")
    /\ woken' = FALSE
    /\ UNCHANGED <<queue, conns, inHand, locals, ending, sent>>

-----------------------------------------------------------------------------
(* run_local_delivery()                                                    *)

LocalAwake == courier = "run" \/ (courier = "sleep" /\ localWoken)

LocalTake ==
    /\ LocalAwake /\ ~localStop /\ local # <<>>
    /\ localHand' = Head(local) /\ local' = Tail(local)
    /\ courier' = "deliver" /\ localWoken' = FALSE
    /\ UNCHANGED <<queue, conns, dispatching, woken, ending, sent>>

LocalDeliver ==
    /\ courier = "deliver"
    /\ IF localHand \in Fast THEN UNCHANGED <<queue, woken>> ELSE Push(localHand)
    /\ courier' = "run" /\ localHand' = Nothing
    /\ UNCHANGED <<conns, dispatching, local, localWoken, ending, sent>>

LocalRestOrEnd ==
    /\ LocalAwake /\ (localStop \/ local = <<>>)
    /\ courier' = (IF localStop THEN "off" ELSE "sleep")
    /\ localWoken' = FALSE
    /\ UNCHANGED <<queue, conns, dispatching, woken, local, localHand, ending, sent>>

-----------------------------------------------------------------------------
(* shutdown(), wait() and discard_local()                                  *)

StopLocal ==
    /\ control = "up" /\ control' = "stopping"
    /\ localStop' = TRUE
    /\ LocalSignal
    /\ UNCHANGED <<queue, conns, dispatching, woken, local, courier, localHand, stop, sent>>

\* (mutant) The dispatch thread is not woken.
StopSilently ==
    /\ control = "stopping" /\ control' = "waiting"
    /\ stop' = TRUE
    /\ UNCHANGED <<queue, conns, dispatching, woken, locals, localStop, sent>>

Stop ==
    /\ control = "stopping" /\ control' = "waiting"
    /\ stop' = TRUE
    /\ Signal
    /\ UNCHANGED <<queue, conns, dispatching, locals, localStop, sent>>

Joined ==
    /\ control = "waiting" /\ courier = "off" /\ dispatcher = "off"
    /\ control' = "joined"
    /\ local' = <<>>
    /\ UNCHANGED <<queue, conns, dispatching, woken, courier, localHand, localWoken,
                   stop, localStop, sent>>

Dispatching == Take \/ Deliver \/ RestOrEnd
Delivering == LocalTake \/ LocalDeliver \/ LocalRestOrEnd
Ending == Stop \/ Joined

Next ==
    \/ Dispatching \/ Delivering \/ Ending \/ StopLocal
    \/ \E x \in Messages : Receive(x) \/ LocalDelivery(x)
    \/ \E k \in Conns : Release(k) \/ WasSessionReset(k) \/ LossyFault(k)

\* The threads of the queue run; readers and the rest of the process may
\* stop at any point.
Spec == Init /\ [][Next]_vars
FairSpec ==
    /\ Spec
    /\ WF_vars(Dispatching) /\ WF_vars(Delivering) /\ WF_vars(Ending)
    /\ \A k \in Conns : WF_vars(Release(k))

-----------------------------------------------------------------------------
(* Properties                                                              *)

\* dequeue() looks at the front of every SubQueue and divides by the sum of
\* the priorities: the maps, the iterators and the counters agree with what
\* is in the queue, and so does _marrival, after any mixture of enqueue(),
\* dequeue() and remove_by_class() (prioritizedqueue.h:115-409).  The types
\* of the other variables go with it.
QueueSound ==
    /\ TypeOK
    /\ WellFormed(mqueue)
    /\ arrival = Queued \ Codes
    /\ Length(mqueue) = Cardinality(Queued)

\* Messages of one connection and priority are handed out in the order they
\* came, although other connections, priorities, discards and the token
\* scheme come between them.
TakenInOrder ==
    [][\A x \in Items : inHand = Nothing /\ inHand' = x => x = Head(fifo[Key(x)])]_vars

\* Within a priority no connection has two turns while another one waits for
\* its first (SubQueue::pop_front).
TakeTurns ==
    [][\A x \in Items : inHand = Nothing /\ inHand' = x =>
         \A k \in Conns \cup {0} : <<Prio(x), k, Conn(x)>> \notin passed]_vars

\* Neither thread sleeps on without a signal while it has work or should end:
\* local_delivery() signals only when the list was empty.
NoLostWakeup ==
    /\ dispatcher = "sleep" /\ ~woken => IsEmpty(mqueue) /\ ~stop
    /\ courier = "sleep" /\ ~localWoken => local = <<>> /\ ~localStop

\* The application hears of the end of a lossy connection after the last of
\* its messages: fault() queues the code when neither the delay queue nor the
\* dispatch queue has a message of it, and none follows (socket.cpp:989-1011).
ResetIsLast ==
    \A k \in Faults : <<"reset", k>> \in sent => Of(k) \cap (Queued \cup Delayed(k)) = {}

\* What was in the queue when shutdown() came has been taken out, and so
\* dispatched or released, when the dispatch thread has ended.
DrainedAtExit == dispatcher = "off" => early = {}

\* A queued message does not wait for ever behind others, whatever keeps
\* coming at other priorities below MSG_PRIO_LOW, provided that its cost is
\* below MaxTokens or its priority is the highest of these: dequeue() wants
\* more tokens than an item costs and a SubQueue holds at most MaxTokens.
NoStarvation == \A x \in Remote : x \in Queued ~> (x \notin Queued \/ dispatcher = "off")

\* wait() returns, unless messages keep coming out of the delay queues.
ShutdownEnds ==
    stop ~> (control = "joined" \/ \E k \in Conns : delayed[k] # <<>>)
=============================================================================
