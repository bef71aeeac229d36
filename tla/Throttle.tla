------------------------------ MODULE Throttle ------------------------------
(***************************************************************************)
(* The counting throttle of src/trunk/src/common/throttle.cpp: callers     *)
(* get() an amount, wait in FIFO order while the throttle is full, and     *)
(* put() the amount back.  Every waiter sleeps on a condition variable of  *)
(* its own, so a wakeup goes to one named thread and is never broadcast.   *)
(*                                                                         *)
(* Every member function first reads _max WITHOUT the lock and returns     *)
(* when it is 0; that read and the locked part are two steps here.         *)
(***************************************************************************)
EXTENDS Integers, Sequences, FiniteSets, Functions

CONSTANTS
    Clients,     \* the threads that use the throttle
    Amounts,     \* the amounts they ask for
    Maxes,       \* the values _max may be given (0 means "no limit")
    InitCounts,  \* the values the uninitialised member _count may hold
    MaxChanges   \* bound on the number of reset() and reset_max() calls

ASSUME ThrottleAssumption ==
    /\ IsFiniteSet(Clients)
    /\ Amounts \subseteq Nat \ {0}
    /\ Maxes \subseteq Nat
    /\ InitCounts \subseteq Int
    /\ MaxChanges \in Nat

VARIABLES
    count,     \* _count
    max,       \* _max
    conds,     \* _conds: the waiting threads, each standing for its Cond
    signalled, \* the waiting threads whose Cond was signalled
    want,      \* the amount a thread is asking for (0 in wait())
    held,      \* the amount a thread will put() back
    pc,        \* where a thread is
    past,      \* history: which disturbances of the accounting happened
    changes    \* history: the number of reset() and reset_max() calls

vars == <<count, max, conds, signalled, want, held, pc, past, changes>>

Disturbances == {"unlimited", "reset", "reset_max", "take", "garbage"}

TypeOK ==
    /\ count \in Int
    /\ max \in Maxes
    /\ conds \in Seq(Clients)
    /\ signalled \in SUBSET Clients
    /\ want \in [Clients -> Nat]
    /\ held \in [Clients -> Nat]
    /\ pc \in [Clients -> {"idle", "get", "waiting", "try", "take", "put"}]
    /\ past \in SUBSET Disturbances
    /\ changes \in 0..MaxChanges

\* Throttle::Throttle initialises _max and leaves _count as it finds it.
Init ==
    /\ count \in InitCounts
    /\ max \in Maxes
    /\ conds = <<>>
    /\ signalled = {}
    /\ want = [c \in Clients |-> 0]
    /\ held = [c \in Clients |-> 0]
    /\ pc = [c \in Clients |-> "idle"]
    /\ past = (IF count = 0 THEN {} ELSE {"garbage"})
              \cup (IF max = 0 THEN {"unlimited"} ELSE {})
    /\ changes = 0

-----------------------------------------------------------------------------
\* (mutant) Requests above the limit are let through whatever the count.
ShouldWaitNotOversize(n) == max # 0 /\ n <= max /\ count + n > max

\* _should_wait(n)
ShouldWait(n) ==
    /\ max # 0
    /\ \/ n <= max /\ count + n > max
       \/ n >= max /\ count > max

\* signal() on the Cond at the front of the queue q, when there is one.
SignalFront(q) == IF q = <<>> THEN {} ELSE {Head(q)}

Step(c, from, to) == pc[c] = from /\ pc' = [pc EXCEPT ![c] = to]

\* The calls that find _max = 0 in the unlocked read change nothing: get()
\* and wait() return at once, but their caller still put()s later.
GetUnlimited(c, n) ==
    /\ pc[c] = "idle" /\ held[c] = 0
    /\ max = 0
    /\ held' = [held EXCEPT ![c] = n]
    /\ UNCHANGED <<count, max, conds, signalled, want, pc, past, changes>>

\* get(n) and wait() past the unlocked read; wait() is get(0) that adds 0.
GetEnter(c, n) ==
    /\ Step(c, "idle", "get") /\ held[c] = 0
    /\ max # 0
    /\ want' = [want EXCEPT ![c] = n]
    /\ UNCHANGED <<count, max, conds, signalled, held, past, changes>>

Grant(c) ==
    /\ count' = count + want[c]
    /\ held' = [held EXCEPT ![c] = want[c]]
    /\ want' = [want EXCEPT ![c] = 0]

\* (mutant) A newcomer that fits does not look at the queue.
GetNowBarging(c) ==
    /\ Step(c, "get", "idle")
    /\ ~ShouldWait(want[c])
    /\ Grant(c)
    /\ UNCHANGED <<max, conds, signalled, past, changes>>

\* The locked part of get() and wait() when _wait() need not sleep.
GetNow(c) ==
    /\ Step(c, "get", "idle")
    /\ ~ShouldWait(want[c]) /\ conds = <<>>
    /\ Grant(c)
    /\ UNCHANGED <<max, conds, signalled, past, changes>>

\* _wait() queues a new Cond and sleeps on it, which releases the lock.
GetSleep(c) ==
    /\ Step(c, "get", "waiting")
    /\ ShouldWait(want[c]) \/ conds # <<>>
    /\ conds' = Append(conds, c)
    /\ UNCHANGED <<count, max, signalled, want, held, past, changes>>

\* (mutant) A waiter leaves without signalling the next one.
WakeGrantNoChain(c) ==
    /\ Step(c, "waiting", "idle")
    /\ c \in signalled
    /\ ~ShouldWait(want[c]) /\ c = Head(conds)
    /\ Grant(c)
    /\ conds' = Tail(conds)
    /\ signalled' = signalled \ {c}
    /\ UNCHANGED <<max, past, changes>>

\* (mutant) A waiter leaves its Cond in the queue.
WakeGrantNoPop(c) ==
    /\ Step(c, "waiting", "idle")
    /\ c \in signalled
    /\ ~ShouldWait(want[c]) /\ c = Head(conds)
    /\ Grant(c)
    /\ signalled' = signalled \ {c}
    /\ UNCHANGED <<max, conds, past, changes>>

\* A signalled waiter runs again and finds that it may go.
WakeGrant(c) ==
    /\ Step(c, "waiting", "idle")
    /\ c \in signalled
    /\ ~ShouldWait(want[c]) /\ c = Head(conds)
    /\ Grant(c)
    /\ conds' = Tail(conds)
    /\ signalled' = (signalled \ {c}) \cup SignalFront(Tail(conds))
    /\ UNCHANGED <<max, past, changes>>

\* A signalled waiter runs again and goes back to sleep.
WakeSleep(c) ==
    /\ pc[c] = "waiting"
    /\ c \in signalled
    /\ ShouldWait(want[c]) \/ c # Head(conds)
    /\ signalled' = signalled \ {c}
    /\ UNCHANGED <<count, max, conds, want, held, pc, past, changes>>

\* pthread_cond_wait may return without a signal.
SpuriousWakeup(c) ==
    /\ pc[c] = "waiting" /\ c \notin signalled
    /\ signalled' = signalled \cup {c}
    /\ UNCHANGED <<count, max, conds, want, held, pc, past, changes>>

\* get_or_fail(n): never sleeps, and never passes a waiter.
TryEnter(c, n) ==
    /\ Step(c, "idle", "try") /\ held[c] = 0
    /\ max # 0
    /\ want' = [want EXCEPT ![c] = n]
    /\ UNCHANGED <<count, max, conds, signalled, held, past, changes>>

\* (mutant) A refused request is counted all the same.
TryCountsRefused(c) ==
    /\ Step(c, "try", "idle")
    /\ count' = count + want[c]
    /\ want' = [want EXCEPT ![c] = 0]
    /\ IF ShouldWait(want[c]) \/ conds # <<>>
       THEN UNCHANGED held
       ELSE held' = [held EXCEPT ![c] = want[c]]
    /\ UNCHANGED <<max, conds, signalled, past, changes>>

\* The locked part of get_or_fail().
Try(c) ==
    /\ Step(c, "try", "idle")
    /\ IF ShouldWait(want[c]) \/ conds # <<>>
       THEN want' = [want EXCEPT ![c] = 0] /\ UNCHANGED <<count, held>>
       ELSE Grant(c)
    /\ UNCHANGED <<max, conds, signalled, past, changes>>

\* take(n): counts without waiting.
TakeEnter(c, n) ==
    /\ Step(c, "idle", "take") /\ held[c] = 0
    /\ max # 0
    /\ want' = [want EXCEPT ![c] = n]
    /\ UNCHANGED <<count, max, conds, signalled, held, past, changes>>

Take(c) ==
    /\ Step(c, "take", "idle")
    /\ Grant(c)
    /\ past' = past \cup {"take"}
    /\ UNCHANGED <<max, conds, signalled, changes>>

\* put(n) that finds _max = 0 in the unlocked read gives nothing back.
PutUnlimited(c) ==
    /\ pc[c] = "idle" /\ held[c] # 0
    /\ max = 0
    /\ held' = [held EXCEPT ![c] = 0]
    /\ UNCHANGED <<count, max, conds, signalled, want, pc, past, changes>>

PutEnter(c) ==
    /\ Step(c, "idle", "put") /\ held[c] # 0
    /\ max # 0
    /\ UNCHANGED <<count, max, conds, signalled, want, held, past, changes>>

\* (mutant) put() signals nobody.
PutNoSignal(c) ==
    /\ Step(c, "put", "idle")
    /\ count' = count - held[c]
    /\ held' = [held EXCEPT ![c] = 0]
    /\ UNCHANGED <<max, conds, signalled, want, past, changes>>

\* (mutant) put() gives back the limit instead of the amount.
PutLimit(c) ==
    /\ Step(c, "put", "idle")
    /\ count' = count - max
    /\ held' = [held EXCEPT ![c] = @ - max]
    /\ signalled' = signalled \cup SignalFront(conds)
    /\ UNCHANGED <<max, conds, want, past, changes>>

\* The locked part of put(): signal the front, then subtract.
Put(c) ==
    /\ Step(c, "put", "idle")
    /\ count' = count - held[c]
    /\ held' = [held EXCEPT ![c] = 0]
    /\ signalled' = signalled \cup SignalFront(conds)
    /\ UNCHANGED <<max, conds, want, past, changes>>

Disturb(what) ==
    /\ changes < MaxChanges
    /\ changes' = changes + 1
    /\ past' = past \cup what

\* reset_max(m), also the first thing get(n, m) and wait(m) do.
ResetMax(m) ==
    /\ max # m
    /\ max' = m
    /\ signalled' = signalled \cup SignalFront(conds)
    /\ Disturb({"reset_max"} \cup (IF m = 0 THEN {"unlimited"} ELSE {}))
    /\ UNCHANGED <<count, conds, want, held, pc>>

Reset ==
    /\ count' = 0
    /\ signalled' = signalled \cup SignalFront(conds)
    /\ Disturb({"reset"})
    /\ UNCHANGED <<max, conds, want, held, pc>>

-----------------------------------------------------------------------------
Wake(c) == WakeGrant(c) \/ WakeSleep(c)

Locked(c) == GetNow(c) \/ GetSleep(c) \/ Try(c) \/ Take(c) \/ Put(c)

Release(c) == PutUnlimited(c) \/ PutEnter(c)

Next ==
    \/ \E c \in Clients, n \in Amounts :
          GetUnlimited(c, n) \/ TryEnter(c, n) \/ TakeEnter(c, n)
    \/ \E c \in Clients, n \in Amounts \cup {0} : GetEnter(c, n)
    \/ \E c \in Clients :
          Locked(c) \/ Wake(c) \/ SpuriousWakeup(c) \/ Release(c)
    \/ \E m \in Maxes : ResetMax(m)
    \/ Reset

Spec == Init /\ [][Next]_vars

(***************************************************************************)
(* Threads are scheduled: one that may take the lock does, one that was    *)
(* signalled runs, and a holder gives back what it holds.                  *)
(***************************************************************************)
Fairness ==
    \A c \in Clients : WF_vars(Locked(c)) /\ WF_vars(Wake(c)) /\ WF_vars(Release(c))

FairSpec == Spec /\ Fairness

-----------------------------------------------------------------------------
\* The queue holds exactly the sleeping threads, each of them once, and only
\* a sleeping thread has a pending signal.
QueueIsWaiters ==
    /\ {conds[i] : i \in DOMAIN conds} = {c \in Clients : pc[c] = "waiting"}
    /\ \A i, j \in DOMAIN conds : conds[i] = conds[j] => i = j
    /\ signalled \subseteq {c \in Clients : pc[c] = "waiting"}

\* No wakeup is lost: whenever the first waiter would be let through, its
\* Cond has a signal pending.  put() signals before it subtracts and only
\* the front is ever signalled, so this rests on the chain of signals that
\* _wait() continues when a waiter leaves.
NoLostWakeup ==
    conds # <<>> /\ ~ShouldWait(want[Head(conds)]) => Head(conds) \in signalled

\* Who gets an amount in a step did not pass a thread that waits.
OrderedGrant ==
    \A c \in Clients :
        held'[c] > held[c] /\ count' # count /\ pc[c] # "take"
            => conds = <<>> \/ c = Head(conds)

\* FIFO: an amount is granted to the first waiter, or to a newcomer of get()
\* and get_or_fail() when nobody waits; take() alone may pass the queue.
GrantsInOrder == [][OrderedGrant]_vars

\* While the limit stays as it was and nobody take()s, the count exceeds it
\* only by one request too large for the limit that found the count within it.
AtMostOneOversize ==
    past = {} =>
        \/ count <= max
        \/ \E c \in Clients : held[c] >= max /\ count - held[c] <= max

\* What is counted is what callers will put back, as long as the limit never
\* passes through 0 (get() and put() then skip the accounting) and nobody
\* reset()s the count under outstanding grants.
Conservation ==
    past \cap {"unlimited", "reset", "garbage"} = {} =>
        count = SumFunctionOnSet(held, Clients)

\* Nobody waits for ever when every holder gives back what it holds, under
\* the same conditions and as long as nobody take()s past the queue.
EveryWaiterGranted ==
    \A c \in Clients :
        pc[c] = "waiting" ~> \/ pc[c] = "idle"
                            \/ past \cap {"unlimited", "reset", "garbage", "take"} # {}
=============================================================================
