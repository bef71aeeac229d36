-------------------------- MODULE PrioritizedQueue --------------------------
(***************************************************************************)
(* The queue of src/trunk/include/common/prioritizedqueue.h.  A queue has  *)
(* strict subqueues, of which the highest priority comes out first, and    *)
(* others that share the turns by tokens.  A subqueue keeps one FIFO per   *)
(* class and serves the classes in turn.                                   *)
(*                                                                         *)
(* A queue is a record [high, low, total]; high and low map a priority to  *)
(* its SubQueue, total is _total_priority.  A SubQueue is a record         *)
(* [q, cur, tokens, size]; q maps a class to its FIFO of [cost, item].     *)
(***************************************************************************)
EXTENDS Integers, Sequences, FiniteSets, FiniteSetsExt, Functions, TLC

CONSTANTS
    MinCost,    \* _min_cost
    MaxTokens   \* _max_tokens_per_subqueue

ASSUME QueueAssumption == {MinCost, MaxTokens} \subseteq Nat

End == -1   \* the iterator past the last class; classes are numbers

EmptyMap == [x \in {} |-> 0]
EmptySubQueue == [q |-> EmptyMap, cur |-> End, tokens |-> 0, size |-> 0]
EmptyQueue == [high |-> EmptyMap, low |-> EmptyMap, total |-> 0]

Without(f, x) == [y \in DOMAIN f \ {x} |-> f[y]]
With(f, x, v) == [y \in DOMAIN f \cup {x} |-> IF y = x THEN v ELSE f[y]]

-----------------------------------------------------------------------------
(* SubQueue                                                                *)

\* cur = q.begin(), or q.end() when there is no class.
Begin(q) == IF DOMAIN q = {} THEN End ELSE Min(DOMAIN q)

\* (mutant) The round of the classes starts again after every item.
AfterBegin(q, k) == Begin(q)

\* The class in q that follows k, and after the last one the first.
After(q, k) ==
    LET later == {l \in DOMAIN q : l > k}
    IN  IF later = {} THEN Begin(q) ELSE Min(later)

\* (mutant) The item goes to the front.
SubEnqueueFront(s, k, cost, x) ==
    LET q == With(s.q, k, <<[cost |-> cost, item |-> x]>>
                          \o (IF k \in DOMAIN s.q THEN s.q[k] ELSE <<>>))
    IN  [s EXCEPT !.q = q, !.cur = IF @ = End THEN Begin(q) ELSE @, !.size = @ + 1]

\* enqueue() of one SubQueue
SubEnqueue(s, k, cost, x) ==
    LET q == With(s.q, k, Append(IF k \in DOMAIN s.q THEN s.q[k] ELSE <<>>,
                                 [cost |-> cost, item |-> x]))
    IN  [s EXCEPT !.q = q, !.cur = IF @ = End THEN Begin(q) ELSE @, !.size = @ + 1]

\* front()
Front(s) == Head(s.q[s.cur])

\* pop_front()
SubPop(s) ==
    LET rest == Tail(s.q[s.cur])
        q == IF rest = <<>> THEN Without(s.q, s.cur) ELSE With(s.q, s.cur, rest)
    IN  [s EXCEPT !.q = q, !.cur = After(q, @), !.size = @ - 1]

\* (mutant) The iterator stays at the class that is removed.
SubRemoveStale(s, k) ==
    IF k \notin DOMAIN s.q THEN s
    ELSE [s EXCEPT !.q = Without(@, k), !.size = @ - Len(s.q[k])]

\* remove_by_class() of one SubQueue
SubRemove(s, k) ==
    IF k \notin DOMAIN s.q THEN s
    ELSE [s EXCEPT !.q = Without(@, k),
                   !.cur = IF @ = k THEN After(Without(s.q, k), k) ELSE @,
                   !.size = @ - Len(s.q[k])]

-----------------------------------------------------------------------------
(* PrioritizedQueue                                                        *)

\* enqueue_strict()
EnqueueStrict(pq, k, p, x) ==
    LET s == IF p \in DOMAIN pq.high THEN pq.high[p] ELSE EmptySubQueue
    IN  [pq EXCEPT !.high = With(@, p, SubEnqueue(s, k, 0, x))]

\* enqueue() and create_queue()
Enqueue(pq, k, p, cost, x) ==
    LET new == p \notin DOMAIN pq.low
        s == IF new THEN EmptySubQueue ELSE pq.low[p]
        charge == IF cost < MinCost THEN MinCost ELSE IF cost > MaxTokens THEN MaxTokens ELSE cost
    IN  [pq EXCEPT !.low = With(@, p, SubEnqueue(s, k, charge, x)),
                   !.total = IF new THEN @ + p ELSE @]

\* empty()
IsEmpty(pq) == DOMAIN pq.low = {} /\ DOMAIN pq.high = {}

\* put_tokens()
Limited(t) == IF t > MaxTokens THEN MaxTokens ELSE t

\* (mutant) The tokens an item costs are not taken.
TakenNone(t, cost) == t

\* take_tokens()
Taken(t, cost) == IF t > cost THEN t - cost ELSE 0

\* distribute_tokens()
Distribute(pq, cost) ==
    LET share(p) == ((p * cost) \div pq.total) + 1
        fed(s, p) == [s EXCEPT !.tokens = Limited(s.tokens + share(p))]
    IN  IF pq.total = 0 THEN pq
        ELSE [pq EXCEPT !.low = [p \in DOMAIN pq.low |-> fed(pq.low[p], p)]]

\* Priority p of the low queue loses its front item and `paid' tokens; its
\* SubQueue goes with its last item, and its tokens with it.
PopLow(pq, p, paid) ==
    LET s == [SubPop(pq.low[p]) EXCEPT !.tokens = Taken(@, paid)]
    IN  IF DOMAIN s.q = {}
        THEN [pq EXCEPT !.low = Without(@, p), !.total = @ - p]
        ELSE [pq EXCEPT !.low[p] = s]

\* The priorities that have the tokens their front item costs.
Affordable(pq) == {p \in DOMAIN pq.low : Front(pq.low[p]).cost < pq.low[p].tokens}

\* dequeue(): where the next item comes from, which it is, and what remains.
Level(pq) == IF DOMAIN pq.high # {} THEN Max(DOMAIN pq.high)
             ELSE IF Affordable(pq) # {} THEN Min(Affordable(pq))
             ELSE Max(DOMAIN pq.low)
Source(pq) == IF DOMAIN pq.high # {} THEN pq.high[Level(pq)] ELSE pq.low[Level(pq)]
Dequeued(pq) == Front(Source(pq)).item
Rest(pq) ==
    LET p == Level(pq) IN
    IF DOMAIN pq.high # {}
    THEN LET s == SubPop(pq.high[p])
         IN  [pq EXCEPT !.high = IF DOMAIN s.q = {} THEN Without(@, p) ELSE With(@, p, s)]
    ELSE LET cost == Front(pq.low[p]).cost
         IN  Distribute(PopLow(pq, p, IF Affordable(pq) # {} THEN cost ELSE 0), cost)

\* remove_by_class()
RemoveClass(pq, k) ==
    LET low == [p \in DOMAIN pq.low |-> SubRemove(pq.low[p], k)]
        high == [p \in DOMAIN pq.high |-> SubRemove(pq.high[p], k)]
        gone == {p \in DOMAIN low : DOMAIN low[p].q = {}}
    IN  [high |-> [p \in {r \in DOMAIN high : DOMAIN high[r].q # {}} |-> high[p]],
         low |-> [p \in DOMAIN low \ gone |-> low[p]],
         total |-> pq.total - SumFunction([p \in gone |-> p])]

-----------------------------------------------------------------------------
\* length(), and the items counted one by one.
Length(pq) == SumFunction([p \in DOMAIN pq.low |-> pq.low[p].size])
            + SumFunction([p \in DOMAIN pq.high |-> pq.high[p].size])
SubItems(s) == UNION {{s.q[k][i].item : i \in DOMAIN s.q[k]} : k \in DOMAIN s.q}
QueuedItems(pq) == (UNION {SubItems(pq.low[p]) : p \in DOMAIN pq.low})
              \cup (UNION {SubItems(pq.high[p]) : p \in DOMAIN pq.high})

\* Every SubQueue that is kept has an item, and its iterator is at a class
\* that has one: dequeue() may look at the front of any of them.
WellFormed(pq) ==
    /\ \A f \in {pq.low, pq.high} : \A p \in DOMAIN f :
        /\ f[p].cur \in DOMAIN f[p].q
        /\ \A k \in DOMAIN f[p].q : f[p].q[k] # <<>>
    /\ pq.total = SumFunction([p \in DOMAIN pq.low |-> p])
=============================================================================
