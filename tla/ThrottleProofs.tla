--------------------------- MODULE ThrottleProofs ---------------------------
(***************************************************************************)
(* Proofs about Throttle for any set of threads, amounts and limits: the   *)
(* type invariant, the agreement of the queue with the sleeping threads,   *)
(* that no wakeup is lost, that amounts are granted in order, that what is *)
(* counted is what is held, and that the limit bounds it.                  *)
(***************************************************************************)
EXTENDS Throttle, SetInduction, TLAPS

\* The steps that leave the queue, the signals and the sleepers alone.
QuietStep(c) ==
    \/ \E n \in Amounts \cup {0} :
          GetUnlimited(c, n) \/ TryEnter(c, n) \/ TakeEnter(c, n) \/ GetEnter(c, n)
    \/ GetNow(c) \/ Try(c) \/ Take(c) \/ PutUnlimited(c) \/ PutEnter(c)

\* Next, sorted by what a step does to the queue.
LEMMA NextSplit ==
    Next =>  \/ \E c \in Clients : \/ QuietStep(c)
                                   \/ GetSleep(c) \/ WakeGrant(c)
                                   \/ WakeSleep(c) \/ SpuriousWakeup(c)
                                   \/ Put(c)
             \/ \E m \in Maxes : ResetMax(m)
             \/ Reset
BY DEF Next, QuietStep, Locked, Wake, Release

-----------------------------------------------------------------------------
\* The part of the type invariant that is inductive without the queue.
TypeButQueue ==
    /\ count \in Int
    /\ max \in Maxes
    /\ want \in [Clients -> Nat]
    /\ held \in [Clients -> Nat]
    /\ pc \in [Clients -> {"idle", "get", "waiting", "try", "take", "put"}]
    /\ past \in SUBSET Disturbances
    /\ changes \in 0..MaxChanges

\* The initial states have these types, whatever _count holds.
LEMMA TypeButQueueInit == Init => TypeButQueue
BY ThrottleAssumption DEF Init, TypeButQueue, Disturbances

\* What a grant does to the types: it adds to the count a request that is a
\* natural number and records it as held.
LEMMA GrantTypes ==
    ASSUME NEW c \in Clients, TypeButQueue, Grant(c)
    PROVE  count' \in Int /\ held' \in [Clients -> Nat] /\ want' \in [Clients -> Nat]
BY DEF TypeButQueue, Grant

\* Every step keeps these types.
LEMMA TypeButQueueStep == TypeButQueue /\ [Next]_vars => TypeButQueue'
<1> SUFFICES ASSUME TypeButQueue, [Next]_vars PROVE TypeButQueue'
  OBVIOUS
<1> USE ThrottleAssumption DEF TypeButQueue, Disturbances
<1>1. ASSUME NEW c \in Clients, QuietStep(c) PROVE TypeButQueue'
  <2>1. ASSUME NEW n \in Amounts \cup {0},
               GetUnlimited(c, n) \/ TryEnter(c, n) \/ TakeEnter(c, n) \/ GetEnter(c, n)
        PROVE  TypeButQueue'
    <3>1. n \in Nat
      BY <2>1
    <3>2. CASE GetUnlimited(c, n)
      BY <3>1, <3>2 DEF GetUnlimited
    <3>3. CASE TryEnter(c, n)
      BY <3>1, <3>3 DEF TryEnter, Step
    <3>4. CASE TakeEnter(c, n)
      BY <3>1, <3>4 DEF TakeEnter, Step
    <3>5. CASE GetEnter(c, n)
      BY <3>1, <3>5 DEF GetEnter, Step
    <3> QED
      BY <2>1, <3>2, <3>3, <3>4, <3>5
  <2>2. CASE GetNow(c)
    BY <2>2, GrantTypes DEF GetNow, Step
  <2>3. CASE Try(c)
    <3>1. /\ pc' = [pc EXCEPT ![c] = "idle"]
          /\ UNCHANGED <<max, past, changes>>
      BY <2>3 DEF Try, Step
    <3>2. CASE Grant(c)
      BY <3>1, <3>2, GrantTypes
    <3>3. CASE want' = [want EXCEPT ![c] = 0] /\ UNCHANGED <<count, held>>
      BY <3>1, <3>3
    <3> QED
      BY <2>3, <3>2, <3>3 DEF Try
  <2>4. CASE Take(c)
    BY <2>4, GrantTypes DEF Take, Step
  <2>5. CASE PutUnlimited(c) \/ PutEnter(c)
    BY <2>5 DEF PutUnlimited, PutEnter, Step
  <2> QED
    BY <1>1, <2>1, <2>2, <2>3, <2>4, <2>5 DEF QuietStep
<1>2. ASSUME NEW c \in Clients, GetSleep(c) PROVE TypeButQueue'
  <2>1. /\ pc' = [pc EXCEPT ![c] = "waiting"]
        /\ UNCHANGED <<count, max, want, held, past, changes>>
    BY <1>2 DEF GetSleep, Step
  <2> QED
    BY <2>1
<1>3. ASSUME NEW c \in Clients, WakeGrant(c) PROVE TypeButQueue'
  <2>1. /\ pc' = [pc EXCEPT ![c] = "idle"]
        /\ Grant(c)
        /\ UNCHANGED <<max, past, changes>>
    BY <1>3 DEF WakeGrant, Step
  <2> QED
    BY <2>1, GrantTypes
<1>7. ASSUME NEW c \in Clients, WakeSleep(c) \/ SpuriousWakeup(c) PROVE TypeButQueue'
  BY <1>7 DEF WakeSleep, SpuriousWakeup
<1>8. ASSUME NEW c \in Clients, Put(c) PROVE TypeButQueue'
  BY <1>8 DEF Put, Step
<1>4. ASSUME NEW m \in Maxes, ResetMax(m) PROVE TypeButQueue'
  BY <1>4 DEF ResetMax, Disturb
<1>5. CASE Reset
  BY <1>5 DEF Reset, Disturb
<1>6. CASE UNCHANGED vars
  BY <1>6 DEF vars
<1> QED
  BY <1>1, <1>2, <1>3, <1>4, <1>5, <1>6, <1>7, <1>8, NextSplit

-----------------------------------------------------------------------------
\* The inductive invariant: types, the queue, and no lost wakeup.
QueueInv ==
    /\ conds \in Seq(Clients)
    /\ QueueIsWaiters
    /\ NoLostWakeup

IInv == TypeButQueue /\ QueueInv

\* Nobody waits at first.
LEMMA QueueInvInit == Init => QueueInv
BY DEF Init, QueueInv, QueueIsWaiters, NoLostWakeup

\* What a quiet step may change: it moves one awake thread, and it never
\* lowers the count.
LEMMA QuietEffect ==
    ASSUME TypeButQueue, NEW c \in Clients, QuietStep(c)
    PROVE  /\ UNCHANGED <<conds, signalled, max>>
           /\ pc[c] # "waiting" /\ pc'[c] # "waiting"
           /\ \A d \in Clients \ {c} : pc'[d] = pc[d] /\ want'[d] = want[d]
           /\ \E k \in Nat : count' = count + k
<1> USE DEF TypeButQueue
<1>1. ASSUME NEW n \in Amounts \cup {0},
             GetUnlimited(c, n) \/ TryEnter(c, n) \/ TakeEnter(c, n) \/ GetEnter(c, n)
      PROVE  /\ UNCHANGED <<conds, signalled, max, count>>
             /\ pc[c] = "idle" /\ pc' \in {pc, [pc EXCEPT ![c] = "get"],
                                [pc EXCEPT ![c] = "try"], [pc EXCEPT ![c] = "take"]}
             /\ want' \in {want, [want EXCEPT ![c] = n]}
  BY <1>1 DEF GetUnlimited, TryEnter, TakeEnter, GetEnter, Step
<1>2. ASSUME GetNow(c) \/ Try(c) \/ Take(c)
      PROVE  /\ UNCHANGED <<conds, signalled, max>>
             /\ pc[c] \in {"get", "try", "take"} /\ pc' = [pc EXCEPT ![c] = "idle"]
             /\ want' = [want EXCEPT ![c] = 0]
             /\ count' = count \/ count' = count + want[c]
  BY <1>2 DEF GetNow, Try, Take, Grant, Step
<1>3. ASSUME PutUnlimited(c) \/ PutEnter(c)
      PROVE  /\ UNCHANGED <<conds, signalled, max, count, want>>
             /\ pc[c] = "idle" /\ pc' \in {pc, [pc EXCEPT ![c] = "put"]}
  BY <1>3 DEF PutUnlimited, PutEnter, Step
<1>4. CASE GetNow(c) \/ Try(c) \/ Take(c)
  BY <1>2, <1>4
<1>5. CASE PutUnlimited(c) \/ PutEnter(c)
  BY <1>3, <1>5
<1>6. CASE \E n \in Amounts \cup {0} :
             GetUnlimited(c, n) \/ TryEnter(c, n) \/ TakeEnter(c, n) \/ GetEnter(c, n)
  BY <1>1, <1>6
<1> QED
  BY <1>4, <1>5, <1>6 DEF QuietStep

\* A higher count never lets through a request that had to wait.
LEMMA WaitMonotone ==
    ASSUME TypeButQueue, NEW n \in Nat, NEW k \in Nat,
           max' = max, count' = count + k, ShouldWait(n)
    PROVE  ShouldWait(n)'
<1>1. max \in Nat /\ count \in Int
  BY ThrottleAssumption DEF TypeButQueue
<1>2. CASE n <= max /\ count + n > max
  <2>1. (count + k) + n > max
    BY <1>1, <1>2
  <2> QED
    BY <1>2, <2>1 DEF ShouldWait
<1>3. CASE n >= max /\ count > max
  <2>1. count + k > max
    BY <1>1, <1>3
  <2> QED
    BY <1>3, <2>1 DEF ShouldWait
<1> QED
  BY <1>2, <1>3 DEF ShouldWait

\* The steps that change neither the queue nor who sleeps keep QueueIsWaiters
\* when they signal nobody but sleepers.
LEMMA WaitersKept ==
    ASSUME QueueIsWaiters, conds' = conds,
           \A d \in Clients : pc'[d] = "waiting" <=> pc[d] = "waiting",
           signalled' \subseteq signalled \cup {d \in Clients : pc[d] = "waiting"}
    PROVE  QueueIsWaiters'
BY DEF QueueIsWaiters

\* The front of the queue is a sleeping thread.
LEMMA FrontSleeps ==
    ASSUME QueueInv
    PROVE  SignalFront(conds) \subseteq {d \in Clients : pc[d] = "waiting"}
<1>1. CASE conds = <<>>
  BY <1>1 DEF SignalFront
<1>2. CASE conds # <<>>
  <2>1. 1 \in DOMAIN conds /\ Head(conds) = conds[1]
    BY <1>2 DEF QueueInv
  <2> QED
    BY <1>2, <2>1 DEF SignalFront, QueueInv, QueueIsWaiters
<1> QED
  BY <1>1, <1>2

\* Every step keeps the queue, its waiters and the chain of signals.
LEMMA QueueInvStep == IInv /\ [Next]_vars => QueueInv'
<1> SUFFICES ASSUME IInv, [Next]_vars PROVE QueueInv'
  OBVIOUS
<1>0. TypeButQueue /\ QueueInv /\ QueueIsWaiters /\ NoLostWakeup /\ conds \in Seq(Clients)
  BY DEF IInv, QueueInv
<1>1. ASSUME NEW c \in Clients, QuietStep(c) PROVE QueueInv'
  <2>1. QueueIsWaiters' /\ conds' \in Seq(Clients)
    BY <1>0, <1>1, QuietEffect, WaitersKept
  <2>2. NoLostWakeup'
    <3> SUFFICES ASSUME conds # <<>>, ~ShouldWait(want[Head(conds)])' PROVE Head(conds) \in signalled
      BY <1>0, <1>1, QuietEffect DEF NoLostWakeup
    <3>1. Head(conds) \in Clients /\ pc[Head(conds)] = "waiting"
      BY <1>0 DEF QueueIsWaiters
    <3>2. conds' = conds /\ want'[Head(conds)] = want[Head(conds)] /\ want[Head(conds)] \in Nat
      BY <1>0, <1>1, <3>1, QuietEffect DEF TypeButQueue
    <3>3. max' = max /\ \E k \in Nat : count' = count + k
      BY <1>0, <1>1, QuietEffect
    <3>4. ~ShouldWait(want[Head(conds)])
      <4>1. ASSUME NEW n \in Nat, n = want[Head(conds)], ShouldWait(n) PROVE FALSE
        <5>1. ShouldWait(n)'
          BY <1>0, <4>1, <3>3, WaitMonotone
        <5> QED
          BY <5>1, <4>1, <3>2 DEF ShouldWait
      <4> QED
        BY <4>1, <3>2
    <3> QED
      BY <1>0, <3>4 DEF NoLostWakeup
  <2> QED
    BY <2>1, <2>2 DEF QueueInv
<1>2. ASSUME NEW c \in Clients, GetSleep(c) PROVE QueueInv'
  <2>1. /\ pc[c] = "get" /\ pc' = [pc EXCEPT ![c] = "waiting"]
        /\ conds' = Append(conds, c)
        /\ UNCHANGED <<count, max, signalled, want>>
    BY <1>2 DEF GetSleep, Step
  <2>2. \A i \in DOMAIN conds : conds[i] # c
    BY <1>0, <2>1 DEF QueueIsWaiters
  <2>3. conds' \in Seq(Clients) /\ QueueIsWaiters'
    <3> DEFINE L == Len(conds)
    <3>1. /\ conds' \in Seq(Clients) /\ Len(conds') = L + 1 /\ L \in Nat
          /\ DOMAIN conds' = 1..(L + 1) /\ DOMAIN conds = 1..L
          /\ \A i \in 1..L : conds'[i] = conds[i]
          /\ conds'[L + 1] = c
      BY <1>0, <2>1
    <3>2. {d \in Clients : pc'[d] = "waiting"} = {d \in Clients : pc[d] = "waiting"} \cup {c}
      BY <1>0, <2>1 DEF TypeButQueue
    <3> HIDE DEF L
    <3>3. {conds'[i] : i \in DOMAIN conds'} = {conds[i] : i \in DOMAIN conds} \cup {c}
      BY <3>1
    <3>4. \A i, j \in DOMAIN conds' : conds'[i] = conds'[j] => i = j
      <4>1. \A i \in 1..L : conds'[i] # c
        BY <3>1, <2>2
      <4>2. \A i \in 1..(L + 1) : i \in 1..L \/ i = L + 1
        BY <3>1
      <4>3. \A i, j \in 1..L : conds'[i] = conds'[j] => i = j
        BY <1>0, <3>1 DEF QueueIsWaiters
      <4> QED
        BY <3>1, <4>1, <4>2, <4>3
    <3> QED
      BY <1>0, <2>1, <3>1, <3>2, <3>3, <3>4 DEF QueueIsWaiters
  <2>4. CASE conds = <<>>
    <3>1. ShouldWait(want[c])
      BY <1>2, <2>4 DEF GetSleep
    <3>2. Head(conds') = c
      BY <2>1, <2>4
    <3> QED
      BY <3>1, <3>2, <2>1, <2>3 DEF NoLostWakeup, ShouldWait, QueueInv
  <2>5. CASE conds # <<>>
    <3>1. Head(conds') = Head(conds)
      BY <1>0, <2>1, <2>5
    <3> QED
      BY <1>0, <3>1, <2>1, <2>3, <2>5 DEF NoLostWakeup, ShouldWait, QueueInv
  <2> QED
    BY <2>4, <2>5
<1>3. ASSUME NEW c \in Clients, WakeGrant(c) PROVE QueueInv'
  <2>1. /\ pc[c] = "waiting" /\ pc' = [pc EXCEPT ![c] = "idle"]
        /\ c = Head(conds) /\ conds' = Tail(conds)
        /\ signalled' = (signalled \ {c}) \cup SignalFront(Tail(conds))
    BY <1>3 DEF WakeGrant, Step
  <2>2. conds # <<>>
    BY <1>0, <2>1 DEF QueueIsWaiters
  <2>3. /\ Tail(conds) \in Seq(Clients) /\ Len(Tail(conds)) = Len(conds) - 1
        /\ \A i \in 1..(Len(conds) - 1) : Tail(conds)[i] = conds[i + 1]
        /\ c = conds[1]
    BY <1>0, <2>1, <2>2
  <2> DEFINE L == Len(conds)
             t == Tail(conds)
  <2>4. /\ L \in Nat \ {0} /\ DOMAIN conds = 1..L /\ DOMAIN t = 1..(L - 1)
        /\ \A i \in 2..L : i - 1 \in 1..(L - 1) /\ t[i - 1] = conds[i]
        /\ \A i \in 1..(L - 1) : i + 1 \in 2..L /\ i + 1 \in 1..L /\ t[i] = conds[i + 1]
        /\ 1 \in 1..L /\ \A i \in 1..L : i = 1 \/ i \in 2..L
        /\ \A i \in 1..(L - 1) : i + 1 # 1
    BY <1>0, <2>2, <2>3
  <2>5. QueueIsWaiters'
    <3> HIDE DEF L, t
    <3>1. conds' = t
      BY <2>1 DEF t
    <3>2. \A i, j \in 1..(L - 1) : t[i] = t[j] => i = j
      <4> SUFFICES ASSUME NEW i \in 1..(L - 1), NEW j \in 1..(L - 1), t[i] = t[j] PROVE i = j
        OBVIOUS
      <4>1. i + 1 = j + 1
        <5>1. i + 1 \in DOMAIN conds /\ j + 1 \in DOMAIN conds
          BY <2>4
        <5>2. conds[i + 1] = conds[j + 1]
          BY <2>4
        <5> QED
          BY <1>0, <5>1, <5>2 DEF QueueIsWaiters
      <4>2. i \in Int /\ j \in Int
        BY <2>4
      <4> QED
        BY <4>1, <4>2
    <3>3. \A i \in 1..(L - 1) : t[i] # c
      <4>1. \A i \in 1..(L - 1) : conds[i + 1] = conds[1] => i + 1 = 1
        BY <1>0, <2>4 DEF QueueIsWaiters
      <4> QED
        BY <2>3, <2>4, <4>1
    <3>4. {t[i] : i \in 1..(L - 1)} = {conds[i] : i \in 1..L} \ {c}
      <4>1. \A x : (\E i \in 1..(L - 1) : x = t[i]) => (\E i \in 1..L : x = conds[i]) /\ x # c
        BY <2>4, <3>3
      <4>2. \A x : (\E i \in 1..L : x = conds[i]) /\ x # c => (\E i \in 1..(L - 1) : x = t[i])
        BY <2>3, <2>4
      <4> QED
        BY <4>1, <4>2
    <3>5. {d \in Clients : pc'[d] = "waiting"} = {d \in Clients : pc[d] = "waiting"} \ {c}
      BY <1>0, <2>1 DEF TypeButQueue
    <3>6. SignalFront(t) \subseteq {t[i] : i \in 1..(L - 1)}
      <4>1. CASE t = <<>>
        BY <4>1 DEF SignalFront
      <4>2. CASE t # <<>>
        <5>1. 1 \in DOMAIN t /\ Head(t) = t[1]
          BY <4>2, <2>3 DEF t
        <5> QED
          BY <4>2, <5>1, <2>4 DEF SignalFront
      <4> QED
        BY <4>1, <4>2
    <3>7. signalled' = (signalled \ {c}) \cup SignalFront(t)
      BY <2>1 DEF t
    <3> QED
      <4>1. {t[i] : i \in 1..(L - 1)} = {d \in Clients : pc'[d] = "waiting"}
        BY <1>0, <2>4, <3>4, <3>5 DEF QueueIsWaiters
      <4>2. signalled \ {c} \subseteq {d \in Clients : pc'[d] = "waiting"}
        BY <1>0, <3>5 DEF QueueIsWaiters
      <4>3. signalled' \subseteq {d \in Clients : pc'[d] = "waiting"}
        BY <3>6, <3>7, <4>1, <4>2
      <4>4. DOMAIN conds' = 1..(L - 1)
        BY <2>4, <3>1
      <4>5. {conds'[i] : i \in DOMAIN conds'} = {d \in Clients : pc'[d] = "waiting"}
        BY <3>1, <4>1, <4>4
      <4>6. \A i, j \in DOMAIN conds' : conds'[i] = conds'[j] => i = j
        BY <3>1, <3>2, <4>4
      <4> QED
        BY <4>3, <4>5, <4>6 DEF QueueIsWaiters
  <2>6. NoLostWakeup'
    BY <2>1 DEF NoLostWakeup, SignalFront
  <2> QED
    BY <2>1, <2>3, <2>5, <2>6 DEF QueueInv
<1>4. ASSUME NEW c \in Clients, WakeSleep(c) PROVE QueueInv'
  <2>1. /\ UNCHANGED <<count, max, conds, want, pc>>
        /\ signalled' = signalled \ {c}
    BY <1>4 DEF WakeSleep
  <2>2. QueueIsWaiters'
    BY <1>0, <2>1, WaitersKept
  <2>3. c = Head(conds) => ShouldWait(want[c])
    BY <1>4 DEF WakeSleep
  <2> QED
    BY <1>0, <2>1, <2>2, <2>3 DEF NoLostWakeup, ShouldWait, QueueInv
<1>5. ASSUME NEW c \in Clients, SpuriousWakeup(c) PROVE QueueInv'
  <2>1. /\ UNCHANGED <<count, max, conds, want, pc>>
        /\ signalled' = signalled \cup {c} /\ pc[c] = "waiting"
    BY <1>5 DEF SpuriousWakeup
  <2>2. QueueIsWaiters'
    BY <1>0, <2>1, WaitersKept
  <2> QED
    BY <1>0, <2>1, <2>2 DEF NoLostWakeup, ShouldWait, QueueInv
<1>6. ASSUME conds' = conds, \A d \in Clients : pc'[d] = "waiting" <=> pc[d] = "waiting",
             signalled' = signalled \cup SignalFront(conds)
      PROVE  QueueInv'
  <2>1. QueueIsWaiters'
    BY <1>0, <1>6, WaitersKept, FrontSleeps
  <2> QED
    BY <1>0, <1>6, <2>1 DEF NoLostWakeup, SignalFront, QueueInv
<1>7. ASSUME NEW c \in Clients, Put(c) PROVE QueueInv'
  <2>1. /\ pc[c] = "put" /\ pc' = [pc EXCEPT ![c] = "idle"] /\ conds' = conds
        /\ signalled' = signalled \cup SignalFront(conds)
    BY <1>7 DEF Put, Step
  <2> QED
    BY <1>0, <1>6, <2>1 DEF TypeButQueue
<1>8. ASSUME NEW m \in Maxes, ResetMax(m) PROVE QueueInv'
  BY <1>6, <1>8 DEF ResetMax
<1>9. CASE Reset
  BY <1>6, <1>9 DEF Reset
<1>10. CASE UNCHANGED vars
  BY <1>0, <1>10 DEF vars, QueueInv, QueueIsWaiters, NoLostWakeup, ShouldWait
<1> QED
  BY <1>1, <1>2, <1>3, <1>4, <1>5, <1>7, <1>8, <1>9, <1>10, NextSplit

-----------------------------------------------------------------------------
\* The inductive invariant holds in every reachable state.
LEMMA IInvHolds == Spec => []IInv
<1>1. Init => IInv
  BY TypeButQueueInit, QueueInvInit DEF IInv
<1>2. IInv /\ [Next]_vars => IInv'
  BY TypeButQueueStep, QueueInvStep DEF IInv
<1> QED
  BY <1>1, <1>2, PTL DEF Spec

\* Type correctness: every variable keeps its type, the sequence of waiting
\* threads included, in whatever order the member functions run.
THEOREM TypeCorrect == Spec => []TypeOK
<1>1. IInv => TypeOK
  BY DEF IInv, TypeButQueue, QueueInv, QueueIsWaiters, TypeOK
<1> QED
  BY <1>1, IInvHolds, PTL

\* _conds holds exactly the threads asleep in _wait(), each of them once.
THEOREM QueueCorrect == Spec => []QueueIsWaiters
<1>1. IInv => QueueIsWaiters
  BY DEF IInv, QueueInv
<1> QED
  BY <1>1, IInvHolds, PTL

\* No wakeup is lost, whatever the limits, amounts and number of threads.
THEOREM WakeupNeverLost == Spec => []NoLostWakeup
<1>1. IInv => NoLostWakeup
  BY DEF IInv, QueueInv
<1> QED
  BY <1>1, IInvHolds, PTL

\* A call that is not in the middle of a grant gets nothing, and get() or
\* get_or_fail() that find a waiter do not pass it.
LEMMA OrderedStep == IInv /\ [Next]_vars => OrderedGrant
<1> SUFFICES ASSUME IInv, [Next]_vars, NEW c \in Clients,
                    held'[c] > held[c], count' # count, pc[c] # "take"
             PROVE  conds = <<>> \/ c = Head(conds)
  BY DEF OrderedGrant
<1> USE DEF IInv, TypeButQueue
<1>h. held[c] \in Nat /\ ~(held[c] > held[c])
  OBVIOUS
<1>1. ASSUME NEW d \in Clients, GetNow(d) \/ Try(d) \/ Take(d) \/ WakeGrant(d)
      PROVE  conds = <<>> \/ c = Head(conds)
  <2>1. c = d
    <3>1. CASE GetNow(d) \/ Take(d) \/ WakeGrant(d)
      BY <1>h, <3>1 DEF GetNow, Take, WakeGrant, Grant
    <3>2. CASE Try(d)
      BY <1>h, <3>2 DEF Try, Grant
    <3> QED
      BY <1>1, <3>1, <3>2
  <2>2. CASE GetNow(d) \/ WakeGrant(d)
    BY <2>1, <2>2 DEF GetNow, WakeGrant
  <2>3. CASE Try(d)
    BY <2>3 DEF Try
  <2>4. CASE Take(d)
    BY <2>1, <2>4 DEF Take, Step
  <2> QED
    BY <1>1, <2>2, <2>3, <2>4
<1>2. ASSUME NEW d \in Clients, NEW n \in Amounts \cup {0},
             GetUnlimited(d, n) \/ TryEnter(d, n) \/ TakeEnter(d, n) \/ GetEnter(d, n)
      PROVE  count' = count
  BY <1>2 DEF GetUnlimited, TryEnter, TakeEnter, GetEnter
<1>3. ASSUME NEW d \in Clients,
             \/ PutUnlimited(d) \/ PutEnter(d)
             \/ GetSleep(d) \/ WakeSleep(d) \/ SpuriousWakeup(d)
      PROVE  count' = count
  BY <1>3 DEF PutUnlimited, PutEnter, GetSleep, WakeSleep, SpuriousWakeup
<1>4. ASSUME NEW d \in Clients, Put(d) PROVE ~(held'[c] > held[c])
  BY <1>4, <1>h DEF Put
<1>5. ASSUME \/ Reset \/ (\E m \in Maxes : ResetMax(m)) \/ UNCHANGED vars
      PROVE  held' = held
  BY <1>5 DEF Reset, ResetMax, vars
<1> QED
  BY <1>h, <1>1, <1>2, <1>3, <1>4, <1>5, NextSplit DEF QuietStep

\* Amounts are granted first come, first served: only take() passes a thread
\* that waits.
THEOREM ServedInOrder == Spec => GrantsInOrder
<1> QED
  BY IInvHolds, OrderedStep, PTL DEF Spec, GrantsInOrder

-----------------------------------------------------------------------------
(* The accounting                                                          *)

\* A thread in the middle of a call holds nothing yet, a limit of 0 is
\* remembered, and what is counted is what is held.
AccountInv ==
    /\ \A c \in Clients : pc[c] \in {"get", "waiting", "try", "take"} => held[c] = 0
    /\ max = 0 => "unlimited" \in past
    /\ AtMostOneOversize
    /\ Conservation

\* Nothing is held at first.
LEMMA AccountInit == Init => AccountInv
<1> SUFFICES ASSUME Init PROVE AccountInv
  OBVIOUS
<1> USE ThrottleAssumption DEF Init
<1>1. \A c \in Clients : held[c] = 0
  OBVIOUS
<1>2. past = {} => count = 0 /\ max \in Nat
  OBVIOUS
<1>3. past \cap {"unlimited", "reset", "garbage"} = {} => count = 0
  OBVIOUS
<1>4. SumFunctionOnSet(held, Clients) = 0
  <2> DEFINE G == {s \in SUBSET Clients : SumFunctionOnSet(held, s) = 0}
  <2>1. {} \in G
    BY SumEmpty
  <2>2. ASSUME NEW s \in SUBSET Clients, s # {}, \A x \in s : s \ {x} \in G PROVE s \in G
    <3>1. PICK x \in s : TRUE
      BY <2>2
    <3>2. SumFunctionOnSet(held, s) = held[x] + SumFunctionOnSet(held, s \ {x})
      BY <1>1, FS_Subset, SumSplit
    <3> QED
      BY <1>1, <2>2, <3>2
  <2>3. \A s \in SUBSET Clients : s \in G
    <3> HIDE DEF G
    <3> QED
      BY <2>1, <2>2, FiniteSetInduction
  <2> QED
    BY <2>3
<1>5. AtMostOneOversize
  BY <1>2 DEF AtMostOneOversize
<1>6. Conservation
  BY <1>3, <1>4 DEF Conservation
<1> QED
  BY <1>1, <1>5, <1>6 DEF AccountInv

\* The sum follows a change of what one thread holds.
LEMMA HeldChange ==
    ASSUME TypeButQueue, NEW c \in Clients, NEW n \in Nat, held' = [held EXCEPT ![c] = n]
    PROVE  SumFunctionOnSet(held', Clients) = SumFunctionOnSet(held, Clients) - held[c] + n
<1>1. /\ \A d \in Clients : held[d] \in Int
      /\ held'[c] = n /\ \A d \in Clients \ {c} : held'[d] = held[d]
  BY DEF TypeButQueue
<1>2. IsFiniteSet(Clients)
  BY ThrottleAssumption
<1>3. SumFunctionOnSet(held', Clients) = SumFunctionOnSet(held, Clients) - held[c] + held'[c]
  <2> DEFINE h == held'
  <2>1. h[c] \in Int /\ \A d \in Clients \ {c} : h[d] = held[d]
    BY <1>1
  <2> HIDE DEF h
  <2>2. SumFunctionOnSet(h, Clients) = SumFunctionOnSet(held, Clients) - held[c] + h[c]
    BY <1>1, <1>2, <2>1, SumChange
  <2> QED
    BY <2>2 DEF h
<1> QED
  BY <1>1, <1>3

\* A grant to a thread that holds nothing and need not wait keeps the
\* account; take() does not look whether it should wait and says so in past.
LEMMA GrantAccount ==
    ASSUME TypeButQueue, AccountInv, NEW c \in Clients, Grant(c), held[c] = 0, max' = max,
           \/ ~ShouldWait(want[c]) /\ past' = past
           \/ past' = past \cup {"take"}
    PROVE  AtMostOneOversize' /\ Conservation'
<1> DEFINE n == want[c]
<1>1. n \in Nat /\ count \in Int /\ max \in Nat /\ held \in [Clients -> Nat]
  BY ThrottleAssumption DEF TypeButQueue
<1>2. count' = count + n /\ held' = [held EXCEPT ![c] = n]
  BY DEF Grant
<1>3. Conservation'
  <2>1. SumFunctionOnSet(held', Clients) = SumFunctionOnSet(held, Clients) - held[c] + n
    BY <1>1, <1>2, HeldChange
  <2>2. ASSUME past' \cap {"unlimited", "reset", "garbage"} = {}
        PROVE  count = SumFunctionOnSet(held, Clients)
    BY <2>2 DEF AccountInv, Conservation
  <2> HIDE DEF n
  <2>3. ASSUME count = SumFunctionOnSet(held, Clients)
        PROVE  count' = SumFunctionOnSet(held', Clients)
    BY <1>1, <1>2, <2>1, <2>3
  <2> QED
    BY <2>2, <2>3 DEF Conservation
<1>4. AtMostOneOversize'
  <2> SUFFICES ASSUME past' = {}
               PROVE  \/ count' <= max
                      \/ \E d \in Clients : held'[d] >= max /\ count' - held'[d] <= max
    BY DEF AtMostOneOversize
  <2>1. ~ShouldWait(n) /\ past = {} /\ max # 0
    BY DEF AccountInv
  <2>2. ~(n <= max /\ count + n > max) /\ ~(n >= max /\ count > max)
    BY <2>1 DEF ShouldWait
  <2>3. held'[c] = n
    BY <1>1, <1>2
  <2> HIDE DEF n
  <2>4. CASE n <= max
    BY <1>1, <1>2, <2>2, <2>4
  <2>5. CASE n > max
    <3>1. held'[c] >= max /\ count' - held'[c] <= max
      BY <1>1, <1>2, <2>2, <2>3, <2>5
    <3> QED
      BY <3>1
  <2> QED
    BY <1>1, <2>4, <2>5
<1> QED
  BY <1>3, <1>4

\* Every step keeps the account.
LEMMA AccountStep == IInv /\ AccountInv /\ [Next]_vars => AccountInv'
<1> SUFFICES ASSUME IInv, AccountInv, [Next]_vars PROVE AccountInv'
  OBVIOUS
<1>0. TypeButQueue
  BY DEF IInv
<1>t. /\ count \in Int /\ max \in Nat /\ held \in [Clients -> Nat] /\ want \in [Clients -> Nat]
      /\ pc \in [Clients -> {"idle", "get", "waiting", "try", "take", "put"}]
  BY ThrottleAssumption, <1>0 DEF TypeButQueue
<1>i. /\ \A c \in Clients : pc[c] \in {"get", "waiting", "try", "take"} => held[c] = 0
      /\ max = 0 => "unlimited" \in past
      /\ AtMostOneOversize /\ Conservation
  BY DEF AccountInv
<1>k. ASSUME UNCHANGED <<count, max, held, past>> PROVE AtMostOneOversize' /\ Conservation'
  BY <1>i, <1>k DEF AtMostOneOversize, Conservation
<1>1. ASSUME NEW c \in Clients, NEW n \in Amounts \cup {0}, GetUnlimited(c, n)
      PROVE  AccountInv'
  <2>1. "unlimited" \in past /\ UNCHANGED <<count, max, pc, past>>
    BY <1>i, <1>1 DEF GetUnlimited
  <2>2. pc[c] = "idle" /\ \A d \in Clients \ {c} : held'[d] = held[d]
    BY <1>t, <1>1 DEF GetUnlimited
  <2> QED
    BY <1>i, <2>1, <2>2 DEF AccountInv, AtMostOneOversize, Conservation
<1>2. ASSUME NEW c \in Clients, NEW n \in Amounts \cup {0},
             TryEnter(c, n) \/ TakeEnter(c, n) \/ GetEnter(c, n)
      PROVE  AccountInv'
  <2>1. /\ held[c] = 0 /\ UNCHANGED <<count, max, held, past>>
        /\ \A d \in Clients \ {c} : pc'[d] = pc[d]
    BY <1>t, <1>2 DEF TryEnter, TakeEnter, GetEnter, Step
  <2> QED
    BY <1>i, <1>k, <2>1 DEF AccountInv
<1>3. ASSUME NEW c \in Clients,
             \/ GetNow(c) \/ Take(c) \/ WakeGrant(c)
             \/ Try(c) /\ ~(ShouldWait(want[c]) \/ conds # <<>>)
      PROVE  AccountInv'
  <2>1. /\ pc[c] \in {"get", "waiting", "try", "take"}
        /\ pc' = [pc EXCEPT ![c] = "idle"] /\ Grant(c) /\ max' = max
        /\ \/ ~ShouldWait(want[c]) /\ past' = past
           \/ past' = past \cup {"take"}
    BY <1>3 DEF GetNow, Take, WakeGrant, Try, Step
  <2>2. held[c] = 0
    BY <1>i, <2>1
  <2>4. AtMostOneOversize' /\ Conservation'
    BY <1>0, <2>1, <2>2, GrantAccount
  <2>5. \A d \in Clients : pc'[d] \in {"get", "waiting", "try", "take"} => held'[d] = 0
    BY <1>t, <1>i, <2>1 DEF Grant
  <2> QED
    BY <1>i, <2>1, <2>4, <2>5 DEF AccountInv
<1>4. ASSUME NEW c \in Clients, Try(c), ShouldWait(want[c]) \/ conds # <<>> PROVE AccountInv'
  <2>1. UNCHANGED <<count, max, held, past>> /\ pc' = [pc EXCEPT ![c] = "idle"]
    BY <1>4 DEF Try, Step
  <2> QED
    BY <1>t, <1>i, <1>k, <2>1 DEF AccountInv
<1>5. ASSUME NEW c \in Clients, GetSleep(c) PROVE AccountInv'
  <2>1. /\ UNCHANGED <<count, max, held, past>>
        /\ pc[c] = "get" /\ pc' = [pc EXCEPT ![c] = "waiting"]
    BY <1>5 DEF GetSleep, Step
  <2> QED
    BY <1>t, <1>i, <1>k, <2>1 DEF AccountInv
<1>6. ASSUME NEW c \in Clients, WakeSleep(c) \/ SpuriousWakeup(c) PROVE AccountInv'
  BY <1>i, <1>k, <1>6 DEF WakeSleep, SpuriousWakeup, AccountInv
<1>7. ASSUME NEW c \in Clients, PutUnlimited(c) PROVE AccountInv'
  <2>1. "unlimited" \in past /\ UNCHANGED <<count, max, pc, past>>
    BY <1>i, <1>7 DEF PutUnlimited
  <2>2. \A d \in Clients : held'[d] = held[d] \/ held'[d] = 0
    BY <1>t, <1>7 DEF PutUnlimited
  <2> QED
    BY <1>i, <2>1, <2>2 DEF AccountInv, AtMostOneOversize, Conservation
<1>8. ASSUME NEW c \in Clients, PutEnter(c) PROVE AccountInv'
  <2>1. UNCHANGED <<count, max, held, past>> /\ pc' = [pc EXCEPT ![c] = "put"]
    BY <1>8 DEF PutEnter, Step
  <2> QED
    BY <1>t, <1>i, <1>k, <2>1 DEF AccountInv
<1>9. ASSUME NEW c \in Clients, Put(c) PROVE AccountInv'
  <2>1. /\ UNCHANGED <<max, past>> /\ pc' = [pc EXCEPT ![c] = "idle"]
        /\ count' = count - held[c] /\ held' = [held EXCEPT ![c] = 0]
    BY <1>9 DEF Put, Step
  <2>2. Conservation'
    <3>1. SumFunctionOnSet(held', Clients) = SumFunctionOnSet(held, Clients) - held[c] + 0
      BY <1>0, <2>1, HeldChange
    <3>2. ASSUME count = SumFunctionOnSet(held, Clients)
          PROVE  count' = SumFunctionOnSet(held', Clients)
      BY <1>t, <2>1, <3>1, <3>2
    <3> QED
      BY <1>i, <2>1, <3>2 DEF Conservation
  <2>3. AtMostOneOversize'
    <3> SUFFICES ASSUME past = {}
                 PROVE  \/ count' <= max
                        \/ \E d \in Clients : held'[d] >= max /\ count' - held'[d] <= max
      BY <2>1 DEF AtMostOneOversize
    <3>1. CASE count <= max
      BY <1>t, <2>1, <3>1
    <3>2. ASSUME NEW d \in Clients, held[d] >= max, count - held[d] <= max
          PROVE  \/ count' <= max
                 \/ held'[d] >= max /\ count' - held'[d] <= max
      <4>1. CASE d = c
        BY <1>t, <2>1, <3>2, <4>1
      <4>2. CASE d # c
        <5>1. held'[d] = held[d] /\ held[d] \in Nat /\ held[c] \in Nat
          BY <1>t, <2>1, <4>2
        <5> QED
          BY <1>t, <2>1, <3>2, <5>1
      <4> QED
        BY <4>1, <4>2
    <3> QED
      BY <1>i, <3>1, <3>2 DEF AtMostOneOversize
  <2>4. \A d \in Clients : pc'[d] \in {"get", "waiting", "try", "take"} => held'[d] = 0
    BY <1>t, <1>i, <2>1
  <2> QED
    BY <1>i, <2>1, <2>2, <2>3, <2>4 DEF AccountInv
<1>10. ASSUME NEW m \in Maxes, ResetMax(m) PROVE AccountInv'
  <2>1. /\ UNCHANGED <<count, held, pc>> /\ max' = m
        /\ past' = past \cup ({"reset_max"} \cup (IF m = 0 THEN {"unlimited"} ELSE {}))
    BY <1>10 DEF ResetMax, Disturb
  <2> QED
    BY <1>i, <2>1 DEF AccountInv, AtMostOneOversize, Conservation
<1>11. CASE Reset
  <2>1. UNCHANGED <<held, pc, max>> /\ past' = past \cup {"reset"}
    BY <1>11 DEF Reset, Disturb
  <2> QED
    BY <1>i, <2>1 DEF AccountInv, AtMostOneOversize, Conservation
<1>12. CASE UNCHANGED vars
  BY <1>i, <1>k, <1>12 DEF vars, AccountInv
<1> QED
  BY <1>1, <1>2, <1>3, <1>4, <1>5, <1>6, <1>7, <1>8, <1>9, <1>10, <1>11, <1>12, NextSplit
     DEF QuietStep

\* The account holds in every reachable state.
LEMMA AccountHolds == Spec => []AccountInv
<1> QED
  BY IInvHolds, AccountInit, AccountStep, PTL DEF Spec

\* What is counted is what the callers hold and will put() back.
THEOREM CountConserved == Spec => []Conservation
<1>1. AccountInv => Conservation
  BY DEF AccountInv
<1> QED
  BY <1>1, AccountHolds, PTL

\* The count passes the limit only by one request that is larger than it.
THEOREM LimitKept == Spec => []AtMostOneOversize
<1>1. AccountInv => AtMostOneOversize
  BY DEF AccountInv
<1> QED
  BY <1>1, AccountHolds, PTL
=============================================================================
