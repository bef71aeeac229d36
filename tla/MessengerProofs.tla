-------------------------- MODULE MessengerProofs --------------------------
(***************************************************************************)
(* Proofs about the life of sockets, for any number of sockets, threads,   *)
(* calls and events: every reference has an owner and every owner its      *)
(* reference, nothing freed is used, and a session that lives is found.    *)
(*                                                                         *)
(* A step changes one thread and one or two sockets. What it leaves alone  *)
(* is put once (`What a step leaves alone'); then come the lemmas per kind *)
(* of change (an end of a session, a start of a thread, ...), and the      *)
(* actions that make such changes.                                         *)
(***************************************************************************)
EXTENDS Messenger, FiniteSetTheorems, SequenceTheorems, TLAPS

-----------------------------------------------------------------------------
(* Where the threads are                                                   *)

\* A thread that is woken is where it fell asleep: the proofs do not tell the
\* one from the other.
Plain(l) ==
    IF l = "asleep" THEN "start"
    ELSE IF l = "await again" THEN "await"
    ELSE IF l \in {"wait asleep", "wait awake"} THEN "wait"
    ELSE IF l = "reaper asleep" THEN "reaper" ELSE l
where == [t \in Threads |-> Plain(pc[t])]

CallLabels ==
    {"send to", "send on", "resolve", "lock to send", "unsent", "lock to resolve", "connect",
     "register", "mark down", "mark down on", "lock to stop", "shutdown", "mark all",
     "lock to stop all", "stop"}
Accepts == {"handshake", "lock old", "await", "replace", "open"}
Ended == {"none", "done", "reap"}
Unlists == {"lock to unlist", "unlist"}
AppLabels == CallLabels \cup {"idle", "wait", "end dispatching", "end reaper", "join reaper"}
ReaderLabels ==
    CallLabels \cup Accepts \cup Ended \cup Unlists
    \cup {"start", "loop", "read", "callback", "dispatched"}
WriterLabels == Ended \cup Unlists \cup {"start", "loop", "connecting", "join reader", "write"}
ReaperLabels == {"reaper", "reaping", "join threads", "done"}
IsAt(t, l) ==
    /\ t \in Apps => l \in AppLabels
    /\ t = Reaper => l \in ReaperLabels
    /\ \A s \in Sockets : (t = R(s) => l \in ReaderLabels) /\ (t = W(s) => l \in WriterLabels)

\* Where a thread has the messenger's lock, and where it may have it.
HasM == {"resolve", "connect", "register", "lock to stop", "mark all", "lock to stop all",
         "join reaper", "lock old", "await", "replace", "open", "unlist", "reaping"}
MayM == {"lock to send", "unsent"}

Locked ==
    /\ pc = [t \in Threads |-> pc[t]]
    /\ mlock \in Threads \cup {Nobody}
    /\ \A t \in Threads :
        /\ IsAt(t, where[t])
        /\ where[t] \in HasM => mlock = t
        /\ mlock = t => where[t] \in HasM \cup MayM

-----------------------------------------------------------------------------
(* The invariant                                                           *)

Typed ==
    /\ policy \in Policies
    /\ slock \in [Sockets -> Threads \cup {Nobody}]
    /\ st \in [Sockets -> {"none", "accepting", "connecting", "open", "standby", "closed"}]
    /\ at \in [Threads -> Sockets \cup {None}] /\ using \in [Threads -> Sockets \cup {None}]
    /\ rank \in Sockets \cup {None} /\ all \subseteq Sockets
    /\ con \in [Sockets -> Sockets] /\ conSocket \in [Sockets -> Sockets \cup {None}]
    /\ failed \in [Sockets -> BOOLEAN] /\ refs \in [Sockets -> Int]
    /\ unsent \in [Sockets -> Nat] /\ sent \in [Sockets -> Nat]
    /\ accepting \subseteq Sockets /\ running \subseteq Threads
    /\ dispatching \subseteq Sockets /\ notify \subseteq Sockets
    /\ reapq \in Seq(Sockets)

\* The socket that is about to be registered, marked down, or joined by the
\* reaper; None if there is none.
Registering == IF mlock # Nobody /\ where[mlock] = "register" THEN at[mlock] ELSE None
Stopping ==
    IF mlock # Nobody /\ where[mlock] \in {"lock to stop", "lock to stop all"}
    THEN at[mlock] ELSE None
Joining == IF where[Reaper] = "join threads" THEN at[Reaper] ELSE None

Live == {"connecting", "open", "standby"}
Queued == {reapq[i] : i \in DOMAIN reapq}
NoTwice == \A i, j \in DOMAIN reapq : reapq[i] = reapq[j] => i = j

\* Socket s in state z, with its reader at r and its writer at w.
IsAlive(s, z, r, w) ==
    /\ R(s) \in running <=> r \notin Ended
    /\ W(s) \in running <=> w \notin Ended
    /\ z = "none" => r = "none" /\ w = "none" /\ s \notin all /\ s \notin undone
    /\ z = "accepting" => r \in Accepts \cup {"start"} /\ w = "none" /\ s \in all /\ s \notin undone
    /\ r \in Accepts => z = "accepting" /\ slock[s] = R(s)
    /\ z \in Live => w \notin Ended
    /\ w = "connecting" => r \in {"none", "done"}
    /\ r \in Unlists \/ w \in Unlists => z = "closed"
    /\ at[W(s)] = s
    /\ r \in Ended \cup Unlists \cup {"start", "loop", "read", "handshake"} => at[R(s)] = s
\* ... and what the lists have of it.
IsListed(s, z, r, w) ==
    /\ r = "reap" => w \in {"none", "done"}
    /\ w = "reap" => r \in {"none", "done"}
    /\ r = "reap" \/ w = "reap" => s \in all /\ s \notin Queued
    /\ r \notin Ended \/ w \notin Ended => (s \in all \/ s = Registering) /\ s \notin Queued
    /\ s \in Queued => s \in all /\ {r, w} \subseteq {"none", "done"}
    /\ s = Joining => z = "closed" /\ s \notin all /\ {r, w} \subseteq {"none", "done"}
    /\ s \notin all /\ s # Registering => unsent[s] = 0 /\ sent[s] = 0
    /\ s = Registering =>
        /\ s \notin all /\ w # "none"
        /\ z = "closed" => "lock to unlist" \in {r, w}
    /\ s \in accepting => s \in all /\ s # rank
    /\ s = rank => s \in all /\ z \notin {"none", "accepting"}
    /\ z \in Live => s \in undone \cup {rank, Registering, Stopping}
Life(s) ==
    /\ IsAlive(s, st[s], where[R(s)], where[W(s)])
    /\ IsListed(s, st[s], where[R(s)], where[W(s)])

\* Connections that callers may have seen; those have the one socket that
\* lives, or is about to.
Published(c) == con[c] = c /\ st[c] \notin {"none", "accepting"}
IsUp(x) ==
    \/ st[x] \in Live /\ x \notin undone
    \/ st[x] = "accepting" /\ where[R(x)] = "open"
Conn(c) ==
    /\ con[c] = c \/ Published(con[c])
    /\ Published(c) /\ conSocket[c] # None => con[conSocket[c]] = c /\ IsUp(conSocket[c])
    /\ Published(c) /\ ~failed[c] => conSocket[c] # None
    /\ st[c] = "accepting" /\ con[c] = c => conSocket[c] = c
    /\ st[c] = "none" => con[c] = c /\ conSocket[c] = None
    /\ conSocket[c] # None => st[conSocket[c]] # "none"

\* No session that lives would be forgotten if another were registered.
Vacant == rank = None \/ st[rank] = "closed" \/ rank \in undone
IsThr(t, l, s, c) ==           \* thread t at l, about socket s, using connection c
    /\ c = None \/ Published(c)
    /\ l \in {"send on", "mark down on", "resolve", "lock to resolve", "lock to send"} => c # None
    /\ l = "unsent" /\ mlock # t => c # None
    /\ l = "mark down" => c = None
    /\ l \in {"lock to send", "await", "lock old", "replace", "register", "lock to stop",
             "lock to stop all", "join threads", "unlist"} => s # None /\ st[s] # "none"
    /\ l \in {"lock to stop", "lock to stop all", "await", "lock old", "replace"} => s \in all
    /\ l = "open" /\ s # None => s \in all /\ st[s] \notin {"none", "accepting"}
    /\ l \in {"await", "lock old", "replace"} => s = rank
    /\ l \in {"connect", "register", "open"} => Vacant
    /\ mlock = t /\ l = "unsent" => Vacant
    /\ mlock = t /\ l = "lock to send" => Vacant \/ rank = s
Thr(t) == IsThr(t, where[t], at[t], using[t])

\* The reference that a thread has, and how many have one.
Owned(l, s, c) ==
    IF l \in {"lock to send", "await"} \/ (l = "lock to stop" /\ c # None) THEN s ELSE None
own == [t \in Threads |-> Owned(where[t], at[t], using[t])]
Count(f, S, x) == Cardinality({d \in S : f[d] = x})
Is(a, x) == IF a = x THEN 1 ELSE 0
Created(s) == IF s \in all \cup {Registering, Joining} THEN 1 ELSE 0
RefsOK ==
    \A s \in Sockets : refs[s] = Created(s) + Count(conSocket, Sockets, s) + Count(own, Threads, s)

\* Locks are where the threads say, every reference has its owner, the lists, the
\* session and the threads of each socket fit one another, and so do a thread and
\* the socket it is at work on.
MessengerInv ==
    /\ Locked /\ Typed /\ NoTwice /\ RefsOK
    /\ \A s \in Sockets : Life(s) /\ Conn(s)
    /\ \A t \in Threads : Thr(t)

-----------------------------------------------------------------------------
(* Threads and where they go                                               *)

\* All threads are different, and nobody is none of them.
LEMMA ThreadNames ==
    /\ Reaper \in Threads /\ Nobody \notin Threads /\ Reaper \notin Apps /\ Apps \subseteq Threads
    /\ \A s \in Sockets :
        /\ {R(s), W(s)} \subseteq Threads /\ {R(s), W(s)} \cap Apps = {}
        /\ R(s) # Reaper /\ W(s) # Reaper
    /\ \A s, x \in Sockets :
        R(s) # W(x) /\ (R(s) = R(x) => s = x) /\ (W(s) = W(x) => s = x)
    /\ \A t \in Threads : t \in Apps \/ t = Reaper \/ \E s \in Sockets : t = R(s) \/ t = W(s)
<1>1. \A s \in Sockets : {R(s), W(s)} \subseteq Threads
  BY DEF Threads
<1>2. \A s, x \in Sockets : R(s) # W(x) /\ (R(s) = R(x) => s = x) /\ (W(s) = W(x) => s = x)
  BY DEF R, W
<1>3. \A s \in Sockets : R(s) # Reaper /\ W(s) # Reaper
  BY DEF R, W, Reaper
<1>4. \A s \in Sockets : R(s) \notin Apps /\ W(s) \notin Apps
  BY DEF R, W, Apps
<1>5. Reaper \notin Apps
  BY DEF Reaper, Apps
<1>6. Nobody \notin Threads
  BY DEF Threads, Nobody, Apps, R, W, Reaper
<1> QED
  BY <1>1, <1>2, <1>3, <1>4, <1>5, <1>6 DEF Threads

\* None is no socket.
LEMMA NoneIsNone == None \notin Sockets
BY DEF None, Sockets

LEMMA OneSocket == 1 \in Sockets
<1>1. NumSockets \in Nat \ {0}
  BY MessengerAssumption DEF MessengerAssumption
<1> QED
  BY <1>1 DEF Sockets

\* There are finitely many of each.
LEMMA ImageIsFinite ==
    ASSUME NEW S, IsFiniteSet(S), NEW f, f = [x \in S |-> f[x]]
    PROVE  IsFiniteSet({f[x] : x \in S})
<1>1. PICK T : T = {f[x] : x \in S}
  OBVIOUS
<1>2. f \in [S -> T] /\ \A y \in T : \E x \in S : f[x] = y
  BY <1>1
<1>3. f \in Surjection(S, T)
  BY <1>2 DEF Surjection
<1> QED
  BY <1>1, <1>3, FS_Surjection

LEMMA Finite == IsFiniteSet(Sockets) /\ IsFiniteSet(Threads)
<1>1. NumSockets \in Nat /\ NumApps \in Nat
  BY MessengerAssumption DEF MessengerAssumption
<1>2. IsFiniteSet(Sockets) /\ IsFiniteSet(1 .. NumApps)
  BY <1>1, FS_Interval DEF Sockets
<1>3. IsFiniteSet({R(s) : s \in Sockets})
  <2> DEFINE f == [s \in Sockets |-> R(s)]
  <2>1. {f[s] : s \in Sockets} = {R(s) : s \in Sockets} /\ f = [s \in Sockets |-> f[s]]
    OBVIOUS
  <2> HIDE DEF f
  <2>2. IsFiniteSet({f[s] : s \in Sockets})
    BY <1>2, <2>1, ImageIsFinite
  <2> QED
    BY <2>1, <2>2
<1>4. IsFiniteSet({W(s) : s \in Sockets})
  <2> DEFINE f == [s \in Sockets |-> W(s)]
  <2>1. {f[s] : s \in Sockets} = {W(s) : s \in Sockets} /\ f = [s \in Sockets |-> f[s]]
    OBVIOUS
  <2> HIDE DEF f
  <2>2. IsFiniteSet({f[s] : s \in Sockets})
    BY <1>2, <2>1, ImageIsFinite
  <2> QED
    BY <2>1, <2>2
<1>5. IsFiniteSet(Apps)
  <2> DEFINE f == [i \in 1 .. NumApps |-> <<"app", i>>]
  <2>1. {f[i] : i \in 1 .. NumApps} = Apps
    BY DEF Apps
  <2> QED
    BY <1>2, <2>1, ImageIsFinite
<1>6. IsFiniteSet({Reaper})
  BY FS_Singleton
<1> QED
  BY <1>2, <1>3, <1>4, <1>5, <1>6, FS_Union DEF Threads

IsPc(p) == p = [t \in Threads |-> p[t]]

\* Thread t goes to l, others stay where they are, be it that some are woken.
Moves(t, l) == IsPc(pc') /\ where' = [where EXCEPT ![t] = l]

LEMMA WhereIs ==
    /\ where = [t \in Threads |-> where[t]]
    /\ \A t \in Threads : where[t] = Plain(pc[t])
BY DEF where

LEMMA GoMoves ==
    ASSUME IsPc(pc), NEW t \in Threads, NEW l, Go(t, l)
    PROVE  Moves(t, Plain(l))
BY DEF Go, Moves, IsPc, where

LEMMA WakingMoves ==
    ASSUME IsPc(pc), NEW t \in Threads, NEW l, NEW S, \A u \in S : pc[u] \in {"asleep", "await"},
           GoWaking(t, l, S)
    PROVE  IsPc(pc') /\ \A u \in Threads :
                where'[u] = IF u = t THEN Plain(l)
                            ELSE IF u \in S /\ pc[u] = "asleep" THEN "start"
                            ELSE IF u \in S /\ pc[u] = "await" THEN "await" ELSE where[u]
BY DEF GoWaking, IsPc, where, Awake, Plain

LEMMA GoWakingMoves ==
    ASSUME IsPc(pc), NEW t \in Threads, NEW l, NEW S, \A u \in S : pc[u] \in {"asleep", "await"},
           GoWaking(t, l, S)
    PROVE  Moves(t, Plain(l))
<1>1. IsPc(pc')
  BY WakingMoves
<1>2. ASSUME NEW u \in Threads PROVE where'[u] = IF u = t THEN Plain(l) ELSE where[u]
  <2>1. CASE u = t
    BY <2>1, WakingMoves
  <2>2. CASE u # t /\ u \in S
    <3>1. where[u] = IF pc[u] = "asleep" THEN "start" ELSE "await"
      BY <2>2 DEF where, Plain
    <3> QED
      BY <2>2, <3>1, WakingMoves
  <2>3. CASE u # t /\ u \notin S
    BY <2>3, WakingMoves
  <2> QED
    BY <2>1, <2>2, <2>3
<1>3. where' = [u \in Threads |-> where'[u]] /\ where = [u \in Threads |-> where[u]]
  BY DEF where
<1> QED
  BY <1>1, <1>2, <1>3 DEF Moves

LEMMA SignalMoves ==
    ASSUME IsPc(pc), NEW t \in Threads, NEW l, NEW s, GoSignal(t, l, s)
    PROVE  Moves(t, Plain(l))
<1>1. CASE Go(t, l)
  BY <1>1, GoMoves
<1>2. ASSUME NEW u \in Sleepers(s), GoWaking(t, l, {u})
      PROVE  Moves(t, Plain(l))
  <2>1. \A v \in {u} : pc[v] \in {"asleep", "await"}
    BY <1>2 DEF Sleepers
  <2> QED
    BY <1>2, <2>1, GoWakingMoves
<1> QED
  BY <1>1, <1>2 DEF GoSignal

-----------------------------------------------------------------------------
(* Who has the messenger's lock                                            *)

LockStep(t) ==
    \/ mlock' = mlock
    \/ mlock = Nobody /\ mlock' = t
    \/ mlock = t /\ mlock' = Nobody
MayHold(t, l) ==
    /\ IsAt(t, l)
    /\ l \in HasM => mlock' = t
    /\ mlock' = t => l \in HasM \cup MayM

LEMMA LockedStep ==
    ASSUME Locked, NEW t \in Threads, NEW l, Moves(t, l), LockStep(t), MayHold(t, l)
    PROVE  Locked'
<1>1. IsPc(pc') /\ mlock' \in Threads \cup {Nobody}
  BY DEF Moves, Locked, LockStep
<1>2. \A u \in Threads : where'[u] = IF u = t THEN l ELSE where[u]
  BY WhereIs DEF Moves
<1>3. ASSUME NEW u \in Threads
      PROVE  IsAt(u, where'[u]) /\ (where'[u] \in HasM => mlock' = u)
             /\ (mlock' = u => where'[u] \in HasM \cup MayM)
  <2>1. CASE u = t
    BY <1>2, <2>1 DEF MayHold
  <2>2. CASE u # t
    <3>1. where'[u] = where[u] /\ IsAt(u, where[u])
      BY <1>2, <2>2 DEF Locked
    <3>2. (mlock = u) <=> (mlock' = u)
      BY <2>2, ThreadNames DEF LockStep
    <3> QED
      BY <3>1, <3>2 DEF Locked
  <2> QED
    BY <2>1, <2>2
<1> QED
  BY <1>1, <1>3 DEF Locked, IsPc, IsAt

\* The same when two threads move: `other' is one that did not have the lock.
LEMMA LockedStepOfTwo ==
    ASSUME Locked, NEW t \in Threads, NEW l, NEW u \in Threads, NEW k, u # t, IsPc(pc'),
           where' = [where EXCEPT ![t] = l, ![u] = k],
           LockStep(t), MayHold(t, l), IsAt(u, k), k \notin HasM, mlock # u
    PROVE  Locked'
<1>1. mlock' \in Threads \cup {Nobody}
  BY DEF Locked, LockStep
<1>2. \A v \in Threads : where'[v] = IF v = t THEN l ELSE IF v = u THEN k ELSE where[v]
  BY WhereIs
<1>3. ASSUME NEW v \in Threads
      PROVE  IsAt(v, where'[v]) /\ (where'[v] \in HasM => mlock' = v)
             /\ (mlock' = v => where'[v] \in HasM \cup MayM)
  <2>1. CASE v = t
    BY <1>2, <2>1 DEF MayHold
  <2>2. CASE v # t
    <3>1. (mlock = v) <=> (mlock' = v)
      BY <2>2, ThreadNames DEF LockStep
    <3>2. IsAt(v, where'[v])
      BY <1>2, <2>2 DEF Locked
    <3>3. CASE v = u
      BY <1>2, <2>2, <3>1, <3>2, <3>3
    <3>4. CASE v # u
      BY <1>2, <2>2, <3>1, <3>2, <3>4 DEF Locked
    <3> QED
      BY <3>3, <3>4
  <2> QED
    BY <2>1, <2>2
<1> QED
  BY <1>1, <1>3 DEF Locked, IsPc, IsAt

\* What is about to be registered, marked down or joined changes only with a
\* thread that does it.
Marks == {"register", "lock to stop", "lock to stop all", "join threads"}
MarksSame == Registering' = Registering /\ Stopping' = Stopping /\ Joining' = Joining
LEMMA MarksStep ==
    ASSUME Locked, Locked',
           \A u \in Threads : \/ where'[u] = where[u] /\ at'[u] = at[u]
                              \/ where[u] \notin Marks /\ where'[u] \notin Marks
    PROVE  MarksSame
<1>1. \A u \in Threads : where[u] \in HasM => mlock = u
  BY DEF Locked
<1>2. \A u \in Threads : where'[u] \in HasM => mlock' = u
  BY DEF Locked
<1>3. Nobody \notin Threads /\ Reaper \in Threads
  BY ThreadNames
<1>4. mlock \in Threads \cup {Nobody} /\ mlock' \in Threads \cup {Nobody}
  BY DEF Locked
<1>5. Registering' = Registering
  <2>1. CASE mlock # Nobody /\ where[mlock] = "register"
    <3>1. where'[mlock] = "register" /\ at'[mlock] = at[mlock]
      BY <1>4, <2>1 DEF Marks
    <3>2. mlock' = mlock
      BY <1>2, <1>4, <2>1, <3>1 DEF HasM
    <3> QED
      BY <2>1, <3>1, <3>2 DEF Registering
  <2>2. CASE ~(mlock # Nobody /\ where[mlock] = "register")
    <3>1. ~(mlock' # Nobody /\ where'[mlock'] = "register")
      BY <1>1, <1>4, <2>2 DEF Marks, HasM
    <3> QED
      BY <2>2, <3>1 DEF Registering
  <2> QED
    BY <2>1, <2>2
<1>6. Stopping' = Stopping
  <2>1. CASE mlock # Nobody /\ where[mlock] \in {"lock to stop", "lock to stop all"}
    <3>1. where'[mlock] \in {"lock to stop", "lock to stop all"} /\ at'[mlock] = at[mlock]
      BY <1>4, <2>1 DEF Marks
    <3>2. mlock' = mlock
      BY <1>2, <1>4, <2>1, <3>1 DEF HasM
    <3> QED
      BY <2>1, <3>1, <3>2 DEF Stopping
  <2>2. CASE ~(mlock # Nobody /\ where[mlock] \in {"lock to stop", "lock to stop all"})
    <3>1. ASSUME mlock' # Nobody, where'[mlock'] \in {"lock to stop", "lock to stop all"}
          PROVE  FALSE
      <4>1. where[mlock'] = where'[mlock']
        BY <1>4, <3>1 DEF Marks
      <4>2. mlock = mlock'
        BY <1>1, <1>4, <3>1, <4>1 DEF HasM
      <4> QED
        BY <2>2, <3>1, <4>1, <4>2
    <3> QED
      BY <2>2, <3>1 DEF Stopping
  <2> QED
    BY <2>1, <2>2
<1>7. Joining' = Joining
  BY <1>3 DEF Joining, Marks
<1> QED
  BY <1>5, <1>6, <1>7 DEF MarksSame

-----------------------------------------------------------------------------
(* Counting references                                                     *)

\* f changes at one place e, from b to a: so do the numbers of a and b.
LEMMA CountStep ==
    ASSUME NEW S, IsFiniteSet(S), NEW f, NEW g, NEW e \in S, NEW a,
           f = [d \in S |-> f[d]], g = [f EXCEPT ![e] = a], NEW x
    PROVE  /\ Count(f, S, x) \in Nat /\ Count(g, S, x) \in Nat
           /\ Count(g, S, x) = Count(f, S, x) + Is(a, x) - Is(f[e], x)
<1> DEFINE F == {d \in S : f[d] = x}
           G == {d \in S : g[d] = x}
           C == {d \in S : d # e /\ f[d] = x}
<1>1. IsFiniteSet(F) /\ IsFiniteSet(G) /\ IsFiniteSet(C)
  BY FS_Subset
<1>2. F = IF f[e] = x THEN C \cup {e} ELSE C
  OBVIOUS
<1>3. G = IF a = x THEN C \cup {e} ELSE C
  OBVIOUS
<1>4. e \notin C
  OBVIOUS
<1>5. Count(f, S, x) = Cardinality(F) /\ Count(g, S, x) = Cardinality(G)
  BY DEF Count
<1> HIDE DEF F, G, C
<1>6. Cardinality(C \cup {e}) = Cardinality(C) + 1 /\ Cardinality(C) \in Nat
  BY <1>1, <1>4, FS_AddElement, FS_CardinalityType
<1>7. Cardinality(F) = Cardinality(C) + Is(f[e], x)
  BY <1>2, <1>6 DEF Is
<1>8. Cardinality(G) = Cardinality(C) + Is(a, x)
  BY <1>3, <1>6 DEF Is
<1>9. Is(a, x) \in {0, 1} /\ Is(f[e], x) \in {0, 1}
  BY DEF Is
<1> QED
  BY <1>5, <1>6, <1>7, <1>8, <1>9

\* The references in a step in which thread t comes to have one of socket a, and
\* connection c one of b, instead of what they had.
RefsMove(t, a, c, b) ==
    /\ own' = [own EXCEPT ![t] = a] /\ conSocket' = [conSocket EXCEPT ![c] = b]
    /\ \A s \in Sockets :
          refs'[s] = refs[s] + Created(s)' - Created(s) + Is(b, s) - Is(conSocket[c], s)
                       + Is(a, s) - Is(own[t], s)
LEMMA RefsStep ==
    ASSUME RefsOK, Typed, NEW t \in Threads, NEW a, NEW c \in Sockets, NEW b, RefsMove(t, a, c, b)
    PROVE  RefsOK'
<1> USE DEF RefsMove
<1>0. refs \in [Sockets -> Int] /\ conSocket = [d \in Sockets |-> conSocket[d]]
  BY DEF Typed
<1>1. own = [u \in Threads |-> own[u]]
  BY DEF own
<1> SUFFICES ASSUME NEW s \in Sockets
             PROVE  refs'[s] = Created(s)' + Count(conSocket', Sockets, s) + Count(own', Threads, s)
  BY DEF RefsOK
<1>2. refs[s] = Created(s) + Count(conSocket, Sockets, s) + Count(own, Threads, s)
  BY DEF RefsOK
<1>3. /\ Count(conSocket, Sockets, s) \in Nat /\ Count(conSocket', Sockets, s) \in Nat
      /\ Count(conSocket', Sockets, s)
           = Count(conSocket, Sockets, s) + Is(b, s) - Is(conSocket[c], s)
  BY <1>0, Finite, CountStep
<1>4. /\ Count(own, Threads, s) \in Nat /\ Count(own', Threads, s) \in Nat
      /\ Count(own', Threads, s) = Count(own, Threads, s) + Is(a, s) - Is(own[t], s)
  BY <1>1, Finite, CountStep
<1>5. Created(s) \in {0, 1} /\ Created(s)' \in {0, 1}
  BY DEF Created
<1>6. {Is(a, s), Is(b, s), Is(conSocket[c], s), Is(own[t], s)} \subseteq {0, 1}
  BY DEF Is
<1>7. refs'[s] = refs[s] + Created(s)' - Created(s) + Is(b, s) - Is(conSocket[c], s)
                   + Is(a, s) - Is(own[t], s)
  OBVIOUS
<1> QED
  BY <1>0, <1>2, <1>3, <1>4, <1>5, <1>6, <1>7

-----------------------------------------------------------------------------
(* What a step leaves alone                                                *)

\* Labels of a reader and of a writer that work on a session.
BusyR == CallLabels \cup {"start", "loop", "read", "callback", "dispatched"}
BusyW == {"start", "loop", "join reader", "write"}
\* A reader of s, in state z, goes from r to k, with its place at a; a writer from w to k.
ReaderGoes(s, z, r, k, a) ==
    \/ r \in BusyR /\ k \in BusyR /\ z # "accepting" /\ (k \in {"start", "loop", "read"} => a = s)
    \/ /\ r \in Accepts \cup {"start"} /\ r # "open" /\ k \in Accepts /\ z = "accepting"
       /\ slock'[s] = R(s) /\ (k = "handshake" => a = s)
    \/ r = "lock to unlist" /\ k = "unlist" /\ s # Registering /\ a = s
    \/ r = "unlist" /\ k = "loop" /\ a = s
WriterGoes(s, w, k) ==
    \/ w \in BusyW \cup {"connecting"} /\ k \in BusyW
    \/ w \in BusyW /\ k = "connecting" /\ where[R(s)] \in {"none", "done"}
    \/ w = "lock to unlist" /\ k = "unlist" /\ s # Registering
    \/ w = "unlist" /\ k = "loop"
SameWork(s) ==
    /\ st'[s] = st[s]
    /\ \/ where'[R(s)] = where[R(s)] /\ at'[R(s)] = at[R(s)]
       \/ ReaderGoes(s, st[s], where[R(s)], where'[R(s)], at'[R(s)])
    /\ where'[W(s)] = where[W(s)] \/ WriterGoes(s, where[W(s)], where'[W(s)])
    /\ at'[W(s)] = at[W(s)]
    /\ R(s) \in running' <=> R(s) \in running
    /\ W(s) \in running' <=> W(s) \in running
    /\ where[R(s)] \in Accepts => slock'[s] = slock[s]
    /\ s \in undone' <=> s \in undone
SameLists(s) ==
    /\ s \in all' <=> s \in all
    /\ s \in Queued' <=> s \in Queued
    /\ s = Registering' <=> s = Registering
    /\ s = Joining' <=> s = Joining
    /\ s \in accepting' => s \in accepting
    /\ s = rank' => s = rank
    /\ st[s] \in Live /\ s \in {rank, Stopping} => s \in undone \cup {rank', Stopping'}
    /\ s \notin all /\ s # Registering => unsent'[s] = 0 /\ sent'[s] = 0

LEMMA AliveFrame ==
    ASSUME NEW s \in Sockets, Life(s), SameWork(s),
           st[s] \in {"none", "accepting"} => (s \in all' <=> s \in all)
    PROVE  IsAlive(s, st[s], where[R(s)], where[W(s)])'
<1> PICK r, w, k, l, z, a, b : /\ r = where[R(s)] /\ w = where[W(s)] /\ k = where'[R(s)] /\ l = where'[W(s)]
                               /\ z = st[s] /\ a = at[R(s)] /\ b = at'[R(s)]
  OBVIOUS
<1>1. IsAlive(s, z, r, w)
  BY DEF Life
<1>2. /\ st'[s] = z /\ at'[W(s)] = at[W(s)]
      /\ R(s) \in running' <=> R(s) \in running
      /\ W(s) \in running' <=> W(s) \in running
      /\ r \in Accepts => slock'[s] = slock[s]
      /\ s \in undone' <=> s \in undone
      /\ (k = r /\ b = a) \/ ReaderGoes(s, z, r, k, b)
      /\ l = w \/ WriterGoes(s, w, l)
  BY DEF SameWork
<1>3. k \notin Ended <=> r \notin Ended
  BY <1>2 DEF ReaderGoes, Accepts, Ended, BusyR, CallLabels
<1>4. l \notin Ended <=> w \notin Ended
  BY <1>2 DEF WriterGoes, Ended, BusyW
<1>5. (k = "none" <=> r = "none") /\ (k = "done" <=> r = "done")
  BY <1>2 DEF ReaderGoes, Accepts, BusyR, CallLabels
<1>6. l = "none" <=> w = "none"
  BY <1>2 DEF WriterGoes, BusyW
<1>12. l = "connecting" => w = "connecting" \/ r \in {"none", "done"}
  BY <1>2 DEF WriterGoes, BusyW
<1>7. z = "accepting" => k \in Accepts \cup {"start"}
  <2>1. z = "accepting" => r \in Accepts \cup {"start"}
    BY <1>1 DEF IsAlive
  <2> QED
    BY <1>2, <2>1 DEF ReaderGoes, Accepts
<1>8. k \in Accepts => z = "accepting" /\ slock'[s] = R(s)
  BY <1>1, <1>2 DEF IsAlive, ReaderGoes, Accepts, BusyR, CallLabels
<1>9. k \in Unlists => r \in Unlists
  BY <1>2 DEF Unlists, ReaderGoes, Accepts, BusyR, CallLabels
<1>10. l \in Unlists => w \in Unlists
  BY <1>2 DEF Unlists, WriterGoes, BusyW
<1>11. k \in Ended \cup Unlists \cup {"start", "loop", "read", "handshake"} => b = s
  BY <1>1, <1>2 DEF IsAlive, ReaderGoes, Accepts, BusyR, CallLabels, Ended, Unlists
<1> QED
  BY <1>1, <1>2, <1>3, <1>4, <1>5, <1>6, <1>7, <1>8, <1>9, <1>10, <1>11, <1>12 DEF IsAlive

LEMMA LifeFrame ==
    ASSUME NEW s \in Sockets, Life(s), SameWork(s), SameLists(s)
    PROVE  Life(s)'
<1> PICK r, w, k, l, z : /\ r = where[R(s)] /\ w = where[W(s)] /\ k = where'[R(s)] /\ l = where'[W(s)]
                         /\ z = st[s]
  OBVIOUS
<1>1. IsAlive(s, st[s], where[R(s)], where[W(s)])'
  BY AliveFrame DEF SameLists
<1>2. IsListed(s, z, r, w)
  BY DEF Life
<1>3. st'[s] = z /\ (k = r \/ ReaderGoes(s, z, r, k, at'[R(s)])) /\ (l = w \/ WriterGoes(s, w, l))
      /\ (s \in undone' <=> s \in undone)
  BY DEF SameWork
<1>4. k \notin Ended <=> r \notin Ended
  BY <1>3 DEF ReaderGoes, Accepts, Ended, BusyR, CallLabels
<1>5. l \notin Ended <=> w \notin Ended
  BY <1>3 DEF WriterGoes, Ended, BusyW
<1>6. (k = "none" <=> r = "none") /\ (k = "done" <=> r = "done") /\ (k = "reap" <=> r = "reap")
  BY <1>3 DEF ReaderGoes, Accepts, BusyR, CallLabels
<1>7. (l = "none" <=> w = "none") /\ (l = "done" <=> w = "done") /\ (l = "reap" <=> w = "reap")
  BY <1>3 DEF WriterGoes, BusyW
<1>8. s = Registering /\ "lock to unlist" \in {r, w} => "lock to unlist" \in {k, l}
  BY <1>3 DEF ReaderGoes, WriterGoes, Accepts, BusyR, BusyW, CallLabels
<1>9. /\ s \in all' <=> s \in all
      /\ s \in Queued' <=> s \in Queued
      /\ s = Registering' <=> s = Registering
      /\ s = Joining' <=> s = Joining
      /\ s \in accepting' => s \in accepting
      /\ s = rank' => s = rank
      /\ z \in Live /\ s \in {rank, Stopping} => s \in undone \cup {rank', Stopping'}
      /\ s \notin all /\ s # Registering => unsent'[s] = 0 /\ sent'[s] = 0
  BY DEF SameLists
<1> HIDE DEF Live, Ended
<1>10. IsListed(s, st[s], where[R(s)], where[W(s)])'
  BY <1>2, <1>3, <1>4, <1>5, <1>6, <1>7, <1>8, <1>9 DEF IsListed
<1> QED
  BY <1>1, <1>10 DEF Life

\* Connections after a step that neither changes them nor ends or begins a session.
LEMMA ConnFrame ==
    ASSUME \A c \in Sockets : Conn(c), Typed,
           \A x \in Sockets : st'[x] = st[x] \/ {st[x], st'[x]} \subseteq Live,
           undone' = undone, con' = con, conSocket' = conSocket, failed' = failed,
           \A x \in Sockets : st[x] = "accepting" /\ where[R(x)] = "open" => where'[R(x)] = "open"
    PROVE  \A c \in Sockets : Conn(c)'
<1>1. \A c \in Sockets : (Published(c) <=> Published(c)')
  BY DEF Published, Live
<1>2. \A x \in Sockets : IsUp(x) => IsUp(x)'
  BY DEF IsUp, Live
<1> SUFFICES ASSUME NEW c \in Sockets PROVE Conn(c)'
  OBVIOUS
<1>3. con[c] \in Sockets /\ conSocket[c] \in Sockets \cup {None}
  BY DEF Typed
<1>4. \A x \in Sockets : (st'[x] = "none" <=> st[x] = "none") /\ (st'[x] = "accepting" <=> st[x] = "accepting")
  BY DEF Live
<1> QED
  BY <1>1, <1>2, <1>3, <1>4 DEF Conn

\* A thread that does not move.
LEMMA ThrFrame ==
    ASSUME Locked, Typed, NEW x \in Threads, Thr(x),
           where'[x] = where[x], using'[x] = using[x], at'[x] = at[x], mlock' = x <=> mlock = x,
           \A c \in Sockets : Published(c) => Published(c)',
           \A s \in Sockets : st[s] # "none" => st'[s] # "none",
           \A s \in Sockets : st[s] \notin {"none", "accepting"} => st'[s] # "accepting",
           mlock # x \/ (rank' = rank /\ all \subseteq all' /\ (Vacant => Vacant'))
    PROVE  Thr(x)'
<1> PICK l, s, c : l = where[x] /\ s = at[x] /\ c = using[x]
  OBVIOUS
<1>1. s \in Sockets \cup {None} /\ c \in Sockets \cup {None}
  BY DEF Typed
<1>2. mlock # x => l \notin HasM
  BY DEF Locked
<1>3. mlock = x => rank' = rank /\ all \subseteq all' /\ (Vacant => Vacant')
  OBVIOUS
<1>4. c = None \/ Published(c)'
  BY <1>1 DEF Thr, IsThr
<1>5. /\ s # None /\ st[s] # "none" => st'[s] # "none"
      /\ s # None /\ st[s] \notin {"none", "accepting"} => st'[s] \notin {"none", "accepting"}
  BY <1>1
<1> HIDE DEF Vacant, Published
<1>6. CASE mlock # x
  BY <1>2, <1>4, <1>5, <1>6 DEF Thr, IsThr, HasM
<1>7. CASE mlock = x
  BY <1>3, <1>4, <1>5, <1>7 DEF Thr, IsThr
<1> QED
  BY <1>6, <1>7

LEMMA OwnStep ==
    ASSUME NEW t \in Threads, NEW l, NEW s, NEW c, Moves(t, l), Typed,
           at' = [at EXCEPT ![t] = s], using' = [using EXCEPT ![t] = c]
    PROVE  own' = [own EXCEPT ![t] = Owned(l, s, c)]
<1>1. where = [u \in Threads |-> where[u]] /\ at \in [Threads -> Sockets \cup {None}]
      /\ using \in [Threads -> Sockets \cup {None}]
  BY WhereIs DEF Typed
<1>2. \A u \in Threads : where'[u] = (IF u = t THEN l ELSE where[u])
                         /\ at'[u] = (IF u = t THEN s ELSE at[u])
                         /\ using'[u] = (IF u = t THEN c ELSE using[u])
  BY <1>1 DEF Moves
<1>3. own' = [u \in Threads |-> Owned(where'[u], at'[u], using'[u])]
  BY DEF own
<1>4. \A u \in Threads : own'[u] = IF u = t THEN Owned(l, s, c) ELSE own[u]
  BY <1>2, <1>3 DEF own
<1> QED
  BY <1>3, <1>4 DEF own

\* ... which changes nothing if the thread had no reference and has none.
LEMMA OwnStays ==
    ASSUME NEW t \in Threads, NEW l, NEW s, NEW c, Moves(t, l), Typed,
           at' = [at EXCEPT ![t] = s], using' = [using EXCEPT ![t] = c],
           own[t] = None, Owned(l, s, c) = None
    PROVE  own' = own
<1>1. own' = [own EXCEPT ![t] = Owned(l, s, c)]
  BY OwnStep
<1> QED
  BY <1>1 DEF own

-----------------------------------------------------------------------------
(* Steps that neither begin nor end a session                              *)

\* Thread t goes to l, at s, and uses connection c.
QuietMove(t, l, s) ==
    \A x \in Sockets :
        /\ t = R(x) => ReaderGoes(x, st[x], where[t], l, s)
        /\ t = W(x) => WriterGoes(x, where[t], l) /\ s = x
QuietLists(t) ==
    /\ accepting' \subseteq accepting /\ rank' \in {rank, None}
    /\ rank' # rank => mlock \in {t, Nobody}
    /\ Registering' = Registering /\ Joining' = Joining
    /\ \A x \in Sockets :
        /\ st[x] \in Live /\ x \in {rank, Stopping} => x \in undone \cup {rank', Stopping'}
        /\ x \notin all /\ x # Registering => unsent'[x] = 0 /\ sent'[x] = 0
QuietTypes ==
    /\ slock' \in [Sockets -> Threads \cup {Nobody}]
    /\ unsent' \in [Sockets -> Nat] /\ sent' \in [Sockets -> Nat]
    /\ dispatching' \subseteq Sockets /\ notify' \subseteq Sockets
RefsGo(t, l, s, c) ==
    /\ refs' \in [Sockets -> Int]
    /\ \A x \in Sockets : refs'[x] = refs[x] + Is(Owned(l, s, c), x) - Is(own[t], x)
Quiet(t, l, s, c) ==
    /\ Moves(t, l) /\ LockStep(t) /\ MayHold(t, l)
    /\ at' = [at EXCEPT ![t] = s] /\ using' = [using EXCEPT ![t] = c]
    /\ s \in Sockets \cup {None} /\ c \in Sockets \cup {None}
    /\ UNCHANGED <<policy, st, all, con, conSocket, failed, running, reapq, undone>>
    /\ QuietMove(t, l, s) /\ QuietLists(t) /\ QuietTypes
    /\ \A x \in Sockets : where[R(x)] \in Accepts => slock'[x] = slock[x]
    /\ RefsGo(t, l, s, c) /\ IsThr(t, l, s, c)'

LEMMA QuietLife ==
    ASSUME MessengerInv, NEW t \in Threads, NEW l, NEW s, NEW c, Quiet(t, l, s, c)
    PROVE  \A x \in Sockets : Life(x)'
<1> SUFFICES ASSUME NEW x \in Sockets PROVE Life(x)'
  OBVIOUS
<1>1. {R(x), W(x)} \subseteq Threads /\ R(x) # W(x)
  BY ThreadNames
<1>2. /\ where'[R(x)] = IF R(x) = t THEN l ELSE where[R(x)]
      /\ where'[W(x)] = IF W(x) = t THEN l ELSE where[W(x)]
  BY <1>1, WhereIs DEF Quiet, Moves
<1>3. at \in [Threads -> Sockets \cup {None}] /\ Life(x)
  BY DEF MessengerInv, Typed
<1>4. at'[R(x)] = (IF R(x) = t THEN s ELSE at[R(x)]) /\ at'[W(x)] = (IF W(x) = t THEN s ELSE at[W(x)])
  BY <1>1, <1>3 DEF Quiet
<1>5. /\ t = R(x) => ReaderGoes(x, st[x], where[t], l, s)
      /\ t = W(x) => WriterGoes(x, where[t], l) /\ s = x
  BY DEF Quiet, QuietMove
<1>6. at[W(x)] = x
  BY <1>3 DEF Life, IsAlive
<1>7. UNCHANGED <<st, all, running, reapq, undone>> /\ (where[R(x)] \in Accepts => slock'[x] = slock[x])
  BY DEF Quiet
<1>8. SameWork(x)
  BY <1>2, <1>4, <1>5, <1>6, <1>7 DEF SameWork
<1>9. Queued' = Queued
  BY <1>7 DEF Queued
<1>10. rank' = x => rank = x
  BY NoneIsNone DEF Quiet, QuietLists
<1>11. SameLists(x)
  BY <1>7, <1>9, <1>10 DEF SameLists, Quiet, QuietLists
<1> QED
  BY <1>3, <1>8, <1>11, LifeFrame

LEMMA QuietConn ==
    ASSUME MessengerInv, NEW t \in Threads, NEW l, NEW s, NEW c, Quiet(t, l, s, c)
    PROVE  \A x \in Sockets : Conn(x)'
<1>1. ASSUME NEW x \in Sockets, st[x] = "accepting", where[R(x)] = "open"
      PROVE  where'[R(x)] = "open"
  <2>1. R(x) \in Threads
    BY ThreadNames
  <2>2. where'[R(x)] = IF R(x) = t THEN l ELSE where[R(x)]
    BY <2>1, WhereIs DEF Quiet, Moves
  <2>3. t = R(x) => ReaderGoes(x, "accepting", "open", l, s)
    BY <1>1 DEF Quiet, QuietMove
  <2>4. t # R(x)
    BY <2>3 DEF ReaderGoes, BusyR, CallLabels
  <2> QED
    BY <1>1, <2>2, <2>4
<1>2. UNCHANGED <<st, con, conSocket, failed, undone>>
  BY DEF Quiet
<1>3. Typed /\ \A x \in Sockets : Conn(x)
  BY DEF MessengerInv
<1> QED
  BY <1>1, <1>2, <1>3, ConnFrame

LEMMA QuietThr ==
    ASSUME MessengerInv, NEW t \in Threads, NEW l, NEW s, NEW c, Quiet(t, l, s, c)
    PROVE  \A x \in Threads : Thr(x)'
<1>0. Thr(t)'
  <2>1. where'[t] = l /\ at'[t] = s /\ using'[t] = c
    BY WhereIs DEF Quiet, Moves, MessengerInv, Typed
  <2> QED
    BY <2>1 DEF Quiet, Thr
<1> SUFFICES ASSUME NEW x \in Threads, x # t PROVE Thr(x)'
  BY <1>0
<1>1. Locked /\ Typed /\ Thr(x)
  BY DEF MessengerInv
<1>2. where'[x] = where[x] /\ using'[x] = using[x] /\ at'[x] = at[x]
  BY <1>1, WhereIs DEF Quiet, Moves, Typed
<1>3. mlock' = x <=> mlock = x
  BY ThreadNames DEF Quiet, LockStep
<1>4. UNCHANGED <<st, con, all, undone>>
  BY DEF Quiet
<1>5. \A d \in Sockets : Published(d) => Published(d)'
  BY <1>4 DEF Published
<1>6. rank' # rank => mlock \in {t, Nobody}
  BY DEF Quiet, QuietLists
<1>7. mlock # x \/ (rank' = rank /\ all \subseteq all' /\ (Vacant => Vacant'))
  BY <1>4, <1>6, ThreadNames DEF Vacant
<1> QED
  BY <1>1, <1>2, <1>3, <1>4, <1>5, <1>7, ThrFrame

LEMMA QuietKeeps ==
    ASSUME MessengerInv, NEW t \in Threads, NEW l, NEW s, NEW c, Quiet(t, l, s, c)
    PROVE  MessengerInv'
<1>1. Locked'
  BY LockedStep DEF MessengerInv, Quiet
<1>2. Typed'
  <2>1. Typed
    BY DEF MessengerInv
  <2>2. at' \in [Threads -> Sockets \cup {None}] /\ using' \in [Threads -> Sockets \cup {None}]
    BY <2>1 DEF Typed, Quiet
  <2>3. rank' \in Sockets \cup {None} /\ accepting' \subseteq Sockets
    BY <2>1 DEF Typed, Quiet, QuietLists
  <2>4. UNCHANGED <<policy, st, all, con, conSocket, failed, running, reapq>>
    BY DEF Quiet
  <2>5. QuietTypes
    BY DEF Quiet
  <2> QED
    BY <2>1, <2>2, <2>3, <2>4, <2>5 DEF Typed, QuietTypes, Quiet, RefsGo
<1>3. NoTwice'
  BY DEF MessengerInv, Quiet, NoTwice
<1>4. RefsOK'
  <2>1. Typed /\ RefsOK
    BY DEF MessengerInv
  <2>2. own' = [own EXCEPT ![t] = Owned(l, s, c)]
    BY <2>1, OwnStep DEF Quiet
  <2>10. PICK a : a = Owned(l, s, c)
    OBVIOUS
  <2>3. refs \in [Sockets -> Int] /\ conSocket \in [Sockets -> Sockets \cup {None}]
    BY <2>1 DEF Typed
  <2>4. PICK d \in Sockets : TRUE
    BY OneSocket
  <2>5. PICK b : b = conSocket[d]
    OBVIOUS
  <2>9. conSocket' = [conSocket EXCEPT ![d] = b]
    BY <2>3, <2>5 DEF Quiet
  <2>7. \A x \in Sockets : Created(x)' = Created(x)
    BY DEF Quiet, QuietLists, Created
  <2>8. ASSUME NEW x \in Sockets
        PROVE  refs'[x] = refs[x] + Created(x)' - Created(x) + Is(b, x) - Is(conSocket[d], x)
                           + Is(a, x) - Is(own[t], x)
    <3>1. Created(x)' = Created(x) /\ Created(x) \in Int /\ Is(b, x) \in Int
          /\ Is(a, x) \in Int /\ Is(own[t], x) \in Int /\ refs[x] \in Int
      BY <2>3, <2>7 DEF Created, Is
    <3>2. refs'[x] = refs[x] + Is(a, x) - Is(own[t], x)
      BY <2>10 DEF Quiet, RefsGo
    <3> QED
      BY <2>5, <3>1, <3>2
  <2>11. RefsMove(t, a, d, b)
    BY <2>2, <2>10, <2>8, <2>9 DEF RefsMove
  <2> QED
    BY <2>1, <2>4, <2>11, RefsStep
<1> QED
  BY <1>1, <1>2, <1>3, <1>4, QuietLife, QuietConn, QuietThr DEF MessengerInv

-----------------------------------------------------------------------------
(* Calls                                                                   *)

\* A caller is a thread of the application, or a reader with a session.
LEMMA CallMove ==
    ASSUME MessengerInv, NEW t \in Threads,
           where[t] \in CallLabels \cup {"idle", "callback"} \/ t \in Apps,
           NEW l, l \in CallLabels \/ l = Return(t) \/ (t \in Apps /\ l \in AppLabels), NEW s
    PROVE  IsAt(t, l) /\ QuietMove(t, l, s)
<1> PICK k : k = where[t]
  OBVIOUS
<1>1. (k \in CallLabels \cup {"idle", "callback"} \/ t \in Apps) /\ IsAt(t, k)
  BY DEF MessengerInv, Locked
<1>2. CASE t \in Apps
  <2>1. l \in AppLabels
    BY <1>2 DEF Return, AppLabels
  <2>2. t # Reaper /\ \A x \in Sockets : t # R(x) /\ t # W(x)
    BY <1>2, ThreadNames
  <2> QED
    BY <2>1, <2>2 DEF IsAt, QuietMove
<1>3. ASSUME NEW x \in Sockets, t = R(x) PROVE IsAt(t, l) /\ QuietMove(t, l, s)
  <2>1. t \notin Apps /\ t # Reaper /\ \A y \in Sockets : t # W(y) /\ (t = R(y) => y = x)
    BY <1>3, ThreadNames
  <2>2. l \in CallLabels \cup {"dispatched"} /\ k \in CallLabels \cup {"callback"}
    BY <1>1, <1>3, <2>1 DEF Return, IsAt, ReaderLabels, CallLabels, Accepts, Ended, Unlists
  <2>3. IsAlive(x, st[x], k, where[W(x)])
    BY <1>3 DEF MessengerInv, Life
  <2>4. st[x] # "accepting"
    BY <2>2, <2>3 DEF IsAlive, Accepts, CallLabels
  <2>5. ReaderGoes(x, st[x], k, l, s)
    BY <2>2, <2>4 DEF ReaderGoes, BusyR, CallLabels
  <2>6. IsAt(t, l)
    BY <1>3, <2>1, <2>2 DEF IsAt, ReaderLabels
  <2> QED
    BY <1>3, <2>1, <2>5, <2>6 DEF QuietMove
<1>4. t # Reaper
  BY <1>1, ThreadNames DEF IsAt, ReaperLabels, CallLabels
<1>5. ASSUME NEW x \in Sockets PROVE t # W(x)
  BY <1>1, ThreadNames DEF IsAt, WriterLabels, CallLabels, Ended, Unlists
<1> QED
  BY <1>2, <1>3, <1>4, <1>5, ThreadNames

\* Lists and marks in a step that leaves them alone.
LEMMA ListsKept ==
    ASSUME MessengerInv, NEW t \in Threads, NEW l, NEW s, Moves(t, l), LockStep(t), MayHold(t, l),
           at' = [at EXCEPT ![t] = s], where[t] \notin Marks, l \notin Marks,
           UNCHANGED <<rank, accepting, st, undone, all>>,
           \A x \in Sockets : unsent'[x] \in {0, unsent[x]} \/ x \in all \cup {Registering},
           \A x \in Sockets : sent'[x] \in {0, sent[x]} \/ x \in all \cup {Registering}
    PROVE  QuietLists(t)
<1>1. Locked /\ Locked' /\ at \in [Threads -> Sockets \cup {None}]
  BY LockedStep DEF MessengerInv, Typed
<1>2. MarksSame
  <2>1. ASSUME NEW u \in Threads, u # t PROVE where'[u] = where[u] /\ at'[u] = at[u]
    BY <1>1, <2>1, WhereIs DEF Moves
  <2>2. where'[t] = l
    BY WhereIs DEF Moves
  <2> QED
    BY <1>1, <2>1, <2>2, MarksStep
<1>3. ASSUME NEW x \in Sockets, x \notin all, x # Registering PROVE unsent'[x] = 0 /\ sent'[x] = 0
  <2>1. Life(x)
    BY DEF MessengerInv
  <2>2. unsent[x] = 0 /\ sent[x] = 0
    BY <1>3, <2>1 DEF Life, IsListed
  <2> QED
    BY <1>3, <2>2
<1> QED
  BY <1>2, <1>3 DEF QuietLists, MarksSame

\* A step of a caller to l, at s, with connection c.
Calls(t, l, s, c) ==
    /\ Moves(t, l) /\ LockStep(t)
    /\ (l \in HasM => mlock' = t) /\ (mlock' = t => l \in HasM \cup MayM)
    /\ at' = [at EXCEPT ![t] = s] /\ using' = [using EXCEPT ![t] = c]
    /\ s \in Sockets \cup {None} /\ c \in Sockets \cup {None}
    /\ UNCHANGED <<policy, slock, st, rank, accepting, all, con, conSocket, failed, running, reapq,
                   undone, dispatching, notify, sent>>
    /\ unsent' \in [Sockets -> Nat]
    /\ \A x \in Sockets : unsent'[x] = unsent[x] \/ x \in all \cup {Registering}
    /\ RefsGo(t, l, s, c) /\ IsThr(t, l, s, c)'

LEMMA CallKeeps ==
    ASSUME MessengerInv, NEW t \in Threads, NEW l, NEW s, NEW c, Calls(t, l, s, c),
           where[t] \in CallLabels \cup {"idle", "callback"} \/ t \in Apps,
           l \in CallLabels \/ l = Return(t) \/ (t \in Apps /\ l \in AppLabels),
           where[t] \notin Marks, l \notin Marks
    PROVE  MessengerInv'
<1>1. IsAt(t, l) /\ QuietMove(t, l, s)
  BY CallMove
<1>2. MayHold(t, l)
  BY <1>1 DEF MayHold, Calls
<1>3. QuietLists(t)
  BY <1>2, ListsKept DEF Calls
<1>4. Typed
  BY DEF MessengerInv
<1>5. QuietTypes
  BY <1>4 DEF Typed, QuietTypes, Calls
<1>6. Quiet(t, l, s, c)
  BY <1>1, <1>2, <1>3, <1>5 DEF Quiet, Calls
<1> QED
  BY <1>6, QuietKeeps

\* What is known of a thread that takes a step.
LEMMA Actor ==
    ASSUME MessengerInv, NEW t \in Threads
    PROVE  /\ Typed /\ Locked /\ IsPc(pc) /\ where[t] = Plain(pc[t])
           /\ at[t] \in Sockets \cup {None} /\ using[t] \in Sockets \cup {None}
           /\ IsThr(t, where[t], at[t], using[t])
           /\ own[t] = Owned(where[t], at[t], using[t])
           /\ at = [at EXCEPT ![t] = at[t]] /\ using = [using EXCEPT ![t] = using[t]]
           /\ (where[t] \in HasM => mlock = t) /\ (mlock = t => where[t] \in HasM \cup MayM)
BY DEF MessengerInv, Typed, Locked, Thr, own, IsPc, where

\* The references of a step that neither takes nor gives one.
LEMMA RefsKept ==
    ASSUME Typed, NEW t, NEW l, NEW s, NEW c, own[t] = Owned(l, s, c), refs' = refs
    PROVE  RefsGo(t, l, s, c)
<1>1. \A x \in Sockets : refs[x] \in Int /\ Is(own[t], x) \in Int
  BY DEF Typed, Is
<1> QED
  BY <1>1 DEF RefsGo, Typed

\* A connection of a socket that was connected is one that callers may use.
LEMMA PublishedCon ==
    ASSUME MessengerInv, NEW s \in Sockets, st[s] \notin {"none", "accepting"}
    PROVE  con[s] \in Sockets /\ Published(con[s])
BY DEF MessengerInv, Conn, Typed, Published

LEMMA CallQuiet ==
    ASSUME MessengerInv, NEW t \in Threads, NEW op, Call(t, op)
    PROVE  MessengerInv'
<1> USE DEF locks, lists, owners, flags, queues, stops, ghosts
<1>1. Typed /\ Locked /\ IsPc(pc)
  BY Actor
<1>2. where[t] \in {"idle", "callback"} /\ mlock # t
  BY Actor DEF Call, MayCall, At, Plain, HasM, MayM
<1>3. op \in {"send to", "send on", "mark down", "mark down on", "shutdown", "wait"}
  BY MessengerAssumption DEF MessengerAssumption, Call
<1>4. PICK x \in Sockets :
          /\ st[x] \notin {"none", "accepting"}
          /\ using' = [using EXCEPT ![t] = IF op \in {"send on", "mark down on"} THEN con[x] ELSE None]
  BY DEF Call
<1>5. PICK c : c = IF op \in {"send on", "mark down on"} THEN con[x] ELSE None
  OBVIOUS
<1>6. con[x] \in Sockets /\ Published(con[x])
  BY <1>4, PublishedCon
<1>7. PICK s : s = at[t]
  OBVIOUS
<1>8. IsThr(t, op, s, c)'
  <2>1. mlock' # t /\ \A d : Published(d) => Published(d)'
    BY <1>2 DEF Call, Published
  <2>4. c = None \/ Published(c)
    BY <1>5, <1>6
  <2>2. c = None \/ Published(c)'
    BY <2>1, <2>4
  <2>3. /\ op \in {"send on", "mark down on"} => c # None
        /\ op = "mark down" => c = None
    BY <1>5, <1>6, NoneIsNone
  <2> QED
    BY <1>3, <2>1, <2>2, <2>3 DEF IsThr
<1>9. Owned(op, s, c) = own[t]
  BY <1>2, <1>3, Actor DEF Owned
<1>10. Moves(t, op)
  <2>1. Plain(op) = op
    BY <1>3 DEF Plain
  <2> QED
    <3>1. Go(t, op)
      BY DEF Call
    <3> QED
      BY <1>1, <2>1, <3>1, GoMoves
<1>11. Calls(t, op, s, c)
  <2>1. LockStep(t) /\ op \notin HasM /\ mlock' # t
    BY <1>2, <1>3 DEF Call, LockStep, HasM
  <2>2. at' = [at EXCEPT ![t] = s] /\ using' = [using EXCEPT ![t] = c]
    BY <1>4, <1>5, <1>7, Actor DEF Call
  <2>3. s \in Sockets \cup {None} /\ c \in Sockets \cup {None}
    BY <1>5, <1>6, <1>7, Actor
  <2>4. refs' = refs /\ unsent' = unsent /\ unsent \in [Sockets -> Nat]
    BY <1>1 DEF Call, Typed
  <2>5. RefsGo(t, op, s, c)
    BY <1>1, <1>9, <2>4, RefsKept
  <2> QED
    BY <1>8, <1>10, <2>1, <2>2, <2>3, <2>4, <2>5 DEF Calls, Call
<1>12. op \in CallLabels \/ (t \in Apps /\ op \in AppLabels)
  BY <1>3 DEF CallLabels, AppLabels, Call
<1>13. op \notin Marks /\ where[t] \notin Marks
  BY <1>2, <1>3 DEF Marks
<1> QED
  BY <1>2, <1>11, <1>12, <1>13, CallKeeps

\* Labels at which nothing is asked of a thread but that its connection can be used.
Special == {"send on", "mark down on", "mark down", "resolve", "lock to resolve", "lock to send", "unsent", "await",
            "lock old", "replace", "register", "lock to stop", "lock to stop all", "join threads",
            "unlist", "open", "connect"}
\* Connections stay published when no socket changes its connection or its state.
LEMMA PublishedKept ==
    ASSUME con' = con, st' = st, NEW c, c = None \/ Published(c)
    PROVE  c = None \/ Published(c)'
BY DEF Published

LEMMA ThrSimple ==
    ASSUME NEW t, NEW l, NEW s, NEW c, l \notin Special, c = None \/ Published(c)'
    PROVE  IsThr(t, l, s, c)'
BY DEF IsThr, Special

\* A step of a caller that changes nothing but who has the messenger's lock.
Unchanged ==
    UNCHANGED <<policy, slock, at, using, st, rank, accepting, all, con, conSocket, failed, refs,
                running, dispatching, notify, unsent, sent, reapq, undone>>
LEMMA PlainCall ==
    ASSUME MessengerInv, NEW t \in Threads, NEW l, Moves(t, l), LockStep(t), Unchanged,
           where[t] \in CallLabels \cup {"idle", "callback"} \/ t \in Apps,
           l \in CallLabels \/ l = Return(t) \/ (t \in Apps /\ l \in AppLabels),
           where[t] \notin Marks \cup {"lock to send", "await"},
           l \notin Marks \cup {"lock to send", "await"},
           l \in HasM => mlock' = t, mlock' = t => l \in HasM \cup MayM,
           l \notin Special \/ IsThr(t, l, at[t], using[t])'
    PROVE  MessengerInv'
<1> PICK s, c : s = at[t] /\ c = using[t]
  OBVIOUS
<1>1. /\ Typed /\ at = [at EXCEPT ![t] = s] /\ using = [using EXCEPT ![t] = c]
      /\ s \in Sockets \cup {None} /\ c \in Sockets \cup {None}
      /\ own[t] = Owned(where[t], s, c) /\ (c = None \/ Published(c))
  BY Actor DEF IsThr
<1>2. Owned(l, s, c) = own[t]
  BY <1>1 DEF Owned, Marks
<1>3. UNCHANGED <<refs, con, st, at, using, unsent>> /\ unsent \in [Sockets -> Nat]
  BY <1>1 DEF Typed, Unchanged
<1>4. RefsGo(t, l, s, c)
  BY <1>1, <1>2, <1>3, RefsKept
<1>5. IsThr(t, l, s, c)'
  <2>1. CASE l \notin Special
    BY <1>1, <1>3, <2>1, PublishedKept, ThrSimple
  <2>2. CASE IsThr(t, l, at[t], using[t])'
    BY <1>3, <2>2
  <2> QED
    BY <2>1, <2>2
<1>6. Calls(t, l, s, c)
  BY <1>1, <1>3, <1>4, <1>5 DEF Calls, Unchanged
<1>7. where[t] \notin Marks /\ l \notin Marks
  OBVIOUS
<1> QED
  BY <1>6, <1>7, CallKeeps

LEMMA LockToResolveQuiet ==
    ASSUME MessengerInv, NEW t \in Threads, LockToResolve(t)
    PROVE  MessengerInv'
<1> USE DEF locks, lists, owners, flags, queues, stops, ghosts
<1>1. IsPc(pc) /\ where[t] = "lock to resolve" /\ IsThr(t, "lock to resolve", at[t], using[t])
  BY Actor DEF LockToResolve, At, Plain
<1>2. Moves(t, "resolve")
  BY <1>1, GoMoves DEF LockToResolve, Plain
<1>3. Unchanged /\ LockStep(t) /\ mlock' = t
  BY DEF Unchanged, LockStep, LockToResolve, TakeM
<1>4. IsThr(t, "resolve", at[t], using[t])'
  BY <1>1, <1>3 DEF IsThr, Unchanged, Published
<1> QED
  BY <1>1, <1>2, <1>3, <1>4, PlainCall DEF CallLabels, Marks, HasM

LEMMA UnsentQuiet ==
    ASSUME MessengerInv, NEW t \in Threads, Unsent(t)
    PROVE  MessengerInv'
<1> USE DEF locks, lists, owners, flags, queues, stops, ghosts
<1>1. IsPc(pc) /\ where[t] = "unsent" /\ IsThr(t, "unsent", at[t], using[t])
  BY Actor DEF Unsent, At, Plain
<1>2. Unchanged
  BY DEF Unchanged, Unsent
<1>3. CASE policy.server
  <2>1. Moves(t, Return(t)) /\ LockStep(t) /\ mlock' # t
    BY <1>1, <1>3, GoMoves, ThreadNames DEF Unsent, GiveM, LockStep, Return, Plain
  <2>2. Return(t) \notin HasM \cup Special \cup Marks \cup {"lock to send", "await"}
    BY DEF Return, HasM, Special, Marks
  <2> QED
    BY <1>1, <1>2, <2>1, <2>2, PlainCall DEF CallLabels, Marks
<1>4. CASE ~policy.server /\ mlock = t
  <2>1. Moves(t, "connect") /\ mlock' = mlock
    BY <1>1, <1>4, GoMoves DEF Unsent, Plain
  <2>2. IsThr(t, "connect", at[t], using[t])'
    BY <1>1, <1>2, <1>4 DEF IsThr, Unchanged, Published, Vacant
  <2> QED
    BY <1>1, <1>2, <1>4, <2>1, <2>2, PlainCall DEF CallLabels, Marks, HasM, LockStep
<1>5. CASE ~policy.server /\ mlock # t
  <2>1. Moves(t, "lock to resolve") /\ mlock' = mlock
    BY <1>1, <1>5, GoMoves DEF Unsent, Plain
  <2>2. IsThr(t, "lock to resolve", at[t], using[t])'
    BY <1>1, <1>2, <1>5 DEF IsThr, Unchanged, Published
  <2> QED
    BY <1>1, <1>2, <1>5, <2>1, <2>2, PlainCall DEF CallLabels, Marks, HasM, LockStep
<1> QED
  BY <1>3, <1>4, <1>5

LEMMA ShutdownQuiet ==
    ASSUME MessengerInv, NEW t \in Threads, Shutdown(t)
    PROVE  MessengerInv'
<1> USE DEF locks, lists, owners, flags, queues, stops, ghosts
<1>1. IsPc(pc) /\ where[t] = "shutdown"
  BY Actor DEF Shutdown, At, Plain
<1>2. Unchanged /\ LockStep(t) /\ mlock' = t
  BY DEF Unchanged, Shutdown, TakeM, LockStep
<1>3. Moves(t, "mark all")
  BY <1>1, GoMoves DEF Shutdown, Plain
<1> QED
  BY <1>1, <1>2, <1>3, PlainCall DEF CallLabels, Marks, HasM, Special

LEMMA StopQuiet ==
    ASSUME MessengerInv, NEW t \in Threads, Stop(t)
    PROVE  MessengerInv'
<1> USE DEF locks, lists, owners, flags, queues, stops, ghosts
<1>1. IsPc(pc) /\ where[t] = "stop" /\ pc[t] = "stop"
  BY Actor DEF Stop, At, Plain
<1>2. Unchanged /\ LockStep(t) /\ mlock' = mlock /\ mlock = Nobody
  BY DEF Unchanged, Stop, PassM, LockStep
<1>3. Moves(t, Return(t))
  <2>1. Plain(Return(t)) = Return(t)
    BY DEF Plain, Return
  <2>2. ASSUME NEW u \in Threads, pc[u] = "wait asleep",
               pc' = [pc EXCEPT ![t] = Return(t), ![u] = "wait awake"]
        PROVE  Moves(t, Return(t))
    <3>1. u # t
      BY <1>1, <2>2
    <3>2. IsPc(pc') /\ \A v \in Threads : pc'[v] = IF v = t THEN Return(t) ELSE IF v = u THEN "wait awake" ELSE pc[v]
      BY <1>1, <2>2, <3>1 DEF IsPc
    <3>3. Plain("wait awake") = Plain("wait asleep")
      BY DEF Plain
    <3>4. where' = [v \in Threads |-> Plain(pc'[v])]
      BY DEF where
    <3>5. \A v \in Threads : Plain(pc'[v]) = IF v = t THEN Return(t) ELSE where[v]
      BY <2>1, <2>2, <3>1, <3>2, <3>3, WhereIs
    <3> QED
      BY <3>2, <3>4, <3>5 DEF Moves, where
  <2> QED
    BY <1>1, <2>1, <2>2, GoMoves DEF Stop
<1>4. Return(t) \notin HasM \cup Special \cup Marks \cup {"lock to send", "await"}
  BY DEF Return, HasM, Special, Marks
<1>5. mlock' # t
  BY <1>2, ThreadNames
<1> QED
  BY <1>1, <1>2, <1>3, <1>4, <1>5, PlainCall DEF CallLabels, Marks

LEMMA WaitQuiet ==
    ASSUME MessengerInv, NEW t \in Apps, Wait(t)
    PROVE  MessengerInv'
<1> USE DEF locks, lists, owners, flags, queues, stops, ghosts
<1>0. t \in Threads
  BY ThreadNames
<1>1. IsPc(pc) /\ where[t] = "wait"
  BY <1>0, Actor DEF Wait, Plain
<1>2. Unchanged /\ LockStep(t) /\ mlock' # t
  BY <1>0, ThreadNames DEF Unchanged, Wait, PassM, LockStep
<1>3. Moves(t, "end dispatching") \/ Moves(t, "wait")
  BY <1>0, <1>1, GoMoves DEF Wait, Plain
<1>4. CASE Moves(t, "wait")
  <2>1. "wait" \in AppLabels /\ "wait" \notin Special \cup Marks \cup HasM \cup {"lock to send", "await"}
    BY DEF AppLabels, Special, Marks, HasM
  <2> QED
    BY <1>0, <1>1, <1>2, <1>4, <2>1, PlainCall
<1>5. CASE Moves(t, "end dispatching")
  <2>1. {"wait", "end dispatching"} \cap (Special \cup Marks \cup HasM \cup {"lock to send", "await"}) = {}
        /\ "end dispatching" \in AppLabels
    BY DEF AppLabels, Special, Marks, HasM
  <2> QED
    BY <1>0, <1>1, <1>2, <1>5, <2>1, PlainCall
<1> QED
  BY <1>3, <1>4, <1>5

LEMMA EndDispatchingQuiet ==
    ASSUME MessengerInv, NEW t \in Apps, EndDispatching(t)
    PROVE  MessengerInv'
<1> USE DEF locks, lists, owners, flags, queues, stops, ghosts
<1>0. t \in Threads
  BY ThreadNames
<1>1. IsPc(pc) /\ where[t] = "end dispatching" /\ mlock # t
  BY <1>0, Actor DEF EndDispatching, At, Plain, HasM, MayM
<1>2. Unchanged /\ LockStep(t) /\ mlock' # t
  BY <1>1 DEF Unchanged, EndDispatching, LockStep
<1>3. Moves(t, "end reaper")
  BY <1>0, <1>1, GoMoves DEF EndDispatching, Plain
<1>4. /\ {"end dispatching", "end reaper"} \cap (Special \cup Marks \cup HasM \cup {"lock to send", "await"}) = {}
      /\ "end reaper" \in AppLabels
  BY DEF AppLabels, Special, Marks, HasM
<1> QED
  BY <1>0, <1>1, <1>2, <1>3, <1>4, PlainCall

LEMMA EndReaperQuiet ==
    ASSUME MessengerInv, NEW t \in Apps, EndReaper(t)
    PROVE  MessengerInv'
<1> USE DEF locks, lists, owners, flags, queues, stops, ghosts
<1>0. t \in Threads /\ t # Reaper
  BY ThreadNames
<1>1. IsPc(pc) /\ where[t] = "end reaper"
  BY <1>0, Actor DEF EndReaper, At, Plain
<1>2. Unchanged /\ LockStep(t) /\ mlock' = t
  BY DEF Unchanged, EndReaper, TakeM, LockStep
<1>3. Moves(t, "join reaper")
  <2>1. pc' = [pc EXCEPT ![t] = "join reaper", ![Reaper] = IF @ = "reaper asleep" THEN "reaper" ELSE @]
    BY DEF EndReaper
  <2>2. IsPc(pc') /\ \A v \in Threads : pc'[v] = IF v = t THEN "join reaper"
                                                 ELSE IF v = Reaper /\ pc[v] = "reaper asleep" THEN "reaper"
                                                 ELSE pc[v]
    BY <1>0, <1>1, <2>1 DEF IsPc
  <2>3. where' = [v \in Threads |-> Plain(pc'[v])]
    BY DEF where
  <2>4. Plain("reaper asleep") = Plain("reaper") /\ Plain("join reaper") = "join reaper"
    BY DEF Plain
  <2>5. \A v \in Threads : Plain(pc'[v]) = IF v = t THEN "join reaper" ELSE where[v]
    BY <2>2, <2>4, WhereIs
  <2> QED
    BY <2>2, <2>3, <2>5 DEF Moves, where
<1>4. /\ {"join reaper", "end reaper"} \cap (Special \cup Marks \cup {"lock to send", "await"}) = {}
      /\ "join reaper" \in AppLabels /\ "join reaper" \in HasM
  BY DEF AppLabels, Special, Marks, HasM
<1> QED
  BY <1>0, <1>1, <1>2, <1>3, <1>4, PlainCall

LEMMA SendToQuiet ==
    ASSUME MessengerInv, NEW t \in Threads, SendTo(t)
    PROVE  MessengerInv'
<1> USE DEF locks, lists, owners, flags, queues, stops, ghosts
<1>1. Typed /\ IsPc(pc) /\ where[t] = "send to"
  BY Actor DEF SendTo, At, Plain
<1>2. PICK l, s, c : /\ l = (IF lookup_socket = None THEN "unsent" ELSE "resolve") /\ s = at[t]
                     /\ c = IF lookup_socket = None THEN None ELSE con[lookup_socket]
  OBVIOUS
<1>3. Moves(t, l)
  BY <1>1, <1>2, GoMoves DEF SendTo, Plain
<1>4. LockStep(t) /\ mlock' = t
  BY DEF SendTo, TakeM, LockStep
<1>5. lookup_socket # None =>
          /\ lookup_socket = rank /\ rank \in Sockets /\ st[rank] \notin {"none", "accepting"}
  <2>1. lookup_socket # None => lookup_socket = rank /\ rank \in Sockets
    BY <1>1 DEF Typed, lookup_socket
  <2>2. ASSUME rank \in Sockets PROVE st[rank] \notin {"none", "accepting"}
    BY <2>2 DEF MessengerInv, Life, IsListed
  <2> QED
    BY <2>1, <2>2
<1>6. lookup_socket # None => con[rank] \in Sockets /\ Published(con[rank])
  BY <1>5, PublishedCon
<1>7. c = None \/ (c \in Sockets /\ Published(c))
  BY <1>2, <1>5, <1>6
<1>8. IsThr(t, l, s, c)'
  <2>1. con' = con /\ st' = st /\ rank' = rank /\ undone' = undone
    BY DEF SendTo
  <2>2. c = None \/ Published(c)'
    BY <1>7, <2>1, PublishedKept
  <2>3. l = "resolve" => c # None
    BY <1>2, <1>5, <1>6, NoneIsNone
  <2>4. l = "unsent" => Vacant'
    BY <1>2, <2>1 DEF Vacant, lookup_socket
  <2> QED
    BY <1>2, <1>4, <2>2, <2>3, <2>4 DEF IsThr
<1>9. Calls(t, l, s, c)
  <2>1. at' = [at EXCEPT ![t] = s] /\ using' = [using EXCEPT ![t] = c] /\ s \in Sockets \cup {None}
    BY <1>2, Actor DEF SendTo
  <2>2. Owned(l, s, c) = own[t]
    BY <1>1, <1>2, Actor DEF Owned
  <2>3. refs' = refs /\ unsent' = unsent /\ unsent \in [Sockets -> Nat]
    BY <1>1 DEF SendTo, Typed
  <2>4. RefsGo(t, l, s, c)
    BY <1>1, <2>2, <2>3, RefsKept
  <2>5. mlock' = t => l \in HasM \cup MayM
    BY <1>2 DEF HasM, MayM
  <2> QED
    BY <1>3, <1>4, <1>7, <1>8, <2>1, <2>3, <2>4, <2>5 DEF Calls, SendTo
<1>10. where[t] \in CallLabels /\ l \in CallLabels /\ where[t] \notin Marks /\ l \notin Marks
  BY <1>1, <1>2 DEF CallLabels, Marks
<1> QED
  BY <1>9, <1>10, CallKeeps

\* Only the application waits.
LEMMA WaitersAreApps ==
    ASSUME MessengerInv, NEW t \in Threads,
           where[t] \in {"wait", "end dispatching", "end reaper", "join reaper"}
    PROVE  t \in Apps
<1>1. IsAt(t, where[t])
  BY DEF MessengerInv, Locked
<1> QED
  BY <1>1, ThreadNames DEF IsAt, ReaderLabels, WriterLabels, ReaperLabels, CallLabels, Accepts, Ended,
                           Unlists

\* A session that lives is the registered one, for who has the messenger's lock.
LEMMA UpIsRank ==
    ASSUME MessengerInv, NEW t \in Threads, mlock = t, where[t] \notin Marks \cup {"open"},
           NEW x \in Sockets, IsUp(x)
    PROVE  rank = x
<1>1. CASE st[x] \in Live /\ x \notin undone
  <2>1. x \in undone \cup {rank, Registering, Stopping}
    BY <1>1 DEF MessengerInv, Life, IsListed
  <2>2. Registering = None /\ Stopping = None
    BY DEF Registering, Stopping, Marks
  <2> QED
    BY <1>1, <2>1, <2>2, NoneIsNone
<1>2. CASE st[x] = "accepting" /\ where[R(x)] = "open"
  <2>1. mlock = R(x)
    BY <1>2, ThreadNames DEF MessengerInv, Locked, HasM
  <2> QED
    BY <1>2, <2>1
<1> QED
  BY <1>1, <1>2 DEF IsUp

LEMMA RefsTaken ==
    ASSUME Typed, NEW t, NEW l, NEW s \in Sockets, NEW c, own[t] = None, Owned(l, s, c) = s, Get(s)
    PROVE  RefsGo(t, l, s, c)
<1>1. refs \in [Sockets -> Int] /\ refs' = [refs EXCEPT ![s] = @ + 1]
  BY DEF Typed, Get
<1>2. \A x \in Sockets : refs'[x] = refs[x] + Is(s, x) - Is(None, x)
  BY <1>1, NoneIsNone DEF Is
<1> QED
  BY <1>1, <1>2 DEF RefsGo

LEMMA RefsGiven ==
    ASSUME Typed, NEW t, NEW l, NEW s, NEW c, NEW x \in Sockets, own[t] = x, Owned(l, s, c) = None, Dec(x)
    PROVE  RefsGo(t, l, s, c)
<1>1. refs \in [Sockets -> Int] /\ refs' = [refs EXCEPT ![x] = @ - 1]
  BY DEF Typed, Dec
<1>2. \A y \in Sockets : refs'[y] = refs[y] + Is(None, y) - Is(x, y)
  BY <1>1, NoneIsNone DEF Is
<1> QED
  BY <1>1, <1>2 DEF RefsGo

LEMMA TryGetSocketQuiet ==
    ASSUME MessengerInv, NEW t \in Threads, TryGetSocket(t)
    PROVE  MessengerInv'
<1> USE DEF locks, lists, owners, flags, queues, stops, ghosts
<1>1. Typed /\ IsPc(pc) /\ where[t] \in {"resolve", "send on"} /\ IsThr(t, where[t], at[t], using[t])
  BY Actor DEF TryGetSocket, Plain
<1>2. where[t] \in CallLabels /\ where[t] \notin Marks \cup {"lock to send", "await", "open"}
  BY <1>1 DEF CallLabels, Marks
<1>3. CASE failed[using[t]]
  <2>1. mlock' = (IF mlock = t THEN Nobody ELSE mlock) /\ Go(t, Return(t)) /\ UNCHANGED <<at, refs>>
    BY <1>3 DEF TryGetSocket, GiveM
  <2>2. LockStep(t) /\ mlock' # t
    BY <2>1, ThreadNames DEF LockStep
  <2>3. Moves(t, Return(t))
    <3>1. Plain(Return(t)) = Return(t)
      BY DEF Plain, Return
    <3> QED
      BY <1>1, <2>1, <3>1, GoMoves
  <2>4. Return(t) \notin HasM \cup Special \cup Marks \cup {"lock to send", "await"}
    BY DEF Return, HasM, Special, Marks
  <2>5. Unchanged
    BY <2>1 DEF Unchanged, TryGetSocket
  <2> QED
    BY <1>2, <2>2, <2>3, <2>4, <2>5, PlainCall
<1>4. CASE ~failed[using[t]]
  <2>1. PICK c, s : c = using[t] /\ s = conSocket[c]
    OBVIOUS
  <2>2. c \in Sockets /\ Published(c)
    BY <1>1, <2>1, Actor DEF IsThr
  <2>3. s \in Sockets /\ IsUp(s) /\ st[s] # "none"
    <3>1. Conn(c) /\ conSocket[c] \in Sockets \cup {None}
      BY <1>1, <2>2 DEF MessengerInv, Typed
    <3> QED
      BY <1>4, <2>1, <2>2, <3>1 DEF Conn
  <2>4. /\ at' = [at EXCEPT ![t] = s] /\ Get(s) /\ Go(t, "lock to send") /\ mlock' = mlock
        /\ UNCHANGED <<policy, slock, using, st, rank, accepting, all, con, conSocket, failed, running,
                       dispatching, notify, unsent, sent, reapq, undone>>
    BY <1>4, <2>1 DEF TryGetSocket
  <2>5. IsThr(t, "lock to send", s, c)'
    <3>1. c # None /\ s # None
      BY <2>2, <2>3, NoneIsNone
    <3>2. mlock = t => rank = s
      BY <1>2, <2>3, UpIsRank
    <3>3. c = None \/ Published(c)'
      BY <2>2, <2>4, PublishedKept
    <3> QED
      BY <2>3, <2>4, <3>1, <3>2, <3>3 DEF IsThr
  <2>6. RefsGo(t, "lock to send", s, c)
    <3>1. own[t] = None /\ Owned("lock to send", s, c) = s
      BY <1>2, Actor DEF Owned, Marks
    <3> QED
      BY <1>1, <2>3, <2>4, <3>1, RefsTaken
  <2>7. Moves(t, "lock to send")
    BY <1>1, <2>4, GoMoves DEF Plain
  <2>8. using' = [using EXCEPT ![t] = c] /\ unsent \in [Sockets -> Nat]
    BY <1>1, <2>1, <2>4, Actor DEF Typed
  <2>9. LockStep(t) /\ "lock to send" \in MayM /\ "lock to send" \notin HasM
    BY <2>4 DEF LockStep, MayM, HasM
  <2>10. Calls(t, "lock to send", s, c)
    BY <2>2, <2>3, <2>4, <2>5, <2>6, <2>7, <2>8, <2>9 DEF Calls
  <2>11. "lock to send" \in CallLabels \ Marks
    BY DEF CallLabels, Marks
  <2> QED
    BY <1>2, <2>10, <2>11, CallKeeps
<1> QED
  BY <1>3, <1>4

LEMMA SubmitQuiet ==
    ASSUME MessengerInv, NEW t \in Threads, Submit(t)
    PROVE  MessengerInv'
<1> USE DEF locks, lists, owners, flags, queues, stops, ghosts
<1>1. /\ Typed /\ IsPc(pc) /\ where[t] = "lock to send" /\ own[t] = at[t]
      /\ IsThr(t, "lock to send", at[t], using[t])
  BY Actor DEF Submit, At, Plain, Owned
<1>2. PICK s, c : s = at[t] /\ c = using[t]
  OBVIOUS
<1>3. s \in Sockets /\ st[s] \notin {"none", "closed"} /\ c \in Sockets /\ Published(c)
  BY <1>1, <1>2, Actor DEF IsThr, Submit
<1>4. s \in all \cup {Registering}
  <2>1. Life(s) /\ (st[s] = "accepting" \/ st[s] \in Live)
    BY <1>1, <1>3 DEF MessengerInv, Typed, Live
  <2> QED
    BY <2>1 DEF Life, IsAlive, IsListed
<1>5. mlock' = (IF mlock = t THEN Nobody ELSE mlock) /\ GoSignal(t, Return(t), s) /\ Dec(s)
  BY <1>2 DEF Submit, GiveM
<1>6. LockStep(t) /\ mlock' # t
  BY <1>5, ThreadNames DEF LockStep
<1>7. Return(t) \notin HasM \cup Special \cup Marks \cup {"lock to send", "await", "lock to stop"}
  BY DEF Return, HasM, Special, Marks
<1>8. Moves(t, Return(t))
  <2>1. Plain(Return(t)) = Return(t)
    BY DEF Plain, Return
  <2> QED
    BY <1>1, <1>5, <2>1, SignalMoves
<1>9. RefsGo(t, Return(t), s, c)
  <2>1. Owned(Return(t), s, c) = None
    BY <1>7 DEF Owned
  <2> QED
    BY <1>1, <1>2, <1>3, <1>5, <2>1, RefsGiven
<1>10. IsThr(t, Return(t), s, c)'
  <2>1. c = None \/ Published(c)'
    BY <1>3, PublishedKept DEF Submit
  <2> QED
    BY <1>7, <2>1, ThrSimple
<1>11. unsent' \in [Sockets -> Nat] /\ \A x \in Sockets : unsent'[x] = unsent[x] \/ x = s
  <2>1. unsent' = [unsent EXCEPT ![s] = @ + 1] /\ unsent \in [Sockets -> Nat]
    BY <1>1, <1>2 DEF Submit, Typed
  <2> QED
    BY <1>3, <2>1
<1>12. at' = [at EXCEPT ![t] = s] /\ using' = [using EXCEPT ![t] = c]
  BY <1>2, Actor DEF Submit
<1>13. UNCHANGED <<policy, slock, st, rank, accepting, all, con, conSocket, failed, running, reapq,
                   undone, dispatching, notify, sent>>
  BY DEF Submit, Pass
<1>14. Calls(t, Return(t), s, c)
  BY <1>3, <1>4, <1>6, <1>7, <1>8, <1>9, <1>10, <1>11, <1>12, <1>13 DEF Calls
<1> QED
  BY <1>1, <1>7, <1>14, CallKeeps DEF CallLabels, Marks

LEMMA SubmitClosedQuiet ==
    ASSUME MessengerInv, NEW t \in Threads, SubmitClosed(t)
    PROVE  MessengerInv'
<1> USE DEF locks, lists, owners, flags, queues, stops, ghosts
<1>1. /\ Typed /\ IsPc(pc) /\ where[t] = "lock to send" /\ own[t] = at[t]
      /\ IsThr(t, "lock to send", at[t], using[t])
  BY Actor DEF SubmitClosed, At, Plain, Owned
<1>2. PICK s, c : s = at[t] /\ c = using[t]
  OBVIOUS
<1>3. PICK a : a = IF failed[c] THEN None ELSE conSocket[c]
  OBVIOUS
<1>4. s \in Sockets /\ c \in Sockets /\ Published(c) /\ (mlock = t => Vacant \/ rank = s)
  BY <1>1, <1>2, Actor DEF IsThr
<1>5. /\ st[s] = "closed" /\ at' = [at EXCEPT ![t] = a]
      /\ refs' = [x \in Sockets |-> refs[x] - (IF x = s THEN 1 ELSE 0) + (IF x = a /\ x # s THEN 1 ELSE 0)]
  BY <1>2, <1>3 DEF SubmitClosed
<1>6. UNCHANGED <<policy, slock, using, st, rank, accepting, all, con, conSocket, failed, running, reapq,
                  undone, dispatching, notify, unsent, sent>>
  BY DEF SubmitClosed, Pass
<1>7. a = None \/ (a \in Sockets /\ st[a] # "none")
  <2>1. Conn(c) /\ conSocket[c] \in Sockets \cup {None}
    BY <1>1, <1>4 DEF MessengerInv, Typed
  <2>2. a \in {None, conSocket[c]}
    BY <1>3
  <2> QED
    BY <2>1, <2>2 DEF Conn
<1>8. mlock = t => Vacant'
  <2>1. mlock = t => Vacant
    BY <1>4, <1>5 DEF Vacant
  <2> QED
    BY <1>6, <2>1 DEF Vacant
<1>9. PICK l : l = IF a = s THEN Return(t) ELSE IF a = None THEN "unsent" ELSE "lock to send"
  OBVIOUS
<1>10. Moves(t, l) /\ LockStep(t) /\ (mlock' = t => mlock = t /\ l \in HasM \cup MayM) /\ l \notin HasM
  <2>1. CASE a = s
    <3>1. Go(t, l) /\ mlock' = IF mlock = t THEN Nobody ELSE mlock
      BY <1>2, <1>3, <1>9, <2>1 DEF SubmitClosed, GiveM
    <3>2. Plain(l) = l /\ l \notin HasM
      BY <1>9, <2>1 DEF Plain, Return, HasM
    <3>3. Moves(t, l)
      BY <1>1, <3>1, <3>2, GoMoves
    <3>4. LockStep(t) /\ mlock' # t
      BY <3>1, ThreadNames DEF LockStep
    <3> QED
      BY <3>2, <3>3, <3>4
  <2>2. CASE a # s
    <3>1. Go(t, l) /\ mlock' = mlock
      BY <1>2, <1>3, <1>9, <2>2 DEF SubmitClosed
    <3>2. Plain(l) = l /\ l \notin HasM /\ l \in MayM
      BY <1>9, <2>2 DEF Plain, MayM, HasM
    <3>3. Moves(t, l)
      BY <1>1, <3>1, <3>2, GoMoves
    <3> QED
      BY <3>1, <3>2, <3>3 DEF LockStep
  <2> QED
    BY <2>1, <2>2
<1>11. l \notin Special \ {"unsent", "lock to send"} /\ l \notin Marks /\ (l \in CallLabels \/ l = Return(t))
  BY <1>9 DEF Special, Marks, CallLabels, Return
<1>12. RefsGo(t, l, a, c)
  <2>1. Owned(l, a, c) = IF a = s THEN None ELSE a
    BY <1>9 DEF Owned, Return
  <2>2. \A x \in Sockets : refs'[x] = refs[x] + Is(Owned(l, a, c), x) - Is(s, x)
    <3>1. refs \in [Sockets -> Int]
      BY <1>1 DEF Typed
    <3> QED
      BY <1>5, <2>1, <3>1, NoneIsNone DEF Is
  <2>3. refs' \in [Sockets -> Int]
    <3>1. refs \in [Sockets -> Int]
      BY <1>1 DEF Typed
    <3> QED
      BY <1>5, <3>1
  <2> QED
    BY <1>1, <1>2, <2>2, <2>3 DEF RefsGo
<1>13. IsThr(t, l, a, c)'
  <2>1. c = None \/ Published(c)'
    BY <1>4, <1>6, PublishedKept
  <2>2. c # None
    BY <1>4, NoneIsNone
  <2>3. l = "lock to send" => a # None /\ st'[a] # "none"
    BY <1>6, <1>7, <1>9 DEF Return
  <2> QED
    BY <1>8, <1>10, <1>11, <2>1, <2>2, <2>3 DEF IsThr, Special
<1>14. using' = [using EXCEPT ![t] = c] /\ unsent' \in [Sockets -> Nat]
  BY <1>1, <1>2, <1>6, Actor DEF Typed
<1>15. Calls(t, l, a, c)
  BY <1>4, <1>5, <1>6, <1>7, <1>10, <1>12, <1>13, <1>14 DEF Calls
<1> QED
  BY <1>1, <1>11, <1>15, CallKeeps DEF CallLabels, Marks

\* A caller takes a socket off the lists, to mark it down.
LEMMA Unlisted ==
    ASSUME MessengerInv, NEW t \in Threads, NEW l, NEW x \in Sockets, NEW c,
           where[t] \in CallLabels, where[t] \notin Marks \cup {"lock to send", "await"},
           l \in {"lock to stop", "lock to stop all"}, x \in all, c = using[t],
           mlock \in {t, Nobody}, mlock' = t, Moves(t, l), at' = [at EXCEPT ![t] = x],
           rank' \in {rank, None}, rank = x \/ rank' = rank, accepting' \subseteq accepting,
           UNCHANGED <<policy, slock, using, st, all, con, conSocket, failed, running, reapq, undone,
                       dispatching, notify, unsent, sent>>,
           RefsGo(t, l, x, c)
    PROVE  MessengerInv'
<1>1. Typed /\ Locked
  BY Actor
<1>2. IsAt(t, l) /\ QuietMove(t, l, x)
  BY CallMove DEF CallLabels
<1>3. MayHold(t, l) /\ LockStep(t)
  BY <1>2 DEF MayHold, HasM, LockStep
<1>4. QuietLists(t)
  <2>1. Registering = None /\ Stopping = None
    BY DEF Registering, Stopping, Marks
  <2>2. where'[t] = l /\ at'[t] = x
    BY <1>1, WhereIs DEF Moves, Typed
  <2>3. Registering' = None /\ Stopping' = x
    BY <2>2, ThreadNames DEF Registering, Stopping
  <2>4. Joining' = Joining
    <3>1. t # Reaper
      <4>1. IsAt(t, where[t])
        BY <1>1 DEF Locked
      <4> QED
        BY <4>1, ThreadNames DEF IsAt, ReaperLabels, CallLabels
    <3> QED
      BY <1>1, <3>1, WhereIs, ThreadNames DEF Moves, Joining, Typed
  <2>5. ASSUME NEW y \in Sockets, y \notin all, y # Registering PROVE unsent'[y] = 0 /\ sent'[y] = 0
    <3>1. unsent[y] = 0 /\ sent[y] = 0
      BY <2>5 DEF MessengerInv, Life, IsListed
    <3> QED
      BY <3>1
  <2>6. \A y \in Sockets : y \in {rank, Stopping} => y \in {rank', Stopping'}
    BY <2>1, <2>3, NoneIsNone
  <2> QED
    BY <2>1, <2>3, <2>4, <2>5, <2>6 DEF QuietLists
<1>5. QuietTypes
  BY <1>1 DEF Typed, QuietTypes
<1>6. IsThr(t, l, x, c)'
  <2>1. x # None /\ st[x] # "none"
    <3>1. Life(x)
      BY DEF MessengerInv
    <3> QED
      BY <3>1, NoneIsNone DEF Life, IsAlive
  <2>2. c = None \/ Published(c)'
    <3>1. c = None \/ Published(c)
      BY Actor DEF IsThr
    <3> QED
      BY <3>1, PublishedKept
  <2> QED
    BY <2>1, <2>2 DEF IsThr
<1>7. Quiet(t, l, x, c)
  <2>1. using' = [using EXCEPT ![t] = c] /\ c \in Sockets \cup {None}
    BY Actor
  <2> QED
    BY <1>2, <1>3, <1>4, <1>5, <1>6, <2>1 DEF Quiet
<1> QED
  BY <1>7, QuietKeeps

LEMMA Unregister ==
    ASSUME Typed, NEW x \in Sockets, unregister_socket(x)
    PROVE  /\ rank' \in {rank, None} /\ (rank = x \/ rank' = rank) /\ accepting' \subseteq accepting
           /\ rank' # x
BY NoneIsNone DEF unregister_socket

LEMMA MarkDownQuiet ==
    ASSUME MessengerInv, NEW t \in Threads, MarkDown(t)
    PROVE  MessengerInv'
<1> USE DEF locks, lists, owners, flags, queues, stops, ghosts
<1>1. Typed /\ IsPc(pc) /\ where[t] = "mark down" /\ using[t] = None /\ own[t] = None
  BY Actor DEF MarkDown, At, Plain, IsThr, Owned
<1>2. where[t] \in CallLabels /\ where[t] \notin Marks \cup {"lock to send", "await"}
  BY <1>1 DEF CallLabels, Marks
<1>3. CASE lookup_socket = None
  <2>1. Unchanged /\ mlock = Nobody /\ mlock' = mlock /\ Go(t, Return(t))
    BY <1>3 DEF Unchanged, MarkDown, PassM
  <2>2. LockStep(t) /\ mlock' # t
    BY <2>1, ThreadNames DEF LockStep
  <2>3. Return(t) \notin HasM \cup Special \cup Marks \cup {"lock to send", "await"} /\ Plain(Return(t)) = Return(t)
    BY DEF Return, HasM, Special, Marks, Plain
  <2>4. Moves(t, Return(t))
    BY <1>1, <2>1, <2>3, GoMoves
  <2> QED
    BY <1>2, <2>1, <2>2, <2>3, <2>4, PlainCall
<1>4. CASE lookup_socket # None
  <2>1. PICK x : x = rank
    OBVIOUS
  <2>2. x \in Sockets
    BY <1>1, <1>4, <2>1 DEF lookup_socket, Typed
  <2>3. x \in all
    <3>1. Life(x)
      BY <2>2 DEF MessengerInv
    <3> QED
      BY <2>1, <3>1 DEF Life, IsListed
  <2>4. /\ mlock = Nobody /\ mlock' = t /\ at' = [at EXCEPT ![t] = x] /\ unregister_socket(x)
        /\ Go(t, "lock to stop") /\ refs' = refs
    BY <1>4, <2>1 DEF MarkDown, TakeM
  <2>5. UNCHANGED <<policy, slock, using, st, all, con, conSocket, failed, running, reapq, undone,
                    dispatching, notify, unsent, sent>>
    BY DEF MarkDown
  <2>6. Moves(t, "lock to stop")
    BY <1>1, <2>4, GoMoves DEF Plain
  <2>7. RefsGo(t, "lock to stop", x, None)
    <3>1. Owned("lock to stop", x, None) = None
      BY DEF Owned
    <3> QED
      BY <1>1, <2>4, <3>1, RefsKept
  <2>8. rank' \in {rank, None} /\ (rank = x \/ rank' = rank) /\ accepting' \subseteq accepting
    BY <1>1, <2>2, <2>4, Unregister
  <2>9. mlock \in {t, Nobody} /\ mlock' = t /\ at' = [at EXCEPT ![t] = x] /\ None = using[t]
    BY <1>1, <2>4
  <2> QED
    BY <1>2, <2>2, <2>3, <2>5, <2>6, <2>7, <2>8, <2>9, Unlisted
<1> QED
  BY <1>3, <1>4

LEMMA MarkDownOnQuiet ==
    ASSUME MessengerInv, NEW t \in Threads, MarkDownOn(t)
    PROVE  MessengerInv'
<1> USE DEF locks, lists, owners, flags, queues, stops, ghosts
<1>1. /\ Typed /\ IsPc(pc) /\ where[t] = "mark down on" /\ own[t] = None
      /\ IsThr(t, "mark down on", at[t], using[t]) /\ mlock # t
  BY Actor DEF MarkDownOn, At, Plain, Owned, HasM, MayM
<1>2. where[t] \in CallLabels /\ where[t] \notin Marks \cup {"lock to send", "await"}
  BY <1>1 DEF CallLabels, Marks
<1>3. PICK c, x : c = using[t] /\ x = conSocket[c]
  OBVIOUS
<1>4. c \in Sockets /\ Published(c) /\ x \in Sockets \cup {None}
  BY <1>1, <1>3, Actor DEF IsThr, Typed
<1>5. CASE x = None
  <2>1. Unchanged /\ mlock = Nobody /\ mlock' = mlock /\ Go(t, Return(t))
    BY <1>3, <1>5 DEF Unchanged, MarkDownOn, PassM
  <2>2. LockStep(t) /\ mlock' # t
    BY <2>1, ThreadNames DEF LockStep
  <2>3. Return(t) \notin HasM \cup Special \cup Marks \cup {"lock to send", "await"} /\ Plain(Return(t)) = Return(t)
    BY DEF Return, HasM, Special, Marks, Plain
  <2>4. Moves(t, Return(t))
    BY <1>1, <2>1, <2>3, GoMoves
  <2> QED
    BY <1>2, <2>1, <2>2, <2>3, <2>4, PlainCall
<1>6. CASE x # None
  <2>1. x \in Sockets /\ IsUp(x)
    BY <1>3, <1>4, <1>6 DEF MessengerInv, Conn
  <2>2. mlock = Nobody /\ mlock' = t /\ at' = [at EXCEPT ![t] = x] /\ unregister_socket(x)
        /\ Go(t, "lock to stop") /\ Get(x)
    BY <1>3, <1>6 DEF MarkDownOn, TakeM
  <2>3. x \in all
    <3>1. Life(x) /\ Locked
      BY <2>1 DEF MessengerInv
    <3>2. Registering = None
      BY <2>2 DEF Registering
    <3>3. CASE st[x] \in Live
      BY <2>1, <3>1, <3>2, <3>3, NoneIsNone DEF Life, IsAlive, IsListed
    <3>4. CASE st[x] = "accepting"
      BY <3>1, <3>4 DEF Life, IsAlive
    <3> QED
      BY <2>1, <3>3, <3>4 DEF IsUp
  <2>4. UNCHANGED <<policy, slock, using, st, all, con, conSocket, failed, running, reapq, undone,
                    dispatching, notify, unsent, sent>>
    BY <1>6, <1>3 DEF MarkDownOn
  <2>5. Moves(t, "lock to stop")
    BY <1>1, <2>2, GoMoves DEF Plain
  <2>6. RefsGo(t, "lock to stop", x, c)
    <3>1. Owned("lock to stop", x, c) = x
      BY <1>4, NoneIsNone DEF Owned
    <3> QED
      BY <1>1, <2>1, <2>2, <3>1, RefsTaken
  <2>7. rank' \in {rank, None} /\ (rank = x \/ rank' = rank) /\ accepting' \subseteq accepting
    BY <1>1, <2>1, <2>2, Unregister
  <2>8. mlock \in {t, Nobody} /\ mlock' = t /\ at' = [at EXCEPT ![t] = x]
    BY <2>2
  <2> QED
    BY <1>2, <1>3, <2>1, <2>3, <2>4, <2>5, <2>6, <2>7, <2>8, Unlisted
<1> QED
  BY <1>5, <1>6

LEMMA MarkAllQuiet ==
    ASSUME MessengerInv, NEW t \in Threads, MarkAll(t)
    PROVE  MessengerInv'
<1> USE DEF locks, lists, owners, flags, queues, stops, ghosts
<1>1. Typed /\ IsPc(pc) /\ where[t] = "mark all" /\ own[t] = None /\ mlock = t
  BY Actor DEF MarkAll, At, Plain, Owned, HasM
<1>2. where[t] \in CallLabels /\ where[t] \notin Marks \cup {"lock to send", "await"}
  BY <1>1 DEF CallLabels, Marks
<1>3. UNCHANGED <<policy, slock, using, st, all, con, conSocket, failed, running, reapq, undone,
                  dispatching, notify, unsent, sent, refs>>
  BY DEF MarkAll
<1>4. ASSUME NEW x \in Sockets, x \in all, at' = [at EXCEPT ![t] = x], Go(t, "lock to stop all"),
             rank' \in {rank, None}, rank = x \/ rank' = rank, accepting' \subseteq accepting, mlock' = mlock
      PROVE  MessengerInv'
  <2>1. PICK c : c = using[t]
    OBVIOUS
  <2>2. RefsGo(t, "lock to stop all", x, c)
    <3>1. Owned("lock to stop all", x, c) = None
      BY DEF Owned
    <3> QED
      BY <1>1, <1>3, <3>1, RefsKept
  <2>3. Moves(t, "lock to stop all")
    BY <1>1, <1>4, GoMoves DEF Plain
  <2>4. mlock \in {t, Nobody} /\ mlock' = t
    BY <1>1, <1>4
  <2> QED
    BY <1>2, <1>3, <1>4, <2>1, <2>2, <2>3, <2>4, Unlisted
<1>5. CASE \E s \in accepting :
              /\ at' = [at EXCEPT ![t] = s] /\ accepting' = accepting \ {s}
              /\ Go(t, "lock to stop all") /\ UNCHANGED <<mlock, rank>>
  <2>1. PICK x \in accepting :
              /\ at' = [at EXCEPT ![t] = x] /\ accepting' = accepting \ {x}
              /\ Go(t, "lock to stop all") /\ UNCHANGED <<mlock, rank>>
    BY <1>5
  <2>2. x \in Sockets
    BY <1>1, <2>1 DEF Typed
  <2>3. x \in all
    <3>1. Life(x)
      BY <2>2 DEF MessengerInv
    <3> QED
      BY <2>1, <3>1 DEF Life, IsListed
  <2> QED
    BY <1>4, <2>1, <2>2, <2>3
<1>6. CASE /\ accepting = {} /\ rank # None
           /\ at' = [at EXCEPT ![t] = rank] /\ rank' = None
           /\ Go(t, "lock to stop all") /\ UNCHANGED <<mlock, accepting>>
  <2>1. PICK x : x = rank
    OBVIOUS
  <2>2. x \in Sockets
    BY <1>1, <1>6, <2>1 DEF Typed
  <2>3. x \in all
    <3>1. Life(x)
      BY <2>2 DEF MessengerInv
    <3> QED
      BY <2>1, <3>1 DEF Life, IsListed
  <2> QED
    BY <1>4, <1>6, <2>1, <2>2, <2>3
<1>7. CASE GiveM(t) /\ Go(t, "stop") /\ UNCHANGED <<at, rank, accepting>>
  <2>1. Unchanged /\ mlock' = Nobody
    BY <1>1, <1>3, <1>7 DEF Unchanged, GiveM
  <2>2. LockStep(t) /\ mlock' # t
    BY <1>1, <2>1, ThreadNames DEF LockStep
  <2>3. Moves(t, "stop")
    BY <1>1, <1>7, GoMoves DEF Plain
  <2>4. "stop" \notin HasM \cup Special \cup Marks \cup {"lock to send", "await"} /\ "stop" \in CallLabels
    BY DEF HasM, Special, Marks, CallLabels
  <2> QED
    BY <1>2, <2>1, <2>2, <2>3, <2>4, PlainCall
<1> QED
  BY <1>5, <1>6, <1>7 DEF MarkAll

-----------------------------------------------------------------------------
(* Readers, writers and the reaper                                         *)

\* What is known of the threads of a socket.
LEMMA Session ==
    ASSUME MessengerInv, NEW x \in Sockets
    PROVE  /\ R(x) \in Threads /\ W(x) \in Threads /\ R(x) # W(x) /\ Life(x) /\ at[W(x)] = x
           /\ where[R(x)] \in Ended \cup Unlists \cup {"start", "loop", "read", "handshake"} => at[R(x)] = x
           /\ where[R(x)] \in ReaderLabels /\ where[W(x)] \in WriterLabels
<1>1. Life(x) /\ Locked
  BY DEF MessengerInv
<1>2. R(x) \in Threads /\ W(x) \in Threads /\ R(x) # W(x)
  BY ThreadNames
<1>3. IsAt(R(x), where[R(x)]) /\ IsAt(W(x), where[W(x)])
  BY <1>1, <1>2 DEF Locked
<1> QED
  BY <1>1, <1>2, <1>3 DEF Life, IsAlive, IsAt

\* A reader goes where readers go, a writer where writers go.
LEMMA SessionAt ==
    ASSUME NEW x \in Sockets, NEW l
    PROVE  (l \in ReaderLabels => IsAt(R(x), l)) /\ (l \in WriterLabels => IsAt(W(x), l))
BY ThreadNames DEF IsAt

\* The lock of a socket is taken or given back by a thread that is no acceptor.
AcceptorsKeep == \A y \in Sockets : where[R(y)] \in Accepts => slock'[y] = slock[y]
LEMMA SlockStep ==
    ASSUME MessengerInv, NEW x \in Sockets, NEW t \in Threads, NEW u \in Threads \cup {Nobody},
           slock' = [slock EXCEPT ![x] = u], slock[x] \in {t, Nobody}, t = R(x) => where[t] \notin Accepts
    PROVE  slock' \in [Sockets -> Threads \cup {Nobody}] /\ AcceptorsKeep
<1>1. slock \in [Sockets -> Threads \cup {Nobody}]
  BY DEF MessengerInv, Typed
<1>2. where[R(x)] \notin Accepts
  <2>1. where[R(x)] \in Accepts => slock[x] = R(x)
    BY Session DEF Life, IsAlive
  <2> QED
    BY <2>1, ThreadNames
<1> QED
  BY <1>1, <1>2 DEF AcceptorsKeep

\* A reader or a writer of x does something with its session and goes to l.
SessionGoes(t, x, l, s) ==
    /\ Moves(t, l) /\ mlock' = mlock /\ at' = [at EXCEPT ![t] = s]
    /\ UNCHANGED <<policy, using, st, rank, accepting, all, con, conSocket, failed, refs, running,
                   reapq, undone>>
    /\ (t = R(x) => ReaderGoes(x, st[x], where[t], l, s))
    /\ (t = W(x) => WriterGoes(x, where[t], l) /\ s = x)
    /\ QuietTypes /\ AcceptorsKeep
    /\ \A y \in Sockets : unsent'[y] \in {0, unsent[y]} \/ y \in all \cup {Registering}
    /\ \A y \in Sockets : sent'[y] \in {0, sent[y]} \/ y \in all \cup {Registering}
LEMMA SessionKeeps ==
    ASSUME MessengerInv, NEW x \in Sockets, NEW t \in {R(x), W(x)}, NEW l, NEW s \in Sockets,
           SessionGoes(t, x, l, s), t = R(x) => l \in ReaderLabels, t = W(x) => l \in WriterLabels,
           where[t] \notin HasM \cup MayM, l \notin HasM \cup MayM \cup Special
    PROVE  MessengerInv'
<1> PICK c : c = using[t]
  OBVIOUS
<1>0. t \in Threads
  BY Session
<1>1. Typed /\ mlock # t /\ (c = None \/ Published(c)) /\ c \in Sockets \cup {None}
      /\ using = [using EXCEPT ![t] = c] /\ own[t] = Owned(where[t], at[t], using[t])
  BY <1>0, Actor DEF IsThr
<1>2. IsAt(t, l)
  BY SessionAt
<1>3. LockStep(t) /\ MayHold(t, l)
  BY <1>1, <1>2 DEF LockStep, MayHold, SessionGoes
<1>4. QuietMove(t, l, s)
  <2>1. \A y \in Sockets : (t = R(y) => t = R(x) /\ y = x) /\ (t = W(y) => t = W(x) /\ y = x)
    BY ThreadNames
  <2> QED
    BY <2>1 DEF QuietMove, SessionGoes
<1>5. QuietLists(t)
  <2>1. where[t] \notin Marks /\ l \notin Marks
    <3>1. where[t] # "join threads" /\ l # "join threads"
      <4>1. IsAt(t, where[t])
        BY <1>0 DEF MessengerInv, Locked
      <4> QED
        BY <1>2, <4>1 DEF IsAt, ReaderLabels, WriterLabels, CallLabels, Accepts, Ended, Unlists
    <3> QED
      BY <3>1 DEF Marks, HasM
  <2> QED
    BY <1>0, <1>3, <2>1, ListsKept DEF SessionGoes
<1>6. RefsGo(t, l, s, c)
  <2>1. own[t] = None /\ Owned(l, s, c) = None
    BY <1>1 DEF Owned, HasM, MayM
  <2> QED
    BY <1>1, <2>1, RefsKept DEF SessionGoes
<1>7. IsThr(t, l, s, c)'
  <2>1. c = None \/ Published(c)'
    BY <1>1, PublishedKept DEF SessionGoes
  <2> QED
    BY <2>1, ThrSimple
<1>8. Quiet(t, l, s, c)
  <2>1. using' = [using EXCEPT ![t] = c]
    BY <1>1 DEF SessionGoes
  <2> QED
    BY <1>1, <1>3, <1>4, <1>5, <1>6, <1>7, <2>1 DEF Quiet, SessionGoes, AcceptorsKeep
<1> QED
  BY <1>0, <1>8, QuietKeeps

LEMMA ReaderLoopQuiet ==
    ASSUME MessengerInv, NEW x \in Sockets, ReaderLoop(x), running' = running
    PROVE  MessengerInv'
<1> USE DEF locks, lists, owners, flags, queues, stops, ghosts
<1> PICK t : t = R(x)
  OBVIOUS
<1>1. /\ Typed /\ IsPc(pc) /\ t \in Threads /\ t # W(x) /\ at[t] = x /\ where[t] \in {"start", "loop"}
      /\ st[x] # "accepting" /\ at = [at EXCEPT ![t] = at[t]]
  BY Actor, Session DEF ReaderLoop, Plain
<1>2. slock[x] \in {t, Nobody} /\ slock' = [slock EXCEPT ![x] = Nobody]
  BY DEF ReaderLoop, Holds, Give, End
<1>3. slock' \in [Sockets -> Threads \cup {Nobody}] /\ AcceptorsKeep
  BY <1>1, <1>2, SlockStep DEF Accepts
<1>4. ~(st[x] \in {"closed", "connecting"} /\ End(R(x), W(x), x))
  <2>1. where[R(x)] \notin Ended
    BY <1>1 DEF Ended
  <2>2. R(x) \in running
    BY <2>1, Session DEF Life, IsAlive
  <2> QED
    BY <2>2 DEF End
<1>5. PICK l \in {"asleep", "read"} : Go(t, l)
  BY <1>4 DEF ReaderLoop
<1>6. Moves(t, Plain(l)) /\ Plain(l) \in {"start", "read"}
  BY <1>1, <1>5, GoMoves DEF Plain
<1>7. QuietTypes
  BY <1>1, <1>3 DEF ReaderLoop, QuietTypes, Typed
<1>8. SessionGoes(t, x, Plain(l), x)
  <2>1. ReaderGoes(x, st[x], where[t], Plain(l), x)
    BY <1>1, <1>6 DEF ReaderGoes, BusyR
  <2> QED
    BY <1>1, <1>3, <1>6, <1>7, <2>1 DEF SessionGoes, ReaderLoop
<1>9. /\ where[t] \notin HasM \cup MayM /\ Plain(l) \notin HasM \cup MayM \cup Special
      /\ Plain(l) \in ReaderLabels
  BY <1>1, <1>6 DEF HasM, MayM, Special, ReaderLabels
<1> QED
  BY <1>1, <1>8, <1>9, SessionKeeps

LEMMA ReadMessageQuiet ==
    ASSUME MessengerInv, NEW x \in Sockets, ReadMessage(x)
    PROVE  MessengerInv'
<1> USE DEF locks, lists, owners, flags, queues, stops, ghosts
<1> PICK t : t = R(x)
  OBVIOUS
<1>1. /\ Typed /\ IsPc(pc) /\ t \in Threads /\ t # W(x) /\ at[t] = x /\ where[t] = "read"
      /\ at = [at EXCEPT ![t] = at[t]]
  BY Actor, Session DEF ReadMessage, At, Plain
<1>2. st[x] # "accepting"
  BY <1>1, Session DEF Life, IsAlive, Accepts
<1>3. PICK l : /\ l \in {"loop", "callback"} /\ Moves(t, l)
               /\ (slock' = [slock EXCEPT ![x] = t] /\ slock[x] = Nobody) \/ slock' = slock
               /\ dispatching' = dispatching \/ dispatching' = dispatching \cup {x}
  <2>1. CASE Take(R(x), x) /\ Go(R(x), "loop") /\ UNCHANGED dispatching
    <3>1. Moves(t, "loop")
      BY <1>1, <2>1, GoMoves DEF Plain
    <3> QED
      BY <2>1, <3>1 DEF Take
  <2>2. CASE Pass(x) /\ GoSignal(R(x), "callback", x) /\ dispatching' = dispatching \cup {x}
    <3>1. Plain("callback") = "callback" /\ GoSignal(t, "callback", x)
      BY <2>2 DEF Plain
    <3>2. Moves(t, "callback")
      BY <1>1, <3>1, SignalMoves
    <3> QED
      BY <2>2, <3>2 DEF Pass
  <2> QED
    BY <2>1, <2>2 DEF ReadMessage
<1>4. slock' \in [Sockets -> Threads \cup {Nobody}] /\ AcceptorsKeep
  <2>1. CASE slock' = slock
    BY <1>1, <2>1 DEF Typed, AcceptorsKeep
  <2>2. CASE slock' = [slock EXCEPT ![x] = t] /\ slock[x] = Nobody
    BY <1>1, <2>2, SlockStep DEF Accepts
  <2> QED
    BY <1>3, <2>1, <2>2
<1>5. QuietTypes
  BY <1>1, <1>3, <1>4 DEF ReadMessage, QuietTypes, Typed
<1>6. SessionGoes(t, x, l, x)
  <2>1. ReaderGoes(x, st[x], where[t], l, x)
    BY <1>1, <1>2, <1>3 DEF ReaderGoes, BusyR
  <2> QED
    BY <1>1, <1>3, <1>4, <1>5, <2>1 DEF SessionGoes, ReadMessage
<1>7. where[t] \notin HasM \cup MayM /\ l \notin HasM \cup MayM \cup Special /\ l \in ReaderLabels
  BY <1>1, <1>3 DEF HasM, MayM, Special, ReaderLabels
<1> QED
  BY <1>1, <1>6, <1>7, SessionKeeps

LEMMA DispatchedQuiet ==
    ASSUME MessengerInv, NEW x \in Sockets, Dispatched(x)
    PROVE  MessengerInv'
<1> USE DEF locks, lists, owners, flags, queues, stops, ghosts
<1> PICK t : t = R(x)
  OBVIOUS
<1>1. Typed /\ IsPc(pc) /\ t \in Threads /\ t # W(x) /\ where[t] \in {"callback", "dispatched"}
  BY Actor, Session DEF Dispatched, Plain
<1>2. st[x] # "accepting"
  BY <1>1, Session DEF Life, IsAlive, Accepts
<1>3. Moves(t, "loop")
  <2>1. Go(t, "loop") \/ GoSignal(t, "loop", x)
    BY DEF Dispatched
  <2>2. Plain("loop") = "loop"
    BY DEF Plain
  <2> QED
    BY <1>1, <2>1, <2>2, GoMoves, SignalMoves
<1>4. slock' \in [Sockets -> Threads \cup {Nobody}] /\ AcceptorsKeep
  <2>1. slock' = [slock EXCEPT ![x] = t] /\ slock[x] \in {t, Nobody}
    BY DEF Dispatched, Take
  <2> QED
    BY <1>1, <2>1, SlockStep DEF Accepts
<1>5. QuietTypes
  <2>1. dispatching' \subseteq Sockets /\ notify' \subseteq Sockets
    BY <1>1 DEF Dispatched, Typed
  <2> QED
    BY <1>1, <1>4, <2>1 DEF Dispatched, QuietTypes, Typed
<1>6. SessionGoes(t, x, "loop", x)
  <2>1. ReaderGoes(x, st[x], where[t], "loop", x)
    BY <1>1, <1>2 DEF ReaderGoes, BusyR
  <2>2. at' = [at EXCEPT ![t] = x]
    BY DEF Dispatched
  <2> QED
    BY <1>1, <1>3, <1>4, <1>5, <2>1, <2>2 DEF SessionGoes, Dispatched
<1>7. where[t] \notin HasM \cup MayM /\ "loop" \notin HasM \cup MayM \cup Special /\ "loop" \in ReaderLabels
  BY <1>1 DEF HasM, MayM, Special, ReaderLabels
<1> QED
  BY <1>1, <1>6, <1>7, SessionKeeps

LEMMA ReadAckQuiet ==
    ASSUME MessengerInv, NEW x \in Sockets, ReadAck(x)
    PROVE  MessengerInv'
<1> USE DEF locks, lists, owners, flags, queues, stops, ghosts
<1> PICK t : t = R(x)
  OBVIOUS
<1>1. /\ Typed /\ IsPc(pc) /\ t \in Threads /\ t # W(x) /\ at[t] = x /\ where[t] = "read"
      /\ at = [at EXCEPT ![t] = at[t]]
  BY Actor, Session DEF ReadAck, At, Plain
<1>2. st[x] # "accepting"
  BY <1>1, Session DEF Life, IsAlive, Accepts
<1>3. Moves(t, "loop")
  BY <1>1, GoMoves DEF ReadAck, Plain
<1>4. slock' \in [Sockets -> Threads \cup {Nobody}] /\ AcceptorsKeep
  <2>1. slock' = [slock EXCEPT ![x] = t] /\ slock[x] \in {t, Nobody}
    BY DEF ReadAck, Take
  <2> QED
    BY <1>1, <2>1, SlockStep DEF Accepts
<1>5. sent' = [sent EXCEPT ![x] = 0] /\ sent \in [Sockets -> Nat]
  BY <1>1 DEF ReadAck, Typed
<1>6. QuietTypes
  BY <1>1, <1>4, <1>5 DEF ReadAck, QuietTypes, Typed
<1>7. SessionGoes(t, x, "loop", x)
  <2>1. ReaderGoes(x, st[x], where[t], "loop", x)
    BY <1>1, <1>2 DEF ReaderGoes, BusyR
  <2>2. \A y \in Sockets : sent'[y] \in {0, sent[y]}
    BY <1>5
  <2> QED
    BY <1>1, <1>3, <1>4, <1>6, <2>1, <2>2 DEF SessionGoes, ReadAck
<1>8. where[t] \notin HasM \cup MayM /\ "loop" \notin HasM \cup MayM \cup Special /\ "loop" \in ReaderLabels
  BY <1>1 DEF HasM, MayM, Special, ReaderLabels
<1> QED
  BY <1>1, <1>7, <1>8, SessionKeeps

LEMMA JoinReaderQuiet ==
    ASSUME MessengerInv, NEW x \in Sockets, JoinReader(x)
    PROVE  MessengerInv'
<1> USE DEF locks, lists, owners, flags, queues, stops, ghosts
<1> PICK t : t = W(x)
  OBVIOUS
<1>1. /\ Typed /\ IsPc(pc) /\ t \in Threads /\ t # R(x) /\ at[t] = x /\ where[t] = "join reader"
      /\ at = [at EXCEPT ![t] = at[t]] /\ where[R(x)] = "done"
  BY Actor, Session DEF JoinReader, At, Plain
<1>2. Moves(t, "connecting")
  BY <1>1, GoMoves DEF JoinReader, Plain
<1>3. slock' \in [Sockets -> Threads \cup {Nobody}] /\ AcceptorsKeep
  <2>1. slock' = [slock EXCEPT ![x] = t] /\ slock[x] \in {t, Nobody}
    BY DEF JoinReader, Take
  <2> QED
    BY <1>1, <2>1, SlockStep
<1>4. QuietTypes
  BY <1>1, <1>3 DEF JoinReader, QuietTypes, Typed
<1>5. SessionGoes(t, x, "connecting", x)
  <2>1. WriterGoes(x, where[t], "connecting")
    BY <1>1 DEF WriterGoes, BusyW
  <2> QED
    BY <1>1, <1>2, <1>3, <1>4, <2>1 DEF SessionGoes, JoinReader
<1>6. /\ where[t] \notin HasM \cup MayM /\ "connecting" \notin HasM \cup MayM \cup Special
      /\ "connecting" \in WriterLabels
  BY <1>1 DEF HasM, MayM, Special, WriterLabels
<1> QED
  BY <1>1, <1>5, <1>6, SessionKeeps

LEMMA ConnectFailsQuiet ==
    ASSUME MessengerInv, NEW x \in Sockets, ConnectFails(x), st[x] # "connecting"
    PROVE  MessengerInv'
<1> USE DEF locks, lists, owners, flags, queues, stops, ghosts
<1> PICK t : t = W(x)
  OBVIOUS
<1>1. /\ Typed /\ IsPc(pc) /\ t \in Threads /\ t # R(x) /\ at[t] = x /\ where[t] = "connecting"
      /\ at = [at EXCEPT ![t] = at[t]]
  BY Actor, Session DEF ConnectFails, At, Plain
<1>2. Moves(t, "loop")
  BY <1>1, GoMoves DEF ConnectFails, Plain
<1>3. slock' \in [Sockets -> Threads \cup {Nobody}] /\ AcceptorsKeep
  BY <1>1 DEF Typed, AcceptorsKeep, ConnectFails
<1>4. QuietTypes
  BY <1>1, <1>3 DEF ConnectFails, QuietTypes, Typed
<1>5. SessionGoes(t, x, "loop", x)
  <2>1. WriterGoes(x, where[t], "loop")
    BY <1>1 DEF WriterGoes, BusyW
  <2> QED
    BY <1>1, <1>2, <1>3, <1>4, <2>1 DEF SessionGoes, ConnectFails
<1>6. where[t] \notin HasM \cup MayM /\ "loop" \notin HasM \cup MayM \cup Special /\ "loop" \in WriterLabels
  BY <1>1 DEF HasM, MayM, Special, WriterLabels
<1> QED
  BY <1>1, <1>5, <1>6, SessionKeeps

\* The writer at work on its socket's lock goes on with it, or lets go of it.
LEMMA WriterGives ==
    ASSUME MessengerInv, NEW x \in Sockets, NEW t, t = W(x), Holds(t, x),
           slock' = [slock EXCEPT ![x] = Nobody] \/ slock' = [slock EXCEPT ![x] = t]
    PROVE  slock' \in [Sockets -> Threads \cup {Nobody}] /\ AcceptorsKeep
<1>1. t \in Threads /\ t # R(x) /\ slock[x] \in {t, Nobody}
  BY Session DEF Holds
<1> QED
  BY <1>1, SlockStep

LEMMA WriteQuiet ==
    ASSUME MessengerInv, NEW x \in Sockets, Write(x)
    PROVE  MessengerInv'
<1> USE DEF locks, lists, owners, flags, queues, stops, ghosts
<1> PICK t : t = W(x)
  OBVIOUS
<1>1. /\ Typed /\ IsPc(pc) /\ t \in Threads /\ t # R(x) /\ at[t] = x /\ where[t] \in {"start", "loop"}
      /\ at = [at EXCEPT ![t] = at[t]]
  BY Actor, Session DEF Write, AtWriter, Plain
<1>2. Moves(t, "write")
  BY <1>1, GoMoves DEF Write, Plain
<1>3. slock' \in [Sockets -> Threads \cup {Nobody}] /\ AcceptorsKeep
  BY WriterGives DEF Write, AtWriter, Give
<1>4. /\ unsent' = [unsent EXCEPT ![x] = @ - 1] /\ unsent \in [Sockets -> Nat] /\ unsent[x] > 0
      /\ sent' = [sent EXCEPT ![x] = IF policy.lossy THEN 0 ELSE @ + 1] /\ sent \in [Sockets -> Nat]
  BY <1>1 DEF Write, Typed
<1>5. /\ unsent' \in [Sockets -> Nat] /\ sent' \in [Sockets -> Nat]
      /\ \A y \in Sockets : y # x => unsent'[y] = unsent[y] /\ sent'[y] = sent[y]
  BY <1>4
<1>6. x \in all \cup {Registering}
  <2>1. where[W(x)] \notin Ended
    BY <1>1 DEF Ended
  <2> QED
    BY <2>1, Session DEF Life, IsListed
<1>7. QuietTypes
  BY <1>1, <1>3, <1>5 DEF Write, QuietTypes, Typed
<1>8. SessionGoes(t, x, "write", x)
  <2>1. WriterGoes(x, where[t], "write")
    BY <1>1 DEF WriterGoes, BusyW
  <2> QED
    BY <1>1, <1>2, <1>3, <1>5, <1>6, <1>7, <2>1 DEF SessionGoes, Write
<1>9. where[t] \notin HasM \cup MayM /\ "write" \notin HasM \cup MayM \cup Special /\ "write" \in WriterLabels
  BY <1>1 DEF HasM, MayM, Special, WriterLabels
<1> QED
  BY <1>1, <1>8, <1>9, SessionKeeps

LEMMA WrittenQuiet ==
    ASSUME MessengerInv, NEW x \in Sockets, Written(x)
    PROVE  MessengerInv'
<1> USE DEF locks, lists, owners, flags, queues, stops, ghosts
<1> PICK t : t = W(x)
  OBVIOUS
<1>1. /\ Typed /\ IsPc(pc) /\ t \in Threads /\ t # R(x) /\ at[t] = x /\ where[t] = "write"
      /\ at = [at EXCEPT ![t] = at[t]]
  BY Actor, Session DEF Written, At, Plain
<1>2. Moves(t, "loop")
  BY <1>1, GoMoves DEF Written, Plain
<1>3. slock' \in [Sockets -> Threads \cup {Nobody}] /\ AcceptorsKeep
  <2>1. slock' = [slock EXCEPT ![x] = t] /\ slock[x] \in {t, Nobody}
    BY DEF Written, Take
  <2> QED
    BY <1>1, <2>1, SlockStep
<1>4. QuietTypes
  BY <1>1, <1>3 DEF Written, QuietTypes, Typed
<1>5. SessionGoes(t, x, "loop", x)
  <2>1. WriterGoes(x, where[t], "loop")
    BY <1>1 DEF WriterGoes, BusyW
  <2> QED
    BY <1>1, <1>2, <1>3, <1>4, <2>1 DEF SessionGoes, Written
<1>6. where[t] \notin HasM \cup MayM /\ "loop" \notin HasM \cup MayM \cup Special /\ "loop" \in WriterLabels
  BY <1>1 DEF HasM, MayM, Special, WriterLabels
<1> QED
  BY <1>1, <1>5, <1>6, SessionKeeps

LEMMA WriterSleepsQuiet ==
    ASSUME MessengerInv, NEW x \in Sockets, WriterSleeps(x)
    PROVE  MessengerInv'
<1> USE DEF locks, lists, owners, flags, queues, stops, ghosts
<1> PICK t : t = W(x)
  OBVIOUS
<1>1. /\ Typed /\ IsPc(pc) /\ t \in Threads /\ t # R(x) /\ at[t] = x /\ where[t] \in {"start", "loop"}
      /\ at = [at EXCEPT ![t] = at[t]]
  BY Actor, Session DEF WriterSleeps, AtWriter, Plain
<1>2. Moves(t, "start")
  BY <1>1, GoMoves DEF WriterSleeps, Plain
<1>3. slock' \in [Sockets -> Threads \cup {Nobody}] /\ AcceptorsKeep
  BY WriterGives DEF WriterSleeps, AtWriter, Give
<1>4. QuietTypes
  BY <1>1, <1>3 DEF WriterSleeps, QuietTypes, Typed
<1>5. SessionGoes(t, x, "start", x)
  <2>1. WriterGoes(x, where[t], "start")
    BY <1>1 DEF WriterGoes, BusyW
  <2> QED
    BY <1>1, <1>2, <1>3, <1>4, <2>1 DEF SessionGoes, WriterSleeps
<1>6. where[t] \notin HasM \cup MayM /\ "start" \notin HasM \cup MayM \cup Special /\ "start" \in WriterLabels
  BY <1>1 DEF HasM, MayM, Special, WriterLabels
<1> QED
  BY <1>1, <1>5, <1>6, SessionKeeps

LEMMA ReaperQuiet ==
    ASSUME MessengerInv, NEW l, l \in {"reaper", "reaping", "done"}, where[Reaper] \in {"reaper", "reaping"},
           Moves(Reaper, l), LockStep(Reaper), mlock' = Reaper <=> l = "reaping", Unchanged
    PROVE  MessengerInv'
<1> PICK t, s, c : t = Reaper /\ s = at[t] /\ c = using[t]
  OBVIOUS
<1>1. /\ t \in Threads /\ Typed /\ Locked /\ s \in Sockets \cup {None} /\ c \in Sockets \cup {None}
      /\ at = [at EXCEPT ![t] = s] /\ using = [using EXCEPT ![t] = c] /\ (c = None \/ Published(c))
      /\ own[t] = Owned(where[t], s, c)
  BY ThreadNames, Actor DEF IsThr
<1>2. IsAt(t, l)
  BY ThreadNames DEF IsAt, ReaperLabels
<1>3. MayHold(t, l)
  BY <1>2 DEF MayHold, HasM
<1>4. QuietMove(t, l, s)
  BY ThreadNames DEF QuietMove
<1>5. QuietTypes /\ AcceptorsKeep
  BY <1>1 DEF Typed, QuietTypes, Unchanged, AcceptorsKeep
<1>6. QuietLists(t)
  <2>1. where[t] \notin Marks /\ l \notin Marks
    BY DEF Marks
  <2>2. at' = [at EXCEPT ![t] = s] /\ UNCHANGED <<rank, accepting, st, undone, all, unsent, sent>>
    BY <1>1 DEF Unchanged
  <2> QED
    BY <1>1, <1>3, <2>1, <2>2, ListsKept
<1>7. RefsGo(t, l, s, c)
  <2>1. own[t] = Owned(l, s, c)
    BY <1>1 DEF Owned
  <2> QED
    BY <1>1, <2>1, RefsKept DEF Unchanged
<1>8. IsThr(t, l, s, c)'
  <2>1. c = None \/ Published(c)'
    BY <1>1, PublishedKept DEF Unchanged
  <2> QED
    BY <2>1, ThrSimple DEF Special
<1>9. Quiet(t, l, s, c)
  BY <1>1, <1>3, <1>4, <1>5, <1>6, <1>7, <1>8 DEF Quiet, Unchanged, AcceptorsKeep
<1> QED
  BY <1>1, <1>9, QuietKeeps

LEMMA ReaperStartsQuiet ==
    ASSUME MessengerInv, ReaperStarts
    PROVE  MessengerInv'
<1> USE DEF locks, lists, owners, flags, queues, stops, ghosts
<1>1. IsPc(pc) /\ where[Reaper] = "reaper" /\ Reaper \in Threads
  BY Actor, ThreadNames DEF ReaperStarts, At, Plain
<1>2. Moves(Reaper, "reaping")
  BY <1>1, GoMoves DEF ReaperStarts, Plain
<1>3. Unchanged /\ LockStep(Reaper) /\ mlock' = Reaper
  BY DEF Unchanged, ReaperStarts, TakeM, LockStep
<1> QED
  BY <1>1, <1>2, <1>3, ReaperQuiet

LEMMA ReaperSleepsQuiet ==
    ASSUME MessengerInv, ReaperSleeps
    PROVE  MessengerInv'
<1> USE DEF locks, lists, owners, flags, queues, stops, ghosts
<1>1. IsPc(pc) /\ where[Reaper] = "reaping" /\ Reaper \in Threads /\ mlock = Reaper
  BY Actor, ThreadNames DEF ReaperSleeps, At, Plain, HasM
<1>2. Moves(Reaper, "done") \/ Moves(Reaper, "reaper")
  <2>1. CASE Go(Reaper, "done")
    BY <1>1, <2>1, GoMoves DEF Plain
  <2>2. CASE Go(Reaper, "reaper asleep")
    BY <1>1, <2>2, GoMoves DEF Plain
  <2> QED
    BY <2>1, <2>2 DEF ReaperSleeps
<1>3. Unchanged /\ LockStep(Reaper) /\ mlock' # Reaper
  BY <1>1, ThreadNames DEF Unchanged, ReaperSleeps, GiveM, LockStep
<1>4. CASE Moves(Reaper, "done")
  BY <1>1, <1>3, <1>4, ReaperQuiet
<1>5. CASE Moves(Reaper, "reaper")
  BY <1>1, <1>3, <1>5, ReaperQuiet
<1> QED
  BY <1>2, <1>4, <1>5

LEMMA HandshakeQuiet ==
    ASSUME MessengerInv, NEW x \in Sockets, Handshake(x)
    PROVE  MessengerInv'
<1> USE DEF locks, lists, owners, flags, queues, stops, ghosts
<1> PICK t : t = R(x)
  OBVIOUS
<1>1. /\ Typed /\ IsPc(pc) /\ t \in Threads /\ t # W(x) /\ at[t] = x /\ where[t] = "start"
      /\ at = [at EXCEPT ![t] = at[t]] /\ st[x] = "accepting"
  BY Actor, Session DEF Handshake, At, Plain
<1>2. Moves(t, "handshake")
  BY <1>1, GoMoves DEF Handshake, Plain
<1>3. slock' = [slock EXCEPT ![x] = t] /\ slock[x] \in {t, Nobody}
  BY DEF Handshake, Take
<1>4. slock' \in [Sockets -> Threads \cup {Nobody}] /\ AcceptorsKeep
  BY <1>1, <1>3, SlockStep DEF Accepts
<1>5. QuietTypes
  BY <1>1, <1>4 DEF Handshake, QuietTypes, Typed
<1>6. SessionGoes(t, x, "handshake", x)
  <2>1. slock'[x] = R(x)
    BY <1>1, <1>3 DEF Typed
  <2>2. ReaderGoes(x, st[x], where[t], "handshake", x)
    BY <1>1, <2>1 DEF ReaderGoes, Accepts
  <2> QED
    BY <1>1, <1>2, <1>4, <1>5, <2>2 DEF SessionGoes, Handshake
<1>7. /\ where[t] \notin HasM \cup MayM /\ "handshake" \notin HasM \cup MayM \cup Special
      /\ "handshake" \in ReaderLabels
  BY <1>1 DEF HasM, MayM, Special, ReaderLabels, Accepts
<1> QED
  BY <1>1, <1>6, <1>7, SessionKeeps

\* An acceptor with the messenger's lock looks at the socket that is registered.
AcceptorGoes(t, l, s, c) ==
    /\ Moves(t, l) /\ LockStep(t) /\ mlock' = t /\ at' = [at EXCEPT ![t] = s]
    /\ UNCHANGED <<policy, using, st, rank, accepting, all, con, conSocket, failed, running, reapq,
                   undone, dispatching, unsent, sent>>
    /\ notify' \subseteq Sockets /\ slock' \in [Sockets -> Threads \cup {Nobody}] /\ AcceptorsKeep
    /\ RefsGo(t, l, s, c)
    /\ (l = "open" => s = None /\ Vacant) /\ (l # "open" => s \in Sockets /\ s = rank)
LEMMA AcceptorQuiet ==
    ASSUME MessengerInv, NEW x \in Sockets, NEW t, t = R(x), where[t] \in Accepts \ {"open"},
           NEW l, l \in {"lock old", "await", "replace", "open"}, NEW s, NEW c, c = using[t],
           AcceptorGoes(t, l, s, c)
    PROVE  MessengerInv'
<1> USE DEF AcceptorGoes
<1>1. /\ t \in Threads /\ Typed /\ Locked /\ c \in Sockets \cup {None}
      /\ using = [using EXCEPT ![t] = c] /\ (c = None \/ Published(c))
  BY Session, Actor DEF IsThr
<1>2. IsAt(t, l)
  BY SessionAt DEF ReaderLabels, Accepts
<1>3. MayHold(t, l)
  BY <1>2 DEF MayHold, HasM
<1>4. QuietMove(t, l, s)
  <2>1. st[x] = "accepting" /\ slock[x] = R(x)
    BY Session DEF Life, IsAlive
  <2>2. slock'[x] = R(x)
    BY <2>1 DEF AcceptorsKeep
  <2>3. ReaderGoes(x, st[x], where[t], l, s)
    BY <2>1, <2>2 DEF ReaderGoes, Accepts
  <2>4. \A y \in Sockets : (t = R(y) => y = x) /\ t # W(y)
    BY ThreadNames
  <2> QED
    BY <2>3, <2>4 DEF QuietMove
<1>5. QuietTypes
  BY <1>1 DEF Typed, QuietTypes
<1>6. QuietLists(t)
  <2>1. where[t] \notin Marks /\ l \notin Marks
    BY DEF Marks, Accepts
  <2> QED
    BY <1>1, <1>3, <2>1, ListsKept
<1>7. IsThr(t, l, s, c)'
  <2>1. c = None \/ Published(c)'
    BY <1>1, PublishedKept
  <2>2. l # "open" => s # None /\ s \in all /\ st[s] # "none"
    <3>1. s \in Sockets => Life(s)
      BY DEF MessengerInv
    <3> QED
      BY <3>1, NoneIsNone DEF Life, IsListed
  <2>3. Vacant => Vacant'
    BY DEF Vacant
  <2> QED
    BY <2>1, <2>2, <2>3 DEF IsThr
<1>8. Quiet(t, l, s, c)
  BY <1>1, <1>3, <1>4, <1>5, <1>6, <1>7 DEF Quiet, AcceptorsKeep
<1> QED
  BY <1>1, <1>8, QuietKeeps

LEMMA LockMessengerQuiet ==
    ASSUME MessengerInv, NEW x \in Sockets, LockMessenger(x), ~dqStop
    PROVE  MessengerInv'
<1> USE DEF locks, lists, owners, flags, queues, stops, ghosts
<1> PICK t, c, s : t = R(x) /\ c = using[t] /\ s = lookup_socket
  OBVIOUS
<1>1. /\ Typed /\ IsPc(pc) /\ t \in Threads /\ where[t] = "handshake"
      /\ own[t] = Owned(where[t], at[t], using[t])
  BY Actor, Session DEF LockMessenger, At, Plain
<1>2. PICK l : l = IF s = None THEN "open" ELSE "lock old"
  OBVIOUS
<1>3. Moves(t, l)
  BY <1>1, <1>2, GoMoves DEF LockMessenger, Plain
<1>4. LockStep(t) /\ mlock' = t /\ at' = [at EXCEPT ![t] = s] /\ refs' = refs /\ slock' = slock
  BY DEF LockStep, LockMessenger, TakeM
<1>5. RefsGo(t, l, s, c)
  <2>1. own[t] = None /\ Owned(l, s, c) = None
    BY <1>1, <1>2 DEF Owned
  <2> QED
    BY <1>1, <1>4, <2>1, RefsKept
<1>6. (l = "open" => s = None /\ Vacant) /\ (l # "open" => s \in Sockets /\ s = rank)
  BY <1>1, <1>2 DEF lookup_socket, Vacant, Typed
<1>7. /\ slock' \in [Sockets -> Threads \cup {Nobody}] /\ AcceptorsKeep /\ notify' \subseteq Sockets
  BY <1>1, <1>4 DEF Typed, AcceptorsKeep, LockMessenger
<1>8. UNCHANGED <<policy, using, st, rank, accepting, all, con, conSocket, failed, running, reapq,
                  undone, dispatching, unsent, sent>>
  BY DEF LockMessenger
<1>9. where[t] \in Accepts \ {"open"} /\ l \in {"lock old", "await", "replace", "open"}
  BY <1>1, <1>2 DEF Accepts
<1>10. AcceptorGoes(t, l, s, c)
  BY <1>3, <1>4, <1>5, <1>6, <1>7, <1>8 DEF AcceptorGoes
<1> QED
  BY <1>9, <1>10, AcceptorQuiet

LEMMA Acceptor ==
    ASSUME MessengerInv, NEW x \in Sockets, where[R(x)] \in Accepts
    PROVE  st[x] = "accepting" /\ slock[x] = R(x) /\ slock[x] # Nobody /\ where[W(x)] = "none" /\ x \in all
<1>1. Life(x)
  BY Session
<1>2. st[x] = "accepting" /\ slock[x] = R(x)
  BY <1>1 DEF Life, IsAlive
<1>3. where[W(x)] = "none" /\ x \in all
  BY <1>1, <1>2 DEF Life, IsAlive
<1> QED
  BY <1>2, <1>3, ThreadNames

LEMMA Unlister ==
    ASSUME MessengerInv, NEW x \in Sockets, NEW t \in {R(x), W(x)}, where[t] \in Unlists
    PROVE  t \in Threads /\ at[t] = x /\ st[x] = "closed"
<1>1. Life(x) /\ t \in Threads
  BY Session
<1>2. st[x] = "closed"
  BY <1>1 DEF Life, IsAlive
<1>3. at[R(x)] = x \/ where[R(x)] \notin Unlists
  BY <1>1 DEF Life, IsAlive
<1>4. at[W(x)] = x
  BY <1>1 DEF Life, IsAlive
<1> QED
  BY <1>1, <1>2, <1>3, <1>4

LEMMA LockOldQuiet ==
    ASSUME MessengerInv, NEW x \in Sockets, LockOld(x)
    PROVE  MessengerInv'
<1> USE DEF locks, lists, owners, flags, queues, stops, ghosts
<1> PICK t, c, s : t = R(x) /\ c = using[t] /\ s = at[t]
  OBVIOUS
<1>1. /\ Typed /\ IsPc(pc) /\ t \in Threads /\ where[t] = "lock old" /\ mlock = t
      /\ own[t] = Owned(where[t], at[t], using[t]) /\ at = [at EXCEPT ![t] = at[t]]
      /\ IsThr(t, "lock old", s, c) /\ s \in Sockets \cup {None}
  <2>1. t \in Threads /\ where[t] = "lock old"
    BY Actor, Session DEF LockOld, At, Plain
  <2> QED
    BY <2>1, Actor DEF HasM
<1>2. s \in Sockets /\ s = rank
  BY <1>1 DEF IsThr
<1>3. own[t] = None
  BY <1>1 DEF Owned
<1>4. slock[x] = t /\ slock[x] # Nobody
  BY <1>1, Acceptor DEF Accepts
<1>5. /\ mlock' = mlock /\ at' = at
      /\ UNCHANGED <<policy, using, st, rank, accepting, all, con, conSocket, failed, running, reapq,
                     undone, dispatching, unsent, sent>>
  BY DEF LockOld
<1>6. LockStep(t)
  BY <1>5 DEF LockStep
<1>7. CASE Get(s) /\ Pass(s) /\ notify' = notify \cup {s} /\ Go(t, "await")
  <2>1. Moves(t, "await")
    BY <1>1, <1>7, GoMoves DEF Plain
  <2>2. slock' = slock
    BY <1>7 DEF Pass
  <2>3. notify' \subseteq Sockets /\ slock' \in [Sockets -> Threads \cup {Nobody}] /\ AcceptorsKeep
    BY <1>1, <1>2, <1>7, <2>2 DEF Typed, AcceptorsKeep
  <2>4. RefsGo(t, "await", s, c)
    <3>1. Owned("await", s, c) = s
      BY DEF Owned
    <3> QED
      BY <1>1, <1>2, <1>3, <1>7, <3>1, RefsTaken
  <2>5. AcceptorGoes(t, "await", s, c)
    BY <1>1, <1>2, <1>5, <1>6, <2>1, <2>3, <2>4 DEF AcceptorGoes
  <2> QED
    BY <1>1, <2>5, AcceptorQuiet DEF Accepts
<1>8. CASE Take(t, s) /\ Go(t, "replace") /\ UNCHANGED <<refs, notify>>
  <2>1. Moves(t, "replace")
    BY <1>1, <1>8, GoMoves DEF Plain
  <2>2. slock' = [slock EXCEPT ![s] = t] /\ slock[s] = Nobody
    BY <1>8 DEF Take
  <2>3. t # R(s)
    BY <1>2, <1>4, <2>2, ThreadNames
  <2>4. notify' \subseteq Sockets
    BY <1>1, <1>8 DEF Typed
  <2>5. slock' \in [Sockets -> Threads \cup {Nobody}] /\ AcceptorsKeep
    BY <1>1, <1>2, <2>2, <2>3, SlockStep
  <2>6. RefsGo(t, "replace", s, c)
    <3>1. Owned("replace", s, c) = own[t] /\ refs' = refs
      BY <1>3, <1>8 DEF Owned
    <3> QED
      BY <1>1, <3>1, RefsKept
  <2>7. AcceptorGoes(t, "replace", s, c)
    BY <1>1, <1>2, <1>5, <1>6, <2>1, <2>4, <2>5, <2>6 DEF AcceptorGoes
  <2> QED
    BY <1>1, <2>7, AcceptorQuiet DEF Accepts
<1> QED
  BY <1>7, <1>8 DEF LockOld

LEMMA AwaitOldQuiet ==
    ASSUME MessengerInv, NEW x \in Sockets, AwaitOld(x)
    PROVE  MessengerInv'
<1> USE DEF locks, lists, owners, flags, queues, stops, ghosts
<1> PICK t, c, s : t = R(x) /\ c = using[t] /\ s = at[t]
  OBVIOUS
<1>1. /\ Typed /\ IsPc(pc) /\ t \in Threads /\ where[t] = "await" /\ mlock = t
      /\ own[t] = Owned(where[t], at[t], using[t]) /\ at = [at EXCEPT ![t] = at[t]]
      /\ IsThr(t, "await", s, c) /\ s \in Sockets \cup {None}
  <2>1. t \in Threads /\ where[t] = "await"
    BY Actor, Session DEF AwaitOld, At, Plain
  <2> QED
    BY <2>1, Actor DEF HasM
<1>2. s \in Sockets /\ s = rank
  BY <1>1 DEF IsThr
<1>3. own[t] = s
  BY <1>1 DEF Owned
<1>4. slock[x] = t /\ slock[x] # Nobody
  BY <1>1, Acceptor DEF Accepts
<1>5. /\ mlock' = mlock /\ at' = at /\ notify' = notify
      /\ UNCHANGED <<policy, using, st, rank, accepting, all, con, conSocket, failed, running, reapq,
                     undone, dispatching, unsent, sent>>
  BY DEF AwaitOld
<1>6. LockStep(t) /\ notify' \subseteq Sockets
  BY <1>1, <1>5 DEF LockStep, Typed
<1>7. CASE Pass(s) /\ Go(t, "await") /\ UNCHANGED refs
  <2>1. Moves(t, "await")
    BY <1>1, <1>7, GoMoves DEF Plain
  <2>2. slock' = slock
    BY <1>7 DEF Pass
  <2>3. slock' \in [Sockets -> Threads \cup {Nobody}] /\ AcceptorsKeep
    BY <1>1, <2>2 DEF Typed, AcceptorsKeep
  <2>4. RefsGo(t, "await", s, c)
    <3>1. Owned("await", s, c) = own[t] /\ refs' = refs
      BY <1>3, <1>7 DEF Owned
    <3> QED
      BY <1>1, <3>1, RefsKept
  <2>5. AcceptorGoes(t, "await", s, c)
    BY <1>1, <1>2, <1>5, <1>6, <2>1, <2>3, <2>4 DEF AcceptorGoes
  <2> QED
    BY <1>1, <2>5, AcceptorQuiet DEF Accepts
<1>8. CASE Take(t, s) /\ Dec(s) /\ Go(t, "replace")
  <2>1. Moves(t, "replace")
    BY <1>1, <1>8, GoMoves DEF Plain
  <2>2. slock' = [slock EXCEPT ![s] = t] /\ slock[s] = Nobody
    BY <1>8 DEF Take
  <2>3. t # R(s)
    BY <1>2, <1>4, <2>2, ThreadNames
  <2>4. slock' \in [Sockets -> Threads \cup {Nobody}] /\ AcceptorsKeep
    BY <1>1, <1>2, <2>2, <2>3, SlockStep
  <2>5. RefsGo(t, "replace", s, c)
    <3>1. Owned("replace", s, c) = None
      BY DEF Owned
    <3> QED
      BY <1>1, <1>2, <1>3, <1>8, <3>1, RefsGiven
  <2>6. AcceptorGoes(t, "replace", s, c)
    BY <1>1, <1>2, <1>5, <1>6, <2>1, <2>4, <2>5 DEF AcceptorGoes
  <2> QED
    BY <1>1, <2>6, AcceptorQuiet DEF Accepts
<1> QED
  BY <1>7, <1>8 DEF AwaitOld

\* One of the threads of a lossy session that ended takes its socket off the lists.
LEMMA LockToUnlistQuiet ==
    ASSUME MessengerInv, NEW x \in Sockets, NEW t \in {R(x), W(x)}, LockToUnlist(t)
    PROVE  MessengerInv'
<1> USE DEF locks, lists, owners, flags, queues, stops, ghosts
<1> PICK c : c = using[t]
  OBVIOUS
<1>1. /\ Typed /\ Locked /\ IsPc(pc) /\ t \in Threads /\ where[t] = "lock to unlist"
      /\ own[t] = Owned(where[t], at[t], using[t]) /\ at = [at EXCEPT ![t] = at[t]]
      /\ using = [using EXCEPT ![t] = c] /\ c \in Sockets \cup {None} /\ (c = None \/ Published(c))
  <2>1. t \in Threads
    BY Session
  <2>2. pc[t] = "lock to unlist" /\ Plain("lock to unlist") = "lock to unlist"
    BY DEF LockToUnlist, At, Plain
  <2> QED
    BY <2>1, <2>2, Actor DEF IsThr
<1>2. at[t] = x /\ st[x] = "closed"
  BY <1>1, Unlister DEF Unlists
<1>3. Moves(t, "unlist")
  BY <1>1, GoMoves DEF LockToUnlist, Plain
<1>4. mlock = Nobody /\ mlock' = t /\ LockStep(t)
  BY DEF LockToUnlist, TakeM, LockStep
<1>5. MayHold(t, "unlist")
  <2>1. IsAt(t, "unlist")
    BY SessionAt DEF ReaderLabels, WriterLabels, Unlists
  <2> QED
    BY <1>4, <2>1 DEF MayHold, HasM
<1>6. QuietMove(t, "unlist", x)
  <2>1. Registering # x
    BY <1>4, NoneIsNone DEF Registering
  <2>2. \A y \in Sockets : (t = R(y) => y = x) /\ (t = W(y) => y = x)
    BY ThreadNames
  <2> QED
    BY <1>1, <2>1, <2>2 DEF QuietMove, ReaderGoes, WriterGoes
<1>7. QuietLists(t)
  <2>1. where[t] \notin Marks /\ "unlist" \notin Marks
    BY <1>1 DEF Marks
  <2>2. at' = [at EXCEPT ![t] = x] /\ UNCHANGED <<rank, accepting, st, undone, all, unsent, sent>>
    BY <1>1, <1>2 DEF LockToUnlist
  <2> QED
    BY <1>1, <1>3, <1>4, <1>5, <2>1, <2>2, ListsKept
<1>8. QuietTypes /\ AcceptorsKeep
  BY <1>1 DEF Typed, QuietTypes, LockToUnlist, AcceptorsKeep
<1>9. RefsGo(t, "unlist", x, c)
  <2>1. own[t] = Owned("unlist", x, c) /\ refs' = refs
    BY <1>1 DEF Owned, LockToUnlist
  <2> QED
    BY <1>1, <2>1, RefsKept
<1>10. IsThr(t, "unlist", x, c)'
  <2>1. c = None \/ Published(c)'
    BY <1>1, PublishedKept DEF LockToUnlist
  <2>2. x # None /\ st'[x] # "none"
    BY <1>2, NoneIsNone DEF LockToUnlist
  <2> QED
    BY <2>1, <2>2 DEF IsThr
<1>11. Quiet(t, "unlist", x, c)
  <2>1. UNCHANGED <<policy, st, all, con, conSocket, failed, running, reapq, undone, at, using>>
    BY DEF LockToUnlist
  <2> QED
    BY <1>1, <1>2, <1>3, <1>4, <1>5, <1>6, <1>7, <1>8, <1>9, <1>10, <2>1 DEF Quiet, AcceptorsKeep
<1> QED
  BY <1>1, <1>11, QuietKeeps

LEMMA UnlistQuiet ==
    ASSUME MessengerInv, NEW x \in Sockets, NEW t \in {R(x), W(x)}, Unlist(t)
    PROVE  MessengerInv'
<1> USE DEF locks, lists, owners, flags, queues, stops, ghosts
<1> PICK c : c = using[t]
  OBVIOUS
<1>1. /\ Typed /\ Locked /\ IsPc(pc) /\ t \in Threads /\ where[t] = "unlist" /\ mlock = t
      /\ own[t] = Owned(where[t], at[t], using[t]) /\ at = [at EXCEPT ![t] = at[t]]
      /\ using = [using EXCEPT ![t] = c] /\ c \in Sockets \cup {None} /\ (c = None \/ Published(c))
  <2>1. t \in Threads /\ where[t] = "unlist"
    BY Actor, Session DEF Unlist, At, Plain
  <2> QED
    BY <2>1, Actor DEF HasM, IsThr
<1>2. at[t] = x /\ st[x] = "closed"
  BY <1>1, Unlister DEF Unlists
<1>3. Moves(t, "loop")
  BY <1>1, GoMoves DEF Unlist, Plain
<1>4. mlock' = Nobody /\ LockStep(t)
  BY <1>1 DEF Unlist, GiveM, LockStep
<1>5. MayHold(t, "loop")
  <2>1. IsAt(t, "loop")
    BY SessionAt DEF ReaderLabels, WriterLabels
  <2> QED
    BY <1>1, <1>4, <2>1, ThreadNames DEF MayHold, HasM
<1>6. QuietMove(t, "loop", x)
  <2>1. \A y \in Sockets : (t = R(y) => y = x) /\ (t = W(y) => y = x)
    BY ThreadNames
  <2> QED
    BY <1>1, <2>1 DEF QuietMove, ReaderGoes, WriterGoes
<1>7. /\ unregister_socket(x) /\ unsent' = [unsent EXCEPT ![x] = 0] /\ sent' = [sent EXCEPT ![x] = 0]
      /\ slock' = [slock EXCEPT ![x] = t] /\ slock[x] = Nobody
  BY <1>2 DEF Unlist, Take
<1>8. slock' \in [Sockets -> Threads \cup {Nobody}] /\ AcceptorsKeep
  BY <1>1, <1>7, SlockStep DEF Accepts
<1>9. QuietLists(t)
  <2>1. rank' \in {rank, None} /\ (rank = x \/ rank' = rank) /\ accepting' \subseteq accepting
    BY <1>1, <1>7, Unregister
  <2>2. Registering = None /\ Stopping = None
    BY <1>1 DEF Registering, Stopping
  <2>3. Registering' = None
    BY <1>4 DEF Registering
  <2>4. Joining' = Joining
    <3>1. t # Reaper
      BY ThreadNames
    <3>2. at' = at
      BY DEF Unlist
    <3> QED
      BY <1>3, <3>1, <3>2, WhereIs, ThreadNames DEF Moves, Joining
  <2>5. ASSUME NEW y \in Sockets, y \notin all, y # Registering PROVE unsent'[y] = 0 /\ sent'[y] = 0
    <3>1. unsent[y] = 0 /\ sent[y] = 0
      BY <2>5 DEF MessengerInv, Life, IsListed
    <3>2. unsent \in [Sockets -> Nat] /\ sent \in [Sockets -> Nat]
      BY <1>1 DEF Typed
    <3> QED
      BY <1>7, <3>1, <3>2
  <2>6. ASSUME NEW y \in Sockets, st[y] \in Live, y \in {rank, Stopping} PROVE y \in {rank', Stopping'}
    BY <1>2, <2>1, <2>2, <2>6, NoneIsNone DEF Live
  <2> QED
    BY <1>1, <2>1, <2>2, <2>3, <2>4, <2>5, <2>6 DEF QuietLists
<1>10. QuietTypes
  <2>1. unsent' \in [Sockets -> Nat] /\ sent' \in [Sockets -> Nat]
    BY <1>1, <1>7 DEF Typed
  <2> QED
    BY <1>1, <1>8, <2>1 DEF Typed, QuietTypes, Unlist
<1>11. RefsGo(t, "loop", x, c)
  <2>1. own[t] = Owned("loop", x, c) /\ refs' = refs
    BY <1>1 DEF Owned, Unlist
  <2> QED
    BY <1>1, <2>1, RefsKept
<1>12. IsThr(t, "loop", x, c)'
  <2>1. c = None \/ Published(c)'
    BY <1>1, PublishedKept DEF Unlist
  <2> QED
    BY <2>1, ThrSimple DEF Special
<1>13. Quiet(t, "loop", x, c)
  <2>1. UNCHANGED <<policy, st, all, con, conSocket, failed, running, reapq, undone, at, using>>
    BY DEF Unlist
  <2> QED
    BY <1>1, <1>2, <1>3, <1>4, <1>5, <1>6, <1>8, <1>9, <1>10, <1>11, <1>12, <2>1 DEF Quiet, AcceptorsKeep
<1> QED
  BY <1>1, <1>13, QuietKeeps

-----------------------------------------------------------------------------
(* The end of a session                                                    *)

\* The connection of x lets go of it, if it is the one it has.
Clears(x) ==
    IF conSocket[con[x]] = x
    THEN /\ conSocket' = [conSocket EXCEPT ![con[x]] = None]
         /\ failed' = [failed EXCEPT ![con[x]] = TRUE]
    ELSE UNCHANGED <<conSocket, failed>>

\* Connections after socket x is closed.
LEMMA ConnClosed ==
    ASSUME \A c \in Sockets : Conn(c), Typed, NEW x \in Sockets, st[x] # "none",
           st' = [st EXCEPT ![x] = "closed"], con' = con, undone' = undone, Clears(x),
           \A y \in Sockets : y # x /\ st[y] = "accepting" /\ where[R(y)] = "open" => where'[R(y)] = "open"
    PROVE  \A c \in Sockets : Conn(c)'
<1> PICK d : d = con[x]
  OBVIOUS
<1>1. d \in Sockets /\ Conn(d) /\ Conn(x) /\ (d = x \/ (con[d] = d /\ st[d] \notin {"none", "accepting"}))
  BY DEF Typed, Conn, Published
<1>2. /\ \A y \in Sockets : y # x => st'[y] = st[y]
      /\ st'[x] = "closed"
  BY DEF Typed
<1>3. /\ conSocket[d] = x => conSocket'[d] = None /\ failed'[d] = TRUE
      /\ conSocket[d] # x => conSocket'[d] = conSocket[d] /\ failed'[d] = failed[d]
      /\ \A c \in Sockets : c # d => conSocket'[c] = conSocket[c] /\ failed'[c] = failed[c]
  BY <1>1 DEF Typed, Clears
<1>4. ASSUME NEW y \in Sockets, y # x, IsUp(y) PROVE IsUp(y)'
  <2>1. st'[y] = st[y] /\ undone' = undone
    BY <1>2, <1>4
  <2> QED
    BY <1>4, <2>1 DEF IsUp
<1>5. ASSUME NEW c \in Sockets, c # x PROVE Published(c)' <=> Published(c)
  BY <1>2, <1>5 DEF Published
<1>6. ASSUME NEW c \in Sockets, Published(c) PROVE Published(c)'
  BY <1>2, <1>6 DEF Published
<1>7. ASSUME NEW c \in Sockets, Published(c)', ~Published(c)
      PROVE  c = x /\ d = x /\ conSocket'[c] = None /\ failed'[c]
  <2>1. c = x
    BY <1>5, <1>7
  <2>2. d = x /\ st[x] = "accepting"
    BY <1>7, <2>1 DEF Published
  <2>3. conSocket[x] = x
    BY <1>1, <2>2 DEF Conn
  <2> QED
    BY <1>3, <2>1, <2>2, <2>3
<1> SUFFICES ASSUME NEW c \in Sockets PROVE Conn(c)'
  OBVIOUS
<1>8. Conn(c) /\ con[c] \in Sockets /\ conSocket[c] \in Sockets \cup {None}
  BY DEF Typed
<1>9. con'[c] = c \/ Published(con[c])'
  <2>1. con[c] = c \/ Published(con[c])
    BY <1>8 DEF Conn
  <2>2. PICK e \in Sockets : e = con[c]
    BY <1>8
  <2>3. e = c \/ Published(e)'
    BY <1>6, <2>1, <2>2
  <2>4. con' = con
    OBVIOUS
  <2> QED
    BY <2>2, <2>3, <2>4 DEF Published
<1>10. conSocket'[c] = None \/ conSocket'[c] = conSocket[c]
  BY <1>3
<1>11. ASSUME Published(c)', conSocket'[c] # None
       PROVE  con[conSocket[c]] = c /\ IsUp(conSocket[c])' /\ conSocket[c] # x
  <2>1. Published(c)
    BY <1>7, <1>11
  <2>2. PICK y \in Sockets : y = conSocket[c]
    BY <1>8, <1>10, <1>11
  <2>3. con[y] = c /\ IsUp(y)
    BY <1>8, <1>10, <1>11, <2>1, <2>2 DEF Conn
  <2>4. y # x
    BY <1>3, <1>11, <2>2, <2>3
  <2>5. IsUp(y)'
    BY <1>4, <2>3, <2>4
  <2>6. conSocket'[c] = conSocket[c]
    BY <1>10, <1>11
  <2>7. IsUp(conSocket[c])' <=> IsUp(y)'
    BY <1>10, <1>11, <2>2, <2>6 DEF IsUp
  <2> QED
    BY <2>2, <2>3, <2>4, <2>5, <2>7
<1>12. Published(c)' /\ ~failed'[c] => conSocket'[c] # None
  <2>1. ASSUME Published(c)', ~failed'[c] PROVE conSocket'[c] # None
    <3>1. Published(c)
      BY <1>7, <2>1
    <3>2. ~failed[c] /\ conSocket'[c] = conSocket[c]
      BY <1>3, <2>1
    <3> QED
      BY <1>8, <3>1, <3>2 DEF Conn
  <2> QED
    BY <2>1
<1>13. st'[c] = "accepting" /\ con'[c] = c => conSocket'[c] = c
  <2>1. ASSUME st'[c] = "accepting", con'[c] = c PROVE conSocket'[c] = c
    <3>1. c # x /\ st[c] = "accepting" /\ con[c] = c
      BY <1>2, <2>1
    <3>2. conSocket[c] = c
      BY <1>8, <3>1 DEF Conn
    <3> QED
      BY <1>3, <3>1, <3>2
  <2> QED
    BY <2>1
<1>14. st'[c] = "none" => con'[c] = c /\ conSocket'[c] = None
  BY <1>2, <1>8, <1>10 DEF Conn
<1>15. conSocket'[c] # None => st'[conSocket'[c]] # "none"
  BY <1>2, <1>8, <1>10 DEF Conn
<1>16. Published(c)' /\ conSocket'[c] # None => con'[conSocket'[c]] = c /\ IsUp(conSocket[c])' /\ conSocket'[c] = conSocket[c]
  BY <1>10, <1>11
<1> QED
  BY <1>9, <1>12, <1>13, <1>14, <1>15, <1>16 DEF Conn

\* A thread of x goes on while x is closed: t to l, its place at s.
EndsMove(t, x, l, s) ==
    /\ t = R(x) => where[t] \notin Ended /\ l \notin Ended \cup Accepts /\ s = x
    /\ t = W(x) => where[t] \notin Ended /\ l \notin Ended \cup {"connecting"} /\ s = x
    /\ t # R(x) => where[R(x)] \notin Accepts
EndedKept(x) ==
    /\ x \in all' <=> x \in all
    /\ x \in Queued' <=> x \in Queued
    /\ x = Registering' <=> x = Registering
    /\ x = Joining' <=> x = Joining
    /\ x \in accepting' => x \in accepting
    /\ x = rank' => x = rank
    /\ x = Registering => "lock to unlist" \in {where'[R(x)], where'[W(x)]}
    /\ x \notin all /\ x # Registering => unsent'[x] = 0 /\ sent'[x] = 0
LEMMA EndsLife ==
    ASSUME MessengerInv, NEW x \in Sockets, NEW t \in Threads, NEW l, NEW s, Moves(t, l),
           at' = [at EXCEPT ![t] = s], st[x] # "none", st'[x] = "closed", EndsMove(t, x, l, s),
           running' = running, EndedKept(x)
    PROVE  Life(x)'
<1> PICK r, w, k, m, z : /\ r = where[R(x)] /\ w = where[W(x)] /\ k = where'[R(x)] /\ m = where'[W(x)]
                         /\ z = st[x]
  OBVIOUS
<1>1. Life(x) /\ R(x) \in Threads /\ W(x) \in Threads /\ R(x) # W(x) /\ at \in [Threads -> Sockets \cup {None}]
  BY Session DEF MessengerInv, Typed
<1>2. /\ k = (IF t = R(x) THEN l ELSE r) /\ m = (IF t = W(x) THEN l ELSE w)
      /\ at'[R(x)] = (IF t = R(x) THEN s ELSE at[R(x)]) /\ at'[W(x)] = (IF t = W(x) THEN s ELSE at[W(x)])
  BY <1>1, WhereIs DEF Moves
<1>3. /\ t = R(x) => r \notin Ended /\ k \notin Ended \cup Accepts /\ at'[R(x)] = x
      /\ t # R(x) => k = r /\ r \notin Accepts /\ at'[R(x)] = at[R(x)]
      /\ t = W(x) => w \notin Ended /\ m \notin Ended \cup {"connecting"} /\ at'[W(x)] = x
      /\ t # W(x) => m = w /\ at'[W(x)] = at[W(x)]
  BY <1>2 DEF EndsMove
<1>4. IsAlive(x, z, r, w) /\ IsListed(x, z, r, w)
  BY <1>1 DEF Life
<1>5. k \notin Accepts /\ (k \in Ended <=> r \in Ended) /\ (k \in Ended => k = r)
  BY <1>3
<1>6. (m \in Ended <=> w \in Ended) /\ (m \in Ended => m = w)
  BY <1>3
<1>7. m = "connecting" => k \in {"none", "done"}
  <2>1. m = "connecting" => w = "connecting" /\ r \in {"none", "done"}
    BY <1>3, <1>4 DEF IsAlive
  <2>2. r \in {"none", "done"} => k = r
    BY <1>3 DEF Ended
  <2> QED
    BY <2>1, <2>2
<1>8. k \in Ended \cup Unlists \cup {"start", "loop", "read", "handshake"} => at'[R(x)] = x
  BY <1>3, <1>4 DEF IsAlive
<1>9. at'[W(x)] = x
  BY <1>3, <1>4 DEF IsAlive
<1>10. IsAlive(x, "closed", k, m)'
  BY <1>4, <1>5, <1>6, <1>7, <1>8, <1>9 DEF IsAlive, Live
<1>11. /\ (k = "reap" <=> r = "reap") /\ (m = "reap" <=> w = "reap")
       /\ (k = "none" <=> r = "none") /\ (m = "none" <=> w = "none")
       /\ (k = "done" <=> r = "done") /\ (m = "done" <=> w = "done")
  BY <1>3 DEF Ended
<1>13. /\ x \in all' <=> x \in all
       /\ x \in Queued' <=> x \in Queued
       /\ x = Registering' <=> x = Registering
       /\ x = Joining' <=> x = Joining
       /\ x \in accepting' => x \in accepting
       /\ x = rank' => x = rank
       /\ x = Registering => "lock to unlist" \in {k, m}
       /\ x \notin all /\ x # Registering => unsent'[x] = 0 /\ sent'[x] = 0
  BY DEF EndedKept
<1> HIDE DEF Ended
<1>14. IsListed(x, "closed", k, m)'
  BY <1>4, <1>5, <1>6, <1>11, <1>13 DEF IsListed, Live
<1> QED
  BY <1>10, <1>14 DEF Life

\* Thread t goes to l, at s, and socket x is closed.
EndsLists(t, x) ==
    /\ accepting' \subseteq accepting /\ rank' \in {rank, None}
    /\ rank' # rank => rank = x /\ mlock \in {t, Nobody}
    /\ Registering' = Registering /\ Joining' = Joining /\ (Stopping' = Stopping \/ Stopping = x)
    /\ x = Registering => "lock to unlist" \in {where'[R(x)], where'[W(x)]}
    /\ \A y \in Sockets : y \notin all /\ y # Registering => unsent'[y] = 0 /\ sent'[y] = 0
RefsEnd(t, l, s, c, x) ==
    /\ refs' \in [Sockets -> Int]
    /\ \A y \in Sockets :
          refs'[y] = refs[y] - (IF y = x /\ conSocket[con[x]] = x THEN 1 ELSE 0)
                       + Is(Owned(l, s, c), y) - Is(own[t], y)
Ends(t, x, l, s) ==
    /\ Moves(t, l) /\ LockStep(t) /\ MayHold(t, l)
    /\ at' = [at EXCEPT ![t] = s] /\ using' = using /\ s \in Sockets \cup {None}
    /\ st' = [st EXCEPT ![x] = "closed"] /\ st[x] # "none"
    /\ UNCHANGED <<policy, con, running, undone, all, reapq>>
    /\ QuietTypes /\ EndsLists(t, x) /\ EndsMove(t, x, l, s)
    /\ \A y \in Sockets : y # x =>
          /\ where[R(y)] \in Accepts => slock'[y] = slock[y]
          /\ t = R(y) => ReaderGoes(y, st[y], where[t], l, s)
          /\ t = W(y) => WriterGoes(y, where[t], l) /\ s = y
    /\ Clears(x) /\ RefsEnd(t, l, s, using[t], x)
    /\ IsThr(t, l, s, using[t])'

LEMMA EndsOthers ==
    ASSUME MessengerInv, NEW t \in Threads, NEW x \in Sockets, NEW l, NEW s, Ends(t, x, l, s),
           NEW y \in Sockets, y # x
    PROVE  Life(y)' /\ (st[y] = "accepting" /\ where[R(y)] = "open" => where'[R(y)] = "open")
<1>1. R(y) \in Threads /\ W(y) \in Threads /\ R(y) # W(y) /\ Life(y) /\ at[W(y)] = y
  BY Session
<1>2. at \in [Threads -> Sockets \cup {None}] /\ st \in [Sockets -> {st[z] : z \in Sockets}]
  BY DEF MessengerInv, Typed
<1>3. /\ where'[R(y)] = IF R(y) = t THEN l ELSE where[R(y)]
      /\ where'[W(y)] = IF W(y) = t THEN l ELSE where[W(y)]
      /\ at'[R(y)] = IF R(y) = t THEN s ELSE at[R(y)]
      /\ at'[W(y)] = IF W(y) = t THEN s ELSE at[W(y)]
  BY <1>1, <1>2, WhereIs DEF Ends, Moves
<1>4. /\ where[R(y)] \in Accepts => slock'[y] = slock[y]
      /\ t = R(y) => ReaderGoes(y, st[y], where[t], l, s)
      /\ t = W(y) => WriterGoes(y, where[t], l) /\ s = y
  BY DEF Ends
<1>5. st'[y] = st[y] /\ running' = running /\ undone' = undone /\ all' = all /\ Queued' = Queued
  BY <1>2 DEF Ends, Queued
<1>6. SameWork(y)
  BY <1>1, <1>3, <1>4, <1>5 DEF SameWork
<1>7. SameLists(y)
  <2>1. EndsLists(t, x)
    BY DEF Ends
  <2>2. rank' = y => rank = y
    BY <2>1, NoneIsNone DEF EndsLists
  <2>3. y \in {rank, Stopping} => y \in {rank', Stopping'}
    BY <2>1 DEF EndsLists
  <2> QED
    BY <1>5, <2>1, <2>2, <2>3 DEF SameLists, EndsLists
<1>8. st[y] = "accepting" /\ where[R(y)] = "open" => where'[R(y)] = "open"
  <2>1. ~ReaderGoes(y, "accepting", "open", l, s)
    BY DEF ReaderGoes, BusyR, CallLabels
  <2> QED
    BY <1>3, <1>4, <2>1
<1> QED
  BY <1>1, <1>6, <1>7, <1>8, LifeFrame

LEMMA EndsThr ==
    ASSUME MessengerInv, NEW t \in Threads, NEW x \in Sockets, NEW l, NEW s, Ends(t, x, l, s)
    PROVE  \A u \in Threads : Thr(u)'
<1>0. Thr(t)'
  <2>1. where'[t] = l /\ at'[t] = s /\ using'[t] = using[t]
    BY WhereIs DEF Ends, Moves, MessengerInv, Typed
  <2> QED
    BY <2>1 DEF Ends, Thr
<1> SUFFICES ASSUME NEW u \in Threads, u # t PROVE Thr(u)'
  BY <1>0
<1>1. Locked /\ Typed /\ Thr(u)
  BY DEF MessengerInv
<1>2. where'[u] = where[u] /\ using'[u] = using[u] /\ at'[u] = at[u]
  BY <1>1, WhereIs DEF Ends, Moves, Typed
<1>3. mlock' = u <=> mlock = u
  BY ThreadNames DEF Ends, LockStep
<1>4. con' = con /\ all' = all /\ undone' = undone /\ \A y \in Sockets : st'[y] \in {st[y], "closed"}
  BY <1>1 DEF Ends, Typed
<1>5. \A d \in Sockets : Published(d) => Published(d)'
  BY <1>4 DEF Published
<1>6. mlock = u => rank' = rank
  BY ThreadNames DEF Ends, EndsLists
<1>7. ASSUME rank' = rank, Vacant PROVE Vacant'
  <2>1. rank \in Sockets \cup {None}
    BY <1>1 DEF Typed
  <2>2. rank \in Sockets /\ st[rank] = "closed" => st'[rank] = "closed"
    BY <1>4
  <2> QED
    BY <1>4, <1>7, <2>1, <2>2 DEF Vacant
<1>8. \A y \in Sockets : /\ st[y] # "none" => st'[y] # "none"
                         /\ st[y] \notin {"none", "accepting"} => st'[y] # "accepting"
  BY <1>4
<1>9. mlock # u \/ (rank' = rank /\ all \subseteq all' /\ (Vacant => Vacant'))
  BY <1>4, <1>6, <1>7
<1> QED
  BY <1>1, <1>2, <1>3, <1>5, <1>8, <1>9, ThrFrame

LEMMA EndsRefs ==
    ASSUME MessengerInv, NEW t \in Threads, NEW x \in Sockets, NEW l, NEW s, Ends(t, x, l, s)
    PROVE  RefsOK'
<1> PICK c, d : c = using[t] /\ d = con[x]
  OBVIOUS
<1> PICK a, b, o : a = Owned(l, s, c) /\ b = (IF conSocket[d] = x THEN None ELSE conSocket[d]) /\ o = own[t]
  OBVIOUS
<1>1. Typed /\ RefsOK /\ d \in Sockets /\ refs \in [Sockets -> Int]
      /\ conSocket \in [Sockets -> Sockets \cup {None}]
  BY DEF MessengerInv, Typed
<1>2. own' = [own EXCEPT ![t] = a]
  <2>1. using' = [using EXCEPT ![t] = c] /\ at' = [at EXCEPT ![t] = s] /\ Moves(t, l)
    BY <1>1, Actor DEF Ends
  <2>2. own' = [own EXCEPT ![t] = Owned(l, s, c)]
    BY <1>1, <2>1, OwnStep
  <2> QED
    BY <2>2
<1>3. conSocket' = [conSocket EXCEPT ![d] = b]
  BY <1>1 DEF Ends, Clears
<1>4. \A y \in Sockets : Created(y)' = Created(y)
  BY DEF Ends, EndsLists, Created
<1>5. ASSUME NEW y \in Sockets
      PROVE  refs'[y] = refs[y] + Created(y)' - Created(y) + Is(b, y) - Is(conSocket[d], y)
                         + Is(a, y) - Is(o, y)
  <2>1. Created(y)' = Created(y) /\ Created(y) \in Int /\ Is(a, y) \in Int /\ Is(o, y) \in Int
        /\ refs[y] \in Int
    BY <1>1, <1>4 DEF Created, Is
  <2>2. Is(b, y) - Is(conSocket[d], y) = - (IF y = x /\ conSocket[d] = x THEN 1 ELSE 0)
    BY <1>1, NoneIsNone DEF Is
  <2>3. Is(b, y) \in Int /\ Is(conSocket[d], y) \in Int
    BY DEF Is
  <2>4. refs'[y] = refs[y] - (IF y = x /\ conSocket[d] = x THEN 1 ELSE 0) + Is(a, y) - Is(o, y)
    BY DEF Ends, RefsEnd
  <2> QED
    BY <2>1, <2>2, <2>3, <2>4
<1>6. RefsMove(t, a, d, b)
  BY <1>2, <1>3, <1>5 DEF RefsMove
<1> QED
  BY <1>1, <1>6, RefsStep

LEMMA EndsKeeps ==
    ASSUME MessengerInv, NEW t \in Threads, NEW x \in Sockets, NEW l, NEW s, Ends(t, x, l, s)
    PROVE  MessengerInv'
<1>0. Typed /\ Locked /\ NoTwice /\ \A c \in Sockets : Conn(c)
  BY DEF MessengerInv
<1>1. Locked'
  BY <1>0, LockedStep DEF Ends
<1>2. Typed'
  <2>1. at' \in [Threads -> Sockets \cup {None}] /\ using' \in [Threads -> Sockets \cup {None}]
    BY <1>0 DEF Typed, Ends
  <2>2. rank' \in Sockets \cup {None} /\ accepting' \subseteq Sockets
    BY <1>0 DEF Typed, Ends, EndsLists
  <2>3. UNCHANGED <<policy, con, running, all, reapq>>
    BY DEF Ends
  <2>4. QuietTypes /\ refs' \in [Sockets -> Int]
    BY DEF Ends, RefsEnd
  <2>5. st' \in [Sockets -> {"none", "accepting", "connecting", "open", "standby", "closed"}]
    BY <1>0 DEF Typed, Ends
  <2>6. conSocket' \in [Sockets -> Sockets \cup {None}] /\ failed' \in [Sockets -> BOOLEAN]
    BY <1>0 DEF Typed, Ends, Clears
  <2> QED
    BY <1>0, <2>1, <2>2, <2>3, <2>4, <2>5, <2>6 DEF Typed, QuietTypes
<1>3. NoTwice'
  BY <1>0 DEF Ends, NoTwice
<1>4. Life(x)'
  <2>1. Queued' = Queued /\ all' = all
    BY DEF Ends, Queued
  <2>2. EndedKept(x)
    BY <2>1, NoneIsNone DEF Ends, EndsLists, EndedKept
  <2>3. st'[x] = "closed"
    BY <1>0 DEF Ends, Typed
  <2> QED
    BY <2>2, <2>3, EndsLife DEF Ends
<1>5. \A y \in Sockets : Life(y)'
  BY <1>4, EndsOthers
<1>6. \A c \in Sockets : Conn(c)'
  <2>1. \A y \in Sockets : y # x /\ st[y] = "accepting" /\ where[R(y)] = "open" => where'[R(y)] = "open"
    BY EndsOthers
  <2>2. /\ st[x] # "none" /\ st' = [st EXCEPT ![x] = "closed"] /\ con' = con /\ undone' = undone
        /\ Clears(x)
    BY DEF Ends
  <2> QED
    BY <1>0, <2>1, <2>2, ConnClosed
<1> QED
  BY <1>1, <1>2, <1>3, <1>5, <1>6, EndsRefs, EndsThr DEF MessengerInv

\* The references of a socket that its connection lets go of.
LEMMA Cleared ==
    ASSUME Typed, NEW x \in Sockets, ClearSocket(con[x], x)
    PROVE  /\ Clears(x) /\ refs' \in [Sockets -> Int]
           /\ \A y \in Sockets :
                 refs'[y] = refs[y] - (IF y = x /\ conSocket[con[x]] = x THEN 1 ELSE 0)
BY DEF Typed, ClearSocket, Clears

LEMMA NewlyClosed ==
    ASSUME MessengerInv, NEW x \in Sockets, st' = [st EXCEPT ![x] = "closed"], con' = con, NEW c
    PROVE  c \in Sockets /\ Published(c) => Published(c)'
BY DEF MessengerInv, Typed, Published

\* A caller marks socket x down.
CallerEnds(t, x, l) ==
    /\ Moves(t, l) /\ LockStep(t) /\ (l = "mark all" => mlock' = t) /\ (l # "mark all" => mlock' # t)
    /\ x = at[t] /\ st' = [st EXCEPT ![x] = "closed"] /\ slock[x] = Nobody
    /\ UNCHANGED <<policy, slock, at, using, rank, accepting, all, con, running, dispatching, notify,
                   unsent, sent, reapq, undone>>
    /\ Clears(x) /\ RefsEnd(t, l, x, using[t], x)
LEMMA CallerEndsKeeps ==
    ASSUME MessengerInv, NEW t \in Threads, where[t] \in {"lock to stop", "lock to stop all"},
           NEW x \in Sockets, NEW l, l \in {Return(t), "mark all"}, CallerEnds(t, x, l)
    PROVE  MessengerInv'
<1> PICK c : c = using[t]
  OBVIOUS
<1>1. /\ Typed /\ Locked /\ at = [at EXCEPT ![t] = x] /\ c \in Sockets \cup {None}
      /\ (c = None \/ Published(c)) /\ mlock = t /\ st[x] # "none" /\ x \in all
  <2>1. IsThr(t, where[t], at[t], using[t]) /\ (where[t] \in HasM => mlock = t)
    BY Actor
  <2> QED
    BY <2>1, Actor DEF IsThr, HasM, CallerEnds
<1>2. l \in CallLabels \/ l = Return(t)
  BY DEF CallLabels
<1>3. IsAt(t, l) /\ QuietMove(t, l, x)
  BY <1>2, CallMove DEF CallLabels
<1>4. Moves(t, l) /\ LockStep(t) /\ MayHold(t, l)
  BY <1>3 DEF CallerEnds, MayHold, HasM, Return
<1>5. where[R(x)] \notin Accepts
  BY Acceptor DEF CallerEnds
<1>6. where'[t] = l /\ at' = at /\ mlock' \in {t, Nobody} /\ (mlock' = t => l = "mark all")
  BY <1>1, WhereIs, ThreadNames DEF Moves, CallerEnds, LockStep
<1>7. EndsLists(t, x)
  <2>1. Registering = None /\ Stopping = x
    BY <1>1, ThreadNames DEF Registering, Stopping, CallerEnds
  <2>2. Registering' = None
    BY <1>6 DEF Registering
  <2>3. Joining' = Joining
    <3>1. t # Reaper
      <4>1. IsAt(t, where[t])
        BY <1>1 DEF Locked
      <4> QED
        BY <4>1, ThreadNames DEF IsAt, ReaperLabels
    <3> QED
      BY <1>6, <3>1, WhereIs, ThreadNames DEF Moves, Joining, CallerEnds
  <2>4. ASSUME NEW y \in Sockets, y \notin all, y # Registering PROVE unsent'[y] = 0 /\ sent'[y] = 0
    <3>1. unsent[y] = 0 /\ sent[y] = 0
      BY <2>4 DEF MessengerInv, Life, IsListed
    <3> QED
      BY <3>1 DEF CallerEnds
  <2>5. accepting' = accepting /\ rank' = rank
    BY DEF CallerEnds
  <2> QED
    BY <2>1, <2>2, <2>3, <2>4, <2>5, NoneIsNone DEF EndsLists
<1>8. EndsMove(t, x, l, x)
  <2>1. l \notin Ended \cup Accepts /\ where[t] \notin Ended
    BY DEF Return, Ended, Accepts
  <2>2. t # W(x)
    <3>1. ~WriterGoes(x, where[t], l)
      BY DEF WriterGoes, BusyW
    <3> QED
      BY <1>3, <3>1 DEF QuietMove
  <2> QED
    BY <1>5, <2>1, <2>2 DEF EndsMove
<1>9. IsThr(t, l, x, c)'
  <2>1. c = None \/ Published(c)'
    BY <1>1, NewlyClosed DEF CallerEnds
  <2>2. l \notin Special
    BY DEF Return, Special
  <2> QED
    BY <2>1, <2>2, ThrSimple
<1>10. QuietTypes
  BY <1>1 DEF Typed, QuietTypes, CallerEnds
<1>11. \A y \in Sockets : y # x =>
          /\ where[R(y)] \in Accepts => slock'[y] = slock[y]
          /\ t = R(y) => ReaderGoes(y, st[y], where[t], l, x)
          /\ t = W(y) => WriterGoes(y, where[t], l) /\ x = y
  BY <1>3 DEF QuietMove, CallerEnds
<1>12. IsThr(t, l, x, using[t])'
  BY <1>9 DEF CallerEnds
<1>13. Ends(t, x, l, x)
  BY <1>1, <1>4, <1>7, <1>8, <1>10, <1>11, <1>12 DEF Ends, CallerEnds
<1> QED
  BY <1>13, EndsKeeps

LEMMA StopItEnds ==
    ASSUME MessengerInv, NEW t \in Threads, StopIt(t)
    PROVE  MessengerInv'
<1> USE DEF locks, lists, owners, flags, queues, stops, ghosts
<1> PICK x, c : x = at[t] /\ c = using[t]
  OBVIOUS
<1>1. /\ Typed /\ IsPc(pc) /\ where[t] = "lock to stop" /\ own[t] = Owned(where[t], at[t], using[t])
      /\ IsThr(t, "lock to stop", x, c) /\ x \in Sockets \cup {None}
  BY Actor DEF StopIt, At, Plain
<1>2. x \in Sockets
  BY <1>1 DEF IsThr
<1> PICK a, b : a = (IF c = None THEN 0 ELSE 1) /\ b = (IF conSocket[con[x]] = x THEN 1 ELSE 0)
  OBVIOUS
<1>3. refs' = [refs EXCEPT ![x] = @ - a - b] /\ refs \in [Sockets -> Int]
  BY <1>1 DEF StopIt, Typed
<1>12. a \in {0, 1} /\ b \in {0, 1}
  OBVIOUS
<1>4. Owned(Return(t), x, c) = None /\ own[t] = IF c = None THEN None ELSE x
  BY <1>1 DEF Owned, Return
<1>5. RefsEnd(t, Return(t), x, c, x)
  <2>1. refs' \in [Sockets -> Int]
    <3>1. refs[x] - a - b \in Int
      BY <1>2, <1>3, <1>12
    <3> QED
      BY <1>3, <3>1
  <2>2. ASSUME NEW y \in Sockets
        PROVE  refs'[y] = refs[y] - (IF y = x /\ conSocket[con[x]] = x THEN 1 ELSE 0)
                           + Is(None, y) - Is(own[t], y)
    <3>1. Is(None, y) = 0 /\ Is(own[t], y) = IF y = x THEN a ELSE 0
      BY <1>2, <1>4, NoneIsNone DEF Is
    <3>2. refs'[y] = IF y = x THEN refs[y] - a - b ELSE refs[y]
      BY <1>2, <1>3
    <3>3. refs[y] \in Int
      BY <1>3
    <3> QED
      BY <3>1, <3>2, <3>3
  <2> QED
    BY <1>4, <2>1, <2>2 DEF RefsEnd
<1>6. Moves(t, Return(t))
  <2>1. Plain(Return(t)) = Return(t) /\ GoSignal(t, Return(t), x)
    BY DEF Plain, Return, StopIt
  <2> QED
    BY <1>1, <2>1, SignalMoves
<1>7. LockStep(t) /\ mlock' # t
  BY ThreadNames DEF StopIt, GiveM, LockStep
<1>8. Clears(x)
  <2>1. /\ conSocket' = IF b = 1 THEN [conSocket EXCEPT ![con[x]] = None] ELSE conSocket
        /\ failed' = IF b = 1 THEN [failed EXCEPT ![con[x]] = TRUE] ELSE failed
    BY DEF StopIt
  <2> QED
    BY <2>1 DEF Clears
<1>9. /\ st' = [st EXCEPT ![x] = "closed"] /\ slock[x] = Nobody
      /\ UNCHANGED <<policy, slock, at, using, rank, accepting, all, con, running, dispatching, notify,
                     unsent, sent, reapq, undone>>
  BY DEF StopIt, Pass
<1>10. Return(t) # "mark all"
  BY DEF Return
<1>11. CallerEnds(t, x, Return(t))
  BY <1>5, <1>6, <1>7, <1>8, <1>9, <1>10 DEF CallerEnds
<1> QED
  BY <1>1, <1>2, <1>11, CallerEndsKeeps

LEMMA StopOneOfAllEnds ==
    ASSUME MessengerInv, NEW t \in Threads, StopOneOfAll(t)
    PROVE  MessengerInv'
<1> USE DEF locks, lists, owners, flags, queues, stops, ghosts
<1> PICK x, c : x = at[t] /\ c = using[t]
  OBVIOUS
<1>1. /\ Typed /\ IsPc(pc) /\ where[t] = "lock to stop all" /\ own[t] = Owned(where[t], at[t], using[t])
      /\ IsThr(t, "lock to stop all", x, c) /\ x \in Sockets \cup {None} /\ mlock = t
  BY Actor DEF StopOneOfAll, At, Plain, HasM
<1>2. x \in Sockets
  BY <1>1 DEF IsThr
<1>3. ClearSocket(con[x], x)
  BY DEF StopOneOfAll
<1>4. /\ Clears(x) /\ refs' \in [Sockets -> Int]
      /\ \A y \in Sockets : refs'[y] = refs[y] - (IF y = x /\ conSocket[con[x]] = x THEN 1 ELSE 0)
  BY <1>1, <1>2, <1>3, Cleared
<1>5. RefsEnd(t, "mark all", x, c, x)
  <2>1. Owned("mark all", x, c) = None /\ own[t] = None
    BY <1>1 DEF Owned
  <2>2. \A y \in Sockets : Is(None, y) = 0 /\ refs[y] \in Int
    BY <1>1, NoneIsNone DEF Is, Typed
  <2>3. ASSUME NEW y \in Sockets
        PROVE  refs'[y] = refs[y] - (IF y = x /\ conSocket[con[x]] = x THEN 1 ELSE 0)
                           + Is(None, y) - Is(None, y)
    BY <1>4, <2>2
  <2> QED
    BY <1>4, <2>1, <2>3 DEF RefsEnd
<1>6. Moves(t, "mark all")
  <2>1. Plain("mark all") = "mark all" /\ GoSignal(t, "mark all", x)
    BY DEF Plain, StopOneOfAll
  <2> QED
    BY <1>1, <2>1, SignalMoves
<1>7. mlock' = t /\ LockStep(t)
  BY <1>1 DEF StopOneOfAll, LockStep
<1>8. /\ st' = [st EXCEPT ![x] = "closed"] /\ slock[x] = Nobody
      /\ UNCHANGED <<policy, slock, at, using, rank, accepting, all, con, running, dispatching, notify,
                     unsent, sent, reapq, undone>>
  BY DEF StopOneOfAll, Pass
<1>9. CallerEnds(t, x, "mark all")
  BY <1>4, <1>5, <1>6, <1>7, <1>8 DEF CallerEnds
<1> QED
  BY <1>1, <1>2, <1>9, CallerEndsKeeps

LEMMA RefsEnds ==
    ASSUME Typed, NEW x \in Sockets, ClearSocket(con[x], x), NEW t, NEW l, NEW s, NEW c,
           own[t] = None, Owned(l, s, c) = None
    PROVE  Clears(x) /\ RefsEnd(t, l, s, c, x)
<1>1. /\ Clears(x) /\ refs' \in [Sockets -> Int]
      /\ \A y \in Sockets : refs'[y] = refs[y] - (IF y = x /\ conSocket[con[x]] = x THEN 1 ELSE 0)
  BY Cleared
<1>2. \A y \in Sockets : Is(None, y) = 0 /\ refs[y] \in Int
  BY NoneIsNone DEF Is, Typed
<1>3. ASSUME NEW y \in Sockets
      PROVE  refs'[y] = refs[y] - (IF y = x /\ conSocket[con[x]] = x THEN 1 ELSE 0)
                         + Is(None, y) - Is(None, y)
  BY <1>1, <1>2
<1> QED
  BY <1>1, <1>3 DEF RefsEnd

\* A reader or a writer of x ends the session of x.
SelfEnds(t, x, l) ==
    /\ Moves(t, l) /\ LockStep(t) /\ mlock' # t /\ at' = [at EXCEPT ![t] = x]
    /\ st[x] # "none" /\ st' = [st EXCEPT ![x] = "closed"]
    /\ UNCHANGED <<policy, using, rank, accepting, all, con, running, dispatching, notify, unsent, sent,
                   reapq, undone>>
    /\ x = Registering => "lock to unlist" \in {where'[R(x)], where'[W(x)]}
    /\ t # R(x) => where[R(x)] \notin Accepts
    /\ slock' \in [Sockets -> Threads \cup {Nobody}]
    /\ \A y \in Sockets : y # x /\ where[R(y)] \in Accepts => slock'[y] = slock[y]
    /\ ClearSocket(con[x], x)
LEMMA SelfEndsKeeps ==
    ASSUME MessengerInv, NEW x \in Sockets, NEW t \in {R(x), W(x)},
           where[t] \in {"handshake", "open", "read", "write"},
           NEW l \in {"loop", "lock to unlist"}, SelfEnds(t, x, l)
    PROVE  MessengerInv'
<1> PICK c : c = using[t]
  OBVIOUS
<1>1. /\ t \in Threads /\ Typed /\ Locked /\ at \in [Threads -> Sockets \cup {None}]
      /\ c \in Sockets \cup {None} /\ (c = None \/ Published(c))
      /\ own[t] = Owned(where[t], at[t], using[t])
  <2>1. t \in Threads
    BY Session
  <2> QED
    BY <2>1, Actor DEF IsThr, Typed
<1>2. Moves(t, l) /\ LockStep(t) /\ MayHold(t, l)
  <2>1. IsAt(t, l)
    BY SessionAt DEF ReaderLabels, WriterLabels, Unlists
  <2> QED
    BY <2>1 DEF SelfEnds, MayHold, HasM
<1>3. Locked'
  BY <1>1, <1>2, LockedStep
<1>4. where[t] \notin Marks /\ l \notin Marks
  BY DEF Marks
<1>5. MarksSame
  <2>1. ASSUME NEW u \in Threads, u # t PROVE where'[u] = where[u] /\ at'[u] = at[u]
    BY <1>1, <1>2, <2>1, WhereIs DEF Moves, SelfEnds
  <2>2. where'[t] = l
    BY <1>1, <1>2, WhereIs DEF Moves
  <2> QED
    BY <1>1, <1>3, <1>4, <2>1, <2>2, MarksStep
<1>6. EndsLists(t, x)
  <2>1. ASSUME NEW y \in Sockets, y \notin all, y # Registering PROVE unsent'[y] = 0 /\ sent'[y] = 0
    <3>1. unsent[y] = 0 /\ sent[y] = 0
      BY <2>1 DEF MessengerInv, Life, IsListed
    <3> QED
      BY <3>1 DEF SelfEnds
  <2> QED
    BY <1>5, <2>1 DEF EndsLists, MarksSame, SelfEnds
<1>7. EndsMove(t, x, l, x)
  BY DEF EndsMove, Ended, Accepts, SelfEnds
<1>8. IsThr(t, l, x, using[t])'
  <2>1. c = None \/ Published(c)'
    BY <1>1, NewlyClosed DEF SelfEnds
  <2>2. l \notin Special
    BY DEF Special
  <2>3. IsThr(t, l, x, c)'
    BY <2>1, <2>2, ThrSimple
  <2> QED
    BY <2>3 DEF SelfEnds
<1>9. QuietTypes
  BY <1>1 DEF Typed, QuietTypes, SelfEnds
<1>10. \A y \in Sockets : y # x => t # R(y) /\ t # W(y)
  BY ThreadNames
<1>11. Clears(x) /\ RefsEnd(t, l, x, using[t], x)
  <2>1. own[t] = None /\ Owned(l, x, c) = None
    BY <1>1 DEF Owned
  <2> QED
    BY <1>1, <2>1, RefsEnds DEF SelfEnds
<1>12. Ends(t, x, l, x)
  BY <1>2, <1>6, <1>7, <1>8, <1>9, <1>10, <1>11 DEF Ends, SelfEnds
<1> QED
  BY <1>1, <1>12, EndsKeeps

\* A socket that is accepted is listed already.
LEMMA AcceptedIsListed ==
    ASSUME MessengerInv, NEW x \in Sockets, where[R(x)] \in Accepts
    PROVE  x # Registering
<1>1. Life(x) /\ x \in all
  BY Acceptor, Session
<1> QED
  BY <1>1 DEF Life, IsListed

LEMMA HandshakeFailsEnds ==
    ASSUME MessengerInv, NEW x \in Sockets, HandshakeFails(x) \/ (LockMessenger(x) /\ dqStop)
    PROVE  MessengerInv'
<1> USE DEF locks, lists, owners, flags, queues, stops, ghosts
<1> PICK t : t = R(x)
  OBVIOUS
<1>1. /\ Typed /\ IsPc(pc) /\ t \in Threads /\ where[t] = "handshake" /\ at[t] = x
      /\ at = [at EXCEPT ![t] = at[t]] /\ mlock # t
  <2>1. t \in Threads /\ pc[t] = "handshake"
    BY Session DEF HandshakeFails, LockMessenger, At
  <2>2. where[t] = "handshake"
    BY <2>1, Actor DEF Plain
  <2> QED
    BY <2>1, <2>2, Actor, Session DEF HasM, MayM
<1>2. /\ Go(t, "loop") /\ mlock' = mlock /\ slock' = slock /\ at' = at
      /\ st' = [st EXCEPT ![x] = "closed"] /\ ClearSocket(con[x], x)
      /\ UNCHANGED <<policy, using, rank, accepting, all, con, running, dispatching, notify, unsent, sent,
                     reapq, undone>>
  BY DEF HandshakeFails, LockMessenger, PassM
<1>3. Moves(t, "loop")
  BY <1>1, <1>2, GoMoves DEF Plain
<1>4. st[x] # "none" /\ x # Registering
  BY <1>1, Acceptor, AcceptedIsListed DEF Accepts
<1>5. slock' \in [Sockets -> Threads \cup {Nobody}]
  BY <1>1, <1>2 DEF Typed
<1>6. SelfEnds(t, x, "loop")
  BY <1>1, <1>2, <1>3, <1>4, <1>5 DEF SelfEnds, LockStep
<1> QED
  BY <1>1, <1>6, SelfEndsKeeps

LEMMA OpenedEnds ==
    ASSUME MessengerInv, NEW x \in Sockets, Opened(x), dqStop
    PROVE  MessengerInv'
<1> USE DEF locks, lists, owners, flags, queues, stops, ghosts
<1> PICK t, a : t = R(x) /\ a = at[t]
  OBVIOUS
<1>1. /\ Typed /\ IsPc(pc) /\ t \in Threads /\ where[t] = "open" /\ mlock = t
      /\ IsThr(t, "open", a, using[t])
  <2>1. t \in Threads /\ where[t] = "open"
    BY Actor, Session DEF Opened, At, Plain
  <2> QED
    BY <2>1, Actor DEF HasM
<1>2. /\ Go(t, "loop") /\ mlock' = Nobody /\ at' = [at EXCEPT ![t] = x]
      /\ st' = [st EXCEPT ![x] = "closed"] /\ ClearSocket(con[x], x)
      /\ UNCHANGED <<policy, using, rank, accepting, all, con, running, dispatching, notify, unsent, sent,
                     reapq, undone>>
      /\ slock' = [y \in Sockets |-> IF y = a THEN Nobody ELSE slock[y]]
  BY <1>1 DEF Opened, GiveBoth, GiveM
<1>3. Moves(t, "loop")
  BY <1>1, <1>2, GoMoves DEF Plain
<1>4. st[x] # "none" /\ x # Registering
  BY <1>1, Acceptor, AcceptedIsListed DEF Accepts
<1>5. slock' \in [Sockets -> Threads \cup {Nobody}]
  BY <1>1, <1>2 DEF Typed
<1>6. ASSUME NEW y \in Sockets, where[R(y)] \in Accepts PROVE slock'[y] = slock[y]
  <2>1. st[y] = "accepting"
    BY <1>6, Acceptor
  <2>2. y # a
    BY <1>1, <2>1, NoneIsNone DEF IsThr
  <2> QED
    BY <1>2, <2>2
<1>7. LockStep(t) /\ mlock' # t
  BY <1>1, <1>2, ThreadNames DEF LockStep
<1>8. SelfEnds(t, x, "loop")
  BY <1>2, <1>3, <1>4, <1>5, <1>6, <1>7 DEF SelfEnds
<1> QED
  BY <1>1, <1>8, SelfEndsKeeps

\* A reader or a writer that finds its connection broken.
Faulty(t, x) == (t = R(x) /\ where[t] = "read") \/ (t = W(x) /\ where[t] = "write")
LEMMA FaultAt ==
    ASSUME MessengerInv, NEW x \in Sockets, NEW t, Faulty(t, x)
    PROVE  /\ t \in {R(x), W(x)} /\ t \in Threads /\ Typed /\ IsPc(pc) /\ mlock # t
           /\ at = [at EXCEPT ![t] = x] /\ st[x] \notin {"none", "accepting"}
           /\ where[R(x)] \notin Accepts
           /\ (Holds(t, x) => slock[x] \in {t, Nobody})
<1>1. Life(x) /\ t \in {R(x), W(x)} /\ t \in Threads /\ where[t] \in {"read", "write"}
  BY Session DEF Faulty
<1>2. Typed /\ IsPc(pc) /\ mlock # t /\ at = [at EXCEPT ![t] = at[t]]
  BY <1>1, Actor DEF HasM, MayM
<1>3. at[t] = x
  BY <1>1, Session DEF Faulty
<1>4. st[x] \notin {"none", "accepting"}
  BY <1>1 DEF Life, IsAlive, Accepts, Faulty
<1>5. where[R(x)] \notin Accepts
  BY <1>4, Acceptor
<1> QED
  BY <1>1, <1>2, <1>3, <1>4, <1>5 DEF Holds

FaultRest ==
    UNCHANGED <<policy, mlock, at, using, rank, accepting, all, con, running, dispatching, notify, reapq,
                undone>>
LEMMA FaultClosedEnds ==
    ASSUME MessengerInv, NEW x \in Sockets, NEW t, Faulty(t, x), FaultClosed(t, x), FaultRest
    PROVE  MessengerInv'
<1> USE DEF queues
<1>1. /\ t \in {R(x), W(x)} /\ t \in Threads /\ Typed /\ IsPc(pc) /\ mlock # t
      /\ at = [at EXCEPT ![t] = x] /\ where[R(x)] \notin Accepts /\ slock[x] \in {t, Nobody}
  BY FaultAt DEF FaultClosed
<1>2. Moves(t, "loop")
  <2>1. Plain("loop") = "loop" /\ GoSignal(t, "loop", x)
    BY DEF Plain, FaultClosed
  <2> QED
    BY <1>1, <2>1, SignalMoves
<1>3. slock' \in [Sockets -> Threads \cup {Nobody}] /\ AcceptorsKeep
  <2>1. slock' = [slock EXCEPT ![x] = t]
    BY DEF FaultClosed, Keep
  <2>2. t = R(x) => where[t] \notin Accepts
    BY <1>1
  <2> QED
    BY <1>1, <2>1, <2>2, SlockStep
<1>4. st[x] = "closed" /\ st' = [st EXCEPT ![x] = "closed"]
  BY <1>1 DEF FaultClosed, Typed
<1>5. x = Registering => "lock to unlist" \in {where'[R(x)], where'[W(x)]}
  <2>1. x = Registering => "lock to unlist" \in {where[R(x)], where[W(x)]}
    BY <1>4, Session DEF Life, IsListed
  <2>2. where[t] # "lock to unlist" /\ R(x) \in Threads /\ W(x) \in Threads
    BY Session DEF Faulty
  <2>3. \A u \in Threads : u # t => where'[u] = where[u]
    BY <1>2, WhereIs DEF Moves
  <2> QED
    BY <2>1, <2>2, <2>3
<1>6. SelfEnds(t, x, "loop")
  BY <1>1, <1>2, <1>3, <1>4, <1>5 DEF SelfEnds, FaultClosed, FaultRest, AcceptorsKeep, LockStep
<1> QED
  BY <1>1, <1>6, SelfEndsKeeps DEF Faulty

LEMMA FaultLossyEnds ==
    ASSUME MessengerInv, NEW x \in Sockets, NEW t, Faulty(t, x), FaultLossy(t, x), FaultRest
    PROVE  MessengerInv'
<1> USE DEF queues
<1>1. /\ t \in {R(x), W(x)} /\ t \in Threads /\ Typed /\ IsPc(pc) /\ mlock # t /\ st[x] # "none"
      /\ at = [at EXCEPT ![t] = x] /\ where[R(x)] \notin Accepts /\ slock[x] \in {t, Nobody}
  BY FaultAt DEF FaultLossy
<1>2. Moves(t, "lock to unlist")
  <2>1. Plain("lock to unlist") = "lock to unlist" /\ GoWaking(t, "lock to unlist", Sleepers(x))
    BY DEF Plain, FaultLossy
  <2>2. \A u \in Sleepers(x) : pc[u] \in {"asleep", "await"}
    BY DEF Sleepers
  <2> QED
    <3>1. IsPc(pc) /\ t \in Threads
      BY <1>1
    <3>2. Moves(t, Plain("lock to unlist"))
      BY <2>1, <2>2, <3>1, GoWakingMoves
    <3> QED
      BY <2>1, <3>2
<1>3. slock' \in [Sockets -> Threads \cup {Nobody}] /\ AcceptorsKeep
  <2>1. slock' = [slock EXCEPT ![x] = Nobody]
    BY DEF FaultLossy, Give
  <2>2. t = R(x) => where[t] \notin Accepts
    BY <1>1
  <2> QED
    BY <1>1, <2>1, <2>2, SlockStep
<1>4. "lock to unlist" \in {where'[R(x)], where'[W(x)]}
  BY <1>1, <1>2, WhereIs DEF Moves
<1>5. SelfEnds(t, x, "lock to unlist")
  BY <1>1, <1>2, <1>3, <1>4 DEF SelfEnds, FaultLossy, FaultRest, AcceptorsKeep, LockStep
<1> QED
  BY <1>1, <1>5, SelfEndsKeeps DEF Faulty

\* What is known of an acceptor that replaces the socket that is registered.
LEMMA Replacer ==
    ASSUME MessengerInv, NEW x \in Sockets, NEW t, t = R(x), NEW old, old = at[t], Replace(x)
    PROVE  /\ t \in Threads /\ Typed /\ Locked /\ mlock = t /\ where[t] = "replace" /\ Moves(t, "open")
           /\ old \in Sockets /\ old \in all /\ old = rank /\ old # x
           /\ st[old] \notin {"none", "accepting"} /\ where[R(old)] \notin Accepts
           /\ st[x] = "accepting" /\ slock[x] = t /\ x \in all /\ where[W(x)] = "none"
           /\ at = [at EXCEPT ![t] = old] /\ own[t] = None
           /\ rank' = None /\ accepting' = accepting
<1>1. t \in Threads /\ pc[t] = "replace" /\ GoSignal(t, "open", old)
  BY Session DEF Replace, At
<1>2. where[t] = "replace"
  BY <1>1, Actor DEF Plain
<1>3. /\ Typed /\ Locked /\ IsPc(pc) /\ mlock = t /\ at = [at EXCEPT ![t] = old] /\ own[t] = None
      /\ IsThr(t, "replace", old, using[t]) /\ old \in Sockets \cup {None}
  BY <1>1, <1>2, Actor DEF HasM, Owned
<1>4. Moves(t, "open")
  BY <1>1, <1>3, SignalMoves DEF Plain
<1>5. old \in Sockets /\ old \in all /\ old = rank
  BY <1>3 DEF IsThr
<1>6. st[old] \notin {"none", "accepting"}
  <2>1. Life(old)
    BY <1>5, Session
  <2> QED
    BY <1>5, <2>1 DEF Life, IsListed
<1>7. where[R(old)] \notin Accepts
  BY <1>5, <1>6, Acceptor
<1>8. st[x] = "accepting" /\ slock[x] = t /\ x \in all /\ where[W(x)] = "none"
  BY <1>2, Acceptor DEF Accepts
<1>9. rank' = None /\ accepting' = accepting
  BY <1>5 DEF Replace, unregister_socket
<1> QED
  BY <1>1, <1>2, <1>3, <1>4, <1>5, <1>6, <1>7, <1>8, <1>9

\* Nobody registers or marks a socket down while another thread has the lock.
LEMMA NoMarks ==
    ASSUME MessengerInv, NEW t \in Threads, mlock = t, where[t] \notin Marks
    PROVE  Registering = None /\ Stopping = None
BY DEF Registering, Stopping, Marks

LEMMA MoverMarks ==
    ASSUME MessengerInv, NEW t \in Threads, NEW l, NEW s, Moves(t, l), LockStep(t), MayHold(t, l),
           at' = [at EXCEPT ![t] = s], where[t] \notin Marks, l \notin Marks
    PROVE  MarksSame
<1>1. Locked /\ Locked' /\ at \in [Threads -> Sockets \cup {None}]
  BY LockedStep DEF MessengerInv, Typed
<1>2. ASSUME NEW u \in Threads, u # t PROVE where'[u] = where[u] /\ at'[u] = at[u]
  BY <1>1, <1>2, WhereIs DEF Moves
<1>3. where'[t] = l
  BY WhereIs DEF Moves
<1> QED
  BY <1>1, <1>2, <1>3, MarksStep

\* The queues of a socket that is not listed are empty, and stay so if only others change.
LEMMA QueuesKept ==
    ASSUME MessengerInv, NEW y \in Sockets, y \notin all, y # Registering,
           unsent'[y] \in {0, unsent[y]}, sent'[y] \in {0, sent[y]}
    PROVE  unsent'[y] = 0 /\ sent'[y] = 0
BY DEF MessengerInv, Life, IsListed

LEMMA ReplaceEnds ==
    ASSUME MessengerInv, NEW x \in Sockets, Replace(x), policy.lossy
    PROVE  MessengerInv'
<1> USE DEF locks, lists, owners, flags, queues, stops, ghosts
<1> PICK t, old, c : t = R(x) /\ old = at[t] /\ c = using[t]
  OBVIOUS
<1>1. /\ t \in Threads /\ Typed /\ Locked /\ mlock = t /\ where[t] = "replace" /\ Moves(t, "open")
      /\ old \in Sockets /\ old \in all /\ old = rank /\ old # x
      /\ st[old] \notin {"none", "accepting"} /\ where[R(old)] \notin Accepts
      /\ st[x] = "accepting" /\ slock[x] = t /\ x \in all /\ where[W(x)] = "none"
      /\ at = [at EXCEPT ![t] = old] /\ own[t] = None
      /\ rank' = None /\ accepting' = accepting
  BY Replacer
<1>2. /\ st' = [st EXCEPT ![old] = "closed"] /\ ClearSocket(con[old], old)
      /\ unsent' = [unsent EXCEPT ![old] = 0] /\ sent' = [sent EXCEPT ![old] = 0]
      /\ UNCHANGED <<policy, mlock, slock, at, using, all, con, running, dispatching, notify, reapq, undone>>
  BY DEF Replace
<1>3. MayHold(t, "open") /\ LockStep(t)
  <2>1. IsAt(t, "open")
    BY SessionAt DEF ReaderLabels, Accepts
  <2> QED
    BY <1>1, <1>2, <2>1 DEF MayHold, HasM, LockStep
<1>4. MarksSame
  BY <1>1, <1>2, <1>3, MoverMarks DEF Marks
<1>5. Registering = None
  BY <1>1, NoMarks DEF Marks
<1>6. EndsLists(t, old)
  <2>1. \A y \in Sockets : unsent'[y] \in {0, unsent[y]} /\ sent'[y] \in {0, sent[y]}
    BY <1>1, <1>2 DEF Typed
  <2>2. \A y \in Sockets : y \notin all /\ y # Registering => unsent'[y] = 0 /\ sent'[y] = 0
    BY <2>1, QueuesKept
  <2> QED
    BY <1>1, <1>4, <1>5, <2>2, NoneIsNone DEF EndsLists, MarksSame
<1>7. EndsMove(t, old, "open", old)
  BY <1>1, ThreadNames DEF EndsMove
<1>8. ASSUME NEW y \in Sockets, y # old
      PROVE  /\ where[R(y)] \in Accepts => slock'[y] = slock[y]
             /\ t = R(y) => ReaderGoes(y, st[y], where[t], "open", old)
             /\ t = W(y) => WriterGoes(y, where[t], "open") /\ old = y
  <2>1. (t = R(y) => y = x) /\ t # W(y)
    BY ThreadNames
  <2>2. slock' = slock
    BY <1>2
  <2>3. ReaderGoes(x, st[x], where[t], "open", old)
    BY <1>1, <2>2 DEF ReaderGoes, Accepts
  <2> QED
    BY <2>1, <2>2, <2>3
<1>9. Clears(old) /\ RefsEnd(t, "open", old, using[t], old)
  <2>1. Owned("open", old, c) = None
    BY DEF Owned
  <2> QED
    BY <1>1, <1>2, <2>1, RefsEnds
<1>10. IsThr(t, "open", old, using[t])'
  <2>1. c = None \/ Published(c)'
    <3>1. c = None \/ (c \in Sockets /\ Published(c))
      BY <1>1, Actor DEF IsThr
    <3> QED
      BY <1>1, <1>2, <3>1, NewlyClosed
  <2>2. Vacant'
    BY <1>1 DEF Vacant
  <2>3. old \in all' /\ st'[old] = "closed"
    BY <1>1, <1>2 DEF Typed
  <2>4. IsThr(t, "open", old, c)'
    BY <2>1, <2>2, <2>3 DEF IsThr
  <2> QED
    BY <1>2, <2>4
<1>11. QuietTypes
  <2>1. unsent' \in [Sockets -> Nat] /\ sent' \in [Sockets -> Nat]
    BY <1>1, <1>2 DEF Typed
  <2> QED
    BY <1>1, <1>2, <2>1 DEF Typed, QuietTypes
<1>12. Ends(t, old, "open", old)
  <2>1. rank' \in {rank, None} /\ accepting' \subseteq accepting
    BY <1>1
  <2> QED
    BY <1>1, <1>2, <1>3, <1>6, <1>7, <1>8, <1>9, <1>10, <1>11 DEF Ends
<1> QED
  BY <1>1, <1>12, EndsKeeps

-----------------------------------------------------------------------------
(* Sessions that go on in another state                                    *)

LiveWork(s) ==
    /\ {st[s], st'[s]} \subseteq Live
    /\ \/ where'[R(s)] = where[R(s)] /\ at'[R(s)] = at[R(s)]
       \/ ReaderGoes(s, st[s], where[R(s)], where'[R(s)], at'[R(s)])
    /\ where'[W(s)] = where[W(s)] \/ WriterGoes(s, where[W(s)], where'[W(s)])
    /\ at'[W(s)] = at[W(s)] /\ running' = running /\ undone' = undone
LEMMA LiveLife ==
    ASSUME NEW s \in Sockets, Life(s), LiveWork(s), SameLists(s)
    PROVE  Life(s)'
<1> PICK r, w, k, l, z, y : /\ r = where[R(s)] /\ w = where[W(s)] /\ k = where'[R(s)] /\ l = where'[W(s)]
                            /\ z = st[s] /\ y = st'[s]
  OBVIOUS
<1>1. IsAlive(s, z, r, w) /\ IsListed(s, z, r, w)
  BY DEF Life
<1>2. z \in Live /\ y \in Live /\ running' = running /\ undone' = undone /\ at'[W(s)] = at[W(s)]
  BY DEF LiveWork
<1>3. r \notin Accepts /\ r \notin Unlists /\ w \notin Unlists /\ w \notin Ended
  BY <1>1, <1>2 DEF IsAlive, Live
<1>4. (k = r /\ at'[R(s)] = at[R(s)]) \/ ReaderGoes(s, z, r, k, at'[R(s)])
  BY DEF LiveWork
<1>5. l = w \/ WriterGoes(s, w, l)
  BY DEF LiveWork
<1>6. \/ k = r /\ at'[R(s)] = at[R(s)]
      \/ r \in BusyR /\ k \in BusyR /\ (k \in {"start", "loop", "read"} => at'[R(s)] = s)
  <2>1. z # "accepting"
    BY <1>2 DEF Live
  <2> QED
    BY <1>3, <1>4, <2>1 DEF ReaderGoes, Unlists
<1>7. /\ (k \in Ended <=> r \in Ended) /\ (k \in Ended => k = r) /\ k \notin Accepts \cup Unlists
  BY <1>3, <1>6 DEF BusyR, CallLabels, Ended, Accepts, Unlists
<1>8. l \notin Ended \cup Unlists
  BY <1>3, <1>5 DEF WriterGoes, BusyW, Ended, Unlists
<1>9. l = "connecting" => k \in {"none", "done"}
  <2>1. l = "connecting" => r \in {"none", "done"}
    BY <1>1, <1>3, <1>5 DEF WriterGoes, BusyW, IsAlive
  <2>2. r \in {"none", "done"} => k = r
    BY <1>7 DEF Ended
  <2> QED
    BY <2>1, <2>2
<1>10. k \in Ended \cup Unlists \cup {"start", "loop", "read", "handshake"} => at'[R(s)] = s
  <2>1. r \in Ended \cup Unlists \cup {"start", "loop", "read", "handshake"} => at[R(s)] = s
    BY <1>1 DEF IsAlive
  <2>2. k \in BusyR => k \notin Ended \cup Unlists \cup {"handshake"}
    BY DEF BusyR, CallLabels, Ended, Unlists
  <2> QED
    BY <1>6, <2>1, <2>2
<1>11. IsAlive(s, y, k, l)'
  BY <1>1, <1>2, <1>3, <1>7, <1>8, <1>9, <1>10 DEF IsAlive, Live
<1>12. (k = "none" <=> r = "none") /\ (k = "done" <=> r = "done") /\ (k = "reap" <=> r = "reap")
  BY <1>7 DEF Ended
<1>13. l \notin {"none", "done", "reap"} /\ w \notin {"none", "done", "reap"}
  BY <1>3, <1>8 DEF Ended
<1>14. z # "closed" /\ y \notin {"closed", "none", "accepting"}
  BY <1>2 DEF Live
<1>15. /\ s \in all' <=> s \in all
       /\ s \in Queued' <=> s \in Queued
       /\ s = Registering' <=> s = Registering
       /\ s = Joining' <=> s = Joining
       /\ s \in accepting' => s \in accepting
       /\ s = rank' => s = rank
       /\ s \in {rank, Stopping} => s \in undone \cup {rank', Stopping'}
       /\ s \notin all /\ s # Registering => unsent'[s] = 0 /\ sent'[s] = 0
  BY <1>2 DEF SameLists
<1> HIDE DEF Live, Ended
<1>16. /\ r # "reap" /\ s \in all \cup {Registering} /\ s \notin Queued /\ s # Joining
       /\ s = Registering => s \notin all
       /\ s \in accepting => s \in all /\ s # rank
       /\ s = rank => s \in all
       /\ s \in undone \cup {rank, Registering, Stopping}
  BY <1>1, <1>2, <1>3, <1>13, <1>14 DEF IsListed
<1>17. s \in undone' \cup {rank', Registering', Stopping'}
  BY <1>2, <1>15, <1>16
<1>18. IsListed(s, y, k, l)'
  BY <1>12, <1>13, <1>14, <1>15, <1>16, <1>17 DEF IsListed
<1> QED
  BY <1>11, <1>18 DEF Life

LEMMA RefsSame ==
    ASSUME RefsOK, own' = own, conSocket' = conSocket, refs' = refs, MarksSame, all' = all
    PROVE  RefsOK'
BY DEF RefsOK, Created, Count, MarksSame

\* A reader or a writer of x goes to l, while its session, that lives, changes its state.
Resumes(t, x, l) ==
    /\ Moves(t, l) /\ mlock' = mlock /\ at[t] = x
    /\ {st[x], st'[x]} \subseteq Live /\ st' = [st EXCEPT ![x] = st'[x]]
    /\ UNCHANGED <<policy, at, using, rank, accepting, all, con, conSocket, failed, refs, running,
                   reapq, undone>>
    /\ (t = R(x) => ReaderGoes(x, st[x], where[t], l, x))
    /\ (t = W(x) => WriterGoes(x, where[t], l))
    /\ QuietTypes /\ AcceptorsKeep
    /\ \A y \in Sockets : y # x => unsent'[y] = unsent[y] /\ sent'[y] = sent[y]
LEMMA ResumesLife ==
    ASSUME MessengerInv, NEW x \in Sockets, NEW t \in {R(x), W(x)}, NEW l, Resumes(t, x, l), MarksSame
    PROVE  \A y \in Sockets : Life(y)'
<1>0. at \in [Threads -> Sockets \cup {None}] /\ st = [y \in Sockets |-> st[y]]
  BY DEF MessengerInv, Typed
<1>1. x \in all \cup {Registering}
  <2>1. Life(x)
    BY Session
  <2>2. st[x] \in Live
    BY DEF Resumes
  <2>3. where[W(x)] \notin Ended
    BY <2>1, <2>2 DEF Life, IsAlive
  <2> QED
    BY <2>1, <2>3 DEF Life, IsListed
<1> SUFFICES ASSUME NEW y \in Sockets PROVE Life(y)'
  OBVIOUS
<1>2. Life(y) /\ R(y) \in Threads /\ W(y) \in Threads /\ R(y) # W(y)
  BY Session
<1>3. /\ where'[R(y)] = IF R(y) = t THEN l ELSE where[R(y)]
      /\ where'[W(y)] = IF W(y) = t THEN l ELSE where[W(y)]
  BY <1>2, WhereIs DEF Resumes, Moves
<1>4. Queued' = Queued
  BY DEF Queued, Resumes
<1>5. SameLists(y)
  <2>1. y \notin all /\ y # Registering => unsent'[y] = 0 /\ sent'[y] = 0
    BY <1>1, QueuesKept DEF Resumes
  <2> QED
    BY <1>4, <2>1 DEF SameLists, MarksSame, Resumes
<1>6. CASE y = x
  <2>1. at'[R(x)] = at[R(x)] /\ at'[W(x)] = at[W(x)] /\ running' = running /\ undone' = undone
    BY DEF Resumes
  <2>2. t = R(x) => ReaderGoes(x, st[x], where[t], l, at'[R(x)])
    BY <2>1 DEF Resumes
  <2>3. t = W(x) => WriterGoes(x, where[t], l)
    BY DEF Resumes
  <2>4. LiveWork(x)
    BY <1>2, <1>3, <1>6, <2>1, <2>2, <2>3 DEF LiveWork, Resumes
  <2> QED
    BY <1>2, <1>5, <1>6, <2>4, LiveLife
<1>7. CASE y # x
  <2>1. t # R(y) /\ t # W(y)
    BY <1>7, ThreadNames
  <2>2. st'[y] = st[y]
    BY <1>0, <1>7 DEF Resumes
  <2>3. SameWork(y)
    BY <1>3, <2>1, <2>2 DEF SameWork, Resumes, AcceptorsKeep
  <2> QED
    BY <1>2, <1>5, <2>3, LifeFrame
<1> QED
  BY <1>6, <1>7

LEMMA ResumesKeeps ==
    ASSUME MessengerInv, NEW x \in Sockets, NEW t \in {R(x), W(x)}, NEW l, Resumes(t, x, l),
           t = R(x) => l \in ReaderLabels, t = W(x) => l \in WriterLabels,
           where[t] \notin HasM \cup MayM, l \notin HasM \cup MayM \cup Special
    PROVE  MessengerInv'
<1> PICK c : c = using[t]
  OBVIOUS
<1>0. t \in Threads
  BY Session
<1>1. /\ Typed /\ Locked /\ mlock # t /\ (c = None \/ Published(c)) /\ c \in Sockets \cup {None}
      /\ using = [using EXCEPT ![t] = c] /\ at = [at EXCEPT ![t] = x]
      /\ own[t] = Owned(where[t], at[t], using[t]) /\ NoTwice /\ RefsOK /\ \A d \in Sockets : Conn(d)
  BY <1>0, Actor DEF IsThr, Resumes, MessengerInv
<1>2. IsAt(t, l) /\ IsAt(t, where[t])
  BY <1>0, <1>1, SessionAt DEF Locked
<1>3. LockStep(t) /\ MayHold(t, l) /\ Moves(t, l)
  BY <1>1, <1>2 DEF LockStep, MayHold, Resumes
<1>4. Locked'
  BY <1>0, <1>1, <1>3, LockedStep
<1>5. MarksSame
  <2>1. where[t] # "join threads" /\ l # "join threads"
    BY <1>2 DEF IsAt, ReaderLabels, WriterLabels, CallLabels, Accepts, Ended, Unlists
  <2>2. where[t] \notin Marks /\ l \notin Marks
    BY <2>1 DEF Marks, HasM
  <2>3. at' = [at EXCEPT ![t] = x]
    BY <1>1 DEF Resumes
  <2> QED
    BY <1>0, <1>3, <2>2, <2>3, MoverMarks
<1>6. Typed'
  <2>1. st' \in [Sockets -> {"none", "accepting", "connecting", "open", "standby", "closed"}]
    BY <1>1 DEF Typed, Resumes, Live
  <2>2. UNCHANGED <<policy, at, using, rank, accepting, all, con, conSocket, failed, refs, running, reapq>>
        /\ QuietTypes
    BY DEF Resumes
  <2> QED
    BY <1>1, <2>1, <2>2 DEF Typed, QuietTypes
<1>7. RefsOK'
  <2>1. Owned(l, x, c) = None /\ own[t] = None
    BY <1>1 DEF Owned, HasM, MayM
  <2>2. own' = [own EXCEPT ![t] = Owned(l, x, c)]
    <3>1. at' = [at EXCEPT ![t] = x] /\ using' = [using EXCEPT ![t] = c]
      BY <1>1 DEF Resumes
    <3> QED
      <4>1. Typed /\ Moves(t, l)
        BY <1>1, <1>3
      <4> QED
        BY <1>0, <3>1, <4>1, OwnStep
  <2>3. own' = own
    BY <2>1, <2>2 DEF own
  <2> QED
    BY <1>1, <1>5, <2>3, RefsSame DEF Resumes
<1>8. \A y \in Sockets : st'[y] = st[y] \/ (y = x /\ {st[y], st'[y]} \subseteq Live)
  BY <1>1 DEF Resumes, Typed
<1>9. \A y \in Sockets : Conn(y)'
  <2>1. ASSUME NEW y \in Sockets, st[y] = "accepting", where[R(y)] = "open" PROVE where'[R(y)] = "open"
    <3>1. st[x] # "accepting"
      BY DEF Resumes, Live
    <3>2. t # R(y) /\ R(y) \in Threads
      BY <2>1, <3>1, ThreadNames
    <3> QED
      BY <1>3, <2>1, <3>2, WhereIs DEF Moves
  <2>2. UNCHANGED <<con, conSocket, failed, undone>>
    BY DEF Resumes
  <2> QED
    BY <1>1, <1>8, <2>1, <2>2, ConnFrame
<1>10. \A d \in Sockets : Published(d) => Published(d)'
  BY <1>8 DEF Published, Resumes, Live
<1>11. \A u \in Threads : Thr(u)'
  <2>1. Thr(t)'
    <3>1. where'[t] = l /\ at'[t] = x /\ using'[t] = c
      BY <1>0, <1>1, <1>3, WhereIs DEF Moves, Typed, Resumes
    <3>2. c = None \/ Published(c)'
      BY <1>1, <1>10
    <3>3. IsThr(t, l, x, c)'
      BY <3>2, ThrSimple
    <3> QED
      BY <3>1, <3>3 DEF Thr
  <2>2. ASSUME NEW u \in Threads, u # t PROVE Thr(u)'
    <3>1. where'[u] = where[u] /\ using'[u] = using[u] /\ at'[u] = at[u] /\ mlock' = mlock
      BY <1>3, <2>2, WhereIs DEF Moves, Resumes
    <3>2. Thr(u)
      BY DEF MessengerInv
    <3>3. \A y \in Sockets : /\ st[y] # "none" => st'[y] # "none"
                             /\ st[y] \notin {"none", "accepting"} => st'[y] # "accepting"
      BY <1>8 DEF Live
    <3>4. rank' = rank /\ all' = all /\ undone' = undone /\ rank \in Sockets \cup {None}
      BY <1>1 DEF Resumes, Typed
    <3>5. Vacant => Vacant'
      <4>1. rank \in Sockets /\ st[rank] = "closed" => st'[rank] = "closed"
        BY <1>8 DEF Live
      <4> QED
        BY <3>4, <4>1 DEF Vacant
    <3> QED
      BY <1>1, <1>10, <3>1, <3>2, <3>3, <3>4, <3>5, ThrFrame
  <2> QED
    BY <2>1, <2>2
<1>12. NoTwice'
  BY <1>1 DEF NoTwice, Resumes
<1> QED
  BY <1>4, <1>5, <1>6, <1>7, <1>9, <1>11, <1>12, ResumesLife DEF MessengerInv

LEMMA ToConnectKeeps ==
    ASSUME MessengerInv, NEW x \in Sockets, ToConnect(x)
    PROVE  MessengerInv'
<1> USE DEF locks, lists, owners, flags, queues, stops, ghosts
<1> PICK t : t = W(x)
  OBVIOUS
<1>1. /\ Typed /\ IsPc(pc) /\ t \in Threads /\ t # R(x) /\ at[t] = x /\ where[t] \in {"start", "loop"}
      /\ Life(x)
  BY Actor, Session DEF ToConnect, AtWriter, Plain
<1>2. /\ st[x] \in Live /\ st' = [st EXCEPT ![x] = "connecting"] /\ st'[x] = "connecting"
      /\ "connecting" \in Live
  BY <1>1 DEF ToConnect, Wakes, Live, Typed
<1>3. slock' \in [Sockets -> Threads \cup {Nobody}] /\ AcceptorsKeep
  BY WriterGives DEF ToConnect, AtWriter, Give, Keep
<1>4. PICK l : /\ l \in {"join reader", "connecting"} /\ Moves(t, l) /\ WriterGoes(x, where[t], l)
  <2>1. CASE R(x) \in running
    <3>1. Plain("join reader") = "join reader" /\ GoSignal(t, "join reader", x)
      BY <2>1 DEF Plain, ToConnect
    <3>2. Moves(t, "join reader")
      BY <1>1, <3>1, SignalMoves
    <3>3. WriterGoes(x, where[t], "join reader")
      BY <1>1 DEF WriterGoes, BusyW
    <3> QED
      BY <3>2, <3>3
  <2>2. CASE R(x) \notin running
    <3>1. Moves(t, "connecting")
      BY <1>1, <2>2, GoMoves DEF Plain, ToConnect
    <3>2. where[R(x)] \in Ended /\ (where[R(x)] = "reap" => where[t] \in {"none", "done"})
      BY <1>1, <2>2 DEF Life, IsAlive, IsListed
    <3>3. where[R(x)] \in {"none", "done"}
      BY <1>1, <3>2 DEF Ended
    <3>4. WriterGoes(x, where[t], "connecting")
      BY <1>1, <3>3 DEF WriterGoes, BusyW
    <3> QED
      BY <3>1, <3>4
  <2> QED
    BY <2>1, <2>2
<1>5. QuietTypes
  BY <1>1, <1>3 DEF ToConnect, QuietTypes, Typed
<1>6. Resumes(t, x, l)
  BY <1>1, <1>2, <1>3, <1>4, <1>5 DEF Resumes, ToConnect
<1>7. where[t] \notin HasM \cup MayM /\ l \notin HasM \cup MayM \cup Special /\ l \in WriterLabels
  BY <1>1, <1>4 DEF HasM, MayM, Special, WriterLabels
<1> QED
  BY <1>1, <1>6, <1>7, ResumesKeeps

LEMMA FaultLosslessKeeps ==
    ASSUME MessengerInv, NEW x \in Sockets, NEW t, FaultLossless(t, x), FaultRest,
           Faulty(t, x) \/ (t = W(x) /\ where[t] = "connecting" /\ st[x] = "connecting")
    PROVE  MessengerInv'
<1>1. /\ Typed /\ t \in {R(x), W(x)} /\ t \in Threads /\ IsPc(pc) /\ at[t] = x
      /\ where[t] \in {"read", "write", "connecting"} /\ (t = R(x) => where[t] = "read")
      /\ (t = W(x) => where[t] \in {"write", "connecting"})
  <2>1. t \in Threads /\ R(x) # W(x) /\ (t = R(x) \/ t = W(x))
    BY Session DEF Faulty
  <2>2. Typed /\ IsPc(pc)
    BY <2>1, Actor
  <2>3. at[t] = x
    BY <2>1, Session DEF Faulty
  <2> QED
    BY <2>1, <2>2, <2>3 DEF Faulty
<1>2. st[x] \in Live /\ where[R(x)] \notin Accepts
  <2>1. st[x] \notin {"none", "accepting"}
    BY FaultAt
  <2>2. st[x] # "closed"
    BY DEF FaultLossless
  <2> QED
    BY <1>1, <2>1, <2>2, Acceptor DEF Live, Typed
<1>3. /\ st' = [st EXCEPT ![x] = AfterFault(x)] /\ st'[x] = AfterFault(x) /\ AfterFault(x) \in Live
  BY <1>1 DEF FaultLossless, Typed, AfterFault, Live
<1>4. slock' \in [Sockets -> Threads \cup {Nobody}] /\ AcceptorsKeep
  <2>1. slock[x] \in {t, Nobody}
    BY DEF FaultLossless, Holds
  <2>2. slock' = [slock EXCEPT ![x] = Nobody] \/ slock' = [slock EXCEPT ![x] = t]
    BY DEF FaultLossless, Give, Keep
  <2>3. t = R(x) => where[t] \notin Accepts
    BY <1>2
  <2> QED
    BY <1>1, <2>1, <2>2, <2>3, SlockStep
<1>5. PICK l : l \in {"start", "loop"} /\ GoSignal(t, l, x)
  BY DEF FaultLossless
<1>6. Moves(t, l)
  <2>1. Plain(l) = l
    BY <1>5 DEF Plain
  <2> QED
    BY <1>1, <1>5, <2>1, SignalMoves
<1>7. /\ unsent' = [unsent EXCEPT ![x] = @ + sent[x]] /\ sent' = [sent EXCEPT ![x] = 0]
      /\ unsent \in [Sockets -> Nat] /\ sent \in [Sockets -> Nat]
  BY <1>1 DEF FaultLossless, Typed
<1>8. /\ unsent' \in [Sockets -> Nat] /\ sent' \in [Sockets -> Nat]
      /\ \A y \in Sockets : y # x => unsent'[y] = unsent[y] /\ sent'[y] = sent[y]
  BY <1>7
<1>9. QuietTypes
  BY <1>1, <1>4, <1>8 DEF FaultRest, QuietTypes, Typed
<1>10. ReaderGoes(x, st[x], "read", l, x) /\ \A k \in {"write", "connecting"} : WriterGoes(x, k, l)
  BY <1>2, <1>5 DEF ReaderGoes, WriterGoes, BusyR, BusyW, Live
<1>11. UNCHANGED <<refs, conSocket, failed>>
  BY DEF FaultLossless
<1>12. Resumes(t, x, l)
  BY <1>1, <1>2, <1>3, <1>4, <1>6, <1>8, <1>9, <1>10, <1>11 DEF Resumes, FaultRest
<1>13. /\ where[t] \notin HasM \cup MayM /\ l \notin HasM \cup MayM \cup Special
       /\ l \in ReaderLabels /\ l \in WriterLabels
  BY <1>1, <1>5 DEF HasM, MayM, Special, WriterLabels, ReaderLabels
<1> QED
  BY <1>1, <1>12, <1>13, ResumesKeeps

LEMMA FaultKeeps ==
    ASSUME MessengerInv, NEW x \in Sockets, NEW t, Fault(t, x),
           Faulty(t, x) \/ (t = W(x) /\ where[t] = "connecting" /\ st[x] = "connecting")
    PROVE  MessengerInv'
<1>1. FaultRest
  BY DEF Fault, FaultRest, lists, flags, stops
<1>2. CASE FaultClosed(t, x)
  BY <1>1, <1>2, FaultClosedEnds DEF FaultClosed
<1>3. CASE FaultLossy(t, x)
  BY <1>1, <1>3, FaultLossyEnds DEF FaultLossy
<1>4. CASE FaultLossless(t, x)
  BY <1>1, <1>4, FaultLosslessKeeps
<1> QED
  BY <1>2, <1>3, <1>4 DEF Fault

LEMMA ReadFailsKeeps ==
    ASSUME MessengerInv, NEW x \in Sockets, ReadFails(x)
    PROVE  MessengerInv'
<1> USE DEF locks, lists, owners, flags, queues, stops, ghosts
<1> PICK t : t = R(x)
  OBVIOUS
<1>1. /\ Typed /\ IsPc(pc) /\ t \in Threads /\ t # W(x) /\ at[t] = x /\ where[t] = "read"
      /\ at = [at EXCEPT ![t] = at[t]]
  BY Actor, Session DEF ReadFails, At, Plain
<1>2. CASE st[x] = "connecting"
  <2>1. /\ Take(t, x) /\ GoSignal(t, "loop", x)
        /\ UNCHANGED <<policy, mlock, at, using, st, lists, owners, flags, queues, reapq, stops,
                       calls, undone>>
    BY <1>2 DEF ReadFails
  <2>2. Moves(t, "loop")
    <3>1. Plain("loop") = "loop"
      BY DEF Plain
    <3> QED
      BY <1>1, <2>1, <3>1, SignalMoves
  <2>3. slock' \in [Sockets -> Threads \cup {Nobody}] /\ AcceptorsKeep
    <3>1. slock' = [slock EXCEPT ![x] = t] /\ slock[x] \in {t, Nobody}
      BY <2>1 DEF Take
    <3> QED
      BY <1>1, <3>1, SlockStep DEF Accepts
  <2>4. QuietTypes
    BY <1>1, <2>1, <2>3 DEF QuietTypes, Typed
  <2>5. SessionGoes(t, x, "loop", x)
    <3>1. ReaderGoes(x, st[x], where[t], "loop", x)
      BY <1>1, <1>2 DEF ReaderGoes, BusyR
    <3> QED
      BY <1>1, <2>1, <2>2, <2>3, <2>4, <3>1 DEF SessionGoes
  <2>6. where[t] \notin HasM \cup MayM /\ "loop" \notin HasM \cup MayM \cup Special /\ "loop" \in ReaderLabels
    BY <1>1 DEF HasM, MayM, Special, ReaderLabels
  <2> QED
    BY <1>1, <2>5, <2>6, SessionKeeps
<1>3. CASE st[x] # "connecting"
  <2>1. Fault(t, x) /\ Faulty(t, x)
    BY <1>1, <1>3 DEF ReadFails, Faulty
  <2> QED
    BY <2>1, FaultKeeps
<1> QED
  BY <1>2, <1>3

LEMMA WriteFailsKeeps ==
    ASSUME MessengerInv, NEW x \in Sockets, WriteFails(x)
    PROVE  MessengerInv'
<1>1. W(x) \in Threads /\ pc[W(x)] = "write" /\ Fault(W(x), x)
  BY Session DEF WriteFails, At
<1>2. Faulty(W(x), x)
  BY <1>1, Actor DEF Plain, Faulty
<1> QED
  BY <1>1, <1>2, FaultKeeps

LEMMA ConnectFailsKeeps ==
    ASSUME MessengerInv, NEW x \in Sockets, ConnectFails(x)
    PROVE  MessengerInv'
<1>1. CASE st[x] = "connecting"
  <2>1. W(x) \in Threads /\ pc[W(x)] = "connecting" /\ Fault(W(x), x)
    BY <1>1, Session DEF ConnectFails, At
  <2>2. where[W(x)] = "connecting"
    BY <2>1, Actor DEF Plain
  <2> QED
    BY <1>1, <2>1, <2>2, FaultKeeps
<1>2. CASE st[x] # "connecting"
  BY <1>2, ConnectFailsQuiet
<1> QED
  BY <1>1, <1>2

-----------------------------------------------------------------------------
(* Readers and writers end                                                 *)

Winds(t, x, l) ==
    /\ Moves(t, l) /\ mlock' = mlock /\ at[t] = x
    /\ where[t] \in {"start", "loop", "reap"} /\ l \in {"done", "reap"}
    /\ UNCHANGED <<policy, at, using, st, rank, accepting, all, con, conSocket, failed, refs, dispatching,
                   notify, unsent, sent, undone>>
    /\ slock' \in [Sockets -> Threads \cup {Nobody}] /\ AcceptorsKeep
    /\ running' \subseteq Threads /\ \A u \in Threads : u # t => (u \in running' <=> u \in running)
    /\ reapq' \in Seq(Sockets) /\ NoTwice' /\ \A y \in Sockets : y # x => (y \in Queued' <=> y \in Queued)
LEMMA WindsOthers ==
    ASSUME MessengerInv, NEW x \in Sockets, NEW t \in {R(x), W(x)}, NEW l, Winds(t, x, l), MarksSame,
           NEW y \in Sockets, y # x
    PROVE  Life(y)'
<1>1. Life(y) /\ R(y) \in Threads /\ W(y) \in Threads /\ t # R(y) /\ t # W(y)
  BY Session, ThreadNames
<1>2. where'[R(y)] = where[R(y)] /\ where'[W(y)] = where[W(y)]
  BY <1>1, WhereIs DEF Winds, Moves
<1>3. SameWork(y)
  BY <1>1, <1>2 DEF SameWork, Winds, AcceptorsKeep
<1>4. y \notin all /\ y # Registering => unsent'[y] = 0 /\ sent'[y] = 0
  BY QueuesKept DEF Winds
<1>5. SameLists(y)
  BY <1>4 DEF SameLists, Winds, MarksSame
<1> QED
  BY <1>1, <1>3, <1>5, LifeFrame

LEMMA WindsMarks ==
    ASSUME MessengerInv, NEW x \in Sockets, NEW t \in {R(x), W(x)}, NEW l, Winds(t, x, l)
    PROVE  t \in Threads /\ mlock # t /\ LockStep(t) /\ MayHold(t, l) /\ MarksSame
<1>1. t \in Threads
  BY Session
<1>2. mlock # t /\ at = [at EXCEPT ![t] = x]
  BY <1>1, Actor DEF Winds, HasM, MayM
<1>3. LockStep(t) /\ MayHold(t, l)
  <2>1. IsAt(t, l)
    BY SessionAt DEF Winds, ReaderLabels, WriterLabels, Ended
  <2> QED
    BY <1>2, <2>1 DEF Winds, LockStep, MayHold, HasM
<1>4. MarksSame
  <2>1. where[t] \notin Marks /\ l \notin Marks
    BY DEF Winds, Marks
  <2>2. at' = [at EXCEPT ![t] = x] /\ Moves(t, l)
    BY <1>2 DEF Winds
  <2> QED
    BY <1>1, <1>3, <2>1, <2>2, MoverMarks
<1> QED
  BY <1>1, <1>2, <1>3, <1>4

LEMMA WindsKeeps ==
    ASSUME MessengerInv, NEW x \in Sockets, NEW t \in {R(x), W(x)}, NEW l, Winds(t, x, l), Life(x)'
    PROVE  MessengerInv'
<1> PICK c : c = using[t]
  OBVIOUS
<1>1. t \in Threads /\ mlock # t /\ LockStep(t) /\ MayHold(t, l) /\ MarksSame /\ Moves(t, l)
  BY WindsMarks DEF Winds
<1>2. /\ Typed /\ Locked /\ (c = None \/ Published(c)) /\ c \in Sockets \cup {None}
      /\ using = [using EXCEPT ![t] = c] /\ at = [at EXCEPT ![t] = x]
      /\ own[t] = Owned(where[t], at[t], using[t]) /\ RefsOK /\ \A d \in Sockets : Conn(d)
  BY <1>1, Actor DEF IsThr, Winds, MessengerInv
<1>3. Locked'
  BY <1>1, <1>2, LockedStep
<1>4. Typed'
  BY <1>2 DEF Winds, Typed
<1>5. RefsOK'
  <2>1. Owned(l, x, c) = None /\ own[t] = None
    BY <1>2 DEF Owned, Winds
  <2>2. own' = [own EXCEPT ![t] = Owned(l, x, c)]
    <3>1. at' = [at EXCEPT ![t] = x] /\ using' = [using EXCEPT ![t] = c]
      BY <1>2 DEF Winds
    <3> QED
      BY <1>1, <1>2, <3>1, OwnStep
  <2>3. own' = own
    BY <2>1, <2>2 DEF own
  <2> QED
    BY <1>1, <1>2, <2>3, RefsSame DEF Winds
<1>6. UNCHANGED <<st, con, conSocket, failed, undone, all, rank>>
  BY DEF Winds
<1>7. \A y \in Sockets : Conn(y)'
  <2>1. ASSUME NEW y \in Sockets, st[y] = "accepting", where[R(y)] = "open" PROVE where'[R(y)] = "open"
    <3>1. t # R(y) /\ R(y) \in Threads
      BY <2>1, ThreadNames DEF Winds
    <3> QED
      BY <1>1, <2>1, <3>1, WhereIs DEF Moves
  <2> QED
    BY <1>2, <1>6, <2>1, ConnFrame
<1>8. \A d \in Sockets : Published(d) => Published(d)'
  BY <1>6 DEF Published
<1>9. \A u \in Threads : Thr(u)'
  <2>1. Thr(t)'
    <3>1. where'[t] = l /\ at'[t] = x /\ using'[t] = c
      BY <1>1, <1>2, WhereIs DEF Moves, Typed, Winds
    <3>2. (c = None \/ Published(c)') /\ l \notin Special
      BY <1>2, <1>8 DEF Winds, Special
    <3>3. IsThr(t, l, x, c)'
      BY <3>2, ThrSimple
    <3> QED
      BY <3>1, <3>3 DEF Thr
  <2>2. ASSUME NEW u \in Threads, u # t PROVE Thr(u)'
    <3>1. where'[u] = where[u] /\ using'[u] = using[u] /\ at'[u] = at[u] /\ mlock' = mlock
      BY <1>1, <2>2, WhereIs DEF Moves, Winds
    <3>2. Thr(u)
      BY DEF MessengerInv
    <3>3. Vacant => Vacant'
      BY <1>6 DEF Vacant
    <3> QED
      BY <1>2, <1>6, <1>8, <3>1, <3>2, <3>3, ThrFrame
  <2> QED
    BY <2>1, <2>2
<1>10. \A y \in Sockets : Life(y)'
  BY <1>1, WindsOthers
<1> QED
  BY <1>3, <1>4, <1>5, <1>7, <1>9, <1>10 DEF MessengerInv, Winds

\* A thread of x that ends: the other still runs, or it is for this one to queue x.
EndsOn(t, other, x, l) ==
    /\ Winds(t, x, l) /\ where[t] \in {"start", "loop"} /\ l = IF other \in running THEN "done" ELSE "reap"
    /\ st[x] = "closed" \/ (st[x] = "connecting" /\ t = R(x))
    /\ running' = running \ {t} /\ reapq' = reapq
LEMMA EndsOnKeeps ==
    ASSUME MessengerInv, NEW x \in Sockets, NEW t, NEW other, NEW l, EndsOn(t, other, x, l),
           (t = R(x) /\ other = W(x)) \/ (t = W(x) /\ other = R(x))
    PROVE  MessengerInv'
<1> PICK r, w, k, m, z : /\ r = where[R(x)] /\ w = where[W(x)] /\ k = where'[R(x)] /\ m = where'[W(x)]
                         /\ z = st[x]
  OBVIOUS
<1>1. /\ Life(x) /\ R(x) \in Threads /\ W(x) \in Threads /\ R(x) # W(x) /\ t \in {R(x), W(x)}
      /\ at[W(x)] = x
  BY Session
<1>2. Winds(t, x, l) /\ MarksSame
  BY <1>1, WindsMarks DEF EndsOn
<1>3. k = (IF t = R(x) THEN l ELSE r) /\ m = (IF t = W(x) THEN l ELSE w)
  BY <1>1, <1>2, WhereIs DEF Winds, Moves
<1>4. /\ UNCHANGED <<at, st, rank, accepting, all, unsent, sent, undone>>
      /\ Registering' = Registering /\ Stopping' = Stopping /\ Joining' = Joining /\ Queued' = Queued
  BY <1>2 DEF Winds, MarksSame, EndsOn, Queued
<1>5. IsAlive(x, z, r, w) /\ IsListed(x, z, r, w)
  BY <1>1 DEF Life
<1>6. t = R(x) => at[R(x)] = x
  BY <1>2 DEF Winds
<1>7. CASE t = R(x)
  <2>1. /\ r \in {"start", "loop"} /\ m = w /\ k = IF W(x) \in running THEN "done" ELSE "reap"
        /\ running' = running \ {R(x)} /\ z \in {"closed", "connecting"}
    BY <1>1, <1>3, <1>7 DEF EndsOn
  <2>2. k = IF w \notin Ended THEN "done" ELSE "reap"
    BY <1>5, <2>1 DEF IsAlive
  <2>3. IsAlive(x, z, k, m)'
    BY <1>1, <1>4, <1>5, <1>6, <1>7, <2>1, <2>2 DEF IsAlive, Ended, Accepts, Unlists, Live
  <2>4. w # "reap" /\ (x \in all \/ x = Registering) /\ x \notin Queued /\ x # Joining
    BY <1>5, <2>1 DEF IsListed, Ended
  <2>5. w \in Ended => w \in {"none", "done"} /\ x # Registering /\ x \in all
    BY <1>5, <2>1, <2>4 DEF IsAlive, IsListed, Live, Ended
  <2>6. IsListed(x, z, k, m)'
    BY <1>4, <1>5, <2>1, <2>2, <2>4, <2>5 DEF IsListed, Ended
  <2> QED
    BY <1>1, <1>2, <1>4, <2>3, <2>6, WindsKeeps DEF Life
<1>8. CASE t = W(x)
  <2>1. /\ w \in {"start", "loop"} /\ k = r /\ m = IF R(x) \in running THEN "done" ELSE "reap"
        /\ running' = running \ {W(x)} /\ z = "closed"
    BY <1>1, <1>3, <1>8 DEF EndsOn
  <2>2. m = IF r \notin Ended THEN "done" ELSE "reap"
    BY <1>5, <2>1 DEF IsAlive
  <2>3. IsAlive(x, z, k, m)'
    BY <1>1, <1>4, <1>5, <2>1, <2>2 DEF IsAlive, Ended, Accepts, Unlists, Live
  <2>4. r # "reap" /\ (x \in all \/ x = Registering) /\ x \notin Queued /\ x # Joining
    BY <1>5, <2>1 DEF IsListed, Ended
  <2>5. r \in Ended => r \in {"none", "done"} /\ x # Registering /\ x \in all
    BY <1>5, <2>1, <2>4 DEF IsListed, Ended
  <2>6. IsListed(x, z, k, m)'
    BY <1>4, <1>5, <2>1, <2>2, <2>4, <2>5 DEF IsListed, Ended
  <2> QED
    BY <1>1, <1>2, <1>4, <2>3, <2>6, WindsKeeps DEF Life
<1> QED
  BY <1>7, <1>8

\* A thread that ends gives the lock of its socket back.
LEMMA EndWinds ==
    ASSUME MessengerInv, NEW x \in Sockets, NEW t \in {R(x), W(x)}, NEW other,
           where[t] \in {"start", "loop"}, at[t] = x, End(t, other, x), slock[x] \in {t, Nobody},
           UNCHANGED <<policy, mlock, at, using, st, rank, accepting, all, con, conSocket, failed, refs,
                       dispatching, notify, unsent, sent, reapq, undone>>
    PROVE  \E l : EndsOn(t, other, x, l) \/ ~(st[x] = "closed" \/ (st[x] = "connecting" /\ t = R(x)))
<1>1. Typed /\ IsPc(pc) /\ t \in Threads /\ NoTwice
  BY Actor, Session DEF MessengerInv
<1>2. PICK l : l = IF other \in running THEN "done" ELSE "reap"
  OBVIOUS
<1>3. /\ running' = running \ {t} /\ Go(t, l) /\ slock' = [slock EXCEPT ![x] = Nobody]
  BY <1>2 DEF End, Give
<1>4. slock' \in [Sockets -> Threads \cup {Nobody}] /\ AcceptorsKeep
  BY <1>1, <1>3, SlockStep DEF Accepts
<1>5. Plain(l) = l /\ l \in {"done", "reap"}
  BY <1>2 DEF Plain
<1>6. Moves(t, l)
  BY <1>1, <1>3, <1>5, GoMoves
<1>7. reapq' \in Seq(Sockets) /\ NoTwice' /\ Queued' = Queued
  BY <1>1 DEF Typed, NoTwice, Queued
<1>8. running' \subseteq Threads /\ \A u \in Threads : u # t => (u \in running' <=> u \in running)
  BY <1>1, <1>3 DEF Typed
<1>9. Winds(t, x, l)
  BY <1>4, <1>5, <1>6, <1>7, <1>8 DEF Winds
<1> QED
  BY <1>2, <1>3, <1>9 DEF EndsOn

LEMMA ReaderLoopKeeps ==
    ASSUME MessengerInv, NEW x \in Sockets, ReaderLoop(x)
    PROVE  MessengerInv'
<1> USE DEF locks, lists, owners, flags, queues, stops, ghosts
<1>1. CASE running' = running
  BY <1>1, ReaderLoopQuiet
<1>2. CASE st[x] \in {"closed", "connecting"} /\ End(R(x), W(x), x)
  <2> PICK t, other : t = R(x) /\ other = W(x)
    OBVIOUS
  <2>1. t \in Threads /\ where[t] \in {"start", "loop"} /\ at[t] = x
    BY Actor, Session DEF ReaderLoop, Plain
  <2>2. slock[x] \in {t, Nobody} /\ End(t, other, x)
    BY <1>2 DEF ReaderLoop, Holds
  <2>3. UNCHANGED <<policy, mlock, at, using, st, rank, accepting, all, con, conSocket, failed, refs,
                    dispatching, notify, unsent, sent, reapq, undone>>
    BY DEF ReaderLoop
  <2>4. PICK l : EndsOn(t, other, x, l)
    BY <1>2, <2>1, <2>2, <2>3, EndWinds
  <2> QED
    BY <2>4, EndsOnKeeps
<1> QED
  BY <1>1, <1>2 DEF ReaderLoop

LEMMA WriterEndsKeeps ==
    ASSUME MessengerInv, NEW x \in Sockets, WriterEnds(x)
    PROVE  MessengerInv'
<1> USE DEF locks, lists, owners, flags, queues, stops, ghosts
<1> PICK t, other : t = W(x) /\ other = R(x)
  OBVIOUS
<1>1. t \in Threads /\ where[t] \in {"start", "loop"} /\ at[t] = x
  BY Actor, Session DEF WriterEnds, AtWriter, Plain
<1>2. slock[x] \in {t, Nobody} /\ End(t, other, x) /\ st[x] = "closed"
  BY DEF WriterEnds, AtWriter, Holds
<1>3. UNCHANGED <<policy, mlock, at, using, st, rank, accepting, all, con, conSocket, failed, refs,
                  dispatching, notify, unsent, sent, reapq, undone>>
  BY DEF WriterEnds
<1>4. PICK l : EndsOn(t, other, x, l)
  BY <1>1, <1>2, <1>3, EndWinds
<1> QED
  BY <1>4, EndsOnKeeps

\* The queue of the reaper with one more socket.
LEMMA QueueOneMore ==
    ASSUME NEW q \in Seq(Sockets), NEW x \in Sockets, NEW p, p = Append(q, x),
           \A i \in DOMAIN q : q[i] # x, \A i, j \in DOMAIN q : q[i] = q[j] => i = j
    PROVE  /\ p \in Seq(Sockets) /\ \A i, j \in DOMAIN p : p[i] = p[j] => i = j
           /\ {p[i] : i \in DOMAIN p} = {q[i] : i \in DOMAIN q} \cup {x}
<1>1. /\ p \in Seq(Sockets) /\ Len(p) = Len(q) + 1 /\ Len(q) \in Nat
      /\ DOMAIN q = 1 .. Len(q) /\ DOMAIN p = 1 .. Len(p)
      /\ \A i \in 1 .. Len(q) : p[i] = q[i]
      /\ p[Len(q) + 1] = x
  OBVIOUS
<1>2. DOMAIN p = DOMAIN q \cup {Len(q) + 1} /\ Len(q) + 1 \notin DOMAIN q
  BY <1>1
<1>3. ASSUME NEW i \in DOMAIN p, NEW j \in DOMAIN p, p[i] = p[j] PROVE i = j
  BY <1>1, <1>2, <1>3
<1> HIDE DEF Sockets
<1>4. {p[i] : i \in DOMAIN p} = {q[i] : i \in DOMAIN q} \cup {x}
  BY <1>1, <1>2
<1> QED
  BY <1>1, <1>3, <1>4

LEMMA QueueReapKeeps ==
    ASSUME MessengerInv, NEW x \in Sockets, NEW t \in {R(x), W(x)}, QueueReap(t)
    PROVE  MessengerInv'
<1> USE DEF locks, lists, owners, flags, queues, stops, ghosts
<1>0. t \in Threads /\ t # Reaper
  BY Session, ThreadNames
<1>1. Typed /\ IsPc(pc) /\ where[t] = "reap" /\ NoTwice
  BY <1>0, Actor DEF QueueReap, At, Plain, MessengerInv
<1>2. at[t] = x
  BY <1>1, Session DEF Ended
<1>3. Moves(t, "done")
  <2>1. pc' = [pc EXCEPT ![t] = "done", ![Reaper] = IF @ = "reaper asleep" THEN "reaper" ELSE @]
    BY DEF QueueReap
  <2>2. IsPc(pc') /\ \A v \in Threads : pc'[v] = IF v = t THEN "done"
                                                 ELSE IF v = Reaper /\ pc[v] = "reaper asleep" THEN "reaper"
                                                 ELSE pc[v]
    BY <1>0, <1>1, <2>1 DEF IsPc
  <2>3. where' = [v \in Threads |-> Plain(pc'[v])]
    BY DEF where
  <2>4. Plain("reaper asleep") = Plain("reaper") /\ Plain("done") = "done"
    BY DEF Plain
  <2>5. \A v \in Threads : Plain(pc'[v]) = IF v = t THEN "done" ELSE where[v]
    BY <2>2, <2>4, WhereIs
  <2> QED
    BY <2>2, <2>3, <2>5 DEF Moves, where
<1> PICK r, w, k, m, z : /\ r = where[R(x)] /\ w = where[W(x)] /\ k = where'[R(x)] /\ m = where'[W(x)]
                         /\ z = st[x]
  OBVIOUS
<1>4. /\ IsAlive(x, z, r, w) /\ IsListed(x, z, r, w) /\ R(x) \in Threads /\ W(x) \in Threads /\ R(x) # W(x)
      /\ at[W(x)] = x
  BY Session DEF Life
<1>5. /\ x \in all /\ x \notin Queued /\ r \in Ended /\ w \in Ended
      /\ {k, m} \subseteq {"none", "done"} /\ (t = R(x) => k = "done" /\ m = w)
      /\ (t = W(x) => m = "done" /\ k = r)
  <2>1. CASE t = R(x)
    <3>1. r = "reap" /\ k = "done" /\ m = w
      BY <1>1, <1>3, <1>4, <2>1, WhereIs DEF Moves
    <3>2. x \in all /\ x \notin Queued /\ w \in {"none", "done"}
      BY <1>4, <3>1 DEF IsListed
    <3> QED
      BY <1>4, <2>1, <3>1, <3>2 DEF Ended
  <2>2. CASE t = W(x)
    <3>1. w = "reap" /\ m = "done" /\ k = r
      BY <1>1, <1>3, <1>4, <2>2, WhereIs DEF Moves
    <3>2. x \in all /\ x \notin Queued /\ r \in {"none", "done"}
      BY <1>4, <3>1 DEF IsListed
    <3> QED
      BY <1>4, <2>2, <3>1, <3>2 DEF Ended
  <2> QED
    BY <2>1, <2>2
<1>6. reapq' = Append(reapq, x) /\ reapq \in Seq(Sockets)
  BY <1>1, <1>2 DEF QueueReap, Typed
<1>7. reapq' \in Seq(Sockets) /\ NoTwice' /\ Queued' = Queued \cup {x}
  <2>1. \A i \in DOMAIN reapq : reapq[i] # x
    BY <1>5 DEF Queued
  <2>2. \A i, j \in DOMAIN reapq : reapq[i] = reapq[j] => i = j
    BY <1>1 DEF NoTwice
  <2> QED
    <3> PICK p, q : p = reapq' /\ q = reapq
      OBVIOUS
    <3>1. q \in Seq(Sockets) /\ p = Append(q, x)
      BY <1>6
    <3>2. (\A i \in DOMAIN q : q[i] # x) /\ \A i, j \in DOMAIN q : q[i] = q[j] => i = j
      BY <2>1, <2>2
    <3>3. /\ p \in Seq(Sockets) /\ \A i, j \in DOMAIN p : p[i] = p[j] => i = j
          /\ {p[i] : i \in DOMAIN p} = {q[i] : i \in DOMAIN q} \cup {x}
      BY <3>1, <3>2, QueueOneMore
    <3>4. Queued' = {p[i] : i \in DOMAIN p} /\ Queued = {q[i] : i \in DOMAIN q}
      BY DEF Queued
    <3>5. NoTwice'
      BY <3>3 DEF NoTwice
    <3> QED
      BY <3>3, <3>4, <3>5
<1>8. Winds(t, x, "done")
  <2>1. /\ UNCHANGED <<policy, mlock, slock, at, using, st, rank, accepting, all, con, conSocket, failed, refs,
                       running, dispatching, notify, unsent, sent, undone>>
    BY DEF QueueReap, PassM
  <2>2. running' \subseteq Threads /\ slock' \in [Sockets -> Threads \cup {Nobody}]
    BY <1>1, <2>1 DEF Typed
  <2> QED
    BY <1>1, <1>2, <1>3, <1>7, <2>1, <2>2 DEF Winds, AcceptorsKeep
<1>9. /\ UNCHANGED <<at, st, rank, accepting, all, running, unsent, sent, undone, slock>>
      /\ Registering' = Registering /\ Stopping' = Stopping /\ Joining' = Joining
  BY <1>8, WindsMarks DEF Winds, MarksSame, QueueReap, PassM
<1>10. IsAlive(x, z, k, m)'
  <2>1. (k \in Ended <=> r \in Ended) /\ (m \in Ended <=> w \in Ended)
    BY <1>5 DEF Ended
  <2>2. k \notin Accepts \cup Unlists /\ m \notin Unlists /\ m # "connecting"
    BY <1>5 DEF Accepts, Unlists
  <2>3. r \in Ended => at[R(x)] = x
    BY <1>4 DEF IsAlive
  <2>4. (r = "none" => k = "none") /\ (w = "none" => m = "none")
    BY <1>1, <1>4, <1>5
  <2>5. z # "accepting"
    BY <1>4, <1>5 DEF IsAlive, Ended, Accepts
  <2>6. z \notin Live
    BY <1>4, <1>5 DEF IsAlive
  <2> QED
    BY <1>4, <1>5, <1>9, <2>1, <2>2, <2>3, <2>4, <2>5, <2>6 DEF IsAlive
<1>11. IsListed(x, z, k, m)'
  <2>1. z \notin Live /\ x # Registering /\ x # Joining
    BY <1>4, <1>5 DEF IsAlive, IsListed
  <2>2. (x \in accepting => x # rank) /\ (x = rank => z \notin {"none", "accepting"})
    BY <1>4 DEF IsListed
  <2>3. k # "reap" /\ m # "reap" /\ k \in Ended /\ m \in Ended
    BY <1>5 DEF Ended
  <2> QED
    BY <1>5, <1>7, <1>9, <2>1, <2>2, <2>3 DEF IsListed
<1>12. Life(x)'
  BY <1>9, <1>10, <1>11 DEF Life
<1> QED
  BY <1>8, <1>12, WindsKeeps

-----------------------------------------------------------------------------
(* Steps that start a thread                                               *)

TwoMoves(t, l, u, k) ==
    /\ IsPc(pc') /\ where' = [where EXCEPT ![t] = l, ![u] = k]
    /\ \A v \in Threads : where'[v] = IF v = t THEN l ELSE IF v = u THEN k ELSE where[v]
LEMMA TwoMove ==
    ASSUME IsPc(pc), NEW t \in Threads, NEW u \in Threads, NEW l, NEW k, Plain(l) = l, Plain(k) = k,
           t # u, pc' = [pc EXCEPT ![t] = l, ![u] = k]
    PROVE  TwoMoves(t, l, u, k)
<1>1. IsPc(pc') /\ \A v \in Threads : pc'[v] = IF v = t THEN l ELSE IF v = u THEN k ELSE pc[v]
  BY DEF IsPc
<1>2. where' = [v \in Threads |-> Plain(pc'[v])] /\ where = [v \in Threads |-> where[v]]
  BY DEF where
<1>3. \A v \in Threads : where'[v] = IF v = t THEN l ELSE IF v = u THEN k ELSE where[v]
  BY <1>1, <1>2, WhereIs
<1> QED
  BY <1>1, <1>2, <1>3 DEF TwoMoves

LEMMA OwnKept ==
    ASSUME \A u \in Threads : Owned(where'[u], at'[u], using'[u]) = Owned(where[u], at[u], using[u])
    PROVE  own' = own
BY DEF own

\* Connections when sockets that are up stay up.
LEMMA ConnKept ==
    ASSUME \A c \in Sockets : Conn(c), Typed, con' = con, conSocket' = conSocket, failed' = failed,
           \A x \in Sockets : (st'[x] = "none" <=> st[x] = "none")
                              /\ (st'[x] = "accepting" <=> st[x] = "accepting"),
           \A x \in Sockets : IsUp(x) => IsUp(x)'
    PROVE  \A c \in Sockets : Conn(c)'
<1>1. \A c \in Sockets : (Published(c) <=> Published(c)')
  BY DEF Published
<1> SUFFICES ASSUME NEW c \in Sockets PROVE Conn(c)'
  OBVIOUS
<1>2. con[c] \in Sockets /\ conSocket[c] \in Sockets \cup {None}
  BY DEF Typed
<1> QED
  BY <1>1, <1>2 DEF Conn

LEMMA ConnectsKeeps ==
    ASSUME MessengerInv, NEW x \in Sockets, Connects(x)
    PROVE  MessengerInv'
<1> USE DEF locks, lists, owners, flags, queues, stops, ghosts
<1> PICK t, u : t = W(x) /\ u = R(x)
  OBVIOUS
<1>1. /\ Typed /\ Locked /\ IsPc(pc) /\ t \in Threads /\ u \in Threads /\ t # u /\ at[t] = x /\ Life(x)
      /\ where[t] = "connecting" /\ NoTwice /\ RefsOK /\ mlock # t
  BY Actor, Session DEF Connects, At, Plain, MessengerInv, HasM, MayM
<1> PICK r, w, k, m, z : r = where[u] /\ w = where[t] /\ k = where'[u] /\ m = where'[t] /\ z = st[x]
  OBVIOUS
<1>2. IsAlive(x, z, r, w) /\ IsListed(x, z, r, w)
  BY <1>1 DEF Life
<1>3. /\ w = "connecting" /\ r \in {"none", "done"} /\ z \in Live \cup {"closed"} /\ at[u] = x
      /\ x \in all \cup {Registering} /\ x \notin Queued /\ x # Joining
  <2>1. w = "connecting" /\ r \in {"none", "done"} /\ z \notin {"none", "accepting"}
    BY <1>1, <1>2 DEF IsAlive
  <2>2. z \in Live \cup {"closed"}
    BY <1>1, <2>1 DEF Typed, Live
  <2> QED
    BY <1>2, <2>1, <2>2 DEF IsAlive, IsListed, Ended
<1>4. /\ pc' = [pc EXCEPT ![t] = "loop", ![u] = "start"] /\ st' = [st EXCEPT ![x] = "open"]
      /\ undone' = (IF z = "closed" THEN undone \cup {x} ELSE undone) /\ running' = running \cup {u}
      /\ UNCHANGED <<policy, mlock, slock, at, using, rank, accepting, all, con, conSocket, failed, refs,
                     dispatching, notify, unsent, sent, reapq>>
  BY DEF Connects
<1>5. /\ IsPc(pc') /\ where' = [where EXCEPT ![t] = "loop", ![u] = "start"]
      /\ \A v \in Threads : where'[v] = IF v = t THEN "loop" ELSE IF v = u THEN "start" ELSE where[v]
  <2> PICK a, b : a = "loop" /\ b = "start"
    OBVIOUS
  <2>1. Plain(a) = a /\ Plain(b) = b
    BY DEF Plain
  <2>2. IsPc(pc) /\ t \in Threads /\ u \in Threads /\ t # u /\ pc' = [pc EXCEPT ![t] = a, ![u] = b]
    BY <1>1, <1>4
  <2>3. TwoMoves(t, a, u, b)
    BY <2>1, <2>2, TwoMove
  <2> QED
    BY <2>3 DEF TwoMoves
<1>17. k = "start" /\ m = "loop"
  BY <1>1, <1>5
<1>6. Locked'
  <2>1. IsAt(t, "loop") /\ IsAt(u, "start")
    BY SessionAt DEF ReaderLabels, WriterLabels
  <2>2. mlock # u
    BY <1>1, <1>3 DEF Locked, HasM, MayM
  <2>3. LockStep(t) /\ MayHold(t, "loop") /\ "start" \notin HasM
    BY <1>1, <1>4, <2>1 DEF LockStep, MayHold, HasM
  <2> QED
    BY <1>1, <1>5, <2>1, <2>2, <2>3, LockedStepOfTwo
<1>7. MarksSame
  <2>1. where[t] \notin Marks /\ where[u] \notin Marks /\ where'[t] \notin Marks /\ where'[u] \notin Marks
    BY <1>3, <1>17 DEF Marks
  <2> QED
    BY <1>1, <1>4, <1>5, <1>6, <2>1, MarksStep
<1>8. Typed'
  <2>1. st' \in [Sockets -> {"none", "accepting", "connecting", "open", "standby", "closed"}]
        /\ running' \subseteq Threads
    BY <1>1, <1>4 DEF Typed
  <2> QED
    BY <1>1, <1>4, <2>1 DEF Typed
<1>9. RefsOK'
  <2>1. own' = own
    <3>1. ASSUME NEW v \in Threads
          PROVE  Owned(where'[v], at'[v], using'[v]) = Owned(where[v], at[v], using[v])
      <4>1. at'[v] = at[v] /\ using'[v] = using[v]
        BY <1>4
      <4>2. CASE v \in {t, u}
        <5>1. where[v] \notin {"lock to send", "await", "lock to stop"}
              /\ where'[v] \notin {"lock to send", "await", "lock to stop"}
          BY <1>3, <1>17, <4>2
        <5> QED
          BY <5>1 DEF Owned
      <4>3. CASE v \notin {t, u}
        BY <1>5, <4>1, <4>3
      <4> QED
        BY <4>2, <4>3
    <3> QED
      BY <3>1, OwnKept
  <2> QED
    BY <1>1, <1>4, <1>7, <2>1, RefsSame
<1>10. /\ st'[x] = "open" /\ Queued' = Queued /\ \A y \in Sockets : y # x => st'[y] = st[y]
       /\ \A y \in Sockets : y # x => (y \in undone' <=> y \in undone)
       /\ x \in undone => x \in undone'
  BY <1>1, <1>4 DEF Typed, Queued
<1>11. \A y \in Sockets : Conn(y)'
  <2>1. ASSUME NEW y \in Sockets, IsUp(y) PROVE IsUp(y)'
    <3>1. CASE y = x
      <4>1. st[x] \in Live /\ x \notin undone
        BY <1>3, <2>1, <3>1 DEF IsUp
      <4>2. st'[x] \in Live /\ undone' = undone
        BY <1>4, <1>10, <4>1 DEF Live
      <4> QED
        BY <3>1, <4>1, <4>2 DEF IsUp
    <3>2. CASE y # x
      <4>1. R(y) # t /\ R(y) # u /\ R(y) \in Threads
        BY <3>2, ThreadNames
      <4> QED
        BY <1>5, <1>10, <2>1, <3>2, <4>1 DEF IsUp
    <3> QED
      BY <3>1, <3>2
  <2>2. ASSUME NEW y \in Sockets
        PROVE  (st'[y] = "none" <=> st[y] = "none") /\ (st'[y] = "accepting" <=> st[y] = "accepting")
    BY <1>3, <1>10 DEF Live
  <2>3. \A y \in Sockets : Conn(y)
    BY DEF MessengerInv
  <2>4. UNCHANGED <<con, conSocket, failed>>
    BY <1>4
  <2> QED
    BY <1>1, <2>1, <2>2, <2>3, <2>4, ConnKept
<1>12. \A d \in Sockets : Published(d) => Published(d)'
  BY <1>4, <1>10 DEF Published
<1>13. \A v \in Threads : Thr(v)'
  <2>1. ASSUME NEW v \in {t, u} PROVE Thr(v)'
    <3> PICK l, s, c : l = where'[v] /\ s = at'[v] /\ c = using'[v]
      OBVIOUS
    <3>1. l \notin Special
      BY <1>17 DEF Special
    <3>2. c = None \/ (c \in Sockets /\ Published(c))
      BY <1>1, <1>4, Actor DEF IsThr
    <3>3. c = None \/ Published(c)'
      BY <1>12, <3>2
    <3>4. IsThr(v, l, s, c)'
      BY <3>1, <3>3, ThrSimple
    <3> QED
      BY <3>4 DEF Thr
  <2>2. ASSUME NEW v \in Threads, v \notin {t, u} PROVE Thr(v)'
    <3>1. where'[v] = where[v] /\ using'[v] = using[v] /\ at'[v] = at[v] /\ mlock' = mlock
      BY <1>4, <1>5, <2>2
    <3>2. Thr(v)
      BY DEF MessengerInv
    <3>3. \A y \in Sockets : /\ st[y] # "none" => st'[y] # "none"
                             /\ st[y] \notin {"none", "accepting"} => st'[y] # "accepting"
      BY <1>10
    <3>4. Vacant => Vacant'
      <4>1. rank' = rank /\ rank \in Sockets \cup {None}
        BY <1>1, <1>4 DEF Typed
      <4>2. rank = x /\ st[rank] = "closed" => rank \in undone'
        BY <1>4
      <4> QED
        BY <1>10, <4>1, <4>2 DEF Vacant
    <3> QED
      BY <1>1, <1>4, <1>12, <3>1, <3>2, <3>3, <3>4, ThrFrame
  <2> QED
    BY <2>1, <2>2
<1>14. Life(x)'
  <2>1. k = "start" /\ m = "loop"
    BY <1>17
  <2>2. at'[R(x)] = x /\ at'[W(x)] = x /\ R(x) \in running' /\ (W(x) \in running' <=> W(x) \in running)
    BY <1>1, <1>3, <1>4
  <2>3. IsAlive(x, "open", k, m)'
    <3>1. W(x) \in running
      BY <1>2, <1>3 DEF IsAlive, Ended
    <3> QED
      BY <2>1, <2>2, <3>1 DEF IsAlive, Ended, Accepts, Unlists, Live
  <2>4. /\ x \in accepting => x \in all /\ x # rank
        /\ x = rank => x \in all
        /\ x = Registering => x \notin all
        /\ x \in undone' \cup {rank, Registering, Stopping}
    BY <1>2, <1>3, <1>4, <1>10 DEF IsListed
  <2>5. Registering' = Registering /\ Stopping' = Stopping /\ Joining' = Joining
    BY <1>7 DEF MarksSame
  <2>6. UNCHANGED <<rank, accepting, all>> /\ Queued' = Queued
    BY <1>4, <1>10
  <2>7. IsListed(x, "open", k, m)'
    BY <1>3, <2>1, <2>4, <2>5, <2>6 DEF IsListed, Ended, Live
  <2> QED
    BY <1>10, <2>3, <2>7 DEF Life
<1>15. ASSUME NEW y \in Sockets, y # x PROVE Life(y)'
  <2>1. Life(y) /\ R(y) \in Threads /\ W(y) \in Threads /\ R(y) \notin {t, u} /\ W(y) \notin {t, u}
    BY <1>15, Session, ThreadNames
  <2>2. where'[R(y)] = where[R(y)] /\ where'[W(y)] = where[W(y)]
    BY <1>5, <2>1
  <2>3. SameWork(y)
    BY <1>4, <1>10, <1>15, <2>1, <2>2 DEF SameWork
  <2>4. y \notin all /\ y # Registering => unsent'[y] = 0 /\ sent'[y] = 0
    BY <1>4, QueuesKept
  <2>5. SameLists(y)
    BY <1>4, <1>7, <1>10, <1>15, <2>4 DEF SameLists, MarksSame
  <2> QED
    BY <2>1, <2>3, <2>5, LifeFrame
<1>16. NoTwice'
  BY <1>1, <1>4 DEF NoTwice
<1> QED
  BY <1>6, <1>8, <1>9, <1>11, <1>13, <1>14, <1>15, <1>16 DEF MessengerInv

-----------------------------------------------------------------------------
(* The lists                                                               *)

LEMMA MoverWork ==
    ASSUME MessengerInv, NEW t \in Threads, NEW l, NEW s, Moves(t, l), at' = [at EXCEPT ![t] = s],
           QuietMove(t, l, s), running' = running, undone' = undone, AcceptorsKeep,
           NEW y \in Sockets, st'[y] = st[y]
    PROVE  SameWork(y)
<1>1. R(y) \in Threads /\ W(y) \in Threads /\ R(y) # W(y) /\ at[W(y)] = y
      /\ at \in [Threads -> Sockets \cup {None}]
  BY Session DEF MessengerInv, Typed
<1>2. /\ where'[R(y)] = IF R(y) = t THEN l ELSE where[R(y)]
      /\ where'[W(y)] = IF W(y) = t THEN l ELSE where[W(y)]
      /\ at'[R(y)] = IF R(y) = t THEN s ELSE at[R(y)]
      /\ at'[W(y)] = IF W(y) = t THEN s ELSE at[W(y)]
  BY <1>1, WhereIs DEF Moves
<1>3. /\ t = R(y) => ReaderGoes(y, st[y], where[t], l, s)
      /\ t = W(y) => WriterGoes(y, where[t], l) /\ s = y
  BY DEF QuietMove
<1> QED
  BY <1>1, <1>2, <1>3 DEF SameWork, AcceptorsKeep

\* Threads other than one that has, or had, the lock of the messenger.
LEMMA HolderThr ==
    ASSUME MessengerInv, NEW t \in Threads, NEW l, NEW s, Moves(t, l), at' = [at EXCEPT ![t] = s],
           using' = using, st' = st, con' = con, mlock \in {t, Nobody}, mlock' \in {t, Nobody},
           NEW u \in Threads, u # t
    PROVE  Thr(u)'
<1>1. Locked /\ Typed /\ Thr(u)
  BY DEF MessengerInv
<1>2. where'[u] = where[u] /\ using'[u] = using[u] /\ at'[u] = at[u]
  BY <1>1, WhereIs DEF Moves, Typed
<1>3. mlock # u /\ mlock' # u
  BY ThreadNames
<1>4. \A d \in Sockets : Published(d) => Published(d)'
  BY DEF Published
<1> QED
  BY <1>1, <1>2, <1>3, <1>4, ThrFrame

LEMMA RegisterKeeps ==
    ASSUME MessengerInv, NEW t \in Threads, Register(t)
    PROVE  MessengerInv'
<1> USE DEF locks, lists, owners, flags, queues, stops, ghosts
<1> PICK s, l, c : s = at[t] /\ l = Return(t) /\ c = using[t]
  OBVIOUS
<1>1. /\ Typed /\ Locked /\ IsPc(pc) /\ where[t] = "register" /\ mlock = t /\ IsThr(t, "register", s, c)
      /\ at = [at EXCEPT ![t] = s] /\ own[t] = None /\ NoTwice /\ RefsOK /\ s \in Sockets \cup {None}
      /\ using = [using EXCEPT ![t] = c] /\ c \in Sockets \cup {None}
  <2>1. where[t] = "register"
    BY Actor DEF Register, At, Plain
  <2> QED
    BY <2>1, Actor DEF MessengerInv, HasM, Owned
<1>2. /\ Go(t, l) /\ mlock' = Nobody /\ rank' = s /\ all' = all \cup {s}
      /\ UNCHANGED <<policy, slock, at, using, st, accepting, con, conSocket, failed, refs, running,
                     dispatching, notify, unsent, sent, reapq, undone>>
  BY <1>1 DEF Register, GiveM
<1>3. l \in {"idle", "dispatched"} /\ Plain(l) = l
  BY DEF Return, Plain
<1>4. Moves(t, l)
  BY <1>1, <1>2, <1>3, GoMoves
<1>5. IsAt(t, l) /\ QuietMove(t, l, s)
  <2>1. where[t] \in CallLabels
    BY <1>1 DEF CallLabels
  <2>2. IsAt(t, l) /\ QuietMove(t, l, s)
    BY <2>1, CallMove
  <2> QED
    BY <2>2
<1>6. LockStep(t) /\ MayHold(t, l)
  BY <1>1, <1>2, <1>3, <1>5, ThreadNames DEF LockStep, MayHold, HasM
<1>7. Locked'
  BY <1>1, <1>4, <1>6, LockedStep
<1>8. s \in Sockets /\ st[s] # "none" /\ Vacant
  BY <1>1 DEF IsThr
<1>9. /\ Registering = s /\ Stopping = None /\ Registering' = None /\ Stopping' = None
      /\ Joining' = Joining
  <2>1. mlock # Nobody
    BY <1>1, ThreadNames
  <2>2. Registering = s /\ Stopping = None
    BY <1>1, <2>1 DEF Registering, Stopping
  <2>3. Registering' = None /\ Stopping' = None
    BY <1>2 DEF Registering, Stopping
  <2>4. t # Reaper
    <3>1. IsAt(t, where[t])
      BY <1>1 DEF Locked
    <3> QED
      BY <1>1, <3>1 DEF IsAt, ReaperLabels
  <2>5. where'[Reaper] = where[Reaper] /\ at' = at
    BY <1>2, <1>4, <2>4, WhereIs, ThreadNames DEF Moves
  <2>6. Joining' = Joining
    BY <2>5 DEF Joining
  <2> QED
    BY <2>2, <2>3, <2>6
<1>10. Typed'
  BY <1>1, <1>2, <1>8 DEF Typed
<1>11. RefsOK'
  <2>1. own' = own
    <3>1. own' = [own EXCEPT ![t] = Owned(l, s, c)]
      <4>1. at' = [at EXCEPT ![t] = s] /\ using' = [using EXCEPT ![t] = c]
        BY <1>1, <1>2
      <4> QED
        <5>1. Typed /\ t \in Threads
          BY <1>1
        <5> QED
          BY <1>4, <4>1, <5>1, OwnStep
    <3>2. Owned(l, s, c) = None
      BY <1>3 DEF Owned
    <3> QED
      BY <1>1, <3>1, <3>2 DEF own
  <2>2. \A y \in Sockets : Created(y)' = Created(y)
    BY <1>2, <1>9, NoneIsNone DEF Created
  <2> QED
    BY <1>1, <1>2, <2>1, <2>2 DEF RefsOK, Count
<1>12. \A y \in Sockets : Conn(y)'
  <2>1. ASSUME NEW y \in Sockets, where[R(y)] = "open" PROVE where'[R(y)] = "open"
    <3>1. R(y) \in Threads /\ R(y) # t
      BY <1>1, <2>1, ThreadNames
    <3> QED
      BY <1>4, <2>1, <3>1, WhereIs DEF Moves
  <2>2. \A y \in Sockets : Conn(y)
    BY DEF MessengerInv
  <2> QED
    BY <1>1, <1>2, <2>1, <2>2, ConnFrame
<1>13. \A u \in Threads : Thr(u)'
  <2>1. Thr(t)'
    <3>1. where'[t] = l /\ at'[t] = s /\ using'[t] = c
      BY <1>2, <1>4, WhereIs DEF Moves
    <3>2. c = None \/ Published(c)'
      BY <1>1, <1>2, PublishedKept DEF IsThr
    <3>3. l \notin Special
      BY <1>3 DEF Special
    <3>4. IsThr(t, l, s, c)'
      BY <3>2, <3>3, ThrSimple
    <3> QED
      BY <3>1, <3>4 DEF Thr
  <2>2. ASSUME NEW u \in Threads, u # t PROVE Thr(u)'
    <3>1. at' = [at EXCEPT ![t] = s]
      BY <1>1, <1>2
    <3> QED
      BY <1>1, <1>2, <1>4, <2>2, <3>1, HolderThr
  <2> QED
    BY <2>1, <2>2
<1>14. ASSUME NEW y \in Sockets PROVE SameWork(y) /\ Life(y)
  <2>1. at' = [at EXCEPT ![t] = s] /\ AcceptorsKeep
    BY <1>1, <1>2 DEF AcceptorsKeep
  <2>2. st'[y] = st[y]
    BY <1>2
  <2>3. SameWork(y)
    BY <1>2, <1>4, <1>5, <2>1, <2>2, MoverWork
  <2> QED
    BY <2>3, Session
<1>15. Queued' = Queued
  BY <1>2 DEF Queued
<1>16. ASSUME NEW y \in Sockets, y # s PROVE Life(y)'
  <2>1. y \notin all /\ y # Registering => unsent'[y] = 0 /\ sent'[y] = 0
    BY <1>2, QueuesKept
  <2>2. st[y] \in Live /\ y = rank => y \in undone
    BY <1>8, NoneIsNone DEF Vacant, Live
  <2>3. y # None
    BY NoneIsNone
  <2>4. SameLists(y)
    BY <1>2, <1>9, <1>15, <1>16, <2>1, <2>2, <2>3 DEF SameLists
  <2> QED
    BY <1>14, <2>4, LifeFrame
<1>17. Life(s)'
  <2> PICK r, w, k, m, z : /\ r = where[R(s)] /\ w = where[W(s)] /\ k = where'[R(s)] /\ m = where'[W(s)]
                           /\ z = st[s]
    OBVIOUS
  <2>1. IsAlive(s, z, r, w) /\ IsListed(s, z, r, w)
    BY <1>8, <1>14 DEF Life
  <2>2. s \notin all /\ w # "none" /\ (z = "closed" => "lock to unlist" \in {r, w}) /\ s # None
    BY <1>8, <1>9, <2>1, NoneIsNone DEF IsListed
  <2>3. z \notin {"none", "accepting"} /\ s \notin Queued /\ s \notin accepting
    BY <2>1, <2>2 DEF IsAlive, IsListed
  <2>4. s # Joining
    <3>1. s = Joining => z = "closed" /\ {r, w} \subseteq {"none", "done"}
      BY <2>1 DEF IsListed
    <3> QED
      BY <2>2, <3>1
  <2>5. r # "reap" /\ w # "reap"
    BY <2>1, <2>2 DEF IsListed
  <2>6. SameWork(s) /\ Life(s)
    BY <1>8, <1>14
  <2>7. (k = r \/ ReaderGoes(s, z, r, k, at'[R(s)])) /\ (m = w \/ WriterGoes(s, w, m)) /\ st'[s] = z
    BY <2>6 DEF SameWork
  <2>8. k # "reap" /\ m # "reap"
    BY <2>5, <2>7 DEF ReaderGoes, WriterGoes, Accepts, BusyR, BusyW, CallLabels
  <2>9. IsAlive(s, st[s], where[R(s)], where[W(s)])'
    BY <1>8, <2>3, <2>6, AliveFrame
  <2>10. /\ s \in all' /\ s = rank' /\ s \notin Queued' /\ s # Joining' /\ s # Registering' /\ s \notin accepting'
    BY <1>2, <1>9, <1>15, <2>2, <2>3, <2>4
  <2>11. IsListed(s, z, k, m)'
    BY <2>3, <2>8, <2>10 DEF IsListed
  <2> QED
    BY <2>7, <2>9, <2>11 DEF Life
<1>18. NoTwice'
  BY <1>1, <1>2 DEF NoTwice
<1> QED
  BY <1>7, <1>10, <1>11, <1>12, <1>13, <1>16, <1>17, <1>18 DEF MessengerInv

-----------------------------------------------------------------------------
(* The reaper                                                              *)

\* References when what threads have stays the same.
RefsMoveCon(c, b) ==
    /\ conSocket' = [conSocket EXCEPT ![c] = b]
    /\ \A y \in Sockets :
          refs'[y] = refs[y] + Created(y)' - Created(y) + Is(b, y) - Is(conSocket[c], y)
LEMMA RefsOfCon ==
    ASSUME RefsOK, Typed, own' = own, NEW c \in Sockets, NEW b, RefsMoveCon(c, b)
    PROVE  RefsOK'
<1> USE DEF RefsMoveCon
<1> PICK t \in Threads : TRUE
  BY ThreadNames
<1> PICK a : a = own[t]
  OBVIOUS
<1>1. own' = [own EXCEPT ![t] = a]
  BY DEF own
<1>2. ASSUME NEW y \in Sockets
      PROVE  refs'[y] = refs[y] + Created(y)' - Created(y) + Is(b, y) - Is(conSocket[c], y)
                         + Is(a, y) - Is(own[t], y)
  <2>1. Is(a, y) = Is(own[t], y) /\ Is(a, y) \in {0, 1} /\ Is(b, y) \in {0, 1} /\ Is(conSocket[c], y) \in {0, 1}
    BY DEF Is
  <2>2. Created(y)' \in {0, 1} /\ Created(y) \in {0, 1} /\ refs[y] \in Int
    BY DEF Created, Typed
  <2>3. refs'[y] = refs[y] + Created(y)' - Created(y) + Is(b, y) - Is(conSocket[c], y)
    OBVIOUS
  <2> QED
    BY <2>1, <2>2, <2>3
<1>3. RefsMove(t, a, c, b)
  BY <1>1, <1>2 DEF RefsMove
<1> QED
  BY <1>3, RefsStep

LEMMA RefsCleared ==
    ASSUME RefsOK, Typed, own' = own, NEW x \in Sockets, Clears(x),
           \A y \in Sockets : refs'[y] = refs[y] - (IF y = x /\ conSocket[con[x]] = x THEN 1 ELSE 0),
           \A y \in Sockets : Created(y)' = Created(y)
    PROVE  RefsOK'
<1> PICK d : d = con[x]
  OBVIOUS
<1> PICK e : e = conSocket[d]
  OBVIOUS
<1> PICK b : b = IF e = x THEN None ELSE e
  OBVIOUS
<1>1. d \in Sockets /\ refs \in [Sockets -> Int] /\ conSocket \in [Sockets -> Sockets \cup {None}]
  BY DEF Typed
<1>2. conSocket' = [conSocket EXCEPT ![d] = b]
  BY <1>1 DEF Clears
<1>3. ASSUME NEW y \in Sockets
      PROVE  refs'[y] = refs[y] + Created(y)' - Created(y) + Is(b, y) - Is(e, y)
  <2>1. Created(y)' = Created(y) /\ Created(y) \in Int /\ refs[y] \in Int
    BY <1>1 DEF Created
  <2>2. refs'[y] = refs[y] - (IF y = x /\ e = x THEN 1 ELSE 0)
    OBVIOUS
  <2>3. Is(b, y) = (IF e = x THEN 0 ELSE Is(e, y)) /\ (e = x => Is(e, y) = IF y = x THEN 1 ELSE 0)
        /\ Is(e, y) \in {0, 1}
    BY NoneIsNone DEF Is
  <2> QED
    BY <2>1, <2>2, <2>3
<1>4. \A y \in Sockets : refs'[y] = refs[y] + Created(y)' - Created(y) + Is(b, y) - Is(conSocket[d], y)
  BY <1>3
<1>5. RefsMoveCon(d, b)
  BY <1>2, <1>4 DEF RefsMoveCon
<1> QED
  BY <1>1, <1>5, RefsOfCon

LEMMA RefsJoined ==
    ASSUME RefsOK, Typed, own' = own, conSocket' = conSocket, NEW x \in Sockets, x \notin all, all' = all,
           refs' = [refs EXCEPT ![x] = @ - 1], Registering = None, Registering' = None,
           Joining = x, Joining' = None
    PROVE  RefsOK'
<1> PICK b : b = conSocket[x]
  OBVIOUS
<1>1. conSocket' = [conSocket EXCEPT ![x] = b] /\ refs \in [Sockets -> Int]
  BY DEF Typed
<1>2. ASSUME NEW y \in Sockets
      PROVE  refs'[y] = refs[y] + Created(y)' - Created(y) + Is(b, y) - Is(conSocket[x], y)
  <2>1. /\ Created(y) = (IF y = x THEN 1 ELSE IF y \in all THEN 1 ELSE 0)
        /\ Created(y)' = (IF y = x THEN 0 ELSE IF y \in all THEN 1 ELSE 0)
    BY NoneIsNone DEF Created
  <2>2. Is(b, y) = Is(conSocket[x], y) /\ Is(b, y) \in {0, 1}
    BY DEF Is
  <2>3. refs'[y] = (IF y = x THEN refs[y] - 1 ELSE refs[y]) /\ refs[y] \in Int
    BY <1>1
  <2> QED
    BY <2>1, <2>2, <2>3
<1>3. RefsMoveCon(x, b)
  BY <1>1, <1>2 DEF RefsMoveCon
<1> QED
  BY <1>3, RefsOfCon

\* The queue of the reaper without its first socket.
Items(q) == {q[i] : i \in DOMAIN q}
Distinct(q) == \A i, j \in DOMAIN q : q[i] = q[j] => i = j
LEMMA QueueOneLess ==
    ASSUME NEW q \in Seq(Sockets), q # <<>>, NEW x, x = Head(q), NEW p, p = Tail(q), Distinct(q)
    PROVE  /\ p \in Seq(Sockets) /\ Distinct(p)
           /\ x \in Sockets /\ x \in Items(q) /\ Items(p) = Items(q) \ {x}
<1> USE DEF Items, Distinct
<1> HIDE DEF Sockets
<1> PICK n : n = Len(q)
  OBVIOUS
<1>1. /\ p \in Seq(Sockets) /\ n \in Nat /\ n >= 1 /\ Len(p) = n - 1
      /\ DOMAIN q = 1 .. n /\ DOMAIN p = 1 .. (n - 1)
      /\ \A i \in 1 .. (n - 1) : p[i] = q[i + 1]
      /\ x = q[1] /\ x \in Sockets
  OBVIOUS
<1>2. ASSUME NEW i \in DOMAIN p, NEW j \in DOMAIN p, p[i] = p[j] PROVE i = j
  <2>1. i + 1 \in DOMAIN q /\ j + 1 \in DOMAIN q /\ q[i + 1] = q[j + 1]
    BY <1>1, <1>2
  <2>2. i + 1 = j + 1
    BY <2>1
  <2> QED
    BY <1>1, <1>2, <2>2
<1>3. ASSUME NEW i \in DOMAIN p PROVE p[i] \in {q[j] : j \in DOMAIN q} \ {x}
  <2>1. i + 1 \in DOMAIN q /\ p[i] = q[i + 1] /\ 1 \in DOMAIN q /\ i + 1 # 1
    BY <1>1, <1>3
  <2>2. q[i + 1] # q[1]
    BY <2>1
  <2> QED
    BY <1>1, <2>1, <2>2
<1>4. ASSUME NEW j \in DOMAIN q, q[j] # x PROVE \E i \in DOMAIN p : p[i] = q[j]
  <2>1. j # 1
    BY <1>1, <1>4
  <2>2. j - 1 \in DOMAIN p /\ p[j - 1] = q[j]
    BY <1>1, <2>1
  <2> QED
    BY <2>2
<1>5. 1 \in DOMAIN q /\ q[1] = x
  BY <1>1
<1> QED
  BY <1>1, <1>2, <1>3, <1>4, <1>5

LEMMA ReapKeeps ==
    ASSUME MessengerInv, Reap
    PROVE  MessengerInv'
<1> USE DEF locks, lists, owners, flags, queues, stops, ghosts
<1> PICK t, s, c, l : t = Reaper /\ s = Head(reapq) /\ c = using[t] /\ l = "join threads"
  OBVIOUS
<1>1. /\ t \in Threads /\ t \notin Apps /\ Typed /\ Locked /\ IsPc(pc) /\ where[t] = "reaping" /\ mlock = t
      /\ own[t] = None /\ NoTwice /\ RefsOK /\ IsThr(t, "reaping", at[t], c)
      /\ using = [using EXCEPT ![t] = c] /\ c \in Sockets \cup {None}
  <2>1. t \in Threads /\ t \notin Apps /\ where[t] = "reaping"
    BY Actor, ThreadNames DEF Reap, At, Plain
  <2> QED
    BY <2>1, Actor DEF MessengerInv, HasM, Owned
<1>2. /\ s \in Sockets /\ s \in Queued /\ reapq' \in Seq(Sockets) /\ NoTwice' /\ Queued' = Queued \ {s}
  <2> PICK q, p : q = reapq /\ p = reapq'
    OBVIOUS
  <2>1. q \in Seq(Sockets) /\ q # <<>> /\ s = Head(q) /\ p = Tail(q) /\ Distinct(q)
    BY <1>1 DEF Reap, Typed, NoTwice, Distinct
  <2>2. /\ p \in Seq(Sockets) /\ Distinct(p)
        /\ s \in Sockets /\ s \in Items(q) /\ Items(p) = Items(q) \ {s}
    BY <2>1, QueueOneLess
  <2>3. Queued = Items(q) /\ Queued' = Items(p)
    BY DEF Queued, Items
  <2>4. NoTwice' <=> Distinct(p)
    BY DEF NoTwice, Distinct
  <2> QED
    BY <2>2, <2>3, <2>4
<1>3. /\ Go(t, l) /\ mlock' = Nobody /\ at' = [at EXCEPT ![t] = s] /\ all' = all \ {s}
      /\ unsent' = [unsent EXCEPT ![s] = 0] /\ sent' = [sent EXCEPT ![s] = 0]
      /\ ClearSocket(con[s], s) /\ unregister_socket(s)
      /\ UNCHANGED <<policy, slock, using, st, con, running, dispatching, notify, undone>>
  BY <1>1 DEF Reap, GiveM, Pass
<1>4. Moves(t, l)
  BY <1>1, <1>3, GoMoves DEF Plain
<1>5. IsAt(t, l) /\ QuietMove(t, l, s)
  BY ThreadNames DEF IsAt, ReaperLabels, QuietMove
<1>6. LockStep(t) /\ MayHold(t, l)
  BY <1>1, <1>3, <1>5, ThreadNames DEF LockStep, MayHold, HasM
<1>7. Locked'
  BY <1>1, <1>4, <1>6, LockedStep
<1> PICK r, w, z : r = where[R(s)] /\ w = where[W(s)] /\ z = st[s]
  OBVIOUS
<1>8. IsAlive(s, z, r, w) /\ IsListed(s, z, r, w)
  BY <1>2, Session DEF Life
<1>9. s \in all /\ {r, w} \subseteq {"none", "done"} /\ z = "closed" /\ (s \in accepting => s # rank)
  <2>1. s \in all /\ {r, w} \subseteq {"none", "done"} /\ (s \in accepting => s # rank)
    BY <1>2, <1>8 DEF IsListed
  <2>2. z \notin {"none", "accepting"} \cup Live
    BY <1>8, <2>1 DEF IsAlive, Ended, Accepts
  <2> QED
    BY <1>1, <1>2, <2>1, <2>2 DEF Typed, Live
<1>10. /\ Registering = None /\ Stopping = None /\ Registering' = None /\ Stopping' = None
       /\ Joining = None /\ Joining' = s
  <2>1. where'[t] = l /\ at'[t] = s
    BY <1>1, <1>3, <1>4, WhereIs DEF Moves, Typed
  <2>2. Registering' = None /\ Stopping' = None
    BY <1>3 DEF Registering, Stopping
  <2> QED
    BY <1>1, <2>1, <2>2 DEF Registering, Stopping, Joining
<1>11. Clears(s) /\ refs' \in [Sockets -> Int]
       /\ \A y \in Sockets : refs'[y] = refs[y] - (IF y = s /\ conSocket[con[s]] = s THEN 1 ELSE 0)
  BY <1>1, <1>2, <1>3, Cleared
<1>12. rank' \in {rank, None} /\ (rank = s \/ rank' = rank) /\ accepting' \subseteq accepting /\ rank' # s
       /\ s \notin accepting'
  BY <1>1, <1>2, <1>3, <1>9, NoneIsNone DEF unregister_socket
<1>13. Typed'
  <2>1. conSocket' \in [Sockets -> Sockets \cup {None}] /\ failed' \in [Sockets -> BOOLEAN]
    <3>1. conSocket \in [Sockets -> Sockets \cup {None}] /\ failed \in [Sockets -> BOOLEAN]
      BY <1>1 DEF Typed
    <3>2. CASE conSocket[con[s]] = s
      BY <1>11, <3>1, <3>2 DEF Clears
    <3>3. CASE conSocket[con[s]] # s
      BY <1>11, <3>1, <3>3 DEF Clears
    <3> QED
      BY <3>2, <3>3
  <2>2. rank' \in Sockets \cup {None} /\ accepting' \subseteq Sockets /\ all' \subseteq Sockets
    BY <1>1, <1>3, <1>12 DEF Typed
  <2>3. /\ unsent' \in [Sockets -> Nat] /\ sent' \in [Sockets -> Nat]
        /\ at' \in [Threads -> Sockets \cup {None}]
    BY <1>1, <1>2, <1>3 DEF Typed
  <2> QED
    BY <1>1, <1>2, <1>3, <1>11, <2>1, <2>2, <2>3 DEF Typed
<1>14. RefsOK'
  <2>1. own' = own
    <3>1. at' = [at EXCEPT ![t] = s] /\ using' = [using EXCEPT ![t] = c]
      BY <1>1, <1>3
    <3>2. Typed /\ t \in Threads /\ own[t] = None
      BY <1>1
    <3>3. Owned(l, s, c) = None
      BY DEF Owned
    <3> QED
      BY <1>4, <3>1, <3>2, <3>3, OwnStays
  <2>2. \A y \in Sockets : Created(y)' = Created(y)
    BY <1>3, <1>9, <1>10, NoneIsNone DEF Created
  <2> QED
    BY <1>1, <1>2, <1>11, <2>1, <2>2, RefsCleared
<1>15. \A y \in Sockets : Conn(y)'
  <2>1. ASSUME NEW y \in Sockets, where[R(y)] = "open" PROVE where'[R(y)] = "open"
    <3>1. R(y) \in Threads /\ R(y) # t
      BY ThreadNames
    <3> QED
      BY <1>4, <2>1, <3>1, WhereIs DEF Moves
  <2>2. \A y \in Sockets : Conn(y)
    BY DEF MessengerInv
  <2>3. st' = [st EXCEPT ![s] = "closed"]
    BY <1>1, <1>2, <1>3, <1>9 DEF Typed
  <2>4. st[s] # "none" /\ con' = con /\ undone' = undone
    BY <1>3, <1>9
  <2> QED
    BY <1>1, <1>2, <1>11, <2>1, <2>2, <2>3, <2>4, ConnClosed
<1>16. \A u \in Threads : Thr(u)'
  <2>1. Thr(t)'
    <3>1. where'[t] = l /\ at'[t] = s /\ using'[t] = c
      BY <1>1, <1>3, <1>4, WhereIs DEF Moves, Typed
    <3>2. c = None \/ Published(c)'
      BY <1>1, <1>3, PublishedKept DEF IsThr
    <3>3. s # None /\ st'[s] # "none" /\ mlock' # t
      BY <1>1, <1>2, <1>3, <1>9, NoneIsNone, ThreadNames
    <3>4. IsThr(t, l, s, c)'
      BY <3>2, <3>3 DEF IsThr
    <3> QED
      BY <3>1, <3>4 DEF Thr
  <2>2. ASSUME NEW u \in Threads, u # t PROVE Thr(u)'
    BY <1>1, <1>3, <1>4, <2>2, HolderThr
  <2> QED
    BY <2>1, <2>2
<1>17. ASSUME NEW y \in Sockets PROVE SameWork(y) /\ Life(y)
  <2>1. AcceptorsKeep /\ st'[y] = st[y]
    BY <1>3 DEF AcceptorsKeep
  <2>2. SameWork(y)
    BY <1>1, <1>3, <1>4, <1>5, <2>1, MoverWork
  <2> QED
    BY <2>2, Session
<1>18. ASSUME NEW y \in Sockets, y # s PROVE Life(y)'
  <2>1. y \notin all /\ y # Registering => unsent'[y] = 0 /\ sent'[y] = 0
    <3>1. unsent'[y] = unsent[y] /\ sent'[y] = sent[y]
      BY <1>1, <1>3, <1>18 DEF Typed
    <3> QED
      BY <3>1, QueuesKept
  <2>2. y # None
    BY NoneIsNone
  <2>3. (y \in all' <=> y \in all) /\ (y \in Queued' <=> y \in Queued) /\ (y \in accepting' => y \in accepting)
    BY <1>2, <1>3, <1>12, <1>18
  <2>4. SameLists(y)
    BY <1>10, <1>12, <1>18, <2>1, <2>2, <2>3 DEF SameLists
  <2> QED
    BY <1>17, <2>4, LifeFrame
<1>19. Life(s)'
  <2>1. SameWork(s) /\ Life(s) /\ st[s] \notin {"none", "accepting"}
    BY <1>2, <1>9, <1>17
  <2>2. IsAlive(s, st[s], where[R(s)], where[W(s)])'
    BY <1>2, <2>1, AliveFrame
  <2>3. R(s) \in Threads /\ W(s) \in Threads /\ R(s) # t /\ W(s) # t
    BY <1>2, ThreadNames
  <2>4. where'[R(s)] = r /\ where'[W(s)] = w /\ st'[s] = "closed"
    BY <1>3, <1>4, <1>9, <2>3, WhereIs DEF Moves
  <2>5. /\ s \notin all' /\ s # rank' /\ s \notin Queued' /\ s = Joining' /\ s # Registering' /\ s \notin accepting'
        /\ unsent'[s] = 0 /\ sent'[s] = 0
    BY <1>1, <1>2, <1>3, <1>10, <1>12, NoneIsNone DEF Typed
  <2>6. IsListed(s, "closed", r, w)'
    BY <1>9, <2>5 DEF IsListed, Ended, Live
  <2> QED
    BY <2>2, <2>4, <2>6 DEF Life
<1> QED
  BY <1>2, <1>7, <1>13, <1>14, <1>15, <1>16, <1>18, <1>19 DEF MessengerInv

LEMMA JoinThreadsKeeps ==
    ASSUME MessengerInv, JoinThreads
    PROVE  MessengerInv'
<1> USE DEF locks, lists, owners, flags, queues, stops, ghosts
<1> PICK t, s, c, l : t = Reaper /\ s = at[t] /\ c = using[t] /\ l = "reaping"
  OBVIOUS
<1>1. /\ t \in Threads /\ t \notin Apps /\ Typed /\ Locked /\ IsPc(pc) /\ where[t] = "join threads"
      /\ own[t] = None /\ NoTwice /\ RefsOK /\ IsThr(t, "join threads", s, c)
      /\ using = [using EXCEPT ![t] = c] /\ at = [at EXCEPT ![t] = s] /\ c \in Sockets \cup {None}
      /\ s \in Sockets \cup {None}
  <2>1. t \in Threads /\ t \notin Apps /\ where[t] = "join threads"
    BY Actor, ThreadNames DEF JoinThreads, At, Plain
  <2> QED
    BY <2>1, Actor DEF MessengerInv, Owned
<1>2. /\ Go(t, l) /\ mlock = Nobody /\ mlock' = t /\ Dec(s)
      /\ UNCHANGED <<policy, slock, at, using, st, rank, accepting, all, con, conSocket, failed,
                     running, dispatching, notify, unsent, sent, reapq, undone>>
  BY DEF JoinThreads, TakeM
<1>3. s \in Sockets /\ st[s] # "none"
  BY <1>1 DEF IsThr
<1>4. Moves(t, l)
  BY <1>1, <1>2, GoMoves DEF Plain
<1>5. IsAt(t, l) /\ QuietMove(t, l, s)
  BY ThreadNames DEF IsAt, ReaperLabels, QuietMove
<1>6. LockStep(t) /\ MayHold(t, l)
  BY <1>1, <1>2, <1>5, ThreadNames DEF LockStep, MayHold, HasM
<1>7. Locked'
  BY <1>1, <1>4, <1>6, LockedStep
<1>8. /\ Registering = None /\ Stopping = None /\ Registering' = None /\ Stopping' = None
      /\ Joining = s /\ Joining' = None
  <2>1. where'[t] = l
    BY <1>1, <1>4, WhereIs DEF Moves
  <2>2. Registering' = None /\ Stopping' = None
    BY <1>2, <2>1 DEF Registering, Stopping
  <2> QED
    BY <1>1, <1>2, <2>1, <2>2 DEF Registering, Stopping, Joining
<1>9. s \notin all
  BY <1>3, <1>8, Session DEF Life, IsListed
<1>10. refs' = [refs EXCEPT ![s] = @ - 1] /\ refs \in [Sockets -> Int]
  BY <1>1, <1>2 DEF Dec, Typed
<1>11. Typed'
  <2>1. refs' \in [Sockets -> Int]
    <3>1. refs[s] - 1 \in Int
      BY <1>3, <1>10
    <3> QED
      BY <1>10, <3>1
  <2> QED
    BY <1>1, <1>2, <2>1 DEF Typed
<1>12. RefsOK'
  <2>1. own' = own
    <3>1. at' = [at EXCEPT ![t] = s] /\ using' = [using EXCEPT ![t] = c]
      BY <1>1, <1>2
    <3>2. Typed /\ t \in Threads /\ own[t] = None
      BY <1>1
    <3>3. Owned(l, s, c) = None
      BY DEF Owned
    <3> QED
      BY <1>4, <3>1, <3>2, <3>3, OwnStays
  <2> QED
    BY <1>1, <1>2, <1>3, <1>8, <1>9, <1>10, <2>1, RefsJoined
<1>13. \A y \in Sockets : Conn(y)'
  <2>1. ASSUME NEW y \in Sockets, where[R(y)] = "open" PROVE where'[R(y)] = "open"
    <3>1. R(y) \in Threads /\ R(y) # t
      BY ThreadNames
    <3> QED
      BY <1>4, <2>1, <3>1, WhereIs DEF Moves
  <2>2. \A y \in Sockets : Conn(y)
    BY DEF MessengerInv
  <2> QED
    BY <1>1, <1>2, <2>1, <2>2, ConnFrame
<1>14. \A u \in Threads : Thr(u)'
  <2>1. Thr(t)'
    <3>1. where'[t] = l /\ at'[t] = s /\ using'[t] = c
      BY <1>1, <1>2, <1>4, WhereIs DEF Moves
    <3>2. c = None \/ Published(c)'
      BY <1>1, <1>2, PublishedKept DEF IsThr
    <3>3. l \notin Special
      BY DEF Special
    <3>4. IsThr(t, l, s, c)'
      BY <3>2, <3>3, ThrSimple
    <3> QED
      BY <3>1, <3>4 DEF Thr
  <2>2. ASSUME NEW u \in Threads, u # t PROVE Thr(u)'
    <3>1. at' = [at EXCEPT ![t] = s]
      BY <1>1, <1>2
    <3>2. using' = using /\ st' = st /\ con' = con /\ mlock \in {t, Nobody} /\ mlock' \in {t, Nobody}
      BY <1>2
    <3> QED
      BY <1>1, <1>4, <2>2, <3>1, <3>2, HolderThr
  <2> QED
    BY <2>1, <2>2
<1>15. ASSUME NEW y \in Sockets PROVE Life(y)'
  <2>1. AcceptorsKeep /\ st'[y] = st[y] /\ at' = [at EXCEPT ![t] = s]
    BY <1>1, <1>2 DEF AcceptorsKeep
  <2>2. SameWork(y) /\ Life(y)
    BY <1>1, <1>2, <1>4, <1>5, <2>1, MoverWork, Session
  <2>3. Queued' = Queued /\ all' = all
    BY <1>2 DEF Queued
  <2>4. y \notin all /\ y # Registering => unsent'[y] = 0 /\ sent'[y] = 0
    BY <1>2, QueuesKept
  <2>5. CASE y # s
    <3>1. SameLists(y)
      BY <1>2, <1>8, <2>3, <2>4, <2>5, NoneIsNone DEF SameLists
    <3> QED
      BY <2>2, <3>1, LifeFrame
  <2>6. CASE y = s
    <3> PICK r, w, z : r = where[R(s)] /\ w = where[W(s)] /\ z = st[s]
      OBVIOUS
    <3>1. IsListed(s, z, r, w)
      BY <2>2, <2>6 DEF Life
    <3>2. IsAlive(s, st[s], where[R(s)], where[W(s)])'
      BY <1>3, <2>2, <2>3, <2>6, AliveFrame
    <3>3. R(s) \in Threads /\ W(s) \in Threads /\ R(s) # t /\ W(s) # t
      BY <1>3, ThreadNames
    <3>4. where'[R(s)] = r /\ where'[W(s)] = w /\ st'[s] = z
      BY <1>2, <1>4, <3>3, WhereIs DEF Moves
    <3>5. s # None
      BY <1>3, NoneIsNone
    <3>6. UNCHANGED <<rank, accepting, unsent, sent, undone>>
      BY <1>2
    <3>7. IsListed(s, z, r, w)'
      BY <1>8, <2>3, <3>1, <3>5, <3>6 DEF IsListed
    <3> QED
      BY <2>6, <3>2, <3>4, <3>7 DEF Life
  <2> QED
    BY <2>5, <2>6
<1>16. NoTwice'
  BY <1>1, <1>2 DEF NoTwice
<1> QED
  BY <1>7, <1>11, <1>12, <1>13, <1>14, <1>15, <1>16 DEF MessengerInv

-----------------------------------------------------------------------------
(* Acceptors that are done                                                 *)

\* What is known of an acceptor that opens its session.
LEMMA Opener ==
    ASSUME MessengerInv, NEW x \in Sockets, NEW t, t = R(x), where[t] = "open"
    PROVE  /\ t \in Threads /\ W(x) \in Threads /\ t # W(x) /\ mlock = t /\ own[t] = None
           /\ Vacant /\ at[t] \in Sockets \cup {None}
           /\ at[t] # None => st[at[t]] \notin {"none", "accepting"}
           /\ st[x] = "accepting" /\ where[W(x)] = "none" /\ x \in all /\ x \notin undone
           /\ x \notin Queued /\ x # Joining /\ x # rank /\ at[W(x)] = x
           /\ t \in running /\ W(x) \notin running
           /\ Registering = None /\ Stopping = None
<1>1. t \in Threads /\ W(x) \in Threads /\ t # W(x) /\ Life(x) /\ at[W(x)] = x
  BY Session
<1>2. IsThr(t, "open", at[t], using[t]) /\ mlock = t /\ at[t] \in Sockets \cup {None} /\ own[t] = None
  BY <1>1, Actor DEF HasM, Owned
<1>3. Vacant /\ (at[t] # None => st[at[t]] \notin {"none", "accepting"})
  BY <1>2 DEF IsThr
<1>4. st[x] = "accepting" /\ where[W(x)] = "none" /\ x \in all
  BY Acceptor DEF Accepts
<1> PICK r, w, z : r = where[R(x)] /\ w = where[W(x)] /\ z = st[x]
  OBVIOUS
<1>5. IsAlive(x, z, r, w) /\ IsListed(x, z, r, w)
  BY <1>1 DEF Life
<1>6. x \notin undone /\ x \notin Queued /\ x # Joining /\ x # rank /\ R(x) \in running /\ W(x) \notin running
  BY <1>4, <1>5 DEF IsAlive, IsListed, Ended
<1>7. Registering = None /\ Stopping = None
  BY <1>1, <1>2, NoMarks DEF Marks
<1> QED
  BY <1>1, <1>2, <1>3, <1>4, <1>6, <1>7

\* The acceptor t leaves its session in state z, and has a writer started, or not.
Opens(t, x, z, started) ==
    /\ z \in Live \cup {"closed"} /\ st' = [st EXCEPT ![x] = z]
    /\ mlock' = Nobody /\ at' = [at EXCEPT ![t] = x]
    /\ slock' = [y \in Sockets |-> IF y = at[t] THEN Nobody ELSE slock[y]]
    /\ accepting' = accepting \ {x} /\ rank' \in {x, None}
    /\ z \in Live => rank' = x /\ started = TRUE /\ UNCHANGED <<refs, conSocket, failed>>
    /\ z = "closed" => ClearSocket(con[x], x)
    /\ IF started = TRUE
       THEN running' = running \cup {W(x)} /\ pc' = [pc EXCEPT ![t] = "loop", ![W(x)] = "start"]
       ELSE running' = running /\ Go(t, "loop")
    /\ UNCHANGED <<policy, using, all, con, dispatching, notify, unsent, sent, reapq, undone>>

OpensWhere(t, u, started) ==
    /\ IsPc(pc') /\ where'[t] = "loop" /\ where'[u] = IF started = TRUE THEN "start" ELSE "none"
    /\ \A v \in Threads : v # t /\ v # u => where'[v] = where[v]
LEMMA OpensMove ==
    ASSUME MessengerInv, NEW x \in Sockets, NEW t, t = R(x), where[t] = "open", NEW z, NEW started,
           Opens(t, x, z, started)
    PROVE  Locked' /\ OpensWhere(t, W(x), started)
<1> PICK u, a, b : u = W(x) /\ a = "loop" /\ b = "start"
  OBVIOUS
<1>1. /\ t \in Threads /\ u \in Threads /\ t # u /\ mlock = t /\ where[u] = "none" /\ Locked /\ IsPc(pc)
  BY Opener, Actor
<1>2. Plain(a) = a /\ Plain(b) = b
  BY DEF Plain
<1>3. IsAt(t, a) /\ IsAt(u, b)
  BY SessionAt DEF ReaderLabels, WriterLabels
<1>4. mlock' = Nobody /\ LockStep(t) /\ MayHold(t, a) /\ b \notin HasM /\ mlock # u
  BY <1>1, <1>3, ThreadNames DEF Opens, LockStep, MayHold, HasM
<1>5. CASE started = TRUE
  <2>1. pc' = [pc EXCEPT ![t] = a, ![u] = b]
    BY <1>5 DEF Opens
  <2>2. TwoMoves(t, a, u, b)
    BY <1>1, <1>2, <2>1, TwoMove
  <2>3. IsPc(pc') /\ where' = [where EXCEPT ![t] = a, ![u] = b]
        /\ \A v \in Threads : where'[v] = IF v = t THEN a ELSE IF v = u THEN b ELSE where[v]
    BY <2>2 DEF TwoMoves
  <2>4. Locked'
    BY <1>1, <1>3, <1>4, <2>3, LockedStepOfTwo
  <2> QED
    BY <1>1, <1>5, <2>3, <2>4 DEF OpensWhere
<1>6. CASE started # TRUE
  <2>1. Go(t, a)
    BY <1>6 DEF Opens
  <2>2. Moves(t, a)
    BY <1>1, <1>2, <2>1, GoMoves
  <2>3. Locked'
    BY <1>1, <1>4, <2>2, LockedStep
  <2>4. IsPc(pc') /\ \A v \in Threads : where'[v] = IF v = t THEN a ELSE where[v]
    BY <2>2, WhereIs DEF Moves
  <2> QED
    BY <1>1, <1>6, <2>3, <2>4 DEF OpensWhere
<1> QED
  BY <1>5, <1>6

LEMMA OpensTypes ==
    ASSUME MessengerInv, NEW x \in Sockets, NEW t, t = R(x), where[t] = "open", NEW z, NEW started,
           Opens(t, x, z, started)
    PROVE  /\ Typed' /\ AcceptorsKeep /\ st'[x] = z /\ \A y \in Sockets : y # x => st'[y] = st[y]
           /\ z = "closed" =>
                /\ Clears(x)
                /\ \A y \in Sockets : refs'[y] = refs[y] - (IF y = x /\ conSocket[con[x]] = x THEN 1 ELSE 0)
<1>1. Typed /\ t \in Threads /\ W(x) \in Threads
  BY Opener, Actor
<1>2. /\ st' \in [Sockets -> {"none", "accepting", "connecting", "open", "standby", "closed"}]
      /\ st'[x] = z /\ \A y \in Sockets : y # x => st'[y] = st[y]
  BY <1>1 DEF Opens, Typed, Live
<1>3. z = "closed" =>
         /\ Clears(x) /\ refs' \in [Sockets -> Int]
         /\ \A y \in Sockets : refs'[y] = refs[y] - (IF y = x /\ conSocket[con[x]] = x THEN 1 ELSE 0)
  BY <1>1, Cleared DEF Opens
<1>4. /\ refs' \in [Sockets -> Int] /\ conSocket' \in [Sockets -> Sockets \cup {None}]
      /\ failed' \in [Sockets -> BOOLEAN]
  <2>1. CASE z = "closed"
    BY <1>1, <1>3, <2>1 DEF Typed, Clears
  <2>2. CASE z \in Live
    BY <1>1, <2>2 DEF Opens, Typed
  <2> QED
    BY <2>1, <2>2 DEF Opens
<1>5. /\ slock' \in [Sockets -> Threads \cup {Nobody}] /\ at' \in [Threads -> Sockets \cup {None}]
      /\ rank' \in Sockets \cup {None} /\ running' \subseteq Threads /\ accepting' \subseteq Sockets
  BY <1>1 DEF Opens, Typed
<1>6. AcceptorsKeep
  <2>1. ASSUME NEW y \in Sockets, where[R(y)] \in Accepts PROVE slock'[y] = slock[y]
    <3>1. st[y] = "accepting" /\ y # None
      BY <2>1, Acceptor, NoneIsNone
    <3>2. y # at[t]
      BY <3>1, Opener
    <3> QED
      BY <3>2 DEF Opens
  <2> QED
    BY <2>1 DEF AcceptorsKeep
<1> QED
  BY <1>1, <1>2, <1>3, <1>4, <1>5, <1>6 DEF Typed, Opens

LEMMA OpensRefs ==
    ASSUME MessengerInv, NEW x \in Sockets, NEW t, t = R(x), where[t] = "open", NEW z, NEW started,
           Opens(t, x, z, started)
    PROVE  RefsOK' /\ Registering' = None /\ Stopping' = None /\ Joining' = Joining
<1> PICK u : u = W(x)
  OBVIOUS
<1>1. /\ t \in Threads /\ u \in Threads /\ t # u /\ where[u] = "none" /\ Typed /\ RefsOK
      /\ Registering = None
  BY Opener DEF MessengerInv
<1>2. OpensWhere(t, u, started)
  BY OpensMove
<1>3. at' = [at EXCEPT ![t] = x] /\ using' = using /\ all' = all /\ mlock' = Nobody
  BY DEF Opens
<1>4. Registering' = None /\ Stopping' = None
  BY <1>3 DEF Registering, Stopping
<1>5. Joining' = Joining
  <2>1. Reaper \in Threads /\ Reaper # t /\ Reaper # u
    BY ThreadNames
  <2>2. where'[Reaper] = where[Reaper] /\ at'[Reaper] = at[Reaper]
    BY <1>1, <1>2, <1>3, <2>1 DEF OpensWhere, Typed
  <2> QED
    BY <2>2 DEF Joining
<1>6. own' = own
  <2>1. ASSUME NEW v \in Threads
        PROVE  Owned(where'[v], at'[v], using'[v]) = Owned(where[v], at[v], using[v])
    <3>1. CASE v \in {t, u}
      <4>1. where[v] \notin {"lock to send", "await", "lock to stop"}
            /\ where'[v] \notin {"lock to send", "await", "lock to stop"}
        BY <1>1, <1>2, <3>1 DEF OpensWhere
      <4> QED
        BY <4>1 DEF Owned
    <3>2. CASE v \notin {t, u}
      <4>1. where'[v] = where[v] /\ at'[v] = at[v] /\ using'[v] = using[v]
        BY <1>1, <1>2, <1>3, <3>2 DEF OpensWhere, Typed
      <4> QED
        BY <4>1
    <3> QED
      BY <3>1, <3>2
  <2> QED
    BY <2>1, OwnKept
<1>7. MarksSame
  BY <1>4, <1>5, Opener DEF MarksSame
<1>8. \A y \in Sockets : Created(y)' = Created(y)
  BY <1>3, <1>7 DEF Created, MarksSame
<1>9. CASE z = "closed"
  <2>1. /\ Clears(x)
        /\ \A y \in Sockets : refs'[y] = refs[y] - (IF y = x /\ conSocket[con[x]] = x THEN 1 ELSE 0)
    BY <1>9, OpensTypes
  <2>2. RefsOK'
    BY <1>1, <1>6, <1>8, <2>1, RefsCleared
  <2> QED
    BY <1>4, <1>5, <2>2
<1>10. CASE z \in Live
  <2>1. refs' = refs /\ conSocket' = conSocket
    BY <1>10 DEF Opens
  <2>2. RefsOK'
    BY <1>1, <1>3, <1>6, <1>7, <2>1, RefsSame
  <2> QED
    BY <1>4, <1>5, <2>2
<1> QED
  BY <1>9, <1>10 DEF Opens

LEMMA OpensConn ==
    ASSUME MessengerInv, NEW x \in Sockets, NEW t, t = R(x), where[t] = "open", NEW z, NEW started,
           Opens(t, x, z, started)
    PROVE  \A c \in Sockets : Conn(c)'
<1>1. /\ \A c \in Sockets : Conn(c)
      /\ Typed /\ st[x] = "accepting" /\ x \notin undone
  BY Opener DEF MessengerInv
<1>2. con' = con /\ undone' = undone /\ st'[x] = z /\ \A y \in Sockets : y # x => st'[y] = st[y]
  <2>1. st'[x] = z /\ \A y \in Sockets : y # x => st'[y] = st[y]
    BY OpensTypes
  <2>2. con' = con /\ undone' = undone
    BY DEF Opens
  <2> QED
    BY <2>1, <2>2
<1>3. ASSUME NEW y \in Sockets, y # x, where[R(y)] = "open" PROVE where'[R(y)] = "open"
  <2>1. R(y) \in Threads /\ R(y) # t /\ R(y) # W(x)
    BY <1>3, ThreadNames
  <2> QED
    BY <1>3, <2>1, OpensMove DEF OpensWhere
<1>4. CASE z = "closed"
  <2>1. Clears(x) /\ st' = [st EXCEPT ![x] = "closed"] /\ st[x] # "none"
    <3>1. Clears(x)
      BY <1>4, OpensTypes
    <3>2. st' = [st EXCEPT ![x] = "closed"]
      BY <1>4 DEF Opens
    <3> QED
      BY <1>1, <3>1, <3>2
  <2> QED
    BY <1>1, <1>2, <1>3, <2>1, ConnClosed
<1>5. CASE z \in Live
  <2>1. conSocket' = conSocket /\ failed' = failed
    BY <1>5 DEF Opens
  <2>2. IsUp(x)'
    BY <1>1, <1>2, <1>5 DEF IsUp
  <2>3. ASSUME NEW y \in Sockets, IsUp(y) PROVE IsUp(y)'
    BY <1>2, <1>3, <2>2, <2>3 DEF IsUp
  <2>4. ASSUME NEW c \in Sockets, Published(c) PROVE Published(c)'
    BY <1>1, <1>2, <2>4 DEF Published
  <2>5. ASSUME NEW c \in Sockets, Published(c)' PROVE Published(c) \/ (c = x /\ con[x] = x)
    BY <1>2, <2>5 DEF Published
  <2>6. z \notin {"none", "accepting"}
    BY <1>5 DEF Live
  <2> SUFFICES ASSUME NEW c \in Sockets PROVE Conn(c)'
    OBVIOUS
  <2>7. Conn(c) /\ Conn(x) /\ con[c] \in Sockets /\ conSocket[c] \in Sockets \cup {None}
    BY <1>1 DEF Typed
  <2>8. con[c] = c \/ Published(con[c])'
    <3>1. con[c] = c \/ Published(con[c])
      BY <2>7 DEF Conn
    <3>2. PICK e \in Sockets : e = con[c]
      BY <2>7
    <3>3. e = c \/ Published(e)'
      BY <2>4, <3>1, <3>2
    <3> QED
      BY <1>2, <3>2, <3>3 DEF Published
  <2>9. ASSUME Published(c)', conSocket[c] # None PROVE con[conSocket[c]] = c /\ IsUp(conSocket[c])'
    <3>1. CASE Published(c)
      <4>1. con[conSocket[c]] = c /\ IsUp(conSocket[c])
        BY <2>7, <2>9, <3>1 DEF Conn
      <4> PICK y \in Sockets : y = conSocket[c]
        BY <2>7, <2>9
      <4>2. IsUp(y)'
        BY <2>3, <4>1
      <4>3. IsUp(conSocket[c])' <=> IsUp(y)'
        BY <2>1 DEF IsUp
      <4> QED
        BY <4>1, <4>2, <4>3
    <3>2. CASE c = x /\ con[x] = x
      <4>1. conSocket[x] = x
        BY <1>1, <2>7, <3>2 DEF Conn
      <4> QED
        BY <2>1, <2>2, <3>2, <4>1 DEF IsUp
    <3> QED
      BY <2>5, <2>9, <3>1, <3>2
  <2>10. ASSUME Published(c)', ~failed[c] PROVE conSocket[c] # None
    <3>1. CASE Published(c)
      BY <2>7, <2>10, <3>1 DEF Conn
    <3>2. CASE c = x /\ con[x] = x
      BY <1>1, <2>7, <3>2, NoneIsNone DEF Conn
    <3> QED
      BY <2>5, <2>10, <3>1, <3>2
  <2>11. /\ st'[c] = "accepting" /\ con[c] = c => conSocket[c] = c
         /\ st'[c] = "none" => con[c] = c /\ conSocket[c] = None
         /\ conSocket[c] # None => st'[conSocket[c]] # "none"
    BY <1>1, <1>2, <2>6, <2>7 DEF Conn
  <2>12. Published(c)' /\ conSocket[c] # None => con[conSocket[c]] = c /\ IsUp(conSocket[c])'
    BY <2>9
  <2>13. Published(c)' /\ ~failed[c] => conSocket[c] # None
    BY <2>10
  <2> QED
    BY <1>2, <2>1, <2>8, <2>11, <2>12, <2>13 DEF Conn
<1> QED
  BY <1>4, <1>5 DEF Opens

LEMMA OpensThr ==
    ASSUME MessengerInv, NEW x \in Sockets, NEW t, t = R(x), where[t] = "open", NEW z, NEW started,
           Opens(t, x, z, started)
    PROVE  \A v \in Threads : Thr(v)'
<1> PICK u : u = W(x)
  OBVIOUS
<1>1. /\ t \in Threads /\ u \in Threads /\ t # u /\ mlock = t /\ Typed /\ Locked
  BY Opener DEF MessengerInv
<1>2. OpensWhere(t, u, started)
  BY OpensMove
<1>3. st'[x] = z /\ \A y \in Sockets : y # x => st'[y] = st[y]
  BY OpensTypes
<1>4. z \in Live \cup {"closed"} /\ con' = con /\ using' = using /\ at' = [at EXCEPT ![t] = x] /\ mlock' = Nobody
  BY DEF Opens
<1>5. \A y \in Sockets : st'[y] = st[y] \/ st'[y] \notin {"none", "accepting"}
  BY <1>3, <1>4 DEF Live
<1>6. \A d \in Sockets : Published(d) => Published(d)'
  BY <1>4, <1>5 DEF Published
<1>7. ASSUME NEW v \in {t, u} PROVE Thr(v)'
  <2> PICK l, s, c : l = where'[v] /\ s = at'[v] /\ c = using'[v]
    OBVIOUS
  <2>1. l \in {"loop", "start", "none"}
    BY <1>2 DEF OpensWhere
  <2>2. l \notin Special
    BY <2>1 DEF Special
  <2>3. c = None \/ (c \in Sockets /\ Published(c))
    BY <1>1, <1>4, Actor DEF IsThr
  <2>4. c = None \/ Published(c)'
    BY <1>6, <2>3
  <2>5. IsThr(v, l, s, c)'
    BY <2>2, <2>4, ThrSimple
  <2> QED
    BY <2>5 DEF Thr
<1>8. ASSUME NEW v \in Threads, v \notin {t, u} PROVE Thr(v)'
  <2>1. where'[v] = where[v]
    BY <1>2, <1>8 DEF OpensWhere
  <2>2. using'[v] = using[v] /\ at'[v] = at[v] /\ mlock # v /\ mlock' # v
    BY <1>1, <1>4, <1>8, ThreadNames DEF Typed
  <2>3. Thr(v)
    BY DEF MessengerInv
  <2>4. \A y \in Sockets : /\ st[y] # "none" => st'[y] # "none"
                           /\ st[y] \notin {"none", "accepting"} => st'[y] # "accepting"
    BY <1>5
  <2> QED
    BY <1>1, <1>6, <2>1, <2>2, <2>3, <2>4, ThrFrame
<1> QED
  BY <1>7, <1>8

LEMMA OpensLife ==
    ASSUME MessengerInv, NEW x \in Sockets, NEW t, t = R(x), where[t] = "open", NEW z, NEW started,
           Opens(t, x, z, started)
    PROVE  \A y \in Sockets : Life(y)'
<1> PICK u : u = W(x)
  OBVIOUS
<1>1. /\ t \in Threads /\ u \in Threads /\ t # u /\ where[u] = "none" /\ Typed /\ Vacant
      /\ x \in all /\ x \notin Queued /\ x # Joining /\ at[u] = x /\ t \in running /\ u \notin running
      /\ Registering = None /\ Stopping = None
  BY Opener DEF MessengerInv
<1>2. OpensWhere(t, u, started)
  BY OpensMove
<1>3. st'[x] = z /\ (\A y \in Sockets : y # x => st'[y] = st[y]) /\ AcceptorsKeep
  BY OpensTypes
<1>4. Registering' = None /\ Stopping' = None /\ Joining' = Joining
  BY OpensRefs
<1>5. /\ z \in Live \cup {"closed"} /\ at' = [at EXCEPT ![t] = x] /\ accepting' = accepting \ {x}
      /\ rank' \in {x, None} /\ (z \in Live => rank' = x /\ started = TRUE)
      /\ running' = (IF started = TRUE THEN running \cup {u} ELSE running)
      /\ UNCHANGED <<all, unsent, sent, undone>> /\ Queued' = Queued
  BY DEF Opens, Queued
<1>6. Life(x)'
  <2> PICK k, m : k = where'[t] /\ m = where'[u]
    OBVIOUS
  <2>1. k = "loop" /\ m = IF started = TRUE THEN "start" ELSE "none"
    BY <1>2 DEF OpensWhere
  <2>2. at'[R(x)] = x /\ at'[W(x)] = x
    BY <1>1, <1>5 DEF Typed
  <2>3. R(x) \in running' /\ (W(x) \in running' <=> started = TRUE)
    BY <1>1, <1>5
  <2>4. z \notin {"none", "accepting"} /\ (z \in Live <=> z # "closed")
    BY <1>5 DEF Live
  <2>5. IsAlive(x, z, k, m)'
    BY <1>5, <2>1, <2>2, <2>3, <2>4 DEF IsAlive, Ended, Accepts, Unlists
  <2>6. /\ x \in all' /\ x \notin Queued' /\ x # Joining' /\ x # Registering' /\ x \notin accepting'
        /\ (z \in Live => x = rank')
    BY <1>1, <1>4, <1>5, NoneIsNone
  <2>7. IsListed(x, z, k, m)'
    BY <2>1, <2>4, <2>6 DEF IsListed
  <2> QED
    BY <1>3, <2>5, <2>7 DEF Life
<1>7. ASSUME NEW y \in Sockets, y # x PROVE Life(y)'
  <2>1. Life(y) /\ R(y) \in Threads /\ W(y) \in Threads /\ R(y) \notin {t, u} /\ W(y) \notin {t, u}
    BY <1>7, Session, ThreadNames
  <2>2. where'[R(y)] = where[R(y)] /\ where'[W(y)] = where[W(y)]
    BY <1>2, <2>1 DEF OpensWhere
  <2>3. at'[R(y)] = at[R(y)] /\ at'[W(y)] = at[W(y)]
    BY <1>1, <1>5, <2>1 DEF Typed
  <2>4. SameWork(y)
    BY <1>3, <1>5, <1>7, <2>1, <2>2, <2>3 DEF SameWork, AcceptorsKeep
  <2>5. y \notin all /\ y # Registering => unsent'[y] = 0 /\ sent'[y] = 0
    BY <1>5, QueuesKept
  <2>6. st[y] \in Live /\ y = rank => y \in undone
    BY <1>1, NoneIsNone DEF Vacant, Live
  <2>7. y # None
    BY NoneIsNone
  <2>8. SameLists(y)
    BY <1>1, <1>4, <1>5, <1>7, <2>5, <2>6, <2>7 DEF SameLists
  <2> QED
    BY <2>1, <2>4, <2>8, LifeFrame
<1> QED
  BY <1>6, <1>7

LEMMA OpensKeeps ==
    ASSUME MessengerInv, NEW x \in Sockets, NEW t, t = R(x), where[t] = "open", NEW z, NEW started,
           Opens(t, x, z, started)
    PROVE  MessengerInv'
<1>1. Locked' /\ Typed' /\ RefsOK'
  BY OpensMove, OpensTypes, OpensRefs
<1>2. NoTwice'
  BY DEF MessengerInv, NoTwice, Opens
<1> QED
  BY <1>1, <1>2, OpensConn, OpensThr, OpensLife DEF MessengerInv

LEMMA OpenedKeeps ==
    ASSUME MessengerInv, NEW x \in Sockets, Opened(x)
    PROVE  MessengerInv'
<1> USE DEF locks, lists, owners, flags, queues, stops, ghosts
<1>1. CASE dqStop
  BY <1>1, OpenedEnds
<1>2. CASE ~dqStop
  <2> PICK t, z, started : t = R(x) /\ z = "open" /\ started = TRUE
    OBVIOUS
  <2>1. t \in Threads /\ where[t] = "open"
    BY Actor, Session DEF Opened, At, Plain
  <2>2. mlock = t
    BY <2>1, Opener
  <2>3. Opens(t, x, z, started)
    BY <1>2, <2>2 DEF Opened, GiveBoth, GiveM, Opens, Live
  <2> QED
    BY <2>1, <2>3, OpensKeeps
<1> QED
  BY <1>1, <1>2

LEMMA NotOpenedKeeps ==
    ASSUME MessengerInv, NEW x \in Sockets, NotOpened(x)
    PROVE  MessengerInv'
<1> USE DEF locks, lists, owners, flags, queues, stops, ghosts
<1> PICK t : t = R(x)
  OBVIOUS
<1>1. t \in Threads /\ where[t] = "open"
  BY Actor, Session DEF NotOpened, At, Plain
<1>2. mlock = t
  BY <1>1, Opener
<1> PICK replaced, queued : replaced = (at[t] # None) /\ queued = (unsent[x] > 0)
  OBVIOUS
<1> PICK started : started = (queued \/ replaced)
  OBVIOUS
<1>3. /\ mlock' = Nobody /\ at' = [at EXCEPT ![t] = x] /\ accepting' = accepting \ {x}
      /\ slock' = [y \in Sockets |-> IF y = at[t] THEN Nobody ELSE slock[y]]
      /\ IF started = TRUE
         THEN running' = running \cup {W(x)} /\ pc' = [pc EXCEPT ![t] = "loop", ![W(x)] = "start"]
         ELSE running' = running /\ Go(t, "loop")
      /\ UNCHANGED <<policy, using, all, con, dispatching, notify, unsent, sent, reapq, undone>>
  BY <1>2 DEF NotOpened, GiveBoth, GiveM
<1>4. CASE policy.lossy \/ ~(queued \/ replaced)
  <2> PICK z : z = "closed"
    OBVIOUS
  <2>1. /\ st' = [st EXCEPT ![x] = z] /\ ClearSocket(con[x], x) /\ rank' \in {x, None}
    BY <1>4 DEF NotOpened
  <2>2. Opens(t, x, z, started)
    BY <1>3, <2>1 DEF Opens, Live
  <2> QED
    BY <1>1, <2>2, OpensKeeps
<1>5. CASE ~(policy.lossy \/ ~(queued \/ replaced))
  <2> PICK z : z = IF policy.server \/ (policy.standby /\ ~queued) THEN "standby" ELSE "connecting"
    OBVIOUS
  <2>1. /\ st' = [st EXCEPT ![x] = z] /\ rank' = x /\ UNCHANGED <<refs, conSocket, failed>>
    BY <1>5 DEF NotOpened
  <2>2. z \in Live /\ z # "closed" /\ started = TRUE
    BY <1>5 DEF Live
  <2>3. Opens(t, x, z, started)
    BY <1>3, <2>1, <2>2 DEF Opens
  <2> QED
    BY <1>1, <2>3, OpensKeeps
<1> QED
  BY <1>4, <1>5

\* A lossless session goes on in another socket, with the connection of the old one.
Moved(t, x, old, d, m) ==
    /\ st' = [st EXCEPT ![old] = "closed"] /\ con' = [con EXCEPT ![x] = d]
    /\ conSocket' = [conSocket EXCEPT ![d] = x]
    /\ \A y \in Sockets :
          refs'[y] = refs[y] + (IF y = x THEN 1 ELSE 0) - (IF y = conSocket[d] THEN 1 ELSE 0)
    /\ refs' \in [Sockets -> Int]
    /\ unsent' = [unsent EXCEPT ![x] = m, ![old] = 0] /\ sent' = [sent EXCEPT ![old] = 0]
    /\ m \in Nat
    /\ UNCHANGED <<policy, mlock, slock, at, using, all, failed, running, dispatching, notify, reapq,
                   undone>>
LEMMA ReplaceMoves ==
    ASSUME MessengerInv, NEW x \in Sockets, Replace(x), ~policy.lossy, NEW t, t = R(x),
           NEW old \in Sockets, old = at[t], NEW d, d = con[old]
    PROVE  \E m : Moved(t, x, old, d, m)
<1> USE DEF locks, lists, owners, flags, queues, stops, ghosts
<1>1. Typed
  BY DEF MessengerInv
<1>2. /\ st' = [st EXCEPT ![old] = "closed"] /\ con' = [con EXCEPT ![x] = d]
      /\ conSocket' = [conSocket EXCEPT ![d] = x] /\ refs' = Reset(refs, d, x, 1)
      /\ sent' = [sent EXCEPT ![old] = 0]
      /\ UNCHANGED <<policy, mlock, slock, at, using, all, failed, running, dispatching, notify, reapq,
                     undone>>
  BY DEF Replace
<1>3. PICK m \in {unsent[old] + sent[old], 0} : unsent' = [unsent EXCEPT ![x] = m, ![old] = 0]
  BY DEF Replace
<1>4. m \in Nat
  <2>1. unsent[old] \in Nat /\ sent[old] \in Nat
    BY <1>1 DEF Typed
  <2> QED
    BY <1>3, <2>1
<1>5. \A y \in Sockets :
          refs'[y] = refs[y] + (IF y = x THEN 1 ELSE 0) - (IF y = conSocket[d] THEN 1 ELSE 0)
  BY <1>2 DEF Reset
<1>6. refs' \in [Sockets -> Int]
  <2>1. \A y \in Sockets : refs[y] \in Int
    BY <1>1 DEF Typed
  <2>2. ASSUME NEW y \in Sockets
        PROVE  refs[y] + (IF y = x THEN 1 ELSE 0) - (IF y = conSocket[d] THEN 1 ELSE 0) \in Int
    BY <2>1
  <2> QED
    BY <1>2, <2>2 DEF Reset
<1> QED
  BY <1>2, <1>3, <1>4, <1>5, <1>6 DEF Moved

LEMMA MovedRefs ==
    ASSUME RefsOK, Typed, own' = own, NEW x \in Sockets, NEW d \in Sockets,
           conSocket' = [conSocket EXCEPT ![d] = x],
           \A y \in Sockets :
              refs'[y] = refs[y] + (IF y = x THEN 1 ELSE 0) - (IF y = conSocket[d] THEN 1 ELSE 0),
           \A y \in Sockets : Created(y)' = Created(y)
    PROVE  RefsOK'
<1>1. ASSUME NEW y \in Sockets
      PROVE  refs'[y] = refs[y] + Created(y)' - Created(y) + Is(x, y) - Is(conSocket[d], y)
  <2>1. Created(y)' = Created(y) /\ Created(y) \in {0, 1} /\ refs[y] \in Int
    BY DEF Created, Typed
  <2>2. Is(x, y) = (IF y = x THEN 1 ELSE 0) /\ Is(conSocket[d], y) = (IF y = conSocket[d] THEN 1 ELSE 0)
    BY DEF Is
  <2>3. Is(x, y) \in {0, 1} /\ Is(conSocket[d], y) \in {0, 1}
    BY DEF Is
  <2>4. refs'[y] = refs[y] + Is(x, y) - Is(conSocket[d], y)
    BY <2>2
  <2> QED
    BY <2>1, <2>3, <2>4
<1>2. RefsMoveCon(d, x)
  BY <1>1 DEF RefsMoveCon
<1> QED
  BY <1>2, RefsOfCon

\* Connections when x, which is about to open, takes the place of `old'.
LEMMA MovedConn ==
    ASSUME \A c \in Sockets : Conn(c), Typed, NEW x \in Sockets, NEW old \in Sockets, NEW d \in Sockets,
           d = con[old], Published(d), st[x] = "accepting", where[R(x)] # "open", where'[R(x)] = "open",
           st[old] \notin {"none", "accepting"}, old # x,
           st' = [st EXCEPT ![old] = "closed"], con' = [con EXCEPT ![x] = d],
           conSocket' = [conSocket EXCEPT ![d] = x], failed' = failed, undone' = undone,
           \A y \in Sockets : y # x => where'[R(y)] = where[R(y)]
    PROVE  \A c \in Sockets : Conn(c)'
<1>1. /\ st'[old] = "closed" /\ \A y \in Sockets : y # old => st'[y] = st[y]
      /\ con'[x] = d /\ \A y \in Sockets : y # x => con'[y] = con[y]
      /\ conSocket'[d] = x /\ \A y \in Sockets : y # d => conSocket'[y] = conSocket[y]
  BY DEF Typed
<1>2. d # x /\ st[d] \notin {"none", "accepting"} /\ con[d] = d
  BY DEF Published
<1>3. ASSUME NEW c \in Sockets PROVE Published(c)' <=> Published(c)
  BY <1>1, <1>2 DEF Published
<1>4. st'[x] = "accepting"
  BY <1>1
<1>5. IsUp(x)'
  BY <1>4 DEF IsUp
<1>6. ~IsUp(x)
  BY DEF IsUp, Live
<1>7. ASSUME NEW y \in Sockets, y # x, y # old, IsUp(y) PROVE IsUp(y)'
  BY <1>1, <1>7 DEF IsUp
<1> SUFFICES ASSUME NEW c \in Sockets PROVE Conn(c)'
  OBVIOUS
<1>8. Conn(c) /\ con[c] \in Sockets /\ conSocket[c] \in Sockets \cup {None}
  BY DEF Typed
<1>9. con'[c] = c \/ Published(con[c])'
  <2> PICK e : e = con'[c]
    OBVIOUS
  <2>1. CASE c = x
    <3>1. e = d
      BY <1>1, <2>1
    <3>2. con'[e] = e /\ st'[e] \notin {"none", "accepting"}
      BY <1>1, <1>2, <3>1
    <3> QED
      BY <3>2 DEF Published
  <2>2. CASE c # x
    <3>1. e = con[c] /\ e \in Sockets
      BY <1>1, <1>8, <2>2
    <3>2. e = c \/ Published(e)
      BY <1>8, <3>1 DEF Conn
    <3>3. e = c \/ (con'[e] = e /\ st'[e] \notin {"none", "accepting"})
      BY <1>3, <3>1, <3>2 DEF Published
    <3> QED
      BY <3>3 DEF Published
  <2> QED
    BY <2>1, <2>2
<1>10. ASSUME Published(c)', conSocket'[c] # None
       PROVE  con'[conSocket'[c]] = c /\ IsUp(conSocket[c])'
  <2> PICK y : y = conSocket'[c]
    OBVIOUS
  <2>1. con'[y] = c /\ IsUp(y)'
    <3>1. CASE c = d
      BY <1>1, <1>5, <3>1
    <3>2. CASE c # d
      <4>1. y = conSocket[c] /\ y \in Sockets
        BY <1>1, <1>8, <1>10, <3>2
      <4>2. con[y] = c /\ IsUp(y)
        BY <1>3, <1>8, <1>10, <4>1 DEF Conn
      <4>3. y # x /\ y # old
        BY <1>6, <3>2, <4>2
      <4> QED
        BY <1>1, <1>7, <4>1, <4>2, <4>3
    <3> QED
      BY <3>1, <3>2
  <2>2. IsUp(conSocket[c])' <=> IsUp(y)'
    BY DEF IsUp
  <2> QED
    BY <2>1, <2>2
<1>11. Published(c)' /\ ~failed'[c] => conSocket'[c] # None
  <2>1. CASE c = d
    BY <1>1, <2>1, NoneIsNone
  <2>2. CASE c # d
    BY <1>1, <1>3, <1>8, <2>2 DEF Conn
  <2> QED
    BY <2>1, <2>2
<1>12. st'[c] = "accepting" /\ con'[c] = c => conSocket'[c] = c
  <2>1. ASSUME st'[c] = "accepting", con'[c] = c PROVE conSocket'[c] = c
    <3>1. c # x /\ c # old
      BY <1>1, <1>2, <2>1
    <3>2. st[c] = "accepting" /\ con[c] = c /\ c # d
      BY <1>1, <1>2, <2>1, <3>1
    <3> QED
      BY <1>1, <1>8, <3>2 DEF Conn
  <2> QED
    BY <2>1
<1>13. st'[c] = "none" => con'[c] = c /\ conSocket'[c] = None
  <2>1. ASSUME st'[c] = "none" PROVE con'[c] = c /\ conSocket'[c] = None
    <3>1. c # old /\ st[c] = "none"
      BY <1>1, <2>1
    <3>2. c # x /\ c # d
      BY <1>2, <3>1
    <3> QED
      BY <1>1, <1>8, <3>1, <3>2 DEF Conn
  <2> QED
    BY <2>1
<1>14. conSocket'[c] # None => st'[conSocket'[c]] # "none"
  <2> PICK y : y = conSocket'[c]
    OBVIOUS
  <2>1. CASE c = d
    BY <1>1, <1>4, <2>1
  <2>2. CASE c # d
    <3>1. y = conSocket[c]
      BY <1>1, <2>2
    <3>2. y # None => y \in Sockets /\ st[y] # "none"
      BY <1>8, <3>1 DEF Conn
    <3>3. y # None => st'[y] # "none"
      BY <1>1, <3>2
    <3> QED
      BY <3>3
  <2> QED
    BY <2>1, <2>2
<1>15. Published(c)' /\ conSocket'[c] # None => con'[conSocket'[c]] = c /\ IsUp(conSocket[c])'
  BY <1>10
<1> HIDE DEF Published
<1> QED
  BY <1>9, <1>11, <1>12, <1>13, <1>14, <1>15 DEF Conn

LEMMA ReplaceKeeps ==
    ASSUME MessengerInv, NEW x \in Sockets, Replace(x)
    PROVE  MessengerInv'
<1>0. SUFFICES ASSUME ~policy.lossy PROVE MessengerInv'
  BY ReplaceEnds
<1> PICK t, old, c, d : t = R(x) /\ old = at[t] /\ c = using[t] /\ d = con[old]
  OBVIOUS
<1>1. /\ t \in Threads /\ Typed /\ Locked /\ mlock = t /\ where[t] = "replace" /\ Moves(t, "open")
      /\ old \in Sockets /\ old \in all /\ old = rank /\ old # x
      /\ st[old] \notin {"none", "accepting"} /\ where[R(old)] \notin Accepts
      /\ st[x] = "accepting" /\ slock[x] = t /\ x \in all /\ where[W(x)] = "none"
      /\ at = [at EXCEPT ![t] = old] /\ own[t] = None
      /\ rank' = None /\ accepting' = accepting
  BY Replacer
<1>2. d \in Sockets /\ Published(d)
  BY <1>1, PublishedCon
<1>3. PICK m : Moved(t, x, old, d, m)
  BY <1>0, <1>1, ReplaceMoves
<1>4. MayHold(t, "open") /\ LockStep(t)
  <2>1. IsAt(t, "open")
    BY SessionAt DEF ReaderLabels, Accepts
  <2>2. mlock' = mlock
    BY <1>3 DEF Moved
  <2> QED
    BY <1>1, <2>1, <2>2 DEF MayHold, HasM, LockStep
<1>5. at' = [at EXCEPT ![t] = old] /\ using' = [using EXCEPT ![t] = c]
  BY <1>1, <1>3 DEF Moved, Typed
<1>6. MarksSame
  BY <1>1, <1>4, <1>5, MoverMarks DEF Marks
<1>7. Registering = None /\ Stopping = None
  BY <1>1, NoMarks DEF Marks
<1>8. Locked'
  BY <1>1, <1>4, LockedStep
<1>9. /\ st'[old] = "closed" /\ \A y \in Sockets : y # old => st'[y] = st[y]
      /\ \A y \in Sockets : y # old /\ y # x => unsent'[y] = unsent[y] /\ sent'[y] = sent[y]
  BY <1>1, <1>3 DEF Moved, Typed
<1>10. Typed'
  <2>1. st' \in [Sockets -> {"none", "accepting", "connecting", "open", "standby", "closed"}]
    BY <1>1, <1>3 DEF Moved, Typed
  <2>2. con' \in [Sockets -> Sockets] /\ conSocket' \in [Sockets -> Sockets \cup {None}]
    BY <1>1, <1>2, <1>3 DEF Moved, Typed
  <2>3. unsent' \in [Sockets -> Nat] /\ sent' \in [Sockets -> Nat]
    BY <1>1, <1>3 DEF Moved, Typed
  <2>4. refs' \in [Sockets -> Int]
    BY <1>3 DEF Moved
  <2>5. UNCHANGED <<policy, slock, at, using, all, failed, running, dispatching, notify, reapq, accepting>>
    BY <1>1, <1>3 DEF Moved
  <2> QED
    BY <1>1, <2>1, <2>2, <2>3, <2>4, <2>5 DEF Typed
<1>11. RefsOK'
  <2>1. own' = own
    <3>1. own' = [own EXCEPT ![t] = Owned("open", old, c)]
      BY <1>1, <1>5, OwnStep
    <3>2. Owned("open", old, c) = None
      BY DEF Owned
    <3> QED
      BY <1>1, <3>1, <3>2 DEF own
  <2>2. \A y \in Sockets : Created(y)' = Created(y)
    BY <1>3, <1>6 DEF Moved, MarksSame, Created
  <2>3. /\ conSocket' = [conSocket EXCEPT ![d] = x]
        /\ \A y \in Sockets :
              refs'[y] = refs[y] + (IF y = x THEN 1 ELSE 0) - (IF y = conSocket[d] THEN 1 ELSE 0)
    BY <1>3 DEF Moved
  <2> QED
    BY <1>1, <1>2, <2>1, <2>2, <2>3, MovedRefs DEF MessengerInv
<1>12. \A y \in Sockets : Conn(y)'
  <2>1. \A y \in Sockets : Conn(y)
    BY DEF MessengerInv
  <2>2. where[R(x)] # "open" /\ where'[R(x)] = "open"
    BY <1>1, WhereIs DEF Moves
  <2>3. \A y \in Sockets : y # x => where'[R(y)] = where[R(y)]
    BY <1>1, WhereIs, ThreadNames DEF Moves
  <2>4. /\ st' = [st EXCEPT ![old] = "closed"] /\ con' = [con EXCEPT ![x] = d]
        /\ conSocket' = [conSocket EXCEPT ![d] = x] /\ failed' = failed /\ undone' = undone
    BY <1>3 DEF Moved
  <2> QED
    BY <1>1, <1>2, <2>1, <2>2, <2>3, <2>4, MovedConn
<1>13. \A e \in Sockets : Published(e) => Published(e)'
  <2>1. \A y \in Sockets : y # x => con'[y] = con[y]
    BY <1>1, <1>3 DEF Moved, Typed
  <2> QED
    BY <1>1, <1>9, <2>1 DEF Published
<1>14. \A u \in Threads : Thr(u)'
  <2>1. Thr(t)'
    <3>1. where'[t] = "open" /\ at'[t] = old /\ using'[t] = c
      BY <1>1, <1>3, WhereIs DEF Moves, Moved
    <3>2. c = None \/ (c \in Sockets /\ Published(c))
      BY <1>1, Actor DEF IsThr
    <3>3. c = None \/ Published(c)'
      BY <1>13, <3>2
    <3>4. Vacant'
      BY <1>1 DEF Vacant
    <3>5. old \in all' /\ st'[old] = "closed"
      BY <1>1, <1>3, <1>9 DEF Moved
    <3>6. IsThr(t, "open", old, c)'
      BY <3>3, <3>4, <3>5 DEF IsThr
    <3> QED
      BY <3>1, <3>6 DEF Thr
  <2>2. ASSUME NEW u \in Threads, u # t PROVE Thr(u)'
    <3>1. where'[u] = where[u] /\ using'[u] = using[u] /\ at'[u] = at[u] /\ mlock' = mlock /\ mlock # u
      BY <1>1, <1>3, <2>2, WhereIs DEF Moves, Moved
    <3>2. Thr(u)
      BY DEF MessengerInv
    <3>3. \A y \in Sockets : /\ st[y] # "none" => st'[y] # "none"
                             /\ st[y] \notin {"none", "accepting"} => st'[y] # "accepting"
      BY <1>9
    <3> QED
      BY <1>1, <1>13, <3>1, <3>2, <3>3, ThrFrame
  <2> QED
    BY <2>1, <2>2
<1>15. Queued' = Queued /\ all' = all
  BY <1>3 DEF Moved, Queued
<1>16. Life(old)'
  <2>1. EndsMove(t, old, "open", old)
    BY <1>1, ThreadNames DEF EndsMove
  <2>2. EndedKept(old)
    BY <1>1, <1>6, <1>7, <1>15, NoneIsNone DEF EndedKept, MarksSame
  <2>3. running' = running
    BY <1>3 DEF Moved
  <2> QED
    BY <1>1, <1>5, <1>9, <2>1, <2>2, <2>3, EndsLife
<1>17. ASSUME NEW y \in Sockets, y # old PROVE Life(y)'
  <2>1. running' = running /\ undone' = undone /\ slock' = slock
    BY <1>3 DEF Moved
  <2>2. QuietMove(t, "open", old)
    <3>1. ReaderGoes(x, st[x], where[t], "open", old)
      BY <1>1, <2>1 DEF ReaderGoes, Accepts
    <3>2. ASSUME NEW s \in Sockets PROVE (t = R(s) => s = x) /\ t # W(s)
      BY ThreadNames
    <3> QED
      BY <3>1, <3>2 DEF QuietMove
  <2>3. AcceptorsKeep
    BY <2>1 DEF AcceptorsKeep
  <2>4. SameWork(y)
    BY <1>1, <1>5, <1>9, <1>17, <2>1, <2>2, <2>3, MoverWork
  <2>5. y \notin all /\ y # Registering => unsent'[y] = 0 /\ sent'[y] = 0
    <3>1. ASSUME y \notin all, y # Registering PROVE unsent'[y] = 0 /\ sent'[y] = 0
      <4>1. unsent'[y] = unsent[y] /\ sent'[y] = sent[y]
        BY <1>1, <1>9, <1>17, <3>1
      <4> QED
        BY <3>1, <4>1, QueuesKept
    <3> QED
      BY <3>1
  <2>6. y # None
    BY NoneIsNone
  <2>7. SameLists(y)
    BY <1>1, <1>6, <1>7, <1>15, <1>17, <2>5, <2>6 DEF SameLists, MarksSame
  <2>8. Life(y)
    BY DEF MessengerInv
  <2> QED
    BY <2>4, <2>7, <2>8, LifeFrame
<1>18. NoTwice'
  BY <1>3 DEF NoTwice, Moved, MessengerInv
<1> QED
  BY <1>8, <1>10, <1>11, <1>12, <1>14, <1>16, <1>17, <1>18 DEF MessengerInv

-----------------------------------------------------------------------------
(* The beginning of a session                                              *)

\* What is known of a socket that does not exist yet.
LEMMA Newcomer ==
    ASSUME MessengerInv, NEW s \in New
    PROVE  /\ s \in Sockets /\ st[s] = "none" /\ where[R(s)] = "none" /\ where[W(s)] = "none"
           /\ s \notin all /\ s \notin undone /\ s \notin Queued /\ s \notin accepting
           /\ s # rank /\ s # Joining /\ s # Registering
           /\ at[R(s)] = s /\ at[W(s)] = s /\ R(s) \notin running /\ W(s) \notin running
           /\ con[s] = s /\ conSocket[s] = None /\ unsent[s] = 0 /\ sent[s] = 0
           /\ R(s) \in Threads /\ W(s) \in Threads /\ R(s) # W(s)
           /\ R(s) # Reaper /\ W(s) # Reaper
<1>1. s \in Sockets /\ st[s] = "none"
  BY DEF New
<1> PICK r, w, z : r = where[R(s)] /\ w = where[W(s)] /\ z = st[s]
  OBVIOUS
<1>2. IsAlive(s, z, r, w) /\ IsListed(s, z, r, w) /\ Conn(s)
  BY <1>1 DEF MessengerInv, Life
<1>3. z = "none"
  BY <1>1
<1>4. r = "none" /\ w = "none" /\ s \notin all /\ s \notin undone
  BY <1>2, <1>3 DEF IsAlive
<1>5. at[R(s)] = s /\ at[W(s)] = s /\ R(s) \notin running /\ W(s) \notin running
  BY <1>2, <1>4 DEF IsAlive, Ended
<1>6. s \notin Queued /\ s \notin accepting /\ s # rank /\ s # Joining /\ s # Registering
  BY <1>2, <1>3, <1>4 DEF IsListed
<1>7. unsent[s] = 0 /\ sent[s] = 0
  BY <1>2, <1>4, <1>6 DEF IsListed
<1>8. con[s] = s /\ conSocket[s] = None
  BY <1>1, <1>2 DEF Conn
<1>9. R(s) \in Threads /\ W(s) \in Threads /\ R(s) # W(s) /\ R(s) # Reaper /\ W(s) # Reaper
  BY <1>1, ThreadNames
<1> QED
  BY <1>1, <1>4, <1>5, <1>6, <1>7, <1>8, <1>9

\* Connections when socket s is created for connection d, its own or one that is published.
LEMMA BegunConn ==
    ASSUME \A c \in Sockets : Conn(c), Typed, NEW s \in Sockets, NEW d \in Sockets,
           st[s] = "none", s \notin undone, d = s \/ Published(d),
           NEW z \in {"connecting", "accepting"}, z = "accepting" => d = s,
           st' = [st EXCEPT ![s] = z], con' = [con EXCEPT ![s] = d],
           conSocket' = [conSocket EXCEPT ![d] = s], failed' = failed, undone' = undone,
           \A y \in Sockets : y # s /\ where[R(y)] = "open" => where'[R(y)] = "open"
    PROVE  \A c \in Sockets : Conn(c)'
<1>1. /\ st'[s] = z /\ \A y \in Sockets : y # s => st'[y] = st[y]
      /\ con'[s] = d /\ \A y \in Sockets : y # s => con'[y] = con[y]
      /\ conSocket'[d] = s /\ \A y \in Sockets : y # d => conSocket'[y] = conSocket[y]
  BY DEF Typed
<1>2. d # s => st[d] \notin {"none", "accepting"} /\ con[d] = d
  BY DEF Published
<1>3. ASSUME NEW c \in Sockets, c # s PROVE Published(c)' <=> Published(c)
  BY <1>1, <1>3 DEF Published
<1>4. Published(s)' <=> d = s /\ z = "connecting"
  BY <1>1 DEF Published
<1>5. ~Published(s) /\ ~IsUp(s)
  BY DEF Published, IsUp, Live
<1>6. z = "connecting" => IsUp(s)'
  BY <1>1 DEF IsUp, Live
<1>7. ASSUME NEW y \in Sockets, IsUp(y) PROVE y # s /\ IsUp(y)'
  <2>1. y # s
    BY <1>5, <1>7
  <2> QED
    BY <1>1, <1>7, <2>1 DEF IsUp
<1> SUFFICES ASSUME NEW c \in Sockets PROVE Conn(c)'
  OBVIOUS
<1>8. Conn(c) /\ con[c] \in Sockets /\ conSocket[c] \in Sockets \cup {None}
  BY DEF Typed
<1>9. con'[c] = c \/ Published(con[c])'
  <2> PICK e : e = con'[c]
    OBVIOUS
  <2>1. e = c \/ (con'[e] = e /\ st'[e] \notin {"none", "accepting"})
    <3>1. CASE c = s
      BY <1>1, <1>2, <3>1
    <3>2. CASE c # s
      <4>1. e = con[c] /\ e \in Sockets
        BY <1>1, <1>8, <3>2
      <4>2. e = c \/ Published(e)
        BY <1>8, <4>1 DEF Conn
      <4> QED
        BY <1>3, <1>5, <4>1, <4>2 DEF Published
    <3> QED
      BY <3>1, <3>2
  <2> QED
    BY <2>1 DEF Published
<1>10. ASSUME Published(c)', conSocket'[c] # None
       PROVE  con'[conSocket'[c]] = c /\ IsUp(conSocket[c])'
  <2> PICK y : y = conSocket'[c]
    OBVIOUS
  <2>1. con'[y] = c /\ IsUp(y)'
    <3>1. CASE c = d
      <4>1. z = "connecting"
        <5>1. CASE d = s
          BY <1>4, <1>10, <3>1, <5>1
        <5>2. CASE d # s
          BY <5>2
        <5> QED
          BY <5>1, <5>2
      <4> QED
        BY <1>1, <1>6, <3>1, <4>1
    <3>2. CASE c # d
      <4>1. y = conSocket[c] /\ y \in Sockets /\ c # s
        BY <1>1, <1>4, <1>8, <1>10, <3>2
      <4>2. con[y] = c /\ IsUp(y)
        BY <1>3, <1>8, <1>10, <4>1 DEF Conn
      <4> QED
        BY <1>1, <1>7, <4>1, <4>2
    <3> QED
      BY <3>1, <3>2
  <2>2. IsUp(conSocket[c])' <=> IsUp(y)'
    BY DEF IsUp
  <2> QED
    BY <2>1, <2>2
<1>11. Published(c)' /\ ~failed'[c] => conSocket'[c] # None
  <2>1. CASE c = d
    BY <1>1, <2>1, NoneIsNone
  <2>2. CASE c # d
    BY <1>1, <1>3, <1>4, <1>8, <2>2 DEF Conn
  <2> QED
    BY <2>1, <2>2
<1>12. st'[c] = "accepting" /\ con'[c] = c => conSocket'[c] = c
  <2>1. CASE c = s
    BY <1>1, <2>1
  <2>2. CASE c # s
    <3>1. st[c] = "accepting" => c # d
      BY <1>2, <2>2
    <3> QED
      BY <1>1, <1>8, <2>2, <3>1 DEF Conn
  <2> QED
    BY <2>1, <2>2
<1>13. st'[c] = "none" => con'[c] = c /\ conSocket'[c] = None
  <2>1. ASSUME st'[c] = "none" PROVE con'[c] = c /\ conSocket'[c] = None
    <3>1. c # s /\ st[c] = "none"
      BY <1>1, <2>1
    <3>2. c # d
      BY <1>2, <3>1
    <3> QED
      BY <1>1, <1>8, <3>1, <3>2 DEF Conn
  <2> QED
    BY <2>1
<1>14. conSocket'[c] # None => st'[conSocket'[c]] # "none"
  <2> PICK y : y = conSocket'[c]
    OBVIOUS
  <2>1. CASE c = d
    BY <1>1, <2>1
  <2>2. CASE c # d
    <3>1. y = conSocket[c]
      BY <1>1, <2>2
    <3>2. y # None => y \in Sockets /\ st[y] # "none"
      BY <1>8, <3>1 DEF Conn
    <3>3. y # None => st'[y] # "none"
      BY <1>1, <3>2
    <3> QED
      BY <3>3
  <2> QED
    BY <2>1, <2>2
<1>15. Published(c)' /\ conSocket'[c] # None => con'[conSocket'[c]] = c /\ IsUp(conSocket[c])'
  BY <1>10
<1> HIDE DEF Published
<1> QED
  BY <1>9, <1>11, <1>12, <1>13, <1>14, <1>15 DEF Conn

LEMMA BegunRefs ==
    ASSUME RefsOK, Typed, own' = own, NEW s \in Sockets, NEW d \in Sockets,
           conSocket' = [conSocket EXCEPT ![d] = s], s # conSocket[d],
           \A y \in Sockets :
              refs'[y] = refs[y] + (IF y = s THEN 2 ELSE 0) - (IF y = conSocket[d] THEN 1 ELSE 0),
           Created(s) = 0, Created(s)' = 1, \A y \in Sockets : y # s => Created(y)' = Created(y)
    PROVE  RefsOK'
<1>1. ASSUME NEW y \in Sockets
      PROVE  refs'[y] = refs[y] + Created(y)' - Created(y) + Is(s, y) - Is(conSocket[d], y)
  <2>1. Created(y)' \in {0, 1} /\ Created(y) \in {0, 1} /\ refs[y] \in Int
    BY DEF Created, Typed
  <2>2. Is(s, y) = (IF y = s THEN 1 ELSE 0) /\ Is(conSocket[d], y) = (IF y = conSocket[d] THEN 1 ELSE 0)
    BY DEF Is
  <2>3. refs'[y] = refs[y] + (IF y = s THEN 2 ELSE 0) - (IF y = conSocket[d] THEN 1 ELSE 0)
    OBVIOUS
  <2>4. CASE y = s
    BY <2>1, <2>2, <2>3, <2>4
  <2>5. CASE y # s
    BY <2>1, <2>2, <2>3, <2>5
  <2> QED
    BY <2>4, <2>5
<1>2. RefsMoveCon(d, s)
  BY <1>1 DEF RefsMoveCon
<1> QED
  BY <1>2, RefsOfCon

\* Thread t creates socket s for connection d, and its writer u.
Creates(t, s, u, d) ==
    /\ st' = [st EXCEPT ![s] = "connecting"] /\ con' = [con EXCEPT ![s] = d]
    /\ conSocket' = [conSocket EXCEPT ![d] = s]
    /\ \A y \in Sockets :
          refs'[y] = refs[y] + (IF y = s THEN 2 ELSE 0) - (IF y = conSocket[d] THEN 1 ELSE 0)
    /\ refs' \in [Sockets -> Int]
    /\ unsent' = [unsent EXCEPT ![s] = 1] /\ running' = running \cup {u}
    /\ pc' = [pc EXCEPT ![t] = "register", ![u] = "start"] /\ at' = [at EXCEPT ![t] = s]
    /\ UNCHANGED <<policy, mlock, slock, using, rank, accepting, all, failed, dispatching, notify, sent,
                   reapq, undone>>
LEMMA ConnectCreates ==
    ASSUME MessengerInv, NEW t \in Threads, ConnectRank(t)
    PROVE  \E s \in New : Creates(t, s, W(s), IF using[t] = None THEN s ELSE using[t])
<1> USE DEF locks, lists, owners, flags, queues, stops, ghosts
<1> PICK s \in New :
        LET d == IF using[t] = None THEN s ELSE using[t] IN
        /\ st' = [st EXCEPT ![s] = "connecting"]
        /\ refs' = Reset(refs, d, s, 2)
        /\ con' = [con EXCEPT ![s] = d] /\ conSocket' = [conSocket EXCEPT ![d] = s]
        /\ unsent' = [unsent EXCEPT ![s] = 1]
        /\ running' = running \cup {W(s)}
        /\ pc' = [pc EXCEPT ![t] = "register", ![W(s)] = "start"]
        /\ at' = [at EXCEPT ![t] = s]
        /\ UNCHANGED <<policy, mlock, slock, using, rank, accepting, all, failed, dispatching, notify,
                       sent, reapq, undone>>
  BY DEF ConnectRank
<1> PICK d : d = IF using[t] = None THEN s ELSE using[t]
  OBVIOUS
<1>1. refs' = Reset(refs, d, s, 2)
  OBVIOUS
<1>2. \A y \in Sockets : refs[y] \in Int
  BY DEF MessengerInv, Typed
<1>3. \A y \in Sockets :
          refs'[y] = refs[y] + (IF y = s THEN 2 ELSE 0) - (IF y = conSocket[d] THEN 1 ELSE 0)
  BY <1>1 DEF Reset
<1>4. refs' \in [Sockets -> Int]
  <2>1. ASSUME NEW y \in Sockets
        PROVE  refs[y] + (IF y = s THEN 2 ELSE 0) - (IF y = conSocket[d] THEN 1 ELSE 0) \in Int
    BY <1>2
  <2> QED
    BY <1>1, <2>1 DEF Reset
<1>5. Creates(t, s, W(s), d)
  BY <1>3, <1>4 DEF Creates
<1> QED
  BY <1>5

\* What is known of who is about to create a socket.
LEMMA Creator ==
    ASSUME MessengerInv, NEW t \in Threads, ConnectRank(t)
    PROVE  /\ where[t] = "connect" /\ mlock = t /\ Vacant /\ own[t] = None
           /\ using[t] \in Sockets \cup {None} /\ (using[t] = None \/ Published(using[t]))
           /\ Registering = None /\ Stopping = None /\ t # Reaper
<1>1. where[t] = "connect"
  BY Actor DEF ConnectRank, At, Plain
<1>2. /\ mlock = t /\ IsThr(t, where[t], at[t], using[t]) /\ using[t] \in Sockets \cup {None}
      /\ own[t] = Owned(where[t], at[t], using[t])
  BY <1>1, Actor DEF HasM
<1>3. own[t] = None
  BY <1>1, <1>2 DEF Owned
<1>4. Vacant /\ (using[t] = None \/ Published(using[t]))
  BY <1>1, <1>2 DEF IsThr
<1>5. Registering = None /\ Stopping = None
  BY <1>1, <1>2, NoMarks DEF Marks
<1>6. t # Reaper
  <2>1. IsAt(t, where[t])
    BY DEF MessengerInv, Locked
  <2> QED
    BY <1>1, <2>1 DEF IsAt, ReaperLabels
<1> QED
  BY <1>1, <1>2, <1>3, <1>4, <1>5, <1>6

LEMMA ConnectRankKeeps ==
    ASSUME MessengerInv, NEW t \in Threads, ConnectRank(t)
    PROVE  MessengerInv'
<1>1. /\ where[t] = "connect" /\ mlock = t /\ Vacant /\ own[t] = None
      /\ using[t] \in Sockets \cup {None} /\ (using[t] = None \/ Published(using[t]))
      /\ Registering = None /\ Stopping = None /\ t # Reaper
  BY Creator
<1> PICK s \in New : Creates(t, s, W(s), IF using[t] = None THEN s ELSE using[t])
  BY ConnectCreates
<1> PICK c, u : c = using[t] /\ u = W(s)
  OBVIOUS
<1> PICK d : d = IF c = None THEN s ELSE c
  OBVIOUS
<1>2. /\ s \in Sockets /\ st[s] = "none" /\ where[R(s)] = "none" /\ where[u] = "none"
      /\ s \notin all /\ s \notin undone /\ s \notin Queued /\ s \notin accepting
      /\ s # rank /\ s # Joining
      /\ at[R(s)] = s /\ at[u] = s /\ R(s) \notin running /\ u \notin running
      /\ con[s] = s /\ conSocket[s] = None
      /\ R(s) \in Threads /\ u \in Threads /\ R(s) # u /\ u # Reaper
  BY Newcomer
<1>3. /\ Typed /\ Locked /\ IsPc(pc) /\ NoTwice /\ RefsOK /\ t # u /\ t # R(s)
      /\ at \in [Threads -> Sockets \cup {None}]
  BY <1>1, <1>2, Actor DEF MessengerInv, Typed
<1>4. Creates(t, s, u, d)
  OBVIOUS
<1>5. d \in Sockets /\ (d = s \/ Published(d)) /\ (c = None \/ (c \in Sockets /\ Published(c)))
  BY <1>1, <1>2
<1>6. TwoMoves(t, "register", u, "start")
  <2> PICK a, b : a = "register" /\ b = "start"
    OBVIOUS
  <2>1. Plain(a) = a /\ Plain(b) = b
    BY DEF Plain
  <2>2. pc' = [pc EXCEPT ![t] = a, ![u] = b]
    BY <1>4 DEF Creates
  <2>3. TwoMoves(t, a, u, b)
    BY <1>2, <1>3, <2>1, <2>2, TwoMove
  <2> QED
    BY <2>3
<1>7. /\ where'[t] = "register" /\ where'[u] = "start" /\ at'[t] = s
      /\ \A v \in Threads : v \notin {t, u} => where'[v] = where[v] /\ at'[v] = at[v]
      /\ at'[u] = s /\ mlock' = mlock /\ using' = using
  BY <1>2, <1>3, <1>4, <1>6 DEF TwoMoves, Creates
<1>8. IsAt(t, "register") /\ QuietMove(t, "register", s)
  <2>1. where[t] \in CallLabels /\ "register" \in CallLabels
    BY <1>1 DEF CallLabels
  <2> QED
    BY <2>1, CallMove
<1>9. Locked'
  <2>1. IsAt(u, "start") /\ "start" \notin HasM /\ mlock # u
    BY <1>1, <1>2, <1>3, SessionAt DEF WriterLabels, HasM
  <2>2. LockStep(t) /\ MayHold(t, "register")
    BY <1>1, <1>7, <1>8 DEF LockStep, MayHold, HasM
  <2> QED
    BY <1>2, <1>3, <1>6, <2>1, <2>2, LockedStepOfTwo DEF TwoMoves
<1>10. Registering' = s /\ Stopping' = None /\ Joining' = Joining
  <2>1. mlock' = t /\ t # Nobody
    BY <1>1, <1>7, ThreadNames
  <2>2. Registering' = s /\ Stopping' = None
    BY <1>7, <2>1 DEF Registering, Stopping
  <2>3. where'[Reaper] = where[Reaper] /\ at'[Reaper] = at[Reaper]
    BY <1>1, <1>2, <1>7, ThreadNames
  <2> QED
    BY <2>2, <2>3 DEF Joining
<1>11. st'[s] = "connecting" /\ \A y \in Sockets : y # s => st'[y] = st[y]
  BY <1>2, <1>3, <1>4 DEF Creates, Typed
<1>12. Typed'
  <2>1. st' \in [Sockets -> {"none", "accepting", "connecting", "open", "standby", "closed"}]
    BY <1>2, <1>3, <1>4 DEF Creates, Typed
  <2>2. con' \in [Sockets -> Sockets] /\ conSocket' \in [Sockets -> Sockets \cup {None}]
    BY <1>2, <1>3, <1>4, <1>5 DEF Creates, Typed
  <2>3. unsent' \in [Sockets -> Nat] /\ running' \subseteq Threads /\ at' \in [Threads -> Sockets \cup {None}]
    BY <1>2, <1>3, <1>4 DEF Creates, Typed
  <2>4. refs' \in [Sockets -> Int]
    BY <1>4 DEF Creates
  <2>5. UNCHANGED <<policy, slock, using, rank, all, failed, dispatching, notify, reapq, accepting, sent>>
    BY <1>4 DEF Creates
  <2> QED
    BY <1>3, <2>1, <2>2, <2>3, <2>4, <2>5 DEF Typed
<1>13. RefsOK'
  <2>1. own' = own
    <3>1. ASSUME NEW v \in Threads
          PROVE  Owned(where'[v], at'[v], using'[v]) = Owned(where[v], at[v], using[v])
      <4>1. CASE v \in {t, u}
        <5>1. where[v] \notin {"lock to send", "await", "lock to stop"}
              /\ where'[v] \notin {"lock to send", "await", "lock to stop"}
          BY <1>1, <1>2, <1>7, <4>1
        <5> QED
          BY <5>1 DEF Owned
      <4>2. CASE v \notin {t, u}
        BY <1>7, <4>2
      <4> QED
        BY <4>1, <4>2
    <3> QED
      BY <3>1, OwnKept
  <2>2. all' = all
    BY <1>4 DEF Creates
  <2>3. Created(s) = 0 /\ Created(s)' = 1 /\ \A y \in Sockets : y # s => Created(y)' = Created(y)
    BY <1>1, <1>2, <1>10, <2>2, NoneIsNone DEF Created
  <2>4. s # conSocket[d]
    <3>1. Conn(d)
      BY <1>5 DEF MessengerInv
    <3> QED
      BY <1>2, <3>1, NoneIsNone DEF Conn
  <2>5. /\ conSocket' = [conSocket EXCEPT ![d] = s]
        /\ \A y \in Sockets :
              refs'[y] = refs[y] + (IF y = s THEN 2 ELSE 0) - (IF y = conSocket[d] THEN 1 ELSE 0)
    BY <1>4 DEF Creates
  <2> QED
    BY <1>2, <1>3, <1>5, <2>1, <2>3, <2>4, <2>5, BegunRefs
<1>14. \A y \in Sockets : Conn(y)'
  <2> PICK z : z = "connecting"
    OBVIOUS
  <2>1. \A y \in Sockets : Conn(y)
    BY DEF MessengerInv
  <2>2. ASSUME NEW y \in Sockets, y # s, where[R(y)] = "open" PROVE where'[R(y)] = "open"
    <3>1. R(y) \in Threads /\ R(y) # u /\ R(y) # t
      BY <1>1, <1>2, <2>2, ThreadNames
    <3> QED
      BY <1>7, <2>2, <3>1
  <2>3. /\ st' = [st EXCEPT ![s] = z] /\ con' = [con EXCEPT ![s] = d]
        /\ conSocket' = [conSocket EXCEPT ![d] = s] /\ failed' = failed /\ undone' = undone
    BY <1>4 DEF Creates
  <2>4. z \in {"connecting", "accepting"} /\ z # "accepting"
    OBVIOUS
  <2> QED
    BY <1>2, <1>3, <1>5, <2>1, <2>2, <2>3, <2>4, BegunConn
<1>15. \A e \in Sockets : Published(e) => Published(e)'
  <2>1. \A y \in Sockets : y # s => con'[y] = con[y]
    BY <1>3, <1>4 DEF Creates, Typed
  <2> QED
    BY <1>2, <1>11, <2>1 DEF Published
<1>16. Vacant'
  <2>1. rank' = rank /\ undone' = undone /\ rank \in Sockets \cup {None}
    BY <1>3, <1>4 DEF Creates, Typed
  <2> QED
    BY <1>1, <1>2, <1>11, <2>1 DEF Vacant
<1>17. \A v \in Threads : Thr(v)'
  <2>1. Thr(t)'
    <3>1. c = None \/ Published(c)'
      BY <1>5, <1>15
    <3>2. s # None /\ st'[s] # "none"
      BY <1>2, <1>11, NoneIsNone
    <3>3. IsThr(t, "register", s, c)'
      BY <1>16, <3>1, <3>2 DEF IsThr
    <3> QED
      BY <1>7, <3>3 DEF Thr
  <2>2. Thr(u)'
    <3> PICK l, a, e : l = where'[u] /\ a = at'[u] /\ e = using'[u]
      OBVIOUS
    <3>1. l \notin Special
      BY <1>7 DEF Special
    <3>2. e = None \/ (e \in Sockets /\ Published(e))
      BY <1>2, <1>7, Actor DEF IsThr
    <3>3. e = None \/ Published(e)'
      BY <1>15, <3>2
    <3>4. IsThr(u, l, a, e)'
      BY <3>1, <3>3, ThrSimple
    <3> QED
      BY <3>4 DEF Thr
  <2>3. ASSUME NEW v \in Threads, v \notin {t, u} PROVE Thr(v)'
    <3>1. where'[v] = where[v] /\ using'[v] = using[v] /\ at'[v] = at[v] /\ mlock' = mlock /\ mlock # v
      BY <1>1, <1>7, <2>3
    <3>2. Thr(v)
      BY DEF MessengerInv
    <3>3. \A y \in Sockets : /\ st[y] # "none" => st'[y] # "none"
                             /\ st[y] \notin {"none", "accepting"} => st'[y] # "accepting"
      BY <1>2, <1>11
    <3> QED
      BY <1>3, <1>15, <3>1, <3>2, <3>3, ThrFrame
  <2> QED
    BY <2>1, <2>2, <2>3
<1>18. Queued' = Queued /\ all' = all /\ rank' = rank /\ accepting' = accepting /\ undone' = undone
       /\ slock' = slock /\ sent' = sent /\ running' = running \cup {u}
       /\ \A y \in Sockets : y # s => unsent'[y] = unsent[y]
  BY <1>3, <1>4 DEF Creates, Queued, Typed
<1>19. Life(s)'
  <2> PICK k, m : k = where'[R(s)] /\ m = where'[W(s)]
    OBVIOUS
  <2>1. k = "none" /\ m = "start" /\ at'[R(s)] = s /\ at'[W(s)] = s
    BY <1>2, <1>3, <1>7
  <2>2. R(s) \notin running' /\ W(s) \in running'
    BY <1>2, <1>18
  <2>3. IsAlive(s, "connecting", k, m)'
    BY <2>1, <2>2 DEF IsAlive, Ended, Accepts, Unlists, Live
  <2>4. s \notin all' /\ s = Registering' /\ s \notin Queued' /\ s # Joining' /\ s \notin accepting' /\ s # rank'
    BY <1>2, <1>10, <1>18
  <2>5. IsListed(s, "connecting", k, m)'
    BY <2>1, <2>4 DEF IsListed
  <2> QED
    BY <1>11, <2>3, <2>5 DEF Life
<1>20. ASSUME NEW y \in Sockets, y # s PROVE Life(y)'
  <2>1. Life(y) /\ R(y) \in Threads /\ W(y) \in Threads /\ R(y) # u /\ W(y) # u /\ at[W(y)] = y
    BY <1>2, <1>20, Session, ThreadNames
  <2>2. W(y) # t /\ (R(y) = t => ReaderGoes(y, st[y], where[t], "register", s))
    BY <1>8, <1>20 DEF QuietMove
  <2>3. where'[W(y)] = where[W(y)] /\ at'[W(y)] = at[W(y)]
    BY <1>7, <2>1, <2>2
  <2>4. \/ where'[R(y)] = where[R(y)] /\ at'[R(y)] = at[R(y)]
        \/ ReaderGoes(y, st[y], where[R(y)], where'[R(y)], at'[R(y)])
    BY <1>7, <2>1, <2>2
  <2>5. /\ R(y) \in running' <=> R(y) \in running
        /\ W(y) \in running' <=> W(y) \in running
    BY <1>18, <2>1
  <2>6. SameWork(y)
    BY <1>11, <1>18, <1>20, <2>3, <2>4, <2>5 DEF SameWork
  <2>7. y \notin all /\ y # Registering => unsent'[y] = 0 /\ sent'[y] = 0
    BY <1>18, <1>20, QueuesKept
  <2>8. y # None
    BY NoneIsNone
  <2>9. SameLists(y)
    BY <1>1, <1>10, <1>18, <1>20, <2>7, <2>8 DEF SameLists
  <2> QED
    BY <2>1, <2>6, <2>9, LifeFrame
<1>21. NoTwice'
  BY <1>3, <1>4 DEF NoTwice, Creates
<1> QED
  BY <1>9, <1>12, <1>13, <1>14, <1>17, <1>19, <1>20, <1>21 DEF MessengerInv

\* Nobody has a reference of a socket that does not exist yet.
LEMMA NewcomerRefs ==
    ASSUME MessengerInv, NEW s \in New
    PROVE  refs[s] = 0 /\ Created(s) = 0
<1>1. s \in Sockets /\ st[s] = "none" /\ s \notin all /\ s # Registering /\ s # Joining
  BY Newcomer
<1>2. Created(s) = 0
  BY <1>1 DEF Created
<1>3. {c \in Sockets : conSocket[c] = s} = {}
  <2>1. ASSUME NEW c \in Sockets, conSocket[c] = s PROVE FALSE
    <3>1. Conn(c)
      BY DEF MessengerInv
    <3> QED
      BY <1>1, <2>1, <3>1, NoneIsNone DEF Conn
  <2> QED
    BY <2>1
<1>4. {v \in Threads : own[v] = s} = {}
  <2>1. ASSUME NEW v \in Threads, own[v] = s PROVE FALSE
    <3> PICK l, a, c : l = where[v] /\ a = at[v] /\ c = using[v]
      OBVIOUS
    <3>1. own[v] = Owned(l, a, c) /\ IsThr(v, l, a, c)
      BY Actor
    <3>2. a = s /\ l \in {"lock to send", "await", "lock to stop"}
      BY <1>1, <2>1, <3>1, NoneIsNone DEF Owned
    <3>3. st[a] # "none"
      BY <3>1, <3>2 DEF IsThr
    <3> QED
      BY <1>1, <3>2, <3>3
  <2> QED
    BY <2>1
<1>5. Count(conSocket, Sockets, s) = 0 /\ Count(own, Threads, s) = 0
  BY <1>3, <1>4, FS_EmptySet DEF Count
<1>6. refs[s] = Created(s) + Count(conSocket, Sockets, s) + Count(own, Threads, s)
  BY <1>1 DEF MessengerInv, RefsOK
<1> QED
  BY <1>2, <1>5, <1>6

LEMMA AcceptKeeps ==
    ASSUME MessengerInv, Accept
    PROVE  MessengerInv'
<1> USE DEF locks, lists, owners, flags, queues, stops, ghosts
<1> PICK s \in New :
        /\ PassM /\ st' = [st EXCEPT ![s] = "accepting"]
        /\ refs' = [refs EXCEPT ![s] = 2]
        /\ con' = [con EXCEPT ![s] = s] /\ conSocket' = [conSocket EXCEPT ![s] = s]
        /\ running' = running \cup {R(s)} /\ Go(R(s), "start")
        /\ all' = all \cup {s} /\ accepting' = accepting \cup {s}
        /\ UNCHANGED <<policy, mlock, slock, at, using, rank, failed, dispatching, notify, unsent, sent,
                       reapq, undone>>
  BY DEF Accept
<1> PICK u : u = R(s)
  OBVIOUS
<1>1. /\ s \in Sockets /\ st[s] = "none" /\ where[u] = "none" /\ where[W(s)] = "none"
      /\ s \notin all /\ s \notin undone /\ s \notin Queued /\ s \notin accepting
      /\ s # rank /\ s # Joining /\ s # Registering
      /\ at[u] = s /\ at[W(s)] = s /\ u \notin running /\ W(s) \notin running
      /\ con[s] = s /\ conSocket[s] = None /\ unsent[s] = 0 /\ sent[s] = 0
      /\ u \in Threads /\ W(s) \in Threads /\ u # W(s)
  BY Newcomer
<1>2. /\ Typed /\ Locked /\ IsPc(pc) /\ NoTwice /\ RefsOK /\ mlock = Nobody
  BY <1>1, Actor DEF MessengerInv, PassM
<1>3. /\ st' = [st EXCEPT ![s] = "accepting"] /\ refs' = [refs EXCEPT ![s] = 2]
      /\ con' = [con EXCEPT ![s] = s] /\ conSocket' = [conSocket EXCEPT ![s] = s]
      /\ running' = running \cup {u} /\ all' = all \cup {s} /\ accepting' = accepting \cup {s}
      /\ UNCHANGED <<policy, mlock, slock, at, using, rank, failed, dispatching, notify, unsent, sent,
                     reapq, undone>>
  OBVIOUS
<1>4. Moves(u, "start")
  <2>1. Plain("start") = "start" /\ Go(u, "start")
    BY DEF Plain
  <2> QED
    BY <1>1, <1>2, <2>1, GoMoves
<1>5. where'[u] = "start" /\ \A v \in Threads : v # u => where'[v] = where[v]
  BY <1>1, <1>4, WhereIs DEF Moves
<1>6. Locked'
  <2>1. IsAt(u, "start")
    BY <1>1, SessionAt DEF ReaderLabels
  <2>2. LockStep(u) /\ MayHold(u, "start")
    BY <1>1, <1>2, <1>3, <2>1, ThreadNames DEF LockStep, MayHold, HasM
  <2> QED
    BY <1>1, <1>2, <1>4, <2>2, LockedStep
<1>7. MarksSame
  <2>1. where[u] \notin Marks /\ where'[u] \notin Marks
    BY <1>1, <1>5 DEF Marks
  <2> QED
    BY <1>2, <1>3, <1>5, <1>6, <2>1, MarksStep
<1>8. st'[s] = "accepting" /\ \A y \in Sockets : y # s => st'[y] = st[y]
  BY <1>1, <1>2, <1>3 DEF Typed
<1>9. Typed'
  <2>1. st' \in [Sockets -> {"none", "accepting", "connecting", "open", "standby", "closed"}]
        /\ refs' \in [Sockets -> Int]
    BY <1>1, <1>2, <1>3 DEF Typed
  <2>2. con' \in [Sockets -> Sockets] /\ conSocket' \in [Sockets -> Sockets \cup {None}]
    BY <1>1, <1>2, <1>3 DEF Typed
  <2>3. running' \subseteq Threads /\ all' \subseteq Sockets /\ accepting' \subseteq Sockets
    BY <1>1, <1>2, <1>3 DEF Typed
  <2> QED
    BY <1>2, <1>3, <2>1, <2>2, <2>3 DEF Typed
<1>10. RefsOK'
  <2>1. own' = own
    <3>1. ASSUME NEW v \in Threads
          PROVE  Owned(where'[v], at'[v], using'[v]) = Owned(where[v], at[v], using[v])
      <4>1. CASE v = u
        <5>1. where[v] \notin {"lock to send", "await", "lock to stop"}
              /\ where'[v] \notin {"lock to send", "await", "lock to stop"}
          BY <1>1, <1>5, <4>1
        <5> QED
          BY <5>1 DEF Owned
      <4>2. CASE v # u
        BY <1>3, <1>5, <4>2
      <4> QED
        BY <4>1, <4>2
    <3> QED
      BY <3>1, OwnKept
  <2>2. refs[s] = 0 /\ Created(s) = 0
    BY NewcomerRefs
  <2>3. Created(s)' = 1 /\ \A y \in Sockets : y # s => Created(y)' = Created(y)
    BY <1>3, <1>7 DEF Created, MarksSame
  <2>4. s # conSocket[s]
    BY <1>1, NoneIsNone
  <2>5. ASSUME NEW y \in Sockets
        PROVE  refs'[y] = refs[y] + (IF y = s THEN 2 ELSE 0) - (IF y = conSocket[s] THEN 1 ELSE 0)
    <3>1. y # conSocket[s]
      BY <1>1, NoneIsNone
    <3>2. refs'[y] = (IF y = s THEN 2 ELSE refs[y]) /\ refs[y] \in Int
      BY <1>2, <1>3 DEF Typed
    <3> QED
      BY <2>2, <3>1, <3>2
  <2> QED
    <3>1. /\ Typed /\ RefsOK /\ s \in Sockets /\ conSocket[s] = None
          /\ conSocket' = [conSocket EXCEPT ![s] = s]
      BY <1>1, <1>2, <1>3
    <3> QED
      BY <3>1, <2>1, <2>2, <2>3, <2>4, <2>5, BegunRefs
<1>11. \A y \in Sockets : Conn(y)'
  <2> PICK z : z = "accepting"
    OBVIOUS
  <2>1. \A y \in Sockets : Conn(y)
    BY DEF MessengerInv
  <2>2. ASSUME NEW y \in Sockets, y # s, where[R(y)] = "open" PROVE where'[R(y)] = "open"
    <3>1. R(y) \in Threads /\ R(y) # u
      BY <1>1, <2>2, ThreadNames
    <3> QED
      BY <1>5, <2>2, <3>1
  <2>3. st' = [st EXCEPT ![s] = z] /\ z \in {"connecting", "accepting"}
    BY <1>3
  <2> QED
    BY <1>1, <1>2, <1>3, <2>1, <2>2, <2>3, BegunConn
<1>12. \A e \in Sockets : Published(e) => Published(e)'
  <2>1. \A y \in Sockets : y # s => con'[y] = con[y]
    BY <1>2, <1>3 DEF Typed
  <2> QED
    BY <1>1, <1>8, <2>1 DEF Published
<1>13. \A v \in Threads : Thr(v)'
  <2>1. Thr(u)'
    <3> PICK l, a, e : l = where'[u] /\ a = at'[u] /\ e = using'[u]
      OBVIOUS
    <3>1. l \notin Special
      BY <1>5 DEF Special
    <3>2. e = None \/ (e \in Sockets /\ Published(e))
      BY <1>1, <1>3, Actor DEF IsThr
    <3>3. e = None \/ Published(e)'
      BY <1>12, <3>2
    <3>4. IsThr(u, l, a, e)'
      BY <3>1, <3>3, ThrSimple
    <3> QED
      BY <3>4 DEF Thr
  <2>2. ASSUME NEW v \in Threads, v # u PROVE Thr(v)'
    <3>1. where'[v] = where[v] /\ using'[v] = using[v] /\ at'[v] = at[v] /\ mlock' = mlock /\ mlock # v
      BY <1>2, <1>3, <1>5, <2>2, ThreadNames
    <3>2. Thr(v)
      BY DEF MessengerInv
    <3>3. \A y \in Sockets : /\ st[y] # "none" => st'[y] # "none"
                             /\ st[y] \notin {"none", "accepting"} => st'[y] # "accepting"
      BY <1>1, <1>8
    <3> QED
      BY <1>2, <1>12, <3>1, <3>2, <3>3, ThrFrame
  <2> QED
    BY <2>1, <2>2
<1>14. Queued' = Queued
  BY <1>3 DEF Queued
<1>15. Life(s)'
  <2> PICK k, m : k = where'[R(s)] /\ m = where'[W(s)]
    OBVIOUS
  <2>1. k = "start" /\ m = "none" /\ at'[R(s)] = s /\ at'[W(s)] = s
    BY <1>1, <1>3, <1>5
  <2>2. R(s) \in running' /\ W(s) \notin running' /\ s \notin undone'
    BY <1>1, <1>3
  <2>3. s \in all' /\ s # Registering' /\ s \notin Queued' /\ s # Joining' /\ s # rank'
    BY <1>1, <1>3, <1>7, <1>14 DEF MarksSame
  <2>4. IsAlive(s, "accepting", k, m)'
    BY <2>1, <2>2, <2>3 DEF IsAlive, Ended, Accepts, Unlists, Live
  <2>5. IsListed(s, "accepting", k, m)'
    BY <2>1, <2>3 DEF IsListed, Live
  <2> QED
    BY <1>8, <2>4, <2>5 DEF Life
<1>16. ASSUME NEW y \in Sockets, y # s PROVE Life(y)'
  <2>1. Life(y) /\ R(y) \in Threads /\ W(y) \in Threads /\ R(y) # u /\ W(y) # u /\ at[W(y)] = y
    BY <1>1, <1>16, Session, ThreadNames
  <2>2. where'[W(y)] = where[W(y)] /\ where'[R(y)] = where[R(y)] /\ at' = at
    BY <1>3, <1>5, <2>1
  <2>3. /\ R(y) \in running' <=> R(y) \in running
        /\ W(y) \in running' <=> W(y) \in running
    BY <1>3, <2>1
  <2>4. SameWork(y)
    BY <1>3, <1>8, <1>16, <2>2, <2>3 DEF SameWork
  <2>5. y \notin all /\ y # Registering => unsent'[y] = 0 /\ sent'[y] = 0
    BY <1>3, QueuesKept
  <2>6. SameLists(y)
    BY <1>3, <1>7, <1>14, <1>16, <2>5 DEF SameLists, MarksSame
  <2> QED
    BY <2>1, <2>4, <2>6, LifeFrame
<1>17. NoTwice'
  BY <1>2, <1>3 DEF NoTwice
<1> QED
  BY <1>6, <1>9, <1>10, <1>11, <1>13, <1>15, <1>16, <1>17 DEF MessengerInv

-----------------------------------------------------------------------------
(* Every step keeps the invariant                                          *)

\* A step that changes nothing.
LEMMA StutterKeeps ==
    ASSUME MessengerInv, UNCHANGED vars
    PROVE  MessengerInv'
<1> USE DEF vars, locks, lists, owners, flags, queues, stops, ghosts
<1>1. where' = where /\ own' = own /\ Queued' = Queued
  BY DEF where, own, Queued
<1>2. Registering' = Registering /\ Stopping' = Stopping /\ Joining' = Joining
  BY <1>1 DEF Registering, Stopping, Joining
<1>3. Locked' /\ Typed' /\ NoTwice'
  BY <1>1 DEF MessengerInv, Locked, Typed, NoTwice
<1>4. RefsOK'
  BY <1>1, <1>2, RefsSame DEF MarksSame, MessengerInv
<1>5. ASSUME NEW s \in Sockets PROVE Life(s)'
  <2>1. Life(s)
    BY DEF MessengerInv
  <2>2. SameWork(s)
    BY <1>1 DEF SameWork
  <2>3. s \notin all /\ s # Registering => unsent'[s] = 0 /\ sent'[s] = 0
    BY QueuesKept
  <2>4. SameLists(s)
    BY <1>1, <1>2, <2>3 DEF SameLists
  <2> QED
    BY <2>1, <2>2, <2>4, LifeFrame
<1>6. \A c \in Sockets : Conn(c)'
  <2>1. Typed /\ \A c \in Sockets : Conn(c)
    BY DEF MessengerInv
  <2>2. \A x \in Sockets : st[x] = "accepting" /\ where[R(x)] = "open" => where'[R(x)] = "open"
    BY <1>1
  <2> QED
    BY <2>1, <2>2, ConnFrame
<1>7. ASSUME NEW t \in Threads PROVE Thr(t)'
  <2>1. Locked /\ Typed /\ Thr(t)
    BY DEF MessengerInv
  <2>2. (\A c \in Sockets : Published(c) => Published(c)') /\ (Vacant => Vacant')
    BY DEF Published, Vacant
  <2> QED
    BY <1>1, <2>1, <2>2, ThrFrame
<1> QED
  BY <1>3, <1>4, <1>5, <1>6, <1>7 DEF MessengerInv

LEMMA CalledKeeps ==
    ASSUME MessengerInv, NEW t \in Threads, Called(t)
    PROVE  MessengerInv'
<1>1. CASE SendTo(t) \/ TryGetSocket(t) \/ Submit(t) \/ SubmitClosed(t) \/ Unsent(t) \/ LockToResolve(t)
  BY <1>1, SendToQuiet, TryGetSocketQuiet, SubmitQuiet, SubmitClosedQuiet, UnsentQuiet, LockToResolveQuiet
<1>2. CASE ConnectRank(t) \/ Register(t)
  BY <1>2, ConnectRankKeeps, RegisterKeeps
<1>3. CASE MarkDown(t) \/ MarkDownOn(t) \/ StopIt(t)
  BY <1>3, MarkDownQuiet, MarkDownOnQuiet, StopItEnds
<1>4. CASE Shutdown(t) \/ MarkAll(t) \/ StopOneOfAll(t) \/ Stop(t)
  BY <1>4, ShutdownQuiet, MarkAllQuiet, StopOneOfAllEnds, StopQuiet
<1>5. CASE Wait(t) \/ EndDispatching(t) \/ EndReaper(t)
  <2>1. pc[t] \in {"wait", "wait awake", "end dispatching", "end reaper"}
    BY <1>5 DEF Wait, EndDispatching, EndReaper, At
  <2>2. where[t] \in {"wait", "end dispatching", "end reaper"}
    BY <2>1, WhereIs DEF Plain
  <2>3. t \in Apps
    BY <2>2, WaitersAreApps
  <2> QED
    BY <1>5, <2>3, WaitQuiet, EndDispatchingQuiet, EndReaperQuiet
<1> QED
  BY <1>1, <1>2, <1>3, <1>4, <1>5 DEF Called

LEMMA RunsKeep ==
    ASSUME MessengerInv, NEW s \in Sockets, Runs(s)
    PROVE  MessengerInv'
<1>1. CASE Handshake(s) \/ LockMessenger(s) \/ LockOld(s) \/ AwaitOld(s) \/ Replace(s) \/ Opened(s)
  BY <1>1, HandshakeQuiet, LockMessengerQuiet, HandshakeFailsEnds, LockOldQuiet, AwaitOldQuiet,
     ReplaceKeeps, OpenedKeeps
<1>2. CASE ReaderLoop(s) \/ Dispatched(s)
  BY <1>2, ReaderLoopKeeps, DispatchedQuiet
<1>3. CASE WriterEnds(s) \/ ToConnect(s) \/ JoinReader(s) \/ Write(s) \/ Written(s) \/ WriterSleeps(s)
  BY <1>3, WriterEndsKeeps, ToConnectKeeps, JoinReaderQuiet, WriteQuiet, WrittenQuiet, WriterSleepsQuiet
<1>4. ASSUME NEW t \in {R(s), W(s)}, LockToUnlist(t) \/ Unlist(t) \/ QueueReap(t)
      PROVE  MessengerInv'
  BY <1>4, LockToUnlistQuiet, UnlistQuiet, QueueReapKeeps
<1> QED
  BY <1>1, <1>2, <1>3, <1>4 DEF Runs

LEMMA StepKeeps ==
    ASSUME MessengerInv, [Next]_vars
    PROVE  MessengerInv'
<1>1. CASE UNCHANGED vars
  BY <1>1, StutterKeeps
<1>2. ASSUME NEW t \in Threads, NEW op \in Ops, Call(t, op) PROVE MessengerInv'
  BY <1>2, CallQuiet
<1>3. ASSUME NEW t \in Threads, Called(t) PROVE MessengerInv'
  BY <1>3, CalledKeeps
<1>4. CASE Accept \/ Reaps
  BY <1>4, AcceptKeeps, ReaperStartsQuiet, ReaperSleepsQuiet, ReapKeeps, JoinThreadsKeeps DEF Reaps
<1>5. ASSUME NEW s \in Sockets, Runs(s) \/ HandshakeFails(s) \/ NotOpened(s)
      PROVE  MessengerInv'
  BY <1>5, RunsKeep, HandshakeFailsEnds, NotOpenedKeeps
<1>6. ASSUME NEW s \in Sockets, ReadMessage(s) \/ ReadAck(s) \/ ReadFails(s) \/ Connects(s)
                                \/ ConnectFails(s) \/ WriteFails(s)
      PROVE  MessengerInv'
  BY <1>6, ReadMessageQuiet, ReadAckQuiet, ReadFailsKeeps, ConnectsKeeps, ConnectFailsKeeps,
     WriteFailsKeeps
<1> QED
  BY <1>1, <1>2, <1>3, <1>4, <1>5, <1>6 DEF Next

\* At the start one session is open, and registered.
LEMMA InitRefs ==
    ASSUME Init
    PROVE  RefsOK /\ Registering = None /\ Stopping = None /\ Joining = None
<1> USE DEF locks, lists, owners, flags, queues, stops, ghosts
<1>1. /\ mlock = Nobody /\ all = {1} /\ refs = [s \in Sockets |-> IF s = 1 THEN 2 ELSE 0]
      /\ conSocket = [c \in Sockets |-> IF c = 1 THEN 1 ELSE None]
      /\ \A t \in Threads : pc[t] \in {"idle", "reaper asleep", "read", "asleep", "none"}
      /\ pc[Reaper] = "reaper asleep"
  BY ThreadNames DEF Init
<1>2. \A t \in Threads : where[t] \in {"idle", "reaper", "read", "start", "none"}
  BY <1>1, WhereIs DEF Plain
<1>3. where[Reaper] = "reaper"
  BY <1>1, WhereIs, ThreadNames DEF Plain
<1>4. Registering = None /\ Stopping = None /\ Joining = None
  BY <1>1, <1>3 DEF Registering, Stopping, Joining
<1>5. ASSUME NEW s \in Sockets
      PROVE  refs[s] = Created(s) + Count(conSocket, Sockets, s) + Count(own, Threads, s)
  <2>1. s # None
    BY NoneIsNone
  <2>2. Created(s) = IF s = 1 THEN 1 ELSE 0
    BY <1>1, <1>4, <2>1 DEF Created
  <2>3. Count(own, Threads, s) = 0
    <3>1. ASSUME NEW t \in Threads PROVE own[t] = None
      <4>1. where[t] \notin {"lock to send", "await", "lock to stop"}
        BY <1>2
      <4> QED
        BY <4>1 DEF own, Owned
    <3>2. {t \in Threads : own[t] = s} = {}
      BY <2>1, <3>1
    <3> QED
      BY <3>2, FS_EmptySet DEF Count
  <2>4. Count(conSocket, Sockets, s) = IF s = 1 THEN 1 ELSE 0
    <3>1. CASE s = 1
      <4>1. {c \in Sockets : conSocket[c] = s} = {1}
        BY <1>1, <2>1, <3>1, OneSocket
      <4> QED
        BY <3>1, <4>1, FS_Singleton DEF Count
    <3>2. CASE s # 1
      <4>1. {c \in Sockets : conSocket[c] = s} = {}
        BY <1>1, <2>1, <3>2
      <4> QED
        BY <3>2, <4>1, FS_EmptySet DEF Count
    <3> QED
      BY <3>1, <3>2
  <2>5. refs[s] = IF s = 1 THEN 2 ELSE 0
    BY <1>1
  <2>6. CASE s = 1
    BY <2>2, <2>3, <2>4, <2>5, <2>6
  <2>7. CASE s # 1
    BY <2>2, <2>3, <2>4, <2>5, <2>7
  <2> QED
    BY <2>6, <2>7
<1> QED
  BY <1>4, <1>5 DEF RefsOK

LEMMA InitWhere ==
    ASSUME Init
    PROVE  /\ Locked /\ IsPc(pc)
           /\ \A s \in Sockets :
                 /\ where[R(s)] = IF s = 1 THEN "read" ELSE "none"
                 /\ where[W(s)] = IF s = 1 THEN "start" ELSE "none"
                 /\ at[R(s)] = s /\ at[W(s)] = s
           /\ \A t \in Threads : where[t] \in {"idle", "reaper", "read", "start", "none"}
           /\ at \in [Threads -> Sockets \cup {None}]
<1>1. /\ mlock = Nobody
      /\ pc = [t \in Threads |->
             IF t \in Apps THEN "idle" ELSE IF t = Reaper THEN "reaper asleep"
             ELSE IF t = R(1) THEN "read" ELSE IF t = W(1) THEN "asleep" ELSE "none"]
      /\ at = [t \in Threads |-> IF t[1] \in {"reader", "writer"} THEN t[2] ELSE None]
  BY DEF Init, locks
<1>2. IsPc(pc)
  BY <1>1 DEF IsPc
<1>3. ASSUME NEW s \in Sockets
      PROVE  /\ where[R(s)] = IF s = 1 THEN "read" ELSE "none"
             /\ where[W(s)] = IF s = 1 THEN "start" ELSE "none"
             /\ at[R(s)] = s /\ at[W(s)] = s
  <2>1. /\ R(s) \in Threads /\ W(s) \in Threads /\ R(s) \notin Apps /\ W(s) \notin Apps
        /\ R(s) # Reaper /\ W(s) # Reaper
    BY ThreadNames
  <2>2. R(s) # W(1) /\ W(s) # R(1) /\ (R(s) = R(1) <=> s = 1) /\ (W(s) = W(1) <=> s = 1)
    BY OneSocket, ThreadNames
  <2>3. pc[R(s)] = (IF s = 1 THEN "read" ELSE "none") /\ pc[W(s)] = (IF s = 1 THEN "asleep" ELSE "none")
    BY <1>1, <2>1, <2>2
  <2>4. at[R(s)] = s /\ at[W(s)] = s
    BY <1>1, <2>1 DEF R, W
  <2> QED
    BY <2>1, <2>3, <2>4, WhereIs DEF Plain
<1>4. ASSUME NEW t \in Threads
      PROVE  /\ IsAt(t, where[t]) /\ where[t] \in {"idle", "reaper", "read", "start", "none"}
             /\ at[t] \in Sockets \cup {None}
  <2>1. CASE t \in Apps
    <3>1. where[t] = "idle"
      BY <1>1, <2>1, WhereIs DEF Plain
    <3>2. t # Reaper /\ \A s \in Sockets : t # R(s) /\ t # W(s)
      BY <2>1, ThreadNames
    <3>3. at[t] = None
      <4>1. PICK i \in 1 .. NumApps : t = <<"app", i>>
        BY <2>1 DEF Apps
      <4>2. t[1] = "app"
        BY <4>1
      <4> QED
        BY <1>1, <4>2
    <3> QED
      BY <3>1, <3>2, <3>3 DEF IsAt, AppLabels
  <2>2. CASE t = Reaper
    <3>1. where[t] = "reaper"
      BY <1>1, <2>2, WhereIs, ThreadNames DEF Plain
    <3>2. t \notin Apps /\ \A s \in Sockets : t # R(s) /\ t # W(s)
      BY <2>2, ThreadNames
    <3>3. at[t] = None
      BY <1>1, <2>2 DEF Reaper
    <3> QED
      BY <2>2, <3>1, <3>2, <3>3 DEF IsAt, ReaperLabels
  <2>3. ASSUME NEW s \in Sockets, t = R(s) \/ t = W(s)
        PROVE  /\ IsAt(t, where[t]) /\ where[t] \in {"idle", "reaper", "read", "start", "none"}
               /\ at[t] \in Sockets \cup {None}
    <3>1. /\ t = R(s) => where[t] \in {"read", "none"}
          /\ t = W(s) => where[t] \in {"start", "none"}
          /\ at[t] = s
      BY <1>3, <2>3
    <3>2. IsAt(t, where[t])
      BY <2>3, <3>1, SessionAt DEF ReaderLabels, WriterLabels, Ended
    <3> QED
      BY <2>3, <3>1, <3>2
  <2> QED
    BY <2>1, <2>2, <2>3, ThreadNames
<1>5. at \in [Threads -> Sockets \cup {None}]
  BY <1>1, <1>4
<1>6. Locked
  <2>1. \A t \in Threads : where[t] \notin HasM /\ mlock # t
    BY <1>1, <1>4, ThreadNames DEF HasM
  <2> QED
    BY <1>1, <1>2, <1>4, <2>1 DEF Locked, IsPc
<1> QED
  BY <1>2, <1>3, <1>4, <1>5, <1>6

LEMMA InitKeeps ==
    ASSUME Init
    PROVE  MessengerInv
<1> USE DEF locks, lists, owners, flags, queues, stops, ghosts
<1>1. /\ Locked /\ IsPc(pc)
      /\ \A s \in Sockets :
            /\ where[R(s)] = IF s = 1 THEN "read" ELSE "none"
            /\ where[W(s)] = IF s = 1 THEN "start" ELSE "none"
            /\ at[R(s)] = s /\ at[W(s)] = s
      /\ \A t \in Threads : where[t] \in {"idle", "reaper", "read", "start", "none"}
      /\ at \in [Threads -> Sockets \cup {None}]
  BY InitWhere
<1>2. RefsOK /\ Registering = None /\ Stopping = None /\ Joining = None
  BY InitRefs
<1>3. /\ policy \in Policies /\ mlock = Nobody /\ slock = [s \in Sockets |-> Nobody]
      /\ using = [t \in Threads |-> None]
      /\ st = [s \in Sockets |-> IF s = 1 THEN "open" ELSE "none"]
      /\ rank = 1 /\ accepting = {} /\ all = {1}
      /\ refs = [s \in Sockets |-> IF s = 1 THEN 2 ELSE 0]
      /\ con = [s \in Sockets |-> s]
      /\ conSocket = [c \in Sockets |-> IF c = 1 THEN 1 ELSE None]
      /\ failed = [c \in Sockets |-> FALSE]
      /\ running = {R(1), W(1)} /\ dispatching = {} /\ notify = {}
      /\ unsent = [s \in Sockets |-> 0] /\ sent = [s \in Sockets |-> 0]
      /\ reapq = <<>> /\ undone = {}
  BY DEF Init
<1>4. 1 \in Sockets /\ R(1) \in Threads /\ W(1) \in Threads
  BY OneSocket, ThreadNames
<1>5. Queued = {} /\ NoTwice
  BY <1>3 DEF Queued, NoTwice
<1>6. Typed
  <2>1. /\ slock \in [Sockets -> Threads \cup {Nobody}] /\ failed \in [Sockets -> BOOLEAN]
        /\ st \in [Sockets -> {"none", "accepting", "connecting", "open", "standby", "closed"}]
        /\ using \in [Threads -> Sockets \cup {None}]
    BY <1>3
  <2>2. /\ con \in [Sockets -> Sockets] /\ conSocket \in [Sockets -> Sockets \cup {None}]
        /\ refs \in [Sockets -> Int] /\ unsent \in [Sockets -> Nat] /\ sent \in [Sockets -> Nat]
    BY <1>3, <1>4
  <2>3. rank \in Sockets /\ accepting \subseteq Sockets /\ all \subseteq Sockets /\ running \subseteq Threads
        /\ dispatching \subseteq Sockets /\ notify \subseteq Sockets
    BY <1>3, <1>4
  <2>4. reapq \in Seq(Sockets)
    BY <1>3
  <2> QED
    BY <1>1, <1>3, <2>1, <2>2, <2>3, <2>4 DEF Typed
<1>7. ASSUME NEW s \in Sockets PROVE Life(s)
  <2> PICK r, w, z : r = where[R(s)] /\ w = where[W(s)] /\ z = st[s]
    OBVIOUS
  <2>1. /\ r = (IF s = 1 THEN "read" ELSE "none") /\ w = (IF s = 1 THEN "start" ELSE "none")
        /\ z = (IF s = 1 THEN "open" ELSE "none") /\ at[R(s)] = s /\ at[W(s)] = s
    BY <1>1, <1>3
  <2>2. (R(s) \in running <=> s = 1) /\ (W(s) \in running <=> s = 1)
    BY <1>3, <1>4, ThreadNames
  <2>3. s \in all <=> s = 1
    BY <1>3
  <2>4. s \notin undone /\ s \notin accepting /\ s \notin Queued /\ s # None
    BY <1>3, <1>5, NoneIsNone
  <2>5. IsAlive(s, z, r, w)
    BY <2>1, <2>2, <2>3, <2>4 DEF IsAlive, Ended, Accepts, Unlists, Live
  <2>6. unsent[s] = 0 /\ sent[s] = 0
    BY <1>3
  <2>7. IsListed(s, z, r, w)
    BY <1>2, <1>3, <2>1, <2>3, <2>4, <2>6 DEF IsListed, Ended, Live
  <2> QED
    BY <2>5, <2>7 DEF Life
<1>8. ASSUME NEW c \in Sockets PROVE Conn(c)
  <2>1. /\ con[c] = c /\ conSocket[c] = (IF c = 1 THEN 1 ELSE None)
        /\ st[c] = (IF c = 1 THEN "open" ELSE "none")
    BY <1>3
  <2>2. IsUp(1) /\ con[1] = 1 /\ st[1] = "open"
    BY <1>3, <1>4 DEF IsUp, Live
  <2>3. Published(c) <=> c = 1
    BY <2>1 DEF Published
  <2>4. CASE c = 1
    BY <1>4, <2>1, <2>2, <2>4, NoneIsNone DEF Conn
  <2>5. CASE c # 1
    BY <2>1, <2>3, <2>5 DEF Conn
  <2> QED
    BY <2>4, <2>5
<1>9. ASSUME NEW t \in Threads PROVE Thr(t)
  <2> PICK l, s, c : l = where[t] /\ s = at[t] /\ c = using[t]
    OBVIOUS
  <2>1. l \in {"idle", "reaper", "read", "start", "none"} /\ c = None
    BY <1>1, <1>3
  <2>2. IsThr(t, l, s, c)
    BY <2>1 DEF IsThr
  <2> QED
    BY <2>2 DEF Thr
<1> QED
  BY <1>1, <1>2, <1>5, <1>6, <1>7, <1>8, <1>9 DEF MessengerInv

LEMMA MessengerInvHolds == Spec => []MessengerInv
<1>1. Init => MessengerInv
  BY InitKeeps
<1>2. MessengerInv /\ [Next]_vars => MessengerInv'
  BY StepKeeps
<1> QED
  BY <1>1, <1>2, PTL DEF Spec

-----------------------------------------------------------------------------
(* What follows                                                            *)

\* Who registers a socket has the lock, and only the reaper joins threads.
LEMMA Marked ==
    ASSUME MessengerInv, NEW t \in Threads
    PROVE  /\ where[t] = "register" => Registering = at[t]
           /\ where[t] \in {"lock to stop", "lock to stop all"} => Stopping = at[t]
           /\ where[t] = "join threads" => t = Reaper /\ Joining = at[t]
<1>1. IsAt(t, where[t]) /\ (where[t] \in HasM => mlock = t) /\ t # Nobody
  BY Actor, ThreadNames DEF Locked
<1>2. where[t] = "register" => Registering = at[t]
  BY <1>1 DEF HasM, Registering
<1>3. where[t] \in {"lock to stop", "lock to stop all"} => Stopping = at[t]
  BY <1>1 DEF HasM, Stopping
<1>4. where[t] = "join threads" => t = Reaper
  <2> PICK l : l = where[t]
    OBVIOUS
  <2>1. "join threads" \notin AppLabels \cup ReaderLabels \cup WriterLabels
    BY DEF AppLabels, ReaderLabels, WriterLabels, CallLabels, Accepts, Ended, Unlists
  <2> QED
    BY <1>1, <2>1, ThreadNames DEF IsAt
<1> QED
  BY <1>2, <1>3, <1>4 DEF Joining

LEMMA Markers ==
    ASSUME MessengerInv, NEW s \in Sockets
    PROVE  /\ s = Registering => \E t \in Threads : where[t] = "register" /\ at[t] = s
           /\ s = Stopping => \E t \in Threads : where[t] \in {"lock to stop", "lock to stop all"} /\ at[t] = s
           /\ s = Joining => \E t \in Threads : where[t] = "join threads" /\ at[t] = s
<1>1. s # None /\ mlock \in Threads \cup {Nobody} /\ Reaper \in Threads
  BY NoneIsNone, ThreadNames DEF MessengerInv, Locked
<1>2. s = Registering => mlock \in Threads /\ where[mlock] = "register" /\ at[mlock] = s
  BY <1>1 DEF Registering
<1>3. s = Stopping => mlock \in Threads /\ where[mlock] \in {"lock to stop", "lock to stop all"} /\ at[mlock] = s
  BY <1>1 DEF Stopping
<1>4. s = Joining => where[Reaper] = "join threads" /\ at[Reaper] = s
  BY <1>1 DEF Joining
<1> QED
  BY <1>1, <1>2, <1>3, <1>4

\* Counts are numbers, and not zero when there is something to count.
LEMMA CountOf ==
    ASSUME NEW f, NEW S, IsFiniteSet(S), NEW x
    PROVE  Count(f, S, x) \in Nat /\ \A d \in S : f[d] = x => Count(f, S, x) > 0
<1> PICK T : T = {d \in S : f[d] = x}
  OBVIOUS
<1>1. IsFiniteSet(T)
  BY FS_Subset
<1>2. Cardinality(T) \in Nat
  BY <1>1, FS_CardinalityType
<1>3. T # {} => Cardinality(T) # 0
  BY <1>1, FS_EmptySet
<1>4. Count(f, S, x) = Cardinality(T)
  BY DEF Count
<1>5. ASSUME NEW d \in S, f[d] = x PROVE T # {}
  BY <1>5
<1> QED
  BY <1>2, <1>3, <1>4, <1>5

LEMMA RefsAre ==
    ASSUME MessengerInv, NEW s \in Sockets
    PROVE  /\ refs[s] \in Nat
           /\ s \in all \cup {Registering, Joining} => refs[s] > 0
           /\ \A t \in Threads : own[t] = s => refs[s] > 0
<1> PICK a, b, c : a = Created(s) /\ b = Count(conSocket, Sockets, s) /\ c = Count(own, Threads, s)
  OBVIOUS
<1>1. refs[s] = a + b + c
  BY DEF MessengerInv, RefsOK
<1>2. a \in {0, 1} /\ (s \in all \cup {Registering, Joining} => a = 1)
  BY DEF Created
<1>3. b \in Nat /\ c \in Nat /\ \A t \in Threads : own[t] = s => c > 0
  BY CountOf, Finite
<1>4. refs[s] \in Nat
  BY <1>1, <1>2, <1>3
<1>5. s \in all \cup {Registering, Joining} => refs[s] > 0
  BY <1>1, <1>2, <1>3
<1>6. ASSUME NEW t \in Threads, own[t] = s PROVE refs[s] > 0
  BY <1>1, <1>2, <1>3, <1>6
<1> QED
  BY <1>4, <1>5, <1>6

LEMMA InvTypeOK ==
    ASSUME MessengerInv
    PROVE  TypeOK
<1>1. Typed /\ mlock \in Threads \cup {Nobody}
  BY DEF MessengerInv, Locked
<1>2. accepting \subseteq all
  BY <1>1 DEF Typed, MessengerInv, Life, IsListed
<1>3. refs \in [Sockets -> Nat]
  BY <1>1, RefsAre DEF Typed
<1>4. running \cup {R(s) : s \in dispatching \cup notify} \subseteq Threads
  BY <1>1, ThreadNames DEF Typed
<1> QED
  BY <1>1, <1>2, <1>3, <1>4 DEF Typed, TypeOK

\* The owners that are threads are those that have a reference.
LEMMA ThreadOwns ==
    ASSUME MessengerInv, NEW t \in Threads, NEW s \in Sockets
    PROVE  own[t] = s <=> /\ at[t] = s
                          /\ \/ pc[t] \in {"lock to send", "await", "await again"}
                             \/ pc[t] = "lock to stop" /\ using[t] # None
<1> PICK p, l, a, c : p = pc[t] /\ l = where[t] /\ a = at[t] /\ c = using[t]
  OBVIOUS
<1>1. own[t] = Owned(l, a, c) /\ l = Plain(p) /\ s # None
  BY Actor, NoneIsNone
<1>2. /\ l = "lock to send" <=> p = "lock to send"
      /\ l = "lock to stop" <=> p = "lock to stop"
      /\ l = "await" <=> p \in {"await", "await again"}
  BY <1>1 DEF Plain
<1>3. Owned(l, a, c) = s <=> a = s /\ (l \in {"lock to send", "await"} \/ (l = "lock to stop" /\ c # None))
  BY <1>1 DEF Owned
<1> QED
  BY <1>1, <1>2, <1>3

LEMMA InvRefsExact ==
    ASSUME MessengerInv
    PROVE  RefsExact
<1>1. ASSUME NEW s \in Sockets PROVE refs[s] = Owners(s)
  <2> DEFINE Listed == s \in all \/ \E t \in Threads : pc[t] \in {"register", "join threads"} /\ at[t] = s
             Thread(t) == at[t] = s /\ \/ pc[t] \in {"lock to send", "await", "await again"}
                                       \/ pc[t] = "lock to stop" /\ using[t] # None
  <2>1. Listed <=> s \in all \cup {Registering, Joining}
    <3>1. \A t \in Threads : pc[t] \in {"register", "join threads"} <=> where[t] \in {"register", "join threads"}
      BY WhereIs DEF Plain
    <3>2. ASSUME NEW t \in Threads, where[t] \in {"register", "join threads"}, at[t] = s
          PROVE  s \in {Registering, Joining}
      BY <3>2, Marked
    <3>3. ASSUME s = Registering
          PROVE  \E t \in Threads : where[t] \in {"register", "join threads"} /\ at[t] = s
      <4>1. PICK t \in Threads : where[t] = "register" /\ at[t] = s
        BY <3>3, Markers
      <4> QED
        BY <4>1
    <3>4. ASSUME s = Joining
          PROVE  \E t \in Threads : where[t] \in {"register", "join threads"} /\ at[t] = s
      <4>1. PICK t \in Threads : where[t] = "join threads" /\ at[t] = s
        BY <3>4, Markers
      <4> QED
        BY <4>1
    <3> QED
      BY <3>1, <3>2, <3>3, <3>4
  <2>2. {t \in Threads : own[t] = s} = {t \in Threads : Thread(t)}
    BY ThreadOwns
  <2>3. Created(s) = IF Listed THEN 1 ELSE 0
    BY <2>1 DEF Created
  <2>4. Owners(s) = (IF Listed THEN 1 ELSE 0) + Cardinality({c \in Sockets : conSocket[c] = s})
                      + Cardinality({t \in Threads : Thread(t)})
    BY DEF Owners
  <2> HIDE DEF Listed, Thread
  <2>5. refs[s] = Created(s) + Count(conSocket, Sockets, s) + Count(own, Threads, s)
    BY DEF MessengerInv, RefsOK
  <2> QED
    BY <2>2, <2>3, <2>4, <2>5 DEF Count
<1> QED
  BY <1>1, InvTypeOK DEF RefsExact

LEMMA InvNoUseAfterFree ==
    ASSUME MessengerInv
    PROVE  NoUseAfterFree
<1>1. ASSUME NEW s \in Sockets, ~(refs[s] > 0)
      PROVE  /\ rank # s /\ s \notin all /\ \A i \in DOMAIN reapq : reapq[i] # s
             /\ unsent[s] = 0 /\ sent[s] = 0
             /\ pc[R(s)] \in {"none", "done"} /\ pc[W(s)] \in {"none", "done"}
  <2> PICK r, w, z : r = where[R(s)] /\ w = where[W(s)] /\ z = st[s]
    OBVIOUS
  <2>1. IsListed(s, z, r, w) /\ R(s) \in Threads /\ W(s) \in Threads
    BY Session DEF Life
  <2>2. s \notin all /\ s # Registering
    BY <1>1, RefsAre
  <2>3. s # rank /\ s \notin Queued /\ unsent[s] = 0 /\ sent[s] = 0
    BY <2>1, <2>2 DEF IsListed
  <2>4. r \in {"none", "done"} /\ w \in {"none", "done"}
    BY <2>1, <2>2 DEF IsListed, Ended
  <2>5. pc[R(s)] \in {"none", "done"} /\ pc[W(s)] \in {"none", "done"}
    BY <2>1, <2>4, WhereIs DEF Plain
  <2> QED
    BY <2>2, <2>3, <2>5 DEF Queued
<1>2. ASSUME NEW t \in Threads, pc[t] \in AtWork, at[t] # None
      PROVE  refs[at[t]] > 0
  <2> PICK s, l, c : s = at[t] /\ l = where[t] /\ c = using[t]
    OBVIOUS
  <2>1. /\ s \in Sockets /\ IsThr(t, l, s, c) /\ IsAt(t, l) /\ own[t] = Owned(l, s, c) /\ l = Plain(pc[t])
    BY <1>2, Actor DEF Locked
  <2>2. l \in {"lock to send", "register", "lock to stop", "lock to stop all", "lock old", "await",
               "replace", "open", "unlist", "join threads"}
    BY <1>2, <2>1 DEF AtWork, Plain
  <2>3. CASE l \in {"lock to send", "await"}
    <3>1. own[t] = s
      BY <2>1, <2>3 DEF Owned
    <3> QED
      BY <2>1, <3>1, RefsAre
  <2>4. CASE l \in {"lock to stop", "lock to stop all", "lock old", "replace", "open"}
    <3>1. s \in all
      BY <1>2, <2>1, <2>4 DEF IsThr
    <3> QED
      BY <2>1, <3>1, RefsAre
  <2>5. CASE l \in {"register", "join threads"}
    <3>1. s \in {Registering, Joining}
      BY <2>5, Marked
    <3> QED
      BY <2>1, <3>1, RefsAre
  <2>6. CASE l = "unlist"
    <3>1. "unlist" \notin AppLabels \cup ReaperLabels
      BY DEF AppLabels, ReaperLabels, CallLabels
    <3>2. PICK x \in Sockets : t \in {R(x), W(x)}
      BY <2>1, <2>6, <3>1, ThreadNames DEF IsAt
    <3>3. s = x
      BY <2>6, <3>2, Unlister DEF Unlists
    <3> PICK r, w, z : r = where[R(x)] /\ w = where[W(x)] /\ z = st[x]
      OBVIOUS
    <3>4. IsListed(x, z, r, w) /\ "unlist" \in {r, w}
      BY <2>6, <3>2, Session DEF Life
    <3>5. x \in all \/ x = Registering
      BY <3>4 DEF IsListed, Ended
    <3> QED
      BY <3>3, <3>5, RefsAre
  <2> QED
    BY <2>2, <2>3, <2>4, <2>5, <2>6
<1> QED
  BY <1>1, <1>2 DEF NoUseAfterFree

LEMMA InvRegistered ==
    ASSUME MessengerInv
    PROVE  Registered
<1> SUFFICES ASSUME NEW s \in Sockets, st[s] \in {"connecting", "open", "standby"}
             PROVE  \/ rank = s \/ s \in undone
                    \/ \E t \in Threads :
                          pc[t] \in {"register", "lock to stop", "lock to stop all"} /\ at[t] = s
  BY DEF Registered
<1>1. s \in undone \cup {rank, Registering, Stopping}
  <2>1. Life(s)
    BY DEF MessengerInv
  <2> QED
    BY <2>1 DEF Life, IsListed, Live
<1>2. ASSUME s \in {Registering, Stopping}
      PROVE  \E t \in Threads : pc[t] \in {"register", "lock to stop", "lock to stop all"} /\ at[t] = s
  <2>1. PICK t \in Threads : where[t] \in {"register", "lock to stop", "lock to stop all"} /\ at[t] = s
    <3>1. CASE s = Registering
      <4>1. PICK t \in Threads : where[t] = "register" /\ at[t] = s
        BY <3>1, Markers
      <4> QED
        BY <4>1
    <3>2. CASE s = Stopping
      <4>1. PICK t \in Threads : where[t] \in {"lock to stop", "lock to stop all"} /\ at[t] = s
        BY <3>2, Markers
      <4> QED
        BY <4>1
    <3> QED
      BY <1>2, <3>1, <3>2
  <2>2. pc[t] \in {"register", "lock to stop", "lock to stop all"}
    BY <2>1, WhereIs DEF Plain
  <2> QED
    BY <2>1, <2>2
<1> QED
  BY <1>1, <1>2

-----------------------------------------------------------------------------
(* Theorems                                                                *)

\* For any number of threads and sockets, in every state: a socket has as many
\* references as it has owners.  No path of send, mark down, accept, replace,
\* fault or reap drops a reference twice, forgets one, or takes one from who
\* still needs it.
THEOREM ReferencesBalance == Spec => []RefsExact
<1>1. MessengerInv => RefsExact
  BY InvRefsExact
<1> QED
  BY <1>1, MessengerInvHolds, PTL

\* No list of the messenger names a socket that is freed, and no thread runs, or
\* is at work, on one: the reaper joins the threads of a socket, and the lists let
\* go of it, before its last reference goes.
THEOREM NothingFreedIsUsed == Spec => []NoUseAfterFree
<1>1. MessengerInv => NoUseAfterFree
  BY InvNoUseAfterFree
<1> QED
  BY <1>1, MessengerInvHolds, PTL

\* A session that lives (connecting, open or in standby) is the one that the next
\* message to its peer finds, or a thread is about to register it, or to stop it;
\* or it is one that connecting() opened after it was marked down (`undone', the
\* lapse of socket.cpp:639 that the run session_markdown is about).
THEOREM LivingIsRegistered == Spec => []Registered
<1>1. MessengerInv => Registered
  BY InvRegistered
<1> QED
  BY <1>1, MessengerInvHolds, PTL
=============================================================================
