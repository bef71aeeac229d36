------------------------------ MODULE Messenger ------------------------------
(***************************************************************************)
(* The life of the sockets of a SimpleMessenger: who creates, registers,   *)
(* closes, reaps and frees them, under which locks.  One peer.  The steps  *)
(* are what a thread does between two operations on a lock or a condition  *)
(* variable.                                                               *)
(*                                                                         *)
(* A socket has a reader and a writer.  They use it without a reference:   *)
(* the reaper joins them before it drops the reference of the creator.     *)
(* Other references are those of connections (_socket) and of threads that *)
(* send through a connection.  The messenger's lock is `mlock', the locks  *)
(* of the sockets are `slock'; accepting() alone takes the first while it  *)
(* holds one of the second.                                                *)
(*                                                                         *)
(* What the peers say to each other, and what becomes of messages on the   *)
(* way, is in SocketSession.                                               *)
(***************************************************************************)
EXTENDS Integers, Sequences, FiniteSets

CONSTANTS
  NumSockets,   \* bound: sockets created in all; the first is there at the start
  NumApps,      \* bound: threads of the application that call the messenger
  MaxCalls,     \* bound: calls made, those of fast dispatching included
  MaxEvents,    \* bound: messages read, connections broken, connections accepted
  Ops,          \* the calls the application makes
  Policies      \* policies for the peer

ASSUME MessengerAssumption ==
  /\ NumSockets \in Nat \ {0} /\ NumApps \in Nat /\ MaxCalls \in Nat /\ MaxEvents \in Nat
  /\ Policies \subseteq [lossy : BOOLEAN, server : BOOLEAN, standby : BOOLEAN]
  /\ Ops \subseteq {"send to", "send on", "mark down", "mark down on", "shutdown", "wait"}

Sockets == 1 .. NumSockets
None == 0
R(s) == <<"reader", s>>
W(s) == <<"writer", s>>
Reaper == <<"reaper", 1>>
Apps == {<<"app", i>> : i \in 1 .. NumApps}
Threads == Apps \cup {Reaper} \cup {R(s) : s \in Sockets} \cup {W(s) : s \in Sockets}
Nobody == <<"nobody", 0>>

VARIABLES
  policy,       \* the policy for the peer
  mlock, slock, \* the threads that hold SimpleMessenger::_lock and each Socket::_lock
  pc, at,       \* where each thread is, and the socket it is about there
  using,        \* the connection it sends on
  st,           \* Socket::_state
  rank,         \* _rank_socket: the socket registered for the peer
  accepting, all, \* _accepting_sockets, _sockets
  refs,         \* the reference count of each socket
  con,          \* Socket::_connection_state; a connection is named by its first socket
  conSocket, failed, \* SocketConnection::_socket, _failed
  running,      \* _reader_running, _writer_running: the threads for which it is set
  dispatching, notify, \* _reader_dispatching, _notify_on_dispatch_done
  unsent, sent, \* how many messages are in _out_q and in _sent
  reapq,        \* _socket_reap_queue
  stopped, dqStop, reaperStop, \* _stopped, DispatchQueue::_stop, _reaper_stop
  calls, events, \* bounds
  undone        \* sockets that connecting() opened after they were closed

locks == <<mlock, slock>>
lists == <<rank, accepting, all>>
owners == <<refs, con, conSocket, failed>>
flags == <<running, dispatching, notify>>
queues == <<unsent, sent>>
stops == <<stopped, dqStop, reaperStop>>
ghosts == <<calls, events, undone>>
vars == <<policy, locks, pc, at, using, st, lists, owners, flags, queues, reapq, stops, ghosts>>

(***************************************************************************)
(* Locks, condition variables, references.                                 *)
(***************************************************************************)
At(t, label) == pc[t] = label
Go(t, label) == pc' = [pc EXCEPT ![t] = label]
TakeM(t) == mlock = Nobody /\ mlock' = t
Take(t, s) == slock[s] = Nobody /\ slock' = [slock EXCEPT ![s] = t]
Pass(s) == slock[s] = Nobody /\ UNCHANGED slock        \* taken and given back
PassM == mlock = Nobody /\ UNCHANGED mlock
Give(s) == slock' = [slock EXCEPT ![s] = Nobody]
GiveM(t) == mlock' = IF mlock = t THEN Nobody ELSE mlock

\* A signal wakes one of the threads asleep on _cond of s, if there are any, and it
\* takes the lock again; meanwhile t goes on at `label'.
Sleepers(s) == {t \in Threads : pc[t] \in {"asleep", "await"} /\ at[t] = s}
Awake(l) == IF l = "await" THEN "await again" ELSE "start"
GoWaking(t, label, woken) ==
  pc' = [x \in Threads |->
           IF x = t THEN label ELSE IF x \in woken THEN Awake(pc[x]) ELSE pc[x]]
GoSignal(t, label, s) ==
  \/ Sleepers(s) = {} /\ Go(t, label)
  \/ \E u \in Sleepers(s) : GoWaking(t, label, {u})

\* SocketConnection::clear_socket(), get_socket(), reset_socket()
ClearWithoutDec(c, s) ==                \* (mutant) the reference is not given back
  IF conSocket[c] = s
  THEN /\ conSocket' = [conSocket EXCEPT ![c] = None]
       /\ failed' = [failed EXCEPT ![c] = TRUE] /\ UNCHANGED refs
  ELSE UNCHANGED <<refs, conSocket, failed>>
ClearSocket(c, s) ==
  IF conSocket[c] = s
  THEN /\ refs' = [refs EXCEPT ![s] = @ - 1]
       /\ conSocket' = [conSocket EXCEPT ![c] = None]
       /\ failed' = [failed EXCEPT ![c] = TRUE]
  ELSE UNCHANGED <<refs, conSocket, failed>>
Get(s) == refs' = [refs EXCEPT ![s] = @ + 1]
Dec(s) == refs' = [refs EXCEPT ![s] = @ - 1]
Reset(r, c, s, n) ==                    \* _socket of c becomes s, which then has n more
  [x \in Sockets |-> r[x] + (IF x = s THEN n ELSE 0) - (IF x = conSocket[c] THEN 1 ELSE 0)]

unregister_any(s) ==                    \* (mutant) whichever socket has the address
  rank' = None /\ accepting' = accepting \ {s}
unregister_socket(s) ==
  IF rank = s THEN rank' = None /\ UNCHANGED accepting
  ELSE accepting' = accepting \ {s} /\ UNCHANGED rank
lookup_socket == IF rank # None /\ st[rank] # "closed" THEN rank ELSE None

New == {s \in Sockets : st[s] = "none" /\ \A x \in 1 .. s - 1 : st[x] # "none"}
\* those left for threads that may come to connect
Spare ==
  LET Sending == {t \in Threads : pc[t] = "send to" \/ (mlock = t /\ pc[t] \in
                                    {"resolve", "lock to send", "unsent", "connect"})}
  IN  Cardinality({s \in Sockets : st[s] = "none"}) > Cardinality(Sending)

(***************************************************************************)
(* Calls, of the application or of a message that is dispatched fast.      *)
(***************************************************************************)
Return(t) == IF t \in Apps THEN "idle" ELSE "dispatched"
MayCall(t) == At(t, "idle") \/ At(t, "callback")

Call(t, op) ==
  /\ MayCall(t) /\ calls < MaxCalls /\ op \in Ops
  /\ (op = "send to" => Spare) /\ (op = "wait" => t \in Apps)
  /\ \E c \in {con[s] : s \in {x \in Sockets : st[x] \notin {"none", "accepting"}}} :
        using' = [using EXCEPT ![t] = IF op \in {"send on", "mark down on"} THEN c ELSE None]
  /\ Go(t, op)
  /\ calls' = calls + 1
  /\ UNCHANGED <<policy, locks, at, st, lists, owners, flags, queues, reapq, stops, events, undone>>

\* send_message() to an address
SendTo(t) ==
  /\ At(t, "send to") /\ TakeM(t)
  /\ using' = [using EXCEPT ![t] = IF lookup_socket = None THEN None ELSE con[lookup_socket]]
  /\ Go(t, IF lookup_socket = None THEN "unsent" ELSE "resolve")
  /\ UNCHANGED <<policy, slock, at, st, lists, owners, flags, queues, reapq, stops, ghosts>>

\* submit_message(): try_get_socket(); the message is dropped if the connection failed
TryGetSocket(t) ==
  /\ pc[t] \in {"resolve", "send on"}
  /\ IF failed[using[t]]
     THEN /\ GiveM(t) /\ Go(t, Return(t))
          /\ UNCHANGED <<at, refs>>
     ELSE /\ at' = [at EXCEPT ![t] = conSocket[using[t]]]
          /\ Get(conSocket[using[t]]) /\ Go(t, "lock to send")
          /\ UNCHANGED mlock
  /\ UNCHANGED <<policy, slock, using, st, lists, con, conSocket, failed, flags, queues, reapq,
                 stops, ghosts>>

Submit(t) ==
  LET s == at[t] IN
  /\ At(t, "lock to send") /\ Pass(s) /\ st[s] # "closed"
  /\ unsent' = [unsent EXCEPT ![s] = @ + 1]
  /\ Dec(s) /\ GoSignal(t, Return(t), s) /\ GiveM(t)
  /\ UNCHANGED <<policy, at, using, st, lists, con, conSocket, failed, flags, sent, reapq, stops,
                 ghosts>>

\* the socket is closed: the message goes to the one that took its place, if any did
SubmitClosed(t) ==
  LET s == at[t]
      current == IF failed[using[t]] THEN None ELSE conSocket[using[t]]
  IN
  /\ At(t, "lock to send") /\ Pass(s) /\ st[s] = "closed"
  /\ refs' = [x \in Sockets |-> refs[x] - (IF x = s THEN 1 ELSE 0)
                                   + (IF x = current /\ x # s THEN 1 ELSE 0)]
  /\ at' = [at EXCEPT ![t] = current]
  /\ IF current = s THEN GiveM(t) /\ Go(t, Return(t))
     ELSE Go(t, IF current = None THEN "unsent" ELSE "lock to send") /\ UNCHANGED mlock
  /\ UNCHANGED <<policy, using, st, lists, con, conSocket, failed, flags, queues, reapq, stops,
                 ghosts>>

\* no socket: a server drops the message, others connect, under the messenger's lock
Unsent(t) ==
  /\ At(t, "unsent")
  /\ IF policy.server THEN GiveM(t) /\ Go(t, Return(t))
     ELSE UNCHANGED mlock /\ Go(t, IF mlock = t THEN "connect" ELSE "lock to resolve")
  /\ UNCHANGED <<policy, slock, at, using, st, lists, owners, flags, queues, reapq, stops, ghosts>>

LockToResolve(t) ==
  /\ At(t, "lock to resolve") /\ TakeM(t) /\ Go(t, "resolve")
  /\ UNCHANGED <<policy, slock, at, using, st, lists, owners, flags, queues, reapq, stops, ghosts>>

\* connect_rank(): a socket, for the connection in use if there is one, and its writer
ConnectRank(t) ==
  \E s \in New :
    LET c == IF using[t] = None THEN s ELSE using[t] IN
    /\ At(t, "connect")
    /\ st' = [st EXCEPT ![s] = "connecting"]
    /\ refs' = Reset(refs, c, s, 2)
    /\ con' = [con EXCEPT ![s] = c] /\ conSocket' = [conSocket EXCEPT ![c] = s]
    /\ unsent' = [unsent EXCEPT ![s] = 1]
    /\ running' = running \cup {W(s)}
    /\ pc' = [pc EXCEPT ![t] = "register", ![W(s)] = "start"]
    /\ at' = [at EXCEPT ![t] = s]
    /\ UNCHANGED <<policy, locks, using, lists, failed, dispatching, notify, sent, reapq, stops,
                   ghosts>>

Register(t) ==
  /\ At(t, "register")
  /\ rank' = at[t] /\ all' = all \cup {at[t]}
  /\ GiveM(t) /\ Go(t, Return(t))
  /\ UNCHANGED <<policy, slock, at, using, st, accepting, owners, flags, queues, reapq, stops,
                 ghosts>>

\* mark_down(), of an address and of a connection
MarkDown(t) ==
  /\ At(t, "mark down")
  /\ IF lookup_socket = None
     THEN PassM /\ Go(t, Return(t)) /\ UNCHANGED <<at, rank, accepting>>
     ELSE /\ TakeM(t) /\ at' = [at EXCEPT ![t] = rank]
          /\ unregister_socket(rank) /\ Go(t, "lock to stop")
  /\ UNCHANGED <<policy, slock, using, st, all, owners, flags, queues, reapq, stops, ghosts>>

MarkDownOn(t) ==
  LET s == conSocket[using[t]] IN
  /\ At(t, "mark down on")
  /\ IF s = None
     THEN PassM /\ Go(t, Return(t)) /\ UNCHANGED <<at, rank, accepting, refs>>
     ELSE /\ TakeM(t) /\ at' = [at EXCEPT ![t] = s]
          /\ Get(s) /\ unregister_socket(s) /\ Go(t, "lock to stop")
  /\ UNCHANGED <<policy, slock, using, st, all, con, conSocket, failed, flags, queues, reapq,
                 stops, ghosts>>

StopIt(t) ==
  LET s == at[t]
      held == IF using[t] = None THEN 0 ELSE 1
      cleared == IF conSocket[con[s]] = s THEN 1 ELSE 0
  IN
  /\ At(t, "lock to stop") /\ Pass(s)
  /\ st' = [st EXCEPT ![s] = "closed"]
  /\ refs' = [refs EXCEPT ![s] = @ - held - cleared]
  /\ conSocket' = IF cleared = 1 THEN [conSocket EXCEPT ![con[s]] = None] ELSE conSocket
  /\ failed' = IF cleared = 1 THEN [failed EXCEPT ![con[s]] = TRUE] ELSE failed
  /\ GoSignal(t, Return(t), s) /\ GiveM(t)
  /\ UNCHANGED <<policy, at, using, lists, con, flags, queues, reapq, stops, ghosts>>

(***************************************************************************)
(* shutdown() and wait().                                                  *)
(***************************************************************************)
Shutdown(t) ==
  /\ At(t, "shutdown") /\ TakeM(t) /\ Go(t, "mark all")
  /\ UNCHANGED <<policy, slock, at, using, st, lists, owners, flags, queues, reapq, stops, ghosts>>

\* mark_down_all(): the accepting sockets, then those that are registered
MarkAll(t) ==
  /\ At(t, "mark all")
  /\ \/ \E s \in accepting :
          /\ at' = [at EXCEPT ![t] = s] /\ accepting' = accepting \ {s}
          /\ Go(t, "lock to stop all") /\ UNCHANGED <<mlock, rank>>
     \/ /\ accepting = {} /\ rank # None
        /\ at' = [at EXCEPT ![t] = rank] /\ rank' = None
        /\ Go(t, "lock to stop all") /\ UNCHANGED <<mlock, accepting>>
     \/ /\ accepting = {} /\ rank = None
        /\ GiveM(t) /\ Go(t, "stop") /\ UNCHANGED <<at, rank, accepting>>
  /\ UNCHANGED <<policy, slock, using, st, all, owners, flags, queues, reapq, stops, ghosts>>

StopOneOfAll(t) ==
  LET s == at[t] IN
  /\ At(t, "lock to stop all") /\ Pass(s)
  /\ st' = [st EXCEPT ![s] = "closed"]
  /\ ClearSocket(con[s], s) /\ GoSignal(t, "mark all", s)
  /\ UNCHANGED <<policy, mlock, at, using, lists, con, flags, queues, reapq, stops, ghosts>>

Stop(t) ==
  LET waiting == {u \in Threads : pc[u] = "wait asleep"} IN
  /\ At(t, "stop") /\ PassM
  /\ stopped' = TRUE
  /\ \/ waiting = {} /\ Go(t, Return(t))
     \/ \E u \in waiting : pc' = [pc EXCEPT ![t] = Return(t), ![u] = "wait awake"]
  /\ UNCHANGED <<policy, slock, at, using, st, lists, owners, flags, queues, reapq, dqStop,
                 reaperStop, ghosts>>

Wait(t) ==
  /\ pc[t] \in {"wait", "wait awake"} /\ PassM
  /\ Go(t, IF pc[t] = "wait awake" \/ stopped THEN "end dispatching" ELSE "wait asleep")
  /\ UNCHANGED <<policy, slock, at, using, st, lists, owners, flags, queues, reapq, stops, ghosts>>

\* the accepter is stopped, the dispatch queue is shut down and waited for
EndDispatching(t) ==
  /\ At(t, "end dispatching") /\ dqStop' = TRUE /\ Go(t, "end reaper")
  /\ UNCHANGED <<policy, locks, at, using, st, lists, owners, flags, queues, reapq, stopped,
                 reaperStop, ghosts>>

\* ... and the reaper is told to end, and joined, with the messenger's lock held.
EndReaper(t) ==
  /\ At(t, "end reaper") /\ TakeM(t)
  /\ reaperStop' = TRUE
  /\ pc' = [pc EXCEPT ![t] = "join reaper",
                      ![Reaper] = IF @ = "reaper asleep" THEN "reaper" ELSE @]
  /\ UNCHANGED <<policy, slock, at, using, st, lists, owners, flags, queues, reapq, stopped, dqStop,
                 ghosts>>

(***************************************************************************)
(* Accepting a connection.                                                 *)
(***************************************************************************)
Accept ==
  \E s \in New :
    /\ PassM /\ ~dqStop /\ Spare /\ events < MaxEvents
    /\ st' = [st EXCEPT ![s] = "accepting"]
    /\ refs' = [refs EXCEPT ![s] = 2]
    /\ con' = [con EXCEPT ![s] = s] /\ conSocket' = [conSocket EXCEPT ![s] = s]
    /\ running' = running \cup {R(s)} /\ Go(R(s), "start")
    /\ all' = all \cup {s} /\ accepting' = accepting \cup {s}
    /\ events' = events + 1
    /\ UNCHANGED <<policy, locks, at, using, rank, failed, dispatching, notify, queues, reapq,
                   stops, calls, undone>>

\* What t does from the lock of s on; s keeps it from loop to loop.
Holds(t, s) == slock[s] = t \/ (slock[s] = Nobody /\ pc[t] \notin {"loop", "connecting"})
Keep(t, s) == slock' = [slock EXCEPT ![s] = t]

\* the peer's banner, address and connect message, read with the lock of s held
Handshake(s) ==
  /\ At(R(s), "start") /\ st[s] = "accepting"
  /\ Take(R(s), s) /\ Go(R(s), "handshake")
  /\ UNCHANGED <<policy, mlock, at, using, st, lists, owners, flags, queues, reapq, stops, ghosts>>

HandshakeFails(s) ==                                    \* accept_fail()
  /\ At(R(s), "handshake")
  /\ st' = [st EXCEPT ![s] = "closed"]
  /\ ClearSocket(con[s], s) /\ Go(R(s), "loop")
  /\ UNCHANGED <<policy, locks, at, using, lists, con, flags, queues, reapq, stops, ghosts>>

LockMessenger(s) ==
  /\ At(R(s), "handshake")
  /\ IF dqStop
     THEN /\ PassM /\ st' = [st EXCEPT ![s] = "closed"]
          /\ ClearSocket(con[s], s) /\ Go(R(s), "loop") /\ UNCHANGED at
     ELSE /\ TakeM(R(s))
          /\ at' = [at EXCEPT ![R(s)] = lookup_socket]
          /\ Go(R(s), IF lookup_socket = None THEN "open" ELSE "lock old")
          /\ UNCHANGED <<st, refs, conSocket, failed>>
  /\ UNCHANGED <<policy, slock, using, lists, con, flags, queues, reapq, stops, ghosts>>

\* a socket is registered for the peer: its reader must not be in a callback
LockOld(s) ==
  LET old == at[R(s)] IN
  /\ At(R(s), "lock old")
  /\ IF old \in dispatching
     THEN /\ Pass(old) /\ Get(old)
          /\ notify' = notify \cup {old} /\ Go(R(s), "await")
     ELSE Take(R(s), old) /\ Go(R(s), "replace") /\ UNCHANGED <<refs, notify>>
  /\ UNCHANGED <<policy, mlock, at, using, st, lists, con, conSocket, failed, running, dispatching,
                 queues, reapq, stops, ghosts>>

AwaitOld(s) ==
  LET old == at[R(s)] IN
  /\ At(R(s), "await again")
  /\ IF old \in dispatching
     THEN Pass(old) /\ Go(R(s), "await") /\ UNCHANGED refs
     ELSE Take(R(s), old) /\ Dec(old) /\ Go(R(s), "replace")
  /\ UNCHANGED <<policy, mlock, at, using, st, lists, con, conSocket, failed, flags, queues, reapq,
                 stops, ghosts>>

\* replace_socket(): a lossless session goes on here, with the connection and the messages
Replace(s) ==
  LET old == at[R(s)] IN
  /\ At(R(s), "replace")
  /\ st' = [st EXCEPT ![old] = "closed"]
  /\ unregister_socket(old)
  /\ IF policy.lossy
     THEN /\ ClearSocket(con[old], old)
          /\ unsent' = [unsent EXCEPT ![old] = 0] /\ sent' = [sent EXCEPT ![old] = 0]
          /\ UNCHANGED con
     ELSE /\ con' = [con EXCEPT ![s] = con[old]]
          /\ refs' = Reset(refs, con[old], s, 1)
          /\ conSocket' = [conSocket EXCEPT ![con[old]] = s]
          /\ \E moved \in {unsent[old] + sent[old], 0} :
                unsent' = [unsent EXCEPT ![s] = moved, ![old] = 0]
          /\ sent' = [sent EXCEPT ![old] = 0]
          /\ UNCHANGED failed
  /\ GoSignal(R(s), "open", old)
  /\ UNCHANGED <<policy, locks, at, using, all, flags, reapq, stops, ghosts>>

\* open_socket(); the messenger's lock and the old socket's are given back at its end
GiveBoth(s) ==
  /\ GiveM(R(s))
  /\ slock' = [x \in Sockets |-> IF x = at[R(s)] THEN Nobody ELSE slock[x]]

Opened(s) ==
  /\ At(R(s), "open") /\ GiveBoth(s)
  /\ at' = [at EXCEPT ![R(s)] = s]
  /\ IF dqStop
     THEN /\ st' = [st EXCEPT ![s] = "closed"] /\ ClearSocket(con[s], s)
          /\ Go(R(s), "loop") /\ UNCHANGED <<running, rank, accepting>>
     ELSE /\ st' = [st EXCEPT ![s] = "open"]
          /\ accepting' = accepting \ {s} /\ rank' = s
          /\ running' = running \cup {W(s)}
          /\ pc' = [pc EXCEPT ![R(s)] = "loop", ![W(s)] = "start"]
          /\ UNCHANGED <<refs, conSocket, failed>>
  /\ UNCHANGED <<policy, using, all, con, dispatching, notify, queues, reapq, stops, ghosts>>

\* its reply is lost: accept_fail(), and fault(), when the socket is registered already
NotOpened(s) ==
  LET replaced == at[R(s)] # None
      queued == unsent[s] > 0
  IN
  /\ At(R(s), "open") /\ ~dqStop /\ GiveBoth(s)
  /\ at' = [at EXCEPT ![R(s)] = s]
  /\ accepting' = accepting \ {s}
  /\ IF policy.lossy \/ ~(queued \/ replaced)
     THEN /\ st' = [st EXCEPT ![s] = "closed"] /\ ClearSocket(con[s], s)
          /\ rank' = IF policy.lossy /\ replaced THEN None ELSE s
     ELSE /\ st' = [st EXCEPT ![s] = IF policy.server \/ (policy.standby /\ ~queued)
                                     THEN "standby" ELSE "connecting"]
          /\ rank' = s /\ UNCHANGED <<refs, conSocket, failed>>
  /\ IF queued \/ replaced
     THEN /\ running' = running \cup {W(s)}
          /\ pc' = [pc EXCEPT ![R(s)] = "loop", ![W(s)] = "start"]
     ELSE Go(R(s), "loop") /\ UNCHANGED running
  /\ UNCHANGED <<policy, using, all, con, dispatching, notify, queues, reapq, stops, ghosts>>

(***************************************************************************)
(* The reader, from the lock of its socket to the next wait or read.       *)
(***************************************************************************)
\* unlock_maybe_reap(): the second of the two threads to end queues the socket
EndQueued(t, other, s) ==               \* (mutant) without a look at the other
  /\ running' = running \ {t} /\ Go(t, "reap") /\ Give(s)
End(t, other, s) ==
  /\ running' = running \ {t}
  /\ Go(t, IF other \in running THEN "done" ELSE "reap") /\ Give(s)

ReaderLoop(s) ==
  /\ pc[R(s)] \in {"start", "loop"} /\ Holds(R(s), s) /\ st[s] # "accepting"
  /\ \/ st[s] \in {"closed", "connecting"} /\ End(R(s), W(s), s)
     \/ st[s] = "standby" /\ Go(R(s), "asleep") /\ Give(s) /\ UNCHANGED running
     \/ st[s] = "open" /\ Go(R(s), "read") /\ Give(s) /\ UNCHANGED running
  /\ UNCHANGED <<policy, mlock, at, using, st, lists, owners, dispatching, notify, queues, reapq,
                 stops, ghosts>>

ReadMessage(s) ==
  /\ At(R(s), "read") /\ events < MaxEvents /\ events' = events + 1
  /\ \/ st[s] \in {"closed", "connecting"} /\ Take(R(s), s) /\ Go(R(s), "loop")
        /\ UNCHANGED dispatching
     \/ st[s] \in {"open", "standby"} /\ Pass(s) /\ GoSignal(R(s), "callback", s)
        /\ dispatching' = dispatching \cup {s}
  /\ UNCHANGED <<policy, mlock, at, using, st, lists, owners, running, notify, queues, reapq, stops,
                 calls, undone>>

Dispatched(s) ==
  /\ pc[R(s)] \in {"callback", "dispatched"} /\ Take(R(s), s)
  /\ dispatching' = dispatching \ {s}
  /\ at' = [at EXCEPT ![R(s)] = s]
  /\ IF st[s] = "closed" \/ s \in notify
     THEN notify' = notify \ {s} /\ GoSignal(R(s), "loop", s)
     ELSE Go(R(s), "loop") /\ UNCHANGED notify
  /\ UNCHANGED <<policy, mlock, using, st, lists, owners, running, queues, reapq, stops, ghosts>>

ReadAck(s) ==
  /\ At(R(s), "read") /\ Take(R(s), s) /\ sent[s] > 0 /\ st[s] # "closed"
  /\ sent' = [sent EXCEPT ![s] = 0] /\ Go(R(s), "loop")
  /\ UNCHANGED <<policy, mlock, at, using, st, lists, owners, flags, unsent, reapq, stops, ghosts>>

\* A connection breaks, or has been shut down.
Breaks(s) ==
  IF st[s] = "open" THEN events < MaxEvents /\ events' = events + 1 ELSE UNCHANGED events

(***************************************************************************)
(* fault()                                                                 *)
(***************************************************************************)
FaultClosed(t, s) ==
  /\ st[s] = "closed" /\ Holds(t, s) /\ Keep(t, s)
  /\ ClearSocket(con[s], s) /\ GoSignal(t, "loop", s)
  /\ UNCHANGED <<st, queues>>

\* a lossy session ends, first with stop(); everyone asleep is woken by the two signals
FaultLossy(t, s) ==
  /\ policy.lossy /\ st[s] \notin {"closed", "connecting"}
  /\ Holds(t, s) /\ Give(s)
  /\ st' = [st EXCEPT ![s] = "closed"]
  /\ ClearSocket(con[s], s) /\ GoWaking(t, "lock to unlist", Sleepers(s))
  /\ UNCHANGED queues

AfterFault(s) ==
  LET queued == unsent[s] + sent[s] > 0 IN
  IF policy.standby /\ ~queued THEN "standby"
  ELSE IF st[s] # "connecting" /\ policy.server THEN "standby" ELSE "connecting"

\* others keep what is unsent; connect_fail() of one that connects lets go of the lock
FaultLossless(t, s) ==
  LET backoff == st[s] = "connecting" /\ AfterFault(s) = "connecting" IN
  /\ st[s] # "closed" /\ (policy.lossy => st[s] = "connecting")
  /\ Holds(t, s)
  /\ IF backoff THEN Give(s) ELSE Keep(t, s)
  /\ st' = [st EXCEPT ![s] = AfterFault(s)]
  /\ unsent' = [unsent EXCEPT ![s] = @ + sent[s]] /\ sent' = [sent EXCEPT ![s] = 0]
  /\ GoSignal(t, IF backoff THEN "start" ELSE "loop", s)
  /\ UNCHANGED <<refs, conSocket, failed>>

Fault(t, s) ==
  /\ FaultClosed(t, s) \/ FaultLossy(t, s) \/ FaultLossless(t, s)
  /\ UNCHANGED <<policy, mlock, at, using, lists, con, flags, reapq, stops, calls, undone>>

LockToUnlist(t) ==
  /\ At(t, "lock to unlist") /\ TakeM(t) /\ Go(t, "unlist")
  /\ UNCHANGED <<policy, slock, at, using, st, lists, owners, flags, queues, reapq, stops, ghosts>>

Unlist(t) ==
  LET s == at[t] IN
  /\ At(t, "unlist") /\ Take(t, s)
  /\ unregister_socket(s) /\ GiveM(t)
  /\ unsent' = [unsent EXCEPT ![s] = 0] /\ sent' = [sent EXCEPT ![s] = 0]
  /\ Go(t, "loop")
  /\ UNCHANGED <<policy, at, using, st, all, owners, flags, reapq, stops, ghosts>>

ReadFails(s) ==
  /\ At(R(s), "read") /\ Breaks(s)
  /\ IF st[s] = "connecting"
     THEN /\ Take(R(s), s) /\ GoSignal(R(s), "loop", s)
          /\ UNCHANGED <<policy, mlock, at, using, st, lists, owners, flags, queues, reapq, stops,
                         calls, undone>>
     ELSE Fault(R(s), s)

(***************************************************************************)
(* The writer.                                                             *)
(***************************************************************************)
AtWriter(s) == pc[W(s)] \in {"start", "loop"} /\ Holds(W(s), s)
Wakes(s) == unsent[s] > 0 /\ st[s] = "standby" /\ ~policy.server

WriterEnds(s) ==
  /\ AtWriter(s) /\ st[s] = "closed" /\ End(W(s), R(s), s)
  /\ UNCHANGED <<policy, mlock, at, using, st, lists, owners, dispatching, notify, queues, reapq,
                 stops, ghosts>>

\* connecting(): the reader is joined without the lock, and st is not looked at again
ToConnect(s) ==
  /\ AtWriter(s) /\ (st[s] = "connecting" \/ Wakes(s))
  /\ st' = [st EXCEPT ![s] = "connecting"]
  /\ IF R(s) \in running
     THEN Give(s) /\ GoSignal(W(s), "join reader", s)
     ELSE Keep(W(s), s) /\ Go(W(s), "connecting")
  /\ UNCHANGED <<policy, mlock, at, using, lists, owners, flags, queues, reapq, stops, ghosts>>

JoinReader(s) ==
  /\ At(W(s), "join reader") /\ At(R(s), "done")
  /\ Take(W(s), s) /\ Go(W(s), "connecting")
  /\ UNCHANGED <<policy, mlock, at, using, st, lists, owners, flags, queues, reapq, stops, ghosts>>

Connects(s) ==
  /\ At(W(s), "connecting")
  /\ st' = [st EXCEPT ![s] = "open"]
  /\ undone' = IF st[s] = "closed" THEN undone \cup {s} ELSE undone
  /\ running' = running \cup {R(s)}
  /\ pc' = [pc EXCEPT ![W(s)] = "loop", ![R(s)] = "start"]
  /\ UNCHANGED <<policy, locks, at, using, lists, owners, dispatching, notify, queues, reapq, stops,
                 calls, events>>

ConnectFails(s) ==
  /\ At(W(s), "connecting")
  /\ IF st[s] = "connecting"
     THEN Fault(W(s), s)
     ELSE /\ Go(W(s), "loop")
          /\ UNCHANGED <<policy, locks, at, using, st, lists, owners, flags, queues, reapq, stops,
                         calls, undone>>
  /\ UNCHANGED events

Write(s) ==
  /\ AtWriter(s) /\ st[s] = "open" /\ unsent[s] > 0
  /\ unsent' = [unsent EXCEPT ![s] = @ - 1]
  /\ sent' = [sent EXCEPT ![s] = IF policy.lossy THEN 0 ELSE @ + 1]
  /\ Give(s) /\ Go(W(s), "write")
  /\ UNCHANGED <<policy, mlock, at, using, st, lists, owners, flags, reapq, stops, ghosts>>

Written(s) ==
  /\ At(W(s), "write") /\ Take(W(s), s) /\ Go(W(s), "loop")
  /\ UNCHANGED <<policy, mlock, at, using, st, lists, owners, flags, queues, reapq, stops, ghosts>>

WriteFails(s) ==
  /\ At(W(s), "write") /\ Breaks(s) /\ Fault(W(s), s)

WriterSleeps(s) ==
  /\ AtWriter(s) /\ st[s] \notin {"closed", "connecting"} /\ ~Wakes(s)
  /\ ~(st[s] = "open" /\ unsent[s] > 0)
  /\ Give(s) /\ Go(W(s), "asleep")
  /\ UNCHANGED <<policy, mlock, at, using, st, lists, owners, flags, queues, reapq, stops, ghosts>>

(***************************************************************************)
(* The reaper.                                                             *)
(***************************************************************************)
QueueReapQuietly(t) ==                  \* (mutant) the reaper is not signalled
  /\ At(t, "reap") /\ PassM
  /\ reapq' = Append(reapq, at[t]) /\ Go(t, "done")
  /\ UNCHANGED <<policy, slock, at, using, st, lists, owners, flags, queues, stops, ghosts>>
QueueReap(t) ==
  /\ At(t, "reap") /\ PassM
  /\ reapq' = Append(reapq, at[t])
  /\ pc' = [pc EXCEPT ![t] = "done", ![Reaper] = IF @ = "reaper asleep" THEN "reaper" ELSE @]
  /\ UNCHANGED <<policy, slock, at, using, st, lists, owners, flags, queues, stops, ghosts>>

ReaperStarts ==
  /\ At(Reaper, "reaper") /\ TakeM(Reaper) /\ Go(Reaper, "reaping")
  /\ UNCHANGED <<policy, slock, at, using, st, lists, owners, flags, queues, reapq, stops, ghosts>>

ReaperSleeps ==
  /\ At(Reaper, "reaping") /\ reapq = <<>>
  /\ GiveM(Reaper) /\ Go(Reaper, IF reaperStop THEN "done" ELSE "reaper asleep")
  /\ UNCHANGED <<policy, slock, at, using, st, lists, owners, flags, queues, reapq, stops, ghosts>>

Reap ==
  LET s == Head(reapq) IN
  /\ At(Reaper, "reaping") /\ reapq # <<>>
  /\ reapq' = Tail(reapq)
  /\ Pass(s)
  /\ unsent' = [unsent EXCEPT ![s] = 0] /\ sent' = [sent EXCEPT ![s] = 0]
  /\ ClearSocket(con[s], s)
  /\ unregister_socket(s) /\ all' = all \ {s}
  /\ at' = [at EXCEPT ![Reaper] = s]
  /\ GiveM(Reaper) /\ Go(Reaper, "join threads")
  /\ UNCHANGED <<policy, using, st, con, flags, stops, ghosts>>

JoinThreads ==
  LET s == at[Reaper] IN
  /\ At(Reaper, "join threads")
  /\ pc[R(s)] \in {"none", "done"} /\ pc[W(s)] \in {"none", "done"}
  /\ TakeM(Reaper) /\ Dec(s) /\ Go(Reaper, "reaping")
  /\ UNCHANGED <<policy, slock, at, using, st, lists, con, conSocket, failed, flags, queues, reapq,
                 stops, ghosts>>

(***************************************************************************)
(* Specification.  At the start one session is open.                       *)
(***************************************************************************)
Init ==
  /\ policy \in Policies
  /\ mlock = Nobody /\ slock = [s \in Sockets |-> Nobody]
  /\ pc = [t \in Threads |->
             IF t \in Apps THEN "idle" ELSE IF t = Reaper THEN "reaper asleep"
             ELSE IF t = R(1) THEN "read" ELSE IF t = W(1) THEN "asleep" ELSE "none"]
  /\ at = [t \in Threads |-> IF t[1] \in {"reader", "writer"} THEN t[2] ELSE None]
  /\ using = [t \in Threads |-> None]
  /\ st = [s \in Sockets |-> IF s = 1 THEN "open" ELSE "none"]
  /\ rank = 1 /\ accepting = {} /\ all = {1}
  /\ refs = [s \in Sockets |-> IF s = 1 THEN 2 ELSE 0]
  /\ con = [s \in Sockets |-> s]
  /\ conSocket = [c \in Sockets |-> IF c = 1 THEN 1 ELSE None]
  /\ failed = [c \in Sockets |-> FALSE]
  /\ running = {R(1), W(1)} /\ dispatching = {} /\ notify = {}
  /\ unsent = [s \in Sockets |-> 0] /\ sent = [s \in Sockets |-> 0]
  /\ reapq = <<>>
  /\ stopped = FALSE /\ dqStop = FALSE /\ reaperStop = FALSE
  /\ calls = 0 /\ events = 0 /\ undone = {}

Called(t) ==
  \/ SendTo(t) \/ TryGetSocket(t) \/ Submit(t) \/ SubmitClosed(t) \/ Unsent(t) \/ LockToResolve(t)
  \/ ConnectRank(t) \/ Register(t) \/ MarkDown(t) \/ MarkDownOn(t) \/ StopIt(t)
  \/ Shutdown(t) \/ MarkAll(t) \/ StopOneOfAll(t) \/ Stop(t)
  \/ Wait(t) \/ EndDispatching(t) \/ EndReaper(t)

\* What s's threads do without anything from outside.
Runs(s) ==
  \/ Handshake(s) \/ LockMessenger(s) \/ LockOld(s) \/ AwaitOld(s) \/ Replace(s) \/ Opened(s)
  \/ ReaderLoop(s) \/ Dispatched(s)
  \/ WriterEnds(s) \/ ToConnect(s) \/ JoinReader(s) \/ Write(s) \/ Written(s) \/ WriterSleeps(s)
  \/ \E t \in {R(s), W(s)} : LockToUnlist(t) \/ Unlist(t) \/ QueueReap(t)

Reaps == ReaperStarts \/ ReaperSleeps \/ Reap \/ JoinThreads

Next ==
  \/ \E t \in Threads : (\E op \in Ops : Call(t, op)) \/ Called(t)
  \/ Accept \/ Reaps
  \/ \E s \in Sockets :
        \/ Runs(s) \/ HandshakeFails(s) \/ NotOpened(s)
        \/ ReadMessage(s) \/ ReadAck(s) \/ ReadFails(s)
        \/ Connects(s) \/ ConnectFails(s) \/ WriteFails(s)

Fairness ==
  /\ \A t \in Threads : WF_vars(Called(t))
  /\ \A s \in Sockets : WF_vars(Runs(s)) /\ WF_vars(Connects(s))
                        /\ WF_vars(st[s] # "open" /\ ReadFails(s))
  /\ WF_vars(Reaps)

Spec == Init /\ [][Next]_vars
FairSpec == Spec /\ Fairness

(***************************************************************************)
(* Properties.                                                             *)
(***************************************************************************)
TypeOK ==
  /\ policy \in Policies
  /\ mlock \in Threads \cup {Nobody} /\ slock \in [Sockets -> Threads \cup {Nobody}]
  /\ st \in [Sockets -> {"none", "accepting", "connecting", "open", "standby", "closed"}]
  /\ at \in [Threads -> Sockets \cup {None}] /\ using \in [Threads -> Sockets \cup {None}]
  /\ rank \in Sockets \cup {None} /\ accepting \subseteq all /\ all \subseteq Sockets
  /\ con \in [Sockets -> Sockets] /\ conSocket \in [Sockets -> Sockets \cup {None}]
  /\ failed \in [Sockets -> BOOLEAN] /\ refs \in [Sockets -> Nat]
  /\ unsent \in [Sockets -> Nat] /\ sent \in [Sockets -> Nat]
  /\ running \cup {R(s) : s \in dispatching \cup notify} \subseteq Threads
  /\ reapq \in Seq(Sockets)

\* how many own a reference of s: the list of sockets (or who is about to list it, or
\* to join its threads), connections, threads that send or mark down on a connection,
\* and acceptors that wait for a callback
Owners(s) ==
  LET Created == s \in all
                 \/ \E t \in Threads : pc[t] \in {"register", "join threads"} /\ at[t] = s
      Thread(t) == at[t] = s /\ \/ pc[t] \in {"lock to send", "await", "await again"}
                                \/ pc[t] = "lock to stop" /\ using[t] # None
  IN  (IF Created THEN 1 ELSE 0)
        + Cardinality({c \in Sockets : conSocket[c] = s})
        + Cardinality({t \in Threads : Thread(t)})
\* Every reference of a socket has an owner, and every owner its reference; and the
\* types hold.
RefsExact ==
  /\ TypeOK
  /\ \A s \in Sockets : refs[s] = Owners(s)

\* where a thread is at work on its socket
AtWork == {"lock to send", "register", "lock to stop", "lock to stop all", "lock old", "await",
           "await again", "replace", "open", "unlist", "join threads"}

\* No list names a socket that is freed, and no thread is left to run, or at work,
\* on one: the references that threads do without are those the reaper keeps for them.
NoUseAfterFree ==
  /\ \A s \in Sockets :
        \/ refs[s] > 0
        \/ /\ rank # s /\ s \notin all /\ \A i \in DOMAIN reapq : reapq[i] # s
           /\ unsent[s] = 0 /\ sent[s] = 0
           /\ pc[R(s)] \in {"none", "done"} /\ pc[W(s)] \in {"none", "done"}
  /\ \A t \in Threads : pc[t] \in AtWork /\ at[t] # None => refs[at[t]] > 0

\* A session that lives is the one messages to its peer find: a socket that is not closed
\* is registered, or in the hands of who registers it or marks it down.  The exception is
\* one that connecting() opened after it was marked down.
Registered ==
  \A s \in Sockets :
    st[s] \in {"connecting", "open", "standby"} =>
      \/ rank = s \/ s \in undone
      \/ \E t \in Threads :
            pc[t] \in {"register", "lock to stop", "lock to stop all"} /\ at[t] = s

\* the steps that need no call and no event
Internal ==
  \/ \E t \in Threads : Called(t)
  \/ \E s \in Sockets : Runs(s) \/ Connects(s) \/ (st[s] # "open" /\ ReadFails(s))
  \/ Reaps

\* its socket is kept by a connection that replace_socket() abandoned; it sleeps on
Abandoned(s) == con[s] # s /\ conSocket[s] = s /\ refs[s] = 1
SleptThroughStop(s) == \E t \in {R(s), W(s)} : At(t, "asleep")

\* When nothing more happens of itself every closed socket has been freed: no thread was
\* left asleep, no socket left off the reaper's queue and no two threads wait for each
\* other.  What the code does not free: a connection that replace_socket() abandons keeps
\* its socket; stop() wakes one of a reader and a writer that both sleep; an acceptor
\* waits with the messenger's lock; wait() joins the reaper with it.
Settled ==
  \/ \A s \in Sockets : st[s] = "closed" => refs[s] = 0 \/ Abandoned(s) \/ SleptThroughStop(s)
  \/ \E s \in Sockets : pc[R(s)] \in {"handshake", "lock old", "await"}
  \/ \E t \in Threads : At(t, "join reaper")
  \/ ENABLED Internal

\* wait() blocks until shutdown() and then returns.
WaitReturns ==
  \A t \in Apps : pc[t] \in {"wait", "wait asleep"} /\ stopped ~> pc[t] = "idle"
=============================================================================
