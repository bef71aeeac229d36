--------------------------- MODULE SocketSession ---------------------------
(***************************************************************************)
(* The session two SimpleMessengers keep over TCP connections that come    *)
(* and go: src/trunk/src/sys/socket.cpp.  Each messenger owns Socket       *)
(* objects, at most one of them registered for its peer; a Socket has a    *)
(* writer thread, which also connects, and a reader thread, which also     *)
(* accepts.  A session survives its TCP connection: the acceptor moves the *)
(* state of the old Socket to the new one, unacknowledged messages are     *)
(* queued again and keep their sequence numbers.                           *)
(*                                                                         *)
(* A thread that holds _lock over a blocking read (connecting()) keeps it  *)
(* here: its socket is `await' and nobody else touches it.  The sleeps on  *)
(* Socket::_cond are guards; which sleeper a signal reaches is not         *)
(* modelled.                                                               *)
(***************************************************************************)
EXTENDS Integers, Sequences, FiniteSets

CONSTANTS
    Slots,         \* bound on the Socket objects of each messenger at one time, by policies
    Policies,      \* the pairs of Policy the two messengers may run under
    Loads,         \* bounds on the messages the two messengers hand over, by policies
    SeqMod,        \* the values of a connect_seq, 2^32 of them in the code
    MaxFaults,     \* bound on connection failures, timeouts and mark_down()s
    MarkDowns      \* whether the applications call mark_down()

Ends == {1, 2}     \* the messengers; 1 has the lower address
Peer(e) == 3 - e
MostSlots == [e \in Ends |-> CHOOSE n \in {Slots[p][e] : p \in Policies} :
                                 \A p \in Policies : Slots[p][e] <= n]
SocketsOf(e) == {e} \X (1..MostSlots[e])
Ids == SocketsOf(1) \cup SocketsOf(2)
None == <<0, 0>>

\* Messenger::Policy, and those the class names.
Policy(l, s, st, r) == [lossy |-> l, server |-> s, standby |-> st, resetcheck |-> r]
StatefulServer == Policy(FALSE, TRUE, TRUE, TRUE)
StatelessServer == Policy(TRUE, TRUE, FALSE, FALSE)
LosslessPeer == Policy(FALSE, FALSE, TRUE, FALSE)
LosslessPeerReuse == Policy(FALSE, FALSE, TRUE, TRUE)
LossyClient == Policy(TRUE, FALSE, FALSE, FALSE)
LosslessClient == Policy(FALSE, FALSE, FALSE, TRUE)

ASSUME SessionAssumption ==
    /\ Slots \in [Policies -> [Ends -> Nat \ {0}]]
    /\ Policies \subseteq [Ends -> [lossy : BOOLEAN, server : BOOLEAN,
                                    standby : BOOLEAN, resetcheck : BOOLEAN]]
    /\ \A p \in Policies : Loads[p] \subseteq [Ends -> Nat] /\ IsFiniteSet(Loads[p])
    /\ SeqMod \in Nat \ {0}
    /\ MaxFaults \in Nat
    /\ MarkDowns \in BOOLEAN

VARIABLES
    policy,   \* [end -> its Policy towards the other end]
    sock,     \* [id -> the Socket object]
    rank,     \* [end -> the registered socket, _rank_socket, or None]
    link,     \* [id -> the socket at the far end of its TCP connection, or None]
    wire,     \* [id -> what has reached it and is not read yet]
    handed,   \* [end -> number of messages handed over; messages are 1..handed]
    got,      \* [end -> the messages dispatched there]
    mark,     \* history: `handed' at the last reset of the session
    faults    \* history: connection failures, timeouts, mark_down()s so far

vars == <<policy, sock, rank, link, wire, handed, got, mark, faults>>

NoItem == [tag |-> "none"]

\* A Socket object as its constructor leaves it, and a slot with none.
NewSocket(state) ==
    [state |-> state, known |-> FALSE, lossy |-> FALSE, cseq |-> 0, inSeq |-> 0, acked |-> 0,
     outSeq |-> 0, sent |-> <<>>, outq |-> <<>>, inq |-> <<>>,
     reader |-> "none", writer |-> "none", out |-> NoItem]
Free == NewSocket("free")

States == {"free", "accepting", "connecting", "open", "standby", "wait", "closed"}
AllLoads == UNION {Loads[p] : p \in Policies}
MostSent(e) == CHOOSE n \in {l[e] : l \in AllLoads} : \A l \in AllLoads : l[e] <= n
Messages == UNION {UNION {1..l[e] : e \in Ends} : l \in AllLoads}
TypeOK ==
    /\ policy \in Policies
    /\ \A s \in Ids :
        /\ sock[s].state \in States
        /\ {sock[s].lossy, sock[s].known} \subseteq BOOLEAN
        /\ {sock[s].cseq, sock[s].inSeq, sock[s].acked, sock[s].outSeq} \subseteq Nat
        /\ sock[s].sent \in Seq([m : Messages, seq : Nat])
        /\ sock[s].outq \in Seq(Messages)
        /\ sock[s].inq \in Seq(Messages)
        /\ sock[s].reader \in {"none", "accepting", "reading", "standby"}
        /\ sock[s].writer \in {"none", "loop", "join", "await", "writing", "acking", "acked"}
        /\ link[s] \in Ids \cup {None}
        /\ link[s] # None => link[link[s]] = s
        /\ sock[s].state = "free" => sock[s] = Free /\ s \notin {rank[1], rank[2]}
    /\ \A e \in Ends : rank[e] \in SocketsOf(e) \cup {None}
    /\ handed \in [Ends -> Nat]
    /\ got \in [Ends -> SUBSET Messages]
    /\ mark \in [Ends -> Nat]
    /\ faults \in 0..MaxFaults

Init ==
    /\ policy \in Policies
    /\ sock = [s \in Ids |-> Free]
    /\ rank = [e \in Ends |-> None]
    /\ link = [s \in Ids |-> None]
    /\ wire = [s \in Ids |-> <<>>]
    /\ handed = [e \in Ends |-> 0]
    /\ got = [e \in Ends |-> {}]
    /\ mark = [e \in Ends |-> 0]
    /\ faults = 0

-----------------------------------------------------------------------------
(* The session state of one Socket.                                        *)

NextSeq(c) == (c + 1) % SeqMod

\* (mutant) What was not acknowledged goes behind what was never sent.
RequeuedBehind(r) ==
    [r EXCEPT !.outq = r.outq \o [i \in DOMAIN r.sent |-> r.sent[i].m],
              !.sent = <<>>,
              !.outSeq = @ - Len(r.sent)]

\* requeue_sent(): what was not acknowledged goes to the front of the queue
\* again, and its sequence numbers are taken back.
Requeued(r) ==
    [r EXCEPT !.outq = [i \in DOMAIN r.sent |-> r.sent[i].m] \o r.outq,
              !.sent = <<>>,
              !.outSeq = @ - Len(r.sent)]

\* (mutant) An acknowledgement is for the one message it names.
AcknowledgedOne(r, seq) == [r EXCEPT !.sent = SelectSeq(@, LAMBDA x : x.seq # seq)]

\* handle_ack(): what the peer has got, by the number it names, is taken from
\* the front.
Acknowledged(r, seq) ==
    LET n == CHOOSE n \in 0..Len(r.sent) :
                 /\ \A i \in 1..n : r.sent[i].seq <= seq
                 /\ n < Len(r.sent) => r.sent[n + 1].seq > seq
    IN  [r EXCEPT !.sent = SubSeq(@, n + 1, Len(@))]

\* discard_out_queue(), with what the dispatch queue holds for the socket.
Discarded(r) == [r EXCEPT !.sent = <<>>, !.outq = <<>>, !.inq = <<>>]

\* was_session_reset(): _out_seq and _in_seq_acked keep their values.
SessionReset(r) == [Discarded(r) EXCEPT !.inSeq = 0, !.cseq = 0]

\* fault(): `p' is the socket's policy.  Neither a reader that faults while
\* the socket is connecting nor any thread of a closed socket changes it.
Ignored(r, onread) == r.state = "closed" \/ (onread /\ r.state = "connecting")
Drops(r, onread) == ~Ignored(r, onread) /\ r.lossy /\ r.state # "connecting"
\* (mutant) A client comes back with the connect_seq it had.
ResumedSame(r, p) ==
    CASE p.standby /\ r.outq = <<>> -> [r EXCEPT !.state = "standby"]
      [] r.outq # <<>> \/ ~p.standby ->
            IF r.state = "connecting" THEN r
            ELSE IF p.server THEN [r EXCEPT !.state = "standby"]
            ELSE [r EXCEPT !.state = "connecting"]

\* fault() of a socket that keeps its session: it waits for the peer, or for
\* something to send, or connects again.
Resumed(r, p) ==
    CASE p.standby /\ r.outq = <<>> -> [r EXCEPT !.state = "standby"]
      [] r.outq # <<>> \/ ~p.standby ->
            IF r.state = "connecting" THEN r
            ELSE IF p.server THEN [r EXCEPT !.state = "standby"]
            ELSE [r EXCEPT !.state = "connecting", !.cseq = NextSeq(@)]
Faulted(r, p, onread) ==
    IF Ignored(r, onread) THEN r
    ELSE IF Drops(r, onread) THEN [Discarded(r) EXCEPT !.state = "closed"]
    ELSE Resumed(Requeued(r), p)

\* Where the reader goes at the head of its loop, given the socket's state.
ReaderLoops(r) ==
    [r EXCEPT !.reader = CASE r.state \in {"closed", "connecting"} -> "none"
                           [] r.state = "standby" -> "standby"
                           [] OTHER -> "reading"]

\* The writer takes the next message: it is numbered, and kept until it is
\* acknowledged unless the session is lossy.
Took(r) ==
    LET item == [m |-> Head(r.outq), seq |-> r.outSeq + 1]
    IN  [r EXCEPT !.outSeq = @ + 1,
                  !.outq = Tail(@),
                  !.sent = IF r.lossy THEN @ ELSE Append(@, item),
                  !.out = [tag |-> "msg", m |-> item.m, seq |-> item.seq],
                  !.writer = "writing"]

-----------------------------------------------------------------------------
(* The TCP connections.                                                    *)

\* shutdown_socket(): both ends lose the connection.  The far one may still
\* read the first `k' of the items that were on their way to it, and the
\* reader here keeps the first `i', one that it has read before it asks for
\* the lock or none.
Cut(s, i, k) ==
    LET t == link[s] IN
    /\ link' = [x \in Ids |-> IF t # None /\ x \in {s, t} THEN None ELSE link[x]]
    /\ wire' = [x \in Ids |-> IF x = s THEN SubSeq(wire[x], 1, i)
                              ELSE IF x = t THEN SubSeq(wire[x], 1, k) ELSE wire[x]]
InHand(s) == IF sock[s].reader = "reading" /\ wire[s] # <<>> THEN {0, 1} ELSE {0}
Arrived(s) == 0 .. (IF link[s] = None THEN 0 ELSE Len(wire[link[s]]))
Shutdown(s) == \E i \in InHand(s), k \in Arrived(s) : Cut(s, i, k)

\* A write that succeeds: the connection is up and the items are on their way.
Write(s, items) ==
    /\ link[s] # None
    /\ wire' = [wire EXCEPT ![link[s]] = @ \o items]
    /\ UNCHANGED link

\* The session is over for the application too: it is told (queue_reset,
\* queue_remote_reset), or has asked for it.
Resets(reset) == mark' = IF reset THEN handed ELSE mark

\* fault() of socket s, which has the value r when its thread calls it;
\* `reset' says that the session has just been reset.
Fault(s, r, onread, reset) ==
    LET q == Faulted(r, policy[s[1]], onread)
        dropped == Drops(r, onread)
    IN
    /\ sock' = [sock EXCEPT ![s] = IF onread THEN ReaderLoops(q) ELSE q]
    /\ rank' = [rank EXCEPT ![s[1]] = IF dropped /\ @ = s THEN None ELSE @]
    /\ Resets(dropped \/ reset)
    /\ IF Ignored(r, onread) THEN UNCHANGED <<link, wire>>
       ELSE Shutdown(s)

\* The memory a new Socket gets; which of the free places is immaterial.
FreeSocket(e) ==
    {s \in SocketsOf(e) : /\ sock[s].state = "free" /\ s[2] <= Slots[policy][e]
                          /\ \A t \in SocketsOf(e) : sock[t].state = "free" => s[2] <= t[2]}

Locked(s) == s # None /\ sock[s].writer = "await"

\* lookup_socket(): a registered socket that was closed does not count.
Lookup(e) == IF rank[e] # None /\ sock[rank[e]].state = "closed" THEN None ELSE rank[e]

-----------------------------------------------------------------------------
(* The application.                                                        *)

MayHandOver(e) ==
    \E load \in Loads[policy] : handed[e] < load[e] /\ handed[Peer(e)] <= load[Peer(e)]

\* send_message() to the peer's address when a socket is registered for it.
Send(e) ==
    /\ MayHandOver(e)
    /\ Lookup(e) # None
    /\ ~Locked(rank[e])
    /\ handed' = [handed EXCEPT ![e] = @ + 1]
    /\ sock' = [sock EXCEPT ![rank[e]].outq = Append(@, handed[e] + 1)]
    /\ UNCHANGED <<policy, rank, link, wire, got, mark, faults>>

\* ... and when none is: connect_rank() makes one, unless this is a server.
SendFirst(e) ==
    /\ MayHandOver(e)
    /\ Lookup(e) = None
    /\ ~policy[e].server
    /\ handed' = [handed EXCEPT ![e] = @ + 1]
    /\ \E s \in FreeSocket(e) :
        /\ sock' = [sock EXCEPT ![s] =
                [NewSocket("connecting") EXCEPT !.known = TRUE,
                                                !.lossy = policy[e].lossy,
                                                !.outq = <<handed[e] + 1>>,
                                                !.writer = "loop"]]
        /\ rank' = [rank EXCEPT ![e] = s]
    /\ UNCHANGED <<policy, link, wire, got, mark, faults>>

\* mark_down(): the socket is unregistered and stopped, the peer is not told.
MarkDown(e) ==
    LET s == Lookup(e) IN
    /\ MarkDowns /\ faults < MaxFaults
    /\ s # None
    /\ ~Locked(s)
    /\ faults' = faults + 1
    /\ Resets(TRUE)
    /\ rank' = [rank EXCEPT ![e] = None]
    /\ sock' = [sock EXCEPT ![s].state = "closed"]
    /\ Shutdown(s)
    /\ UNCHANGED <<policy, handed, got>>

-----------------------------------------------------------------------------
(* The writer thread: writer() and connecting().                           *)

\* A standby socket with something to send goes back to connecting.
WriterLeavesStandby(s) ==
    /\ sock[s].writer = "loop"
    /\ sock[s].state = "standby"
    /\ sock[s].outq # <<>>
    /\ ~policy[s[1]].server
    /\ sock' = [sock EXCEPT ![s].state = "connecting"]
    /\ UNCHANGED <<policy, rank, link, wire, handed, got, mark, faults>>

\* connecting() first waits for the old reader to end, without the lock.
JoinReader(s) ==
    /\ sock[s].writer = "loop"
    /\ sock[s].state = "connecting"
    /\ sock[s].reader # "none"
    /\ sock' = [sock EXCEPT ![s].writer = "join"]
    /\ UNCHANGED <<policy, rank, link, wire, handed, got, mark, faults>>

\* connecting() up to the read of the reply: a TCP connection is made and the
\* peer's Accepter has a Socket for it.  After the wait for the reader the
\* socket's state is not looked at again.
Connect(s) ==
    /\ \/ sock[s].writer = "loop" /\ sock[s].state = "connecting"
       \/ sock[s].writer = "join"
    /\ sock[s].reader = "none"
    /\ sock[s].known
    /\ \E b \in FreeSocket(Peer(s[1])) :
        /\ sock' = [sock EXCEPT
                ![s].writer = "await",
                ![b] = [NewSocket("accepting") EXCEPT !.reader = "accepting"]]
        /\ link' = [link EXCEPT ![s] = b, ![b] = s]
        /\ wire' = [wire EXCEPT ![b] = <<[tag |-> "connect", cseq |-> sock[s].cseq]>>]
    /\ UNCHANGED <<policy, rank, handed, got, mark, faults>>

\* connect_fail(): a socket that is still connecting faults.
ConnectFails(s, r, reset) ==
    IF r.state = "connecting" THEN Fault(s, [r EXCEPT !.writer = "loop"], FALSE, reset)
    ELSE /\ sock' = [sock EXCEPT ![s] = [r EXCEPT !.writer = "loop"]]
         /\ wire' = [wire EXCEPT ![s] = <<>>]
         /\ Resets(reset)
         /\ UNCHANGED <<rank, link>>

\* connecting() from the read of the reply to its return.
ReadReply(s) ==
    /\ sock[s].writer = "await"
    /\ wire[s] # <<>>
    /\ LET reply == Head(wire[s]) IN
        \/ /\ reply.tag = "ready"
           /\ sock' = [sock EXCEPT ![s].state = "open", ![s].cseq = NextSeq(@),
                                   ![s].lossy = reply.lossy,
                                   ![s].writer = "loop", ![s].reader = "reading"]
           /\ wire' = [wire EXCEPT ![s] = Tail(@)]
           /\ UNCHANGED <<rank, link, mark>>
        \/ /\ reply.tag = "wait"
           /\ sock' = [sock EXCEPT ![s].state = "wait", ![s].writer = "loop"]
           /\ wire' = [wire EXCEPT ![s] = Tail(@)]
           /\ UNCHANGED <<rank, link, mark>>
        \/ reply.tag = "retry" /\ ConnectFails(s, [sock[s] EXCEPT !.cseq = reply.cseq], FALSE)
        \/ reply.tag = "resetsession" /\ ConnectFails(s, SessionReset(sock[s]), TRUE)
    /\ UNCHANGED <<policy, handed, got, faults>>

\* The read of the reply fails, or times out.
NoReply(s) ==
    /\ sock[s].writer = "await"
    /\ wire[s] = <<>>
    /\ link[s] = None
    /\ ConnectFails(s, sock[s], FALSE)
    /\ UNCHANGED <<policy, handed, got, faults>>

\* The writer may write: it takes an acknowledgement or a message and unlocks.
CanWrite(s) == sock[s].writer = "loop" /\ sock[s].state = "open"

TakeAck(s) ==
    /\ CanWrite(s)
    /\ sock[s].inSeq > sock[s].acked
    /\ sock' = [sock EXCEPT ![s].out = [tag |-> "ack", seq |-> sock[s].inSeq],
                            ![s].writer = "acking"]
    /\ UNCHANGED <<policy, rank, link, wire, handed, got, mark, faults>>

TakeMessage(s) ==
    /\ CanWrite(s)
    /\ sock[s].inSeq <= sock[s].acked
    /\ sock[s].outq # <<>>
    /\ sock' = [sock EXCEPT ![s] = Took(@)]
    /\ UNCHANGED <<policy, rank, link, wire, handed, got, mark, faults>>

\* The write itself, without the lock.
WriteOut(s) ==
    /\ sock[s].writer \in {"writing", "acking"}
    /\ Write(s, <<sock[s].out>>)
    /\ sock' = [sock EXCEPT ![s].writer = IF @ = "acking" THEN "acked" ELSE "loop",
                            ![s].out = IF sock[s].writer = "acking" THEN @ ELSE NoItem]
    /\ UNCHANGED <<policy, rank, handed, got, mark, faults>>

\* After an acknowledgement the writer goes on to a message, without another
\* look at the socket's state.
AckWritten(s) ==
    /\ sock[s].writer = "acked"
    /\ LET r == [sock[s] EXCEPT !.acked = sock[s].out.seq, !.out = NoItem,
                                !.writer = "loop"]
       IN  sock' = [sock EXCEPT ![s] = IF r.outq # <<>> THEN Took(r) ELSE r]
    /\ UNCHANGED <<policy, rank, link, wire, handed, got, mark, faults>>

\* The write fails.
WriteFails(s) ==
    /\ sock[s].writer \in {"writing", "acking"}
    /\ link[s] = None
    /\ Fault(s, [sock[s] EXCEPT !.writer = "loop", !.out = NoItem], FALSE, FALSE)
    /\ UNCHANGED <<policy, handed, got, faults>>

WriterExits(s) ==
    /\ sock[s].writer = "loop"
    /\ sock[s].state = "closed"
    /\ sock' = [sock EXCEPT ![s].writer = "none"]
    /\ UNCHANGED <<policy, rank, link, wire, handed, got, mark, faults>>

-----------------------------------------------------------------------------
(* The reader thread: accepting(), replace_socket(), open_socket().        *)

\* What accepting() writes before READY, given the socket x already
\* registered for the peer (the code falls through from one reply to the
\* next and still replaces x at the end).
EarlyReplies(e, c, x) ==
    LET same == c = x.cseq
        retry == c < x.cseq \/ (same /\ x.state \in {"open", "standby"})
        wait == same /\ ~(Peer(e) < e \/ policy[e].server)
        reset == wait /\ policy[e].resetcheck /\ x.cseq = 0
    IN  (IF retry THEN <<[tag |-> "retry", cseq |-> NextSeq(x.cseq)]>> ELSE <<>>)
        \o (IF wait THEN <<[tag |-> "wait"]>> ELSE <<>>)
        \o (IF reset THEN <<[tag |-> "resetsession"]>> ELSE <<>>)

\* The existing socket is told that its session is over before it is replaced.
Restarts(c, x) == x.lossy \/ (c = 0 /\ x.cseq > 0)
EndsSession(e, c, x) == x.lossy \/ (Restarts(c, x) /\ policy[e].resetcheck)

\* (mutant) What the old socket sent and nobody acknowledged is forgotten.
TakenOverUnsent(r, x, zero) ==
    IF x.lossy THEN r
    ELSE [r EXCEPT !.inSeq = IF zero THEN 0 ELSE x.inSeq,
                   !.acked = IF zero THEN 0 ELSE x.inSeq,
                   !.outSeq = x.outSeq - Len(x.sent),
                   !.outq = x.outq \o r.outq,
                   !.inq = x.inq]

\* replace_socket(): the new socket r takes over the session of x, unless it
\* is lossy.  `zero' is the uninitialised member _is_reset_from_peer.
TakenOver(r, x, zero) ==
    IF x.lossy THEN r
    ELSE LET q == Requeued(x)
         IN  [r EXCEPT !.inSeq = IF zero THEN 0 ELSE x.inSeq,
                       !.acked = IF zero THEN 0 ELSE x.inSeq,
                       !.outSeq = q.outSeq,
                       !.outq = q.outq \o r.outq,
                       !.inq = x.inq]
\* (mutant) The old socket is not stopped.
LeftOverOpen(x) ==
    [x EXCEPT !.sent = <<>>,
              !.outSeq = IF x.lossy THEN @ ELSE @ - Len(x.sent),
              !.outq = IF x.lossy THEN @ ELSE <<>>,
              !.inq = IF x.lossy THEN @ ELSE <<>>]

\* ... and the old one is stopped, with nothing left.
LeftOver(x) ==
    [x EXCEPT !.state = "closed",
              !.sent = <<>>,
              !.outSeq = IF x.lossy THEN @ ELSE @ - Len(x.sent),
              !.outq = IF x.lossy THEN @ ELSE <<>>,
              !.inq = IF x.lossy THEN @ ELSE <<>>]

\* (mutant) The acceptor's connect_seq stays at the connector's.
OpenedSame(r, c) == [r EXCEPT !.cseq = c, !.state = "open",
                              !.reader = "reading", !.writer = "loop"]

\* open_socket()
Opened(r, c) == [r EXCEPT !.cseq = NextSeq(c), !.state = "open",
                          !.reader = "reading", !.writer = "loop"]

\* accept_fail(): `again' is the member _replaced.
AcceptFailed(r, p, again) ==
    LET q == IF r.outq # <<>>
             THEN [r EXCEPT !.state = IF p.server THEN "standby" ELSE "connecting"]
             ELSE IF again THEN [r EXCEPT !.state = "standby"]
             ELSE [r EXCEPT !.state = "closed"]
    IN  ReaderLoops([Faulted(q, p, FALSE) EXCEPT
                        !.writer = IF r.outq # <<>> \/ again THEN "loop" ELSE "none"])

\* The socket b when the connect record has been read.
Identified(b) == [sock[b] EXCEPT !.known = TRUE, !.lossy = policy[b[1]].lossy]
Ready(b) == [tag |-> "ready", lossy |-> policy[b[1]].lossy]
ConnectSeq(b) == Head(wire[b]).cseq

\* What b has to write before it may replace the registered socket.
Early(b) ==
    LET e == b[1] IN
    IF Lookup(e) = None
    THEN IF ConnectSeq(b) > 0 THEN <<[tag |-> "resetsession"]>> ELSE <<>>
    ELSE IF Restarts(ConnectSeq(b), sock[rank[e]]) THEN <<>>
    ELSE EarlyReplies(e, ConnectSeq(b), sock[rank[e]])

\* accepting() has the connect record and can lock the registered socket.
AtConnect(b) ==
    /\ sock[b].reader = "accepting"
    /\ wire[b] # <<>>
    /\ ~Locked(rank[b[1]])

\* The old socket x goes, b takes its session and its place; b's reply, if
\* it can be written, is `replies'.
Replace(b, new(_), replies) ==
    LET e == b[1]
        x == rank[e]
        c == ConnectSeq(b)
        old == IF EndsSession(e, c, sock[x]) THEN SessionReset(sock[x]) ELSE sock[x]
    IN
    /\ Resets(EndsSession(e, c, sock[x]))
    /\ \E zero \in BOOLEAN, i \in InHand(x), k \in Arrived(x) :
        LET q == new(Opened(TakenOver(Identified(b), old, zero), c)) IN
        /\ sock' = [sock EXCEPT ![b] = q, ![x] = LeftOver(old)]
        /\ link' = [s \in Ids |-> IF link[x] # None /\ s \in {x, link[x]} THEN None ELSE link[s]]
        /\ wire' = [s \in Ids |->
                IF s = b THEN Tail(wire[s])
                ELSE IF s = x THEN SubSeq(wire[s], 1, i)
                ELSE IF s = link[b] THEN wire[s] \o replies
                ELSE IF s = link[x] THEN SubSeq(wire[s], 1, k)
                ELSE wire[s]]
        /\ rank' = [rank EXCEPT ![e] = IF q.lossy /\ q.state = "closed" THEN None ELSE b]

\* accepting() with nothing registered for the peer: a session that should
\* exist is refused, a new one is opened.
AcceptNew(b) ==
    /\ AtConnect(b)
    /\ Lookup(b[1]) = None
    /\ link[b] # None
    /\ LET refused == Early(b) # <<>> IN
        /\ sock' = [sock EXCEPT ![b] = IF refused THEN [Identified(b) EXCEPT !.reader = "reading"]
                                       ELSE Opened(Identified(b), ConnectSeq(b))]
        /\ wire' = [wire EXCEPT ![b] = Tail(@),
                                ![link[b]] = @ \o (IF refused THEN Early(b) ELSE <<Ready(b)>>)]
        /\ rank' = [rank EXCEPT ![b[1]] = IF refused THEN @ ELSE b]
    /\ UNCHANGED <<policy, link, handed, got, mark, faults>>

\* accepting() with a socket registered for the peer.
AcceptExisting(b) ==
    /\ AtConnect(b)
    /\ Lookup(b[1]) # None
    /\ link[b] # None
    /\ Replace(b, LAMBDA r : r, Append(Early(b), Ready(b)))
    /\ UNCHANGED <<policy, handed, got, faults>>

\* The connection is lost before the connect record is read: the socket
\* still has the default Policy() and does not know its peer.
AcceptLost(b) ==
    /\ sock[b].reader = "accepting"
    /\ wire[b] = <<>>
    /\ link[b] = None
    /\ \E replaced \in BOOLEAN :
        sock' = [sock EXCEPT ![b] = AcceptFailed(@, LosslessClient, replaced)]
    /\ UNCHANGED <<policy, rank, link, wire, handed, got, mark, faults>>

\* The first reply of accepting() cannot be written; when that is READY, the
\* socket has been registered before, and has replaced the old one.
AcceptFails(b) ==
    LET p == policy[b[1]] IN
    /\ AtConnect(b)
    /\ link[b] = None
    /\ \/ /\ Lookup(b[1]) = None \/ Early(b) # <<>>
          /\ \E replaced \in BOOLEAN :
                LET r == IF Early(b) # <<>> THEN Identified(b)
                         ELSE Opened(Identified(b), ConnectSeq(b))
                    q == AcceptFailed(r, p, replaced)
                IN  /\ sock' = [sock EXCEPT ![b] = q]
                    /\ rank' = [rank EXCEPT ![b[1]] =
                          IF Early(b) # <<>> \/ (q.lossy /\ q.state = "closed" /\ replaced)
                          THEN @ ELSE b]
          /\ wire' = [wire EXCEPT ![b] = <<>>]
          /\ UNCHANGED <<link, mark>>
       \/ /\ Lookup(b[1]) # None /\ Early(b) = <<>>
          /\ Replace(b, LAMBDA r : AcceptFailed(r, p, TRUE), <<>>)
    /\ UNCHANGED <<policy, handed, got, faults>>

-----------------------------------------------------------------------------
(* The reader thread: the loop of reader(), and the delivery thread.       *)

\* The delivery queue q with message m.  A repetition changes nothing that
\* is seen here, so it is not kept: m is in the queue or came out.
Queued(q, m, seen) == IF m \in seen \cup {q[i] : i \in DOMAIN q} THEN q ELSE Append(q, m)

\* (mutant) in_seq is advanced before the look at the socket's state.
ReadMessageEarly(s) ==
    LET item == Head(wire[s])
        dead == sock[s].state \in {"closed", "connecting"}
    IN
    /\ sock[s].reader = "reading"
    /\ wire[s] # <<>>
    /\ item.tag = "msg"
    /\ wire' = [wire EXCEPT ![s] = Tail(@)]
    /\ sock' = [sock EXCEPT ![s] = ReaderLoops(
            IF dead THEN [@ EXCEPT !.inSeq = item.seq]
            ELSE [@ EXCEPT !.inSeq = item.seq, !.inq = Queued(@, item.m, got[s[1]])])]
    /\ UNCHANGED <<policy, rank, link, handed, got, mark, faults>>

\* A message is put on the delivery queue whatever its number: one that was
\* read before loses a reference, but is not skipped.
ReadMessage(s) ==
    LET item == Head(wire[s])
        dead == sock[s].state \in {"closed", "connecting"}
    IN
    /\ sock[s].reader = "reading"
    /\ wire[s] # <<>>
    /\ item.tag = "msg"
    /\ wire' = [wire EXCEPT ![s] = Tail(@)]
    /\ sock' = [sock EXCEPT ![s] = ReaderLoops(
            IF dead THEN sock[s]
            ELSE [sock[s] EXCEPT !.inSeq = item.seq,
                                 !.inq = Queued(sock[s].inq, item.m, got[s[1]])])]
    /\ UNCHANGED <<policy, rank, link, handed, got, mark, faults>>

ReadAck(s) ==
    /\ sock[s].reader = "reading"
    /\ wire[s] # <<>>
    /\ Head(wire[s]).tag = "ack"
    /\ wire' = [wire EXCEPT ![s] = Tail(@)]
    /\ sock' = [sock EXCEPT ![s] = ReaderLoops(
            IF @.state = "closed" THEN @ ELSE Acknowledged(@, Head(wire[s]).seq))]
    /\ UNCHANGED <<policy, rank, link, handed, got, mark, faults>>

\* The connection is gone and what had arrived over it is read.
ReadFails(s) ==
    /\ sock[s].reader = "reading"
    /\ wire[s] = <<>>
    /\ link[s] = None
    /\ Fault(s, sock[s], TRUE, FALSE)
    /\ UNCHANGED <<policy, handed, got, faults>>

\* A reader that sleeps through standby looks at the state again.
ReaderWakes(s) ==
    /\ sock[s].reader = "standby"
    /\ sock[s].state # "standby"
    /\ sock' = [sock EXCEPT ![s] = ReaderLoops(@)]
    /\ UNCHANGED <<policy, rank, link, wire, handed, got, mark, faults>>

\* DelayedDelivery::entry() and the dispatch queue behind it.
Deliver(s) ==
    LET m == Head(sock[s].inq) IN
    /\ sock[s].inq # <<>>
    /\ sock' = [sock EXCEPT ![s].inq = Tail(@)]
    /\ got' = [got EXCEPT ![s[1]] = @ \cup {m}]
    /\ UNCHANGED <<policy, rank, link, wire, handed, mark, faults>>

\* Both threads have ended: unlock_maybe_reap() hands the socket to reaper().
Reap(s) ==
    /\ sock[s].state # "free"
    /\ sock[s].reader = "none" /\ sock[s].writer = "none"
    /\ sock' = [sock EXCEPT ![s] = Free]
    /\ rank' = [rank EXCEPT ![s[1]] = IF @ = s THEN None ELSE @]
    /\ Shutdown(s)
    /\ UNCHANGED <<policy, handed, got, mark, faults>>

-----------------------------------------------------------------------------
\* The network loses a connection, and with it any of what was on its way.
Break(s) ==
    /\ faults < MaxFaults
    /\ link[s] # None
    /\ faults' = faults + 1
    /\ link' = [link EXCEPT ![s] = None, ![link[s]] = None]
    /\ \E i \in 0..Len(wire[s]), j \in 0..Len(wire[link[s]]) :
        wire' = [wire EXCEPT ![s] = SubSeq(@, 1, i), ![link[s]] = SubSeq(@, 1, j)]
    /\ UNCHANGED <<policy, sock, rank, handed, got, mark>>

Writer(s) ==
    \/ WriterLeavesStandby(s) \/ JoinReader(s) \/ Connect(s) \/ ReadReply(s) \/ NoReply(s)
    \/ TakeAck(s) \/ TakeMessage(s) \/ WriteOut(s) \/ AckWritten(s)
    \/ WriteFails(s) \/ WriterExits(s)
Reader(s) ==
    \/ AcceptNew(s) \/ AcceptExisting(s) \/ AcceptLost(s) \/ AcceptFails(s)
    \/ ReadMessage(s) \/ ReadAck(s) \/ ReadFails(s) \/ ReaderWakes(s)

\* The threads of a socket, and the reaper.
Runs(s) == Writer(s) \/ Reader(s) \/ Deliver(s) \/ Reap(s)

Next ==
    \/ \E e \in Ends : Send(e) \/ SendFirst(e) \/ MarkDown(e)
    \/ \E s \in Ids : Runs(s) \/ Break(s)

Spec == Init /\ [][Next]_vars

\* The system is never idle while some thread of a socket can run; nothing
\* obliges the application or the network to act.
LiveSpec == Spec /\ WF_vars(\E s \in Ids : Runs(s))

\* Every thread that can run does, and the reaper as well.
FairSpec ==
    Spec /\ \A s \in Ids : /\ WF_vars(Writer(s)) /\ WF_vars(Reader(s))
                           /\ WF_vars(Deliver(s)) /\ WF_vars(Reap(s))

-----------------------------------------------------------------------------
\* The numbers of the unacknowledged messages are the last ones given out, in
\* order: requeue_sent() may take them back by counting, and a message that
\* is sent again gets the number it had.  Checked together with the types.
SentIsTail ==
    /\ TypeOK
    /\ \A s \in Ids : \A i \in DOMAIN sock[s].sent :
           sock[s].sent[i].seq = sock[s].outSeq - Len(sock[s].sent) + i

\* A socket that carries a session is the registered one: the application's
\* next message takes the same way as the last.  So it is where one end only
\* accepts and nobody calls mark_down().  Between two ends that both connect a
\* socket that waits for its reader can be replaced, and opens all the same,
\* unregistered: the root is that of ClosedForGood.
OpenIsRegistered ==
    (\E e \in Ends : policy[e].server) =>
        \A s \in Ids : sock[s].state = "open" => rank[s[1]] = s

\* The two ends of an open connection agree on the connect_seq of the session
\* and on whether it is lossy.
EndsAgree ==
    \A s \in Ids :
        LET t == link[s] IN
        t # None /\ sock[s].state = "open" /\ sock[t].state = "open"
            => sock[s].cseq = sock[t].cseq /\ sock[s].lossy = sock[t].lossy

\* An acknowledgement, whatever connection it comes over, only makes
\* handle_ack() forget messages that the peer has read: the numbers still
\* mean the same messages after they were taken back and given out again.
\* Not so once a connect record of an earlier connection is accepted after the
\* newer session was opened, which the check that is commented out would
\* refuse: the server resets its session and numbers from one again, while the
\* client acknowledges what it read before.  That takes two breaks and three
\* messages of a client and a stateful server.
AckedWasRead ==
    \A s \in Ids :
        LET e == Peer(s[1])
            hasRead == got[e]
                \cup UNION {{sock[t].inq[i] : i \in DOMAIN sock[t].inq} : t \in SocketsOf(e)}
        IN  \A i \in DOMAIN wire[s], j \in DOMAIN sock[s].sent :
                wire[s][i].tag = "ack" /\ sock[s].sent[j].seq <= wire[s][i].seq
                    => sock[s].sent[j].m \in hasRead \cup 1..mark[s[1]]

\* A socket that was stopped stays stopped: mark_down() closes the connection.
ClosedForGood ==
    [][\A s \in Ids : sock[s].state = "closed" => sock'[s].state \in {"closed", "free"}]_vars

\* What either end hands over comes out at the other in order, and nothing is
\* missing that was handed over since the last reset of the session.
First == INSTANCE SessionChannel WITH
    MaxSent <- MostSent(1), sent <- handed[1], out <- got[2], mark <- mark[1]
Second == INSTANCE SessionChannel WITH
    MaxSent <- MostSent(2), sent <- handed[2], out <- got[1], mark <- mark[2]
FromFirst == First!Spec
\* ... and what the second end hands over arrives as long as the first one,
\* which alone can make connections, keeps a socket for the session.
FromSecond ==
    \A m \in 1..MostSent(2) :
        (m <= handed[2]) ~> (m \in got[1] \/ m <= mark[2] \/ rank[1] = None)

\* A client that connects again, and never waits in standby, does not come with
\* the very connect_seq of the socket registered for it, however long its
\* connect record took: that tie answers RETRY_SESSION each time.
NoTie ==
    \A e \in Ends :
        policy[e].server /\ ~policy[Peer(e)].server /\ ~policy[Peer(e)].standby =>
            \A b \in SocketsOf(e) :
                sock[b].reader = "accepting" /\ wire[b] # <<>> /\ Lookup(e) # None
                    => ConnectSeq(b) # sock[rank[e]].cseq

\* A socket that lost its connection, whose policy asks for a reconnection
\* and that has messages to send, does not stay without a session for ever.
Disconnected(s) ==
    /\ s # None
    /\ policy[s[1]].resetcheck
    /\ sock[s].state \in {"standby", "connecting"}
    /\ sock[s].outq # <<>>
Reconnects == Disconnected(rank[1]) ~> ~Disconnected(rank[1])
=============================================================================
