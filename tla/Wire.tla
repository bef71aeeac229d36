-------------------------------- MODULE Wire --------------------------------
(***************************************************************************)
(* How messages become bytes of a TCP stream and come out of it again:     *)
(* write_message(), write_ack(), write_keepalive() and do_sendmsg() at one *)
(* end, tcp_read(), buffered_recv() and read_message() at the other.       *)
(*                                                                         *)
(* The reading end prefetches: bytes are received into _recv_buf and       *)
(* served from there, without a lock.  Its writer thread, and whoever      *)
(* calls stop(), drop the prefetched bytes and the descriptor under the    *)
(* reader's feet (shutdown_socket()), and the writer opens the next        *)
(* stream.  So the reader's loads and stores are steps of their own.       *)
(*                                                                         *)
(* A byte is <<stream, item, k>>: which stream it was written to, and that *)
(* it is byte k of that item of the script.  A checksum tells bytes that   *)
(* are those of one item, in order, from all others.                       *)
(***************************************************************************)
EXTENDS Integers, Sequences, FiniteSets, SequencesExt

CONSTANTS
  Script,       \* what the peer writes on every stream: a sequence of items
  HeaderLen,    \* sizeof(msg_header)
  AckLen,       \* the bytes of an acknowledgement's number
  FooterLen,    \* sizeof(msg_footer)
  IovMax,       \* SM_IOV_MAX
  Prefetch,     \* _recv_max_prefetch
  Page,         \* PAGE_SIZE
  MaxBytes,     \* the limit of the policy's throttle of bytes (_throttler_bytes)
  MaxMessages,  \* the limit of its throttle of messages (_throttler_messages)
  NumStreams,   \* bound: streams opened one after the other
  Servers       \* the values of Policy::_server the runs take up

\* An item is what a handshake starts a stream with, an acknowledgement, a
\* keepalive, or a message: the lengths of its front and middle, those of the
\* segments of its data, and the offset the data asks to be aligned for.
WireAssumption ==
  /\ {HeaderLen, AckLen, FooterLen, Prefetch, Page, NumStreams} \subseteq Nat \ {0}
  /\ IovMax \in Nat /\ IovMax > 4
  /\ {MaxBytes, MaxMessages} \subseteq Nat
  /\ \A i \in DOMAIN Script : Script[i].kind \in {"hello", "message", "ack", "keepalive"}
  /\ \A i \in DOMAIN Script : Script[i].kind = "hello" <=> i = 1
  /\ Servers \subseteq BOOLEAN

VARIABLES
  \* the writing end
  stream,       \* which stream is open, or was last
  next,         \* the item to write next on it
  iov,          \* _msgvec: what the current sendmsg() still has to send
  group,        \* which group of entries of the item this is; 0 between items
  net,          \* the bytes sent and not yet received
  broken,       \* the peer or the network closed the stream
  \* the reading end
  server,       \* Policy::_server
  state,        \* _state
  fd,           \* whether _fd is open
  recv,         \* _recv_buf, _recv_len, _recv_ofs
  rd,           \* the reading thread
  sent,         \* whether messages wait in _sent for an acknowledgement
  \* what came of it
  held,         \* the counts of the two throttles
  alive,        \* the messages delivered and not yet destroyed
  log           \* the items taken out of each stream, in order

outVars == <<stream, next, iov, group, broken>>
sockVars == <<server, state, fd, sent>>
doneVars == <<held, alive, log>>
vars == <<outVars, net, sockVars, recv, rd, doneVars>>

Least(a, b) == IF a < b THEN a ELSE b
Add(s) == FoldLeft(LAMBDA n, x : n + x, 0, s)

(***************************************************************************)
(* What is written: the lengths of the pieces of an item, in groups of at  *)
(* most IovMax entries.                                                    *)
(***************************************************************************)
Segments(i) ==
  SelectSeq(<<Script[i].front, Script[i].middle>> \o Script[i].data, LAMBDA n : n > 0)

\* write_message(): tag, header, segments, footer
Groups(i) ==
  LET put(gs, n) == IF Len(Last(gs)) >= IovMax - 2 THEN Append(gs, <<n>>)
                    ELSE Front(gs) \o <<Append(Last(gs), n)>>
      filled == FoldLeft(put, <<<<1, HeaderLen>>>>, Segments(i))
  IN  Front(filled) \o <<Append(Last(filled), FooterLen)>>

\* the groups of the other items: tag and number, the tag alone
Pieces(i) ==
  CASE Script[i].kind = "message" -> Groups(i)
    [] Script[i].kind = "ack" -> <<<<1, AckLen>>>>
    [] OTHER -> <<<<1>>>>

\* the entries of group g of item i: where in the item, how long
Entries(i, g) ==
  LET before == Add(FlattenSeq(SubSeq(Pieces(i), 1, g - 1)))
      ls == Pieces(i)[g]
  IN  [e \in DOMAIN ls |-> [base |-> before + Add(SubSeq(ls, 1, e - 1)), len |-> ls[e]]]

Size(i) == Add(FlattenSeq(Pieces(i)))
BytesOf(i, es) ==
  FlattenSeq([e \in DOMAIN es |-> [k \in 1 .. es[e].len |-> <<stream, i, es[e].base + k>>]])
IovLen(es) == Add([e \in DOMAIN es |-> es[e].len])

\* (mutant) The base of an entry sent in part is not moved.
RECURSIVE AdvancedInPlace(_, _)
AdvancedInPlace(es, r) ==
  IF r = 0 THEN es
  ELSE IF Head(es).len <= r THEN AdvancedInPlace(Tail(es), r - Head(es).len)
  ELSE <<[Head(es) EXCEPT !.len = @ - r]>> \o Tail(es)

\* what is left of the entries when r bytes were sent
RECURSIVE Advanced(_, _)
Advanced(es, r) ==
  IF r = 0 THEN es
  ELSE IF Head(es).len <= r THEN Advanced(Tail(es), r - Head(es).len)
  ELSE <<[base |-> Head(es).base + r, len |-> Head(es).len - r]>> \o Tail(es)

WriteItem ==
  /\ fd /\ ~broken /\ iov = <<>> /\ group = 0
  /\ next <= Len(Script)
  /\ iov' = Entries(next, 1)
  /\ group' = 1
  /\ UNCHANGED <<stream, next, net, broken, sockVars, recv, rd, doneVars>>

\* one sendmsg() that takes r bytes; the last one ends the group
Sendmsg ==
  /\ fd /\ ~broken /\ iov # <<>>
  /\ \E r \in 1 .. IovLen(iov) :
       /\ net' = net \o SubSeq(BytesOf(next, iov), 1, r)
       /\ iov' = Advanced(iov, r)
  /\ UNCHANGED <<stream, next, group, broken, sockVars, recv, rd, doneVars>>

\* the group is sent: the next one, or the item is written
GroupSent ==
  /\ fd /\ ~broken /\ iov = <<>> /\ group # 0
  /\ IF group < Len(Pieces(next))
     THEN iov' = Entries(next, group + 1) /\ group' = group + 1 /\ UNCHANGED next
     ELSE iov' = <<>> /\ group' = 0 /\ next' = next + 1
  /\ UNCHANGED <<stream, net, broken, sockVars, recv, rd, doneVars>>

\* the connection breaks; what is under way may or may not be received still
Break ==
  /\ fd /\ ~broken
  /\ broken' = TRUE
  /\ UNCHANGED <<stream, next, iov, group, net, sockVars, recv, rd, doneVars>>

(***************************************************************************)
(* The reading end: losing and opening a stream.                           *)
(***************************************************************************)
NoBytes == [buf |-> <<>>, len |-> 0, ofs |-> 0]
recv_reset(b) == [b EXCEPT !.len = 0, !.ofs = 0]

\* the reader at the top of its loop, about to read a tag
Reading(p, n, bytes) ==
  [pc |-> "wait", part |-> p, need |-> n, ask |-> 0, sofar |-> 0, len |-> 0,
   got |-> bytes, size |-> -1]
Ended == [Reading("tag", 0, <<>>) EXCEPT !.pc = "ended"]
Asleep == [Reading("tag", 0, <<>>) EXCEPT !.pc = "standby"]

\* what reader() does when it has the lock again, in state s
Looped(s) ==
  CASE s \in {"closed", "connecting"} -> Ended
    [] s = "standby" -> Asleep
    [] OTHER -> Reading("tag", 1, <<>>)

\* fault() of a session that is kept: the reader's own of a connecting one returns early
AfterFault(s) == IF s # "open" THEN s ELSE IF server THEN "standby" ELSE "connecting"

\* fault() by the writer, at any step of the reader
WriterFaults ==
  /\ state = "open"
  /\ state' = AfterFault(state)
  /\ fd' = FALSE
  /\ recv' = recv_reset(recv)
  /\ sent' = FALSE
  /\ UNCHANGED <<outVars, net, server, rd, doneVars>>

\* stop() by mark_down(), a lossy fault, a replacing socket
Stop ==
  /\ state # "closed"
  /\ rd.part # "hello"            \* connecting() holds the lock
  /\ state' = "closed"
  /\ fd' = FALSE
  /\ recv' = recv_reset(recv)
  /\ UNCHANGED <<outVars, net, server, sent, rd, doneVars>>

\* the writer has messages written that wait for an acknowledgement
WriterSends ==
  /\ state = "open" /\ fd /\ ~sent
  /\ sent' = TRUE
  /\ UNCHANGED <<outVars, net, server, state, fd, recv, rd, doneVars>>

\* connecting(): the old reader is joined, the writer opens a stream and reads the handshake
Connect ==
  /\ state = "connecting" /\ rd.pc = "ended" /\ stream < NumStreams
  /\ stream' = stream + 1
  /\ next' = 1 /\ iov' = <<>> /\ group' = 0 /\ net' = <<>> /\ broken' = FALSE
  /\ fd' = TRUE
  /\ recv' = recv_reset(recv)
  /\ rd' = Reading("hello", 1, <<>>)
  /\ UNCHANGED <<server, state, sent, doneVars>>

(***************************************************************************)
(* The reading end: tcp_read_wait() and buffered_recv().                   *)
(***************************************************************************)
Pending(b) == b.len > b.ofs
Item(bytes) == Last(bytes)[2]

\* alloc_aligned_buffer(): the pieces data is received into, cut at pages
AlignedPieces(n, off) ==
  LET head == IF off % Page = 0 THEN 0 ELSE Least(Page - (off % Page), n)
      rest == n - head
  IN  <<head, rest - (rest % Page), rest % Page>>

\* what of the piece that is being filled is left, with n bytes of the data to come
PieceLeft(i, n) ==
  LET p == AlignedPieces(Add(Script[i].data), Script[i].off)
  IN  CASE n > p[2] + p[3] -> n - p[2] - p[3]
        [] n <= p[2] + p[3] /\ n > p[3] -> n - p[3]
        [] OTHER -> n
Asks == IF rd.part = "data" THEN PieceLeft(Item(rd.got), rd.need) ELSE rd.need

\* bytes i of a stream that are those of one item, from byte k on, in order
Genuine(bytes, k) ==
  /\ bytes[1][3] = k
  /\ \A j \in DOMAIN bytes : bytes[j] = <<bytes[1][1], bytes[1][2], k + j - 1>>

Payload(i) == Add(Segments(i))
NoneHeld == [bytes |-> 0, messages |-> 0]

\* (mutant) What fails keeps the place of its message.
DethrottledBytes ==
  IF rd.size < 0 THEN held ELSE [held EXCEPT !.bytes = @ - rd.size]

\* out_dethrottle of read_message(), if the throttles were passed
Dethrottled ==
  IF rd.size < 0 THEN held
  ELSE [bytes |-> held.bytes - rd.size, messages |-> held.messages - 1]

\* A read that fails ends the item: fault(), and the state is looked at again.
\* fault() of a connecting socket's reader, and of a closed socket, returns early.
Failed ==
  LET faults == rd.part = "hello" \/ state \in {"open", "standby"}
      s == AfterFault(state)
  IN  /\ held' = Dethrottled
      /\ state' = s
      /\ fd' = (fd /\ ~faults)
      /\ recv' = IF faults THEN recv_reset(recv) ELSE recv
      /\ sent' = (sent /\ ~faults)
      /\ rd' = Looped(s)
      /\ UNCHANGED <<outVars, net, server, alive, log>>

\* the reader is done with an item and looks at the state again
ItemDone == rd' = Looped(state)

\* tcp_read_wait(): prefetched bytes, or poll() reports bytes and no hangup
WaitReady ==
  /\ rd.pc = "wait"
  /\ Pending(recv) \/ (fd /\ ~broken /\ net # <<>>)
  /\ rd' = [rd EXCEPT !.pc = "load", !.ask = Asks]
  /\ UNCHANGED <<outVars, net, sockVars, recv, doneVars>>

\* poll() reports a hangup, even if bytes are left; or the timeout, or a signal
WaitFails ==
  /\ rd.pc = "wait"
  /\ ~Pending(recv)
  /\ Failed

\* buffered_recv(): the load of _recv_len
LoadLen ==
  /\ rd.pc = "load"
  /\ rd' = [rd EXCEPT !.pc = "serve", !.len = recv.len, !.sofar = 0]
  /\ UNCHANGED <<outVars, net, sockVars, recv, doneVars>>

\* the bytes a part consists of have come when `need' bytes were still missing before
Came(bytes, pc) ==
  LET n == rd.need - Len(bytes)
      k == rd.sofar + Len(bytes)
  IN  rd' = [rd EXCEPT !.need = n, !.got = @ \o bytes, !.sofar = k,
                       !.pc = IF n = 0 THEN "part" ELSE IF k = rd.ask THEN "wait" ELSE pc]

\* the load of _recv_ofs, and what is prefetched goes first
Serve ==
  /\ rd.pc = "serve"
  /\ IF rd.len > recv.ofs
     THEN LET n == Least(rd.len - recv.ofs, rd.ask)
          IN  /\ Came(SubSeq(recv.buf, recv.ofs + 1, recv.ofs + n), "recv")
              /\ recv' = [recv EXCEPT !.ofs = @ + n]
     ELSE rd' = [rd EXCEPT !.pc = "recv"] /\ UNCHANGED recv
  /\ UNCHANGED <<outVars, net, sockVars, doneVars>>

Wanted == rd.ask - rd.sofar

\* more than the prefetch holds is received in place
RecvDirect ==
  /\ rd.pc = "recv" /\ fd /\ net # <<>>
  /\ Wanted > Prefetch
  /\ LET n == Least(Len(net), Wanted)
     IN  Came(SubSeq(net, 1, n), "wait") /\ net' = SubSeq(net, n + 1, Len(net))
  /\ UNCHANGED <<outVars, sockVars, recv, doneVars>>

RecvPrefetch ==
  /\ rd.pc = "recv" /\ fd /\ net # <<>>
  /\ Wanted <= Prefetch
  /\ LET n == Least(Len(net), Prefetch)
     IN  /\ recv' = [recv EXCEPT !.buf = SubSeq(net, 1, n) \o SubSeq(@, n + 1, Len(@))]
         /\ net' = SubSeq(net, n + 1, Len(net))
         /\ rd' = [rd EXCEPT !.pc = "publish", !.len = n]
  /\ UNCHANGED <<outVars, sockVars, doneVars>>

\* _recv_len and _recv_ofs are set, whatever happened to them meanwhile
Publish ==
  /\ rd.pc = "publish"
  /\ LET n == Least(Wanted, rd.len)
     IN  Came(SubSeq(recv.buf, 1, n), "wait") /\ recv' = [recv EXCEPT !.len = rd.len, !.ofs = n]
  /\ UNCHANGED <<outVars, net, sockVars, doneVars>>

\* nothing to receive, an error or the end: what was served is returned, if anything
RecvFails ==
  /\ rd.pc = "recv"
  /\ ~fd \/ broken \/ net = <<>>
  /\ IF rd.sofar > 0
     THEN rd' = [rd EXCEPT !.pc = "wait"] /\ UNCHANGED <<outVars, net, sockVars, recv, doneVars>>
     ELSE Failed

(***************************************************************************)
(* The reading end: reader() and read_message().                           *)
(***************************************************************************)
Part(p, n) == [rd EXCEPT !.pc = "wait", !.part = p, !.need = n]
At(p) == rd.pc = "part" /\ rd.part = p

\* the handshake is read by the writer in connecting(), which then starts the reader
HelloRead ==
  /\ At("hello")
  /\ IF Genuine(rd.got, 1) /\ Script[Item(rd.got)].kind = "hello"
     THEN /\ state' = "open"
          /\ rd' = Reading("tag", 1, <<>>)
          /\ UNCHANGED <<outVars, net, server, fd, sent, recv, held, alive>>
          /\ log' = [log EXCEPT ![stream] = Append(@, 1)]
     ELSE Failed

\* what a byte says when it is read as a tag: a byte that is none may be any
TagOf(b) ==
  IF b[3] = 1 THEN {Script[b[2]].kind} ELSE {"message", "ack", "keepalive", "none"}

Takes(i) == log' = [log EXCEPT ![stream] = Append(@, i)]

TagRead ==
  /\ At("tag")
  /\ \E tag \in TagOf(rd.got[1]) :
       \/ /\ tag = "keepalive"
          /\ ItemDone
          /\ IF Genuine(rd.got, 1) THEN Takes(Item(rd.got)) ELSE UNCHANGED log
          /\ UNCHANGED <<outVars, net, sockVars, recv, held, alive>>
       \/ /\ tag \in {"ack", "message"}
          /\ rd' = IF tag = "ack" THEN Part("ack", AckLen) ELSE Part("header", HeaderLen)
          /\ UNCHANGED <<outVars, net, sockVars, recv, doneVars>>
       \/ tag \in {"none", "hello"} /\ Failed

\* an acknowledgement counts unless the socket was closed meanwhile
AckCounts == state # "closed"

\* An acknowledgement takes messages out of _sent; without any it does nothing.
AckRead ==
  /\ At("ack")
  /\ ItemDone
  /\ IF Genuine(rd.got, 1)
     THEN IF AckCounts THEN Takes(Item(rd.got)) ELSE UNCHANGED log
     ELSE IF AckCounts /\ sent THEN Takes(0) ELSE UNCHANGED log
  /\ UNCHANGED <<outVars, net, sockVars, recv, held, alive>>

\* the header's checksum covers the header
HeaderRead ==
  /\ At("header")
  /\ IF Genuine(Tail(rd.got), 2) /\ Script[Item(rd.got)].kind = "message"
     THEN /\ rd' = [rd EXCEPT !.pc = "messages"]
          /\ UNCHANGED <<outVars, net, sockVars, recv, doneVars>>
     ELSE Failed

\* Throttle::_should_wait()
ShouldWait(count, max, c) == (c <= max /\ count + c > max) \/ (c > max /\ count > max)

PayloadParts == <<"front", "middle", "data">>
Lengths(i) == <<Script[i].front, Script[i].middle, Add(Script[i].data)>>

\* the next part of item i after part p, and its length
NextPart(i, p) ==
  LET left == SelectSeq(<<1, 2, 3>>, LAMBDA j : Lengths(i)[j] > 0 /\ (p = "header" \/
                \E h \in 1 .. j - 1 : PayloadParts[h] = p))
  IN  IF left = <<>> THEN <<"footer", FooterLen>>
      ELSE <<PayloadParts[left[1]], Lengths(i)[left[1]]>>
GoesOn(i, p) == LET n == NextPart(i, p) IN Part(n[1], n[2])

ThrottleMessages ==
  /\ rd.pc = "messages"
  /\ ~ShouldWait(held.messages, MaxMessages, 1)
  /\ held' = [held EXCEPT !.messages = @ + 1]
  /\ rd' = [rd EXCEPT !.pc = "bytes"]
  /\ UNCHANGED <<outVars, net, sockVars, recv, alive, log>>

\* a message without payload takes no bytes
ThrottleBytes ==
  LET n == Payload(Item(rd.got))
  IN  /\ rd.pc = "bytes"
      /\ n = 0 \/ ~ShouldWait(held.bytes, MaxBytes, n)
      /\ held' = [held EXCEPT !.bytes = @ + n]
      /\ rd' = [GoesOn(Item(rd.got), "header") EXCEPT !.size = n]
      /\ UNCHANGED <<outVars, net, sockVars, recv, alive, log>>

PayloadRead ==
  /\ rd.pc = "part" /\ rd.part \in {"front", "middle", "data"}
  /\ rd' = GoesOn(Item(SubSeq(rd.got, 1, 1 + HeaderLen)), rd.part)
  /\ UNCHANGED <<outVars, net, sockVars, recv, doneVars>>

\* the checksums of front, middle and data, which the footer holds
Intact(i) == Genuine(Tail(rd.got), 2) /\ Len(rd.got) = Size(i)

\* the message is kept unless the socket was closed, or connects anew, meanwhile
Keeps == state \notin {"closed", "connecting"}

Read(i) ==
  /\ IF Keeps
     THEN alive' = alive \cup {<<stream, i>>} /\ Takes(i) /\ UNCHANGED held
     ELSE held' = Dethrottled /\ UNCHANGED <<alive, log>>
  /\ ItemDone
  /\ UNCHANGED <<outVars, net, sockVars, recv>>

\* A footer that does not say MSG_FOOTER_COMPLETE drops the message and nothing else;
\* one that does not fit, or a message decode_message() knows no type of, is a failure.
FooterRead ==
  LET i == Item(SubSeq(rd.got, 1, 1 + HeaderLen))
  IN  /\ At("footer")
      /\ \/ Intact(i) /\ Read(i)
         \/ /\ ~Intact(i)
            /\ held' = Dethrottled
            /\ ItemDone
            /\ UNCHANGED <<outVars, net, sockVars, recv, alive, log>>
         \/ Failed

\* a message is destroyed and gives back what it took of the throttles
Destroy ==
  \E m \in alive :
    /\ alive' = alive \ {m}
    /\ held' = [bytes |-> held.bytes - Payload(m[2]), messages |-> held.messages - 1]
    /\ UNCHANGED <<outVars, net, sockVars, recv, rd, log>>

(***************************************************************************)
(* The specification.                                                      *)
(***************************************************************************)
Init ==
  /\ stream = 0 /\ next = 1 /\ iov = <<>> /\ group = 0 /\ net = <<>> /\ broken = TRUE
  /\ server \in Servers
  /\ state = "connecting" /\ fd = FALSE /\ recv = NoBytes /\ rd = Ended /\ sent = FALSE
  /\ held = NoneHeld /\ alive = {}
  /\ log = [s \in 1 .. NumStreams |-> <<>>]

Next ==
  \/ WriteItem \/ Sendmsg \/ GroupSent \/ Break
  \/ WriterFaults \/ Stop \/ WriterSends \/ Connect
  \/ WaitReady \/ WaitFails \/ LoadLen \/ Serve
  \/ RecvDirect \/ RecvPrefetch \/ Publish \/ RecvFails
  \/ HelloRead \/ TagRead \/ AckRead \/ HeaderRead
  \/ ThrottleMessages \/ ThrottleBytes \/ PayloadRead \/ FooterRead \/ Destroy

Spec == Init /\ [][Next]_vars

(***************************************************************************)
(* Properties.                                                             *)
(***************************************************************************)

\* Whatever the reader takes out of a stream is what was written to that
\* stream, item after item from the first, none twice, none torn, none from
\* the stream before: although prefetched bytes survive a fault() that comes
\* while the reader receives, and the number of an acknowledgement has no
\* checksum.
Framed ==
  \A s \in DOMAIN log : log[s] = [i \in DOMAIN log[s] |-> i]

\* No byte is lost or repeated on the way: what the reader has of the item it
\* reads, what is prefetched, what is under way and what the writer has still
\* to send of the item it writes follow each other in the stream, as long as
\* nobody drops it.
StreamBytes(b) ==
  rd.got \o SubSeq(b.buf, b.ofs + 1, b.len) \o net \o BytesOf(next, iov)
Contiguous ==
  (state = "open" /\ rd.pc \in {"wait", "part"} /\ rd.part # "hello") =>
    LET bs == StreamBytes(recv)
    IN  \A j \in 2 .. Len(bs) :
          \/ bs[j][2] = bs[j - 1][2] /\ bs[j][3] = bs[j - 1][3] + 1
          \/ bs[j][2] = bs[j - 1][2] + 1 /\ bs[j][3] = 1 /\ bs[j - 1][3] = Size(bs[j - 1][2])

\* The throttles hold what the messages not yet destroyed took and what the
\* reader has taken for the one it reads: each path out of read_message() and
\* reader() gives back exactly what it took.
Accounted ==
  LET reads == IF rd.size < 0 THEN 0 ELSE rd.size
      one == IF rd.size >= 0 \/ rd.pc = "bytes" THEN 1 ELSE 0
      bytes == FoldLeft(LAMBDA n, m : n + Payload(m[2]), 0, SetToSeq(alive))
  IN  held = [bytes |-> bytes + reads, messages |-> Cardinality(alive) + one]
=============================================================================
