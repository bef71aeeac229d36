------------------------ MODULE SocketSessionProofs ------------------------
(***************************************************************************)
(* Proofs about the session, for any number of sockets, messages and       *)
(* faults, any policies and any width of connect_seq: what a socket keeps  *)
(* for a repetition are the last messages it numbered, in order, through   *)
(* every reconnection, replacement and reset; the ends of a connection     *)
(* that is open agree on its session; where one end only accepts, the open *)
(* socket is the registered one, as long as nobody calls mark_down(), and  *)
(* the other end never comes with the connect_seq it would be refused for. *)
(***************************************************************************)
EXTENDS SocketSession, SetInduction, SequenceTheorems, TLAPS

Readers == {"none", "accepting", "reading", "standby"}
Writers == {"none", "loop", "join", "await", "writing", "acking", "acked"}
Kept == [m : Messages, seq : Nat]

\* What travels over a connection.
MsgItems == [tag : {"msg"}, m : Messages, seq : Nat]
AckItems == [tag : {"ack"}, seq : Nat]
WireItems ==
    MsgItems \cup AckItems \cup [tag : {"connect", "retry"}, cseq : Nat]
    \cup [tag : {"ready"}, lossy : BOOLEAN] \cup [tag : {"wait", "resetsession"}]

\* The fields of a socket.
Sockets ==
    [state : States, known : BOOLEAN, lossy : BOOLEAN, cseq : Nat, inSeq : Nat,
     acked : Nat, outSeq : Nat, sent : Seq(Kept), outq : Seq(Messages),
     inq : Seq(Messages), reader : Readers, writer : Writers,
     out : {NoItem} \cup MsgItems \cup AckItems]
IsSocket(r) == r \in Sockets

\* What it keeps are the last messages it numbered; a lossy session keeps none.
IsLast(lossy, sent, n) ==
    /\ lossy => sent = <<>>
    /\ Len(sent) <= n
    /\ \A i \in 1..Len(sent) : sent[i].seq = n - Len(sent) + i
IsTail(r) == IsLast(r.lossy, r.sent, r.outSeq)

\* Its threads are where its state has them, and nothing is kept while it is
\* not connected, but for what the writer may be writing.
IsCalm(r) ==
    \/ r.state \in {"connecting", "standby"} /\ r.writer # "writing"
    \/ r.writer \in {"join", "await"}
    \/ r.reader = "accepting"
    => r.sent = <<>>
IsStaffed(r) ==
    /\ r.reader = "accepting" => r.state = "accepting" /\ r.writer = "none"
    /\ r.writer = "await" => r.reader = "none" /\ r.state \in {"connecting", "closed"}
    /\ r.writer = "join" => r.state \in {"connecting", "closed"}
    /\ r.state = "free" => r = Free
    /\ r.writer = "writing" => r.out \in MsgItems
    /\ r.writer \in {"acking", "acked"} => r.out \in AckItems

Good == {r \in Sockets : IsTail(r) /\ IsCalm(r) /\ IsStaffed(r)}

\* Socket s, its connection l, what it has to read and the registered ones: a
\* socket that is to connect has no connection; one that accepts has a connect
\* record to read first, or lost its connection; it is not registered yet.
IsIdle(r) ==
    \/ r.state \in {"connecting", "standby"} /\ r.writer # "await"
    \/ r.writer = "join"
    \/ r.state = "free"
Connects == [tag : {"connect"}, cseq : Nat]
IsPlaced(s, r, l, w, rk) ==
    /\ IsIdle(r) => l = None
    /\ r.state = "free" \/ r.reader = "accepting" => s \notin {rk[1], rk[2]}
    /\ r.reader = "accepting" => IF w = <<>> THEN l = None ELSE w[1] \in Connects

IsSession(sk, rk, lk, wr) ==
    /\ sk \in [Ids -> Good]
    /\ rk \in [Ends -> Ids \cup {None}]
    /\ \A e \in Ends : rk[e] \in SocketsOf(e) \cup {None}
    /\ lk \in [Ids -> Ids \cup {None}]
    /\ \A s \in Ids : lk[s] # None => lk[lk[s]] = s /\ lk[s] # s
    /\ wr \in [Ids -> Seq(WireItems)]
    /\ \A s \in Ids : IsPlaced(s, sk[s], lk[s], wr[s], rk)

Counted ==
    /\ policy \in Policies
    /\ handed \in [Ends -> Nat]
    /\ got \in [Ends -> SUBSET Messages]
    /\ mark \in [Ends -> Nat]
    /\ faults \in 0..MaxFaults

SessionInv == Counted /\ IsSession(sock, rank, link, wire)

-----------------------------------------------------------------------------
(* The functions that change a socket                                      *)

\* A new socket keeps nothing.
LEMMA NewIsGood ==
    ASSUME NEW state \in {"free", "accepting", "connecting"}
    PROVE  IsSocket(NewSocket(state)) /\ IsTail(NewSocket(state))
<1>1. <<>> \in Seq(Kept) /\ <<>> \in Seq(Messages) /\ Len(<<>>) = 0
  BY EmptySeq
<1>2. IsSocket(NewSocket(state))
  BY <1>1 DEF NewSocket, IsSocket, Sockets, States, Readers, Writers
<1>3. NewSocket(state).sent = <<>> /\ NewSocket(state).outSeq = 0
  BY DEF NewSocket
<1> QED
  BY <1>1, <1>2, <1>3 DEF IsTail, IsLast

\* The messages of what was kept are messages.
LEMMA KeptMessages ==
    ASSUME NEW s \in Seq(Kept)
    PROVE  /\ [i \in DOMAIN s |-> s[i].m] \in Seq(Messages)
           /\ Len([i \in DOMAIN s |-> s[i].m]) = Len(s)
<1>1. Len(s) \in Nat /\ DOMAIN s = 1..Len(s) /\ \A i \in 1..Len(s) : s[i] \in Kept
  BY LenProperties
<1>2. \A i \in 1..Len(s) : s[i].m \in Messages
  BY <1>1 DEF Kept
<1> QED
  BY <1>1, <1>2

\* requeue_sent() keeps nothing and takes the numbers back.
LEMMA RequeuedIsGood ==
    ASSUME NEW r, IsSocket(r), IsTail(r)
    PROVE  /\ IsSocket(Requeued(r)) /\ IsTail(Requeued(r))
           /\ Requeued(r).state = r.state /\ Requeued(r).reader = r.reader
           /\ Requeued(r).writer = r.writer /\ Requeued(r).out = r.out /\ Requeued(r).sent = <<>>
<1>1. PICK l : l = [i \in DOMAIN r.sent |-> r.sent[i].m] \o r.outq
  OBVIOUS
<1>2. r.sent \in Seq(Kept) /\ r.outq \in Seq(Messages) /\ r.outSeq \in Nat /\ Len(r.sent) \in Nat
  BY LenProperties DEF IsSocket, Sockets
<1>3. l \in Seq(Messages)
  BY <1>1, <1>2, KeptMessages, ConcatProperties
<1>4. PICK q : q = Requeued(r)
  OBVIOUS
<1>5. q = [r EXCEPT !.outq = l, !.sent = <<>>, !.outSeq = r.outSeq - Len(r.sent)]
  BY <1>1, <1>4 DEF Requeued
<1>6. r.outSeq - Len(r.sent) \in Nat
  BY <1>2 DEF IsTail, IsLast
<1>7. IsSocket(q) /\ q.sent = <<>> /\ q.outSeq = r.outSeq - Len(r.sent)
  BY <1>3, <1>5, <1>6, EmptySeq DEF IsSocket, Sockets
<1>8. IsTail(q)
  BY <1>6, <1>7, EmptySeq DEF IsTail, IsLast
<1>9. q.state = r.state /\ q.reader = r.reader /\ q.writer = r.writer /\ q.out = r.out
  BY <1>5 DEF IsSocket, Sockets
<1> QED
  BY <1>4, <1>7, <1>8, <1>9

\* connect_seq stays a number.
LEMMA NextSeqType == \A c \in Nat : NextSeq(c) \in Nat
BY SessionAssumption DEF NextSeq

\* discard_out_queue() keeps nothing,
LEMMA DiscardedIsGood ==
    ASSUME NEW r, IsSocket(r)
    PROVE  /\ IsSocket(Discarded(r)) /\ IsTail(Discarded(r))
           /\ Discarded(r).state = r.state /\ Discarded(r).reader = r.reader
           /\ Discarded(r).writer = r.writer /\ Discarded(r).out = r.out /\ Discarded(r).sent = <<>>
<1>1. PICK q : q = Discarded(r)
  OBVIOUS
<1>2. <<>> \in Seq(Kept) /\ <<>> \in Seq(Messages) /\ Len(<<>>) = 0
  BY EmptySeq
<1>3. q = [r EXCEPT !.sent = <<>>, !.outq = <<>>, !.inq = <<>>]
  BY <1>1 DEF Discarded
<1>4. IsSocket(q) /\ q.sent = <<>> /\ q.outSeq \in Nat
  BY <1>2, <1>3 DEF IsSocket, Sockets
<1>5. q.state = r.state /\ q.reader = r.reader /\ q.writer = r.writer /\ q.out = r.out
  BY <1>3 DEF IsSocket, Sockets
<1> QED
  BY <1>1, <1>2, <1>4, <1>5 DEF IsTail, IsLast

\* ... nor does was_session_reset().
LEMMA SessionResetIsGood ==
    ASSUME NEW r, IsSocket(r)
    PROVE  /\ IsSocket(SessionReset(r)) /\ IsTail(SessionReset(r))
           /\ SessionReset(r).state = r.state /\ SessionReset(r).reader = r.reader
           /\ SessionReset(r).writer = r.writer /\ SessionReset(r).out = r.out /\ SessionReset(r).sent = <<>>
<1>1. PICK d, q : d = Discarded(r) /\ q = SessionReset(r)
  OBVIOUS
<1>2. /\ IsSocket(d) /\ IsTail(d) /\ d.state = r.state /\ d.reader = r.reader
      /\ d.writer = r.writer /\ d.out = r.out /\ d.sent = <<>>
  BY <1>1, DiscardedIsGood
<1>3. q = [d EXCEPT !.inSeq = 0, !.cseq = 0]
  BY <1>1 DEF SessionReset
<1>4. IsSocket(q) /\ q.sent = d.sent /\ q.outSeq = d.outSeq /\ q.lossy = d.lossy
  BY <1>2, <1>3 DEF IsSocket, Sockets
<1>5. q.state = d.state /\ q.reader = d.reader /\ q.writer = d.writer /\ q.out = d.out
  BY <1>2, <1>3 DEF IsSocket, Sockets
<1> QED
  BY <1>1, <1>2, <1>4, <1>5 DEF IsTail

\* fault() ends the session, or keeps it and takes the numbers back.
LEMMA FaultedIsGood ==
    ASSUME NEW r, IsSocket(r), IsTail(r), NEW p, NEW onread
    PROVE  /\ IsSocket(Faulted(r, p, onread)) /\ IsTail(Faulted(r, p, onread))
           /\ Faulted(r, p, onread).reader = r.reader
           /\ Faulted(r, p, onread).writer = r.writer /\ Faulted(r, p, onread).out = r.out
           /\ IF Ignored(r, onread) THEN Faulted(r, p, onread) = r
              ELSE /\ Faulted(r, p, onread).state \in {"closed", "standby", "connecting"}
                   /\ Faulted(r, p, onread).sent = <<>>
<1>1. PICK f : f = Faulted(r, p, onread)
  OBVIOUS
<1>2. CASE Ignored(r, onread)
  BY <1>1, <1>2 DEF Faulted
<1>3. CASE ~Ignored(r, onread) /\ Drops(r, onread)
  <2>1. PICK d : d = Discarded(r)
    OBVIOUS
  <2>2. /\ IsSocket(d) /\ IsTail(d) /\ d.reader = r.reader /\ d.writer = r.writer /\ d.out = r.out
        /\ d.sent = <<>>
    BY <2>1, DiscardedIsGood
  <2>3. f = [d EXCEPT !.state = "closed"]
    BY <1>1, <1>3, <2>1 DEF Faulted
  <2>4. /\ IsSocket(f) /\ f.sent = d.sent /\ f.outSeq = d.outSeq /\ f.lossy = d.lossy
        /\ f.state = "closed"
        /\ f.reader = d.reader /\ f.writer = d.writer /\ f.out = d.out
    BY <2>2, <2>3 DEF IsSocket, Sockets, States
  <2> QED
    BY <1>1, <1>3, <2>2, <2>4, EmptySeq DEF IsTail
<1>4. CASE ~Ignored(r, onread) /\ ~Drops(r, onread)
  <2>1. PICK d : d = Requeued(r)
    OBVIOUS
  <2>2. /\ IsSocket(d) /\ IsTail(d) /\ d.reader = r.reader /\ d.writer = r.writer /\ d.out = r.out
        /\ d.sent = <<>>
    BY <2>1, RequeuedIsGood
  <2>3. f = Resumed(d, p)
    BY <1>1, <1>4, <2>1 DEF Faulted
  <2>4. \/ f = [d EXCEPT !.state = "standby"]
        \/ f = d /\ d.state = "connecting"
        \/ f = [d EXCEPT !.state = "connecting", !.cseq = NextSeq(d.cseq)]
    BY <2>3 DEF Resumed
  <2>5. NextSeq(d.cseq) \in Nat
    BY <2>2, NextSeqType DEF IsSocket, Sockets
  <2>6. /\ IsSocket(f) /\ f.sent = d.sent /\ f.outSeq = d.outSeq /\ f.lossy = d.lossy
        /\ f.state \in {"closed", "standby", "connecting"}
        /\ f.reader = d.reader /\ f.writer = d.writer /\ f.out = d.out
    <3>1. CASE f = [d EXCEPT !.state = "standby"]
      BY <2>2, <3>1 DEF IsSocket, Sockets, States
    <3>2. CASE f = d /\ d.state = "connecting"
      BY <2>2, <3>2
    <3>3. CASE f = [d EXCEPT !.state = "connecting", !.cseq = NextSeq(d.cseq)]
      BY <2>2, <2>5, <3>3 DEF IsSocket, Sockets, States
    <3> QED
      BY <2>4, <3>1, <3>2, <3>3
  <2> QED
    BY <1>1, <1>4, <2>2, <2>6 DEF IsTail
<1> QED
  BY <1>2, <1>3, <1>4

\* The reader goes where the state sends it.
LEMMA ReaderLoopsIsGood ==
    ASSUME NEW r, IsSocket(r), IsTail(r)
    PROVE  /\ IsSocket(ReaderLoops(r)) /\ IsTail(ReaderLoops(r))
           /\ ReaderLoops(r).reader = (CASE r.state \in {"closed", "connecting"} -> "none"
                                         [] r.state = "standby" -> "standby"
                                         [] OTHER -> "reading")
           /\ ReaderLoops(r).state = r.state
           /\ ReaderLoops(r).writer = r.writer /\ ReaderLoops(r).out = r.out
           /\ ReaderLoops(r).sent = r.sent
<1>1. PICK q, n : q = ReaderLoops(r) /\ n = (CASE r.state \in {"closed", "connecting"} -> "none"
                                         [] r.state = "standby" -> "standby"
                                         [] OTHER -> "reading")
  OBVIOUS
<1>2. q = [r EXCEPT !.reader = n]
  BY <1>1 DEF ReaderLoops
<1>3. n \in Readers
  BY <1>1 DEF Readers
<1>4. /\ IsSocket(q) /\ q.sent = r.sent /\ q.outSeq = r.outSeq /\ q.lossy = r.lossy
      /\ q.reader = n /\ q.state = r.state /\ q.writer = r.writer /\ q.out = r.out
  BY <1>2, <1>3 DEF IsSocket, Sockets
<1> QED
  BY <1>1, <1>4 DEF IsTail

\* A message that is taken gets the next number.
LEMMA TookIsGood ==
    ASSUME NEW r, IsSocket(r), IsTail(r), r.outq # <<>>
    PROVE  /\ IsSocket(Took(r)) /\ IsTail(Took(r))
           /\ Took(r).state = r.state /\ Took(r).reader = r.reader
           /\ Took(r).writer = "writing" /\ Took(r).out \in MsgItems
<1>1. PICK item, q, o, l : /\ item = [m |-> Head(r.outq), seq |-> r.outSeq + 1]
                           /\ q = Took(r)
                           /\ o = [tag |-> "msg", m |-> item.m, seq |-> item.seq]
                           /\ l = IF r.lossy THEN r.sent ELSE Append(r.sent, item)
  OBVIOUS
<1>2. /\ r.sent \in Seq(Kept) /\ r.outq \in Seq(Messages) /\ r.outSeq \in Nat
      /\ Len(r.sent) \in Nat /\ DOMAIN r.sent = 1..Len(r.sent)
  BY LenProperties DEF IsSocket, Sockets
<1>3. Head(r.outq) \in Messages /\ Tail(r.outq) \in Seq(Messages)
  BY <1>2, HeadTailProperties
<1>4. item \in Kept /\ item.seq = r.outSeq + 1 /\ o \in MsgItems
  BY <1>1, <1>2, <1>3 DEF Kept, MsgItems
<1>5. q = [r EXCEPT !.outSeq = r.outSeq + 1, !.outq = Tail(r.outq), !.sent = l, !.out = o,
                    !.writer = "writing"]
  BY <1>1 DEF Took
<1>6. l \in Seq(Kept) /\ IsLast(r.lossy, l, r.outSeq + 1)
  <2>1. CASE ~r.lossy
    <3>1. /\ l \in Seq(Kept) /\ Len(l) = Len(r.sent) + 1 /\ l[Len(r.sent) + 1] = item
          /\ \A i \in 1..Len(r.sent) : l[i] = r.sent[i]
      BY <1>1, <1>2, <1>4, <2>1, AppendProperties
    <3>2. \A i \in 1..Len(l) : i \in 1..Len(r.sent) \/ i = Len(r.sent) + 1
      BY <1>2, <3>1
    <3>3. Len(r.sent) <= r.outSeq /\ \A i \in 1..Len(r.sent) : r.sent[i].seq = r.outSeq - Len(r.sent) + i
      BY DEF IsTail, IsLast
    <3>4. ASSUME NEW i \in 1..Len(l) PROVE l[i].seq = r.outSeq + 1 - Len(l) + i
      <4>1. CASE i \in 1..Len(r.sent)
        <5>1. l[i] = r.sent[i] /\ r.sent[i].seq = r.outSeq - Len(r.sent) + i
          BY <3>1, <3>3, <4>1
        <5>2. Len(l) = Len(r.sent) + 1 /\ Len(r.sent) \in Nat /\ r.outSeq \in Nat /\ i \in Int
          BY <1>2, <3>1, <4>1
        <5>3. r.outSeq - Len(r.sent) + i = r.outSeq + 1 - Len(l) + i
          BY <5>2
        <5> QED
          BY <5>1, <5>3
      <4>2. CASE i = Len(r.sent) + 1
        BY <1>2, <1>4, <3>1, <4>2
      <4> QED
        BY <3>2, <4>1, <4>2
    <3>5. Len(l) <= r.outSeq + 1
      BY <1>2, <3>1, <3>3
    <3>6. IsLast(r.lossy, l, r.outSeq + 1)
      <4> PICK n : n = r.outSeq + 1
        OBVIOUS
      <4>1. ASSUME NEW i \in 1..Len(l) PROVE l[i].seq = n - Len(l) + i
        <5>1. l[i].seq = r.outSeq + 1 - Len(l) + i
          BY <3>4
        <5>2. r.outSeq \in Nat /\ Len(l) \in Nat /\ i \in Nat
          BY <1>2, <3>1
        <5> QED
          BY <5>1, <5>2
      <4>2. Len(l) <= n
        BY <3>5
      <4>3. IsLast(r.lossy, l, n)
        BY <2>1, <4>1, <4>2 DEF IsLast
      <4> QED
        BY <4>3
    <3> QED
      BY <3>1, <3>6
  <2>2. CASE r.lossy
    <3>1. l = <<>> /\ Len(l) = 0
      BY <1>1, <2>2, EmptySeq DEF IsTail, IsLast
    <3> QED
      BY <1>2, <3>1, EmptySeq DEF IsLast
  <2> QED
    BY <2>1, <2>2
<1>7. IsSocket(q)
  <2>1. r.outSeq + 1 \in Nat /\ o \in {NoItem} \cup MsgItems \cup AckItems /\ "writing" \in Writers
    BY <1>2, <1>4 DEF Writers
  <2>2. l \in Seq(Kept)
    BY <1>6
  <2> QED
    BY <1>3, <1>5, <2>1, <2>2 DEF IsSocket, Sockets
<1>8. /\ q.sent = l /\ q.outSeq = r.outSeq + 1 /\ q.out = o /\ q.lossy = r.lossy
      /\ q.state = r.state /\ q.reader = r.reader /\ q.writer = "writing"
  BY <1>5 DEF IsSocket, Sockets
<1>9. IsTail(q)
  BY <1>6, <1>8 DEF IsTail
<1> QED
  BY <1>1, <1>4, <1>7, <1>8, <1>9

\* handle_ack() takes some from the front.
LEMMA AcknowledgedIsGood ==
    ASSUME NEW r, IsSocket(r), IsTail(r), NEW seq \in Nat
    PROVE  /\ IsSocket(Acknowledged(r, seq)) /\ IsTail(Acknowledged(r, seq))
           /\ Acknowledged(r, seq).state = r.state /\ Acknowledged(r, seq).reader = r.reader
           /\ Acknowledged(r, seq).writer = r.writer /\ Acknowledged(r, seq).out = r.out
           /\ r.sent = <<>> => Acknowledged(r, seq).sent = <<>>
<1> DEFINE P(k) == /\ \A i \in 1..k : r.sent[i].seq <= seq
                   /\ k < Len(r.sent) => r.sent[k + 1].seq > seq
           A == {k \in 0..Len(r.sent) : \A i \in 1..k : r.sent[i].seq <= seq}
<1>1. /\ r.sent \in Seq(Kept) /\ r.outSeq \in Nat /\ Len(r.sent) \in Nat
      /\ DOMAIN r.sent = 1..Len(r.sent) /\ \A i \in 1..Len(r.sent) : r.sent[i] \in Kept
  BY LenProperties DEF IsSocket, Sockets
<1>2. \E k \in 0..Len(r.sent) : P(k)
  <2>1. PICK k \in A : \A j \in A : j <= k
    <3>1. 0 \in A /\ A \in SUBSET (0..Len(r.sent)) /\ A \in SUBSET Nat
      BY <1>1
    <3> HIDE DEF A
    <3>2. IsFiniteSet(A)
      <4>1. IsFiniteSet(0..Len(r.sent))
        BY <1>1, FS_Interval
      <4> QED
        BY <3>1, <4>1, FS_Subset
    <3>3. \E m \in A : \A j \in A : m >= j
      BY <3>1, <3>2, GreatestNat
    <3>4. PICK m \in A : \A j \in A : m >= j
      BY <3>3
    <3>5. \A j \in A : j <= m
      BY <3>1, <3>4
    <3> QED
      BY <3>5
  <2>2. ASSUME k < Len(r.sent) PROVE r.sent[k + 1].seq > seq
    <3>1. k + 1 \in 0..Len(r.sent) /\ k + 1 \notin A /\ k + 1 \in 1..Len(r.sent)
      BY <1>1, <2>1, <2>2
    <3>2. \E i \in 1..(k + 1) : ~(r.sent[i].seq <= seq)
      BY <3>1
    <3>3. \A i \in 1..(k + 1) : i \in 1..k \/ i = k + 1
      BY <2>1
    <3>4. ~(r.sent[k + 1].seq <= seq)
      BY <2>1, <3>2, <3>3
    <3>5. r.sent[k + 1].seq \in Nat
      BY <1>1, <3>1 DEF Kept
    <3> QED
      BY <3>4, <3>5
  <2> QED
    BY <2>1, <2>2
<1>3. PICK n, l, q : /\ n = CHOOSE k \in 0..Len(r.sent) : P(k)
                     /\ l = SubSeq(r.sent, n + 1, Len(r.sent))
                     /\ q = Acknowledged(r, seq)
  OBVIOUS
<1>4. n \in 0..Len(r.sent)
  BY <1>2, <1>3
<1>5. q = [r EXCEPT !.sent = l]
  BY <1>3 DEF Acknowledged
<1> HIDE DEF P, A
<1>6. /\ l \in Seq(Kept) /\ Len(l) = Len(r.sent) - n
      /\ \A i \in 1..Len(l) : l[i] = r.sent[n + i]
  <2>1. PICK z, a, b : z = r.sent /\ a = n + 1 /\ b = Len(r.sent)
    OBVIOUS
  <2>2. /\ l \in Seq(Kept)
        /\ Len(l) = (IF a <= b THEN b - a + 1 ELSE 0)
        /\ \A i \in 1 .. b - a + 1 : l[i] = z[a + i - 1]
    <3>1. a \in Int /\ b \in Int /\ \A i \in a..b : z[i] \in Kept
      BY <1>1, <1>4, <2>1
    <3>2. l = SubSeq(z, a, b)
      BY <1>3, <2>1
    <3>3. /\ SubSeq(z, a, b) \in Seq(Kept)
          /\ Len(SubSeq(z, a, b)) = (IF a <= b THEN b - a + 1 ELSE 0)
          /\ \A i \in 1 .. b - a + 1 : SubSeq(z, a, b)[i] = z[a + i - 1]
      BY <3>1, SubSeqProperties
    <3> QED
      BY <3>2, <3>3
  <2>3. Len(l) = Len(r.sent) - n
    BY <1>1, <1>4, <2>1, <2>2
  <2>4. ASSUME NEW i \in 1..Len(l) PROVE l[i] = r.sent[n + i]
    <3>1. i \in 1 .. b - a + 1 /\ a + i - 1 = n + i
      BY <1>1, <1>4, <2>1, <2>3
    <3> QED
      BY <2>1, <2>2, <3>1
  <2> QED
    BY <2>2, <2>3, <2>4
<1>7. r.sent = <<>> => l = <<>>
  <2>1. r.sent = <<>> => Len(l) = 0
    BY <1>1, <1>4, <1>6, EmptySeq
  <2> QED
    BY <1>6, <2>1, EmptySeq
<1>8. IsLast(r.lossy, l, r.outSeq)
  <2>1. /\ Len(r.sent) <= r.outSeq /\ (r.lossy => r.sent = <<>>)
        /\ \A i \in 1..Len(r.sent) : r.sent[i].seq = r.outSeq - Len(r.sent) + i
    BY DEF IsTail, IsLast
  <2>2. ASSUME NEW i \in 1..Len(l) PROVE l[i].seq = r.outSeq - Len(l) + i
    <3>1. n + i \in 1..Len(r.sent) /\ l[i] = r.sent[n + i]
      BY <1>1, <1>4, <1>6
    <3>2. r.sent[n + i].seq = r.outSeq - Len(r.sent) + (n + i)
      BY <2>1, <3>1
    <3> QED
      BY <1>1, <1>4, <1>6, <3>1, <3>2
  <2> QED
    BY <1>1, <1>4, <1>6, <1>7, <2>1, <2>2 DEF IsLast
<1>9. IsSocket(q) /\ q.sent = l /\ q.outSeq = r.outSeq /\ q.lossy = r.lossy
  BY <1>5, <1>6 DEF IsSocket, Sockets
<1>10. q.state = r.state /\ q.reader = r.reader /\ q.writer = r.writer /\ q.out = r.out
  BY <1>5 DEF IsSocket, Sockets
<1> QED
  BY <1>3, <1>7, <1>8, <1>9, <1>10 DEF IsTail

\* A new socket that takes over a session keeps nothing of it itself.
LEMMA TakenOverIsGood ==
    ASSUME NEW r, IsSocket(r), r.sent = <<>>, NEW x, IsSocket(x), IsTail(x), NEW zero
    PROVE  /\ IsSocket(TakenOver(r, x, zero)) /\ IsTail(TakenOver(r, x, zero))
           /\ TakenOver(r, x, zero).sent = <<>>
           /\ TakenOver(r, x, zero).state = r.state /\ TakenOver(r, x, zero).reader = r.reader
           /\ TakenOver(r, x, zero).writer = r.writer /\ TakenOver(r, x, zero).out = r.out
<1>0. Len(<<>>) = 0
  BY EmptySeq
<1>1. CASE x.lossy
  <2>1. r.outSeq \in Nat
    BY DEF IsSocket, Sockets
  <2> QED
    BY <1>0, <1>1, <2>1 DEF TakenOver, IsTail, IsLast
<1>2. CASE ~x.lossy
  <2>1. PICK q, l, n, f : /\ q = Requeued(x) /\ l = q.outq \o r.outq
                          /\ n = (IF zero THEN 0 ELSE x.inSeq)
                          /\ f = TakenOver(r, x, zero)
    OBVIOUS
  <2>2. IsSocket(q)
    BY <2>1, RequeuedIsGood
  <2>3. q.outSeq \in Nat /\ q.outq \in Seq(Messages) /\ r.outq \in Seq(Messages) /\ n \in Nat
    BY <2>1, <2>2 DEF IsSocket, Sockets
  <2>4. l \in Seq(Messages)
    BY <2>1, <2>3, ConcatProperties
  <2>5. f = [r EXCEPT !.inSeq = n, !.acked = n, !.outSeq = q.outSeq, !.outq = l, !.inq = x.inq]
    BY <1>2, <2>1 DEF TakenOver
  <2>6. /\ IsSocket(f) /\ f.sent = <<>> /\ f.outSeq \in Nat
        /\ f.state = r.state /\ f.reader = r.reader /\ f.writer = r.writer /\ f.out = r.out
    BY <2>3, <2>4, <2>5 DEF IsSocket, Sockets
  <2> QED
    BY <1>0, <2>1, <2>6 DEF IsTail, IsLast
<1> QED
  BY <1>1, <1>2

\* What is left of the old one keeps nothing either.
LEMMA LeftOverIsGood ==
    ASSUME NEW x, IsSocket(x), IsTail(x)
    PROVE  /\ IsSocket(LeftOver(x)) /\ IsTail(LeftOver(x)) /\ LeftOver(x).sent = <<>>
           /\ LeftOver(x).state = "closed" /\ LeftOver(x).reader = x.reader
           /\ LeftOver(x).writer = x.writer /\ LeftOver(x).out = x.out
<1>1. PICK f, n, o, i : /\ f = LeftOver(x)
                        /\ n = (IF x.lossy THEN x.outSeq ELSE x.outSeq - Len(x.sent))
                        /\ o = (IF x.lossy THEN x.outq ELSE <<>>)
                        /\ i = (IF x.lossy THEN x.inq ELSE <<>>)
  OBVIOUS
<1>2. x.sent \in Seq(Kept) /\ x.outSeq \in Nat /\ Len(x.sent) \in Nat /\ Len(<<>>) = 0
  BY LenProperties, EmptySeq DEF IsSocket, Sockets
<1>3. n \in Nat /\ o \in Seq(Messages) /\ i \in Seq(Messages)
  BY <1>1, <1>2, EmptySeq DEF IsTail, IsLast, IsSocket, Sockets
<1>4. f = [x EXCEPT !.state = "closed", !.sent = <<>>, !.outSeq = n, !.outq = o, !.inq = i]
  BY <1>1 DEF LeftOver
<1>5. /\ IsSocket(f) /\ f.sent = <<>> /\ f.outSeq = n
      /\ f.state = "closed" /\ f.reader = x.reader /\ f.writer = x.writer /\ f.out = x.out
  BY <1>3, <1>4, EmptySeq DEF IsSocket, Sockets, States
<1> QED
  BY <1>1, <1>2, <1>3, <1>5 DEF IsTail, IsLast

\* open_socket() starts both threads.
LEMMA OpenedIsGood ==
    ASSUME NEW r, IsSocket(r), IsTail(r), NEW c \in Nat
    PROVE  /\ IsSocket(Opened(r, c)) /\ IsTail(Opened(r, c)) /\ Opened(r, c).sent = r.sent
           /\ Opened(r, c).state = "open" /\ Opened(r, c).reader = "reading"
           /\ Opened(r, c).writer = "loop" /\ Opened(r, c).out = r.out
           /\ Opened(r, c).outq = r.outq
<1>1. PICK f, n : f = Opened(r, c) /\ n = NextSeq(c) /\ n \in Nat
  BY NextSeqType
<1>2. f = [r EXCEPT !.cseq = n, !.state = "open", !.reader = "reading", !.writer = "loop"]
  BY <1>1 DEF Opened
<1>3. /\ IsSocket(f) /\ f.sent = r.sent /\ f.outSeq = r.outSeq /\ f.lossy = r.lossy
      /\ f.state = "open" /\ f.reader = "reading" /\ f.writer = "loop" /\ f.out = r.out
      /\ f.outq = r.outq
  <2>1. r \in Sockets /\ n \in Nat
    BY <1>1 DEF IsSocket
  <2>2. "open" \in States /\ "reading" \in Readers /\ "loop" \in Writers
    BY DEF States, Readers, Writers
  <2>3. f \in Sockets
    BY <1>2, <2>1, <2>2 DEF Sockets
  <2> QED
    BY <1>2, <2>1, <2>3 DEF IsSocket, Sockets
<1> QED
  BY <1>1, <1>3 DEF IsTail

\* accept_fail() leaves a socket that connects, waits or is closed.
LEMMA AcceptFailedIsGood ==
    ASSUME NEW r, IsSocket(r), IsTail(r), r.sent = <<>>, NEW p, NEW again
    PROVE  /\ IsSocket(AcceptFailed(r, p, again)) /\ IsTail(AcceptFailed(r, p, again))
           /\ AcceptFailed(r, p, again).sent = <<>>
           /\ AcceptFailed(r, p, again).state \in {"closed", "standby", "connecting"}
           /\ AcceptFailed(r, p, again).reader \in {"none", "standby"}
           /\ AcceptFailed(r, p, again).writer \in {"none", "loop"}
<1> DEFINE st == IF r.outq # <<>> THEN (IF p.server THEN "standby" ELSE "connecting")
                 ELSE IF again THEN "standby" ELSE "closed"
           wr == IF r.outq # <<>> \/ again THEN "loop" ELSE "none"
<1>1. PICK q, f, g, h : /\ q = [r EXCEPT !.state = st]
                        /\ f = Faulted(q, p, FALSE)
                        /\ g = [f EXCEPT !.writer = wr]
                        /\ h = ReaderLoops(g)
  OBVIOUS
<1>2. AcceptFailed(r, p, again) = h
  BY <1>1 DEF AcceptFailed
<1>3. st \in {"closed", "standby", "connecting"} /\ wr \in {"none", "loop"}
  OBVIOUS
<1> HIDE DEF st, wr
<1>4. /\ IsSocket(q) /\ q.sent = <<>> /\ q.outSeq = r.outSeq /\ q.lossy = r.lossy /\ q.state = st
  BY <1>1, <1>3 DEF IsSocket, Sockets, States
<1>5. IsTail(q)
  BY <1>4 DEF IsTail
<1>6. IsSocket(f) /\ IsTail(f) /\ f.sent = <<>> /\ f.state \in {"closed", "standby", "connecting"}
  <2>1. /\ IsSocket(f) /\ IsTail(f)
        /\ IF Ignored(q, FALSE) THEN f = q
           ELSE f.state \in {"closed", "standby", "connecting"} /\ f.sent = <<>>
    <3>1. /\ IsSocket(Faulted(q, p, FALSE)) /\ IsTail(Faulted(q, p, FALSE))
          /\ IF Ignored(q, FALSE) THEN Faulted(q, p, FALSE) = q
             ELSE /\ Faulted(q, p, FALSE).state \in {"closed", "standby", "connecting"}
                  /\ Faulted(q, p, FALSE).sent = <<>>
      BY <1>4, <1>5, FaultedIsGood
    <3>2. f = Faulted(q, p, FALSE)
      BY <1>1
    <3> HIDE DEF Ignored
    <3> QED
      BY <3>1, <3>2
  <2>2. CASE Ignored(q, FALSE)
    BY <1>3, <1>4, <2>1, <2>2
  <2>3. CASE ~Ignored(q, FALSE)
    BY <2>1, <2>3
  <2> QED
    BY <2>2, <2>3
<1>7. /\ IsSocket(g) /\ g.sent = f.sent /\ g.outSeq = f.outSeq /\ g.lossy = f.lossy
      /\ g.state = f.state /\ g.writer = wr
  <2>1. wr \in Writers
    BY <1>3 DEF Writers
  <2> QED
    BY <1>1, <1>3, <1>6, <2>1 DEF IsSocket, Sockets
<1>8. IsTail(g)
  BY <1>6, <1>7 DEF IsTail
<1>9. /\ IsSocket(h) /\ IsTail(h) /\ h.sent = g.sent /\ h.state = g.state /\ h.writer = g.writer
      /\ h.reader \in {"none", "standby"}
  <2>1. /\ IsSocket(h) /\ IsTail(h) /\ h.sent = g.sent /\ h.state = g.state /\ h.writer = g.writer
        /\ h.reader = (CASE g.state \in {"closed", "connecting"} -> "none"
                         [] g.state = "standby" -> "standby"
                         [] OTHER -> "reading")
    BY <1>1, <1>7, <1>8, ReaderLoopsIsGood
  <2>2. g.state = "closed" \/ g.state = "connecting" \/ g.state = "standby"
    BY <1>6, <1>7
  <2> QED
    BY <2>1, <2>2
<1> QED
  BY <1>2, <1>3, <1>6, <1>7, <1>9

-----------------------------------------------------------------------------
(* What a change of one part leaves                                        *)

\* None is no socket.
LEMMA NoneIsNone == None \notin Ids
BY DEF None, Ids, SocketsOf, Ends

\* A socket that changes, where it is placed well.
LEMMA SocketChanges ==
    ASSUME NEW sk, NEW rk, NEW lk, NEW wr, IsSession(sk, rk, lk, wr),
           NEW s \in Ids, NEW v \in Good, IsPlaced(s, v, lk[s], wr[s], rk)
    PROVE  IsSession([sk EXCEPT ![s] = v], rk, lk, wr)
<1>1. PICK f : f = [sk EXCEPT ![s] = v]
  OBVIOUS
<1>2. f \in [Ids -> Good] /\ f[s] = v /\ \A t \in Ids : t # s => f[t] = sk[t]
  BY <1>1 DEF IsSession
<1>3. ASSUME NEW t \in Ids PROVE IsPlaced(t, f[t], lk[t], wr[t], rk)
  BY <1>2 DEF IsSession
<1> QED
  BY <1>1, <1>2, <1>3 DEF IsSession

\* What a socket has to read changes.
LEMMA WireChanges ==
    ASSUME NEW sk, NEW rk, NEW lk, NEW wr, IsSession(sk, rk, lk, wr),
           NEW s \in Ids, NEW w \in Seq(WireItems), IsPlaced(s, sk[s], lk[s], w, rk)
    PROVE  IsSession(sk, rk, lk, [wr EXCEPT ![s] = w])
<1>1. PICK f : f = [wr EXCEPT ![s] = w]
  OBVIOUS
<1>2. f \in [Ids -> Seq(WireItems)] /\ f[s] = w /\ \A t \in Ids : t # s => f[t] = wr[t]
  BY <1>1 DEF IsSession
<1>3. ASSUME NEW t \in Ids PROVE IsPlaced(t, sk[t], lk[t], f[t], rk)
  BY <1>2 DEF IsSession
<1> QED
  BY <1>1, <1>2, <1>3 DEF IsSession

\* A reader that accepts nothing reads the next item.
LEMMA ItemRead ==
    ASSUME NEW sk, NEW rk, NEW lk, NEW wr, IsSession(sk, rk, lk, wr),
           NEW s \in Ids, wr[s] # <<>>, sk[s].reader # "accepting"
    PROVE  /\ IsSession(sk, rk, lk, [wr EXCEPT ![s] = Tail(wr[s])])
           /\ Head(wr[s]) \in WireItems
<1>1. wr[s] \in Seq(WireItems)
  BY DEF IsSession
<1>2. Head(wr[s]) \in WireItems /\ Tail(wr[s]) \in Seq(WireItems)
  BY <1>1, HeadTailProperties
<1>3. PICK w : w = Tail(wr[s])
  OBVIOUS
<1>4. IsPlaced(s, sk[s], lk[s], w, rk)
  BY DEF IsSession, IsPlaced
<1>5. IsSession(sk, rk, lk, [wr EXCEPT ![s] = w])
  BY <1>2, <1>3, <1>4, WireChanges
<1> QED
  BY <1>2, <1>3, <1>5

\* Another socket is registered, or none.
LEMMA RankChanges ==
    ASSUME NEW sk, NEW rk, NEW lk, NEW wr, IsSession(sk, rk, lk, wr),
           NEW e \in Ends, NEW s \in SocketsOf(e) \cup {None},
           s # None => sk[s].state # "free" /\ sk[s].reader # "accepting"
    PROVE  IsSession(sk, [rk EXCEPT ![e] = s], lk, wr)
<1>1. PICK f : f = [rk EXCEPT ![e] = s]
  OBVIOUS
<1>2. s \in Ids \cup {None}
  BY DEF Ids, Ends
<1>3. /\ f \in [Ends -> Ids \cup {None}]
      /\ \A d \in Ends : f[d] \in SocketsOf(d) \cup {None}
      /\ f[e] = s /\ \A d \in Ends : d # e => f[d] = rk[d]
  BY <1>1, <1>2 DEF IsSession
<1>4. ASSUME NEW t \in Ids PROVE IsPlaced(t, sk[t], lk[t], wr[t], f)
  <2>1. IsPlaced(t, sk[t], lk[t], wr[t], rk)
    BY DEF IsSession
  <2>2. ASSUME sk[t].state = "free" \/ sk[t].reader = "accepting" PROVE t \notin {f[1], f[2]}
    <3>1. t # s
      BY <2>2, NoneIsNone
    <3>2. t \notin {rk[1], rk[2]}
      BY <2>1, <2>2 DEF IsPlaced
    <3> QED
      BY <1>3, <3>1, <3>2 DEF Ends
  <2> QED
    BY <2>1, <2>2 DEF IsPlaced
<1> QED
  BY <1>1, <1>3, <1>4 DEF IsSession

\* The first items of a sequence.
LEMMA Beginning ==
    ASSUME NEW S, NEW w \in Seq(S), NEW k \in 0..Len(w)
    PROVE  /\ SubSeq(w, 1, k) \in Seq(S)
           /\ SubSeq(w, 1, k) # <<>> => w # <<>> /\ SubSeq(w, 1, k)[1] = w[1]
<1>1. PICK a, q : a = 1 /\ q = SubSeq(w, 1, k)
  OBVIOUS
<1>2. Len(w) \in Nat /\ k \in Nat /\ DOMAIN w = 1..Len(w) /\ \A i \in 1..Len(w) : w[i] \in S
  BY LenProperties
<1>3. a \in Int /\ k \in Int /\ \A i \in a..k : w[i] \in S
  BY <1>1, <1>2
<1>4. /\ SubSeq(w, a, k) \in Seq(S)
      /\ Len(SubSeq(w, a, k)) = (IF a <= k THEN k - a + 1 ELSE 0)
      /\ \A i \in 1 .. k - a + 1 : SubSeq(w, a, k)[i] = w[a + i - 1]
  BY <1>3, SubSeqProperties
<1>5. q \in Seq(S) /\ Len(q) = k /\ \A i \in 1..k : q[i] = w[1 + i - 1]
  BY <1>1, <1>2, <1>4
<1>6. ASSUME q # <<>> PROVE w # <<>> /\ q[1] = w[1]
  <2>1. k # 0
    BY <1>5, <1>6, EmptySeq
  <2>2. 1 \in 1..k /\ Len(w) # 0
    BY <1>2, <2>1
  <2>3. q[1] = w[1 + 1 - 1]
    BY <1>5, <2>2
  <2> QED
    BY <2>2, <2>3, EmptySeq
<1> QED
  BY <1>1, <1>5, <1>6

\* A connection is lost, whatever of what was on its way.
CutLink(lk, s) == [x \in Ids |-> IF lk[s] # None /\ x \in {s, lk[s]} THEN None ELSE lk[x]]
CutWire(lk, wr, s, i, k) ==
    [x \in Ids |-> IF x = s THEN SubSeq(wr[x], 1, i)
                   ELSE IF x = lk[s] THEN SubSeq(wr[x], 1, k) ELSE wr[x]]

LEMMA CutKeeps ==
    ASSUME NEW sk, NEW rk, NEW lk, NEW wr, IsSession(sk, rk, lk, wr),
           NEW s \in Ids, NEW i \in 0..Len(wr[s]), NEW k,
           IF lk[s] = None THEN k = 0 ELSE k \in 0..Len(wr[lk[s]])
    PROVE  /\ IsSession(sk, rk, CutLink(lk, s), CutWire(lk, wr, s, i, k))
           /\ CutLink(lk, s)[s] = None
<1>1. PICK f, g : f = CutLink(lk, s) /\ g = CutWire(lk, wr, s, i, k)
  OBVIOUS
<1>2. /\ lk \in [Ids -> Ids \cup {None}] /\ wr \in [Ids -> Seq(WireItems)]
      /\ \A t \in Ids : lk[t] # None => lk[lk[t]] = t /\ lk[t] # t
  BY DEF IsSession
<1>3. /\ f \in [Ids -> Ids \cup {None}] /\ f[s] = None
      /\ \A t \in Ids : f[t] # None => (f[t] = lk[t] /\ t # s /\ t # lk[s])
      /\ lk[s] # None => f[lk[s]] = None
      /\ \A t \in Ids : t # s /\ t # lk[s] => f[t] = lk[t]
  <2>1. f = [x \in Ids |-> IF lk[s] # None /\ x \in {s, lk[s]} THEN None ELSE lk[x]]
    BY <1>1 DEF CutLink
  <2>2. \A x \in Ids : f[x] = IF lk[s] # None /\ x \in {s, lk[s]} THEN None ELSE lk[x]
    BY <2>1
  <2>3. ASSUME NEW x \in Ids PROVE f[x] \in Ids \cup {None}
    BY <1>2, <2>2
  <2>4. f \in [Ids -> Ids \cup {None}]
    BY <2>1, <2>3
  <2>5. f[s] = None /\ (lk[s] # None => f[lk[s]] = None)
    BY <1>2, <2>2
  <2>6. ASSUME NEW t \in Ids
        PROVE  /\ f[t] # None => (f[t] = lk[t] /\ t # s /\ t # lk[s])
               /\ t # s /\ t # lk[s] => f[t] = lk[t]
    BY <1>2, <2>2, NoneIsNone
  <2> QED
    BY <2>4, <2>5, <2>6
<1>4. ASSUME NEW t \in Ids, f[t] # None PROVE f[f[t]] = t /\ f[t] # t
  <2>1. f[t] = lk[t] /\ t # s /\ t # lk[s] /\ lk[t] # None
    BY <1>3, <1>4
  <2>2. lk[t] \in Ids /\ lk[lk[t]] = t /\ lk[t] # t
    BY <1>2, <2>1
  <2>3. lk[t] # s /\ lk[t] # lk[s]
    BY <1>2, <2>1, <2>2
  <2> QED
    BY <1>3, <2>1, <2>2, <2>3
<1>5. ASSUME NEW t \in Ids
      PROVE  /\ g[t] \in Seq(WireItems)
             /\ g[t] # <<>> => wr[t] # <<>> /\ g[t][1] = wr[t][1]
             /\ g[t] = wr[t] \/ f[t] = None
  <2>1. CASE t = s
    BY <1>1, <1>2, <1>3, <2>1, Beginning DEF CutWire
  <2>2. CASE t # s /\ t = lk[s]
    <3>1. k \in 0..Len(wr[t]) /\ f[t] = None
      BY <1>3, <2>2, NoneIsNone
    <3>2. g[t] = SubSeq(wr[t], 1, k)
      BY <1>1, <2>2 DEF CutWire
    <3> QED
      BY <1>2, <3>1, <3>2, Beginning
  <2>3. CASE t # s /\ t # lk[s]
    BY <1>1, <1>2, <2>3 DEF CutWire
  <2> QED
    BY <2>1, <2>2, <2>3
<1>6. g \in [Ids -> Seq(WireItems)]
  <2>1. g = [x \in Ids |-> g[x]]
    BY <1>1 DEF CutWire
  <2> QED
    BY <1>5, <2>1
<1>7. ASSUME NEW t \in Ids PROVE IsPlaced(t, sk[t], f[t], g[t], rk)
  <2>1. IsPlaced(t, sk[t], lk[t], wr[t], rk)
    BY DEF IsSession
  <2>2. f[t] = None \/ f[t] = lk[t]
    BY <1>3
  <2>3. lk[t] = None => f[t] = None
    BY <2>2
  <2> QED
    BY <1>5, <2>1, <2>2, <2>3 DEF IsPlaced
<1> QED
  BY <1>1, <1>3, <1>4, <1>6, <1>7 DEF IsSession

\* Items that reach a socket go behind what it has to read; a socket that
\* accepts has something to read, as long as it has a connection.
LEMMA ItemsArrive ==
    ASSUME NEW sk, NEW rk, NEW lk, NEW wr, IsSession(sk, rk, lk, wr),
           NEW s \in Ids, lk[s] # None, NEW items \in Seq(WireItems)
    PROVE  IsSession(sk, rk, lk, [wr EXCEPT ![s] = wr[s] \o items])
<1>1. PICK w : w = wr[s] \o items
  OBVIOUS
<1>2. wr[s] \in Seq(WireItems) /\ IsPlaced(s, sk[s], lk[s], wr[s], rk)
  BY DEF IsSession
<1>3. w \in Seq(WireItems) /\ (wr[s] # <<>> => w # <<>> /\ w[1] = wr[s][1])
  <2>1. /\ w \in Seq(WireItems) /\ Len(w) = Len(wr[s]) + Len(items)
        /\ \A i \in 1..Len(wr[s]) : w[i] = wr[s][i]
    BY <1>1, <1>2, ConcatProperties
  <2>2. ASSUME wr[s] # <<>> PROVE w # <<>> /\ w[1] = wr[s][1]
    <3>1. Len(wr[s]) \in Nat /\ Len(wr[s]) # 0 /\ Len(items) \in Nat
      BY <1>2, <2>2, LenProperties, EmptySeq
    <3>2. Len(w) # 0 /\ 1 \in 1..Len(wr[s])
      BY <2>1, <3>1
    <3> QED
      BY <2>1, <3>2, EmptySeq
  <2> QED
    BY <2>1, <2>2
<1>4. IsPlaced(s, sk[s], lk[s], w, rk)
  BY <1>2, <1>3 DEF IsPlaced
<1> QED
  BY <1>1, <1>3, <1>4, WireChanges

\* shutdown_socket()
LEMMA ShutdownKeeps ==
    ASSUME IsSession(sock, rank, link, wire), NEW s \in Ids, Shutdown(s)
    PROVE  IsSession(sock, rank, link', wire') /\ link'[s] = None
<1>1. PICK i \in InHand(s), k \in Arrived(s) : Cut(s, i, k)
  BY DEF Shutdown
<1>2. link' = CutLink(link, s) /\ wire' = CutWire(link, wire, s, i, k)
  BY <1>1, NoneIsNone DEF Cut, CutLink, CutWire
<1>3. i \in 0..Len(wire[s])
  <2>1. wire[s] \in Seq(WireItems)
    BY DEF IsSession
  <2>2. Len(wire[s]) \in Nat /\ (wire[s] # <<>> => Len(wire[s]) # 0)
    BY <2>1, LenProperties, EmptySeq
  <2> QED
    BY <1>1, <2>2 DEF InHand
<1>4. IF link[s] = None THEN k = 0 ELSE k \in 0..Len(wire[link[s]])
  BY <1>1 DEF Arrived
<1>5. /\ IsSession(sock, rank, CutLink(link, s), CutWire(link, wire, s, i, k))
      /\ CutLink(link, s)[s] = None
  BY <1>3, <1>4, CutKeeps
<1> QED
  BY <1>2, <1>5

\* The fields of the sockets there are.
LEMMA TheSocket ==
    ASSUME IsSession(sock, rank, link, wire), NEW s \in Ids
    PROVE  /\ sock[s] \in Good /\ IsSocket(sock[s]) /\ IsTail(sock[s]) /\ IsCalm(sock[s])
           /\ IsStaffed(sock[s]) /\ IsPlaced(s, sock[s], link[s], wire[s], rank)
           /\ wire[s] \in Seq(WireItems) /\ link[s] \in Ids \cup {None}
           /\ s[1] \in Ends
<1>1. s[1] \in Ends
  BY DEF Ids, SocketsOf, Ends
<1> QED
  BY <1>1 DEF IsSession, Good, IsSocket

\* The registered socket stays registered or does not.
LEMMA RankStays ==
    ASSUME NEW sk, NEW lk, NEW wr, IsSession(sk, rank, lk, wr), NEW e \in Ends, NEW gone,
           rank' = [rank EXCEPT ![e] = IF gone THEN None ELSE @]
    PROVE  IsSession(sk, rank', lk, wr)
<1>1. CASE gone
  <2>1. rank' = [rank EXCEPT ![e] = None]
    BY <1>1
  <2>2. None \in SocketsOf(e) \cup {None}
    OBVIOUS
  <2>3. PICK n : n = None
    OBVIOUS
  <2>4. IsSession(sk, [rank EXCEPT ![e] = n], lk, wr)
    BY <2>2, <2>3, RankChanges
  <2> QED
    BY <2>1, <2>3, <2>4
<1>2. CASE ~gone
  <2>1. rank' = rank
    BY <1>2 DEF IsSession
  <2> QED
    BY <2>1
<1> QED
  BY <1>1, <1>2

\* fault(), of a reader or of any other thread
LEMMA FaultKeeps ==
    ASSUME SessionInv, NEW s \in Ids, NEW r, IsSocket(r), IsTail(r),
           NEW onread \in BOOLEAN, NEW reset, Fault(s, r, onread, reset),
           IF onread THEN r = sock[s] /\ r.reader = "reading"
           ELSE r.writer = "loop" /\ r.state # "free" /\ r.reader # "accepting"
    PROVE  IsSession(sock, rank, link, wire)' /\ mark' \in [Ends -> Nat]
<1>1. PICK q, v, p : /\ p = policy[s[1]] /\ q = Faulted(r, p, onread)
                     /\ v = IF onread THEN ReaderLoops(q) ELSE q
  OBVIOUS
<1>2. /\ IsSession(sock, rank, link, wire)
      /\ sock' = [sock EXCEPT ![s] = v]
      /\ rank' = [rank EXCEPT ![s[1]] = IF Drops(r, onread) /\ @ = s THEN None ELSE @]
      /\ IF Ignored(r, onread) THEN link' = link /\ wire' = wire ELSE Shutdown(s)
  BY <1>1 DEF SessionInv, Fault
<1>3. mark' \in [Ends -> Nat]
  BY DEF Fault, Resets, SessionInv, Counted
<1>4. /\ sock[s] \in Good /\ IsSocket(sock[s]) /\ IsTail(sock[s]) /\ IsCalm(sock[s])
      /\ IsStaffed(sock[s]) /\ IsPlaced(s, sock[s], link[s], wire[s], rank) /\ s[1] \in Ends
  BY <1>2, TheSocket
<1>5. /\ IsSocket(q) /\ IsTail(q) /\ q.reader = r.reader /\ q.writer = r.writer /\ q.out = r.out
      /\ IF Ignored(r, onread) THEN q = r
         ELSE q.state \in {"closed", "standby", "connecting"} /\ q.sent = <<>>
  <2>1. /\ IsSocket(Faulted(r, p, onread)) /\ IsTail(Faulted(r, p, onread))
        /\ Faulted(r, p, onread).reader = r.reader
        /\ Faulted(r, p, onread).writer = r.writer /\ Faulted(r, p, onread).out = r.out
        /\ IF Ignored(r, onread) THEN Faulted(r, p, onread) = r
           ELSE /\ Faulted(r, p, onread).state \in {"closed", "standby", "connecting"}
                /\ Faulted(r, p, onread).sent = <<>>
    BY FaultedIsGood
  <2>2. PICK h : h = Ignored(r, onread)
    OBVIOUS
  <2> QED
    BY <1>1, <2>1
<1>6. /\ IsSocket(v) /\ IsTail(v) /\ v.state = q.state /\ v.writer = q.writer /\ v.out = q.out
      /\ v.sent = q.sent
      /\ v.reader = IF onread THEN CASE q.state \in {"closed", "connecting"} -> "none"
                                     [] q.state = "standby" -> "standby"
                                     [] OTHER -> "reading"
                    ELSE q.reader
  <2>1. CASE onread
    BY <1>1, <1>5, <2>1, ReaderLoopsIsGood
  <2>2. CASE ~onread
    BY <1>1, <1>5, <2>2
  <2> QED
    BY <2>1, <2>2
<1>7. v.reader # "accepting" /\ v.state # "free" /\ v.writer # "await"
  <2>1. r.state # "free" /\ r.reader # "accepting" /\ r.writer # "await"
    <3>1. CASE onread
      <4>1. Free.reader = "none"
        BY DEF Free, NewSocket
      <4> QED
        BY <1>4, <3>1, <4>1 DEF IsStaffed
    <3>2. CASE ~onread
      BY <3>2
    <3> QED
      BY <3>1, <3>2
  <2>2. q.state # "free" /\ q.reader # "accepting" /\ q.writer # "await"
    <3>1. CASE Ignored(r, onread)
      BY <1>5, <2>1, <3>1
    <3>2. CASE ~Ignored(r, onread)
      BY <1>5, <2>1, <3>2
    <3> QED
      BY <3>1, <3>2
  <2>3. CASE onread
    BY <1>6, <2>2, <2>3
  <2>4. CASE ~onread
    BY <1>6, <2>2, <2>4
  <2> QED
    BY <2>3, <2>4
<1>8. v \in Good /\ (v.writer = "join" => v.sent = <<>> /\ Ignored(r, onread) /\ onread)
  <2>1. IsCalm(v) /\ (v.writer = "join" => v.sent = <<>> /\ Ignored(r, onread) /\ onread)
    <3>1. CASE ~Ignored(r, onread)
      <4>1. CASE onread
        <5>1. r.writer = "join" => r.state \in {"connecting", "closed"}
          BY <1>4, <4>1 DEF IsStaffed
        <5>2. r.state \notin {"connecting", "closed"}
          BY <3>1, <4>1 DEF Ignored
        <5> QED
          BY <1>5, <1>6, <3>1, <5>1, <5>2 DEF IsCalm
      <4>2. CASE ~onread
        BY <1>5, <1>6, <3>1, <4>2 DEF IsCalm
      <4> QED
        BY <4>1, <4>2
    <3>2. CASE Ignored(r, onread) /\ onread
      <4>1. v.sent = r.sent /\ v.writer = r.writer /\ v.state = r.state /\ IsCalm(r)
        BY <1>4, <1>5, <1>6, <3>2
      <4> QED
        BY <1>7, <3>2, <4>1 DEF IsCalm
    <3>3. CASE Ignored(r, onread) /\ ~onread
      <4>1. v.state = "closed" /\ v.writer = "loop"
        BY <1>5, <1>6, <3>3 DEF Ignored
      <4> QED
        BY <1>7, <4>1 DEF IsCalm
    <3> QED
      BY <3>1, <3>2, <3>3
  <2>2. IsStaffed(v)
    <3>1. CASE onread
      <4>1. /\ r.writer = "writing" => r.out \in MsgItems
            /\ r.writer \in {"acking", "acked"} => r.out \in AckItems
        BY <1>4, <3>1 DEF IsStaffed
      <4>2. v.writer = "join" => v.state \in {"connecting", "closed"}
        <5>1. v.writer = "join" => Ignored(r, onread)
          BY <2>1
        <5> QED
          BY <1>4, <1>5, <1>6, <3>1, <5>1 DEF IsStaffed
      <4> QED
        BY <1>5, <1>6, <1>7, <4>1, <4>2 DEF IsStaffed
    <3>2. CASE ~onread
      BY <1>5, <1>6, <1>7, <3>2 DEF IsStaffed
    <3> QED
      BY <3>1, <3>2
  <2> QED
    BY <1>6, <2>1, <2>2 DEF Good, IsSocket
<1>9. IsSession(sock', rank, link', wire')
  <2>1. CASE Ignored(r, onread)
    <3>1. IsIdle(v) => link[s] = None
      <4>1. CASE onread
        <5>1. v.state = r.state /\ v.writer = r.writer
          BY <1>5, <1>6, <2>1
        <5> QED
          BY <1>4, <4>1, <5>1 DEF IsPlaced, IsIdle
      <4>2. CASE ~onread
        <5>1. v.state = "closed" /\ v.writer = "loop"
          BY <1>5, <1>6, <2>1, <4>2 DEF Ignored
        <5> QED
          BY <5>1 DEF IsIdle
      <4> QED
        BY <4>1, <4>2
    <3>2. IsPlaced(s, v, link[s], wire[s], rank)
      BY <1>7, <3>1 DEF IsPlaced
    <3>3. link' = link /\ wire' = wire
      BY <1>2, <2>1
    <3> QED
      BY <1>2, <1>8, <3>2, <3>3, SocketChanges
  <2>2. CASE ~Ignored(r, onread)
    <3>1. Shutdown(s)
      BY <1>2, <2>2
    <3>2. IsSession(sock, rank, link', wire') /\ link'[s] = None
      BY <1>2, <3>1, ShutdownKeeps
    <3>3. IsPlaced(s, v, link'[s], wire'[s], rank)
      BY <1>7, <3>2 DEF IsPlaced
    <3> QED
      BY <1>2, <1>8, <3>2, <3>3, SocketChanges
  <2> QED
    BY <2>1, <2>2
<1>10. IsSession(sock', rank', link', wire')
  <2>1. PICK gone : gone = (Drops(r, onread) /\ rank[s[1]] = s)
    OBVIOUS
  <2>2. rank' = [rank EXCEPT ![s[1]] = IF gone THEN None ELSE @]
    BY <1>2, <2>1
  <2> QED
    BY <1>4, <1>9, <2>2, RankStays
<1> QED
  BY <1>3, <1>10

\* A socket whose threads stay where they are.
LEMMA SameStaff ==
    ASSUME NEW r \in Good, r.state # "free", NEW v, IsSocket(v), IsTail(v),
           v.state = r.state, v.reader = r.reader, v.writer = r.writer, v.out = r.out,
           r.sent = <<>> => v.sent = <<>>,
           NEW s, NEW l, NEW w, NEW rk, IsPlaced(s, r, l, w, rk)
    PROVE  v \in Good /\ IsPlaced(s, v, l, w, rk)
<1>1. IsCalm(r) /\ IsStaffed(r)
  BY DEF Good
<1>2. IsCalm(v) /\ IsStaffed(v)
  BY <1>1 DEF IsCalm, IsStaffed
<1>3. v \in Good
  BY <1>2 DEF Good, IsSocket
<1>4. IsPlaced(s, v, l, w, rk)
  BY DEF IsPlaced, IsIdle
<1> QED
  BY <1>3, <1>4

\* A reader that has read something goes to the head of its loop.
LEMMA Loops ==
    ASSUME NEW r \in Good, r.reader \in {"reading", "standby"},
           NEW s, NEW l, NEW w, NEW rk, IsPlaced(s, r, l, w, rk)
    PROVE  ReaderLoops(r) \in Good /\ IsPlaced(s, ReaderLoops(r), l, w, rk)
<1>1. IsSocket(r) /\ IsTail(r) /\ IsCalm(r) /\ IsStaffed(r)
  BY DEF Good, IsSocket
<1>2. PICK v : v = ReaderLoops(r)
  OBVIOUS
<1>3. /\ IsSocket(v) /\ IsTail(v)
      /\ v.reader = (CASE r.state \in {"closed", "connecting"} -> "none"
                       [] r.state = "standby" -> "standby"
                       [] OTHER -> "reading")
      /\ v.state = r.state /\ v.writer = r.writer /\ v.out = r.out /\ v.sent = r.sent
  BY <1>1, <1>2, ReaderLoopsIsGood
<1>4. v.reader # "accepting"
  BY <1>3
<1>5. r.state # "free" /\ r.writer # "await"
  <2>1. Free.reader = "none"
    BY DEF Free, NewSocket
  <2> QED
    BY <1>1, <2>1 DEF IsStaffed
<1>6. IsCalm(v) /\ IsStaffed(v)
  BY <1>1, <1>3, <1>4, <1>5 DEF IsCalm, IsStaffed
<1>7. v \in Good
  BY <1>3, <1>6 DEF Good, IsSocket
<1>8. IsPlaced(s, v, l, w, rk)
  BY <1>3, <1>4, <1>5 DEF IsPlaced, IsIdle
<1> QED
  BY <1>2, <1>7, <1>8

\* A registered socket is in use and accepts nothing.
LEMMA RegisteredIsUsed ==
    ASSUME IsSession(sock, rank, link, wire), NEW e \in Ends, rank[e] # None
    PROVE  /\ rank[e] \in Ids /\ rank[e] \in SocketsOf(e)
           /\ sock[rank[e]].state # "free" /\ sock[rank[e]].reader # "accepting"
<1>1. rank[e] \in Ids /\ rank[e] \in SocketsOf(e) /\ rank[e] \in {rank[1], rank[2]}
  BY DEF IsSession, Ends
<1>2. IsPlaced(rank[e], sock[rank[e]], link[rank[e]], wire[rank[e]], rank)
  BY <1>1 DEF IsSession
<1> QED
  BY <1>1, <1>2 DEF IsPlaced

-----------------------------------------------------------------------------
(* The actions keep the invariant                                          *)

\* The message that is handed over is one.
LEMMA HandedOver ==
    ASSUME SessionInv, NEW e \in Ends, MayHandOver(e)
    PROVE  handed[e] \in Nat /\ handed[e] + 1 \in Messages
<1>1. PICK l \in Loads[policy] : handed[e] < l[e]
  BY DEF MayHandOver
<1>2. policy \in Policies /\ handed[e] \in Nat
  BY DEF SessionInv, Counted
<1>3. l \in AllLoads /\ l[e] \in Nat
  BY <1>1, <1>2, SessionAssumption DEF AllLoads
<1>4. handed[e] + 1 \in 1..l[e]
  BY <1>1, <1>2, <1>3
<1>5. \A k \in AllLoads : \A d \in Ends : \A m \in 1..k[d] : m \in Messages
  BY DEF Messages
<1> QED
  BY <1>2, <1>3, <1>4, <1>5

LEMMA SendKeeps == ASSUME SessionInv, NEW e \in Ends, Send(e) PROVE SessionInv'
<1>1. PICK s, m, v : s = rank[e] /\ m = handed[e] + 1 /\ v = [sock[s] EXCEPT !.outq = Append(sock[s].outq, m)]
  OBVIOUS
<1>2. /\ IsSession(sock, rank, link, wire) /\ rank[e] # None
      /\ sock' = [sock EXCEPT ![s] = v] /\ rank' = rank /\ link' = link /\ wire' = wire
  BY <1>1 DEF SessionInv, Send, Lookup
<1>3. s \in Ids /\ sock[s].state # "free"
  BY <1>1, <1>2, RegisteredIsUsed
<1>4. m \in Messages /\ m \in Nat
  BY <1>1, HandedOver DEF Send
<1>5. /\ sock[s] \in Good /\ IsSocket(sock[s]) /\ IsTail(sock[s])
      /\ IsPlaced(s, sock[s], link[s], wire[s], rank)
  BY <1>2, <1>3, TheSocket
<1>6. PICK r, q : r = sock[s] /\ q = Append(r.outq, m)
  OBVIOUS
<1>7. q \in Seq(Messages)
  <2>1. r.outq \in Seq(Messages)
    BY <1>5, <1>6 DEF IsSocket, Sockets
  <2> QED
    BY <1>4, <1>6, <2>1, AppendProperties
<1>8. v = [r EXCEPT !.outq = q]
  BY <1>1, <1>6
<1>9. /\ IsSocket(v) /\ v.state = r.state /\ v.reader = r.reader /\ v.writer = r.writer
      /\ v.out = r.out /\ v.sent = r.sent /\ v.lossy = r.lossy /\ v.outSeq = r.outSeq
  BY <1>5, <1>6, <1>7, <1>8 DEF IsSocket, Sockets
<1>10. IsTail(v)
  BY <1>5, <1>6, <1>9 DEF IsTail
<1>11. v \in Good /\ IsPlaced(s, v, link[s], wire[s], rank)
  BY <1>3, <1>5, <1>6, <1>9, <1>10, SameStaff
<1>12. IsSession(sock', rank', link', wire')
  BY <1>2, <1>3, <1>11, SocketChanges
<1>13. Counted'
  BY DEF SessionInv, Counted, Send
<1> QED
  BY <1>12, <1>13 DEF SessionInv

LEMMA SendFirstKeeps == ASSUME SessionInv, NEW e \in Ends, SendFirst(e) PROVE SessionInv'
<1>1. PICK s \in FreeSocket(e) :
        /\ sock' = [sock EXCEPT ![s] =
                [NewSocket("connecting") EXCEPT !.known = TRUE,
                                                !.lossy = policy[e].lossy,
                                                !.outq = <<handed[e] + 1>>,
                                                !.writer = "loop"]]
        /\ rank' = [rank EXCEPT ![e] = s]
  BY DEF SendFirst
<1>2. IsSession(sock, rank, link, wire) /\ link' = link /\ wire' = wire
  BY DEF SessionInv, SendFirst
<1>3. s \in Ids /\ s \in SocketsOf(e) /\ sock[s].state = "free"
  BY DEF FreeSocket, Ids, Ends
<1>4. handed[e] + 1 \in Messages /\ policy[e].lossy \in BOOLEAN
  <2>1. handed[e] + 1 \in Messages
    BY HandedOver DEF SendFirst
  <2>2. policy \in Policies
    BY DEF SessionInv, Counted
  <2> QED
    BY <2>1, <2>2, SessionAssumption
<1>5. PICK r, v, o, y : /\ r = NewSocket("connecting") /\ o = <<handed[e] + 1>> /\ y = policy[e].lossy
                        /\ v = [r EXCEPT !.known = TRUE, !.lossy = y, !.outq = o, !.writer = "loop"]
  OBVIOUS
<1>6. sock' = [sock EXCEPT ![s] = v]
  BY <1>1, <1>5
<1>7. o \in Seq(Messages)
  BY <1>4, <1>5
<1>8. IsSocket(r) /\ r.sent = <<>> /\ r.outSeq = 0 /\ r.state = "connecting" /\ r.reader = "none"
  BY <1>5, NewIsGood DEF NewSocket
<1>9. /\ IsSocket(v) /\ v.sent = <<>> /\ v.outSeq = 0 /\ v.state = "connecting" /\ v.reader = "none"
      /\ v.writer = "loop"
  BY <1>4, <1>5, <1>7, <1>8 DEF IsSocket, Sockets, Writers
<1>10. IsTail(v) /\ IsCalm(v) /\ IsStaffed(v)
  BY <1>9, EmptySeq DEF IsTail, IsLast, IsCalm, IsStaffed
<1>11. v \in Good
  BY <1>9, <1>10 DEF Good, IsSocket
<1>12. link[s] = None
  BY <1>2, <1>3, TheSocket DEF IsPlaced, IsIdle
<1>13. IsPlaced(s, v, link[s], wire[s], rank)
  BY <1>9, <1>12 DEF IsPlaced
<1>14. IsSession(sock', rank, link, wire)
  BY <1>2, <1>3, <1>6, <1>11, <1>13, SocketChanges
<1>15. sock'[s] = v
  BY <1>2, <1>3, <1>6 DEF IsSession
<1>16. IsSession(sock', rank', link, wire)
  BY <1>1, <1>3, <1>9, <1>14, <1>15, RankChanges
<1>17. Counted'
  BY <1>4 DEF SessionInv, Counted, SendFirst
<1> QED
  BY <1>2, <1>16, <1>17 DEF SessionInv

LEMMA MarkDownKeeps == ASSUME SessionInv, NEW e \in Ends, MarkDown(e) PROVE SessionInv'
<1>1. PICK s, v : s = rank[e] /\ v = [sock[s] EXCEPT !.state = "closed"]
  OBVIOUS
<1>2. /\ IsSession(sock, rank, link, wire) /\ rank[e] # None /\ ~Locked(s)
      /\ rank' = [rank EXCEPT ![e] = None]
      /\ sock' = [sock EXCEPT ![s] = v] /\ Shutdown(s)
  BY <1>1 DEF SessionInv, MarkDown, Lookup
<1>3. s \in Ids /\ sock[s].state # "free" /\ sock[s].reader # "accepting"
  BY <1>1, <1>2, RegisteredIsUsed
<1>4. /\ sock[s] \in Good /\ IsSocket(sock[s]) /\ IsTail(sock[s]) /\ IsCalm(sock[s])
      /\ IsStaffed(sock[s]) /\ IsPlaced(s, sock[s], link[s], wire[s], rank)
  BY <1>2, <1>3, TheSocket
<1>5. PICK r : r = sock[s]
  OBVIOUS
<1>6. v = [r EXCEPT !.state = "closed"]
  BY <1>1, <1>5
<1>7. /\ IsSocket(v) /\ v.state = "closed" /\ v.reader = r.reader /\ v.writer = r.writer
      /\ v.out = r.out /\ v.sent = r.sent /\ v.lossy = r.lossy /\ v.outSeq = r.outSeq
  BY <1>4, <1>5, <1>6 DEF IsSocket, Sockets, States
<1>8. IsTail(v) /\ IsCalm(v) /\ IsStaffed(v)
  BY <1>3, <1>4, <1>5, <1>7 DEF IsTail, IsCalm, IsStaffed
<1>9. v \in Good
  BY <1>7, <1>8 DEF Good, IsSocket
<1>10. IsSession(sock, rank, link', wire') /\ link'[s] = None
  BY <1>2, <1>3, ShutdownKeeps
<1>11. IsPlaced(s, v, link'[s], wire'[s], rank)
  BY <1>3, <1>5, <1>7, <1>10 DEF IsPlaced
<1>12. IsSession(sock', rank, link', wire')
  BY <1>2, <1>3, <1>9, <1>10, <1>11, SocketChanges
<1>13. IsSession(sock', rank', link', wire')
  BY <1>2, <1>12, RankStays
<1>14. Counted'
  BY SessionAssumption DEF SessionInv, Counted, MarkDown, Resets
<1> QED
  BY <1>13, <1>14 DEF SessionInv

\* The writer: a socket that changes without its connection.
LEMMA WriterLeavesStandbyKeeps ==
    ASSUME SessionInv, NEW s \in Ids, WriterLeavesStandby(s) PROVE SessionInv'
<1>1. PICK r, v : r = sock[s] /\ v = [r EXCEPT !.state = "connecting"]
  OBVIOUS
<1>2. /\ IsSession(sock, rank, link, wire) /\ r.writer = "loop" /\ r.state = "standby"
      /\ sock' = [sock EXCEPT ![s] = v] /\ rank' = rank /\ link' = link /\ wire' = wire
  BY <1>1 DEF SessionInv, WriterLeavesStandby
<1>3. /\ IsSocket(r) /\ IsTail(r) /\ IsCalm(r)
      /\ IsStaffed(r) /\ IsPlaced(s, r, link[s], wire[s], rank)
  BY <1>1, <1>2, TheSocket
<1>4. /\ IsSocket(v) /\ v.state = "connecting" /\ v.reader = r.reader /\ v.writer = r.writer
      /\ v.out = r.out /\ v.sent = r.sent /\ v.lossy = r.lossy /\ v.outSeq = r.outSeq
  BY <1>1, <1>3 DEF IsSocket, Sockets, States
<1>5. v \in Good
  BY <1>2, <1>3, <1>4 DEF IsTail, IsCalm, IsStaffed, Good, IsSocket
<1>6. IsPlaced(s, v, link[s], wire[s], rank)
  BY <1>2, <1>3, <1>4 DEF IsPlaced, IsIdle
<1>7. IsSession(sock', rank', link', wire')
  BY <1>2, <1>5, <1>6, SocketChanges
<1>8. Counted'
  BY DEF SessionInv, Counted, WriterLeavesStandby
<1> QED
  BY <1>7, <1>8 DEF SessionInv

LEMMA JoinReaderKeeps == ASSUME SessionInv, NEW s \in Ids, JoinReader(s) PROVE SessionInv'
<1>1. PICK r, v : r = sock[s] /\ v = [r EXCEPT !.writer = "join"]
  OBVIOUS
<1>2. /\ IsSession(sock, rank, link, wire) /\ r.writer = "loop" /\ r.state = "connecting"
      /\ sock' = [sock EXCEPT ![s] = v] /\ rank' = rank /\ link' = link /\ wire' = wire
  BY <1>1 DEF SessionInv, JoinReader
<1>3. /\ IsSocket(r) /\ IsTail(r) /\ IsCalm(r)
      /\ IsStaffed(r) /\ IsPlaced(s, r, link[s], wire[s], rank)
  BY <1>1, <1>2, TheSocket
<1>4. /\ IsSocket(v) /\ v.state = r.state /\ v.reader = r.reader /\ v.writer = "join"
      /\ v.out = r.out /\ v.sent = r.sent /\ v.lossy = r.lossy /\ v.outSeq = r.outSeq
  BY <1>1, <1>3 DEF IsSocket, Sockets, Writers
<1>5. v \in Good
  BY <1>2, <1>3, <1>4 DEF IsTail, IsCalm, IsStaffed, Good, IsSocket
<1>6. IsPlaced(s, v, link[s], wire[s], rank)
  BY <1>2, <1>3, <1>4 DEF IsPlaced, IsIdle
<1>7. IsSession(sock', rank', link', wire')
  BY <1>2, <1>5, <1>6, SocketChanges
<1>8. Counted'
  BY DEF SessionInv, Counted, JoinReader
<1> QED
  BY <1>7, <1>8 DEF SessionInv

LEMMA WriterExitsKeeps == ASSUME SessionInv, NEW s \in Ids, WriterExits(s) PROVE SessionInv'
<1>1. PICK r, v : r = sock[s] /\ v = [r EXCEPT !.writer = "none"]
  OBVIOUS
<1>2. /\ IsSession(sock, rank, link, wire) /\ r.writer = "loop" /\ r.state = "closed"
      /\ sock' = [sock EXCEPT ![s] = v] /\ rank' = rank /\ link' = link /\ wire' = wire
  BY <1>1 DEF SessionInv, WriterExits
<1>3. /\ IsSocket(r) /\ IsTail(r) /\ IsCalm(r)
      /\ IsStaffed(r) /\ IsPlaced(s, r, link[s], wire[s], rank)
  BY <1>1, <1>2, TheSocket
<1>4. /\ IsSocket(v) /\ v.state = r.state /\ v.reader = r.reader /\ v.writer = "none"
      /\ v.out = r.out /\ v.sent = r.sent /\ v.lossy = r.lossy /\ v.outSeq = r.outSeq
  BY <1>1, <1>3 DEF IsSocket, Sockets, Writers
<1>5. v \in Good
  BY <1>2, <1>3, <1>4 DEF IsTail, IsCalm, IsStaffed, Good, IsSocket
<1>6. IsPlaced(s, v, link[s], wire[s], rank)
  BY <1>2, <1>3, <1>4 DEF IsPlaced, IsIdle
<1>7. IsSession(sock', rank', link', wire')
  BY <1>2, <1>5, <1>6, SocketChanges
<1>8. Counted'
  BY DEF SessionInv, Counted, WriterExits
<1> QED
  BY <1>7, <1>8 DEF SessionInv

LEMMA TakeAckKeeps == ASSUME SessionInv, NEW s \in Ids, TakeAck(s) PROVE SessionInv'
<1>1. PICK r, o, v : /\ r = sock[s] /\ o = [tag |-> "ack", seq |-> r.inSeq]
                     /\ v = [r EXCEPT !.out = o, !.writer = "acking"]
  OBVIOUS
<1>2. /\ IsSession(sock, rank, link, wire) /\ r.writer = "loop" /\ r.state = "open"
      /\ sock' = [sock EXCEPT ![s] = v] /\ rank' = rank /\ link' = link /\ wire' = wire
  BY <1>1 DEF SessionInv, TakeAck, CanWrite
<1>3. /\ IsSocket(r) /\ IsTail(r) /\ IsCalm(r)
      /\ IsStaffed(r) /\ IsPlaced(s, r, link[s], wire[s], rank)
  BY <1>1, <1>2, TheSocket
<1>4. o \in AckItems
  BY <1>1, <1>3 DEF IsSocket, Sockets, AckItems
<1>5. /\ IsSocket(v) /\ v.state = r.state /\ v.reader = r.reader /\ v.writer = "acking"
      /\ v.out = o /\ v.sent = r.sent /\ v.lossy = r.lossy /\ v.outSeq = r.outSeq
  <2>1. o \in {NoItem} \cup MsgItems \cup AckItems /\ "acking" \in Writers
    BY <1>4 DEF Writers
  <2> QED
    BY <1>1, <1>3, <2>1 DEF IsSocket, Sockets
<1>6. v \in Good
  BY <1>2, <1>3, <1>4, <1>5 DEF IsTail, IsCalm, IsStaffed, Good, IsSocket
<1>7. IsPlaced(s, v, link[s], wire[s], rank)
  BY <1>2, <1>3, <1>5 DEF IsPlaced, IsIdle
<1>8. IsSession(sock', rank', link', wire')
  BY <1>2, <1>6, <1>7, SocketChanges
<1>9. Counted'
  BY DEF SessionInv, Counted, TakeAck
<1> QED
  BY <1>8, <1>9 DEF SessionInv

LEMMA TakeMessageKeeps == ASSUME SessionInv, NEW s \in Ids, TakeMessage(s) PROVE SessionInv'
<1>1. PICK r, v : r = sock[s] /\ v = Took(r)
  OBVIOUS
<1>2. /\ IsSession(sock, rank, link, wire) /\ r.writer = "loop" /\ r.state = "open"
      /\ r.outq # <<>>
      /\ sock' = [sock EXCEPT ![s] = v] /\ rank' = rank /\ link' = link /\ wire' = wire
  BY <1>1 DEF SessionInv, TakeMessage, CanWrite
<1>3. /\ IsSocket(r) /\ IsTail(r) /\ IsCalm(r)
      /\ IsStaffed(r) /\ IsPlaced(s, r, link[s], wire[s], rank)
  BY <1>1, <1>2, TheSocket
<1>4. /\ IsSocket(v) /\ IsTail(v) /\ v.state = r.state /\ v.reader = r.reader
      /\ v.writer = "writing" /\ v.out \in MsgItems
  BY <1>1, <1>2, <1>3, TookIsGood
<1>5. v \in Good
  BY <1>2, <1>3, <1>4 DEF IsCalm, IsStaffed, Good, IsSocket
<1>6. IsPlaced(s, v, link[s], wire[s], rank)
  BY <1>2, <1>3, <1>4 DEF IsPlaced, IsIdle
<1>7. IsSession(sock', rank', link', wire')
  BY <1>2, <1>5, <1>6, SocketChanges
<1>8. Counted'
  BY DEF SessionInv, Counted, TakeMessage
<1> QED
  BY <1>7, <1>8 DEF SessionInv

LEMMA WriteOutKeeps == ASSUME SessionInv, NEW s \in Ids, WriteOut(s) PROVE SessionInv'
<1>1. PICK r, o, w, v :
         /\ r = sock[s] /\ o = IF r.writer = "acking" THEN r.out ELSE NoItem
         /\ w = IF r.writer = "acking" THEN "acked" ELSE "loop"
         /\ v = [r EXCEPT !.writer = w, !.out = o]
  OBVIOUS
<1>2. /\ IsSession(sock, rank, link, wire) /\ r.writer \in {"writing", "acking"}
      /\ sock' = [sock EXCEPT ![s] = v] /\ rank' = rank /\ link' = link /\ link[s] # None
      /\ wire' = [wire EXCEPT ![link[s]] = wire[link[s]] \o <<r.out>>]
  BY <1>1 DEF SessionInv, WriteOut, Write
<1>3. /\ IsSocket(r) /\ IsTail(r) /\ IsCalm(r)
      /\ IsStaffed(r) /\ IsPlaced(s, r, link[s], wire[s], rank)
  BY <1>1, <1>2, TheSocket
<1>4. r.out \in MsgItems \cup AckItems /\ (r.writer = "acking" => r.out \in AckItems)
  BY <1>2, <1>3 DEF IsStaffed
<1>5. w \in {"acked", "loop"} /\ (w = "acked" => o \in AckItems) /\ (o \in AckItems \/ o = NoItem)
  BY <1>1, <1>4
<1>6. /\ IsSocket(v) /\ v.state = r.state /\ v.reader = r.reader /\ v.writer = w
      /\ v.out = o /\ v.sent = r.sent /\ v.lossy = r.lossy /\ v.outSeq = r.outSeq
  <2>1. o \in {NoItem} \cup MsgItems \cup AckItems /\ w \in Writers
    BY <1>5 DEF Writers
  <2> QED
    BY <1>1, <1>3, <2>1 DEF IsSocket, Sockets
<1>7. r.state \notin {"connecting", "standby", "free"}
  BY <1>2, <1>3 DEF IsPlaced, IsIdle
<1>8. v \in Good
  BY <1>2, <1>3, <1>5, <1>6, <1>7 DEF IsTail, IsCalm, IsStaffed, Good, IsSocket
<1>9. IsPlaced(s, v, link[s], wire[s], rank)
  BY <1>2, <1>3, <1>5, <1>6, <1>7 DEF IsPlaced, IsIdle
<1>10. IsSession(sock', rank, link, wire)
  BY <1>2, <1>8, <1>9, SocketChanges
<1>11. PICK t, items : t = link[s] /\ items = <<r.out>>
  OBVIOUS
<1>12. t \in Ids /\ link[t] = s /\ s # None
  BY <1>2, <1>11, NoneIsNone DEF IsSession
<1>13. items \in Seq(WireItems)
  <2>1. r.out \in WireItems
    BY <1>4 DEF WireItems
  <2> QED
    BY <1>11, <2>1
<1>14. IsSession(sock', rank, link, [wire EXCEPT ![t] = wire[t] \o items])
  BY <1>10, <1>12, <1>13, ItemsArrive
<1>15. IsSession(sock', rank', link', wire')
  BY <1>2, <1>11, <1>14
<1>16. Counted'
  BY DEF SessionInv, Counted, WriteOut
<1> QED
  BY <1>15, <1>16 DEF SessionInv

LEMMA AckWrittenKeeps == ASSUME SessionInv, NEW s \in Ids, AckWritten(s) PROVE SessionInv'
<1>1. PICK r, q, v : /\ r = sock[s]
                     /\ q = [r EXCEPT !.acked = r.out.seq, !.out = NoItem, !.writer = "loop"]
                     /\ v = IF q.outq # <<>> THEN Took(q) ELSE q
  OBVIOUS
<1>2. /\ IsSession(sock, rank, link, wire) /\ r.writer = "acked"
      /\ sock' = [sock EXCEPT ![s] = v] /\ rank' = rank /\ link' = link /\ wire' = wire
  BY <1>1 DEF SessionInv, AckWritten
<1>3. /\ IsSocket(r) /\ IsTail(r) /\ IsCalm(r)
      /\ IsStaffed(r) /\ IsPlaced(s, r, link[s], wire[s], rank)
  BY <1>1, <1>2, TheSocket
<1>4. PICK n : n = r.out.seq /\ n \in Nat
  BY <1>2, <1>3 DEF IsStaffed, AckItems
<1>5. q = [r EXCEPT !.acked = n, !.out = NoItem, !.writer = "loop"]
  BY <1>1, <1>4
<1>6. /\ IsSocket(q) /\ q.state = r.state /\ q.reader = r.reader /\ q.writer = "loop"
      /\ q.out = NoItem /\ q.sent = r.sent /\ q.lossy = r.lossy /\ q.outSeq = r.outSeq
  BY <1>3, <1>4, <1>5 DEF IsSocket, Sockets, Writers
<1>7. IsTail(q)
  BY <1>3, <1>6 DEF IsTail
<1>8. r.reader # "accepting" /\ r.state # "free"
  <2>1. Free.writer = "none"
    BY DEF Free, NewSocket
  <2> QED
    BY <1>2, <1>3, <2>1 DEF IsStaffed
<1>9. v \in Good /\ v.state = r.state /\ v.reader = r.reader /\ v.writer \in {"loop", "writing"}
  <2>1. CASE q.outq # <<>>
    <3>1. /\ IsSocket(v) /\ IsTail(v) /\ v.state = q.state /\ v.reader = q.reader
          /\ v.writer = "writing" /\ v.out \in MsgItems
      BY <1>1, <1>6, <1>7, <2>1, TookIsGood
    <3> QED
      BY <1>6, <1>8, <3>1 DEF IsCalm, IsStaffed, Good, IsSocket
  <2>2. CASE q.outq = <<>>
    <3>1. v = q
      BY <1>1, <2>2
    <3> QED
      BY <1>2, <1>3, <1>6, <1>7, <1>8, <3>1 DEF IsCalm, IsStaffed, Good, IsSocket
  <2> QED
    BY <2>1, <2>2
<1>10. IsPlaced(s, v, link[s], wire[s], rank)
  BY <1>2, <1>3, <1>8, <1>9 DEF IsPlaced, IsIdle
<1>11. IsSession(sock', rank', link', wire')
  BY <1>2, <1>9, <1>10, SocketChanges
<1>12. Counted'
  BY DEF SessionInv, Counted, AckWritten
<1> QED
  BY <1>11, <1>12 DEF SessionInv

LEMMA WriteFailsKeeps == ASSUME SessionInv, NEW s \in Ids, WriteFails(s) PROVE SessionInv'
<1>1. PICK r, q : r = sock[s] /\ q = [r EXCEPT !.writer = "loop", !.out = NoItem]
  OBVIOUS
<1>2. IsSession(sock, rank, link, wire) /\ r.writer \in {"writing", "acking"}
  BY <1>1 DEF SessionInv, WriteFails
<1>3. Fault(s, q, FALSE, FALSE)
  BY <1>1 DEF WriteFails
<1>4. IsSocket(r) /\ IsTail(r) /\ IsStaffed(r)
  BY <1>1, <1>2, TheSocket
<1>5. r.reader # "accepting" /\ r.state # "free"
  <2>1. Free.writer = "none"
    BY DEF Free, NewSocket
  <2> QED
    BY <1>2, <1>4, <2>1 DEF IsStaffed
<1>6. /\ IsSocket(q) /\ q.state = r.state /\ q.reader = r.reader /\ q.writer = "loop"
      /\ q.sent = r.sent /\ q.lossy = r.lossy /\ q.outSeq = r.outSeq
  BY <1>1, <1>4 DEF IsSocket, Sockets, Writers
<1>7. IsTail(q)
  BY <1>4, <1>6 DEF IsTail
<1>8. IsSession(sock, rank, link, wire)' /\ mark' \in [Ends -> Nat]
  BY <1>3, <1>5, <1>6, <1>7, FaultKeeps
<1>9. Counted'
  BY <1>8 DEF SessionInv, Counted, WriteFails
<1> QED
  BY <1>8, <1>9 DEF SessionInv

\* A connection is made: the writer awaits the reply, the new socket has the
\* connect record to read.
LEMMA ConnectKeeps == ASSUME SessionInv, NEW s \in Ids, Connect(s) PROVE SessionInv'
<1>1. PICK b \in FreeSocket(Peer(s[1])) :
        /\ sock' = [sock EXCEPT
                ![s].writer = "await",
                ![b] = [NewSocket("accepting") EXCEPT !.reader = "accepting"]]
        /\ link' = [link EXCEPT ![s] = b, ![b] = s]
        /\ wire' = [wire EXCEPT ![b] = <<[tag |-> "connect", cseq |-> sock[s].cseq]>>]
  BY DEF Connect
<1>2. PICK r, v, n, a, c, w :
        /\ r = sock[s] /\ v = [r EXCEPT !.writer = "await"]
        /\ n = NewSocket("accepting") /\ a = [n EXCEPT !.reader = "accepting"]
        /\ c = [tag |-> "connect", cseq |-> r.cseq] /\ w = <<c>>
  OBVIOUS
<1>3. /\ IsSession(sock, rank, link, wire) /\ rank' = rank
      /\ (r.writer = "loop" /\ r.state = "connecting") \/ r.writer = "join"
      /\ r.reader = "none"
  BY <1>2 DEF SessionInv, Connect
<1>4. /\ IsSocket(r) /\ IsTail(r) /\ IsCalm(r)
      /\ IsStaffed(r) /\ IsPlaced(s, r, link[s], wire[s], rank)
  BY <1>2, <1>3, TheSocket
<1>5. r.state \in {"connecting", "closed"} /\ r.sent = <<>> /\ link[s] = None
  BY <1>3, <1>4 DEF IsStaffed, IsCalm, IsPlaced, IsIdle
<1>6. b \in Ids /\ sock[b].state = "free" /\ b # s
  <2>1. b \in Ids /\ sock[b].state = "free"
    BY DEF FreeSocket, Ids, Ends, Peer, SocketsOf
  <2> QED
    BY <1>2, <1>5, <2>1
<1>7. link[b] = None /\ b \notin {rank[1], rank[2]}
  BY <1>3, <1>6, TheSocket DEF IsPlaced, IsIdle
<1>8. /\ IsSocket(v) /\ v.state = r.state /\ v.reader = "none" /\ v.writer = "await"
      /\ v.out = r.out /\ v.sent = <<>> /\ v.lossy = r.lossy /\ v.outSeq = r.outSeq
  BY <1>2, <1>3, <1>4, <1>5 DEF IsSocket, Sockets, Writers
<1>9. v \in Good
  BY <1>4, <1>5, <1>8 DEF IsTail, IsCalm, IsStaffed, Good, IsSocket
<1>10. a \in Good /\ a.reader = "accepting" /\ a.state = "accepting" /\ a.writer = "none"
  <2>1. /\ IsSocket(n) /\ IsTail(n) /\ n.sent = <<>> /\ n.state = "accepting"
        /\ n.writer = "none" /\ n.outSeq = 0
    BY <1>2, NewIsGood DEF NewSocket
  <2>2. /\ IsSocket(a) /\ a.sent = <<>> /\ a.state = "accepting" /\ a.writer = "none"
        /\ a.reader = "accepting" /\ a.outSeq = n.outSeq /\ a.lossy = n.lossy
    BY <1>2, <2>1 DEF IsSocket, Sockets, Readers
  <2> QED
    BY <2>1, <2>2 DEF IsTail, IsCalm, IsStaffed, Good, IsSocket
<1>11. w \in Seq(WireItems) /\ w # <<>> /\ w[1] \in Connects
  <2>1. c \in Connects
    BY <1>2, <1>4 DEF IsSocket, Sockets, Connects
  <2>2. c \in WireItems
    BY <2>1 DEF Connects, WireItems
  <2> QED
    BY <1>2, <2>1, <2>2
<1>12. IsSession(sock', rank', link', wire')
  <2>1. /\ sock' \in [Ids -> Good] /\ sock'[s] = v /\ sock'[b] = a
        /\ \A t \in Ids : t # s /\ t # b => sock'[t] = sock[t]
    <3>1. sock' = [sock EXCEPT ![s] = v, ![b] = a]
      BY <1>1, <1>2
    <3> QED
      BY <1>3, <1>6, <1>9, <1>10, <3>1 DEF IsSession
  <2>2. /\ link' \in [Ids -> Ids \cup {None}] /\ link'[s] = b /\ link'[b] = s
        /\ \A t \in Ids : t # s /\ t # b => link'[t] = link[t]
    BY <1>1, <1>3, <1>6 DEF IsSession
  <2>3. ASSUME NEW t \in Ids, link'[t] # None PROVE link'[link'[t]] = t /\ link'[t] # t
    <3>1. CASE t = s \/ t = b
      BY <1>6, <2>2, <3>1
    <3>2. CASE t # s /\ t # b
      <4>1. link[t] \in Ids /\ link[link[t]] = t /\ link[t] # t /\ link'[t] = link[t]
        BY <1>3, <2>2, <2>3, <3>2 DEF IsSession
      <4>2. link[t] # s /\ link[t] # b
        BY <1>5, <1>7, <4>1, NoneIsNone
      <4> QED
        BY <2>2, <4>1, <4>2
    <3> QED
      BY <3>1, <3>2
  <2>4. /\ wire' \in [Ids -> Seq(WireItems)] /\ wire'[b] = w
        /\ \A t \in Ids : t # b => wire'[t] = wire[t]
    <3>1. wire' = [wire EXCEPT ![b] = w]
      BY <1>1, <1>2
    <3> QED
      BY <1>3, <1>6, <1>11, <3>1 DEF IsSession
  <2>5. ASSUME NEW t \in Ids PROVE IsPlaced(t, sock'[t], link'[t], wire'[t], rank)
    <3>1. CASE t = s
      <4>1. ~IsIdle(v) /\ v.reader # "accepting" /\ v.state # "free"
        BY <1>5, <1>8 DEF IsIdle
      <4> QED
        BY <2>1, <3>1, <4>1 DEF IsPlaced
    <3>2. CASE t = b
      <4>1. ~IsIdle(a)
        BY <1>10 DEF IsIdle
      <4>2. IsPlaced(b, a, s, w, rank)
        BY <1>7, <1>10, <1>11, <4>1 DEF IsPlaced
      <4> QED
        BY <2>1, <2>2, <2>4, <3>2, <4>2
    <3>3. CASE t # s /\ t # b
      BY <1>3, <2>1, <2>2, <2>4, <3>3 DEF IsSession
    <3> QED
      BY <3>1, <3>2, <3>3
  <2> QED
    BY <1>3, <2>1, <2>2, <2>3, <2>4, <2>5 DEF IsSession
<1>13. Counted'
  BY DEF SessionInv, Counted, Connect
<1> QED
  BY <1>12, <1>13 DEF SessionInv

\* connect_fail()
LEMMA ConnectFailsKeeps ==
    ASSUME SessionInv, NEW s \in Ids, NEW r, IsSocket(r), IsTail(r),
           r.state \in {"connecting", "closed"}, r.reader = "none", r.sent = <<>>,
           NEW reset, ConnectFails(s, r, reset)
    PROVE  IsSession(sock, rank, link, wire)' /\ mark' \in [Ends -> Nat]
<1>1. PICK v : v = [r EXCEPT !.writer = "loop"]
  OBVIOUS
<1>2. /\ IsSocket(v) /\ v.state = r.state /\ v.reader = "none" /\ v.writer = "loop"
      /\ v.out = r.out /\ v.sent = <<>> /\ v.lossy = r.lossy /\ v.outSeq = r.outSeq
  BY <1>1 DEF IsSocket, Sockets, Writers
<1>3. IsTail(v)
  BY <1>2 DEF IsTail
<1>4. CASE r.state = "connecting"
  <2>1. Fault(s, v, FALSE, reset)
    BY <1>1, <1>4 DEF ConnectFails
  <2> QED
    BY <1>2, <1>3, <1>4, <2>1, FaultKeeps
<1>5. CASE r.state = "closed"
  <2>1. /\ sock' = [sock EXCEPT ![s] = v] /\ wire' = [wire EXCEPT ![s] = <<>>]
        /\ Resets(reset) /\ rank' = rank /\ link' = link
    BY <1>1, <1>5 DEF ConnectFails
  <2>2. IsSession(sock, rank, link, wire)
    BY DEF SessionInv
  <2>3. v \in Good /\ ~IsIdle(v)
    BY <1>2, <1>3, <1>5 DEF IsCalm, IsStaffed, Good, IsSocket, IsIdle
  <2>4. \A w : IsPlaced(s, v, link[s], w, rank)
    BY <1>2, <1>5, <2>3 DEF IsPlaced
  <2>5. IsSession(sock', rank, link, wire) /\ sock'[s] = v
    <3>1. IsSession(sock', rank, link, wire)
      BY <2>1, <2>2, <2>3, <2>4, SocketChanges
    <3> QED
      BY <2>1, <2>2, <3>1 DEF IsSession
  <2>6. <<>> \in Seq(WireItems)
    BY EmptySeq
  <2>7. PICK w : w = <<>>
    OBVIOUS
  <2>8. IsSession(sock', rank, link, [wire EXCEPT ![s] = w])
    BY <2>4, <2>5, <2>6, <2>7, WireChanges
  <2>9. mark' \in [Ends -> Nat]
    BY <2>1 DEF Resets, SessionInv, Counted
  <2> QED
    BY <2>1, <2>7, <2>8, <2>9
<1> QED
  BY <1>4, <1>5

\* What a socket that awaits the reply is like.
LEMMA Awaits ==
    ASSUME IsSession(sock, rank, link, wire), NEW s \in Ids, sock[s].writer = "await"
    PROVE  /\ IsSocket(sock[s]) /\ IsTail(sock[s]) /\ IsStaffed(sock[s]) /\ sock[s].sent = <<>>
           /\ sock[s].reader = "none" /\ sock[s].state \in {"connecting", "closed"}
           /\ IsPlaced(s, sock[s], link[s], wire[s], rank) /\ wire[s] \in Seq(WireItems)
BY TheSocket DEF IsCalm, IsStaffed

LEMMA NoReplyKeeps == ASSUME SessionInv, NEW s \in Ids, NoReply(s) PROVE SessionInv'
<1>1. PICK r : r = sock[s]
  OBVIOUS
<1>2. IsSession(sock, rank, link, wire) /\ r.writer = "await" /\ ConnectFails(s, r, FALSE)
  BY <1>1 DEF SessionInv, NoReply
<1>3. /\ IsSocket(r) /\ IsTail(r) /\ r.sent = <<>> /\ r.reader = "none"
      /\ r.state \in {"connecting", "closed"}
  BY <1>1, <1>2, Awaits
<1>4. IsSession(sock, rank, link, wire)' /\ mark' \in [Ends -> Nat]
  BY <1>2, <1>3, ConnectFailsKeeps
<1>5. Counted'
  BY <1>4 DEF SessionInv, Counted, NoReply
<1> QED
  BY <1>4, <1>5 DEF SessionInv

LEMMA ReadReplyKeeps == ASSUME SessionInv, NEW s \in Ids, ReadReply(s) PROVE SessionInv'
<1>1. PICK r, reply : r = sock[s] /\ reply = Head(wire[s])
  OBVIOUS
<1>2. IsSession(sock, rank, link, wire) /\ r.writer = "await" /\ wire[s] # <<>>
  BY <1>1 DEF SessionInv, ReadReply
<1>3. /\ IsSocket(r) /\ IsTail(r) /\ IsStaffed(r) /\ r.sent = <<>> /\ r.reader = "none"
      /\ r.state \in {"connecting", "closed"} /\ IsPlaced(s, r, link[s], wire[s], rank)
  BY <1>1, <1>2, Awaits
<1>4. PICK w : w = [wire EXCEPT ![s] = Tail(wire[s])] /\ IsSession(sock, rank, link, w)
  BY <1>1, <1>2, <1>3, ItemRead
<1>5. reply \in WireItems
  BY <1>1, <1>2, <1>3, ItemRead
<1>6. CASE /\ reply.tag = "ready"
           /\ sock' = [sock EXCEPT ![s].state = "open", ![s].cseq = NextSeq(@),
                                   ![s].lossy = reply.lossy,
                                   ![s].writer = "loop", ![s].reader = "reading"]
           /\ wire' = [wire EXCEPT ![s] = Tail(@)]
           /\ UNCHANGED <<rank, link, mark>>
  <2>1. PICK v, n, y : /\ n = NextSeq(r.cseq) /\ y = reply.lossy
                       /\ v = [r EXCEPT !.state = "open", !.cseq = n, !.lossy = y,
                                        !.writer = "loop", !.reader = "reading"]
    OBVIOUS
  <2>2. n \in Nat
    BY <1>3, <2>1, NextSeqType DEF IsSocket, Sockets
  <2>3. y \in BOOLEAN
    BY <1>5, <1>6, <2>1 DEF WireItems, MsgItems, AckItems
  <2>4. sock' = [sock EXCEPT ![s] = v]
    BY <1>1, <1>6, <2>1
  <2>5. /\ IsSocket(v) /\ v.state = "open" /\ v.reader = "reading" /\ v.writer = "loop"
        /\ v.out = r.out /\ v.sent = r.sent /\ v.outSeq = r.outSeq
    BY <1>3, <2>1, <2>2, <2>3 DEF IsSocket, Sockets, States, Readers, Writers
  <2>6. v \in Good
    BY <1>3, <2>5 DEF IsTail, IsLast, IsCalm, IsStaffed, Good, IsSocket
  <2>7. IsPlaced(s, v, link[s], w[s], rank)
    BY <2>5 DEF IsPlaced, IsIdle
  <2>8. IsSession(sock', rank, link, w)
    BY <1>4, <2>4, <2>6, <2>7, SocketChanges
  <2>9. IsSession(sock', rank', link', wire')
    BY <1>4, <1>6, <2>8
  <2>10. Counted'
    BY <1>6 DEF SessionInv, Counted, ReadReply
  <2> QED
    BY <2>9, <2>10 DEF SessionInv
<1>7. CASE /\ reply.tag = "wait"
           /\ sock' = [sock EXCEPT ![s].state = "wait", ![s].writer = "loop"]
           /\ wire' = [wire EXCEPT ![s] = Tail(@)]
           /\ UNCHANGED <<rank, link, mark>>
  <2>1. PICK v : v = [r EXCEPT !.state = "wait", !.writer = "loop"]
    OBVIOUS
  <2>2. sock' = [sock EXCEPT ![s] = v]
    BY <1>1, <1>7, <2>1
  <2>3. /\ IsSocket(v) /\ v.state = "wait" /\ v.reader = "none" /\ v.writer = "loop"
        /\ v.out = r.out /\ v.sent = r.sent /\ v.outSeq = r.outSeq /\ v.lossy = r.lossy
    BY <1>3, <2>1 DEF IsSocket, Sockets, States, Writers
  <2>4. v \in Good
    BY <1>3, <2>3 DEF IsTail, IsCalm, IsStaffed, Good, IsSocket
  <2>5. IsPlaced(s, v, link[s], w[s], rank)
    BY <2>3 DEF IsPlaced, IsIdle
  <2>6. IsSession(sock', rank, link, w)
    BY <1>4, <2>2, <2>4, <2>5, SocketChanges
  <2>7. IsSession(sock', rank', link', wire')
    BY <1>4, <1>7, <2>6
  <2>8. Counted'
    BY <1>7 DEF SessionInv, Counted, ReadReply
  <2> QED
    BY <2>7, <2>8 DEF SessionInv
<1>8. CASE reply.tag = "retry" /\ ConnectFails(s, [sock[s] EXCEPT !.cseq = reply.cseq], FALSE)
  <2>1. PICK v, n : n = reply.cseq /\ v = [r EXCEPT !.cseq = n]
    OBVIOUS
  <2>2. n \in Nat
    BY <1>5, <1>8, <2>1 DEF WireItems, MsgItems, AckItems
  <2>3. /\ IsSocket(v) /\ v.state = r.state /\ v.reader = r.reader
        /\ v.sent = r.sent /\ v.outSeq = r.outSeq /\ v.lossy = r.lossy
    BY <1>3, <2>1, <2>2 DEF IsSocket, Sockets
  <2>4. IsTail(v)
    BY <1>3, <2>3 DEF IsTail
  <2>5. ConnectFails(s, v, FALSE)
    BY <1>1, <1>8, <2>1
  <2>6. IsSession(sock, rank, link, wire)' /\ mark' \in [Ends -> Nat]
    BY <1>3, <2>3, <2>4, <2>5, ConnectFailsKeeps
  <2>7. Counted'
    BY <2>6 DEF SessionInv, Counted, ReadReply
  <2> QED
    BY <2>6, <2>7 DEF SessionInv
<1>9. CASE reply.tag = "resetsession" /\ ConnectFails(s, SessionReset(sock[s]), TRUE)
  <2>1. PICK v : v = SessionReset(r)
    OBVIOUS
  <2>2. /\ IsSocket(v) /\ IsTail(v) /\ v.state = r.state /\ v.reader = r.reader
        /\ v.sent = <<>>
    BY <1>3, <2>1, SessionResetIsGood
  <2>3. ConnectFails(s, v, TRUE)
    BY <1>1, <1>9, <2>1
  <2>4. IsSession(sock, rank, link, wire)' /\ mark' \in [Ends -> Nat]
    BY <1>3, <2>2, <2>3, ConnectFailsKeeps
  <2>5. Counted'
    BY <2>4 DEF SessionInv, Counted, ReadReply
  <2> QED
    BY <2>4, <2>5 DEF SessionInv
<1> QED
  BY <1>1, <1>6, <1>7, <1>8, <1>9 DEF ReadReply

\* The delivery queue takes a message.
LEMMA QueuedType ==
    ASSUME NEW q \in Seq(Messages), NEW m \in Messages, NEW seen
    PROVE  Queued(q, m, seen) \in Seq(Messages)
<1>1. Append(q, m) \in Seq(Messages)
  BY AppendProperties
<1> QED
  BY <1>1 DEF Queued

LEMMA ReadMessageKeeps == ASSUME SessionInv, NEW s \in Ids, ReadMessage(s) PROVE SessionInv'
<1>1. PICK r, item, w, k :
        /\ r = sock[s] /\ item = Head(wire[s]) /\ w = [wire EXCEPT ![s] = Tail(wire[s])]
        /\ k = IF r.state \in {"closed", "connecting"} THEN r
               ELSE [r EXCEPT !.inSeq = item.seq, !.inq = Queued(r.inq, item.m, got[s[1]])]
  OBVIOUS
<1>2. /\ IsSession(sock, rank, link, wire) /\ r.reader = "reading" /\ wire[s] # <<>>
      /\ item.tag = "msg" /\ wire' = w /\ rank' = rank /\ link' = link
      /\ sock' = [sock EXCEPT ![s] = ReaderLoops(k)]
  BY <1>1 DEF SessionInv, ReadMessage
<1>3. /\ r \in Good /\ IsSocket(r) /\ IsTail(r)
      /\ IsStaffed(r) /\ IsPlaced(s, r, link[s], wire[s], rank)
  BY <1>1, <1>2, TheSocket
<1>4. IsSession(sock, rank, link, w) /\ item \in WireItems
  BY <1>1, <1>2, ItemRead
<1>5. IsPlaced(s, r, link[s], w[s], rank)
  BY <1>1, <1>4, TheSocket DEF IsSession
<1>6. r.state # "free"
  <2>1. Free.reader = "none"
    BY DEF Free, NewSocket
  <2> QED
    BY <1>2, <1>3, <2>1 DEF IsStaffed
<1>7. k \in Good /\ IsPlaced(s, k, link[s], w[s], rank) /\ k.reader = "reading"
  <2>1. CASE r.state \in {"closed", "connecting"}
    BY <1>1, <1>2, <1>3, <1>5, <2>1
  <2>2. CASE r.state \notin {"closed", "connecting"}
    <3>1. PICK n, q : n = item.seq /\ q = Queued(r.inq, item.m, got[s[1]])
      OBVIOUS
    <3>2. item.seq \in Nat /\ item.m \in Messages
      BY <1>2, <1>4 DEF WireItems, MsgItems, AckItems
    <3>3. q \in Seq(Messages)
      BY <1>3, <3>1, <3>2, QueuedType DEF IsSocket, Sockets
    <3>4. k = [r EXCEPT !.inSeq = n, !.inq = q]
      BY <1>1, <2>2, <3>1
    <3>5. /\ IsSocket(k) /\ k.state = r.state /\ k.reader = r.reader /\ k.writer = r.writer
          /\ k.out = r.out /\ k.sent = r.sent /\ k.lossy = r.lossy /\ k.outSeq = r.outSeq
      BY <1>3, <3>1, <3>2, <3>3, <3>4 DEF IsSocket, Sockets
    <3>6. IsTail(k)
      BY <1>3, <3>5 DEF IsTail
    <3> QED
      BY <1>2, <1>3, <1>5, <1>6, <3>5, <3>6, SameStaff
  <2> QED
    BY <2>1, <2>2
<1>8. PICK v : v = ReaderLoops(k)
  OBVIOUS
<1>9. v \in Good /\ IsPlaced(s, v, link[s], w[s], rank)
  BY <1>7, <1>8, Loops
<1>10. IsSession(sock', rank', link', wire')
  BY <1>2, <1>4, <1>8, <1>9, SocketChanges
<1>11. Counted'
  BY DEF SessionInv, Counted, ReadMessage
<1> QED
  BY <1>10, <1>11 DEF SessionInv

LEMMA ReadAckKeeps == ASSUME SessionInv, NEW s \in Ids, ReadAck(s) PROVE SessionInv'
<1>1. PICK r, item, w, k :
        /\ r = sock[s] /\ item = Head(wire[s]) /\ w = [wire EXCEPT ![s] = Tail(wire[s])]
        /\ k = IF r.state = "closed" THEN r ELSE Acknowledged(r, item.seq)
  OBVIOUS
<1>2. /\ IsSession(sock, rank, link, wire) /\ r.reader = "reading" /\ wire[s] # <<>>
      /\ item.tag = "ack" /\ wire' = w /\ rank' = rank /\ link' = link
      /\ sock' = [sock EXCEPT ![s] = ReaderLoops(k)]
  BY <1>1 DEF SessionInv, ReadAck
<1>3. /\ r \in Good /\ IsSocket(r) /\ IsTail(r)
      /\ IsStaffed(r) /\ IsPlaced(s, r, link[s], wire[s], rank)
  BY <1>1, <1>2, TheSocket
<1>4. IsSession(sock, rank, link, w) /\ item \in WireItems
  BY <1>1, <1>2, ItemRead
<1>5. IsPlaced(s, r, link[s], w[s], rank)
  BY <1>1, <1>4, TheSocket DEF IsSession
<1>6. r.state # "free"
  <2>1. Free.reader = "none"
    BY DEF Free, NewSocket
  <2> QED
    BY <1>2, <1>3, <2>1 DEF IsStaffed
<1>7. k \in Good /\ IsPlaced(s, k, link[s], w[s], rank) /\ k.reader = "reading"
  <2>1. CASE r.state = "closed"
    BY <1>1, <1>2, <1>3, <1>5, <2>1
  <2>2. CASE r.state # "closed"
    <3>1. item.seq \in Nat
      BY <1>2, <1>4 DEF WireItems, MsgItems, AckItems
    <3>2. /\ IsSocket(k) /\ IsTail(k) /\ k.state = r.state /\ k.reader = r.reader
          /\ k.writer = r.writer /\ k.out = r.out /\ (r.sent = <<>> => k.sent = <<>>)
      BY <1>1, <1>3, <2>2, <3>1, AcknowledgedIsGood
    <3> QED
      BY <1>2, <1>3, <1>5, <1>6, <3>2, SameStaff
  <2> QED
    BY <2>1, <2>2
<1>8. PICK v : v = ReaderLoops(k)
  OBVIOUS
<1>9. v \in Good /\ IsPlaced(s, v, link[s], w[s], rank)
  BY <1>7, <1>8, Loops
<1>10. IsSession(sock', rank', link', wire')
  BY <1>2, <1>4, <1>8, <1>9, SocketChanges
<1>11. Counted'
  BY DEF SessionInv, Counted, ReadAck
<1> QED
  BY <1>10, <1>11 DEF SessionInv

LEMMA ReadFailsKeeps == ASSUME SessionInv, NEW s \in Ids, ReadFails(s) PROVE SessionInv'
<1>1. PICK r : r = sock[s]
  OBVIOUS
<1>2. IsSession(sock, rank, link, wire) /\ r.reader = "reading" /\ Fault(s, r, TRUE, FALSE)
  BY <1>1 DEF SessionInv, ReadFails
<1>3. IsSocket(r) /\ IsTail(r)
  BY <1>1, <1>2, TheSocket
<1>4. IsSession(sock, rank, link, wire)' /\ mark' \in [Ends -> Nat]
  BY <1>1, <1>2, <1>3, FaultKeeps
<1>5. Counted'
  BY <1>4 DEF SessionInv, Counted, ReadFails
<1> QED
  BY <1>4, <1>5 DEF SessionInv

LEMMA ReaderWakesKeeps == ASSUME SessionInv, NEW s \in Ids, ReaderWakes(s) PROVE SessionInv'
<1>1. PICK r, v : r = sock[s] /\ v = ReaderLoops(r)
  OBVIOUS
<1>2. /\ IsSession(sock, rank, link, wire) /\ r.reader = "standby"
      /\ sock' = [sock EXCEPT ![s] = v] /\ rank' = rank /\ link' = link /\ wire' = wire
  BY <1>1 DEF SessionInv, ReaderWakes
<1>3. r \in Good /\ IsPlaced(s, r, link[s], wire[s], rank)
  BY <1>1, <1>2, TheSocket
<1>4. v \in Good /\ IsPlaced(s, v, link[s], wire[s], rank)
  BY <1>1, <1>2, <1>3, Loops
<1>5. IsSession(sock', rank', link', wire')
  BY <1>2, <1>4, SocketChanges
<1>6. Counted'
  BY DEF SessionInv, Counted, ReaderWakes
<1> QED
  BY <1>5, <1>6 DEF SessionInv

LEMMA DeliverKeeps == ASSUME SessionInv, NEW s \in Ids, Deliver(s) PROVE SessionInv'
<1>1. PICK r, m, q, v : /\ r = sock[s] /\ m = Head(r.inq) /\ q = Tail(r.inq)
                        /\ v = [r EXCEPT !.inq = q]
  OBVIOUS
<1>2. /\ IsSession(sock, rank, link, wire) /\ r.inq # <<>>
      /\ sock' = [sock EXCEPT ![s] = v] /\ got' = [got EXCEPT ![s[1]] = @ \cup {m}]
      /\ rank' = rank /\ link' = link /\ wire' = wire
  BY <1>1 DEF SessionInv, Deliver
<1>3. /\ r \in Good /\ IsSocket(r) /\ IsTail(r)
      /\ IsStaffed(r) /\ IsPlaced(s, r, link[s], wire[s], rank)
  BY <1>1, <1>2, TheSocket
<1>4. m \in Messages /\ q \in Seq(Messages)
  <2>1. r.inq \in Seq(Messages)
    BY <1>3 DEF IsSocket, Sockets
  <2> QED
    BY <1>1, <1>2, <2>1, HeadTailProperties
<1>5. r.state # "free"
  <2>1. Free.inq = <<>>
    BY DEF Free, NewSocket
  <2> QED
    BY <1>2, <1>3, <2>1 DEF IsStaffed
<1>6. /\ IsSocket(v) /\ v.state = r.state /\ v.reader = r.reader /\ v.writer = r.writer
      /\ v.out = r.out /\ v.sent = r.sent /\ v.lossy = r.lossy /\ v.outSeq = r.outSeq
  BY <1>1, <1>3, <1>4 DEF IsSocket, Sockets
<1>7. IsTail(v)
  BY <1>3, <1>6 DEF IsTail
<1>8. v \in Good /\ IsPlaced(s, v, link[s], wire[s], rank)
  BY <1>3, <1>5, <1>6, <1>7, SameStaff
<1>9. IsSession(sock', rank', link', wire')
  BY <1>2, <1>8, SocketChanges
<1>10. Counted'
  <2>1. s[1] \in Ends
    BY <1>2, TheSocket
  <2>2. got' \in [Ends -> SUBSET Messages]
    BY <1>2, <1>4, <2>1 DEF SessionInv, Counted
  <2> QED
    BY <2>2 DEF SessionInv, Counted, Deliver
<1> QED
  BY <1>9, <1>10 DEF SessionInv

LEMMA ReapKeeps == ASSUME SessionInv, NEW s \in Ids, Reap(s) PROVE SessionInv'
<1>1. PICK v : v = Free
  OBVIOUS
<1>2. /\ IsSession(sock, rank, link, wire) /\ Shutdown(s)
      /\ sock' = [sock EXCEPT ![s] = v]
      /\ rank' = [rank EXCEPT ![s[1]] = IF @ = s THEN None ELSE @]
  BY <1>1 DEF SessionInv, Reap
<1>3. s[1] \in Ends /\ s \in SocketsOf(s[1])
  BY DEF Ids, SocketsOf, Ends
<1>4. IsSession(sock, rank, link', wire') /\ link'[s] = None
  BY <1>2, ShutdownKeeps
<1>5. PICK gone : gone = (rank[s[1]] = s)
  OBVIOUS
<1>6. rank' = [rank EXCEPT ![s[1]] = IF gone THEN None ELSE @]
  BY <1>2, <1>5
<1>7. IsSession(sock, rank', link', wire')
  BY <1>3, <1>4, <1>6, RankStays
<1>8. s \notin {rank'[1], rank'[2]}
  <2>1. rank \in [Ends -> Ids \cup {None}] /\ \A e \in Ends : rank[e] \in SocketsOf(e) \cup {None}
    BY <1>2 DEF IsSession
  <2>2. ASSUME NEW e \in Ends PROVE rank'[e] # s
    <3>1. CASE e = s[1]
      BY <1>2, <1>3, <2>1, <3>1, NoneIsNone
    <3>2. CASE e # s[1]
      <4>1. rank'[e] = rank[e] /\ s # None
        BY <1>2, <2>1, <3>2, NoneIsNone
      <4>2. s \notin SocketsOf(e)
        BY <3>2 DEF SocketsOf
      <4> QED
        BY <2>1, <4>1, <4>2
    <3> QED
      BY <3>1, <3>2
  <2> QED
    BY <2>2 DEF Ends
<1>9. v \in Good /\ v.reader = "none"
  <2>1. /\ IsSocket(v) /\ IsTail(v) /\ v.sent = <<>> /\ v.state = "free" /\ v.reader = "none"
        /\ v.writer = "none"
    BY <1>1, NewIsGood DEF Free, NewSocket
  <2> QED
    BY <1>1, <2>1 DEF IsCalm, IsStaffed, Good, IsSocket
<1>10. IsPlaced(s, v, link'[s], wire'[s], rank')
  BY <1>4, <1>8, <1>9 DEF IsPlaced
<1>11. IsSession(sock', rank', link', wire')
  BY <1>2, <1>7, <1>9, <1>10, SocketChanges
<1>12. Counted'
  BY DEF SessionInv, Counted, Reap
<1> QED
  BY <1>11, <1>12 DEF SessionInv

\* The network loses a connection.
LEMMA BreakKeeps == ASSUME SessionInv, NEW s \in Ids, Break(s) PROVE SessionInv'
<1>1. PICK i \in 0..Len(wire[s]), j \in 0..Len(wire[link[s]]) :
         wire' = [wire EXCEPT ![s] = SubSeq(@, 1, i), ![link[s]] = SubSeq(@, 1, j)]
  BY DEF Break
<1>2. /\ IsSession(sock, rank, link, wire) /\ link[s] # None /\ sock' = sock /\ rank' = rank
      /\ link' = [link EXCEPT ![s] = None, ![link[s]] = None]
  BY DEF SessionInv, Break
<1>3. /\ link \in [Ids -> Ids \cup {None}] /\ wire \in [Ids -> Seq(WireItems)]
      /\ link[s] \in Ids /\ link[s] # s
  BY <1>2 DEF IsSession
<1>4. link' = CutLink(link, s)
  BY <1>2, <1>3 DEF CutLink
<1>5. wire' = CutWire(link, wire, s, i, j)
  BY <1>1, <1>3 DEF CutWire
<1>6. IsSession(sock, rank, CutLink(link, s), CutWire(link, wire, s, i, j))
  BY <1>2, CutKeeps
<1>7. IsSession(sock', rank', link', wire')
  BY <1>2, <1>4, <1>5, <1>6
<1>8. Counted'
  <2>1. faults \in 0..MaxFaults /\ faults < MaxFaults /\ faults' = faults + 1 /\ MaxFaults \in Nat
    BY SessionAssumption DEF SessionInv, Counted, Break, SessionAssumption
  <2>2. faults' \in 0..MaxFaults
    BY <2>1
  <2>3. Counted /\ UNCHANGED <<policy, handed, got, mark>>
    BY DEF SessionInv, Break
  <2> QED
    BY <2>2, <2>3 DEF Counted
<1> QED
  BY <1>7, <1>8 DEF SessionInv

\* The socket of a reader that has the connect record.
LEMMA IdentifiedIsGood ==
    ASSUME SessionInv, NEW b \in Ids, AtConnect(b)
    PROVE  /\ IsSocket(Identified(b)) /\ IsTail(Identified(b)) /\ Identified(b).sent = <<>>
           /\ Identified(b).state = "accepting" /\ Identified(b).writer = "none"
           /\ ConnectSeq(b) \in Nat /\ b \notin {rank[1], rank[2]}
           /\ policy[b[1]].lossy \in BOOLEAN
<1>1. PICK r, y, v : r = sock[b] /\ y = policy[b[1]].lossy /\ v = Identified(b)
  OBVIOUS
<1>2. IsSession(sock, rank, link, wire) /\ r.reader = "accepting" /\ wire[b] # <<>>
  BY <1>1 DEF SessionInv, AtConnect
<1>3. /\ IsSocket(r) /\ IsTail(r) /\ IsCalm(r) /\ IsStaffed(r)
      /\ IsPlaced(b, r, link[b], wire[b], rank) /\ b[1] \in Ends
  BY <1>1, <1>2, TheSocket
<1>4. y \in BOOLEAN
  <2>1. policy \in Policies
    BY DEF SessionInv, Counted
  <2> QED
    BY <1>1, <1>3, <2>1, SessionAssumption
<1>5. v = [r EXCEPT !.known = TRUE, !.lossy = y]
  BY <1>1 DEF Identified
<1>6. /\ IsSocket(v) /\ v.state = r.state /\ v.writer = r.writer /\ v.sent = r.sent
      /\ v.outSeq = r.outSeq
  BY <1>3, <1>4, <1>5 DEF IsSocket, Sockets
<1>7. r.sent = <<>> /\ r.state = "accepting" /\ r.writer = "none"
  BY <1>2, <1>3 DEF IsCalm, IsStaffed
<1>8. IsTail(v)
  BY <1>3, <1>6, <1>7 DEF IsTail, IsLast
<1>9. ConnectSeq(b) \in Nat /\ b \notin {rank[1], rank[2]}
  <2>1. wire[b][1] \in Connects /\ b \notin {rank[1], rank[2]}
    BY <1>2, <1>3 DEF IsPlaced
  <2> QED
    BY <2>1 DEF ConnectSeq, Connects
<1> QED
  BY <1>1, <1>4, <1>6, <1>7, <1>8, <1>9

\* What accepting() may say before READY.
Answers == [tag : {"retry"}, cseq : Nat] \cup [tag : {"wait", "resetsession"}]

LEMMA EarlyAnswers ==
    ASSUME SessionInv, NEW b \in Ids, AtConnect(b)
    PROVE  Early(b) \in Seq(Answers)
<1>1. PICK e : e = b[1] /\ e \in Ends
  BY TheSocket DEF SessionInv
<1>2. <<>> \in Seq(Answers)
  BY EmptySeq
<1>3. <<[tag |-> "resetsession"]>> \in Seq(Answers) /\ <<[tag |-> "wait"]>> \in Seq(Answers)
  <2>1. [tag |-> "resetsession"] \in Answers /\ [tag |-> "wait"] \in Answers
    BY DEF Answers
  <2> QED
    BY <2>1
<1>4. CASE Lookup(e) = None
  BY <1>1, <1>2, <1>3, <1>4 DEF Early
<1>5. CASE Lookup(e) # None /\ Restarts(ConnectSeq(b), sock[rank[e]])
  BY <1>1, <1>2, <1>5 DEF Early
<1>6. CASE Lookup(e) # None /\ ~Restarts(ConnectSeq(b), sock[rank[e]])
  <2>1. PICK x, c : x = sock[rank[e]] /\ c = ConnectSeq(b)
    OBVIOUS
  <2>2. Early(b) = EarlyReplies(e, c, x)
    BY <1>1, <1>6, <2>1 DEF Early
  <2>3. IsSession(sock, rank, link, wire) /\ rank[e] # None
    BY <1>6 DEF SessionInv, Lookup
  <2>4. IsSocket(x)
    BY <1>1, <2>1, <2>3, RegisteredIsUsed, TheSocket
  <2>5. NextSeq(x.cseq) \in Nat
    BY <2>4, NextSeqType DEF IsSocket, Sockets
  <2>6. <<[tag |-> "retry", cseq |-> NextSeq(x.cseq)]>> \in Seq(Answers)
    <3>1. [tag |-> "retry", cseq |-> NextSeq(x.cseq)] \in Answers
      BY <2>5 DEF Answers
    <3> QED
      BY <3>1
  <2>7. PICK f, g, h : /\ EarlyReplies(e, c, x) = f \o g \o h
                       /\ f = <<>> \/ f = <<[tag |-> "retry", cseq |-> NextSeq(x.cseq)]>>
                       /\ g = <<>> \/ g = <<[tag |-> "wait"]>>
                       /\ h = <<>> \/ h = <<[tag |-> "resetsession"]>>
    BY DEF EarlyReplies
  <2>8. f \in Seq(Answers) /\ g \in Seq(Answers) /\ h \in Seq(Answers)
    BY <1>2, <1>3, <2>6, <2>7
  <2>9. f \o g \in Seq(Answers)
    BY <2>8, ConcatProperties
  <2>10. (f \o g) \o h \in Seq(Answers)
    BY <2>8, <2>9, ConcatProperties
  <2> QED
    BY <2>2, <2>7, <2>10
<1> QED
  BY <1>4, <1>5, <1>6

\* What accepting() writes are items.
LEMMA RepliesAreItems ==
    ASSUME SessionInv, NEW b \in Ids, AtConnect(b)
    PROVE  Early(b) \in Seq(WireItems) /\ Ready(b) \in WireItems
<1>1. Ready(b) \in WireItems
  BY IdentifiedIsGood DEF Ready, WireItems
<1>2. PICK l : l = Early(b) /\ l \in Seq(Answers)
  BY EarlyAnswers
<1>3. l \in [1..Len(l) -> WireItems] /\ Len(l) \in Nat
  <2>1. Answers \subseteq WireItems
    BY DEF Answers, WireItems
  <2>2. l \in [1..Len(l) -> Answers] /\ Len(l) \in Nat
    BY <1>2, LenProperties
  <2> QED
    BY <2>1, <2>2
<1>4. l \in Seq(WireItems)
  BY <1>3, IsASeq
<1> QED
  BY <1>1, <1>2, <1>4

LEMMA AcceptNewKeeps == ASSUME SessionInv, NEW b \in Ids, AcceptNew(b) PROVE SessionInv'
<1>1. PICK r, e, refused, items, v, t, w :
        /\ r = Identified(b) /\ e = b[1] /\ refused = (Early(b) # <<>>) /\ t = link[b]
        /\ items = IF refused THEN Early(b) ELSE <<Ready(b)>>
        /\ v = IF refused THEN [r EXCEPT !.reader = "reading"] ELSE Opened(r, ConnectSeq(b))
        /\ w = [wire EXCEPT ![b] = Tail(wire[b])]
  OBVIOUS
<1>2. /\ IsSession(sock, rank, link, wire) /\ AtConnect(b) /\ t # None /\ link' = link
      /\ sock' = [sock EXCEPT ![b] = v]
      /\ wire' = [wire EXCEPT ![b] = Tail(@), ![t] = @ \o items]
      /\ rank' = [rank EXCEPT ![e] = IF refused THEN @ ELSE b]
  BY <1>1 DEF SessionInv, AcceptNew
<1>3. /\ IsSocket(r) /\ IsTail(r) /\ r.sent = <<>> /\ r.state = "accepting" /\ r.writer = "none"
      /\ ConnectSeq(b) \in Nat
  BY <1>1, <1>2, IdentifiedIsGood
<1>4. /\ wire \in [Ids -> Seq(WireItems)] /\ t \in Ids /\ t # b /\ link[t] = b /\ b # None
      /\ wire[b] # <<>> /\ e \in Ends /\ b \in SocketsOf(e)
  BY <1>1, <1>2, NoneIsNone DEF IsSession, AtConnect, Ids, SocketsOf, Ends
<1>5. /\ v \in Good /\ v.reader = "reading" /\ ~IsIdle(v) /\ v.state # "free"
  <2>1. CASE refused
    <3>1. v = [r EXCEPT !.reader = "reading"]
      BY <1>1, <2>1
    <3>2. /\ IsSocket(v) /\ v.state = r.state /\ v.writer = r.writer /\ v.sent = r.sent
          /\ v.outSeq = r.outSeq /\ v.lossy = r.lossy /\ v.reader = "reading"
      BY <1>3, <3>1 DEF IsSocket, Sockets, Readers
    <3> QED
      BY <1>3, <3>2 DEF IsTail, IsCalm, IsStaffed, IsIdle, Good, IsSocket
  <2>2. CASE ~refused
    <3>1. /\ IsSocket(v) /\ IsTail(v) /\ v.state = "open" /\ v.reader = "reading"
          /\ v.writer = "loop"
      BY <1>1, <1>3, <2>2, OpenedIsGood
    <3> QED
      BY <3>1 DEF IsCalm, IsStaffed, IsIdle, Good, IsSocket
  <2> QED
    BY <2>1, <2>2
<1>6. IsSession(sock', rank, link, wire) /\ sock'[b] = v
  <2>1. IsPlaced(b, v, link[b], wire[b], rank)
    BY <1>5 DEF IsPlaced
  <2>2. IsSession(sock', rank, link, wire)
    BY <1>2, <1>5, <2>1, SocketChanges
  <2> QED
    BY <1>2, <2>2 DEF IsSession
<1>7. IsSession(sock', rank, link, w)
  BY <1>1, <1>4, <1>5, <1>6, ItemRead
<1>8. items \in Seq(WireItems)
  <2>1. Early(b) \in Seq(WireItems) /\ Ready(b) \in WireItems
    BY <1>2, RepliesAreItems
  <2> QED
    BY <1>1, <2>1
<1>9. IsSession(sock', rank, link, [w EXCEPT ![t] = w[t] \o items])
  BY <1>4, <1>7, <1>8, ItemsArrive
<1>10. wire' = [w EXCEPT ![t] = w[t] \o items]
  BY <1>1, <1>2, <1>4
<1>11. IsSession(sock', rank', link', wire')
  <2>1. CASE refused
    <3>1. rank' = rank
      BY <1>2, <2>1 DEF IsSession
    <3> QED
      BY <1>2, <1>9, <1>10, <3>1
  <2>2. CASE ~refused
    <3>1. rank' = [rank EXCEPT ![e] = b]
      BY <1>2, <2>2
    <3>2. IsSession(sock', [rank EXCEPT ![e] = b], link, [w EXCEPT ![t] = w[t] \o items])
      BY <1>4, <1>5, <1>6, <1>9, RankChanges
    <3> QED
      BY <1>2, <1>10, <3>1, <3>2
  <2> QED
    BY <2>1, <2>2
<1>12. Counted'
  BY DEF SessionInv, Counted, AcceptNew
<1> QED
  BY <1>11, <1>12 DEF SessionInv

LEMMA AcceptLostKeeps == ASSUME SessionInv, NEW b \in Ids, AcceptLost(b) PROVE SessionInv'
<1>1. PICK r, p, replaced : /\ r = sock[b] /\ p = LosslessClient
                            /\ sock' = [sock EXCEPT ![b] = AcceptFailed(r, p, replaced)]
  BY DEF AcceptLost
<1>2. /\ IsSession(sock, rank, link, wire) /\ r.reader = "accepting" /\ link[b] = None
      /\ rank' = rank /\ link' = link /\ wire' = wire
  BY <1>1 DEF SessionInv, AcceptLost
<1>3. IsSocket(r) /\ IsTail(r) /\ r.sent = <<>>
  BY <1>1, <1>2, TheSocket DEF IsCalm
<1>4. PICK v : v = AcceptFailed(r, p, replaced)
  OBVIOUS
<1>5. /\ IsSocket(v) /\ IsTail(v) /\ v.sent = <<>> /\ v.state \in {"closed", "standby", "connecting"}
      /\ v.reader \in {"none", "standby"} /\ v.writer \in {"none", "loop"}
  BY <1>3, <1>4, AcceptFailedIsGood
<1>6. v \in Good
  BY <1>5 DEF IsCalm, IsStaffed, Good, IsSocket
<1>7. IsPlaced(b, v, link[b], wire[b], rank)
  BY <1>2, <1>5 DEF IsPlaced
<1>8. IsSession(sock', rank', link', wire')
  BY <1>1, <1>2, <1>4, <1>6, <1>7, SocketChanges
<1>9. Counted'
  BY DEF SessionInv, Counted, AcceptLost
<1> QED
  BY <1>8, <1>9 DEF SessionInv

\* replace_socket(): b takes the place of x; what their readers have to read
\* and what goes out over b's connection changes as well.
ReplacedWire(b, x, i, k, replies) ==
    [s \in Ids |->
        IF s = b THEN Tail(wire[s])
        ELSE IF s = x THEN SubSeq(wire[s], 1, i)
        ELSE IF s = link[b] THEN wire[s] \o replies
        ELSE IF s = link[x] THEN SubSeq(wire[s], 1, k)
        ELSE wire[s]]

LEMMA ReplacedWireIs ==
    ASSUME NEW b \in Ids, NEW x \in Ids, x # b, NEW i, NEW k, NEW replies,
           NEW w, w = ReplacedWire(b, x, i, k, replies)
    PROVE  /\ w = [s \in Ids |-> w[s]]
           /\ w[b] = Tail(wire[b]) /\ w[x] = SubSeq(wire[x], 1, i)
           /\ \A s \in Ids : s # b /\ s # x /\ s = link[b] => w[s] = wire[s] \o replies
           /\ \A s \in Ids : s # b /\ s # x /\ s # link[b] =>
                 w[s] = IF s = link[x] THEN SubSeq(wire[s], 1, k) ELSE wire[s]
<1>1. w = [s \in Ids |-> w[s]]
  BY DEF ReplacedWire
<1>2. \A s \in Ids : w[s] = IF s = b THEN Tail(wire[s])
                             ELSE IF s = x THEN SubSeq(wire[s], 1, i)
                             ELSE IF s = link[b] THEN wire[s] \o replies
                             ELSE IF s = link[x] THEN SubSeq(wire[s], 1, k)
                             ELSE wire[s]
  BY DEF ReplacedWire
<1>3. w[b] = Tail(wire[b])
  BY <1>2
<1>4. w[x] = SubSeq(wire[x], 1, i)
  BY <1>2
<1>5. \A s \in Ids : s # b /\ s # x /\ s = link[b] => w[s] = wire[s] \o replies
  BY <1>2
<1>6. \A s \in Ids : s # b /\ s # x /\ s # link[b] =>
         w[s] = IF s = link[x] THEN SubSeq(wire[s], 1, k) ELSE wire[s]
  BY <1>2
<1> QED
  BY <1>1, <1>3, <1>4, <1>5, <1>6

LEMMA ReplaceKeeps ==
    ASSUME IsSession(sock, rank, link, wire), NEW b \in Ids, NEW x \in Ids, x # b,
           wire[b] # <<>>,
           NEW q \in Good, q.state # "free", q.reader # "accepting", IsIdle(q) => link[b] = None,
           NEW y \in Good, y.state # "free", y.reader # "accepting",
           NEW i \in 0..Len(wire[x]), NEW k,
           IF link[x] = None THEN k = 0 ELSE k \in 0..Len(wire[link[x]]),
           NEW replies \in Seq(WireItems), NEW gone,
           sock' = [sock EXCEPT ![b] = q, ![x] = y],
           link' = CutLink(link, x),
           wire' = ReplacedWire(b, x, i, k, replies),
           rank' = [rank EXCEPT ![b[1]] = IF gone THEN None ELSE b]
    PROVE  IsSession(sock, rank, link, wire)'
<1>0. /\ link \in [Ids -> Ids \cup {None}] /\ wire \in [Ids -> Seq(WireItems)]
      /\ \A t \in Ids : link[t] # None => link[link[t]] = t /\ link[t] # t
      /\ b[1] \in Ends /\ b \in SocketsOf(b[1]) /\ b # None /\ x # None
  BY NoneIsNone DEF IsSession, Ids, SocketsOf, Ends
<1>1. PICK l, w : l = CutLink(link, x) /\ w = CutWire(link, wire, x, i, k)
  OBVIOUS
<1>2. IsSession(sock, rank, l, w) /\ l[x] = None
  BY <1>1, CutKeeps
<1>3. \A t \in Ids : (link[t] = None => l[t] = None) /\ (t # x /\ t # link[x] => l[t] = link[t])
  BY <1>0, <1>1 DEF CutLink
<1>4. PICK f : f = [sock EXCEPT ![b] = q]
  OBVIOUS
<1>5. IsSession(f, rank, l, w)
  <2>1. IsPlaced(b, q, l[b], w[b], rank)
    BY <1>3 DEF IsPlaced
  <2> QED
    BY <1>2, <1>4, <2>1, SocketChanges
<1>6. IsSession(sock', rank, l, w) /\ sock'[b] = q
  <2>1. IsPlaced(x, y, l[x], w[x], rank)
    BY <1>2 DEF IsPlaced
  <2>2. IsSession([f EXCEPT ![x] = y], rank, l, w)
    BY <1>5, <2>1, SocketChanges
  <2>3. sock' = [f EXCEPT ![x] = y] /\ sock'[b] = q
    BY <1>2, <1>4 DEF IsSession
  <2> QED
    BY <2>2, <2>3
<1>7. PICK w2, h : h = Tail(wire[b]) /\ w2 = [w EXCEPT ![b] = h]
  OBVIOUS
<1>8. IsSession(sock', rank, l, w2)
  <2>1. h \in Seq(WireItems)
    BY <1>0, <1>7, HeadTailProperties
  <2>2. IsPlaced(b, sock'[b], l[b], h, rank)
    BY <1>3, <1>6 DEF IsPlaced
  <2> QED
    BY <1>6, <1>7, <2>1, <2>2, WireChanges
<1>9. /\ \A s \in Ids : w[s] = IF s = x THEN SubSeq(wire[s], 1, i)
                               ELSE IF s = link[x] THEN SubSeq(wire[s], 1, k) ELSE wire[s]
      /\ w \in [Ids -> Seq(WireItems)]
  <2>1. w \in [Ids -> Seq(WireItems)]
    BY <1>2 DEF IsSession
  <2> QED
    BY <1>1, <2>1 DEF CutWire
<1> PICK g : g = wire'
  OBVIOUS
<1>10. /\ g = wire' /\ g = [s \in Ids |-> g[s]]
       /\ g[b] = Tail(wire[b]) /\ g[x] = SubSeq(wire[x], 1, i)
       /\ \A s \in Ids : s # b /\ s # x /\ s = link[b] => g[s] = wire[s] \o replies
       /\ \A s \in Ids : s # b /\ s # x /\ s # link[b] =>
             g[s] = IF s = link[x] THEN SubSeq(wire[s], 1, k) ELSE wire[s]
  <2>1. g = ReplacedWire(b, x, i, k, replies)
    OBVIOUS
  <2>2. /\ g = [s \in Ids |-> g[s]]
        /\ g[b] = Tail(wire[b]) /\ g[x] = SubSeq(wire[x], 1, i)
        /\ \A s \in Ids : s # b /\ s # x /\ s = link[b] => g[s] = wire[s] \o replies
        /\ \A s \in Ids : s # b /\ s # x /\ s # link[b] =>
              g[s] = IF s = link[x] THEN SubSeq(wire[s], 1, k) ELSE wire[s]
    BY <2>1, ReplacedWireIs
  <2> QED
    BY <2>2
<1>11. IsSession(sock', rank, l, wire')
  <2>1. CASE link[b] = None \/ link[b] = x
    <3>1. ASSUME NEW s \in Ids PROVE g[s] = w2[s]
      <4>1. CASE s = b
        BY <1>7, <1>9, <1>10, <4>1
      <4>2. CASE s # b
        BY <1>7, <1>9, <1>10, <2>1, <4>2, NoneIsNone
      <4> QED
        BY <4>1, <4>2
    <3>2. wire' = w2
      BY <1>7, <1>9, <1>10, <3>1
    <3> QED
      BY <1>8, <3>2
  <2>2. CASE link[b] # None /\ link[b] # x
    <3>1. PICK t : t = link[b]
      OBVIOUS
    <3>2. t \in Ids /\ t # x /\ t # b /\ link[t] = b /\ t # link[x]
      BY <1>0, <2>2, <3>1, NoneIsNone
    <3>3. l[t] # None
      BY <1>0, <1>3, <3>2
    <3>4. IsSession(sock', rank, l, [w2 EXCEPT ![t] = w2[t] \o replies])
      BY <1>8, <3>2, <3>3, ItemsArrive
    <3>5. w2[t] = wire[t]
      BY <1>7, <1>9, <3>2
    <3>6. PICK w3 : w3 = [w2 EXCEPT ![t] = wire[t] \o replies]
      OBVIOUS
    <3>7. ASSUME NEW s \in Ids PROVE g[s] = w3[s]
      <4>1. w2 \in [Ids -> Seq(WireItems)] /\ w3[t] = wire[t] \o replies
            /\ \A z \in Ids : z # t => w3[z] = w2[z]
        <5>1. w2 \in [Ids -> Seq(WireItems)]
          BY <1>8 DEF IsSession
        <5> QED
          BY <3>2, <3>6, <5>1
      <4>2. CASE s = t
        BY <1>10, <3>1, <3>2, <4>1, <4>2
      <4>3. CASE s # t
        <5>1. w3[s] = w2[s] /\ s # link[b]
          BY <3>1, <4>1, <4>3
        <5>2. CASE s = b
          BY <1>7, <1>9, <1>10, <5>1, <5>2
        <5>3. CASE s = x
          BY <1>7, <1>9, <1>10, <5>1, <5>3
        <5>4. CASE s # b /\ s # x
          BY <1>7, <1>9, <1>10, <5>1, <5>4
        <5> QED
          BY <5>2, <5>3, <5>4
      <4> QED
        BY <4>2, <4>3
    <3>8. wire' = w3
      BY <1>7, <1>9, <1>10, <3>6, <3>7
    <3> QED
      BY <3>4, <3>5, <3>6, <3>8
  <2> QED
    BY <2>1, <2>2
<1>12. IsSession(sock', rank', l, wire')
  <2>1. PICK n : n = IF gone THEN None ELSE b
    OBVIOUS
  <2>2. IsSession(sock', [rank EXCEPT ![b[1]] = n], l, wire')
    BY <1>0, <1>6, <1>11, <2>1, RankChanges
  <2> QED
    BY <2>1, <2>2
<1> QED
  BY <1>1, <1>12

\* The new socket takes over and is open; what is left of the old one.
LEMMA SuccessorIsGood ==
    ASSUME SessionInv, NEW b \in Ids, AtConnect(b), NEW x, IsSocket(x), IsTail(x), NEW zero,
           NEW o, o = Opened(TakenOver(Identified(b), x, zero), ConnectSeq(b))
    PROVE  /\ IsSocket(o) /\ IsTail(o) /\ o.sent = <<>> /\ o.state = "open"
           /\ o.reader = "reading" /\ o.writer = "loop"
<1>1. PICK r, t : r = Identified(b) /\ t = TakenOver(r, x, zero)
  OBVIOUS
<1>2. IsSocket(r) /\ r.sent = <<>> /\ ConnectSeq(b) \in Nat
  BY <1>1, IdentifiedIsGood
<1>3. IsSocket(t) /\ IsTail(t) /\ t.sent = <<>>
  BY <1>1, <1>2, TakenOverIsGood
<1>4. PICK n : n = ConnectSeq(b)
  OBVIOUS
<1>5. o = Opened(t, n) /\ n \in Nat
  BY <1>1, <1>2, <1>4
<1> QED
  BY <1>3, <1>5, OpenedIsGood

LEMMA OldIsGood ==
    ASSUME NEW x \in Good, x.reader # "accepting", NEW old, old = x \/ old = SessionReset(x)
    PROVE  /\ IsSocket(old) /\ IsTail(old)
           /\ LeftOver(old) \in Good /\ LeftOver(old).state = "closed"
           /\ LeftOver(old).reader # "accepting"
<1>1. IsSocket(x) /\ IsTail(x) /\ IsStaffed(x)
  BY DEF Good, IsSocket
<1>2. /\ IsSocket(old) /\ IsTail(old) /\ old.reader = x.reader /\ old.writer = x.writer
      /\ old.out = x.out
  <2>1. CASE old = x
    BY <1>1, <2>1
  <2>2. CASE old = SessionReset(x)
    BY <1>1, <2>2, SessionResetIsGood
  <2> QED
    BY <2>1, <2>2
<1>3. x.writer = "await" => x.reader = "none"
  BY <1>1 DEF IsStaffed
<1>4. PICK y : y = LeftOver(old)
  OBVIOUS
<1>5. /\ IsSocket(y) /\ IsTail(y) /\ y.sent = <<>> /\ y.state = "closed"
      /\ y.reader = x.reader /\ y.writer = x.writer /\ y.out = x.out
  BY <1>2, <1>4, LeftOverIsGood
<1>6. IsCalm(y) /\ IsStaffed(y)
  BY <1>1, <1>3, <1>5 DEF IsCalm, IsStaffed
<1> QED
  BY <1>2, <1>4, <1>5, <1>6 DEF Good, IsSocket

\* What the reader of the old socket has in hand and what had arrived at the
\* other end are the first items of what there is.
LEMMA CutBounds ==
    ASSUME IsSession(sock, rank, link, wire), NEW x \in Ids, NEW i \in InHand(x), NEW k \in Arrived(x)
    PROVE  /\ i \in 0..Len(wire[x])
           /\ IF link[x] = None THEN k = 0 ELSE k \in 0..Len(wire[link[x]])
<1>1. i \in 0..Len(wire[x])
  <2>1. wire[x] \in Seq(WireItems)
    BY DEF IsSession
  <2>2. Len(wire[x]) \in Nat /\ (wire[x] # <<>> => Len(wire[x]) # 0)
    BY <2>1, LenProperties, EmptySeq
  <2> QED
    BY <2>2 DEF InHand
<1> QED
  BY <1>1 DEF Arrived

\* The session the old socket leaves, the socket that takes it over, and the
\* step in which it does: q is in the place of the old one.
Old(b) ==
    LET x == sock[rank[b[1]]]
    IN  IF EndsSession(b[1], ConnectSeq(b), x) THEN SessionReset(x) ELSE x
Successor(b, zero) == Opened(TakenOver(Identified(b), Old(b), zero), ConnectSeq(b))
Replaces(b, q, i, k, replies) ==
    /\ i \in InHand(rank[b[1]]) /\ k \in Arrived(rank[b[1]])
    /\ sock' = [sock EXCEPT ![b] = q, ![rank[b[1]]] = LeftOver(Old(b))]
    /\ link' = CutLink(link, rank[b[1]])
    /\ wire' = ReplacedWire(b, rank[b[1]], i, k, replies)
    /\ rank' = [rank EXCEPT ![b[1]] = IF q.lossy /\ q.state = "closed" THEN None ELSE b]

LEMMA ExistingReplaces ==
    ASSUME NEW b, AcceptExisting(b)
    PROVE  \E zero, i, k, q : /\ q = Successor(b, zero)
                              /\ Replaces(b, q, i, k, Append(Early(b), Ready(b)))
<1> DEFINE E == b[1]
           X == rank[E]
           C == ConnectSeq(b)
           O == IF EndsSession(E, C, sock[X]) THEN SessionReset(sock[X]) ELSE sock[X]
           Q(zero) == Opened(TakenOver(Identified(b), O, zero), C)
<1>1. PICK zero \in BOOLEAN, i \in InHand(X), k \in Arrived(X) :
        /\ sock' = [sock EXCEPT ![b] = Q(zero), ![X] = LeftOver(O)]
        /\ link' = CutLink(link, X)
        /\ wire' = ReplacedWire(b, X, i, k, Append(Early(b), Ready(b)))
        /\ rank' = [rank EXCEPT ![E] = IF Q(zero).lossy /\ Q(zero).state = "closed" THEN None ELSE b]
  BY DEF AcceptExisting, Replace, CutLink, ReplacedWire
<1>2. O = Old(b)
  BY DEF Old
<1> HIDE DEF C, O
<1>3. Q(zero) = Successor(b, zero)
  BY <1>2 DEF Successor, C
<1> HIDE DEF Q
<1>4. PICK q : q = Q(zero)
  OBVIOUS
<1>5. Replaces(b, q, i, k, Append(Early(b), Ready(b)))
  BY <1>1, <1>2, <1>4 DEF Replaces
<1> QED
  BY <1>3, <1>4, <1>5

LEMMA FailsReplaces ==
    ASSUME NEW b, Replace(b, LAMBDA r : AcceptFailed(r, policy[b[1]], TRUE), <<>>)
    PROVE  \E zero, i, k, q : /\ q = AcceptFailed(Successor(b, zero), policy[b[1]], TRUE)
                              /\ Replaces(b, q, i, k, <<>>)
<1> DEFINE E == b[1]
           X == rank[E]
           C == ConnectSeq(b)
           P == policy[E]
           O == IF EndsSession(E, C, sock[X]) THEN SessionReset(sock[X]) ELSE sock[X]
           W(zero) == Opened(TakenOver(Identified(b), O, zero), C)
           Q(zero) == AcceptFailed(W(zero), P, TRUE)
<1>1. PICK zero \in BOOLEAN, i \in InHand(X), k \in Arrived(X) :
        /\ sock' = [sock EXCEPT ![b] = Q(zero), ![X] = LeftOver(O)]
        /\ link' = CutLink(link, X)
        /\ wire' = ReplacedWire(b, X, i, k, <<>>)
        /\ rank' = [rank EXCEPT ![E] = IF Q(zero).lossy /\ Q(zero).state = "closed" THEN None ELSE b]
  BY DEF Replace, CutLink, ReplacedWire
<1>2. O = Old(b)
  BY DEF Old
<1> HIDE DEF C, O
<1>3. W(zero) = Successor(b, zero)
  BY <1>2 DEF Successor, C
<1>4. Q(zero) = AcceptFailed(Successor(b, zero), policy[b[1]], TRUE)
  BY <1>3
<1> HIDE DEF W, Q
<1>5. PICK q : q = Q(zero)
  OBVIOUS
<1>6. Replaces(b, q, i, k, <<>>)
  BY <1>1, <1>2, <1>5 DEF Replaces
<1> QED
  BY <1>4, <1>5, <1>6

\* Who is registered is another socket, in use and not waiting for a reply.
LEMMA ReplacesAnother ==
    ASSUME SessionInv, NEW b \in Ids, AtConnect(b), Lookup(b[1]) # None
    PROVE  /\ b[1] \in Ends /\ rank[b[1]] \in Ids /\ rank[b[1]] # b
           /\ sock[rank[b[1]]] \in Good /\ sock[rank[b[1]]].state # "free"
           /\ sock[rank[b[1]]].reader # "accepting" /\ sock[rank[b[1]]].writer # "await"
<1>1. /\ IsSession(sock, rank, link, wire) /\ b[1] \in Ends /\ rank[b[1]] # None
      /\ sock[b].reader = "accepting"
  BY TheSocket DEF SessionInv, Lookup, AtConnect
<1>2. PICK e, x : e = b[1] /\ x = rank[e]
  OBVIOUS
<1>3. x \in Ids /\ sock[x].state # "free" /\ sock[x].reader # "accepting" /\ sock[x] \in Good
  BY <1>1, <1>2, RegisteredIsUsed, TheSocket
<1>4. sock[x].writer # "await"
  BY <1>1, <1>2 DEF AtConnect, Locked
<1> QED
  BY <1>1, <1>2, <1>3, <1>4

\* The old socket is stopped, and its threads are where they were.
LEMMA OldStops ==
    ASSUME SessionInv, NEW b \in Ids, AtConnect(b), Lookup(b[1]) # None
    PROVE  /\ IsSocket(Old(b)) /\ IsTail(Old(b))
           /\ LeftOver(Old(b)) \in Good /\ LeftOver(Old(b)).state = "closed"
           /\ LeftOver(Old(b)).reader = sock[rank[b[1]]].reader
<1>1. PICK r, old : r = sock[rank[b[1]]] /\ old = Old(b)
  OBVIOUS
<1>2. r \in Good /\ r.reader # "accepting"
  BY <1>1, ReplacesAnother
<1>3. old = r \/ old = SessionReset(r)
  BY <1>1 DEF Old
<1>4. IsSocket(old) /\ IsTail(old) /\ LeftOver(old) \in Good /\ LeftOver(old).state = "closed"
  BY <1>2, <1>3, OldIsGood
<1>5. LeftOver(old).reader = r.reader
  <2>1. old.reader = r.reader
    BY <1>2, <1>3, SessionResetIsGood DEF Good, IsSocket
  <2>2. LeftOver(old).reader = old.reader
    BY <1>4, LeftOverIsGood
  <2> QED
    BY <2>1, <2>2
<1> QED
  BY <1>1, <1>4, <1>5

LEMMA AcceptExistingKeeps ==
    ASSUME SessionInv, NEW b \in Ids, AcceptExisting(b) PROVE SessionInv'
<1>1. PICK e, x, c, replies, old :
        /\ e = b[1] /\ x = rank[e] /\ c = ConnectSeq(b)
        /\ replies = Append(Early(b), Ready(b))
        /\ old = IF EndsSession(e, c, sock[x]) THEN SessionReset(sock[x]) ELSE sock[x]
  OBVIOUS
<1>2. /\ IsSession(sock, rank, link, wire) /\ AtConnect(b) /\ rank[e] # None
      /\ wire[b] # <<>> /\ e \in Ends
  BY <1>1, TheSocket DEF SessionInv, AcceptExisting, Lookup, AtConnect
<1>3. PICK zero, i, k, q :
        /\ i \in InHand(x) /\ k \in Arrived(x)
        /\ q = Opened(TakenOver(Identified(b), old, zero), c)
        /\ sock' = [sock EXCEPT ![b] = q, ![x] = LeftOver(old)]
        /\ link' = CutLink(link, x)
        /\ wire' = ReplacedWire(b, x, i, k, replies)
        /\ rank' = [rank EXCEPT ![e] = IF q.lossy /\ q.state = "closed" THEN None ELSE b]
  <2>1. old = Old(b)
    BY <1>1 DEF Old
  <2>2. PICK zero, i, k, q : q = Successor(b, zero) /\ Replaces(b, q, i, k, Append(Early(b), Ready(b)))
    BY ExistingReplaces
  <2> QED
    BY <1>1, <2>1, <2>2 DEF Successor, Replaces
<1>4. x \in Ids /\ sock[x].state # "free" /\ sock[x].reader # "accepting" /\ sock[x] \in Good
  BY <1>1, <1>2, RegisteredIsUsed, TheSocket
<1>5. /\ IsSocket(old) /\ IsTail(old) /\ LeftOver(old) \in Good /\ LeftOver(old).state = "closed"
      /\ LeftOver(old).reader # "accepting"
  BY <1>1, <1>4, OldIsGood
<1>6. /\ IsSocket(q) /\ IsTail(q) /\ q.state = "open" /\ q.reader = "reading" /\ q.writer = "loop"
  <2>1. q = Opened(TakenOver(Identified(b), old, zero), ConnectSeq(b))
    BY <1>1, <1>3
  <2> QED
    BY <1>2, <1>5, <2>1, SuccessorIsGood
<1>7. q \in Good /\ ~IsIdle(q)
  BY <1>6 DEF IsCalm, IsStaffed, Good, IsSocket, IsIdle
<1>8. replies \in Seq(WireItems)
  <2>1. Early(b) \in Seq(WireItems) /\ Ready(b) \in WireItems
    BY <1>2, RepliesAreItems
  <2> QED
    BY <1>1, <2>1, AppendProperties
<1>9. x # b
  BY <1>2, <1>4 DEF AtConnect
<1>10. PICK y, gone : y = LeftOver(old) /\ gone = (q.lossy /\ q.state = "closed")
  OBVIOUS
<1>11. /\ i \in 0..Len(wire[x])
       /\ IF link[x] = None THEN k = 0 ELSE k \in 0..Len(wire[link[x]])
  BY <1>2, <1>3, <1>4, CutBounds
<1>12. /\ sock' = [sock EXCEPT ![b] = q, ![x] = y]
       /\ rank' = [rank EXCEPT ![b[1]] = IF gone THEN None ELSE b]
  BY <1>1, <1>3, <1>10
<1>13. /\ y \in Good /\ y.state # "free" /\ y.reader # "accepting"
       /\ q.state # "free" /\ q.reader # "accepting"
  BY <1>5, <1>6, <1>10
<1>14. IsSession(sock, rank, link, wire)'
  BY <1>2, <1>3, <1>4, <1>7, <1>8, <1>9, <1>11, <1>12, <1>13, ReplaceKeeps
<1>15. Counted'
  BY DEF SessionInv, Counted, AcceptExisting, Replace, Resets
<1> QED
  BY <1>14, <1>15 DEF SessionInv

\* The first reply cannot be written, nothing is replaced.
LEMMA FailsAlone ==
    ASSUME SessionInv, NEW b \in Ids, AtConnect(b), link[b] = None, NEW r, NEW replaced,
           r = Identified(b) \/ r = Opened(Identified(b), ConnectSeq(b)),
           NEW q, q = AcceptFailed(r, policy[b[1]], replaced), NEW stays,
           sock' = [sock EXCEPT ![b] = q], wire' = [wire EXCEPT ![b] = <<>>], link' = link,
           rank' = [rank EXCEPT ![b[1]] = IF stays THEN @ ELSE b]
    PROVE  IsSession(sock, rank, link, wire)'
<1>1. PICK i : i = Identified(b)
  OBVIOUS
<1>2. IsSession(sock, rank, link, wire) /\ b[1] \in Ends /\ b \in SocketsOf(b[1])
  BY DEF SessionInv, Ids, SocketsOf, Ends
<1>3. IsSocket(i) /\ IsTail(i) /\ i.sent = <<>> /\ ConnectSeq(b) \in Nat
  BY <1>1, IdentifiedIsGood
<1>4. IsSocket(r) /\ IsTail(r) /\ r.sent = <<>>
  <2>1. CASE r = i
    BY <1>3, <2>1
  <2>2. CASE r = Opened(i, ConnectSeq(b))
    BY <1>3, <2>2, OpenedIsGood
  <2> QED
    BY <1>1, <2>1, <2>2
<1>5. /\ IsSocket(q) /\ IsTail(q) /\ q.sent = <<>> /\ q.state \in {"closed", "standby", "connecting"}
      /\ q.reader \in {"none", "standby"} /\ q.writer \in {"none", "loop"}
  BY <1>4, AcceptFailedIsGood
<1>6. q \in Good
  BY <1>5 DEF IsCalm, IsStaffed, Good, IsSocket
<1>7. \A w : IsPlaced(b, q, link[b], w, rank)
  BY <1>5 DEF IsPlaced
<1>8. IsSession(sock', rank, link, wire) /\ sock'[b] = q
  <2>1. IsSession(sock', rank, link, wire)
    BY <1>2, <1>6, <1>7, SocketChanges
  <2> QED
    BY <1>2, <2>1 DEF IsSession
<1>9. PICK w : w = <<>> /\ w \in Seq(WireItems)
  BY EmptySeq
<1>10. IsSession(sock', rank, link, [wire EXCEPT ![b] = w])
  <2>1. IsPlaced(b, sock'[b], link[b], w, rank)
    BY <1>7, <1>8
  <2>2. IsSession(sock', rank, link, wire) /\ w \in Seq(WireItems)
    BY <1>8, <1>9
  <2> HIDE DEF IsPlaced, IsSession
  <2> QED
    BY <2>1, <2>2, WireChanges
<1>11. IsSession(sock', rank, link', wire')
  BY <1>9, <1>10
<1>12. CASE stays
  <2>1. rank' = rank
    BY <1>2, <1>12 DEF IsSession
  <2> QED
    BY <1>11, <2>1
<1>13. CASE ~stays
  <2>1. rank' = [rank EXCEPT ![b[1]] = b]
    BY <1>13
  <2>2. IsSession(sock', [rank EXCEPT ![b[1]] = b], link', wire')
    BY <1>2, <1>5, <1>8, <1>11, RankChanges
  <2> QED
    BY <2>1, <2>2
<1> QED
  BY <1>12, <1>13

LEMMA AcceptFailsKeeps ==
    ASSUME SessionInv, NEW b \in Ids, AcceptFails(b) PROVE SessionInv'
<1>1. PICK e, x, c, p, old :
        /\ e = b[1] /\ x = rank[e] /\ c = ConnectSeq(b) /\ p = policy[e]
        /\ old = IF EndsSession(e, c, sock[x]) THEN SessionReset(sock[x]) ELSE sock[x]
  OBVIOUS
<1>2. IsSession(sock, rank, link, wire) /\ AtConnect(b) /\ link[b] = None /\ wire[b] # <<>>
  BY DEF SessionInv, AcceptFails, AtConnect
<1>3. CASE /\ Lookup(b[1]) = None \/ Early(b) # <<>>
           /\ \E replaced \in BOOLEAN :
                LET r == IF Early(b) # <<>> THEN Identified(b)
                         ELSE Opened(Identified(b), ConnectSeq(b))
                    q == AcceptFailed(r, policy[b[1]], replaced)
                IN  /\ sock' = [sock EXCEPT ![b] = q]
                    /\ rank' = [rank EXCEPT ![b[1]] =
                          IF Early(b) # <<>> \/ (q.lossy /\ q.state = "closed" /\ replaced)
                          THEN @ ELSE b]
           /\ wire' = [wire EXCEPT ![b] = <<>>]
           /\ UNCHANGED <<link, mark>>
  <2>1. PICK replaced, r, q, stays :
          /\ replaced \in BOOLEAN
          /\ r = IF Early(b) # <<>> THEN Identified(b) ELSE Opened(Identified(b), ConnectSeq(b))
          /\ q = AcceptFailed(r, policy[b[1]], replaced)
          /\ stays = (Early(b) # <<>> \/ (q.lossy /\ q.state = "closed" /\ replaced))
          /\ sock' = [sock EXCEPT ![b] = q]
          /\ rank' = [rank EXCEPT ![b[1]] = IF stays THEN @ ELSE b]
    BY <1>3
  <2>2. r = Identified(b) \/ r = Opened(Identified(b), ConnectSeq(b))
    BY <2>1
  <2>3. wire' = [wire EXCEPT ![b] = <<>>] /\ link' = link
    BY <1>3
  <2>4. IsSession(sock, rank, link, wire)'
    BY <1>2, <2>1, <2>2, <2>3, FailsAlone
  <2>5. Counted'
    BY <1>3 DEF SessionInv, Counted, AcceptFails
  <2> QED
    BY <2>4, <2>5 DEF SessionInv
<1>4. CASE /\ Lookup(b[1]) # None /\ Early(b) = <<>>
           /\ Replace(b, LAMBDA r : AcceptFailed(r, policy[b[1]], TRUE), <<>>)
  <2>1. rank[e] # None /\ e \in Ends
    BY <1>1, <1>2, <1>4, TheSocket DEF Lookup
  <2>2. PICK zero, i, k, o, q :
          /\ i \in InHand(x) /\ k \in Arrived(x)
          /\ o = Opened(TakenOver(Identified(b), old, zero), c)
          /\ q = AcceptFailed(o, p, TRUE)
          /\ sock' = [sock EXCEPT ![b] = q, ![x] = LeftOver(old)]
          /\ link' = CutLink(link, x)
          /\ wire' = ReplacedWire(b, x, i, k, <<>>)
          /\ rank' = [rank EXCEPT ![e] = IF q.lossy /\ q.state = "closed" THEN None ELSE b]
    <3>1. old = Old(b)
      BY <1>1 DEF Old
    <3>2. PICK zero, i, k, o, q : /\ o = Successor(b, zero) /\ q = AcceptFailed(o, policy[b[1]], TRUE)
                                  /\ Replaces(b, q, i, k, <<>>)
      BY <1>4, FailsReplaces
    <3> QED
      BY <1>1, <3>1, <3>2 DEF Successor, Replaces
  <2>3. x \in Ids /\ sock[x].state # "free" /\ sock[x].reader # "accepting" /\ sock[x] \in Good
    BY <1>1, <1>2, <2>1, RegisteredIsUsed, TheSocket
  <2>4. /\ IsSocket(old) /\ IsTail(old) /\ LeftOver(old) \in Good /\ LeftOver(old).state = "closed"
        /\ LeftOver(old).reader # "accepting"
    BY <1>1, <2>3, OldIsGood
  <2>5. IsSocket(o) /\ IsTail(o) /\ o.sent = <<>>
    <3>1. o = Opened(TakenOver(Identified(b), old, zero), ConnectSeq(b))
      BY <1>1, <2>2
    <3> QED
      BY <1>2, <2>4, <3>1, SuccessorIsGood
  <2>6. /\ IsSocket(q) /\ IsTail(q) /\ q.sent = <<>> /\ q.state \in {"closed", "standby", "connecting"}
        /\ q.reader \in {"none", "standby"} /\ q.writer \in {"none", "loop"}
    BY <2>2, <2>5, AcceptFailedIsGood
  <2>7. q \in Good
    BY <2>6 DEF IsCalm, IsStaffed, Good, IsSocket
  <2>8. x # b
    BY <1>2, <2>3 DEF AtConnect
  <2>9. PICK y, gone, replies : /\ y = LeftOver(old) /\ gone = (q.lossy /\ q.state = "closed")
                                /\ replies = <<>> /\ replies \in Seq(WireItems)
    BY EmptySeq
  <2>10. /\ i \in 0..Len(wire[x])
         /\ IF link[x] = None THEN k = 0 ELSE k \in 0..Len(wire[link[x]])
    BY <1>2, <2>2, <2>3, CutBounds
  <2>11. /\ sock' = [sock EXCEPT ![b] = q, ![x] = y]
         /\ rank' = [rank EXCEPT ![b[1]] = IF gone THEN None ELSE b]
         /\ wire' = ReplacedWire(b, x, i, k, replies) /\ link' = CutLink(link, x)
    BY <1>1, <2>2, <2>9
  <2>12. /\ y \in Good /\ y.state # "free" /\ y.reader # "accepting"
         /\ q.state # "free" /\ q.reader # "accepting"
    BY <2>4, <2>6, <2>9
  <2>13. IsSession(sock, rank, link, wire)'
    BY <1>2, <2>3, <2>7, <2>8, <2>9, <2>10, <2>11, <2>12, ReplaceKeeps
  <2>14. mark' \in [Ends -> Nat]
    BY <1>4 DEF SessionInv, Counted, Replace, Resets
  <2>15. Counted'
    BY <2>14 DEF SessionInv, Counted, AcceptFails
  <2> QED
    BY <2>13, <2>15 DEF SessionInv
<1> QED
  BY <1>3, <1>4 DEF AcceptFails

-----------------------------------------------------------------------------
(* The theorem                                                             *)

LEMMA StartsQuiet == Init => SessionInv
<1> SUFFICES ASSUME Init PROVE SessionInv
  OBVIOUS
<1>1. Counted
  BY SessionAssumption DEF Init, Counted, Ends
<1>2. PICK f : f = Free
  OBVIOUS
<1>3. f \in Good /\ f.state = "free" /\ f.reader = "none"
  <2>1. /\ IsSocket(f) /\ IsTail(f) /\ f.sent = <<>> /\ f.state = "free" /\ f.reader = "none"
        /\ f.writer = "none"
    BY <1>2, NewIsGood DEF Free, NewSocket
  <2> QED
    BY <1>2, <2>1 DEF IsCalm, IsStaffed, Good, IsSocket
<1>4. sock = [s \in Ids |-> f] /\ \A s \in Ids : sock[s] = f
  BY <1>2 DEF Init
<1>5. /\ rank \in [Ends -> Ids \cup {None}] /\ \A e \in Ends : rank[e] = None
      /\ link \in [Ids -> Ids \cup {None}] /\ \A s \in Ids : link[s] = None
      /\ wire \in [Ids -> Seq(WireItems)]
  BY EmptySeq DEF Init
<1>6. ASSUME NEW s \in Ids PROVE IsPlaced(s, sock[s], link[s], wire[s], rank)
  <2>1. s \notin {rank[1], rank[2]}
    BY <1>5, NoneIsNone DEF Ends
  <2> QED
    BY <1>3, <1>4, <1>5, <2>1 DEF IsPlaced
<1>7. IsSession(sock, rank, link, wire)
  BY <1>3, <1>4, <1>5, <1>6 DEF IsSession
<1> QED
  BY <1>1, <1>7 DEF SessionInv

LEMMA StepKeeps == SessionInv /\ [Next]_vars => SessionInv'
<1> SUFFICES ASSUME SessionInv, [Next]_vars PROVE SessionInv'
  OBVIOUS
<1>1. CASE UNCHANGED vars
  BY <1>1 DEF vars, SessionInv, Counted
<1>2. ASSUME NEW e \in Ends, Send(e) \/ SendFirst(e) \/ MarkDown(e) PROVE SessionInv'
  BY <1>2, SendKeeps, SendFirstKeeps, MarkDownKeeps
<1>3. ASSUME NEW s \in Ids, Writer(s) PROVE SessionInv'
  <2>1. \/ WriterLeavesStandby(s) \/ JoinReader(s) \/ Connect(s) \/ ReadReply(s) \/ NoReply(s)
        \/ TakeAck(s) \/ TakeMessage(s) \/ WriteOut(s) \/ AckWritten(s)
        \/ WriteFails(s) \/ WriterExits(s)
    BY <1>3 DEF Writer
  <2> QED
    BY <2>1, WriterLeavesStandbyKeeps, JoinReaderKeeps, ConnectKeeps, ReadReplyKeeps, NoReplyKeeps,
       TakeAckKeeps, TakeMessageKeeps, WriteOutKeeps, AckWrittenKeeps, WriteFailsKeeps,
       WriterExitsKeeps
<1>4. ASSUME NEW s \in Ids, Reader(s) PROVE SessionInv'
  <2>1. \/ AcceptNew(s) \/ AcceptExisting(s) \/ AcceptLost(s) \/ AcceptFails(s)
        \/ ReadMessage(s) \/ ReadAck(s) \/ ReadFails(s) \/ ReaderWakes(s)
    BY <1>4 DEF Reader
  <2> QED
    BY <2>1, AcceptNewKeeps, AcceptExistingKeeps, AcceptLostKeeps, AcceptFailsKeeps,
       ReadMessageKeeps, ReadAckKeeps, ReadFailsKeeps, ReaderWakesKeeps
<1>5. ASSUME NEW s \in Ids, Deliver(s) \/ Reap(s) \/ Break(s) PROVE SessionInv'
  BY <1>5, DeliverKeeps, ReapKeeps, BreakKeeps
<1> QED
  BY <1>1, <1>2, <1>3, <1>4, <1>5 DEF Next, Runs

\* The invariant gives the types and the order of what is kept.
LEMMA SessionGivesTail == SessionInv => SentIsTail
<1> SUFFICES ASSUME SessionInv PROVE SentIsTail
  OBVIOUS
<1>1. IsSession(sock, rank, link, wire)
  BY DEF SessionInv
<1>2. ASSUME NEW s \in Ids
      PROVE  /\ sock[s].state \in States
             /\ {sock[s].lossy, sock[s].known} \subseteq BOOLEAN
             /\ {sock[s].cseq, sock[s].inSeq, sock[s].acked, sock[s].outSeq} \subseteq Nat
             /\ sock[s].sent \in Seq([m : Messages, seq : Nat])
             /\ sock[s].outq \in Seq(Messages)
             /\ sock[s].inq \in Seq(Messages)
             /\ sock[s].reader \in {"none", "accepting", "reading", "standby"}
             /\ sock[s].writer \in {"none", "loop", "join", "await", "writing", "acking", "acked"}
             /\ link[s] \in Ids \cup {None}
             /\ link[s] # None => link[link[s]] = s
             /\ sock[s].state = "free" => sock[s] = Free /\ s \notin {rank[1], rank[2]}
             /\ \A i \in DOMAIN sock[s].sent :
                   sock[s].sent[i].seq = sock[s].outSeq - Len(sock[s].sent) + i
  <2>1. PICK r : r = sock[s]
    OBVIOUS
  <2>2. /\ IsSocket(r) /\ IsTail(r) /\ IsStaffed(r)
        /\ IsPlaced(s, r, link[s], wire[s], rank) /\ link[s] \in Ids \cup {None}
    BY <1>1, <2>1, TheSocket
  <2>3. /\ r.state \in States
        /\ {r.lossy, r.known} \subseteq BOOLEAN
        /\ {r.cseq, r.inSeq, r.acked, r.outSeq} \subseteq Nat
        /\ r.sent \in Seq([m : Messages, seq : Nat])
        /\ r.outq \in Seq(Messages)
        /\ r.inq \in Seq(Messages)
        /\ r.reader \in {"none", "accepting", "reading", "standby"}
        /\ r.writer \in {"none", "loop", "join", "await", "writing", "acking", "acked"}
    BY <2>2 DEF IsSocket, Sockets, Kept, Readers, Writers
  <2>4. link[s] # None => link[link[s]] = s
    BY <1>1 DEF IsSession
  <2>5. r.state = "free" => r = Free /\ s \notin {rank[1], rank[2]}
    BY <2>2 DEF IsStaffed, IsPlaced
  <2>6. DOMAIN r.sent = 1..Len(r.sent)
    BY <2>3, LenProperties
  <2>7. \A i \in DOMAIN r.sent : r.sent[i].seq = r.outSeq - Len(r.sent) + i
    BY <2>2, <2>6 DEF IsTail, IsLast
  <2> QED
    BY <2>1, <2>2, <2>3, <2>4, <2>5, <2>7
<1>3. \A e \in Ends : rank[e] \in SocketsOf(e) \cup {None}
  BY <1>1 DEF IsSession
<1>4. TypeOK
  BY <1>2, <1>3 DEF TypeOK, SessionInv, Counted
<1> QED
  BY <1>2, <1>4 DEF SentIsTail

\* What a socket keeps for a repetition, until it is acknowledged, are the
\* last messages it numbered, in their order: whoever reconnects, replaces a
\* socket or loses one of the acknowledgements, requeue_sent() may take the
\* numbers back by counting, and what is sent again has the number it had.
THEOREM KeptInOrder == Spec => []SentIsTail
<1>1. Init => SessionInv
  BY StartsQuiet
<1>2. SessionInv /\ [Next]_vars => SessionInv'
  BY StepKeeps
<1>3. SessionInv => SentIsTail
  BY SessionGivesTail
<1> QED
  BY <1>1, <1>2, <1>3, PTL DEF Spec
-----------------------------------------------------------------------------
(* The two ends of a connection                                            *)

\* Socket r, with w to read, waits for the reply of q at the other end: nothing
\* has come as long as q accepts, and READY says what q has become.
AwaitsReply(r, w, q) ==
    r.writer = "await" =>
        /\ q.writer # "await"
        /\ w = <<>> => q.reader = "accepting"
        /\ w # <<>> /\ w[1].tag = "ready" /\ q.state = "open"
              => q.cseq = NextSeq(r.cseq) /\ q.lossy = w[1].lossy

\* Socket r accepts what q has sent, and has not replied.
AcceptsFrom(r, w, q, v) ==
    r.reader = "accepting" =>
        q.writer = "await" /\ w # <<>> /\ w[1].cseq = q.cseq /\ v = <<>>

Agree(r, q) ==
    r.state = "open" /\ q.state = "open" => r.cseq = q.cseq /\ r.lossy = q.lossy

IsPair(r, w, q, v) == AwaitsReply(r, w, q) /\ AcceptsFrom(r, w, q, v) /\ Agree(r, q)
Paired ==
    \A s \in Ids : link[s] # None => IsPair(sock[s], wire[s], sock[link[s]], wire[link[s]])

\* Most steps of a socket take nothing from that: r becomes p, and w becomes n.
Follows(p, r) ==
    /\ p.writer = "await" <=> r.writer = "await"
    /\ p.reader = "accepting" <=> r.reader = "accepting"
    /\ p.state = "open" => r.state = "open"
    /\ p.state = "open" \/ p.writer = "await" => p.cseq = r.cseq /\ p.lossy = r.lossy
Behind(n, w, r) ==
    r.writer = "await" \/ r.reader = "accepting"
        => IF w = <<>> THEN n = <<>> ELSE n # <<>> /\ n[1] = w[1]

\* ... nor from the part that r has in its end: it connects, accepts and is open
\* as it did before.
SameRole(p, r) ==
    /\ p.state = r.state /\ p.known = r.known
    /\ p.writer \in {"join", "await"} => r.writer = p.writer
    /\ p.reader = "accepting" => r.reader = "accepting"
    /\ r.reader = "none" => p.reader = "none"

LEMMA PairStays ==
    ASSUME NEW r, NEW w, NEW q, NEW v, IsPair(r, w, q, v),
           NEW p, Follows(p, r), NEW u, Follows(u, q),
           NEW n, Behind(n, w, r), NEW x, Behind(x, v, q)
    PROVE  IsPair(p, n, u, x)
<1>1. AwaitsReply(p, n, u)
  BY DEF IsPair, AwaitsReply, Follows, Behind
<1>2. AcceptsFrom(p, n, u, x)
  BY DEF IsPair, AcceptsFrom, Follows, Behind
<1>3. Agree(p, u)
  BY DEF IsPair, Agree, Follows
<1> QED
  BY <1>1, <1>2, <1>3 DEF IsPair

\* Connections only go, and what comes over the others goes behind.
Lessens ==
    \A t \in Ids : \/ link'[t] = None
                   \/ link'[t] = link[t] /\ Behind(wire'[t], wire[t], sock[t])

LEMMA LinkedBack ==
    ASSUME SessionInv, NEW s \in Ids, link[s] # None
    PROVE  link[s] \in Ids /\ link[link[s]] = s /\ link[s] # s
BY DEF SessionInv, IsSession

LEMMA PairsStay ==
    ASSUME SessionInv, SessionInv', Paired, Lessens,
           \A t \in Ids : link'[t] # None => Follows(sock'[t], sock[t])
    PROVE  Paired'
<1> SUFFICES ASSUME NEW s \in Ids, link'[s] # None
             PROVE  IsPair(sock'[s], wire'[s], sock'[link'[s]], wire'[link'[s]])
  BY DEF Paired
<1>1. link'[s] = link[s] /\ link[s] # None /\ Behind(wire'[s], wire[s], sock[s])
  BY DEF Lessens
<1>2. PICK t : t = link[s]
  OBVIOUS
<1>3. t \in Ids /\ link'[t] # None
  <2>1. t \in Ids
    BY <1>1, <1>2, LinkedBack
  <2>2. link'[link'[s]] = s
    BY DEF SessionInv, IsSession
  <2> QED
    BY <1>1, <1>2, <2>1, <2>2, NoneIsNone
<1>4. Behind(wire'[t], wire[t], sock[t]) /\ Follows(sock'[t], sock[t]) /\ Follows(sock'[s], sock[s])
  BY <1>3 DEF Lessens
<1>5. IsPair(sock[s], wire[s], sock[t], wire[t])
  BY <1>1, <1>2 DEF Paired
<1>6. IsPair(sock'[s], wire'[s], sock'[t], wire'[t])
  BY <1>1, <1>4, <1>5, PairStays
<1> QED
  BY <1>1, <1>2, <1>6

\* A step that changes one socket.
LEMMA OneMoves ==
    ASSUME SessionInv, SessionInv', Paired, Lessens, NEW s \in Ids, NEW v,
           sock' = [sock EXCEPT ![s] = v], link'[s] = None \/ Follows(v, sock[s])
    PROVE  Paired'
<1>1. sock \in [Ids -> Good]
  BY DEF SessionInv, IsSession
<1>2. ASSUME NEW t \in Ids, link'[t] # None PROVE Follows(sock'[t], sock[t])
  <2>1. CASE t = s
    BY <1>1, <1>2, <2>1
  <2>2. CASE t # s
    BY <1>1, <2>2 DEF Follows
  <2> QED
    BY <2>1, <2>2
<1> QED
  BY <1>2, PairsStay

LEMMA WiresStay == ASSUME link' = link, wire' = wire PROVE Lessens
BY DEF Lessens, Behind

\* shutdown_socket() takes the connection of the socket, and no other.
LEMMA ShutdownLessens ==
    ASSUME SessionInv, NEW s \in Ids, Shutdown(s)
    PROVE  Lessens /\ link'[s] = None
<1>1. PICK i \in InHand(s), k \in Arrived(s) : Cut(s, i, k)
  BY DEF Shutdown
<1>2. link[s] \in Ids \cup {None}
  BY DEF SessionInv, IsSession
<1>3. ASSUME NEW t \in Ids
      PROVE  \/ link'[t] = None
             \/ t # s /\ link'[t] = link[t] /\ wire'[t] = wire[t]
  BY <1>1, <1>2, <1>3, NoneIsNone DEF Cut
<1>4. link'[s] = None
  BY <1>3
<1>5. Lessens
  BY <1>3 DEF Lessens, Behind
<1> QED
  BY <1>4, <1>5

\* fault() of a socket that has no connection, or loses it.
LEMMA FaultPairs ==
    ASSUME SessionInv, SessionInv', Paired, NEW s \in Ids, NEW r, NEW onread, NEW reset,
           Fault(s, r, onread, reset), link[s] = None \/ ~Ignored(r, onread)
    PROVE  Paired'
<1>1. PICK v : sock' = [sock EXCEPT ![s] = v]
  BY DEF Fault
<1>2. Lessens /\ link'[s] = None
  <2>1. CASE Ignored(r, onread)
    BY <2>1, WiresStay DEF Fault
  <2>2. CASE ~Ignored(r, onread)
    BY <2>2, ShutdownLessens DEF Fault
  <2> QED
    BY <2>1, <2>2
<1> QED
  BY <1>1, <1>2, OneMoves

\* The fields of a socket.
LEMMA SocketOf ==
    ASSUME SessionInv, NEW s \in Ids
    PROVE  sock[s] \in Sockets /\ IsStaffed(sock[s]) /\ IsPlaced(s, sock[s], link[s], wire[s], rank)
BY DEF SessionInv, IsSession, Good

LEMMA TookFollows ==
    ASSUME NEW r \in Sockets, r.writer # "await"
    PROVE  Follows(Took(r), r)
BY DEF Took, Sockets, Follows

LEMMA SendPairs == ASSUME SessionInv, SessionInv', Paired, NEW e \in Ends, Send(e) PROVE Paired'
<1>1. PICK s, v : s = rank[e] /\ v = [sock[s] EXCEPT !.outq = Append(sock[s].outq, handed[e] + 1)]
  OBVIOUS
<1>2. s \in Ids /\ sock' = [sock EXCEPT ![s] = v]
  BY <1>1, RegisteredIsUsed DEF Send, Lookup, SessionInv
<1>3. Follows(v, sock[s])
  BY <1>1, <1>2, SocketOf DEF Follows, Sockets
<1>4. Lessens
  BY WiresStay DEF Send
<1> QED
  BY <1>2, <1>3, <1>4, OneMoves

LEMMA SendFirstPairs ==
    ASSUME SessionInv, SessionInv', Paired, NEW e \in Ends, SendFirst(e) PROVE Paired'
<1>1. PICK s \in FreeSocket(e) : \E v : sock' = [sock EXCEPT ![s] = v]
  BY DEF SendFirst
<1>2. s \in Ids /\ sock[s].state = "free"
  BY DEF FreeSocket, Ids, Ends
<1>3. link[s] = None
  BY <1>2, SocketOf DEF IsPlaced, IsIdle
<1>4. Lessens /\ link'[s] = None
  BY <1>3, WiresStay DEF SendFirst
<1> QED
  BY <1>1, <1>2, <1>4, OneMoves

LEMMA MarkDownPairs ==
    ASSUME SessionInv, SessionInv', Paired, NEW e \in Ends, MarkDown(e) PROVE Paired'
<1>1. PICK s, v : s = rank[e] /\ v = [sock[s] EXCEPT !.state = "closed"]
  OBVIOUS
<1>2. s \in Ids /\ sock' = [sock EXCEPT ![s] = v] /\ Shutdown(s)
  BY <1>1, RegisteredIsUsed DEF MarkDown, Lookup, SessionInv
<1> QED
  BY <1>2, ShutdownLessens, OneMoves

\* A writer that neither connects nor reads or writes moves its socket only.
LEMMA WriterMoves ==
    ASSUME SessionInv, NEW s \in Ids,
           \/ WriterLeavesStandby(s) \/ JoinReader(s) \/ TakeAck(s) \/ TakeMessage(s)
           \/ AckWritten(s) \/ WriterExits(s)
    PROVE  /\ link' = link /\ wire' = wire
           /\ \E v : /\ sock' = [sock EXCEPT ![s] = v] /\ Follows(v, sock[s])
                     /\ v.reader = sock[s].reader /\ v.cseq = sock[s].cseq /\ (IsIdle(v) => IsIdle(sock[s]))
                     /\ SameRole(v, sock[s]) \/ WriterLeavesStandby(s) \/ JoinReader(s)
<1>1. PICK r : r = sock[s] /\ r \in Sockets
  BY SocketOf
<1>2. CASE WriterLeavesStandby(s)
  <2>1. PICK v : v = [r EXCEPT !.state = "connecting"]
    OBVIOUS
  <2>2. sock' = [sock EXCEPT ![s] = v] /\ r.writer = "loop" /\ r.state = "standby"
    BY <1>1, <1>2, <2>1 DEF WriterLeavesStandby
  <2>3. Follows(v, r) /\ v.reader = r.reader /\ v.cseq = r.cseq /\ IsIdle(r)
    BY <1>1, <2>1, <2>2 DEF Follows, Sockets, IsIdle
  <2> QED
    BY <1>1, <1>2, <2>2, <2>3 DEF WriterLeavesStandby
<1>3. CASE JoinReader(s)
  <2>1. PICK v : v = [r EXCEPT !.writer = "join"]
    OBVIOUS
  <2>2. sock' = [sock EXCEPT ![s] = v] /\ r.writer = "loop" /\ r.state = "connecting"
    BY <1>1, <1>3, <2>1 DEF JoinReader
  <2>3. Follows(v, r) /\ v.reader = r.reader /\ v.cseq = r.cseq /\ IsIdle(r)
    BY <1>1, <2>1, <2>2 DEF Follows, Sockets, IsIdle
  <2> QED
    BY <1>1, <1>3, <2>2, <2>3 DEF JoinReader
<1>4. CASE TakeAck(s)
  <2>1. PICK v : v = [r EXCEPT !.out = [tag |-> "ack", seq |-> r.inSeq], !.writer = "acking"]
    OBVIOUS
  <2>2. sock' = [sock EXCEPT ![s] = v] /\ r.writer = "loop" /\ r.state = "open"
    BY <1>1, <1>4, <2>1 DEF TakeAck, CanWrite
  <2>3. Follows(v, r) /\ v.reader = r.reader /\ v.cseq = r.cseq /\ ~IsIdle(v) /\ SameRole(v, r)
    BY <1>1, <2>1, <2>2 DEF SameRole, Follows, Sockets, IsIdle
  <2> QED
    BY <1>1, <1>4, <2>2, <2>3 DEF TakeAck
<1>5. CASE TakeMessage(s)
  <2>1. PICK v : v = Took(r)
    OBVIOUS
  <2>2. sock' = [sock EXCEPT ![s] = v] /\ r.writer = "loop" /\ r.state = "open"
    BY <1>1, <1>5, <2>1 DEF TakeMessage, CanWrite
  <2>3. Follows(v, r) /\ v.reader = r.reader /\ v.cseq = r.cseq /\ ~IsIdle(v) /\ SameRole(v, r)
    BY <1>1, <2>1, <2>2 DEF SameRole, Follows, Sockets, IsIdle, Took
  <2> QED
    BY <1>1, <1>5, <2>2, <2>3 DEF TakeMessage
<1>6. CASE AckWritten(s)
  <2>1. PICK p, v : /\ p = [r EXCEPT !.acked = r.out.seq, !.out = NoItem, !.writer = "loop"]
                    /\ v = IF p.outq # <<>> THEN Took(p) ELSE p
    OBVIOUS
  <2>2. sock' = [sock EXCEPT ![s] = v] /\ r.writer = "acked"
    BY <1>1, <1>6, <2>1 DEF AckWritten
  <2>3. /\ p.state = r.state /\ p.reader = r.reader /\ p.writer = "loop"
        /\ p.cseq = r.cseq /\ p.lossy = r.lossy /\ p.known = r.known
    BY <1>1, <2>1 DEF Sockets
  <2>4. Follows(Took(p), p) /\ Took(p).reader = p.reader /\ Took(p).writer = "writing"
        /\ Took(p).state = p.state /\ Took(p).known = p.known /\ Took(p).cseq = p.cseq
    BY <1>1, <2>1 DEF Took, Sockets, Follows
  <2>5. /\ Follows(v, p) /\ v.reader = p.reader /\ v.writer \in {"loop", "writing"}
        /\ v.state = p.state /\ v.known = p.known /\ v.cseq = p.cseq
    BY <2>1, <2>3, <2>4 DEF Follows
  <2>6. IsIdle(v) => IsIdle(r)
    BY <2>2, <2>3, <2>5 DEF IsIdle
  <2>7. Follows(v, r)
    BY <2>2, <2>3, <2>5 DEF Follows
  <2>8. SameRole(v, r)
    BY <2>2, <2>3, <2>5 DEF SameRole
  <2> QED
    BY <1>1, <1>6, <2>2, <2>3, <2>5, <2>6, <2>7, <2>8 DEF AckWritten
<1>7. CASE WriterExits(s)
  <2>1. PICK v : v = [r EXCEPT !.writer = "none"]
    OBVIOUS
  <2>2. sock' = [sock EXCEPT ![s] = v] /\ r.writer = "loop" /\ r.state = "closed"
    BY <1>1, <1>7, <2>1 DEF WriterExits
  <2>3. Follows(v, r) /\ v.reader = r.reader /\ v.cseq = r.cseq /\ ~IsIdle(v) /\ SameRole(v, r)
    BY <1>1, <2>1, <2>2 DEF SameRole, Follows, Sockets, IsIdle
  <2> QED
    BY <1>1, <1>7, <2>2, <2>3 DEF WriterExits
<1> QED
  BY <1>2, <1>3, <1>4, <1>5, <1>6, <1>7

LEMMA WriterMovesPairs ==
    ASSUME SessionInv, SessionInv', Paired, NEW s \in Ids,
           \/ WriterLeavesStandby(s) \/ JoinReader(s) \/ TakeAck(s) \/ TakeMessage(s)
           \/ AckWritten(s) \/ WriterExits(s)
    PROVE  Paired'
<1>1. PICK v : sock' = [sock EXCEPT ![s] = v] /\ Follows(v, sock[s])
  BY WriterMoves
<1>2. Lessens
  BY WriterMoves, WiresStay
<1> QED
  BY <1>1, <1>2, OneMoves

\* A reader takes an item, or looks at the state.
LEMMA ReaderMoves ==
    ASSUME SessionInv, NEW s \in Ids, ReadMessage(s) \/ ReadAck(s) \/ ReaderWakes(s)
    PROVE  /\ sock[s].reader \in {"reading", "standby"} /\ sock[s].writer # "await"
           /\ \E v : /\ sock' = [sock EXCEPT ![s] = v] /\ Follows(v, sock[s])
                     /\ v.reader # "accepting" /\ v.cseq = sock[s].cseq /\ (IsIdle(v) => IsIdle(sock[s]))
                     /\ SameRole(v, sock[s])
<1>1. PICK r : r = sock[s] /\ r \in Sockets /\ IsStaffed(r)
  BY SocketOf
<1>2. r.reader \in {"reading", "standby"} /\ r.writer # "await"
  BY <1>1 DEF ReadMessage, ReadAck, ReaderWakes, IsStaffed
<1>3. PICK k, n, q, l :
        /\ sock' = [sock EXCEPT ![s] = ReaderLoops(k)]
        /\ \/ k = r \/ k = [r EXCEPT !.inSeq = n, !.inq = q] \/ k = [r EXCEPT !.sent = l]
  <2>1. CASE ReadMessage(s)
    <3>1. PICK n, q, k : /\ n = Head(wire[s]).seq
                         /\ q = Queued(r.inq, Head(wire[s]).m, got[s[1]])
                         /\ k = IF r.state \in {"closed", "connecting"} THEN r
                                ELSE [r EXCEPT !.inSeq = n, !.inq = q]
      OBVIOUS
    <3>2. sock' = [sock EXCEPT ![s] = ReaderLoops(k)]
      BY <1>1, <2>1, <3>1 DEF ReadMessage
    <3>3. k = r \/ k = [r EXCEPT !.inSeq = n, !.inq = q]
      BY <3>1
    <3> QED
      BY <3>2, <3>3
  <2>2. CASE ReadAck(s)
    BY <1>1, <2>2 DEF ReadAck, Acknowledged
  <2>3. CASE ReaderWakes(s)
    BY <1>1, <2>3 DEF ReaderWakes
  <2> QED
    BY <2>1, <2>2, <2>3
<1>4. PICK v, d : /\ v = ReaderLoops(k) /\ v = [k EXCEPT !.reader = d]
                  /\ d \in {"none", "standby", "reading"}
  BY DEF ReaderLoops
<1>5. /\ v.reader = d /\ v.state = r.state /\ v.writer = r.writer /\ v.cseq = r.cseq
      /\ v.lossy = r.lossy /\ v.known = r.known
  <2>1. /\ DOMAIN k = DOMAIN r /\ k.state = r.state /\ k.writer = r.writer /\ k.cseq = r.cseq
        /\ k.lossy = r.lossy /\ k.known = r.known
    <3>1. CASE k = r
      BY <3>1
    <3>2. CASE k = [r EXCEPT !.inSeq = n, !.inq = q]
      BY <1>1, <3>2 DEF Sockets
    <3>3. CASE k = [r EXCEPT !.sent = l]
      BY <1>1, <3>3 DEF Sockets
    <3> QED
      BY <1>3, <3>1, <3>2, <3>3
  <2> QED
    BY <1>1, <1>4, <2>1 DEF Sockets
<1>6. Follows(v, r)
  BY <1>2, <1>4, <1>5 DEF Follows
<1>7. v.reader # "accepting" /\ (IsIdle(v) => IsIdle(r))
  BY <1>4, <1>5 DEF IsIdle
<1>8. SameRole(v, r)
  BY <1>2, <1>4, <1>5 DEF SameRole
<1> QED
  BY <1>1, <1>2, <1>3, <1>4, <1>5, <1>6, <1>7, <1>8

LEMMA ReaderMovesPairs ==
    ASSUME SessionInv, SessionInv', Paired, NEW s \in Ids,
           ReadMessage(s) \/ ReadAck(s) \/ ReaderWakes(s)
    PROVE  Paired'
<1>1. PICK v : sock' = [sock EXCEPT ![s] = v] /\ Follows(v, sock[s])
  BY ReaderMoves
<1>2. link' = link /\ \A t \in Ids : t # s => wire'[t] = wire[t]
  BY SocketOf DEF ReadMessage, ReadAck, ReaderWakes, SessionInv, IsSession
<1>3. sock[s].reader # "accepting" /\ sock[s].writer # "await"
  BY ReaderMoves
<1>4. Lessens
  BY <1>2, <1>3 DEF Lessens, Behind
<1> QED
  BY <1>1, <1>4, OneMoves

LEMMA WriteOutPairs == ASSUME SessionInv, SessionInv', Paired, NEW s \in Ids, WriteOut(s) PROVE Paired'
<1>1. PICK t, w, v :
        /\ t = link[s] /\ w = wire[t] \o <<sock[s].out>>
        /\ v = [sock[s] EXCEPT !.writer = IF sock[s].writer = "acking" THEN "acked" ELSE "loop",
                               !.out = IF sock[s].writer = "acking" THEN sock[s].out ELSE NoItem]
  OBVIOUS
<1>2. /\ t # None /\ link' = link /\ wire' = [wire EXCEPT ![t] = w]
      /\ sock' = [sock EXCEPT ![s] = v] /\ sock[s].writer \in {"writing", "acking"}
  BY <1>1 DEF WriteOut, Write
<1>3. sock[s] \in Sockets /\ IsStaffed(sock[s])
  BY SocketOf
<1>4. sock[s].reader # "accepting" /\ sock[s].writer # "await"
  BY <1>2, <1>3 DEF IsStaffed
<1>5. Follows(v, sock[s])
  BY <1>1, <1>2, <1>3 DEF Follows, Sockets
<1>6. Behind(w, wire[t], sock[t])
  <2>1. t \in Ids /\ link[t] = s /\ IsPair(sock[t], wire[t], sock[s], wire[s])
    <3>1. t \in Ids /\ link[t] = s /\ s # None
      BY <1>1, <1>2, LinkedBack, NoneIsNone
    <3> QED
      BY <3>1 DEF Paired
  <2>2. sock[t].writer = "await" => wire[t] # <<>>
    BY <1>4, <2>1 DEF IsPair, AwaitsReply
  <2>3. sock[t].reader # "accepting"
    BY <1>4, <2>1 DEF IsPair, AcceptsFrom
  <2>4. ASSUME wire[t] # <<>> PROVE w # <<>> /\ w[1] = wire[t][1]
    <3>1. wire[t] \in Seq(WireItems) /\ sock[s].out \in WireItems
      <4>1. sock[s].out \in MsgItems \cup AckItems
        BY <1>2, <1>3 DEF IsStaffed
      <4> QED
        BY <2>1, <4>1 DEF SessionInv, IsSession, WireItems
    <3>2. PICK z : z = <<sock[s].out>> /\ z \in Seq(WireItems) /\ Len(z) = 1
      <4>1. PICK o : o = sock[s].out
        OBVIOUS
      <4>2. <<o>> \in Seq(WireItems) /\ Len(<<o>>) = 1
        BY <3>1, <4>1
      <4> QED
        BY <4>1, <4>2
    <3>3. w = wire[t] \o z
      BY <1>1, <3>2
    <3>4. /\ Len(w) = Len(wire[t]) + Len(z)
          /\ \A i \in 1..Len(wire[t]) : w[i] = wire[t][i]
      BY <3>1, <3>2, <3>3, ConcatProperties
    <3>5. Len(wire[t]) \in Nat /\ Len(wire[t]) # 0 /\ w \in Seq(WireItems)
      BY <2>4, <3>1, <3>2, <3>3, LenProperties, EmptySeq, ConcatProperties
    <3>6. Len(w) # 0 /\ 1 \in 1..Len(wire[t])
      BY <3>2, <3>4, <3>5
    <3> QED
      BY <3>4, <3>5, <3>6, EmptySeq
  <2> QED
    BY <2>2, <2>3, <2>4 DEF Behind
<1>7. Lessens
  <2>1. wire \in [Ids -> Seq(WireItems)]
    BY DEF SessionInv, IsSession
  <2>2. ASSUME NEW x \in Ids PROVE Behind(wire'[x], wire[x], sock[x])
    <3>1. CASE x = t
      BY <1>2, <1>6, <2>1, <3>1
    <3>2. CASE x # t
      BY <1>2, <2>1, <3>2 DEF Behind
    <3> QED
      BY <3>1, <3>2
  <2> QED
    BY <1>2, <2>2 DEF Lessens
<1> QED
  BY <1>2, <1>5, <1>7, OneMoves

LEMMA WriteFailsPairs ==
    ASSUME SessionInv, SessionInv', Paired, NEW s \in Ids, WriteFails(s) PROVE Paired'
BY FaultPairs DEF WriteFails

LEMMA ReadFailsPairs ==
    ASSUME SessionInv, SessionInv', Paired, NEW s \in Ids, ReadFails(s) PROVE Paired'
BY FaultPairs DEF ReadFails

\* connect_fail()
LEMMA ConnectFailsPairs ==
    ASSUME SessionInv, SessionInv', Paired, NEW s \in Ids, NEW r, NEW reset,
           ConnectFails(s, r, reset), link[s] = None \/ r.state = "connecting"
    PROVE  Paired'
<1>1. CASE r.state = "connecting"
  <2>1. PICK p : p = [r EXCEPT !.writer = "loop"]
    OBVIOUS
  <2>2. Fault(s, p, FALSE, reset)
    BY <1>1, <2>1 DEF ConnectFails
  <2>3. link[s] = None \/ ~Ignored(p, FALSE)
    BY <1>1, <2>1 DEF Ignored
  <2> QED
    BY <2>2, <2>3, FaultPairs
<1>2. CASE r.state # "connecting"
  <2>1. PICK v : /\ sock' = [sock EXCEPT ![s] = v] /\ link' = link /\ link[s] = None
                 /\ wire' = [wire EXCEPT ![s] = <<>>]
    BY <1>2 DEF ConnectFails
  <2>2. wire \in [Ids -> Seq(WireItems)]
    BY DEF SessionInv, IsSession
  <2>3. Lessens
    BY <2>1, <2>2 DEF Lessens, Behind
  <2> QED
    BY <2>1, <2>3, OneMoves
<1> QED
  BY <1>1, <1>2

LEMMA NoReplyPairs ==
    ASSUME SessionInv, SessionInv', Paired, NEW s \in Ids, NoReply(s) PROVE Paired'
BY ConnectFailsPairs DEF NoReply

LEMMA AcceptLostPairs ==
    ASSUME SessionInv, SessionInv', Paired, NEW b \in Ids, AcceptLost(b) PROVE Paired'
<1>1. PICK v : sock' = [sock EXCEPT ![b] = v]
  BY DEF AcceptLost
<1>2. Lessens /\ link'[b] = None
  BY WiresStay DEF AcceptLost
<1> QED
  BY <1>1, <1>2, OneMoves

LEMMA DeliverPairs == ASSUME SessionInv, SessionInv', Paired, NEW s \in Ids, Deliver(s) PROVE Paired'
<1>1. PICK v : v = [sock[s] EXCEPT !.inq = Tail(sock[s].inq)]
  OBVIOUS
<1>2. sock' = [sock EXCEPT ![s] = v] /\ Lessens
  BY <1>1, WiresStay DEF Deliver
<1>3. Follows(v, sock[s])
  BY <1>1, SocketOf DEF Follows, Sockets
<1> QED
  BY <1>2, <1>3, OneMoves

LEMMA ReapPairs == ASSUME SessionInv, SessionInv', Paired, NEW s \in Ids, Reap(s) PROVE Paired'
<1>1. sock' = [sock EXCEPT ![s] = Free] /\ Shutdown(s)
  BY DEF Reap
<1> QED
  BY <1>1, ShutdownLessens, OneMoves

LEMMA BreakPairs == ASSUME SessionInv, SessionInv', Paired, NEW s \in Ids, Break(s) PROVE Paired'
<1>1. link[s] \in Ids /\ sock' = sock /\ link' = [link EXCEPT ![s] = None, ![link[s]] = None]
  BY LinkedBack DEF Break
<1>2. /\ link \in [Ids -> Ids \cup {None}] /\ wire \in [Ids -> Seq(WireItems)]
      /\ \A t \in Ids \ {s, link[s]} : wire'[t] = wire[t]
  BY <1>1 DEF SessionInv, IsSession, Break
<1>3. Lessens
  BY <1>1, <1>2 DEF Lessens, Behind
<1>4. \A t \in Ids : Follows(sock'[t], sock[t])
  BY <1>1 DEF Follows
<1> QED
  BY <1>3, <1>4, PairsStay

\* The length of the first items.
LEMMA SubSeqLength ==
    ASSUME NEW S, NEW w \in Seq(S), NEW k \in 0..Len(w)
    PROVE  Len(SubSeq(w, 1, k)) = k
<1>1. PICK a : a = 1
  OBVIOUS
<1>2. Len(w) \in Nat /\ k \in Nat /\ DOMAIN w = 1..Len(w) /\ \A i \in 1..Len(w) : w[i] \in S
  BY LenProperties
<1>3. a \in Int /\ k \in Int /\ \A i \in a..k : w[i] \in S
  BY <1>1, <1>2
<1>4. Len(SubSeq(w, a, k)) = (IF a <= k THEN k - a + 1 ELSE 0)
  BY <1>3, SubSeqProperties
<1> QED
  BY <1>1, <1>2, <1>4

\* A socket that is to connect has at most the item to read that its reader has
\* in hand; one that accepts, the connect record.
IsTidy(r, w) ==
    /\ IsIdle(r) => Len(w) <= IF r.reader = "reading" THEN 1 ELSE 0
    /\ r.reader = "accepting" => Len(w) <= 1
Tidy == \A s \in Ids : IsTidy(sock[s], wire[s])

\* The others get nothing to read.
Trims(s) == \A t \in Ids : t # s => Len(wire'[t]) <= Len(wire[t])

LEMMA WireLength ==
    ASSUME SessionInv, NEW s \in Ids
    PROVE  /\ wire[s] \in Seq(WireItems) /\ Len(wire[s]) \in Nat
           /\ wire[s] = <<>> <=> Len(wire[s]) = 0
           /\ wire[s] # <<>> => Tail(wire[s]) \in Seq(WireItems) /\ Len(Tail(wire[s])) = Len(wire[s]) - 1
<1>1. wire[s] \in Seq(WireItems)
  BY DEF SessionInv, IsSession
<1>2. Len(wire[s]) \in Nat /\ (wire[s] = <<>> <=> Len(wire[s]) = 0)
  BY <1>1, LenProperties, EmptySeq
<1>3. wire[s] # <<>> => Tail(wire[s]) \in Seq(WireItems) /\ Len(Tail(wire[s])) = Len(wire[s]) - 1
  BY <1>1, HeadTailProperties
<1> QED
  BY <1>1, <1>2, <1>3

LEMMA ShorterIsTidy ==
    ASSUME NEW r, NEW w, NEW n, IsTidy(r, w), Len(w) \in Nat, Len(n) \in Nat, Len(n) <= Len(w)
    PROVE  IsTidy(r, n)
BY DEF IsTidy

LEMMA EmptyIsTidy == ASSUME NEW r PROVE IsTidy(r, <<>>)
<1>1. Len(<<>>) = 0
  BY EmptySeq
<1> QED
  BY <1>1 DEF IsTidy

LEMMA OneTidies ==
    ASSUME SessionInv, SessionInv', Tidy, NEW s \in Ids, Trims(s),
           NEW v, sock' = [sock EXCEPT ![s] = v], IsTidy(v, wire'[s])
    PROVE  Tidy'
<1>1. sock \in [Ids -> Good]
  BY DEF SessionInv, IsSession
<1>2. ASSUME NEW t \in Ids, t # s PROVE IsTidy(sock'[t], wire'[t])
  <2>1. sock'[t] = sock[t] /\ Len(wire'[t]) <= Len(wire[t]) /\ IsTidy(sock[t], wire[t])
    BY <1>1, <1>2 DEF Trims, Tidy
  <2>2. Len(wire[t]) \in Nat
    BY WireLength
  <2>3. Len(wire'[t]) \in Nat
    <3>1. wire' \in [Ids -> Seq(WireItems)]
      BY DEF SessionInv, IsSession
    <3> QED
      BY <3>1, LenProperties
  <2> QED
    BY <2>1, <2>2, <2>3, ShorterIsTidy
<1>3. IsTidy(sock'[s], wire'[s])
  BY <1>1
<1> QED
  BY <1>2, <1>3 DEF Tidy

\* Where nothing is read or written, a socket that does not become idle stays tidy.
LEMMA StaysTidy ==
    ASSUME SessionInv, SessionInv', Tidy, NEW s \in Ids, wire' = wire,
           NEW v, sock' = [sock EXCEPT ![s] = v],
           IsIdle(v) => IsIdle(sock[s]), v.reader = sock[s].reader
    PROVE  Tidy'
<1>1. IsTidy(v, wire'[s])
  BY DEF Tidy, IsTidy
<1>2. Trims(s)
  BY WireLength DEF Trims
<1> QED
  BY <1>1, <1>2, OneTidies

LEMMA ShutdownTidies ==
    ASSUME SessionInv, NEW s \in Ids, Shutdown(s)
    PROVE  /\ Trims(s) /\ Len(wire'[s]) \in Nat /\ Len(wire'[s]) <= Len(wire[s])
           /\ Len(wire'[s]) <= IF sock[s].reader = "reading" THEN 1 ELSE 0
<1>1. PICK i \in InHand(s), k \in Arrived(s) : Cut(s, i, k)
  BY DEF Shutdown
<1>2. /\ i \in 0..Len(wire[s]) /\ i <= IF sock[s].reader = "reading" THEN 1 ELSE 0
      /\ IF link[s] = None THEN k = 0 ELSE k \in 0..Len(wire[link[s]])
  BY <1>1, CutBounds DEF InHand, SessionInv
<1>3. wire'[s] = SubSeq(wire[s], 1, i)
  BY <1>1 DEF Cut
<1>4. Len(wire'[s]) = i
  BY <1>2, <1>3, WireLength, SubSeqLength
<1>5. ASSUME NEW t \in Ids, t # s PROVE Len(wire'[t]) <= Len(wire[t])
  <2>1. CASE t = link[s]
    <3>1. k \in 0..Len(wire[t]) /\ wire'[t] = SubSeq(wire[t], 1, k)
      BY <1>1, <1>2, <1>5, <2>1, NoneIsNone DEF Cut
    <3> QED
      BY <3>1, WireLength, SubSeqLength
  <2>2. CASE t # link[s]
    <3>1. wire'[t] = wire[t]
      BY <1>1, <1>5, <2>2 DEF Cut
    <3> QED
      BY <3>1, WireLength
  <2> QED
    BY <2>1, <2>2
<1> QED
  BY <1>2, <1>4, <1>5, WireLength DEF Trims

\* A shutdown leaves a socket tidy whose reader stays where it is.
LEMMA ShutIsTidy ==
    ASSUME SessionInv, SessionInv', Tidy, NEW s \in Ids, Shutdown(s), NEW v,
           sock' = [sock EXCEPT ![s] = v], v.reader = sock[s].reader \/ sock[s].reader # "reading"
    PROVE  Tidy'
<1>1. PICK n, d, r : n = Len(wire'[s]) /\ d = v.reader /\ r = sock[s].reader
  OBVIOUS
<1>2. n \in Nat /\ n <= (IF r = "reading" THEN 1 ELSE 0) /\ Trims(s)
  BY <1>1, ShutdownTidies
<1>3. n <= (IF d = "reading" THEN 1 ELSE 0) /\ n <= 1
  BY <1>1, <1>2
<1>4. IsTidy(v, wire'[s])
  BY <1>1, <1>3 DEF IsTidy
<1> QED
  BY <1>2, <1>4, OneTidies

\* fault() of a reader that has nothing to read, or of another thread.
LEMMA FaultTidies ==
    ASSUME SessionInv, SessionInv', Tidy, NEW s \in Ids, NEW r, NEW onread \in BOOLEAN, NEW reset,
           Fault(s, r, onread, reset), onread => wire[s] = <<>>,
           ~onread => /\ IsSocket(r) /\ IsTail(r) /\ r.reader = sock[s].reader
                      /\ r.writer = "loop" /\ r.state # "free"
    PROVE  Tidy'
<1>1. PICK q, v : /\ q = Faulted(r, policy[s[1]], onread)
                  /\ v = IF onread THEN ReaderLoops(q) ELSE q
  OBVIOUS
<1>2. /\ sock' = [sock EXCEPT ![s] = v]
      /\ IF Ignored(r, onread) THEN link' = link /\ wire' = wire ELSE Shutdown(s)
  BY <1>1 DEF Fault
<1>3. CASE Ignored(r, onread)
  <2>1. Trims(s) /\ wire' = wire
    BY <1>2, <1>3, WireLength DEF Trims
  <2>2. IsTidy(v, wire'[s])
    <3>1. CASE onread
      BY <2>1, <3>1, EmptyIsTidy
    <3>2. CASE ~onread
      <4>1. v = r /\ r.state = "closed"
        BY <1>1, <1>3, <3>2 DEF Ignored, Faulted
      <4>2. ~IsIdle(v) /\ v.reader = sock[s].reader
        BY <3>2, <4>1 DEF IsIdle
      <4>3. IsTidy(sock[s], wire[s])
        BY DEF Tidy
      <4> QED
        BY <2>1, <4>2, <4>3 DEF IsTidy
    <3> QED
      BY <3>1, <3>2
  <2> QED
    BY <1>2, <2>1, <2>2, OneTidies
<1>4. CASE ~Ignored(r, onread) /\ onread
  <2>1. Trims(s) /\ Len(wire'[s]) \in Nat /\ Len(wire'[s]) <= Len(wire[s]) /\ Len(wire[s]) = 0
    BY <1>2, <1>4, ShutdownTidies, WireLength
  <2>2. Len(wire'[s]) = 0
    BY <2>1
  <2>3. IsTidy(v, wire'[s])
    BY <2>2 DEF IsTidy
  <2> QED
    BY <1>2, <2>1, <2>3, OneTidies
<1>5. CASE ~Ignored(r, onread) /\ ~onread
  <2>1. q.reader = r.reader
    BY <1>1, <1>5, FaultedIsGood
  <2>2. v.reader = sock[s].reader /\ Shutdown(s)
    BY <1>1, <1>2, <1>5, <2>1
  <2> QED
    BY <1>2, <2>2, ShutIsTidy
<1> QED
  BY <1>3, <1>4, <1>5

LEMMA SendTidies == ASSUME SessionInv, SessionInv', Tidy, NEW e \in Ends, Send(e) PROVE Tidy'
<1>1. PICK s, v : s = rank[e] /\ v = [sock[s] EXCEPT !.outq = Append(sock[s].outq, handed[e] + 1)]
  OBVIOUS
<1>2. s \in Ids /\ sock' = [sock EXCEPT ![s] = v] /\ wire' = wire
  BY <1>1, RegisteredIsUsed DEF Send, Lookup, SessionInv
<1>3. v.state = sock[s].state /\ v.writer = sock[s].writer /\ v.reader = sock[s].reader
  BY <1>1, <1>2, SocketOf DEF Sockets
<1>4. IsIdle(v) => IsIdle(sock[s])
  BY <1>3 DEF IsIdle
<1> QED
  BY <1>2, <1>3, <1>4, StaysTidy

LEMMA SendFirstTidies ==
    ASSUME SessionInv, SessionInv', Tidy, NEW e \in Ends, SendFirst(e) PROVE Tidy'
<1>1. PICK s \in FreeSocket(e) :
        sock' = [sock EXCEPT ![s] = [NewSocket("connecting") EXCEPT !.known = TRUE,
                                                !.lossy = policy[e].lossy,
                                                !.outq = <<handed[e] + 1>>,
                                                !.writer = "loop"]]
  BY DEF SendFirst
<1>2. PICK v : v = [NewSocket("connecting") EXCEPT !.known = TRUE,
                                                !.lossy = policy[e].lossy,
                                                !.outq = <<handed[e] + 1>>,
                                                !.writer = "loop"]
  OBVIOUS
<1>3. v.reader = "none"
  BY <1>2 DEF NewSocket
<1>4. s \in Ids /\ sock[s].state = "free"
  BY DEF FreeSocket, Ids, Ends
<1>5. sock[s].reader = "none" /\ IsIdle(sock[s])
  <2>1. sock[s] = Free /\ Free.reader = "none"
    BY <1>4, SocketOf DEF IsStaffed, Free, NewSocket
  <2> QED
    BY <1>4, <2>1 DEF IsIdle
<1>6. wire' = wire
  BY DEF SendFirst
<1> QED
  BY <1>1, <1>2, <1>3, <1>4, <1>5, <1>6, StaysTidy

LEMMA MarkDownTidies ==
    ASSUME SessionInv, SessionInv', Tidy, NEW e \in Ends, MarkDown(e) PROVE Tidy'
<1>1. PICK s, v : s = rank[e] /\ v = [sock[s] EXCEPT !.state = "closed"]
  OBVIOUS
<1>2. s \in Ids /\ sock' = [sock EXCEPT ![s] = v] /\ Shutdown(s)
  BY <1>1, RegisteredIsUsed DEF MarkDown, Lookup, SessionInv
<1>3. v.reader = sock[s].reader
  BY <1>1, <1>2, SocketOf DEF Sockets
<1> QED
  BY <1>2, <1>3, ShutIsTidy

LEMMA WriterMovesTidy ==
    ASSUME SessionInv, SessionInv', Tidy, NEW s \in Ids,
           \/ WriterLeavesStandby(s) \/ JoinReader(s) \/ TakeAck(s) \/ TakeMessage(s)
           \/ AckWritten(s) \/ WriterExits(s)
    PROVE  Tidy'
BY WriterMoves, StaysTidy

LEMMA WriteOutTidies ==
    ASSUME SessionInv, SessionInv', Tidy, Paired, NEW s \in Ids, WriteOut(s)
    PROVE  Tidy'
<1>1. PICK t, v :
        /\ t = link[s]
        /\ v = [sock[s] EXCEPT !.writer = IF sock[s].writer = "acking" THEN "acked" ELSE "loop",
                               !.out = IF sock[s].writer = "acking" THEN sock[s].out ELSE NoItem]
  OBVIOUS
<1>2. /\ t # None /\ sock' = [sock EXCEPT ![s] = v] /\ sock[s].writer \in {"writing", "acking"}
      /\ \A x \in Ids : x # t => wire'[x] = wire[x]
  <2>1. wire \in [Ids -> Seq(WireItems)]
    BY DEF SessionInv, IsSession
  <2> QED
    BY <1>1, <2>1 DEF WriteOut, Write
<1>3. t \in Ids /\ link[t] = s /\ t # s /\ s # None
  BY <1>1, <1>2, LinkedBack, NoneIsNone
<1>4. sock \in [Ids -> Good]
  BY DEF SessionInv, IsSession
<1>5. IsTidy(sock'[t], wire'[t])
  <2>1. ~IsIdle(sock[t])
    BY <1>3, SocketOf DEF IsPlaced
  <2>2. IsPair(sock[t], wire[t], sock[s], wire[s])
    BY <1>3 DEF Paired
  <2>3. sock[t].reader # "accepting"
    BY <1>2, <2>2 DEF IsPair, AcceptsFrom
  <2>4. sock'[t] = sock[t]
    BY <1>2, <1>3, <1>4
  <2> QED
    BY <2>1, <2>3, <2>4 DEF IsTidy
<1>6. IsTidy(sock'[s], wire'[s])
  <2>1. v.state = sock[s].state /\ v.reader = sock[s].reader /\ v.writer \in {"acked", "loop"}
    BY <1>1, SocketOf DEF Sockets
  <2>2. IsIdle(v) => IsIdle(sock[s])
    BY <1>2, <2>1 DEF IsIdle
  <2>3. sock'[s] = v /\ wire'[s] = wire[s] /\ IsTidy(sock[s], wire[s])
    BY <1>2, <1>3, <1>4 DEF Tidy
  <2> QED
    BY <2>1, <2>2, <2>3 DEF IsTidy
<1>7. ASSUME NEW x \in Ids, x # s, x # t PROVE IsTidy(sock'[x], wire'[x])
  <2>1. sock'[x] = sock[x] /\ wire'[x] = wire[x]
    BY <1>2, <1>4, <1>7
  <2> QED
    BY <2>1 DEF Tidy
<1> QED
  BY <1>5, <1>6, <1>7 DEF Tidy

LEMMA WriteFailsTidies ==
    ASSUME SessionInv, SessionInv', Tidy, NEW s \in Ids, WriteFails(s) PROVE Tidy'
<1>1. PICK r, o : r = [sock[s] EXCEPT !.writer = "loop", !.out = NoItem] /\ o = FALSE
  OBVIOUS
<1>2. Fault(s, r, o, FALSE) /\ ~o /\ o \in BOOLEAN
  BY <1>1 DEF WriteFails
<1>3. sock[s] \in Sockets /\ IsStaffed(sock[s]) /\ IsTail(sock[s])
  BY DEF SessionInv, IsSession, Good
<1>4. IsSocket(r) /\ r.reader = sock[s].reader /\ r.writer = "loop" /\ r.state = sock[s].state
  BY <1>1, <1>3 DEF IsSocket, Sockets, Writers
<1>5. r.sent = sock[s].sent /\ r.lossy = sock[s].lossy /\ r.outSeq = sock[s].outSeq
  BY <1>1, <1>3 DEF Sockets
<1>6. r.state # "free"
  BY <1>3, <1>4 DEF IsStaffed, WriteFails, Free, NewSocket
<1>7. IsTail(r)
  BY <1>3, <1>5 DEF IsTail
<1> QED
  BY <1>2, <1>4, <1>6, <1>7, FaultTidies

LEMMA ReadFailsTidies ==
    ASSUME SessionInv, SessionInv', Tidy, NEW s \in Ids, ReadFails(s) PROVE Tidy'
<1>1. PICK o : o = TRUE
  OBVIOUS
<1>2. Fault(s, sock[s], o, FALSE) /\ o /\ o \in BOOLEAN /\ wire[s] = <<>>
  BY <1>1 DEF ReadFails
<1> QED
  BY <1>2, FaultTidies

\* connect_fail() leaves nothing to read: no reader runs yet.
LEMMA ConnectFailsTidies ==
    ASSUME SessionInv, SessionInv', Tidy, NEW s \in Ids, NEW r, NEW reset,
           ConnectFails(s, r, reset), sock[s].reader = "none"
    PROVE  Tidy'
<1>1. CASE r.state = "connecting"
  <2>1. PICK v : sock' = [sock EXCEPT ![s] = v] /\ Shutdown(s)
    BY <1>1 DEF ConnectFails, Fault, Ignored
  <2> QED
    BY <2>1, ShutIsTidy
<1>2. CASE r.state # "connecting"
  <2>1. PICK v : sock' = [sock EXCEPT ![s] = v] /\ wire' = [wire EXCEPT ![s] = <<>>]
    BY <1>2 DEF ConnectFails
  <2>2. wire'[s] = <<>> /\ \A t \in Ids : t # s => wire'[t] = wire[t]
    BY <2>1 DEF SessionInv, IsSession
  <2>3. Trims(s)
    BY <2>2, WireLength DEF Trims
  <2>4. IsTidy(v, wire'[s])
    BY <2>2, EmptyIsTidy
  <2> QED
    BY <2>1, <2>3, <2>4, OneTidies
<1> QED
  BY <1>1, <1>2

LEMMA NoReplyTidies ==
    ASSUME SessionInv, SessionInv', Tidy, NEW s \in Ids, NoReply(s) PROVE Tidy'
<1>1. sock[s].reader = "none"
  BY SocketOf DEF NoReply, IsStaffed
<1>2. PICK r : r = sock[s] /\ ConnectFails(s, r, FALSE)
  BY DEF NoReply
<1> QED
  BY <1>1, <1>2, ConnectFailsTidies

LEMMA ReadReplyTidies ==
    ASSUME SessionInv, SessionInv', Tidy, NEW s \in Ids, ReadReply(s) PROVE Tidy'
<1>1. sock[s] \in Sockets /\ sock[s].reader = "none" /\ wire[s] # <<>>
  BY SocketOf DEF ReadReply, IsStaffed
<1>2. CASE \E r, reset : ConnectFails(s, r, reset)
  BY <1>1, <1>2, ConnectFailsTidies
<1>3. CASE \E v : /\ sock' = [sock EXCEPT ![s] = v] /\ wire' = [wire EXCEPT ![s] = Tail(wire[s])]
                  /\ v.state \in {"open", "wait"} /\ v.writer = "loop" /\ v.reader # "accepting"
  <2>1. PICK v : /\ sock' = [sock EXCEPT ![s] = v] /\ wire' = [wire EXCEPT ![s] = Tail(wire[s])]
                  /\ v.state \in {"open", "wait"} /\ v.writer = "loop" /\ v.reader # "accepting"
    BY <1>3
  <2>2. IsTidy(v, wire'[s])
    BY <2>1 DEF IsTidy, IsIdle
  <2>3. \A t \in Ids : t # s => wire'[t] = wire[t]
    BY <2>1 DEF SessionInv, IsSession
  <2>4. Trims(s)
    BY <2>3, WireLength DEF Trims
  <2> QED
    BY <2>1, <2>2, <2>4, OneTidies
<1>4. PICK reply : reply = Head(wire[s])
  OBVIOUS
<1>5. CASE reply.tag = "ready"
  <2>1. PICK v : v = [sock[s] EXCEPT !.state = "open", !.cseq = NextSeq(sock[s].cseq),
                                     !.lossy = reply.lossy, !.writer = "loop", !.reader = "reading"]
    OBVIOUS
  <2>2. sock' = [sock EXCEPT ![s] = v] /\ wire' = [wire EXCEPT ![s] = Tail(wire[s])]
    BY <1>4, <1>5, <2>1 DEF ReadReply
  <2>3. v.state = "open" /\ v.writer = "loop" /\ v.reader = "reading"
    BY <1>1, <2>1 DEF Sockets
  <2> QED
    BY <1>3, <2>2, <2>3
<1>6. CASE reply.tag = "wait"
  <2>1. PICK v : v = [sock[s] EXCEPT !.state = "wait", !.writer = "loop"]
    OBVIOUS
  <2>2. sock' = [sock EXCEPT ![s] = v] /\ wire' = [wire EXCEPT ![s] = Tail(wire[s])]
    BY <1>4, <1>6, <2>1 DEF ReadReply
  <2>3. v.state = "wait" /\ v.writer = "loop" /\ v.reader = "none"
    BY <1>1, <2>1 DEF Sockets
  <2> QED
    BY <1>3, <2>2, <2>3
<1>7. CASE reply.tag \notin {"ready", "wait"}
  <2>1. \/ ConnectFails(s, [sock[s] EXCEPT !.cseq = reply.cseq], FALSE)
        \/ ConnectFails(s, SessionReset(sock[s]), TRUE)
    BY <1>4, <1>7 DEF ReadReply
  <2> QED
    BY <1>2, <2>1
<1> QED
  BY <1>5, <1>6, <1>7

LEMMA AcceptLostTidies ==
    ASSUME SessionInv, SessionInv', Tidy, NEW b \in Ids, AcceptLost(b) PROVE Tidy'
<1>1. PICK v : sock' = [sock EXCEPT ![b] = v] /\ wire' = wire /\ wire[b] = <<>>
  BY DEF AcceptLost
<1>2. Trims(b)
  BY <1>1, WireLength DEF Trims
<1>3. IsTidy(v, wire'[b])
  BY <1>1, EmptyIsTidy
<1> QED
  BY <1>1, <1>2, <1>3, OneTidies

LEMMA ReaderMovesTidy ==
    ASSUME SessionInv, SessionInv', Tidy, NEW s \in Ids,
           ReadMessage(s) \/ ReadAck(s) \/ ReaderWakes(s)
    PROVE  Tidy'
<1>1. PICK v : /\ sock' = [sock EXCEPT ![s] = v] /\ v.reader # "accepting"
               /\ IsIdle(v) => IsIdle(sock[s])
  BY ReaderMoves
<1>2. IsTidy(sock[s], wire[s])
  BY DEF Tidy
<1>3. CASE ReaderWakes(s)
  <2>1. wire' = wire /\ sock[s].reader = "standby"
    BY <1>3 DEF ReaderWakes
  <2>2. Trims(s)
    BY <2>1, WireLength DEF Trims
  <2>3. IsIdle(v) => Len(wire'[s]) = 0
    BY <1>1, <1>2, <2>1, WireLength DEF IsTidy
  <2>4. IsTidy(v, wire'[s])
    BY <1>1, <2>3 DEF IsTidy
  <2> QED
    BY <1>1, <2>2, <2>4, OneTidies
<1>4. CASE ReadMessage(s) \/ ReadAck(s)
  <2>1. /\ wire' = [wire EXCEPT ![s] = Tail(wire[s])] /\ wire[s] # <<>>
        /\ sock[s].reader = "reading"
    BY <1>4 DEF ReadMessage, ReadAck
  <2>2. wire'[s] = Tail(wire[s]) /\ \A t \in Ids : t # s => wire'[t] = wire[t]
    BY <2>1 DEF SessionInv, IsSession
  <2>3. Trims(s)
    BY <2>2, WireLength DEF Trims
  <2>4. Len(wire[s]) \in Nat /\ Len(wire'[s]) = Len(wire[s]) - 1
    BY <2>1, <2>2, WireLength
  <2>5. IsIdle(v) => Len(wire[s]) <= 1
    BY <1>1, <1>2, <2>1 DEF IsTidy
  <2>6. IsIdle(v) => Len(wire'[s]) <= 0
    BY <2>4, <2>5
  <2>7. IsTidy(v, wire'[s])
    <3>1. PICK n : n = Len(wire'[s]) /\ n \in Int
      BY <2>4
    <3>2. IsIdle(v) => n <= IF v.reader = "reading" THEN 1 ELSE 0
      BY <2>6, <3>1
    <3> QED
      BY <1>1, <3>1, <3>2 DEF IsTidy
  <2> QED
    BY <1>1, <2>3, <2>7, OneTidies
<1> QED
  BY <1>3, <1>4

LEMMA DeliverTidies == ASSUME SessionInv, SessionInv', Tidy, NEW s \in Ids, Deliver(s) PROVE Tidy'
<1>1. PICK v : v = [sock[s] EXCEPT !.inq = Tail(sock[s].inq)]
  OBVIOUS
<1>2. sock' = [sock EXCEPT ![s] = v] /\ wire' = wire
  BY <1>1 DEF Deliver
<1>3. v.state = sock[s].state /\ v.writer = sock[s].writer /\ v.reader = sock[s].reader
  BY <1>1, SocketOf DEF Sockets
<1>4. IsIdle(v) => IsIdle(sock[s])
  BY <1>3 DEF IsIdle
<1> QED
  BY <1>2, <1>3, <1>4, StaysTidy

LEMMA ReapTidies == ASSUME SessionInv, SessionInv', Tidy, NEW s \in Ids, Reap(s) PROVE Tidy'
<1>1. sock' = [sock EXCEPT ![s] = Free] /\ Shutdown(s) /\ sock[s].reader # "reading"
  BY DEF Reap
<1> QED
  BY <1>1, ShutIsTidy

LEMMA BreakTidies == ASSUME SessionInv, SessionInv', Tidy, NEW s \in Ids, Break(s) PROVE Tidy'
<1>1. PICK t : t = link[s] /\ t \in Ids /\ t # s
  BY LinkedBack DEF Break
<1>2. PICK i \in 0..Len(wire[s]), j \in 0..Len(wire[t]) :
        wire' = [wire EXCEPT ![s] = SubSeq(wire[s], 1, i), ![t] = SubSeq(wire[t], 1, j)]
  BY <1>1 DEF Break, SessionInv, IsSession
<1>3. ASSUME NEW x \in Ids PROVE Len(wire'[x]) <= Len(wire[x]) /\ Len(wire'[x]) \in Nat
  <2>1. wire \in [Ids -> Seq(WireItems)]
    BY DEF SessionInv, IsSession
  <2>2. CASE x = s
    <3>1. wire'[s] = SubSeq(wire[s], 1, i)
      BY <1>1, <1>2, <2>1
    <3> QED
      BY <1>2, <2>2, <3>1, WireLength, SubSeqLength
  <2>3. CASE x = t
    <3>1. wire'[t] = SubSeq(wire[t], 1, j)
      BY <1>1, <1>2, <2>1
    <3> QED
      BY <1>1, <1>2, <2>3, <3>1, WireLength, SubSeqLength
  <2>4. CASE x # s /\ x # t
    BY <1>2, <2>1, <2>4, WireLength
  <2> QED
    BY <2>2, <2>3, <2>4
<1>4. ASSUME NEW x \in Ids PROVE IsTidy(sock'[x], wire'[x])
  <2>1. sock'[x] = sock[x] /\ IsTidy(sock[x], wire[x])
    BY DEF Break, Tidy
  <2> QED
    BY <1>3, <2>1, WireLength, ShorterIsTidy
<1> QED
  BY <1>4 DEF Tidy

\* What the new socket is, whatever it takes over.
LEMMA SuccessorMeets ==
    ASSUME SessionInv, NEW b \in Ids, AtConnect(b), Lookup(b[1]) # None, NEW zero,
           NEW o, o = Successor(b, zero)
    PROVE  /\ IsSocket(o) /\ IsTail(o) /\ o.sent = <<>> /\ o.state = "open"
           /\ o.reader = "reading" /\ o.writer = "loop"
           /\ o.cseq = NextSeq(ConnectSeq(b)) /\ o.lossy = policy[b[1]].lossy
<1>1. PICK x, c, r, t : /\ x = Old(b) /\ c = ConnectSeq(b) /\ r = Identified(b)
                        /\ t = TakenOver(r, x, zero)
  OBVIOUS
<1>2. o = Opened(t, c)
  BY <1>1 DEF Successor
<1>3. IsSocket(x) /\ IsTail(x)
  BY <1>1, OldStops
<1>4. /\ IsSocket(o) /\ IsTail(o) /\ o.sent = <<>> /\ o.state = "open"
      /\ o.reader = "reading" /\ o.writer = "loop"
  <2>1. o = Opened(TakenOver(Identified(b), x, zero), ConnectSeq(b))
    BY <1>1, <1>2
  <2> QED
    BY <1>3, <2>1, SuccessorIsGood
<1>5. IsSocket(r) /\ r.sent = <<>> /\ c \in Nat
  BY <1>1, IdentifiedIsGood
<1>6. IsSocket(t)
  BY <1>1, <1>3, <1>5, TakenOverIsGood
<1>7. o.lossy = t.lossy /\ o.cseq = NextSeq(c)
  <2>1. NextSeq(c) \in Nat
    BY <1>5, NextSeqType
  <2>2. o = [t EXCEPT !.cseq = NextSeq(c), !.state = "open", !.reader = "reading", !.writer = "loop"]
    BY <1>2 DEF Opened
  <2> QED
    BY <1>6, <2>1, <2>2 DEF IsSocket, Sockets
<1>8. t.lossy = r.lossy
  <2>1. PICK a, d, n, l, m :
          t = r \/ t = [r EXCEPT !.inSeq = a, !.acked = d, !.outSeq = n, !.outq = l, !.inq = m]
    BY <1>1 DEF TakenOver
  <2> QED
    BY <1>5, <2>1 DEF IsSocket, Sockets
<1>9. r.lossy = policy[b[1]].lossy
  <2>1. r = [sock[b] EXCEPT !.known = TRUE, !.lossy = policy[b[1]].lossy]
    BY <1>1 DEF Identified
  <2> QED
    BY <2>1, SocketOf DEF Sockets
<1> QED
  BY <1>1, <1>4, <1>7, <1>8, <1>9

\* The first thing the connector reads: READY only if nothing else was said.
LEMMA FirstReply ==
    ASSUME SessionInv, NEW b \in Ids, AtConnect(b)
    PROVE  /\ Early(b) # <<>> => Early(b)[1].tag # "ready"
           /\ Append(Early(b), Ready(b)) # <<>>
           /\ Append(Early(b), Ready(b))[1].tag = "ready"
                 => Append(Early(b), Ready(b))[1].lossy = policy[b[1]].lossy
<1>1. PICK l, r, a : /\ l = Early(b) /\ r = Ready(b) /\ a = Append(l, r) /\ l \in Seq(WireItems)
                     /\ r \in WireItems
  BY RepliesAreItems
<1>2. l # <<>> => l[1].tag # "ready"
  <2>1. l \in Seq(Answers)
    BY <1>1, EarlyAnswers
  <2>2. l # <<>> => l[1] \in Answers
    <3>1. l # <<>> => Head(l) \in Answers /\ Head(l) = l[1]
      BY <2>1, HeadTailProperties
    <3> QED
      BY <3>1
  <2> QED
    BY <2>2 DEF Answers
<1>3. /\ a \in Seq(WireItems) /\ Len(a) = Len(l) + 1 /\ a[Len(l) + 1] = r
      /\ \A i \in 1..Len(l) : a[i] = l[i]
  BY <1>1, AppendProperties
<1>4. Len(l) \in Nat /\ (l = <<>> <=> Len(l) = 0)
  BY <1>1, LenProperties, EmptySeq
<1>5. a # <<>>
  BY <1>3, <1>4, EmptySeq
<1>6. l # <<>> => a[1] = l[1]
  BY <1>3, <1>4
<1>7. l = <<>> => a[1] = r
  BY <1>3, <1>4
<1>8. r.lossy = policy[b[1]].lossy
  BY <1>1 DEF Ready
<1> QED
  BY <1>1, <1>2, <1>5, <1>6, <1>7, <1>8

\* A step that makes the two ends of one connection meet, and leaves the others.
LEMMA PairMeets ==
    ASSUME SessionInv, SessionInv', Paired, NEW b \in Ids, NEW s \in Ids, link'[b] = s,
           \A t \in Ids : t # b /\ t # s =>
               \/ link'[t] = None
               \/ /\ link'[t] = link[t] /\ Behind(wire'[t], wire[t], sock[t])
                  /\ Follows(sock'[t], sock[t]) /\ link[t] # b /\ link[t] # s,
           IsPair(sock'[b], wire'[b], sock'[s], wire'[s]),
           IsPair(sock'[s], wire'[s], sock'[b], wire'[b])
    PROVE  Paired'
<1> SUFFICES ASSUME NEW t \in Ids, link'[t] # None
             PROVE  IsPair(sock'[t], wire'[t], sock'[link'[t]], wire'[link'[t]])
  BY DEF Paired
<1>1. s # None /\ link'[s] = b
  BY NoneIsNone DEF SessionInv, IsSession
<1>2. CASE t = b \/ t = s
  BY <1>1, <1>2
<1>3. CASE t # b /\ t # s
  <2>1. PICK u : u = link[t]
    OBVIOUS
  <2>2. /\ link'[t] = u /\ u # None /\ u # b /\ u # s
        /\ Behind(wire'[t], wire[t], sock[t]) /\ Follows(sock'[t], sock[t])
    BY <1>3, <2>1
  <2>3. u \in Ids /\ link'[u] = t
    BY <2>2 DEF SessionInv, IsSession
  <2>4. Behind(wire'[u], wire[u], sock[u]) /\ Follows(sock'[u], sock[u])
    BY <2>2, <2>3, NoneIsNone
  <2>5. IsPair(sock[t], wire[t], sock[u], wire[u])
    BY <2>1, <2>2 DEF Paired
  <2>6. IsPair(sock'[t], wire'[t], sock'[u], wire'[u])
    BY <2>2, <2>4, <2>5, PairStays
  <2> QED
    BY <2>2, <2>6
<1> QED
  BY <1>2, <1>3

\* connecting() up to the reply: s meets a new socket b.
Meets(s, b, v, q, w) ==
    /\ b \in Ids /\ b # s /\ link[b] = None /\ link[s] = None /\ wire[s] = <<>>
    /\ sock' = [sock EXCEPT ![s] = v, ![b] = q]
    /\ link' = [link EXCEPT ![s] = b, ![b] = s] /\ wire' = [wire EXCEPT ![b] = w]
    /\ v.writer = "await" /\ v.reader = "none" /\ v.state \in {"connecting", "closed"}
    /\ q.reader = "accepting" /\ q.writer = "none" /\ q.state = "accepting"
    /\ Len(w) = 1 /\ w # <<>> /\ w[1].cseq = v.cseq

LEMMA ConnectMeets ==
    ASSUME SessionInv, Tidy, NEW s \in Ids, Connect(s)
    PROVE  \E b, v, q, w : Meets(s, b, v, q, w)
<1>1. PICK b \in FreeSocket(Peer(s[1])) :
        /\ sock' = [sock EXCEPT ![s].writer = "await",
                                ![b] = [NewSocket("accepting") EXCEPT !.reader = "accepting"]]
        /\ link' = [link EXCEPT ![s] = b, ![b] = s]
        /\ wire' = [wire EXCEPT ![b] = <<[tag |-> "connect", cseq |-> sock[s].cseq]>>]
  BY DEF Connect
<1>2. PICK r, q, v, w : /\ r = sock[s] /\ v = [r EXCEPT !.writer = "await"]
                        /\ q = [NewSocket("accepting") EXCEPT !.reader = "accepting"]
                        /\ w = <<[tag |-> "connect", cseq |-> r.cseq]>>
  OBVIOUS
<1>3. /\ r \in Sockets /\ IsStaffed(r) /\ link[s] = None /\ r.reader = "none" /\ IsIdle(r)
      /\ r.writer \in {"loop", "join"} /\ r.state \in {"connecting", "closed"}
  BY <1>2, SocketOf DEF Connect, IsPlaced, IsIdle, IsStaffed
<1>4. b \in Ids /\ sock[b].state = "free" /\ link[b] = None /\ b # s
  <2>1. s[1] \in Ends
    BY DEF Ids, SocketsOf, Ends
  <2>2. b \in Ids /\ sock[b].state = "free"
    BY <2>1 DEF FreeSocket, Ids, Peer, Ends
  <2>3. link[b] = None
    BY <2>2, SocketOf DEF IsPlaced, IsIdle
  <2> QED
    BY <1>2, <1>3, <2>2, <2>3
<1>5. wire[s] = <<>>
  <2>1. Len(wire[s]) <= 0
    BY <1>2, <1>3 DEF Tidy, IsTidy
  <2> QED
    BY <2>1, WireLength
<1>6. sock' = [sock EXCEPT ![s] = v, ![b] = q] /\ wire' = [wire EXCEPT ![b] = w]
  BY <1>1, <1>2
<1>7. /\ v.writer = "await" /\ v.reader = "none" /\ v.state \in {"connecting", "closed"}
      /\ v.cseq = r.cseq
  BY <1>2, <1>3 DEF Sockets
<1>8. q.reader = "accepting" /\ q.writer = "none" /\ q.state = "accepting"
  BY <1>2 DEF NewSocket
<1>9. Len(w) = 1 /\ w # <<>> /\ w[1].cseq = r.cseq
  BY <1>2
<1>10. Meets(s, b, v, q, w)
  BY <1>1, <1>3, <1>4, <1>5, <1>6, <1>7, <1>8, <1>9 DEF Meets
<1> QED
  BY <1>10

LEMMA ConnectPairs ==
    ASSUME SessionInv, SessionInv', Tidy, Paired, NEW s \in Ids, Connect(s) PROVE Paired'
<1>1. PICK b, v, q, w : Meets(s, b, v, q, w)
  BY ConnectMeets
<1>2. /\ sock \in [Ids -> Good] /\ link \in [Ids -> Ids \cup {None}] /\ wire \in [Ids -> Seq(WireItems)]
      /\ \A t \in Ids : link[t] # None => link[link[t]] = t
  BY DEF SessionInv, IsSession
<1>3. sock'[s] = v /\ sock'[b] = q /\ wire'[b] = w /\ wire'[s] = <<>> /\ link'[b] = s
  BY <1>1, <1>2 DEF Meets
<1>4. IsPair(q, w, v, <<>>)
  BY <1>1 DEF Meets, IsPair, AwaitsReply, AcceptsFrom, Agree
<1>5. IsPair(v, <<>>, q, w)
  BY <1>1 DEF Meets, IsPair, AwaitsReply, AcceptsFrom, Agree
<1>6. ASSUME NEW t \in Ids, t # b, t # s
      PROVE  /\ link'[t] = link[t] /\ Behind(wire'[t], wire[t], sock[t])
             /\ Follows(sock'[t], sock[t]) /\ (link'[t] # None => link[t] # b /\ link[t] # s)
  <2>1. link'[t] = link[t] /\ wire'[t] = wire[t] /\ sock'[t] = sock[t]
    BY <1>1, <1>2, <1>6 DEF Meets
  <2>2. link[t] # None => link[t] # b /\ link[t] # s
    BY <1>1, <1>2, <1>6, NoneIsNone DEF Meets
  <2> QED
    BY <2>1, <2>2 DEF Behind, Follows
<1>7. b \in Ids
  BY <1>1 DEF Meets
<1>8. IsPair(sock'[b], wire'[b], sock'[s], wire'[s]) /\ IsPair(sock'[s], wire'[s], sock'[b], wire'[b])
  BY <1>3, <1>4, <1>5
<1> QED
  BY <1>3, <1>6, <1>7, <1>8, PairMeets

LEMMA ConnectTidies ==
    ASSUME SessionInv, SessionInv', Tidy, NEW s \in Ids, Connect(s) PROVE Tidy'
<1>1. PICK b, v, q, w : Meets(s, b, v, q, w)
  BY ConnectMeets
<1>2. sock \in [Ids -> Good] /\ wire \in [Ids -> Seq(WireItems)]
  BY DEF SessionInv, IsSession
<1>3. sock'[s] = v /\ sock'[b] = q /\ wire'[b] = w /\ wire'[s] = <<>>
  BY <1>1, <1>2 DEF Meets
<1>4. IsTidy(q, w)
  BY <1>1 DEF Meets, IsTidy, IsIdle
<1>5. IsTidy(v, <<>>)
  BY EmptyIsTidy
<1>6. ASSUME NEW t \in Ids, t # b, t # s PROVE IsTidy(sock'[t], wire'[t])
  <2>1. wire'[t] = wire[t] /\ sock'[t] = sock[t]
    BY <1>1, <1>2, <1>6 DEF Meets
  <2> QED
    BY <2>1 DEF Tidy
<1> QED
  BY <1>3, <1>4, <1>5, <1>6 DEF Tidy

\* A connector that has its reply no longer waits; when it opens, it is with
\* what the other end has.
LEMMA ReplyPairs ==
    ASSUME SessionInv, SessionInv', Paired, NEW s \in Ids, sock[s].writer = "await", wire[s] # <<>>,
           NEW v, sock' = [sock EXCEPT ![s] = v], v.writer = "loop", v.reader # "accepting",
           NEW n, wire' = [wire EXCEPT ![s] = n], link' = link,
           link[s] # None => Agree(v, sock[link[s]])
    PROVE  Paired'
<1>1. /\ sock \in [Ids -> Good] /\ wire \in [Ids -> Seq(WireItems)]
      /\ sock'[s] = v /\ wire'[s] = n
      /\ \A t \in Ids : t # s => sock'[t] = sock[t] /\ wire'[t] = wire[t]
  BY DEF SessionInv, IsSession
<1>2. CASE link[s] = None
  <2>1. Lessens
    BY <1>1, <1>2 DEF Lessens, Behind
  <2> QED
    BY <1>2, <2>1, OneMoves
<1>3. CASE link[s] # None
  <2>1. PICK t : t = link[s] /\ t \in Ids /\ link[t] = s /\ t # s
    BY <1>3, LinkedBack
  <2>2. PICK r, w, q, x : r = sock[s] /\ w = wire[s] /\ q = sock[t] /\ x = wire[t]
    OBVIOUS
  <2>3. IsPair(r, w, q, x)
    BY <1>3, <2>1, <2>2 DEF Paired
  <2>4. IsPair(q, x, r, w)
    BY <2>1, <2>2, NoneIsNone DEF Paired
  <2>5. q.writer # "await" /\ q.reader # "accepting" /\ Agree(v, q)
    <3>1. q.writer # "await"
      BY <2>2, <2>3 DEF IsPair, AwaitsReply
    <3>2. q.reader # "accepting"
      BY <2>2, <2>4 DEF IsPair, AcceptsFrom
    <3> QED
      BY <1>3, <2>1, <2>2, <3>1, <3>2
  <2>6. IsPair(v, n, q, x) /\ IsPair(q, x, v, n)
    BY <2>5 DEF IsPair, AwaitsReply, AcceptsFrom, Agree
  <2>7. /\ IsPair(sock'[s], wire'[s], sock'[t], wire'[t])
        /\ IsPair(sock'[t], wire'[t], sock'[s], wire'[s])
    <3>1. sock'[s] = v /\ wire'[s] = n /\ sock'[t] = q /\ wire'[t] = x
      BY <1>1, <2>1, <2>2
    <3> QED
      BY <2>6, <3>1
  <2>8. ASSUME NEW u \in Ids, u # s, u # t
        PROVE  /\ link'[u] = link[u] /\ Behind(wire'[u], wire[u], sock[u])
               /\ Follows(sock'[u], sock[u]) /\ (link'[u] # None => link[u] # s /\ link[u] # t)
    <3>1. wire'[u] = wire[u] /\ sock'[u] = sock[u]
      BY <1>1, <2>8
    <3>2. link[u] # None => link[u] # s /\ link[u] # t
      BY <2>1, <2>8, LinkedBack
    <3> QED
      BY <3>1, <3>2 DEF Behind, Follows
  <2>9. link'[s] = t
    BY <2>1
  <2> QED
    BY <2>1, <2>7, <2>8, <2>9, PairMeets
<1> QED
  BY <1>2, <1>3

LEMMA ReadReplyPairs ==
    ASSUME SessionInv, SessionInv', Paired, NEW s \in Ids, ReadReply(s) PROVE Paired'
<1>1. PICK r, reply : r = sock[s] /\ reply = Head(wire[s])
  OBVIOUS
<1>2. /\ r \in Sockets /\ IsStaffed(r) /\ r.writer = "await" /\ wire[s] # <<>>
      /\ r.reader = "none" /\ r.state \in {"connecting", "closed"}
  BY <1>1, SocketOf DEF ReadReply, IsStaffed
<1>3. CASE reply.tag = "ready"
  <2>1. PICK c, y, v : /\ c = NextSeq(r.cseq) /\ y = reply.lossy
                       /\ v = [r EXCEPT !.state = "open", !.cseq = c, !.lossy = y,
                                        !.writer = "loop", !.reader = "reading"]
    OBVIOUS
  <2>2. /\ sock' = [sock EXCEPT ![s] = v] /\ wire' = [wire EXCEPT ![s] = Tail(wire[s])]
        /\ link' = link
    BY <1>1, <1>3, <2>1 DEF ReadReply
  <2>3. /\ v.state = "open" /\ v.writer = "loop" /\ v.reader = "reading" /\ v.cseq = c
        /\ v.lossy = y
    BY <1>2, <2>1 DEF Sockets
  <2>4. ASSUME link[s] # None PROVE Agree(v, sock[link[s]])
    <3>1. PICK q, x : q = sock[link[s]] /\ x = wire[link[s]]
      OBVIOUS
    <3>2. IsPair(r, wire[s], q, x)
      BY <1>1, <2>4, <3>1 DEF Paired
    <3>3. reply = wire[s][1]
      <4>1. wire[s] \in Seq(WireItems)
        BY WireLength
      <4> QED
        BY <1>1, <1>2, <4>1, HeadTailProperties
    <3>4. q.state = "open" => q.cseq = c /\ q.lossy = y
      BY <1>2, <1>3, <2>1, <3>2, <3>3 DEF IsPair, AwaitsReply
    <3> QED
      BY <2>3, <3>1, <3>4 DEF Agree
  <2> QED
    BY <1>1, <1>2, <2>2, <2>3, <2>4, ReplyPairs
<1>4. CASE reply.tag = "wait"
  <2>1. PICK v : v = [r EXCEPT !.state = "wait", !.writer = "loop"]
    OBVIOUS
  <2>2. /\ sock' = [sock EXCEPT ![s] = v] /\ wire' = [wire EXCEPT ![s] = Tail(wire[s])]
        /\ link' = link
    BY <1>1, <1>4, <2>1 DEF ReadReply
  <2>3. v.state = "wait" /\ v.writer = "loop" /\ v.reader = "none"
    BY <1>2, <2>1 DEF Sockets
  <2>4. link[s] # None => Agree(v, sock[link[s]])
    BY <2>3 DEF Agree
  <2> QED
    BY <1>1, <1>2, <2>2, <2>3, <2>4, ReplyPairs
<1>5. CASE reply.tag \notin {"ready", "wait"}
  <2>1. PICK k, reset : /\ ConnectFails(s, k, reset) /\ k.writer = "await" /\ k.reader = "none"
                        /\ k.state = r.state /\ k \in Sockets
    <3>1. CASE ConnectFails(s, [r EXCEPT !.cseq = reply.cseq], FALSE) /\ reply.tag = "retry"
      <4>1. PICK k : k = [r EXCEPT !.cseq = reply.cseq]
        OBVIOUS
      <4>2. reply.cseq \in Nat
        <5>1. wire[s] \in Seq(WireItems)
          BY WireLength
        <5>2. reply \in WireItems
          BY <1>1, <1>2, <5>1, HeadTailProperties
        <5> QED
          BY <3>1, <5>2 DEF WireItems, MsgItems, AckItems
      <4>3. k.writer = "await" /\ k.reader = "none" /\ k.state = r.state /\ k \in Sockets
        BY <1>2, <4>1, <4>2 DEF Sockets
      <4> QED
        BY <3>1, <4>1, <4>3
    <3>2. CASE ConnectFails(s, SessionReset(r), TRUE)
      <4>1. PICK k : k = SessionReset(r)
        OBVIOUS
      <4>2. k.writer = "await" /\ k.reader = "none" /\ k.state = r.state /\ k \in Sockets
        BY <1>2, <4>1, SessionResetIsGood DEF IsSocket
      <4> QED
        BY <3>2, <4>1, <4>2
    <3> QED
      BY <1>1, <1>5, <3>1, <3>2 DEF ReadReply
  <2>2. CASE k.state = "connecting"
    BY <2>1, <2>2, ConnectFailsPairs
  <2>3. CASE k.state = "closed"
    <3>1. PICK v : v = [k EXCEPT !.writer = "loop"]
      OBVIOUS
    <3>2. sock' = [sock EXCEPT ![s] = v] /\ wire' = [wire EXCEPT ![s] = <<>>] /\ link' = link
      BY <2>1, <2>3, <3>1 DEF ConnectFails
    <3>3. v.writer = "loop" /\ v.reader = "none" /\ v.state = "closed"
      BY <2>1, <2>3, <3>1 DEF Sockets
    <3>4. link[s] # None => Agree(v, sock[link[s]])
      BY <3>3 DEF Agree
    <3> QED
      BY <1>1, <1>2, <3>2, <3>3, <3>4, ReplyPairs
  <2> QED
    BY <1>2, <2>1, <2>2, <2>3
<1> QED
  BY <1>3, <1>4, <1>5

\* Who accepts has a connect record to read, from one that waits for the reply.
LEMMA AtConnectMeets ==
    ASSUME SessionInv, Tidy, Paired, NEW b \in Ids, AtConnect(b)
    PROVE  /\ wire[b] \in Seq(WireItems) /\ Len(Tail(wire[b])) = 0
           /\ link[b] # None =>
                 /\ link[b] \in Ids /\ link[b] # b /\ link[link[b]] = b
                 /\ sock[link[b]].writer = "await" /\ sock[link[b]].reader = "none"
                 /\ sock[link[b]].state \in {"connecting", "closed"}
                 /\ wire[link[b]] = <<>> /\ sock[link[b]].cseq = ConnectSeq(b)
<1>1. sock[b].reader = "accepting" /\ wire[b] # <<>> /\ wire[b] \in Seq(WireItems)
  BY WireLength DEF AtConnect
<1>2. Len(Tail(wire[b])) = 0
  <2>1. Len(wire[b]) <= 1
    BY <1>1 DEF Tidy, IsTidy
  <2>2. PICK n, m : n = Len(wire[b]) /\ m = Len(Tail(wire[b]))
    OBVIOUS
  <2>3. n \in Nat /\ n # 0 /\ m = n - 1
    BY <1>1, <2>2, WireLength
  <2>4. n <= 1
    BY <2>1, <2>2
  <2>5. m = 0
    BY <2>3, <2>4
  <2> QED
    BY <2>2, <2>5
<1>3. ASSUME link[b] # None
      PROVE  /\ link[b] \in Ids /\ link[b] # b /\ link[link[b]] = b
             /\ sock[link[b]].writer = "await" /\ sock[link[b]].reader = "none"
             /\ sock[link[b]].state \in {"connecting", "closed"}
             /\ wire[link[b]] = <<>> /\ sock[link[b]].cseq = ConnectSeq(b)
  <2>1. link[b] \in Ids /\ link[b] # b /\ link[link[b]] = b
    BY <1>3, LinkedBack
  <2>2. IsPair(sock[b], wire[b], sock[link[b]], wire[link[b]])
    BY <1>3 DEF Paired
  <2>3. /\ sock[link[b]].writer = "await" /\ wire[b][1].cseq = sock[link[b]].cseq
        /\ wire[link[b]] = <<>>
    BY <1>1, <2>2 DEF IsPair, AcceptsFrom
  <2>4. ConnectSeq(b) = wire[b][1].cseq
    BY <1>1, HeadTailProperties DEF ConnectSeq
  <2>5. sock[link[b]].reader = "none" /\ sock[link[b]].state \in {"connecting", "closed"}
    BY <2>1, <2>3, SocketOf DEF IsStaffed
  <2> QED
    BY <2>1, <2>3, <2>4, <2>5
<1> QED
  BY <1>1, <1>2, <1>3

\* The acceptor b answers t, which waits: when READY comes first, b is open as
\* READY says.
LEMMA AnswerMeets ==
    ASSUME NEW v, v.reader # "accepting", v.writer # "await", NEW n,
           NEW r, r.writer = "await", r.reader = "none", r.state \in {"connecting", "closed"},
           NEW a, a # <<>>,
           a[1].tag = "ready" /\ v.state = "open" => v.cseq = NextSeq(r.cseq) /\ v.lossy = a[1].lossy
    PROVE  IsPair(v, n, r, a) /\ IsPair(r, a, v, n)
<1>1. IsPair(v, n, r, a)
  BY DEF IsPair, AwaitsReply, AcceptsFrom, Agree
<1>2. IsPair(r, a, v, n)
  BY DEF IsPair, AwaitsReply, AcceptsFrom, Agree
<1> QED
  BY <1>1, <1>2

LEMMA AfterNothing ==
    ASSUME NEW S, NEW l \in Seq(S)
    PROVE  <<>> \o l = l
BY ConcatProperties, EmptySeq

\* accepting() with nothing registered: b becomes v and says a.
AnswersNew(b, v, a) ==
    /\ sock' = [sock EXCEPT ![b] = v] /\ link' = link
    /\ wire' = [wire EXCEPT ![b] = Tail(wire[b]), ![link[b]] = a]
    /\ v.reader = "reading" /\ v.writer \in {"none", "loop"}
    /\ v.state \in {"accepting", "open"} /\ a # <<>>
    /\ a[1].tag = "ready" /\ v.state = "open"
          => v.cseq = NextSeq(ConnectSeq(b)) /\ v.lossy = a[1].lossy

LEMMA AcceptNewMeets ==
    ASSUME SessionInv, Tidy, Paired, NEW b \in Ids, AcceptNew(b)
    PROVE  \E v, a : AnswersNew(b, v, a)
<1>1. PICK r, refused, items, v, t :
        /\ r = Identified(b) /\ refused = (Early(b) # <<>>) /\ t = link[b]
        /\ items = IF refused THEN Early(b) ELSE <<Ready(b)>>
        /\ v = IF refused THEN [r EXCEPT !.reader = "reading"] ELSE Opened(r, ConnectSeq(b))
  OBVIOUS
<1>2. /\ AtConnect(b) /\ t # None /\ link' = link /\ sock' = [sock EXCEPT ![b] = v]
      /\ wire' = [wire EXCEPT ![b] = Tail(@), ![t] = @ \o items]
  BY <1>1 DEF AcceptNew
<1>3. t \in Ids /\ t # b /\ wire[t] = <<>>
  BY <1>1, <1>2, AtConnectMeets
<1>4. items \in Seq(WireItems) /\ items # <<>>
  <2>1. Early(b) \in Seq(WireItems) /\ Ready(b) \in WireItems
    BY <1>2, RepliesAreItems
  <2>2. <<Ready(b)>> \in Seq(WireItems) /\ <<Ready(b)>> # <<>>
    <3>1. PICK o : o = Ready(b) /\ o \in WireItems
      BY <2>1
    <3> QED
      BY <3>1
  <2> QED
    BY <1>1, <2>1, <2>2
<1>5. wire' = [wire EXCEPT ![b] = Tail(wire[b]), ![link[b]] = items]
  <2>1. <<>> \o items = items
    BY <1>4, AfterNothing
  <2>2. wire' = [wire EXCEPT ![b] = Tail(wire[b]), ![t] = wire[t] \o items]
    BY <1>2, <1>3 DEF SessionInv, IsSession
  <2> QED
    BY <1>1, <1>3, <2>1, <2>2
<1>6. IsSocket(r) /\ r.state = "accepting" /\ r.writer = "none" /\ ConnectSeq(b) \in Nat
  BY <1>1, <1>2, IdentifiedIsGood
<1>7. CASE refused
  <2>1. v = [r EXCEPT !.reader = "reading"] /\ items = Early(b) /\ Early(b) # <<>>
    BY <1>1, <1>7
  <2>2. v.reader = "reading" /\ v.writer = "none" /\ v.state = "accepting"
    BY <1>6, <2>1 DEF IsSocket, Sockets
  <2> QED
    BY <1>2, <1>4, <1>5, <2>2 DEF AnswersNew
<1>8. CASE ~refused
  <2>1. v = [r EXCEPT !.cseq = NextSeq(ConnectSeq(b)), !.state = "open",
                      !.reader = "reading", !.writer = "loop"]
    BY <1>1, <1>8 DEF Opened
  <2>2. /\ v.reader = "reading" /\ v.writer = "loop" /\ v.state = "open" /\ v.lossy = r.lossy
        /\ v.cseq = NextSeq(ConnectSeq(b))
    BY <1>6, <2>1 DEF IsSocket, Sockets
  <2>3. r.lossy = policy[b[1]].lossy
    <3>1. r = [sock[b] EXCEPT !.known = TRUE, !.lossy = policy[b[1]].lossy]
      BY <1>1 DEF Identified
    <3> QED
      BY <3>1, SocketOf DEF Sockets
  <2>4. items[1].lossy = policy[b[1]].lossy
    BY <1>1, <1>8 DEF Ready
  <2>5. v.lossy = items[1].lossy
    BY <2>2, <2>3, <2>4
  <2>6. AnswersNew(b, v, items)
    BY <1>2, <1>4, <1>5, <2>2, <2>5 DEF AnswersNew
  <2> QED
    BY <2>6
<1> QED
  BY <1>7, <1>8

LEMMA AcceptNewPairs ==
    ASSUME SessionInv, SessionInv', Tidy, Paired, NEW b \in Ids, AcceptNew(b)
    PROVE  Paired' /\ Tidy'
<1>1. PICK v, a : AnswersNew(b, v, a)
  BY AcceptNewMeets
<1>2. AtConnect(b) /\ link[b] # None
  BY DEF AcceptNew
<1>3. PICK t : t = link[b]
  OBVIOUS
<1>4. PICK r, n : r = sock[t] /\ n = Tail(wire[b])
  OBVIOUS
<1>5. /\ t \in Ids /\ t # b /\ link[t] = b /\ r.writer = "await" /\ r.reader = "none"
      /\ r.state \in {"connecting", "closed"} /\ r.cseq = ConnectSeq(b)
  BY <1>2, <1>3, <1>4, AtConnectMeets
<1>6. /\ sock'[b] = v /\ sock'[t] = r /\ wire'[b] = n /\ wire'[t] = a /\ link' = link
      /\ \A u \in Ids : u # b /\ u # t => sock'[u] = sock[u] /\ wire'[u] = wire[u]
  BY <1>1, <1>3, <1>4, <1>5 DEF AnswersNew, SessionInv, IsSession
<1>7. IsPair(v, n, r, a) /\ IsPair(r, a, v, n)
  BY <1>1, <1>5, AnswerMeets DEF AnswersNew
<1>8. Paired'
  <2>1. ASSUME NEW u \in Ids, u # b, u # t
        PROVE  /\ link'[u] = link[u] /\ Behind(wire'[u], wire[u], sock[u])
               /\ Follows(sock'[u], sock[u]) /\ (link'[u] # None => link[u] # b /\ link[u] # t)
    <3>1. wire'[u] = wire[u] /\ sock'[u] = sock[u]
      BY <1>6, <2>1
    <3>2. link[u] # None => link[u] # b /\ link[u] # t
      BY <1>3, <1>5, <2>1, LinkedBack
    <3> QED
      BY <1>6, <3>1, <3>2 DEF Behind, Follows
  <2>2. /\ IsPair(sock'[b], wire'[b], sock'[t], wire'[t])
        /\ IsPair(sock'[t], wire'[t], sock'[b], wire'[b])
    BY <1>6, <1>7
  <2>3. link'[b] = t
    BY <1>3, <1>6
  <2> QED
    BY <1>5, <2>1, <2>2, <2>3, PairMeets
<1>9. IsTidy(v, n)
  BY <1>1 DEF AnswersNew, IsTidy, IsIdle
<1>10. IsTidy(r, a)
  BY <1>5 DEF IsTidy, IsIdle
<1>11. ASSUME NEW u \in Ids PROVE IsTidy(sock'[u], wire'[u])
  BY <1>6, <1>9, <1>10 DEF Tidy
<1> QED
  BY <1>8, <1>11 DEF Tidy

\* The old socket x loses its connection, and b keeps its own.
Relinks(b, q, x, i, k, replies) ==
    /\ x \in Ids /\ x # b /\ x # link[b] /\ (link[b] # None => link[x] # b)
    /\ sock'[b] = q /\ sock'[x] = LeftOver(Old(b))
    /\ \A t \in Ids : t # b /\ t # x => sock'[t] = sock[t]
    /\ link'[x] = None
    /\ \A t \in Ids : t # x => link'[t] = IF t = link[x] THEN None ELSE link[t]
    /\ wire'[b] = Tail(wire[b]) /\ wire'[x] = SubSeq(wire[x], 1, i)
    /\ \A t \in Ids : t # b /\ t # x /\ t = link[b] => wire'[t] = wire[t] \o replies
    /\ \A t \in Ids : t # b /\ t # x /\ t # link[b] =>
          wire'[t] = IF t = link[x] THEN SubSeq(wire[t], 1, k) ELSE wire[t]

LEMMA ReplacesLinks ==
    ASSUME SessionInv, Tidy, Paired, NEW b \in Ids, AtConnect(b), Lookup(b[1]) # None,
           NEW q, NEW i, NEW k, NEW replies, Replaces(b, q, i, k, replies),
           NEW x, x = rank[b[1]]
    PROVE  Relinks(b, q, x, i, k, replies)
<1>1. /\ sock \in [Ids -> Good] /\ link \in [Ids -> Ids \cup {None}]
      /\ \A t \in Ids : link[t] # None => link[link[t]] = t
  BY DEF SessionInv, IsSession
<1>2. x \in Ids /\ x # b /\ sock[x].writer # "await"
  BY ReplacesAnother
<1>3. PICK y : y = LeftOver(Old(b))
  OBVIOUS
<1>4. /\ sock' = [sock EXCEPT ![b] = q, ![x] = y] /\ link' = CutLink(link, x)
      /\ wire' = ReplacedWire(b, x, i, k, replies)
  BY <1>3 DEF Replaces
<1>5. x # link[b]
  BY <1>2, AtConnectMeets, NoneIsNone
<1>6. link[b] # None => link[x] # b
  BY <1>1, <1>2, <1>5, NoneIsNone
<1>7. /\ sock'[b] = q /\ sock'[x] = LeftOver(Old(b))
      /\ \A t \in Ids : t # b /\ t # x => sock'[t] = sock[t]
  BY <1>1, <1>2, <1>3, <1>4
<1>8. /\ link'[x] = None
      /\ \A t \in Ids : t # x => link'[t] = IF t = link[x] THEN None ELSE link[t]
  BY <1>1, <1>2, <1>4, NoneIsNone DEF CutLink
<1>9. PICK w : w = ReplacedWire(b, x, i, k, replies)
  OBVIOUS
<1>10. /\ w[b] = Tail(wire[b]) /\ w[x] = SubSeq(wire[x], 1, i)
       /\ \A t \in Ids : t # b /\ t # x /\ t = link[b] => w[t] = wire[t] \o replies
       /\ \A t \in Ids : t # b /\ t # x /\ t # link[b] =>
             w[t] = IF t = link[x] THEN SubSeq(wire[t], 1, k) ELSE wire[t]
  BY <1>2, <1>9, ReplacedWireIs
<1> QED
  BY <1>2, <1>4, <1>5, <1>6, <1>7, <1>8, <1>9, <1>10 DEF Relinks

LEMMA ReplacesTidies ==
    ASSUME SessionInv, SessionInv', Tidy, Paired, NEW b \in Ids, AtConnect(b), Lookup(b[1]) # None,
           NEW q, NEW i, NEW k, NEW replies, Replaces(b, q, i, k, replies)
    PROVE  Tidy'
<1>1. PICK x : x = rank[b[1]]
  OBVIOUS
<1>2. /\ x \in Ids /\ x # b /\ x # link[b]
      /\ sock'[b] = q /\ sock'[x] = LeftOver(Old(b))
      /\ \A t \in Ids : t # b /\ t # x => sock'[t] = sock[t]
      /\ wire'[b] = Tail(wire[b]) /\ wire'[x] = SubSeq(wire[x], 1, i)
      /\ \A t \in Ids : t # b /\ t # x /\ t # link[b] =>
            wire'[t] = IF t = link[x] THEN SubSeq(wire[t], 1, k) ELSE wire[t]
  <2>1. Relinks(b, q, x, i, k, replies)
    BY <1>1, ReplacesLinks
  <2> QED
    BY <2>1 DEF Relinks
<1>3. i \in InHand(x) /\ k \in Arrived(x)
  BY <1>1 DEF Replaces
<1>4. IsTidy(q, wire'[b])
  <2>1. Len(wire'[b]) = 0
    BY <1>2, AtConnectMeets
  <2> QED
    BY <2>1 DEF IsTidy
<1>5. IsTidy(sock'[x], wire'[x])
  <2>1. PICK d : d = sock[x].reader
    OBVIOUS
  <2>2. sock'[x].reader = d
    BY <1>1, <1>2, <2>1, OldStops
  <2>3. i \in 0..Len(wire[x]) /\ i <= IF d = "reading" THEN 1 ELSE 0
    BY <1>2, <1>3, <2>1, CutBounds DEF SessionInv, InHand
  <2>4. Len(wire'[x]) = i
    BY <1>2, <2>3, WireLength, SubSeqLength
  <2>5. i <= 1
    BY <2>3
  <2> QED
    BY <2>2, <2>3, <2>4, <2>5 DEF IsTidy
<1>6. ASSUME NEW t \in Ids, t # b, t # x PROVE IsTidy(sock'[t], wire'[t])
  <2>1. sock'[t] = sock[t] /\ IsTidy(sock[t], wire[t])
    BY <1>2, <1>6 DEF Tidy
  <2>2. CASE t = link[b]
    <3>1. sock[t].writer = "await" /\ sock[t].reader = "none" /\ sock[t].state \in {"connecting", "closed"}
      BY <2>2, AtConnectMeets, NoneIsNone
    <3> QED
      BY <2>1, <3>1 DEF IsTidy, IsIdle
  <2>3. CASE t # link[b] /\ t = link[x]
    <3>1. wire'[t] = SubSeq(wire[t], 1, k) /\ k \in 0..Len(wire[t])
      BY <1>2, <1>3, <1>6, <2>3, NoneIsNone DEF Arrived
    <3>2. Len(wire'[t]) = k /\ Len(wire[t]) \in Nat
      BY <3>1, WireLength, SubSeqLength
    <3>3. Len(wire'[t]) \in Nat /\ Len(wire'[t]) <= Len(wire[t])
      BY <3>1, <3>2
    <3>4. IsTidy(sock[t], wire'[t])
      BY <2>1, <3>2, <3>3, ShorterIsTidy
    <3> QED
      BY <2>1, <3>4
  <2>4. CASE t # link[b] /\ t # link[x]
    BY <1>2, <1>6, <2>1, <2>4
  <2> QED
    BY <2>2, <2>3, <2>4
<1> QED
  BY <1>2, <1>4, <1>5, <1>6 DEF Tidy

\* b answers t after it took the place of the old socket.
LEMMA ReplacesPairs ==
    ASSUME SessionInv, SessionInv', Tidy, Paired, NEW b \in Ids, AtConnect(b), Lookup(b[1]) # None,
           NEW zero, NEW q, q = Successor(b, zero), NEW i, NEW k,
           Replaces(b, q, i, k, Append(Early(b), Ready(b))), link[b] # None
    PROVE  Paired'
<1>1. PICK x, t, r, n, a : /\ x = rank[b[1]] /\ t = link[b] /\ r = sock[t] /\ n = Tail(wire[b])
                           /\ a = Append(Early(b), Ready(b))
  OBVIOUS
<1>2. /\ x \in Ids /\ x # b /\ x # t /\ link[x] # b
      /\ sock'[b] = q /\ \A u \in Ids : u # b /\ u # x => sock'[u] = sock[u]
      /\ link'[x] = None
      /\ \A u \in Ids : u # x => link'[u] = IF u = link[x] THEN None ELSE link[u]
      /\ wire'[b] = n
      /\ \A u \in Ids : u # b /\ u # x /\ u = t => wire'[u] = wire[u] \o a
      /\ \A u \in Ids : u # b /\ u # x /\ u # t =>
            wire'[u] = IF u = link[x] THEN SubSeq(wire[u], 1, k) ELSE wire[u]
  <2>1. Replaces(b, q, i, k, a)
    BY <1>1
  <2>2. Relinks(b, q, x, i, k, a)
    BY <1>1, <2>1, ReplacesLinks
  <2> QED
    BY <1>1, <2>2 DEF Relinks
<1>3. /\ t \in Ids /\ t # b /\ link[t] = b /\ r.writer = "await" /\ r.reader = "none"
      /\ r.state \in {"connecting", "closed"} /\ r.cseq = ConnectSeq(b) /\ wire[t] = <<>>
  BY <1>1, AtConnectMeets
<1>4. /\ q.state = "open" /\ q.reader = "reading" /\ q.writer = "loop"
      /\ q.cseq = NextSeq(ConnectSeq(b)) /\ q.lossy = policy[b[1]].lossy
  BY SuccessorMeets
<1>5. a \in Seq(WireItems) /\ a # <<>> /\ (a[1].tag = "ready" => a[1].lossy = policy[b[1]].lossy)
  <2>1. Early(b) \in Seq(WireItems) /\ Ready(b) \in WireItems
    BY RepliesAreItems
  <2>2. a \in Seq(WireItems)
    BY <1>1, <2>1, AppendProperties
  <2> QED
    BY <1>1, <2>2, FirstReply
<1>6. wire'[t] = a
  <2>1. <<>> \o a = a
    BY <1>5, AfterNothing
  <2> QED
    BY <1>2, <1>3, <2>1
<1>7. IsPair(q, n, r, a) /\ IsPair(r, a, q, n)
  BY <1>3, <1>4, <1>5, AnswerMeets
<1>8. /\ IsPair(sock'[b], wire'[b], sock'[t], wire'[t])
      /\ IsPair(sock'[t], wire'[t], sock'[b], wire'[b])
  <2>1. sock'[t] = r
    BY <1>1, <1>2, <1>3
  <2> QED
    BY <1>2, <1>6, <1>7, <2>1
<1>9. ASSUME NEW u \in Ids, u # b, u # t
      PROVE  \/ link'[u] = None
             \/ /\ link'[u] = link[u] /\ Behind(wire'[u], wire[u], sock[u])
                /\ Follows(sock'[u], sock[u]) /\ link[u] # b /\ link[u] # t
  <2>1. CASE u = x \/ u = link[x] \/ link[u] = None
    BY <1>2, <2>1
  <2>2. CASE u # x /\ u # link[x] /\ link[u] # None
    <3>1. link'[u] = link[u] /\ wire'[u] = wire[u] /\ sock'[u] = sock[u]
      BY <1>2, <1>9, <2>2
    <3>2. link[u] # b /\ link[u] # t
      BY <1>1, <1>3, <1>9, <2>2, LinkedBack
    <3> QED
      BY <3>1, <3>2 DEF Behind, Follows
  <2> QED
    BY <2>1, <2>2
<1>10. link'[b] = t
  BY <1>1, <1>2
<1> QED
  BY <1>3, <1>8, <1>9, <1>10, PairMeets

LEMMA AcceptExistingPairs ==
    ASSUME SessionInv, SessionInv', Tidy, Paired, NEW b \in Ids, AcceptExisting(b)
    PROVE  Paired' /\ Tidy'
<1>1. AtConnect(b) /\ Lookup(b[1]) # None /\ link[b] # None
  BY DEF AcceptExisting
<1>2. PICK zero, i, k, q : /\ q = Successor(b, zero)
                           /\ Replaces(b, q, i, k, Append(Early(b), Ready(b)))
  BY ExistingReplaces
<1>3. Tidy'
  BY <1>1, <1>2, ReplacesTidies
<1>4. Paired'
  BY <1>1, <1>2, ReplacesPairs
<1> QED
  BY <1>3, <1>4

LEMMA AcceptFailsPairs ==
    ASSUME SessionInv, SessionInv', Tidy, Paired, NEW b \in Ids, AcceptFails(b)
    PROVE  Paired' /\ Tidy'
<1>1. AtConnect(b) /\ link[b] = None
  BY DEF AcceptFails
<1>2. CASE \E v : sock' = [sock EXCEPT ![b] = v] /\ wire' = [wire EXCEPT ![b] = <<>>] /\ link' = link
  <2>1. PICK v : sock' = [sock EXCEPT ![b] = v] /\ wire' = [wire EXCEPT ![b] = <<>>] /\ link' = link
    BY <1>2
  <2>2. wire'[b] = <<>> /\ \A t \in Ids : t # b => wire'[t] = wire[t]
    BY <2>1 DEF SessionInv, IsSession
  <2>3. Lessens
    BY <1>1, <2>1, <2>2 DEF Lessens, Behind
  <2>4. Trims(b)
    BY <2>2, WireLength DEF Trims
  <2>5. IsTidy(v, wire'[b])
    BY <2>2, EmptyIsTidy
  <2>6. Paired'
    BY <1>1, <2>1, <2>3, OneMoves
  <2>7. Tidy'
    BY <2>1, <2>4, <2>5, OneTidies
  <2> QED
    BY <2>6, <2>7
<1>3. CASE /\ Lookup(b[1]) # None
           /\ Replace(b, LAMBDA r : AcceptFailed(r, policy[b[1]], TRUE), <<>>)
  <2>1. PICK zero, i, k, q : /\ q = AcceptFailed(Successor(b, zero), policy[b[1]], TRUE)
                             /\ Replaces(b, q, i, k, <<>>)
    BY <1>3, FailsReplaces
  <2>2. PICK x, n : x = rank[b[1]] /\ n = <<>>
    OBVIOUS
  <2>3. Replaces(b, q, i, k, n)
    BY <2>1, <2>2
  <2>4. Tidy'
    BY <1>1, <1>3, <2>3, ReplacesTidies
  <2>5. /\ x \in Ids /\ \A u \in Ids : u # b /\ u # x => sock'[u] = sock[u]
        /\ link'[x] = None
        /\ \A u \in Ids : u # x => link'[u] = IF u = link[x] THEN None ELSE link[u]
        /\ \A u \in Ids : u # b /\ u # x /\ u # link[b] =>
              wire'[u] = IF u = link[x] THEN SubSeq(wire[u], 1, k) ELSE wire[u]
    <3>1. Relinks(b, q, x, i, k, n)
      BY <1>1, <1>3, <2>2, <2>3, ReplacesLinks
    <3> QED
      BY <3>1 DEF Relinks
  <2>6. link'[b] = None
    BY <1>1, <2>5
  <2>7. Lessens
    BY <1>1, <2>5, <2>6, NoneIsNone DEF Lessens, Behind
  <2>8. ASSUME NEW t \in Ids, link'[t] # None PROVE Follows(sock'[t], sock[t])
    <3>1. sock'[t] = sock[t]
      BY <2>5, <2>6, <2>8
    <3> QED
      BY <3>1 DEF Follows
  <2>9. Paired'
    BY <2>7, <2>8, PairsStay
  <2> QED
    BY <2>4, <2>9
<1> QED
  BY <1>2, <1>3 DEF AcceptFails

-----------------------------------------------------------------------------
(* The ends of a session                                                   *)

PairedInv == SessionInv /\ Tidy /\ Paired

LEMMA StartsPaired == Init => PairedInv
<1> SUFFICES ASSUME Init PROVE PairedInv
  OBVIOUS
<1>1. SessionInv
  BY StartsQuiet
<1>2. \A s \in Ids : link[s] = None /\ wire[s] = <<>>
  BY DEF Init
<1>3. Tidy
  BY <1>2, EmptyIsTidy DEF Tidy
<1>4. Paired
  BY <1>2 DEF Paired
<1> QED
  BY <1>1, <1>3, <1>4 DEF PairedInv

LEMMA StepPairs == PairedInv /\ [Next]_vars => PairedInv'
<1> SUFFICES ASSUME SessionInv, Tidy, Paired, [Next]_vars PROVE SessionInv' /\ Tidy' /\ Paired'
  BY DEF PairedInv
<1>1. SessionInv'
  BY StepKeeps
<1>2. CASE UNCHANGED vars
  <2>1. Tidy'
    BY <1>2 DEF vars, Tidy
  <2>2. Paired'
    BY <1>2 DEF vars, Paired
  <2> QED
    BY <1>1, <2>1, <2>2
<1>3. ASSUME NEW e \in Ends, Send(e) \/ SendFirst(e) \/ MarkDown(e) PROVE Tidy' /\ Paired'
  BY <1>1, <1>3, SendTidies, SendFirstTidies, MarkDownTidies, SendPairs, SendFirstPairs, MarkDownPairs
<1>4. ASSUME NEW s \in Ids, Writer(s) PROVE Tidy' /\ Paired'
  <2>1. CASE \/ WriterLeavesStandby(s) \/ JoinReader(s) \/ TakeAck(s) \/ TakeMessage(s)
             \/ AckWritten(s) \/ WriterExits(s)
    BY <1>1, <2>1, WriterMovesTidy, WriterMovesPairs
  <2>2. CASE Connect(s)
    BY <1>1, <2>2, ConnectTidies, ConnectPairs
  <2>3. CASE ReadReply(s)
    BY <1>1, <2>3, ReadReplyTidies, ReadReplyPairs
  <2>4. CASE NoReply(s)
    BY <1>1, <2>4, NoReplyTidies, NoReplyPairs
  <2>5. CASE WriteOut(s)
    BY <1>1, <2>5, WriteOutTidies, WriteOutPairs
  <2>6. CASE WriteFails(s)
    BY <1>1, <2>6, WriteFailsTidies, WriteFailsPairs
  <2> QED
    BY <1>4, <2>1, <2>2, <2>3, <2>4, <2>5, <2>6 DEF Writer
<1>5. ASSUME NEW s \in Ids, Reader(s) PROVE Tidy' /\ Paired'
  <2>1. CASE AcceptNew(s) \/ AcceptExisting(s) \/ AcceptFails(s)
    BY <1>1, <2>1, AcceptNewPairs, AcceptExistingPairs, AcceptFailsPairs
  <2>2. CASE AcceptLost(s)
    BY <1>1, <2>2, AcceptLostTidies, AcceptLostPairs
  <2>3. CASE ReadMessage(s) \/ ReadAck(s) \/ ReaderWakes(s)
    BY <1>1, <2>3, ReaderMovesTidy, ReaderMovesPairs
  <2>4. CASE ReadFails(s)
    BY <1>1, <2>4, ReadFailsTidies, ReadFailsPairs
  <2> QED
    BY <1>5, <2>1, <2>2, <2>3, <2>4 DEF Reader
<1>6. ASSUME NEW s \in Ids, Deliver(s) \/ Reap(s) \/ Break(s) PROVE Tidy' /\ Paired'
  BY <1>1, <1>6, DeliverTidies, DeliverPairs, ReapTidies, ReapPairs, BreakTidies, BreakPairs
<1> QED
  BY <1>1, <1>2, <1>3, <1>4, <1>5, <1>6 DEF Next, Runs

LEMMA PairsAgree == PairedInv => EndsAgree
BY DEF PairedInv, Paired, IsPair, Agree, EndsAgree

\* The ends of an open connection agree on the connect_seq of the session and on
\* whether it is lossy, whoever reconnected, replaced a socket, was refused or
\* gave up a reply: open_socket() and connecting() count connect_seq up from
\* the same number, because a connector whose reply has not been read still
\* has the number that accepting() read.
THEOREM EndsMeet == Spec => []EndsAgree
<1>1. Init => PairedInv
  BY StartsPaired
<1>2. PairedInv /\ [Next]_vars => PairedInv'
  BY StepPairs
<1>3. PairedInv => EndsAgree
  BY PairsAgree
<1> QED
  BY <1>1, <1>2, <1>3, PTL DEF Spec

-----------------------------------------------------------------------------
(* An end that only connects, and one that only accepts                    *)

\* The sockets of an end that only accepts: none ever connects, not even one
\* whose accept_fail() ran with the default policy; it does not know its peer.
Serves(r, registered) ==
    /\ r.writer \notin {"join", "await"}
    /\ r.state = "connecting" => ~r.known /\ r.reader = "none"
    /\ r.reader = "accepting" => ~r.known
    /\ r.state = "open" => registered

\* ... and of its peer, which only connects: the one in use is registered, and
\* none that was closed connects.
Calls(r, registered) ==
    /\ r.reader # "accepting"
    /\ r.state \notin {"free", "closed"} => registered
    /\ r.state = "closed" => r.writer \notin {"join", "await"}

InRole(p, s, r, rk) ==
    /\ p[s[1]].server => Serves(r, rk[s[1]] = s)
    /\ p[Peer(s[1])].server => Calls(r, rk[s[1]] = s)
Roles == \A s \in Ids : InRole(policy, s, sock[s], rank)

LEMMA RoleKept ==
    ASSUME NEW p, NEW s, NEW r, NEW rk, InRole(p, s, r, rk), NEW v, SameRole(v, r),
           NEW rk2, rk[s[1]] = s => rk2[s[1]] = s \/ r.state = "closed"
    PROVE  InRole(p, s, v, rk2)
<1>1. ASSUME p[s[1]].server PROVE Serves(v, rk2[s[1]] = s)
  BY <1>1 DEF InRole, Serves, SameRole
<1>2. ASSUME p[Peer(s[1])].server PROVE Calls(v, rk2[s[1]] = s)
  BY <1>2 DEF InRole, Calls, SameRole
<1> QED
  BY <1>1, <1>2 DEF InRole

\* A step may unregister a socket that is closed.
Registers(s) ==
    \A t \in Ids : t # s /\ rank[t[1]] = t => rank'[t[1]] = t \/ sock[t].state = "closed"

\* A step of one socket.
LEMMA OneInRole ==
    ASSUME SessionInv, Roles, policy' = policy, NEW s \in Ids, Registers(s),
           NEW v, sock' = [sock EXCEPT ![s] = v], InRole(policy, s, v, rank')
    PROVE  Roles'
<1> SUFFICES ASSUME NEW t \in Ids PROVE InRole(policy, t, sock'[t], rank')
  BY DEF Roles
<1>1. sock \in [Ids -> Good]
  BY DEF SessionInv, IsSession
<1>2. CASE t = s
  BY <1>1, <1>2
<1>3. CASE t # s
  <2>1. sock'[t] = sock[t] /\ InRole(policy, t, sock[t], rank)
    BY <1>1, <1>3 DEF Roles
  <2>2. SameRole(sock[t], sock[t])
    BY DEF SameRole
  <2>3. rank[t[1]] = t => rank'[t[1]] = t \/ sock[t].state = "closed"
    BY <1>3 DEF Registers
  <2> QED
    BY <2>1, <2>2, <2>3, RoleKept
<1> QED
  BY <1>2, <1>3

LEMMA SameInRole ==
    ASSUME SessionInv, Roles, policy' = policy, rank' = rank, NEW s \in Ids,
           NEW v, sock' = [sock EXCEPT ![s] = v], SameRole(v, sock[s])
    PROVE  Roles'
<1>1. Registers(s)
  BY DEF Registers
<1>2. InRole(policy, s, sock[s], rank)
  BY DEF Roles
<1>3. InRole(policy, s, v, rank')
  BY <1>2, RoleKept
<1> QED
  BY <1>1, <1>3, OneInRole

LEMMA SendInRole == ASSUME SessionInv, Roles, NEW e \in Ends, Send(e) PROVE Roles'
<1>1. PICK s, v : s = rank[e] /\ v = [sock[s] EXCEPT !.outq = Append(sock[s].outq, handed[e] + 1)]
  OBVIOUS
<1>2. s \in Ids /\ sock' = [sock EXCEPT ![s] = v] /\ rank' = rank /\ policy' = policy
  BY <1>1, RegisteredIsUsed DEF Send, Lookup, SessionInv
<1>3. SameRole(v, sock[s])
  BY <1>1, <1>2, SocketOf DEF SameRole, Sockets
<1> QED
  BY <1>2, <1>3, SameInRole

LEMMA SendFirstInRole == ASSUME SessionInv, Roles, NEW e \in Ends, SendFirst(e) PROVE Roles'
<1>1. PICK s \in FreeSocket(e) :
        /\ sock' = [sock EXCEPT ![s] = [NewSocket("connecting") EXCEPT !.known = TRUE,
                                                !.lossy = policy[e].lossy,
                                                !.outq = <<handed[e] + 1>>,
                                                !.writer = "loop"]]
        /\ rank' = [rank EXCEPT ![e] = s]
  BY DEF SendFirst
<1>2. PICK v : v = [NewSocket("connecting") EXCEPT !.known = TRUE,
                                                !.lossy = policy[e].lossy,
                                                !.outq = <<handed[e] + 1>>,
                                                !.writer = "loop"]
  OBVIOUS
<1>3. v.reader = "none" /\ v.state = "connecting" /\ v.writer = "loop"
  BY <1>2 DEF NewSocket
<1>4. s \in Ids /\ s[1] = e
  BY DEF FreeSocket, Ids, SocketsOf, Ends
<1>5. ~policy[e].server /\ policy' = policy /\ Lookup(e) = None
  BY DEF SendFirst
<1>6. rank \in [Ends -> Ids \cup {None}] /\ \A t \in Ids : t[1] \in Ends
  BY DEF SessionInv, IsSession, Ids, SocketsOf, Ends
<1>7. Registers(s)
  <2>1. ASSUME NEW t \in Ids, t # s, rank[t[1]] = t PROVE rank'[t[1]] = t \/ sock[t].state = "closed"
    <3>1. CASE t[1] = e
      BY <1>5, <2>1, <3>1, NoneIsNone DEF Lookup
    <3>2. CASE t[1] # e
      BY <1>1, <1>6, <2>1, <3>2
    <3> QED
      BY <3>1, <3>2
  <2> QED
    BY <2>1 DEF Registers
<1>8. rank'[s[1]] = s
  BY <1>1, <1>4, <1>6
<1>9. InRole(policy, s, v, rank')
  BY <1>3, <1>4, <1>5, <1>8 DEF InRole, Calls
<1>10. sock' = [sock EXCEPT ![s] = v]
  BY <1>1, <1>2
<1> QED
  BY <1>4, <1>5, <1>7, <1>9, <1>10, OneInRole

LEMMA WriterMovesInRole ==
    ASSUME SessionInv, Roles, NEW s \in Ids,
           \/ WriterLeavesStandby(s) \/ JoinReader(s) \/ TakeAck(s) \/ TakeMessage(s)
           \/ AckWritten(s) \/ WriterExits(s)
    PROVE  Roles'
<1>1. rank' = rank /\ policy' = policy
  BY DEF WriterLeavesStandby, JoinReader, TakeAck, TakeMessage, AckWritten, WriterExits
<1>2. PICK r : r = sock[s] /\ r \in Sockets /\ InRole(policy, s, r, rank)
  BY SocketOf DEF Roles
<1>3. Registers(s)
  BY <1>1 DEF Registers
<1>4. CASE WriterLeavesStandby(s)
  <2>1. PICK v : v = [r EXCEPT !.state = "connecting"]
    OBVIOUS
  <2>2. /\ sock' = [sock EXCEPT ![s] = v] /\ r.writer = "loop" /\ r.state = "standby"
        /\ ~policy[s[1]].server
    BY <1>2, <1>4, <2>1 DEF WriterLeavesStandby
  <2>3. v.state = "connecting" /\ v.reader = r.reader /\ v.writer = r.writer
    BY <1>2, <2>1 DEF Sockets
  <2>4. InRole(policy, s, v, rank')
    BY <1>1, <1>2, <2>2, <2>3 DEF InRole, Calls
  <2> QED
    BY <1>1, <1>3, <2>2, <2>4, OneInRole
<1>5. CASE JoinReader(s)
  <2>1. PICK v : v = [r EXCEPT !.writer = "join"]
    OBVIOUS
  <2>2. /\ sock' = [sock EXCEPT ![s] = v] /\ r.state = "connecting" /\ r.reader # "none"
    BY <1>2, <1>5, <2>1 DEF JoinReader
  <2>3. v.state = "connecting" /\ v.reader = r.reader
    BY <1>2, <2>1, <2>2 DEF Sockets
  <2>4. ~policy[s[1]].server
    BY <1>2, <2>2 DEF InRole, Serves
  <2>5. InRole(policy, s, v, rank')
    BY <1>1, <1>2, <2>2, <2>3, <2>4 DEF InRole, Calls
  <2> QED
    BY <1>1, <1>3, <2>2, <2>5, OneInRole
<1>6. CASE ~WriterLeavesStandby(s) /\ ~JoinReader(s)
  <2>1. PICK v : sock' = [sock EXCEPT ![s] = v] /\ SameRole(v, sock[s])
    BY <1>6, WriterMoves
  <2> QED
    BY <1>1, <2>1, SameInRole
<1> QED
  BY <1>4, <1>5, <1>6

LEMMA ReaderMovesInRole ==
    ASSUME SessionInv, Roles, NEW s \in Ids, ReadMessage(s) \/ ReadAck(s) \/ ReaderWakes(s)
    PROVE  Roles'
<1>1. rank' = rank /\ policy' = policy
  BY DEF ReadMessage, ReadAck, ReaderWakes
<1>2. PICK v : sock' = [sock EXCEPT ![s] = v] /\ SameRole(v, sock[s])
  BY ReaderMoves
<1> QED
  BY <1>1, <1>2, SameInRole

LEMMA WriteOutInRole == ASSUME SessionInv, Roles, NEW s \in Ids, WriteOut(s) PROVE Roles'
<1>1. PICK v :
        v = [sock[s] EXCEPT !.writer = IF sock[s].writer = "acking" THEN "acked" ELSE "loop",
                            !.out = IF sock[s].writer = "acking" THEN sock[s].out ELSE NoItem]
  OBVIOUS
<1>2. sock' = [sock EXCEPT ![s] = v] /\ rank' = rank /\ policy' = policy
  BY <1>1 DEF WriteOut
<1>3. SameRole(v, sock[s])
  BY <1>1, SocketOf DEF SameRole, Sockets
<1> QED
  BY <1>2, <1>3, SameInRole

LEMMA DeliverInRole == ASSUME SessionInv, Roles, NEW s \in Ids, Deliver(s) PROVE Roles'
<1>1. PICK v : v = [sock[s] EXCEPT !.inq = Tail(sock[s].inq)]
  OBVIOUS
<1>2. sock' = [sock EXCEPT ![s] = v] /\ rank' = rank /\ policy' = policy
  BY <1>1 DEF Deliver
<1>3. SameRole(v, sock[s])
  BY <1>1, SocketOf DEF SameRole, Sockets
<1> QED
  BY <1>2, <1>3, SameInRole

LEMMA ReapInRole == ASSUME SessionInv, Roles, NEW s \in Ids, Reap(s) PROVE Roles'
<1>1. /\ sock' = [sock EXCEPT ![s] = Free] /\ policy' = policy
      /\ rank' = [rank EXCEPT ![s[1]] = IF rank[s[1]] = s THEN None ELSE rank[s[1]]]
  BY DEF Reap
<1>2. rank \in [Ends -> Ids \cup {None}]
  BY DEF SessionInv, IsSession
<1>3. Registers(s)
  BY <1>1, <1>2 DEF Registers
<1>4. Free.state = "free" /\ Free.writer = "none" /\ Free.reader = "none"
  BY DEF Free, NewSocket
<1>5. InRole(policy, s, Free, rank')
  BY <1>4 DEF InRole, Serves, Calls
<1> QED
  BY <1>1, <1>3, <1>5, OneInRole

\* A socket of an end that only accepts does not connect; the new one at the
\* other end is such an end's, if any.
LEMMA ConnectInRole == ASSUME SessionInv, Roles, NEW s \in Ids, Connect(s) PROVE Roles'
<1>1. PICK b \in FreeSocket(Peer(s[1])) :
        sock' = [sock EXCEPT ![s].writer = "await",
                             ![b] = [NewSocket("accepting") EXCEPT !.reader = "accepting"]]
  BY DEF Connect
<1>2. PICK r, q, v : /\ r = sock[s] /\ v = [r EXCEPT !.writer = "await"]
                     /\ q = [NewSocket("accepting") EXCEPT !.reader = "accepting"]
  OBVIOUS
<1>3. /\ r \in Sockets /\ IsStaffed(r) /\ r.reader = "none" /\ r.known
      /\ (r.writer = "loop" /\ r.state = "connecting") \/ r.writer = "join"
  BY <1>2, SocketOf DEF Connect
<1>4. InRole(policy, s, r, rank) /\ s[1] \in Ends
  BY <1>2 DEF Roles, Ids, SocketsOf, Ends
<1>5. b \in Ids /\ b[1] = Peer(s[1]) /\ b # s /\ Peer(b[1]) = s[1]
  BY <1>4 DEF FreeSocket, Ids, SocketsOf, Peer, Ends
<1>6. rank' = rank /\ policy' = policy
  BY DEF Connect
<1>7. v.writer = "await" /\ v.reader = "none" /\ v.state = r.state
  BY <1>2, <1>3 DEF Sockets
<1>8. q.reader = "accepting" /\ q.writer = "none" /\ q.state = "accepting" /\ ~q.known
  BY <1>2 DEF NewSocket
<1>9. ~policy[s[1]].server
  BY <1>3, <1>4 DEF InRole, Serves
<1>10. InRole(policy, s, v, rank)
  BY <1>3, <1>4, <1>7, <1>9 DEF InRole, Calls, IsStaffed
<1>11. InRole(policy, b, q, rank)
  BY <1>5, <1>8, <1>9 DEF InRole, Serves
<1>12. ASSUME NEW t \in Ids PROVE InRole(policy, t, sock'[t], rank)
  <2>1. sock' = [sock EXCEPT ![s] = v, ![b] = q] /\ sock \in [Ids -> Good]
    BY <1>1, <1>2 DEF SessionInv, IsSession
  <2>2. CASE t = b
    BY <1>5, <1>11, <2>1, <2>2
  <2>3. CASE t = s
    BY <1>5, <1>10, <2>1, <2>3
  <2>4. CASE t # b /\ t # s
    BY <2>1, <2>4 DEF Roles
  <2> QED
    BY <2>2, <2>3, <2>4
<1> QED
  BY <1>6, <1>12 DEF Roles

\* fault(): a socket of a server connects only if it did; none opens.
LEMMA FaultedRole ==
    ASSUME NEW r \in Sockets, NEW p, NEW onread, NEW f, f = Faulted(r, p, onread)
    PROVE  /\ f.known = r.known /\ f.writer = r.writer /\ f.reader = r.reader
           /\ f.state \in {"closed", "standby", "connecting"}
           /\ (p.server /\ f.state = "connecting") => r.state = "connecting"
           /\ r.state = "closed" => f.state = "closed"
           /\ f.state = "closed" => r.state = "closed" \/ Drops(r, onread)
           /\ Drops(r, onread) => f.state = "closed"
           /\ DOMAIN f = DOMAIN r
<1>1. CASE Ignored(r, onread)
  BY <1>1 DEF Faulted, Ignored, Drops
<1>2. CASE ~Ignored(r, onread) /\ Drops(r, onread)
  <2>1. f = [Discarded(r) EXCEPT !.state = "closed"]
    BY <1>2 DEF Faulted
  <2>2. /\ f.known = r.known /\ f.writer = r.writer /\ f.reader = r.reader /\ f.state = "closed"
        /\ DOMAIN f = DOMAIN r
    BY <2>1 DEF Discarded, Sockets
  <2> QED
    BY <1>2, <2>2
<1>3. CASE ~Ignored(r, onread) /\ ~Drops(r, onread)
  <2>1. PICK d : d = Requeued(r)
    OBVIOUS
  <2>2. PICK a, l, n : d = [r EXCEPT !.outq = a, !.sent = l, !.outSeq = n]
    BY <2>1 DEF Requeued
  <2>3. d.known = r.known /\ d.writer = r.writer /\ d.reader = r.reader /\ d.state = r.state
    BY <2>2 DEF Sockets
  <2>4. \/ f = [d EXCEPT !.state = "standby"]
        \/ f = d /\ d.state = "connecting"
        \/ ~p.server /\ f = [d EXCEPT !.state = "connecting", !.cseq = NextSeq(d.cseq)]
    BY <1>3, <2>1 DEF Faulted, Resumed
  <2>5. DOMAIN d = DOMAIN r
    BY <2>2
  <2>6. /\ f.known = d.known /\ f.writer = d.writer /\ f.reader = d.reader
        /\ f.state \in {"standby", "connecting"}
        /\ (p.server /\ f.state = "connecting") => d.state = "connecting"
        /\ DOMAIN f = DOMAIN d
    BY <2>4, <2>5 DEF Sockets
  <2> QED
    BY <1>3, <2>3, <2>5, <2>6 DEF Ignored
<1> QED
  BY <1>1, <1>2, <1>3

\* Where fault() unregisters a socket, it closed it.
LEMMA FaultInRole ==
    ASSUME SessionInv, Roles, policy' = policy, NEW s \in Ids, NEW r \in Sockets,
           NEW onread \in BOOLEAN, NEW reset,
           Fault(s, r, onread, reset), InRole(policy, s, r, rank), r.state # "free", r.writer # "await",
           onread => r.reader = "reading", r.writer = "join" => r.state \in {"connecting", "closed"}
    PROVE  Roles'
<1>1. PICK f, v, p : /\ p = policy[s[1]] /\ f = Faulted(r, p, onread)
                     /\ v = IF onread THEN ReaderLoops(f) ELSE f
  OBVIOUS
<1>2. /\ sock' = [sock EXCEPT ![s] = v]
      /\ rank' = [rank EXCEPT ![s[1]] = IF Drops(r, onread) /\ rank[s[1]] = s THEN None ELSE rank[s[1]]]
  BY <1>1 DEF Fault
<1>3. rank \in [Ends -> Ids \cup {None}] /\ s[1] \in Ends
  BY DEF SessionInv, IsSession, Ids, SocketsOf, Ends
<1>4. Registers(s) /\ (~Drops(r, onread) => rank' = rank)
  BY <1>2, <1>3 DEF Registers
<1>5. /\ f.known = r.known /\ f.writer = r.writer /\ f.reader = r.reader
      /\ f.state \in {"closed", "standby", "connecting"}
      /\ (p.server /\ f.state = "connecting") => r.state = "connecting"
      /\ r.state = "closed" => f.state = "closed"
      /\ f.state = "closed" => r.state = "closed" \/ Drops(r, onread)
      /\ Drops(r, onread) => f.state = "closed"
      /\ DOMAIN f = DOMAIN r
  BY <1>1, FaultedRole
<1>6. /\ v.known = r.known /\ v.writer = r.writer /\ v.state = f.state
      /\ v.reader = r.reader \/ (onread /\ v.reader \in {"none", "standby"})
  <2>1. CASE ~onread
    BY <1>1, <1>5, <2>1
  <2>2. CASE onread
    <3>1. PICK d : v = [f EXCEPT !.reader = d] /\ d \in {"none", "standby"}
      BY <1>1, <1>5, <2>2 DEF ReaderLoops
    <3>2. v.reader = d /\ v.known = f.known /\ v.writer = f.writer /\ v.state = f.state
      BY <1>5, <3>1 DEF Sockets
    <3> QED
      BY <1>5, <2>2, <3>1, <3>2
  <2> QED
    BY <2>1, <2>2
<1>7. ASSUME policy[s[1]].server PROVE Serves(v, rank'[s[1]] = s)
  <2>1. Serves(r, rank[s[1]] = s)
    BY <1>7 DEF InRole
  <2> QED
    BY <1>1, <1>5, <1>6, <1>7, <2>1 DEF Serves
<1>8. ASSUME policy[Peer(s[1])].server PROVE Calls(v, rank'[s[1]] = s)
  <2>1. Calls(r, rank[s[1]] = s)
    BY <1>8 DEF InRole
  <2>2. v.state \notin {"free", "closed"} => rank'[s[1]] = s
    BY <1>4, <1>5, <1>6, <2>1 DEF Calls
  <2>3. v.state = "closed" => v.writer \notin {"join", "await"}
    <3>1. CASE r.state = "closed"
      BY <1>6, <2>1, <3>1 DEF Calls
    <3>2. CASE Drops(r, onread)
      BY <1>6, <3>2 DEF Drops, Ignored
    <3> QED
      BY <1>5, <1>6, <3>1, <3>2
  <2> QED
    BY <1>6, <2>1, <2>2, <2>3 DEF Calls
<1>9. InRole(policy, s, v, rank')
  BY <1>7, <1>8 DEF InRole
<1> QED
  BY <1>2, <1>4, <1>9, OneInRole

LEMMA WriteFailsInRole == ASSUME SessionInv, Roles, NEW s \in Ids, WriteFails(s) PROVE Roles'
<1>1. PICK x, r, o : /\ x = sock[s] /\ r = [x EXCEPT !.writer = "loop", !.out = NoItem]
                     /\ o = FALSE
  OBVIOUS
<1>2. Fault(s, r, o, FALSE) /\ ~o /\ o \in BOOLEAN /\ policy' = policy
  BY <1>1 DEF WriteFails
<1>3. x \in Sockets /\ IsStaffed(x) /\ x.writer \in {"writing", "acking"}
  BY <1>1, SocketOf DEF WriteFails
<1>4. /\ r \in Sockets /\ r.writer = "loop" /\ r.state = x.state /\ r.known = x.known
      /\ r.reader = x.reader
  BY <1>1, <1>3 DEF Sockets, Writers
<1>5. r.state # "free" /\ SameRole(r, sock[s])
  BY <1>1, <1>3, <1>4 DEF SameRole, IsStaffed, Free, NewSocket
<1>6. InRole(policy, s, sock[s], rank)
  BY DEF Roles
<1>7. InRole(policy, s, r, rank)
  BY <1>5, <1>6, RoleKept
<1> QED
  BY <1>2, <1>4, <1>5, <1>7, FaultInRole

LEMMA ReadFailsInRole == ASSUME SessionInv, Roles, NEW s \in Ids, ReadFails(s) PROVE Roles'
<1>1. PICK r, o : r = sock[s] /\ o = TRUE
  OBVIOUS
<1>2. Fault(s, r, o, FALSE) /\ o /\ o \in BOOLEAN /\ policy' = policy /\ r.reader = "reading"
  BY <1>1 DEF ReadFails
<1>3. r \in Sockets /\ IsStaffed(r)
  BY <1>1, SocketOf
<1>4. r.writer # "await" /\ r.state # "free" /\ (r.writer = "join" => r.state \in {"connecting", "closed"})
  BY <1>2, <1>3 DEF IsStaffed, Free, NewSocket
<1>5. InRole(policy, s, r, rank)
  BY <1>1 DEF Roles
<1> QED
  BY <1>2, <1>3, <1>4, <1>5, FaultInRole

LEMMA ConnectFailsInRole ==
    ASSUME SessionInv, Roles, policy' = policy, NEW s \in Ids, NEW r \in Sockets, NEW reset,
           ConnectFails(s, r, reset), r.state = sock[s].state, r.known = sock[s].known,
           r.reader = "none", r.state \in {"connecting", "closed"}
    PROVE  Roles'
<1>1. PICK k : k = [r EXCEPT !.writer = "loop"]
  OBVIOUS
<1>2. /\ k \in Sockets /\ k.writer = "loop" /\ k.state = r.state /\ k.known = r.known
      /\ k.reader = r.reader
  BY <1>1 DEF Sockets, Writers
<1>3. SameRole(k, sock[s])
  BY <1>2 DEF SameRole
<1>4. CASE r.state = "connecting"
  <2>1. PICK o : o = FALSE /\ o \in BOOLEAN
    OBVIOUS
  <2>2. Fault(s, k, o, reset)
    BY <1>1, <1>4, <2>1 DEF ConnectFails
  <2>3. InRole(policy, s, sock[s], rank)
    BY DEF Roles
  <2>4. InRole(policy, s, k, rank)
    BY <1>3, <2>3, RoleKept
  <2>5. k.state # "free" /\ k.writer # "await" /\ k.writer # "join" /\ ~o
    BY <1>2, <1>4, <2>1
  <2> QED
    BY <1>2, <2>1, <2>2, <2>4, <2>5, FaultInRole
<1>5. CASE r.state = "closed"
  <2>1. sock' = [sock EXCEPT ![s] = k] /\ rank' = rank
    BY <1>1, <1>5 DEF ConnectFails
  <2> QED
    BY <1>3, <2>1, SameInRole
<1> QED
  BY <1>4, <1>5

LEMMA NoReplyInRole == ASSUME SessionInv, Roles, NEW s \in Ids, NoReply(s) PROVE Roles'
<1>1. PICK r : r = sock[s] /\ r \in Sockets /\ IsStaffed(r)
  BY SocketOf
<1>2. ConnectFails(s, r, FALSE) /\ r.writer = "await" /\ policy' = policy
  BY <1>1 DEF NoReply
<1>3. r.reader = "none" /\ r.state \in {"connecting", "closed"}
  BY <1>1, <1>2 DEF IsStaffed
<1> QED
  BY <1>1, <1>2, <1>3, ConnectFailsInRole

\* Who reads a reply does not only accept; before an end that does, it was
\* registered all along.
LEMMA ReadReplyInRole == ASSUME SessionInv, Roles, NEW s \in Ids, ReadReply(s) PROVE Roles'
<1>1. PICK r, reply : r = sock[s] /\ reply = Head(wire[s])
  OBVIOUS
<1>2. /\ r \in Sockets /\ IsStaffed(r) /\ r.writer = "await" /\ wire[s] # <<>>
      /\ r.reader = "none" /\ r.state \in {"connecting", "closed"}
  BY <1>1, SocketOf DEF ReadReply, IsStaffed
<1>3. policy' = policy /\ InRole(policy, s, r, rank)
  BY <1>1 DEF ReadReply, Roles
<1>4. ~policy[s[1]].server
  BY <1>2, <1>3 DEF InRole, Serves
<1>5. ASSUME NEW v, sock' = [sock EXCEPT ![s] = v], rank' = rank,
             v.state \in {"open", "wait"}, v.reader # "accepting"
      PROVE  Roles'
  <2>1. Registers(s)
    BY <1>5 DEF Registers
  <2>2. InRole(policy, s, v, rank')
    BY <1>2, <1>3, <1>4, <1>5 DEF InRole, Calls
  <2> QED
    BY <1>3, <1>5, <2>1, <2>2, OneInRole
<1>6. CASE reply.tag = "ready"
  <2>1. PICK c, y, v : /\ c = NextSeq(r.cseq) /\ y = reply.lossy
                       /\ v = [r EXCEPT !.state = "open", !.cseq = c, !.lossy = y,
                                        !.writer = "loop", !.reader = "reading"]
    OBVIOUS
  <2>2. sock' = [sock EXCEPT ![s] = v] /\ rank' = rank
    BY <1>1, <1>6, <2>1 DEF ReadReply
  <2>3. v.state = "open" /\ v.reader = "reading"
    BY <1>2, <2>1 DEF Sockets
  <2> QED
    BY <1>5, <2>2, <2>3
<1>7. CASE reply.tag = "wait"
  <2>1. PICK v : v = [r EXCEPT !.state = "wait", !.writer = "loop"]
    OBVIOUS
  <2>2. sock' = [sock EXCEPT ![s] = v] /\ rank' = rank
    BY <1>1, <1>7, <2>1 DEF ReadReply
  <2>3. v.state = "wait" /\ v.reader = "none"
    BY <1>2, <2>1 DEF Sockets
  <2> QED
    BY <1>5, <2>2, <2>3
<1>8. CASE reply.tag = "retry"
  <2>1. PICK k : k = [r EXCEPT !.cseq = reply.cseq]
    OBVIOUS
  <2>2. ConnectFails(s, k, FALSE)
    BY <1>1, <1>8, <2>1 DEF ReadReply
  <2>3. reply.cseq \in Nat
    <3>1. wire[s] \in Seq(WireItems)
      BY WireLength
    <3>2. reply \in WireItems
      BY <1>1, <1>2, <3>1, HeadTailProperties
    <3> QED
      BY <1>8, <3>2 DEF WireItems, MsgItems, AckItems
  <2>4. k.reader = "none" /\ k.state = r.state /\ k.known = r.known /\ k \in Sockets
    BY <1>2, <2>1, <2>3 DEF Sockets
  <2> QED
    BY <1>1, <1>2, <1>3, <2>2, <2>4, ConnectFailsInRole
<1>9. CASE reply.tag = "resetsession"
  <2>1. PICK k, d : k = SessionReset(r) /\ d = Discarded(r)
    OBVIOUS
  <2>2. ConnectFails(s, k, TRUE)
    BY <1>1, <1>9, <2>1 DEF ReadReply
  <2>3. k \in Sockets /\ k.reader = r.reader /\ k.state = r.state
    BY <1>2, <2>1, SessionResetIsGood DEF IsSocket
  <2>4. d.known = r.known /\ DOMAIN d = DOMAIN r
    BY <1>2, <2>1 DEF Discarded, Sockets
  <2>5. k.known = r.known
    BY <1>2, <2>1, <2>4 DEF SessionReset, Sockets
  <2> QED
    BY <1>1, <1>2, <1>3, <2>2, <2>3, <2>5, ConnectFailsInRole
<1> QED
  BY <1>1, <1>6, <1>7, <1>8, <1>9 DEF ReadReply

\* accept_fail() at an end that only accepts leaves a socket in standby, or
\* closed.
LEMMA AcceptFailedRole ==
    ASSUME NEW r \in Sockets, NEW p, NEW again, NEW f, f = AcceptFailed(r, p, again)
    PROVE  /\ f.known = r.known /\ f.writer \in {"none", "loop"} /\ f.reader \in {"none", "standby"}
           /\ f.state \in {"closed", "standby", "connecting"}
           /\ f.state = "connecting" => f.reader = "none"
           /\ p.server => f.state # "connecting"
<1>1. PICK st, wr, q, g, h :
        /\ st = IF r.outq # <<>> THEN (IF p.server THEN "standby" ELSE "connecting")
                ELSE IF again THEN "standby" ELSE "closed"
        /\ wr = IF r.outq # <<>> \/ again THEN "loop" ELSE "none"
        /\ q = [r EXCEPT !.state = st] /\ g = Faulted(q, p, FALSE)
        /\ h = [g EXCEPT !.writer = wr]
  OBVIOUS
<1>2. f = ReaderLoops(h)
  BY <1>1 DEF AcceptFailed
<1>3. /\ st \in {"closed", "standby", "connecting"} /\ (p.server => st # "connecting")
      /\ wr \in {"none", "loop"}
  BY <1>1
<1>4. q \in Sockets /\ q.state = st /\ q.known = r.known
  BY <1>1, <1>3 DEF Sockets, States
<1>5. /\ g.known = q.known /\ g.state \in {"closed", "standby", "connecting"}
      /\ (p.server /\ g.state = "connecting") => q.state = "connecting"
      /\ DOMAIN g = DOMAIN q
  <2>1. PICK o : o = FALSE
    OBVIOUS
  <2>2. g = Faulted(q, p, o)
    BY <1>1, <2>1
  <2> QED
    BY <1>4, <2>2, FaultedRole
<1>6. h.known = g.known /\ h.state = g.state /\ h.writer = wr /\ DOMAIN h = DOMAIN r
  BY <1>1, <1>4, <1>5 DEF Sockets
<1>7. PICK d : /\ f = [h EXCEPT !.reader = d] /\ d \in {"none", "standby"}
               /\ h.state = "connecting" => d = "none"
  BY <1>2, <1>5, <1>6 DEF ReaderLoops
<1>8. f.known = h.known /\ f.state = h.state /\ f.writer = h.writer /\ f.reader = d
  BY <1>6, <1>7 DEF Sockets
<1> QED
  BY <1>3, <1>4, <1>5, <1>6, <1>7, <1>8

LEMMA AcceptLostInRole == ASSUME SessionInv, Roles, NEW b \in Ids, AcceptLost(b) PROVE Roles'
<1>1. PICK replaced, r, v :
        /\ r = sock[b] /\ v = AcceptFailed(r, LosslessClient, replaced)
        /\ sock' = [sock EXCEPT ![b] = v]
  BY DEF AcceptLost
<1>2. /\ r \in Sockets /\ r.reader = "accepting" /\ InRole(policy, b, r, rank)
      /\ rank' = rank /\ policy' = policy
  BY <1>1, SocketOf DEF AcceptLost, Roles
<1>3. /\ v.known = r.known /\ v.writer \in {"none", "loop"} /\ v.reader \in {"none", "standby"}
      /\ v.state \in {"closed", "standby", "connecting"}
      /\ v.state = "connecting" => v.reader = "none"
  BY <1>1, <1>2, AcceptFailedRole
<1>4. InRole(policy, b, v, rank')
  BY <1>2, <1>3 DEF InRole, Serves, Calls
<1>5. Registers(b)
  BY <1>2 DEF Registers
<1> QED
  BY <1>1, <1>2, <1>4, <1>5, OneInRole

\* Who accepts is not an end's that only connects.
LEMMA AcceptsFromCaller ==
    ASSUME Roles, NEW b \in Ids, AtConnect(b) PROVE ~policy[Peer(b[1])].server
BY DEF Roles, InRole, Calls, AtConnect

LEMMA AcceptNewInRole == ASSUME SessionInv, Roles, NEW b \in Ids, AcceptNew(b) PROVE Roles'
<1>1. PICK r, refused, v :
        /\ r = Identified(b) /\ refused = (Early(b) # <<>>)
        /\ v = IF refused THEN [r EXCEPT !.reader = "reading"] ELSE Opened(r, ConnectSeq(b))
  OBVIOUS
<1>2. /\ AtConnect(b) /\ sock' = [sock EXCEPT ![b] = v] /\ policy' = policy /\ Lookup(b[1]) = None
      /\ rank' = [rank EXCEPT ![b[1]] = IF refused THEN rank[b[1]] ELSE b]
  BY <1>1 DEF AcceptNew
<1>3. rank \in [Ends -> Ids \cup {None}] /\ \A t \in Ids : t[1] \in Ends
  BY DEF SessionInv, IsSession, Ids, SocketsOf, Ends
<1>4. Registers(b)
  <2>1. ASSUME NEW t \in Ids, t # b, rank[t[1]] = t PROVE rank'[t[1]] = t \/ sock[t].state = "closed"
    <3>1. CASE t[1] = b[1]
      BY <1>2, <2>1, <3>1, NoneIsNone DEF Lookup
    <3>2. CASE t[1] # b[1]
      BY <1>2, <1>3, <2>1, <3>2
    <3> QED
      BY <3>1, <3>2
  <2> QED
    BY <2>1 DEF Registers
<1>5. ~policy[Peer(b[1])].server
  BY <1>2, AcceptsFromCaller
<1>6. IsSocket(r) /\ r.state = "accepting" /\ r.writer = "none" /\ IsTail(r) /\ ConnectSeq(b) \in Nat
  BY <1>1, <1>2, IdentifiedIsGood
<1>7. CASE refused
  <2>1. v.reader = "reading" /\ v.writer = "none" /\ v.state = "accepting"
    BY <1>1, <1>6, <1>7 DEF IsSocket, Sockets
  <2>2. InRole(policy, b, v, rank')
    BY <1>5, <2>1 DEF InRole, Serves
  <2> QED
    BY <1>2, <1>4, <2>2, OneInRole
<1>8. CASE ~refused
  <2>1. v.reader = "reading" /\ v.writer = "loop" /\ v.state = "open"
    BY <1>1, <1>6, <1>8, OpenedIsGood
  <2>2. rank'[b[1]] = b
    BY <1>2, <1>3, <1>8
  <2>3. InRole(policy, b, v, rank')
    BY <1>5, <2>1, <2>2 DEF InRole, Serves
  <2> QED
    BY <1>2, <1>4, <2>3, OneInRole
<1> QED
  BY <1>7, <1>8

\* b took the place of the old socket, or of nobody, and is no caller's.
LEMMA ReplacesInRole ==
    ASSUME SessionInv, Roles, policy' = policy, NEW b \in Ids, AtConnect(b), Lookup(b[1]) # None,
           NEW q, NEW i, NEW k, NEW replies, Replaces(b, q, i, k, replies),
           q.writer \in {"none", "loop"}, q.reader # "accepting",
           policy[b[1]].server => q.state # "connecting"
    PROVE  Roles'
<1>1. PICK x, y, n : /\ x = rank[b[1]] /\ y = LeftOver(Old(b))
                     /\ n = IF q.lossy /\ q.state = "closed" THEN None ELSE b
  OBVIOUS
<1>2. sock' = [sock EXCEPT ![b] = q, ![x] = y] /\ rank' = [rank EXCEPT ![b[1]] = n]
  BY <1>1 DEF Replaces
<1>3. /\ x \in Ids /\ x # b /\ sock[x] \in Good /\ b[1] \in Ends
  BY <1>1, ReplacesAnother
<1>4. /\ rank \in [Ends -> Ids \cup {None}] /\ sock \in [Ids -> Good]
      /\ \A t \in Ids : t[1] \in Ends
      /\ rank[b[1]] \in SocketsOf(b[1]) \cup {None}
  BY <1>3 DEF SessionInv, IsSession, Ids, SocketsOf, Ends
<1>5. x[1] = b[1]
  BY <1>1, <1>3, <1>4, NoneIsNone DEF SocketsOf
<1>6. ~policy[Peer(b[1])].server
  BY AcceptsFromCaller
<1>7. y.state = "closed" /\ y.reader = sock[x].reader /\ y.writer = sock[x].writer
  <2>1. PICK r, old : r = sock[x] /\ old = Old(b) /\ r \in Good
    BY <1>3
  <2>2. old = r \/ old = SessionReset(r)
    BY <1>1, <2>1 DEF Old
  <2>3. IsSocket(old) /\ IsTail(old) /\ old.writer = r.writer /\ old.reader = r.reader
    <3>1. CASE old = r
      BY <2>1, <3>1 DEF Good, IsSocket
    <3>2. CASE old = SessionReset(r)
      BY <2>1, <3>2, SessionResetIsGood DEF Good, IsSocket
    <3> QED
      BY <2>2, <3>1, <3>2
  <2> QED
    BY <1>1, <2>1, <2>3, LeftOverIsGood
<1>8. q.state = "open" => rank'[b[1]] = b
  BY <1>1, <1>2, <1>3, <1>4
<1>9. InRole(policy, b, q, rank')
  BY <1>6, <1>8 DEF InRole, Serves
<1>10. InRole(policy, x, y, rank')
  <2>1. InRole(policy, x, sock[x], rank) /\ sock[x].reader # "accepting"
    BY <1>1, <1>3, ReplacesAnother DEF Roles
  <2> QED
    BY <1>5, <1>6, <1>7, <2>1 DEF InRole, Serves
<1>11. ASSUME NEW t \in Ids PROVE InRole(policy, t, sock'[t], rank')
  <2>1. CASE t = b
    BY <1>2, <1>3, <1>4, <1>9, <2>1
  <2>2. CASE t = x
    BY <1>2, <1>3, <1>4, <1>10, <2>2
  <2>3. CASE t # b /\ t # x
    <3>1. sock'[t] = sock[t] /\ InRole(policy, t, sock[t], rank)
      BY <1>2, <1>4, <2>3 DEF Roles
    <3>2. rank[t[1]] = t => rank'[t[1]] = t
      BY <1>1, <1>2, <1>4, <2>3
    <3>3. SameRole(sock[t], sock[t])
      BY DEF SameRole
    <3> QED
      BY <3>1, <3>2, <3>3, RoleKept
  <2> QED
    BY <2>1, <2>2, <2>3
<1> QED
  BY <1>11 DEF Roles

LEMMA AcceptExistingInRole ==
    ASSUME SessionInv, Roles, NEW b \in Ids, AcceptExisting(b) PROVE Roles'
<1>1. AtConnect(b) /\ Lookup(b[1]) # None /\ policy' = policy
  BY DEF AcceptExisting
<1>2. PICK zero, i, k, q, a : /\ q = Successor(b, zero) /\ Replaces(b, q, i, k, a)
  <2>1. PICK a : a = Append(Early(b), Ready(b))
    OBVIOUS
  <2>2. PICK zero, i, k, q : /\ q = Successor(b, zero)
                             /\ Replaces(b, q, i, k, Append(Early(b), Ready(b)))
    BY ExistingReplaces
  <2>3. Replaces(b, q, i, k, a)
    BY <2>1, <2>2
  <2> QED
    BY <2>2, <2>3
<1>3. q.state = "open" /\ q.reader = "reading" /\ q.writer = "loop"
  BY <1>1, <1>2, SuccessorMeets
<1> QED
  BY <1>1, <1>2, <1>3, ReplacesInRole

LEMMA AcceptFailsInRole ==
    ASSUME SessionInv, Roles, NEW b \in Ids, AcceptFails(b) PROVE Roles'
<1>1. AtConnect(b) /\ policy' = policy
  BY DEF AcceptFails
<1>2. PICK p : p = policy[b[1]]
  OBVIOUS
<1>3. ~policy[Peer(b[1])].server
  BY <1>1, AcceptsFromCaller
<1>4. /\ rank \in [Ends -> Ids \cup {None}] /\ sock \in [Ids -> Good]
      /\ \A t \in Ids : t[1] \in Ends
  BY DEF SessionInv, IsSession, Ids, SocketsOf, Ends
<1>5. CASE /\ Lookup(b[1]) = None \/ Early(b) # <<>>
           /\ \E replaced \in BOOLEAN :
                LET r == IF Early(b) # <<>> THEN Identified(b)
                         ELSE Opened(Identified(b), ConnectSeq(b))
                    q == AcceptFailed(r, policy[b[1]], replaced)
                IN  /\ sock' = [sock EXCEPT ![b] = q]
                    /\ rank' = [rank EXCEPT ![b[1]] =
                          IF Early(b) # <<>> \/ (q.lossy /\ q.state = "closed" /\ replaced)
                          THEN @ ELSE b]
  <2>1. PICK replaced, r, q, stays :
          /\ r = IF Early(b) # <<>> THEN Identified(b) ELSE Opened(Identified(b), ConnectSeq(b))
          /\ q = AcceptFailed(r, p, replaced)
          /\ Early(b) # <<>> => stays
          /\ sock' = [sock EXCEPT ![b] = q]
          /\ rank' = [rank EXCEPT ![b[1]] = IF stays THEN rank[b[1]] ELSE b]
    BY <1>2, <1>5
  <2>2. r \in Sockets
    <3>1. IsSocket(Identified(b)) /\ IsTail(Identified(b)) /\ ConnectSeq(b) \in Nat
      BY <1>1, IdentifiedIsGood
    <3> QED
      BY <2>1, <3>1, OpenedIsGood DEF IsSocket
  <2>3. /\ q.writer \in {"none", "loop"} /\ q.reader \in {"none", "standby"}
        /\ q.state \in {"closed", "standby", "connecting"} /\ (p.server => q.state # "connecting")
    BY <2>1, <2>2, AcceptFailedRole
  <2>4. Registers(b)
    <3>1. ASSUME NEW t \in Ids, t # b, rank[t[1]] = t PROVE rank'[t[1]] = t \/ sock[t].state = "closed"
      <4>1. CASE t[1] = b[1] /\ ~stays
        BY <1>5, <2>1, <3>1, <4>1, NoneIsNone DEF Lookup
      <4>2. CASE t[1] # b[1] \/ stays
        BY <1>4, <2>1, <3>1, <4>2
      <4> QED
        BY <4>1, <4>2
    <3> QED
      BY <3>1 DEF Registers
  <2>5. InRole(policy, b, q, rank')
    BY <1>2, <1>3, <2>3 DEF InRole, Serves
  <2> QED
    BY <1>1, <2>1, <2>4, <2>5, OneInRole
<1>6. CASE /\ Lookup(b[1]) # None
           /\ Replace(b, LAMBDA r : AcceptFailed(r, policy[b[1]], TRUE), <<>>)
  <2>1. PICK zero, i, k, q, o, a :
          /\ o = Successor(b, zero) /\ q = AcceptFailed(o, p, TRUE) /\ Replaces(b, q, i, k, a)
    <3>1. PICK zero, i, k, q : /\ q = AcceptFailed(Successor(b, zero), policy[b[1]], TRUE)
                               /\ Replaces(b, q, i, k, <<>>)
      BY <1>6, FailsReplaces
    <3>2. PICK o, a : o = Successor(b, zero) /\ a = <<>>
      OBVIOUS
    <3>3. q = AcceptFailed(o, p, TRUE) /\ Replaces(b, q, i, k, a)
      BY <1>2, <3>1, <3>2
    <3> QED
      BY <3>2, <3>3
  <2>2. o \in Sockets
    BY <1>1, <1>6, <2>1, SuccessorMeets DEF IsSocket
  <2>3. /\ q.writer \in {"none", "loop"} /\ q.reader \in {"none", "standby"}
        /\ (p.server => q.state # "connecting")
    BY <2>1, <2>2, AcceptFailedRole
  <2> QED
    BY <1>1, <1>2, <1>6, <2>1, <2>3, ReplacesInRole
<1> QED
  BY <1>5, <1>6 DEF AcceptFails

RolesInv == SessionInv /\ Roles

LEMMA StartsInRole == Init => RolesInv
<1> SUFFICES ASSUME Init PROVE RolesInv
  OBVIOUS
<1>1. SessionInv
  BY StartsQuiet
<1>2. Free.state = "free" /\ Free.writer = "none" /\ Free.reader = "none"
  BY DEF Free, NewSocket
<1>3. Roles
  BY <1>2 DEF Init, Roles, InRole, Serves, Calls
<1> QED
  BY <1>1, <1>3 DEF RolesInv

LEMMA StepKeepsRoles == ASSUME MarkDowns = FALSE, RolesInv, [Next]_vars PROVE RolesInv'
<1>1. SessionInv /\ Roles /\ SessionInv'
  BY StepKeeps DEF RolesInv
<1>2. CASE UNCHANGED vars
  BY <1>1, <1>2 DEF vars, Roles, RolesInv
<1>3. ASSUME NEW e \in Ends, Send(e) \/ SendFirst(e) \/ MarkDown(e) PROVE Roles'
  BY <1>1, <1>3, SendInRole, SendFirstInRole DEF MarkDown
<1>4. ASSUME NEW s \in Ids, Writer(s) PROVE Roles'
  <2>1. CASE \/ WriterLeavesStandby(s) \/ JoinReader(s) \/ TakeAck(s) \/ TakeMessage(s)
             \/ AckWritten(s) \/ WriterExits(s)
    BY <1>1, <2>1, WriterMovesInRole
  <2>2. CASE Connect(s) \/ ReadReply(s) \/ NoReply(s) \/ WriteOut(s) \/ WriteFails(s)
    BY <1>1, <2>2, ConnectInRole, ReadReplyInRole, NoReplyInRole, WriteOutInRole, WriteFailsInRole
  <2> QED
    BY <1>4, <2>1, <2>2 DEF Writer
<1>5. ASSUME NEW s \in Ids, Reader(s) PROVE Roles'
  <2>1. CASE AcceptNew(s) \/ AcceptExisting(s) \/ AcceptFails(s) \/ AcceptLost(s)
    BY <1>1, <2>1, AcceptNewInRole, AcceptExistingInRole, AcceptFailsInRole, AcceptLostInRole
  <2>2. CASE ReadMessage(s) \/ ReadAck(s) \/ ReaderWakes(s) \/ ReadFails(s)
    BY <1>1, <2>2, ReaderMovesInRole, ReadFailsInRole
  <2> QED
    BY <1>5, <2>1, <2>2 DEF Reader
<1>6. ASSUME NEW s \in Ids, Deliver(s) \/ Reap(s) \/ Break(s) PROVE Roles'
  <2>1. CASE Break(s)
    BY <1>1, <2>1 DEF Break, Roles
  <2> QED
    BY <1>1, <1>6, <2>1, DeliverInRole, ReapInRole
<1>7. Roles'
  BY <1>1, <1>2, <1>3, <1>4, <1>5, <1>6 DEF Next, Runs, RolesInv
<1> QED
  BY <1>1, <1>7 DEF RolesInv

LEMMA RolesRegister == RolesInv => OpenIsRegistered
<1> SUFFICES ASSUME RolesInv, NEW e \in Ends, policy[e].server,
                    NEW s \in Ids, sock[s].state = "open"
             PROVE  rank[s[1]] = s
  BY DEF OpenIsRegistered
<1>1. InRole(policy, s, sock[s], rank)
  BY DEF RolesInv, Roles
<1>2. e = s[1] \/ e = Peer(s[1])
  BY DEF Ids, SocketsOf, Ends, Peer
<1> QED
  BY <1>1, <1>2 DEF InRole, Serves, Calls

\* Between an end that connects and one that only accepts, as long as nobody
\* calls mark_down(), the socket that carries the session is the registered one
\* on either side: replace_socket() stops the old socket in the step in which
\* it registers the new one, a socket that accept_fail() leaves connecting at
\* the accepting end cannot connect, as it does not know its peer, and on the
\* other side nobody stops a socket whose connecting() waits for its reader.
THEOREM OpenOneIsRegistered ==
    ASSUME MarkDowns = FALSE
    PROVE  Spec => []OpenIsRegistered
<1>1. Init => RolesInv
  BY StartsInRole
<1>2. RolesInv /\ [Next]_vars => RolesInv'
  BY StepKeepsRoles
<1>3. RolesInv => OpenIsRegistered
  BY RolesRegister
<1> QED
  BY <1>1, <1>2, <1>3, PTL DEF Spec

-----------------------------------------------------------------------------
(* An end that only connects and one that only accepts take turns           *)

Even(n) == n % 2 = 0

LEMMA Turned ==
    ASSUME SeqMod % 2 = 0, NEW c \in Nat
    PROVE  NextSeq(c) \in Nat /\ (Even(NextSeq(c)) <=> ~Even(c))
<1>1. SeqMod \in Nat \ {0}
  BY SessionAssumption
<1>2. PICK h \in Int : SeqMod = 2 * h
  BY <1>1
<1>3. PICK k \in Int, n \in Nat : n = (c + 1) % SeqMod /\ c + 1 = SeqMod * k + n
  BY <1>1
<1>4. PICK j \in Int : j = h * k
  OBVIOUS
<1>5. SeqMod * k = 2 * j
  BY <1>2, <1>4
<1>6. c + 1 = 2 * j + n
  BY <1>3, <1>5
<1>7. n % 2 = 0 <=> c % 2 # 0
  BY <1>6
<1> QED
  BY <1>3, <1>7 DEF NextSeq, Even

\* One end only accepts, and its peer only connects and never waits in standby.
Serving(p, e) == p[e].server /\ ~p[Peer(e)].server /\ ~p[Peer(e)].standby

\* The sockets of who only accepts: none ever connects, and the registered one
\* has an odd connect_seq.
Waits(r, registered) ==
    /\ r.writer \notin {"join", "await"}
    /\ r.state = "connecting" => ~r.known /\ r.reader = "none"
    /\ r.reader = "accepting" => ~r.known
    /\ registered /\ r.state # "closed" => ~Even(r.cseq)

\* ... and of who only connects: it comes with an even connect_seq, and has an
\* odd one while it is open.
Asks(r) ==
    /\ r.reader # "accepting"
    /\ r.state \notin {"accepting", "standby", "wait"}
    /\ r.state = "connecting" \/ r.writer \in {"join", "await"} => Even(r.cseq)
    /\ r.state = "open" => ~Even(r.cseq)

TurnItems ==
    {x \in WireItems : x.tag # "wait" /\ (x.tag \in {"connect", "retry"} => Even(x.cseq))}

InTurn(e, s, r, rk) ==
    /\ s[1] = e => Waits(r, rk[e] = s)
    /\ s[1] # e => Asks(r)
Turns(e) ==
    /\ \A s \in Ids : InTurn(e, s, sock[s], rank)
    /\ wire \in [Ids -> Seq(TurnItems)]

LEMMA TurnKept ==
    ASSUME NEW e, NEW s, NEW r, NEW rk, InTurn(e, s, r, rk),
           NEW v, SameRole(v, r), v.cseq = r.cseq,
           NEW rk2, rk2[e] = s => rk[e] = s
    PROVE  InTurn(e, s, v, rk2)
<1>1. ASSUME s[1] = e PROVE Waits(v, rk2[e] = s)
  BY <1>1 DEF InTurn, Waits, SameRole
<1>2. ASSUME s[1] # e PROVE Asks(v)
  BY <1>2 DEF InTurn, Asks, SameRole
<1> QED
  BY <1>1, <1>2 DEF InTurn

\* A step that registers nobody else.
Keeps(e, s) == \A t \in Ids : t # s /\ rank'[e] = t => rank[e] = t

\* A step of one socket.
LEMMA OneTurns ==
    ASSUME SessionInv, NEW e, Turns(e), NEW s \in Ids, Keeps(e, s),
           NEW v, sock' = [sock EXCEPT ![s] = v], InTurn(e, s, v, rank'),
           wire' \in [Ids -> Seq(TurnItems)]
    PROVE  Turns(e)'
<1>1. sock \in [Ids -> Good]
  BY DEF SessionInv, IsSession
<1>2. ASSUME NEW t \in Ids PROVE InTurn(e, t, sock'[t], rank')
  <2>1. CASE t = s
    BY <1>1, <2>1
  <2>2. CASE t # s
    <3>1. sock'[t] = sock[t] /\ InTurn(e, t, sock[t], rank)
      BY <1>1, <2>2 DEF Turns
    <3>2. SameRole(sock[t], sock[t])
      BY DEF SameRole
    <3>3. rank'[e] = t => rank[e] = t
      BY <2>2 DEF Keeps
    <3> QED
      BY <3>1, <3>2, <3>3, TurnKept
  <2> QED
    BY <2>1, <2>2
<1> QED
  BY <1>2 DEF Turns

LEMMA SameTurns ==
    ASSUME SessionInv, NEW e, Turns(e), rank' = rank, NEW s \in Ids,
           NEW v, sock' = [sock EXCEPT ![s] = v], SameRole(v, sock[s]), v.cseq = sock[s].cseq,
           wire' \in [Ids -> Seq(TurnItems)]
    PROVE  Turns(e)'
<1>1. Keeps(e, s)
  BY DEF Keeps
<1>2. InTurn(e, s, sock[s], rank)
  BY DEF Turns
<1>3. InTurn(e, s, v, rank')
  BY <1>2, TurnKept
<1> QED
  BY <1>1, <1>3, OneTurns

LEMMA ShutdownTurns ==
    ASSUME SessionInv, wire \in [Ids -> Seq(TurnItems)], NEW s \in Ids, Shutdown(s)
    PROVE  wire' \in [Ids -> Seq(TurnItems)]
<1>1. PICK i \in InHand(s), k \in Arrived(s) : Cut(s, i, k)
  BY DEF Shutdown
<1>2. i \in 0..Len(wire[s]) /\ IF link[s] = None THEN k = 0 ELSE k \in 0..Len(wire[link[s]])
  BY <1>1, CutBounds DEF SessionInv
<1>3. ASSUME NEW t \in Ids PROVE wire'[t] \in Seq(TurnItems)
  <2>1. CASE t = s
    <3>1. wire'[s] = SubSeq(wire[s], 1, i)
      BY <1>1 DEF Cut
    <3> QED
      BY <1>2, <2>1, <3>1, Beginning
  <2>2. CASE t # s /\ t = link[s]
    <3>1. k \in 0..Len(wire[t]) /\ wire'[t] = SubSeq(wire[t], 1, k)
      BY <1>1, <1>2, <2>2, NoneIsNone DEF Cut
    <3> QED
      BY <3>1, Beginning
  <2>3. CASE t # s /\ t # link[s]
    <3>1. wire'[t] = wire[t]
      BY <1>1, <2>3 DEF Cut
    <3> QED
      BY <3>1
  <2> QED
    BY <2>1, <2>2, <2>3
<1>4. wire' = [t \in Ids |-> wire'[t]]
  BY <1>1 DEF Cut
<1> QED
  BY <1>3, <1>4

LEMMA SendTurns == ASSUME SessionInv, NEW e, Turns(e), NEW c \in Ends, Send(c) PROVE Turns(e)'
<1>1. PICK s, v : s = rank[c] /\ v = [sock[s] EXCEPT !.outq = Append(sock[s].outq, handed[c] + 1)]
  OBVIOUS
<1>2. s \in Ids /\ sock' = [sock EXCEPT ![s] = v] /\ rank' = rank /\ wire' = wire
  BY <1>1, RegisteredIsUsed DEF Send, Lookup, SessionInv
<1>3. SameRole(v, sock[s]) /\ v.cseq = sock[s].cseq
  BY <1>1, <1>2, SocketOf DEF SameRole, Sockets
<1> QED
  BY <1>2, <1>3, SameTurns DEF Turns

\* Only the end that connects makes a socket; its connect_seq is 0.
LEMMA SendFirstTurns ==
    ASSUME SessionInv, NEW e, Turns(e), policy[e].server, NEW c \in Ends, SendFirst(c)
    PROVE  Turns(e)'
<1>1. PICK s \in FreeSocket(c) :
        /\ sock' = [sock EXCEPT ![s] = [NewSocket("connecting") EXCEPT !.known = TRUE,
                                                !.lossy = policy[c].lossy,
                                                !.outq = <<handed[c] + 1>>,
                                                !.writer = "loop"]]
        /\ rank' = [rank EXCEPT ![c] = s]
  BY DEF SendFirst
<1>2. PICK v : v = [NewSocket("connecting") EXCEPT !.known = TRUE,
                                                !.lossy = policy[c].lossy,
                                                !.outq = <<handed[c] + 1>>,
                                                !.writer = "loop"]
  OBVIOUS
<1>3. v.reader = "none" /\ v.state = "connecting" /\ v.writer = "loop" /\ v.cseq = 0
  BY <1>2 DEF NewSocket
<1>4. s \in Ids /\ s[1] = c
  BY DEF FreeSocket, Ids, SocketsOf, Ends
<1>5. c # e /\ wire' = wire
  BY DEF SendFirst
<1>6. rank'[e] = rank[e]
  BY <1>1, <1>5 DEF SessionInv, IsSession
<1>7. Keeps(e, s)
  BY <1>6 DEF Keeps
<1>8. InTurn(e, s, v, rank')
  <2>1. Even(v.cseq)
    BY <1>3 DEF Even
  <2> QED
    BY <1>3, <1>4, <1>5, <2>1 DEF InTurn, Asks
<1>9. sock' = [sock EXCEPT ![s] = v]
  BY <1>1, <1>2
<1> QED
  BY <1>4, <1>5, <1>7, <1>8, <1>9, OneTurns DEF Turns

\* A socket that is stopped may still connect, with the connect_seq it had.
LEMMA MarkDownTurns ==
    ASSUME SessionInv, NEW e, Turns(e), NEW c \in Ends, MarkDown(c)
    PROVE  Turns(e)'
<1>1. PICK s, v : s = rank[c] /\ v = [sock[s] EXCEPT !.state = "closed"]
  OBVIOUS
<1>2. s \in Ids /\ sock' = [sock EXCEPT ![s] = v] /\ Shutdown(s)
  BY <1>1, RegisteredIsUsed DEF MarkDown, Lookup, SessionInv
<1>3. rank' = [rank EXCEPT ![c] = None] /\ rank \in [Ends -> Ids \cup {None}]
  BY DEF MarkDown, SessionInv, IsSession
<1>4. Keeps(e, s)
  <2>1. ASSUME NEW t \in Ids, rank'[e] = t PROVE rank[e] = t
    BY <1>3, <2>1, NoneIsNone
  <2> QED
    BY <2>1 DEF Keeps
<1>5. /\ v.state = "closed" /\ v.reader = sock[s].reader /\ v.writer = sock[s].writer
      /\ v.known = sock[s].known /\ v.cseq = sock[s].cseq
  BY <1>1, <1>2, SocketOf DEF Sockets
<1>6. InTurn(e, s, sock[s], rank)
  BY <1>2 DEF Turns
<1>7. InTurn(e, s, v, rank')
  BY <1>5, <1>6 DEF InTurn, Waits, Asks
<1>8. wire' \in [Ids -> Seq(TurnItems)]
  BY <1>2, ShutdownTurns DEF Turns
<1> QED
  BY <1>2, <1>4, <1>7, <1>8, OneTurns

\* Who only accepts does not leave standby, and has no writer that connects.
LEMMA WriterMovesTurns ==
    ASSUME SessionInv, NEW e, Turns(e), policy[e].server, NEW s \in Ids,
           \/ WriterLeavesStandby(s) \/ JoinReader(s) \/ TakeAck(s) \/ TakeMessage(s)
           \/ AckWritten(s) \/ WriterExits(s)
    PROVE  Turns(e)'
<1>1. rank' = rank /\ wire' = wire
  BY DEF WriterLeavesStandby, JoinReader, TakeAck, TakeMessage, AckWritten, WriterExits
<1>2. PICK r : r = sock[s] /\ r \in Sockets /\ InTurn(e, s, r, rank)
  BY SocketOf DEF Turns
<1>3. Keeps(e, s) /\ wire' \in [Ids -> Seq(TurnItems)]
  BY <1>1 DEF Keeps, Turns
<1>4. ~WriterLeavesStandby(s)
  BY <1>2 DEF WriterLeavesStandby, InTurn, Asks
<1>5. CASE JoinReader(s)
  <2>1. PICK v : v = [r EXCEPT !.writer = "join"]
    OBVIOUS
  <2>2. /\ sock' = [sock EXCEPT ![s] = v] /\ r.state = "connecting" /\ r.reader # "none"
    BY <1>2, <1>5, <2>1 DEF JoinReader
  <2>3. v.state = "connecting" /\ v.reader = r.reader /\ v.cseq = r.cseq
    BY <1>2, <2>1, <2>2 DEF Sockets
  <2>4. s[1] # e
    BY <1>2, <2>2 DEF InTurn, Waits
  <2>5. InTurn(e, s, v, rank')
    BY <1>2, <2>2, <2>3, <2>4 DEF InTurn, Asks
  <2> QED
    BY <1>3, <2>2, <2>5, OneTurns
<1>6. CASE ~JoinReader(s)
  <2>1. PICK v : sock' = [sock EXCEPT ![s] = v] /\ SameRole(v, sock[s]) /\ v.cseq = sock[s].cseq
    BY <1>4, <1>6, WriterMoves
  <2> QED
    BY <1>1, <1>3, <2>1, SameTurns
<1> QED
  BY <1>5, <1>6

LEMMA TailTurns ==
    ASSUME SessionInv, wire \in [Ids -> Seq(TurnItems)], NEW s \in Ids, wire[s] # <<>>
    PROVE  /\ Head(wire[s]) \in TurnItems
           /\ [wire EXCEPT ![s] = Tail(wire[s])] \in [Ids -> Seq(TurnItems)]
<1>1. Head(wire[s]) \in TurnItems /\ Tail(wire[s]) \in Seq(TurnItems)
  BY HeadTailProperties
<1> QED
  BY <1>1

LEMMA ReaderMovesTurns ==
    ASSUME SessionInv, NEW e, Turns(e), NEW s \in Ids,
           ReadMessage(s) \/ ReadAck(s) \/ ReaderWakes(s)
    PROVE  Turns(e)'
<1>1. PICK v : sock' = [sock EXCEPT ![s] = v] /\ SameRole(v, sock[s]) /\ v.cseq = sock[s].cseq
  BY ReaderMoves
<1>2. rank' = rank
  BY DEF ReadMessage, ReadAck, ReaderWakes
<1>3. wire' \in [Ids -> Seq(TurnItems)]
  <2>1. wire' = wire \/ (wire[s] # <<>> /\ wire' = [wire EXCEPT ![s] = Tail(wire[s])])
    BY DEF ReadMessage, ReadAck, ReaderWakes
  <2> QED
    BY <2>1, TailTurns DEF Turns
<1> QED
  BY <1>1, <1>2, <1>3, SameTurns

LEMMA WriteOutTurns ==
    ASSUME SessionInv, NEW e, Turns(e), NEW s \in Ids, WriteOut(s) PROVE Turns(e)'
<1>1. PICK v, t, o :
        /\ v = [sock[s] EXCEPT !.writer = IF sock[s].writer = "acking" THEN "acked" ELSE "loop",
                               !.out = IF sock[s].writer = "acking" THEN sock[s].out ELSE NoItem]
        /\ t = link[s] /\ o = sock[s].out
  OBVIOUS
<1>2. /\ sock' = [sock EXCEPT ![s] = v] /\ rank' = rank /\ t # None
      /\ wire' = [wire EXCEPT ![t] = wire[t] \o <<o>>] /\ sock[s].writer \in {"writing", "acking"}
  BY <1>1 DEF WriteOut, Write
<1>3. SameRole(v, sock[s]) /\ v.cseq = sock[s].cseq
  BY <1>1, SocketOf DEF SameRole, Sockets
<1>4. wire' \in [Ids -> Seq(TurnItems)]
  <2>1. o \in MsgItems \cup AckItems
    BY <1>1, <1>2, SocketOf DEF IsStaffed
  <2>2. o \in TurnItems
    BY <2>1 DEF TurnItems, WireItems, MsgItems, AckItems
  <2>3. <<o>> \in Seq(TurnItems)
    BY <2>2
  <2>4. t \in Ids /\ wire[t] \in Seq(TurnItems)
    BY <1>1, <1>2 DEF SessionInv, IsSession, Turns
  <2>5. wire[t] \o <<o>> \in Seq(TurnItems)
    BY <2>3, <2>4, ConcatProperties
  <2> QED
    BY <1>2, <2>5 DEF Turns
<1> QED
  BY <1>2, <1>3, <1>4, SameTurns

LEMMA DeliverTurns ==
    ASSUME SessionInv, NEW e, Turns(e), NEW s \in Ids, Deliver(s) PROVE Turns(e)'
<1>1. PICK v : v = [sock[s] EXCEPT !.inq = Tail(sock[s].inq)]
  OBVIOUS
<1>2. sock' = [sock EXCEPT ![s] = v] /\ rank' = rank /\ wire' = wire
  BY <1>1 DEF Deliver
<1>3. SameRole(v, sock[s]) /\ v.cseq = sock[s].cseq
  BY <1>1, SocketOf DEF SameRole, Sockets
<1> QED
  BY <1>2, <1>3, SameTurns DEF Turns

LEMMA ReapTurns == ASSUME SessionInv, NEW e \in Ends, Turns(e), NEW s \in Ids, Reap(s) PROVE Turns(e)'
<1>1. /\ sock' = [sock EXCEPT ![s] = Free] /\ Shutdown(s)
      /\ rank' = [rank EXCEPT ![s[1]] = IF rank[s[1]] = s THEN None ELSE rank[s[1]]]
  BY DEF Reap
<1>2. rank \in [Ends -> Ids \cup {None}] /\ s[1] \in Ends
  BY DEF SessionInv, IsSession, Ids, SocketsOf, Ends
<1>3. Keeps(e, s)
  BY <1>1, <1>2, NoneIsNone DEF Keeps
<1>4. s[1] = e => rank'[e] # s
  BY <1>1, <1>2, NoneIsNone
<1>5. Free.state = "free" /\ Free.writer = "none" /\ Free.reader = "none"
  BY DEF Free, NewSocket
<1>6. InTurn(e, s, Free, rank')
  BY <1>4, <1>5 DEF InTurn, Waits, Asks
<1>7. wire' \in [Ids -> Seq(TurnItems)]
  BY <1>1, ShutdownTurns DEF Turns
<1> QED
  BY <1>1, <1>3, <1>6, <1>7, OneTurns

LEMMA BreakTurns == ASSUME SessionInv, NEW e, Turns(e), NEW s \in Ids, Break(s) PROVE Turns(e)'
<1>1. PICK t : t = link[s] /\ t \in Ids /\ t # s
  BY LinkedBack DEF Break
<1>2. PICK i \in 0..Len(wire[s]), j \in 0..Len(wire[t]) :
        wire' = [wire EXCEPT ![s] = SubSeq(wire[s], 1, i), ![t] = SubSeq(wire[t], 1, j)]
  BY <1>1 DEF Break, SessionInv, IsSession
<1>3. wire[s] \in Seq(TurnItems) /\ wire[t] \in Seq(TurnItems)
  BY <1>1 DEF Turns
<1>4. SubSeq(wire[s], 1, i) \in Seq(TurnItems) /\ SubSeq(wire[t], 1, j) \in Seq(TurnItems)
  BY <1>2, <1>3, Beginning
<1>5. wire' \in [Ids -> Seq(TurnItems)]
  BY <1>1, <1>2, <1>4 DEF Turns
<1>6. sock' = sock /\ rank' = rank
  BY DEF Break
<1> QED
  BY <1>5, <1>6 DEF Turns

\* Who only accepts does not connect; the new socket is one of its.
LEMMA ConnectTurns ==
    ASSUME SessionInv, NEW e \in Ends, Turns(e), NEW s \in Ids, Connect(s)
    PROVE  Turns(e)'
<1>1. PICK b \in FreeSocket(Peer(s[1])) :
        /\ sock' = [sock EXCEPT ![s].writer = "await",
                                ![b] = [NewSocket("accepting") EXCEPT !.reader = "accepting"]]
        /\ wire' = [wire EXCEPT ![b] = <<[tag |-> "connect", cseq |-> sock[s].cseq]>>]
  BY DEF Connect
<1>2. PICK r, q, v, x : /\ r = sock[s] /\ v = [r EXCEPT !.writer = "await"]
                        /\ q = [NewSocket("accepting") EXCEPT !.reader = "accepting"]
                        /\ x = [tag |-> "connect", cseq |-> r.cseq]
  OBVIOUS
<1>3. /\ r \in Sockets /\ IsStaffed(r) /\ r.reader = "none" /\ r.known
      /\ (r.writer = "loop" /\ r.state = "connecting") \/ r.writer = "join"
  BY <1>2, SocketOf DEF Connect
<1>4. InTurn(e, s, r, rank) /\ s[1] \in Ends /\ rank' = rank
  BY <1>2 DEF Turns, Ids, SocketsOf, Ends, Connect
<1>5. s[1] # e
  BY <1>3, <1>4 DEF InTurn, Waits
<1>6. b \in Ids /\ b[1] = e /\ b # s /\ sock[b].state = "free"
  BY <1>4, <1>5 DEF FreeSocket, Ids, SocketsOf, Peer, Ends
<1>7. rank[e] # b
  <2>1. b \notin {rank[1], rank[2]}
    BY <1>6, SocketOf DEF IsPlaced
  <2> QED
    BY <2>1 DEF Ends
<1>8. v.writer = "await" /\ v.reader = "none" /\ v.state = r.state /\ v.cseq = r.cseq
  BY <1>2, <1>3 DEF Sockets
<1>9. q.reader = "accepting" /\ q.writer = "none" /\ q.state = "accepting" /\ ~q.known
  BY <1>2 DEF NewSocket
<1>10. Even(r.cseq) /\ r.cseq \in Nat
  BY <1>3, <1>4, <1>5 DEF InTurn, Asks, Sockets
<1>11. InTurn(e, s, v, rank)
  BY <1>3, <1>4, <1>5, <1>8, <1>10 DEF InTurn, Asks
<1>12. InTurn(e, b, q, rank)
  BY <1>6, <1>7, <1>9 DEF InTurn, Waits
<1>13. ASSUME NEW t \in Ids PROVE InTurn(e, t, sock'[t], rank)
  <2>1. sock' = [sock EXCEPT ![s] = v, ![b] = q] /\ sock \in [Ids -> Good]
    BY <1>1, <1>2 DEF SessionInv, IsSession
  <2>2. CASE t = b
    BY <1>6, <1>12, <2>1, <2>2
  <2>3. CASE t = s
    BY <1>6, <1>11, <2>1, <2>3
  <2>4. CASE t # b /\ t # s
    BY <2>1, <2>4 DEF Turns
  <2> QED
    BY <2>2, <2>3, <2>4
<1>14. wire' \in [Ids -> Seq(TurnItems)]
  <2>1. x \in TurnItems
    <3>1. x \in WireItems
      BY <1>2, <1>10 DEF WireItems
    <3> QED
      BY <1>2, <1>10, <3>1 DEF TurnItems
  <2>2. <<x>> \in Seq(TurnItems)
    BY <2>1
  <2>3. wire' = [wire EXCEPT ![b] = <<x>>]
    BY <1>1, <1>2
  <2> QED
    BY <2>2, <2>3 DEF Turns
<1> QED
  BY <1>4, <1>13, <1>14 DEF Turns

\* fault() changes the connect_seq of a socket that was connected and connects
\* again.
LEMMA FaultedTurns ==
    ASSUME NEW r \in Sockets, NEW p, NEW onread, NEW f, f = Faulted(r, p, onread)
    PROVE  /\ \/ f.cseq = r.cseq
              \/ /\ f.cseq = NextSeq(r.cseq) /\ ~p.server
                 /\ f.state = "connecting" /\ r.state \notin {"connecting", "closed"}
           /\ ~p.standby /\ ~p.server =>
                 /\ r.state \in {"connecting", "closed"} => f.state = r.state
                 /\ \/ r.state \in {"connecting", "closed"} \/ f.state = "closed"
                    \/ f.state = "connecting" /\ f.cseq = NextSeq(r.cseq)
<1>1. CASE Ignored(r, onread)
  <2>1. f = r /\ r.state \in {"connecting", "closed"}
    BY <1>1 DEF Faulted, Ignored
  <2> QED
    BY <2>1
<1>2. CASE ~Ignored(r, onread) /\ Drops(r, onread)
  <2>1. f = [Discarded(r) EXCEPT !.state = "closed"] /\ r.state \notin {"connecting", "closed"}
    BY <1>2 DEF Faulted, Drops, Ignored
  <2>2. f.cseq = r.cseq /\ f.state = "closed"
    BY <2>1 DEF Discarded, Sockets
  <2> QED
    BY <2>1, <2>2
<1>3. CASE ~Ignored(r, onread) /\ ~Drops(r, onread)
  <2>1. PICK d : d = Requeued(r)
    OBVIOUS
  <2>2. PICK a, l, n : d = [r EXCEPT !.outq = a, !.sent = l, !.outSeq = n]
    BY <2>1 DEF Requeued
  <2>3. d.cseq = r.cseq /\ d.state = r.state /\ DOMAIN d = DOMAIN r
    BY <2>2 DEF Sockets
  <2>4. r.state # "closed"
    BY <1>3 DEF Ignored
  <2>5. f = Resumed(d, p)
    BY <1>3, <2>1 DEF Faulted
  <2>6. \/ f = [d EXCEPT !.state = "standby"] /\ (p.standby \/ p.server)
        \/ f = d /\ d.state = "connecting"
        \/ /\ f = [d EXCEPT !.state = "connecting", !.cseq = NextSeq(d.cseq)]
           /\ ~p.server /\ d.state # "connecting"
    BY <2>5 DEF Resumed
  <2>7. CASE f = [d EXCEPT !.state = "standby"] /\ (p.standby \/ p.server)
    <3>1. f.cseq = d.cseq
      BY <2>7
    <3> QED
      BY <2>3, <2>7, <3>1
  <2>8. CASE f = d /\ d.state = "connecting"
    BY <2>3, <2>8
  <2>9. CASE /\ f = [d EXCEPT !.state = "connecting", !.cseq = NextSeq(d.cseq)]
             /\ ~p.server /\ d.state # "connecting"
    <3>1. f.state = "connecting" /\ f.cseq = NextSeq(d.cseq)
      BY <2>3, <2>9 DEF Sockets
    <3> QED
      BY <2>3, <2>4, <2>9, <3>1
  <2> QED
    BY <2>6, <2>7, <2>8, <2>9
<1> QED
  BY <1>1, <1>2, <1>3

LEMMA FaultTurns ==
    ASSUME SessionInv, SeqMod % 2 = 0, NEW e \in Ends, Serving(policy, e), Turns(e),
           NEW s \in Ids, NEW r \in Sockets, NEW onread \in BOOLEAN, NEW reset,
           Fault(s, r, onread, reset), InTurn(e, s, r, rank), r.state # "free",
           onread => r.reader = "reading",
           r.writer \in {"join", "await"} => r.state \in {"connecting", "closed"}
    PROVE  Turns(e)'
<1>1. PICK f, v, p : /\ p = policy[s[1]] /\ f = Faulted(r, p, onread)
                     /\ v = IF onread THEN ReaderLoops(f) ELSE f
  OBVIOUS
<1>2. /\ sock' = [sock EXCEPT ![s] = v]
      /\ rank' = [rank EXCEPT ![s[1]] = IF Drops(r, onread) /\ rank[s[1]] = s THEN None ELSE rank[s[1]]]
  BY <1>1 DEF Fault
<1>3. rank \in [Ends -> Ids \cup {None}] /\ s[1] \in Ends
  BY DEF SessionInv, IsSession, Ids, SocketsOf, Ends
<1>4. \A t \in Ids : rank'[e] = t => rank[e] = t
  BY <1>2, <1>3, NoneIsNone
<1>5. /\ f.known = r.known /\ f.writer = r.writer /\ f.reader = r.reader
      /\ f.state \in {"closed", "standby", "connecting"}
      /\ (p.server /\ f.state = "connecting") => r.state = "connecting"
      /\ r.state = "closed" => f.state = "closed" /\ DOMAIN f = DOMAIN r
  BY <1>1, FaultedRole
<1>6. /\ \/ f.cseq = r.cseq
         \/ ~p.server /\ r.state \notin {"connecting", "closed"}
      /\ ~p.standby /\ ~p.server =>
            /\ r.state \in {"connecting", "closed"} => f.state = r.state
            /\ \/ r.state \in {"connecting", "closed"} \/ f.state = "closed"
               \/ f.state = "connecting" /\ f.cseq = NextSeq(r.cseq)
  BY <1>1, FaultedTurns
<1>7. /\ v.known = r.known /\ v.writer = r.writer /\ v.state = f.state /\ v.cseq = f.cseq
      /\ v.reader = r.reader \/ v.reader \in {"none", "standby"}
      /\ v.state = "connecting" => v.reader = "none" \/ v.reader = r.reader
  <2>1. CASE ~onread
    BY <1>1, <1>5, <2>1
  <2>2. CASE onread
    <3>1. PICK d : /\ v = [f EXCEPT !.reader = d] /\ d \in {"none", "standby"}
                   /\ f.state = "connecting" => d = "none"
      BY <1>1, <1>5, <2>2 DEF ReaderLoops
    <3>2. DOMAIN f = DOMAIN r
      BY <1>1, FaultedRole
    <3>3. /\ v.reader = d /\ v.known = f.known /\ v.writer = f.writer /\ v.state = f.state
          /\ v.cseq = f.cseq
      BY <3>1, <3>2 DEF Sockets
    <3> QED
      BY <1>5, <3>1, <3>3
  <2> QED
    BY <2>1, <2>2
<1>8. ASSUME s[1] = e PROVE Waits(v, rank'[e] = s)
  <2>1. Waits(r, rank[e] = s) /\ p.server
    BY <1>1, <1>8 DEF InTurn, Serving
  <2>2. v.cseq = r.cseq
    BY <1>6, <1>7, <2>1
  <2>3. rank'[e] = s /\ v.state # "closed" => ~Even(v.cseq)
    BY <1>4, <1>5, <1>7, <2>1, <2>2 DEF Waits
  <2> QED
    BY <1>5, <1>7, <2>1, <2>3 DEF Waits
<1>9. ASSUME s[1] # e PROVE Asks(v)
  <2>1. Asks(r)
    BY <1>9 DEF InTurn
  <2>2. s[1] = Peer(e)
    BY <1>3, <1>9 DEF Peer, Ends
  <2>3. ~p.standby /\ ~p.server
    BY <1>1, <2>2 DEF Serving
  <2>4. CASE r.state \in {"connecting", "closed"}
    <3>1. v.state = r.state /\ v.cseq = r.cseq
      BY <1>6, <1>7, <2>3, <2>4
    <3> QED
      BY <1>7, <2>1, <2>4, <3>1 DEF Asks
  <2>5. CASE r.state \notin {"connecting", "closed"}
    <3>1. r.state = "open" /\ r.writer \notin {"join", "await"}
      BY <2>1, <2>5 DEF Asks, Sockets, States
    <3>2. ~Even(r.cseq) /\ r.cseq \in Nat
      BY <2>1, <3>1 DEF Asks, Sockets
    <3>3. Even(NextSeq(r.cseq))
      BY <3>2, Turned
    <3>4. v.state = "closed" \/ (v.state = "connecting" /\ Even(v.cseq))
      BY <1>6, <1>7, <2>3, <2>5, <3>3
    <3> QED
      BY <1>7, <2>1, <3>1, <3>4 DEF Asks
  <2> QED
    BY <2>4, <2>5
<1>10. InTurn(e, s, v, rank')
  BY <1>8, <1>9 DEF InTurn
<1>11. Keeps(e, s)
  BY <1>4 DEF Keeps
<1>12. wire' \in [Ids -> Seq(TurnItems)]
  <2>1. wire' = wire \/ Shutdown(s)
    BY DEF Fault
  <2> QED
    BY <2>1, ShutdownTurns DEF Turns
<1> QED
  BY <1>2, <1>10, <1>11, <1>12, OneTurns

LEMMA WriteFailsTurns ==
    ASSUME SessionInv, SeqMod % 2 = 0, NEW e \in Ends, Serving(policy, e), Turns(e),
           NEW s \in Ids, WriteFails(s)
    PROVE  Turns(e)'
<1>1. PICK x, r, o : /\ x = sock[s] /\ r = [x EXCEPT !.writer = "loop", !.out = NoItem]
                     /\ o = FALSE
  OBVIOUS
<1>2. Fault(s, r, o, FALSE) /\ ~o /\ o \in BOOLEAN
  BY <1>1 DEF WriteFails
<1>3. x \in Sockets /\ IsStaffed(x) /\ x.writer \in {"writing", "acking"}
  BY <1>1, SocketOf DEF WriteFails
<1>4. /\ r \in Sockets /\ r.writer = "loop" /\ r.state = x.state /\ r.known = x.known
      /\ r.reader = x.reader /\ r.cseq = x.cseq
  BY <1>1, <1>3 DEF Sockets, Writers
<1>5. r.state # "free" /\ SameRole(r, sock[s])
  BY <1>1, <1>3, <1>4 DEF SameRole, IsStaffed, Free, NewSocket
<1>6. InTurn(e, s, sock[s], rank)
  BY DEF Turns
<1>7. InTurn(e, s, r, rank)
  BY <1>1, <1>4, <1>5, <1>6, TurnKept
<1> QED
  BY <1>2, <1>4, <1>5, <1>7, FaultTurns

LEMMA ReadFailsTurns ==
    ASSUME SessionInv, SeqMod % 2 = 0, NEW e \in Ends, Serving(policy, e), Turns(e),
           NEW s \in Ids, ReadFails(s)
    PROVE  Turns(e)'
<1>1. PICK r, o : r = sock[s] /\ o = TRUE
  OBVIOUS
<1>2. Fault(s, r, o, FALSE) /\ o /\ o \in BOOLEAN /\ r.reader = "reading"
  BY <1>1 DEF ReadFails
<1>3. r \in Sockets /\ IsStaffed(r)
  BY <1>1, SocketOf
<1>4. r.state # "free" /\ (r.writer \in {"join", "await"} => r.state \in {"connecting", "closed"})
  BY <1>2, <1>3 DEF IsStaffed, Free, NewSocket
<1>5. InTurn(e, s, r, rank)
  BY <1>1 DEF Turns
<1> QED
  BY <1>2, <1>3, <1>4, <1>5, FaultTurns

\* Who gets no reply, or an even number to try next, is the end that connects.
LEMMA ConnectFailsTurns ==
    ASSUME SessionInv, SeqMod % 2 = 0, NEW e \in Ends, Serving(policy, e), Turns(e),
           NEW s \in Ids, s[1] # e, NEW r \in Sockets, NEW reset, ConnectFails(s, r, reset),
           r.state \in {"connecting", "closed"}, r.reader = "none", Even(r.cseq)
    PROVE  Turns(e)'
<1>1. PICK k : k = [r EXCEPT !.writer = "loop"]
  OBVIOUS
<1>2. /\ k \in Sockets /\ k.writer = "loop" /\ k.state = r.state /\ k.cseq = r.cseq
      /\ k.reader = r.reader
  BY <1>1 DEF Sockets, Writers
<1>3. InTurn(e, s, k, rank)
  BY <1>2 DEF InTurn, Asks
<1>4. CASE r.state = "connecting"
  <2>1. PICK o : o = FALSE /\ o \in BOOLEAN
    OBVIOUS
  <2>2. Fault(s, k, o, reset)
    BY <1>1, <1>4, <2>1 DEF ConnectFails
  <2>3. k.state # "free" /\ k.writer \notin {"join", "await"} /\ ~o
    BY <1>2, <1>4, <2>1
  <2> QED
    BY <1>2, <1>3, <2>1, <2>2, <2>3, FaultTurns
<1>5. CASE r.state = "closed"
  <2>1. sock' = [sock EXCEPT ![s] = k] /\ rank' = rank /\ wire' = [wire EXCEPT ![s] = <<>>]
    BY <1>1, <1>5 DEF ConnectFails
  <2>2. Keeps(e, s) /\ wire' \in [Ids -> Seq(TurnItems)]
    <3>1. <<>> \in Seq(TurnItems)
      BY EmptySeq
    <3> QED
      BY <2>1, <3>1 DEF Keeps, Turns
  <2>3. InTurn(e, s, k, rank')
    BY <1>3, <2>1
  <2> QED
    BY <2>1, <2>2, <2>3, OneTurns
<1> QED
  BY <1>4, <1>5

\* Who waits for a reply does not only accept, and has an even connect_seq.
LEMMA AwaitsTurn ==
    ASSUME SessionInv, NEW e, Turns(e), NEW s \in Ids, sock[s].writer = "await"
    PROVE  /\ s[1] # e /\ Even(sock[s].cseq) /\ sock[s] \in Sockets
           /\ sock[s].reader = "none" /\ sock[s].state \in {"connecting", "closed"}
<1>1. InTurn(e, s, sock[s], rank)
  BY DEF Turns
<1>2. s[1] # e
  BY <1>1 DEF InTurn, Waits
<1> QED
  BY <1>1, <1>2, SocketOf DEF InTurn, Asks, IsStaffed

LEMMA NoReplyTurns ==
    ASSUME SessionInv, SeqMod % 2 = 0, NEW e \in Ends, Serving(policy, e), Turns(e),
           NEW s \in Ids, NoReply(s)
    PROVE  Turns(e)'
<1>1. PICK r : r = sock[s]
  OBVIOUS
<1>2. ConnectFails(s, r, FALSE) /\ r.writer = "await"
  BY <1>1 DEF NoReply
<1> QED
  BY <1>1, <1>2, AwaitsTurn, ConnectFailsTurns

\* READY makes the connect_seq odd; any other reply leaves an even one.
LEMMA ReadReplyTurns ==
    ASSUME SessionInv, SeqMod % 2 = 0, NEW e \in Ends, Serving(policy, e), Turns(e),
           NEW s \in Ids, ReadReply(s)
    PROVE  Turns(e)'
<1>1. PICK r, reply : r = sock[s] /\ reply = Head(wire[s])
  OBVIOUS
<1>2. r.writer = "await" /\ wire[s] # <<>>
  BY <1>1 DEF ReadReply
<1>3. /\ s[1] # e /\ Even(r.cseq) /\ r \in Sockets /\ r.cseq \in Nat
      /\ r.reader = "none" /\ r.state \in {"connecting", "closed"}
  BY <1>1, <1>2, AwaitsTurn DEF Sockets
<1>4. reply \in TurnItems /\ [wire EXCEPT ![s] = Tail(wire[s])] \in [Ids -> Seq(TurnItems)]
  BY <1>1, <1>2, TailTurns DEF Turns
<1>5. CASE reply.tag = "ready"
  <2>1. PICK c, y, v : /\ c = NextSeq(r.cseq) /\ y = reply.lossy
                       /\ v = [r EXCEPT !.state = "open", !.cseq = c, !.lossy = y,
                                        !.writer = "loop", !.reader = "reading"]
    OBVIOUS
  <2>2. /\ sock' = [sock EXCEPT ![s] = v] /\ rank' = rank
        /\ wire' = [wire EXCEPT ![s] = Tail(wire[s])]
    BY <1>1, <1>5, <2>1 DEF ReadReply
  <2>3. v.state = "open" /\ v.reader = "reading" /\ v.writer = "loop" /\ v.cseq = c
    BY <1>3, <2>1 DEF Sockets
  <2>4. ~Even(c)
    BY <1>3, <2>1, Turned
  <2>5. InTurn(e, s, v, rank')
    BY <1>3, <2>3, <2>4 DEF InTurn, Asks
  <2>6. Keeps(e, s)
    BY <2>2 DEF Keeps
  <2> QED
    BY <1>4, <2>2, <2>5, <2>6, OneTurns
<1>6. CASE reply.tag = "wait"
  BY <1>4, <1>6 DEF TurnItems
<1>7. CASE reply.tag = "retry"
  <2>1. PICK k : k = [r EXCEPT !.cseq = reply.cseq]
    OBVIOUS
  <2>2. ConnectFails(s, k, FALSE)
    BY <1>1, <1>7, <2>1 DEF ReadReply
  <2>3. reply.cseq \in Nat /\ Even(reply.cseq)
    <3>1. reply \in WireItems /\ Even(reply.cseq)
      BY <1>4, <1>7 DEF TurnItems
    <3> QED
      BY <1>7, <3>1 DEF WireItems, MsgItems, AckItems
  <2>4. k.reader = "none" /\ k.state = r.state /\ k \in Sockets /\ k.cseq = reply.cseq
    BY <1>3, <2>1, <2>3 DEF Sockets
  <2>5. Even(k.cseq)
    BY <2>3, <2>4
  <2> QED
    BY <1>3, <2>2, <2>4, <2>5, ConnectFailsTurns
<1>8. CASE reply.tag = "resetsession"
  <2>1. PICK k, d : k = SessionReset(r) /\ d = Discarded(r)
    OBVIOUS
  <2>2. ConnectFails(s, k, TRUE)
    BY <1>1, <1>8, <2>1 DEF ReadReply
  <2>3. k \in Sockets /\ k.reader = r.reader /\ k.state = r.state
    BY <1>3, <2>1, SessionResetIsGood DEF IsSocket
  <2>4. DOMAIN d = DOMAIN r
    BY <1>3, <2>1 DEF Discarded, Sockets
  <2>5. k.cseq = 0
    BY <1>3, <2>1, <2>4 DEF SessionReset, Sockets
  <2>6. Even(k.cseq)
    BY <2>5 DEF Even
  <2> QED
    BY <1>3, <2>2, <2>3, <2>6, ConnectFailsTurns
<1> QED
  BY <1>1, <1>5, <1>6, <1>7, <1>8 DEF ReadReply

\* accept_fail() at an end that only accepts leaves the connect_seq.
LEMMA AcceptFailedTurns ==
    ASSUME NEW r \in Sockets, NEW p, p.server, NEW again, NEW f, f = AcceptFailed(r, p, again)
    PROVE  f.cseq = r.cseq
<1>1. PICK st, wr, q, g, h :
        /\ st = IF r.outq # <<>> THEN (IF p.server THEN "standby" ELSE "connecting")
                ELSE IF again THEN "standby" ELSE "closed"
        /\ wr = IF r.outq # <<>> \/ again THEN "loop" ELSE "none"
        /\ q = [r EXCEPT !.state = st] /\ g = Faulted(q, p, FALSE)
        /\ h = [g EXCEPT !.writer = wr]
  OBVIOUS
<1>2. f = ReaderLoops(h)
  BY <1>1 DEF AcceptFailed
<1>3. st \in {"closed", "standby", "connecting"}
  BY <1>1
<1>4. q \in Sockets /\ q.cseq = r.cseq
  BY <1>1, <1>3 DEF Sockets, States
<1>5. g.cseq = q.cseq /\ DOMAIN g = DOMAIN q
  <2>1. PICK o : o = FALSE
    OBVIOUS
  <2>2. g = Faulted(q, p, o)
    BY <1>1, <2>1
  <2> QED
    BY <1>4, <2>2, FaultedTurns, FaultedRole
<1>6. h.cseq = g.cseq
  BY <1>1, <1>4, <1>5 DEF Sockets
<1>7. PICK d : f = [h EXCEPT !.reader = d]
  BY <1>2 DEF ReaderLoops
<1>8. f.cseq = h.cseq
  BY <1>7
<1> QED
  BY <1>4, <1>5, <1>6, <1>8

\* Who accepts only accepts: it is not registered, does not know its peer, and
\* has an even connect_seq to read.
LEMMA AtConnectTurns ==
    ASSUME SessionInv, NEW e \in Ends, Turns(e), NEW b \in Ids, sock[b].reader = "accepting"
    PROVE  /\ b[1] = e /\ rank[e] # b /\ ~sock[b].known
           /\ wire[b] # <<>> => ConnectSeq(b) \in Nat /\ Even(ConnectSeq(b))
<1>1. InTurn(e, b, sock[b], rank)
  BY DEF Turns
<1>2. b[1] = e /\ ~sock[b].known
  BY <1>1 DEF InTurn, Asks, Waits
<1>3. rank[e] # b /\ (wire[b] # <<>> => wire[b][1] \in Connects)
  BY SocketOf DEF IsPlaced, Ends
<1>4. ASSUME wire[b] # <<>> PROVE ConnectSeq(b) \in Nat /\ Even(ConnectSeq(b))
  <2>1. PICK x : x = Head(wire[b]) /\ x \in TurnItems
    BY <1>4, TailTurns DEF Turns
  <2>2. x = wire[b][1] /\ x \in Connects
    BY <1>3, <1>4, <2>1
  <2> QED
    BY <2>1, <2>2 DEF TurnItems, Connects, ConnectSeq
<1> QED
  BY <1>2, <1>3, <1>4

LEMMA AcceptLostTurns ==
    ASSUME SessionInv, NEW e \in Ends, Turns(e), NEW b \in Ids, AcceptLost(b) PROVE Turns(e)'
<1>1. PICK replaced, r, v :
        /\ r = sock[b] /\ v = AcceptFailed(r, LosslessClient, replaced)
        /\ sock' = [sock EXCEPT ![b] = v]
  BY DEF AcceptLost
<1>2. r \in Sockets /\ r.reader = "accepting" /\ rank' = rank /\ wire' = wire
  BY <1>1, SocketOf DEF AcceptLost
<1>3. b[1] = e /\ rank[e] # b /\ ~r.known
  BY <1>1, <1>2, AtConnectTurns
<1>4. /\ v.known = r.known /\ v.writer \in {"none", "loop"} /\ v.reader \in {"none", "standby"}
      /\ v.state = "connecting" => v.reader = "none"
  BY <1>1, <1>2, AcceptFailedRole
<1>5. InTurn(e, b, v, rank')
  BY <1>2, <1>3, <1>4 DEF InTurn, Waits
<1>6. Keeps(e, b)
  BY <1>2 DEF Keeps
<1> QED
  BY <1>1, <1>2, <1>5, <1>6, OneTurns DEF Turns

\* Whoever is registered has an odd connect_seq, so that RETRY_SESSION names an
\* even one; and who only accepts tells nobody to wait.
LEMMA EarlyTurns ==
    ASSUME SessionInv, SeqMod % 2 = 0, NEW e \in Ends, Serving(policy, e), Turns(e),
           NEW b \in Ids, AtConnect(b)
    PROVE  Early(b) \in Seq(TurnItems) /\ Ready(b) \in TurnItems
<1>1. b[1] = e
  BY AtConnectTurns DEF AtConnect
<1>2. <<>> \in Seq(TurnItems)
  BY EmptySeq
<1>3. <<[tag |-> "resetsession"]>> \in Seq(TurnItems)
  <2>1. [tag |-> "resetsession"] \in TurnItems
    BY DEF TurnItems, WireItems
  <2> QED
    BY <2>1
<1>4. Ready(b) \in TurnItems
  <2>1. Ready(b) \in WireItems
    BY RepliesAreItems
  <2> QED
    BY <2>1 DEF TurnItems, Ready
<1>5. CASE Lookup(e) = None \/ Restarts(ConnectSeq(b), sock[rank[e]])
  <2>1. ASSUME Lookup(e) = None PROVE Early(b) \in Seq(TurnItems)
    BY <1>1, <1>2, <1>3, <2>1 DEF Early
  <2>2. ASSUME Lookup(e) # None, Restarts(ConnectSeq(b), sock[rank[e]])
        PROVE  Early(b) \in Seq(TurnItems)
    BY <1>1, <1>2, <2>2 DEF Early
  <2> QED
    BY <1>4, <1>5, <2>1, <2>2
<1>6. CASE Lookup(e) # None /\ ~Restarts(ConnectSeq(b), sock[rank[e]])
  <2>1. PICK x, c : x = sock[rank[e]] /\ c = ConnectSeq(b)
    OBVIOUS
  <2>2. Early(b) = EarlyReplies(e, c, x)
    BY <1>1, <1>6, <2>1 DEF Early
  <2>3. IsSession(sock, rank, link, wire) /\ rank[e] # None /\ x.state # "closed"
    BY <1>6, <2>1 DEF SessionInv, Lookup
  <2>4. rank[e] \in Ids /\ rank[e] \in SocketsOf(e)
    BY <2>3, RegisteredIsUsed
  <2>5. rank[e][1] = e /\ x.cseq \in Nat /\ InTurn(e, rank[e], x, rank)
    BY <2>1, <2>4, SocketOf DEF SocketsOf, Sockets, Turns
  <2>6. ~Even(x.cseq)
    BY <2>3, <2>5 DEF InTurn, Waits
  <2>7. NextSeq(x.cseq) \in Nat /\ Even(NextSeq(x.cseq))
    BY <2>5, <2>6, Turned
  <2>8. <<[tag |-> "retry", cseq |-> NextSeq(x.cseq)]>> \in Seq(TurnItems)
    <3>1. PICK n : n = NextSeq(x.cseq) /\ n \in Nat /\ Even(n)
      BY <2>7
    <3>2. [tag |-> "retry", cseq |-> n] \in WireItems
      BY <3>1 DEF WireItems
    <3>3. [tag |-> "retry", cseq |-> n] \in TurnItems
      BY <3>1, <3>2 DEF TurnItems
    <3> QED
      BY <3>1, <3>3
  <2>9. PICK f : /\ EarlyReplies(e, c, x) = f \o <<>> \o <<>>
                 /\ f = <<>> \/ f = <<[tag |-> "retry", cseq |-> NextSeq(x.cseq)]>>
    BY DEF EarlyReplies, Serving
  <2>10. f \in Seq(TurnItems)
    BY <1>2, <2>8, <2>9
  <2>11. f \o <<>> = f
    BY <2>10, ConcatEmptySeq
  <2> QED
    BY <1>4, <2>2, <2>9, <2>10, <2>11
<1> QED
  BY <1>4, <1>5, <1>6

LEMMA AcceptNewTurns ==
    ASSUME SessionInv, SeqMod % 2 = 0, NEW e \in Ends, Serving(policy, e), Turns(e),
           NEW b \in Ids, AcceptNew(b)
    PROVE  Turns(e)'
<1>1. PICK r, refused, v, t, a :
        /\ r = Identified(b) /\ refused = (Early(b) # <<>>) /\ t = link[b]
        /\ v = IF refused THEN [r EXCEPT !.reader = "reading"] ELSE Opened(r, ConnectSeq(b))
        /\ a = IF refused THEN Early(b) ELSE <<Ready(b)>>
  OBVIOUS
<1>2. /\ AtConnect(b) /\ sock' = [sock EXCEPT ![b] = v] /\ t # None
      /\ wire' = [wire EXCEPT ![b] = Tail(wire[b]), ![t] = wire[t] \o a]
      /\ rank' = [rank EXCEPT ![b[1]] = IF refused THEN rank[b[1]] ELSE b]
      /\ sock[b].reader = "accepting" /\ wire[b] # <<>>
  <2>1. link[b] # b
    BY LinkedBack DEF AcceptNew
  <2> QED
    BY <1>1, <2>1 DEF AcceptNew, AtConnect, SessionInv, IsSession
<1>3. b[1] = e /\ rank[e] # b /\ ConnectSeq(b) \in Nat /\ Even(ConnectSeq(b))
  BY <1>2, AtConnectTurns
<1>4. rank \in [Ends -> Ids \cup {None}]
  BY DEF SessionInv, IsSession
<1>5. Keeps(e, b)
  BY <1>2, <1>3, <1>4 DEF Keeps
<1>6. IsSocket(r) /\ r.state = "accepting" /\ r.writer = "none" /\ IsTail(r)
  BY <1>1, <1>2, IdentifiedIsGood
<1>7. wire' \in [Ids -> Seq(TurnItems)]
  <2>1. Early(b) \in Seq(TurnItems) /\ Ready(b) \in TurnItems
    BY <1>2, EarlyTurns
  <2>2. a \in Seq(TurnItems)
    BY <1>1, <2>1
  <2>3. t \in Ids /\ wire[t] \in Seq(TurnItems)
    BY <1>1, <1>2 DEF SessionInv, IsSession, Turns
  <2>4. wire[t] \o a \in Seq(TurnItems)
    BY <2>2, <2>3, ConcatProperties
  <2>5. Tail(wire[b]) \in Seq(TurnItems)
    <3>1. wire[b] \in Seq(TurnItems)
      BY DEF Turns
    <3> QED
      BY <1>2, <3>1, HeadTailProperties
  <2> QED
    BY <1>2, <2>4, <2>5 DEF Turns
<1>8. CASE refused
  <2>1. v.reader = "reading" /\ v.writer = "none" /\ v.state = "accepting"
    BY <1>1, <1>6, <1>8 DEF IsSocket, Sockets
  <2>2. rank'[e] # b
    BY <1>2, <1>3, <1>4, <1>8
  <2>3. InTurn(e, b, v, rank')
    BY <1>3, <2>1, <2>2 DEF InTurn, Waits
  <2> QED
    BY <1>2, <1>5, <1>7, <2>3, OneTurns
<1>9. CASE ~refused
  <2>1. v.reader = "reading" /\ v.writer = "loop" /\ v.state = "open" /\ v.cseq = NextSeq(ConnectSeq(b))
    <3>1. v = Opened(r, ConnectSeq(b)) /\ NextSeq(ConnectSeq(b)) \in Nat
      BY <1>1, <1>3, <1>9, Turned
    <3> QED
      BY <1>6, <3>1 DEF Opened, IsSocket, Sockets
  <2>2. ~Even(v.cseq)
    BY <1>3, <2>1, Turned
  <2>3. InTurn(e, b, v, rank')
    BY <1>3, <2>1, <2>2 DEF InTurn, Waits
  <2> QED
    BY <1>2, <1>5, <1>7, <2>3, OneTurns
<1> QED
  BY <1>8, <1>9

\* b takes the place of the old socket, which is stopped.
LEMMA ReplacesTurns ==
    ASSUME SessionInv, NEW e \in Ends, Turns(e), NEW b \in Ids, AtConnect(b), Lookup(b[1]) # None,
           NEW q, NEW i, NEW k, NEW replies \in Seq(TurnItems), Replaces(b, q, i, k, replies),
           q.writer \in {"none", "loop"}, q.reader # "accepting", q.state # "connecting",
           ~Even(q.cseq)
    PROVE  Turns(e)'
<1>1. PICK x, y, n : /\ x = rank[b[1]] /\ y = LeftOver(Old(b))
                     /\ n = IF q.lossy /\ q.state = "closed" THEN None ELSE b
  OBVIOUS
<1>2. /\ sock' = [sock EXCEPT ![b] = q, ![x] = y] /\ rank' = [rank EXCEPT ![b[1]] = n]
      /\ i \in InHand(x) /\ k \in Arrived(x) /\ wire' = ReplacedWire(b, x, i, k, replies)
  BY <1>1 DEF Replaces
<1>3. /\ x \in Ids /\ x # b /\ sock[x] \in Good /\ sock[x].reader # "accepting"
  BY <1>1, ReplacesAnother
<1>4. rank \in [Ends -> Ids \cup {None}] /\ sock \in [Ids -> Good]
  BY DEF SessionInv, IsSession
<1>5. b[1] = e /\ wire[b] # <<>>
  BY AtConnectTurns DEF AtConnect
<1>6. x[1] = e
  <2>1. rank[e] # None /\ IsSession(sock, rank, link, wire)
    BY <1>5 DEF Lookup, SessionInv
  <2> QED
    BY <1>1, <1>5, <2>1, RegisteredIsUsed DEF SocketsOf
<1>7. y.state = "closed" /\ y.reader = sock[x].reader /\ y.writer = sock[x].writer
  <2>1. PICK r, old : r = sock[x] /\ old = Old(b) /\ r \in Good
    BY <1>3
  <2>2. old = r \/ old = SessionReset(r)
    BY <1>1, <2>1 DEF Old
  <2>3. IsSocket(old) /\ IsTail(old) /\ old.writer = r.writer /\ old.reader = r.reader
    <3>1. CASE old = r
      BY <2>1, <3>1 DEF Good, IsSocket
    <3>2. CASE old = SessionReset(r)
      BY <2>1, <3>2, SessionResetIsGood DEF Good, IsSocket
    <3> QED
      BY <2>2, <3>1, <3>2
  <2> QED
    BY <1>1, <2>1, <2>3, LeftOverIsGood
<1>8. InTurn(e, b, q, rank')
  BY <1>5 DEF InTurn, Waits
<1>9. InTurn(e, x, y, rank')
  <2>1. InTurn(e, x, sock[x], rank)
    BY <1>3 DEF Turns
  <2> QED
    BY <1>3, <1>6, <1>7, <2>1 DEF InTurn, Waits
<1>10. ASSUME NEW t \in Ids PROVE InTurn(e, t, sock'[t], rank')
  <2>1. CASE t = b
    BY <1>2, <1>3, <1>4, <1>8, <2>1
  <2>2. CASE t = x
    BY <1>2, <1>3, <1>4, <1>9, <2>2
  <2>3. CASE t # b /\ t # x
    <3>1. sock'[t] = sock[t] /\ InTurn(e, t, sock[t], rank)
      BY <1>2, <1>4, <2>3 DEF Turns
    <3>2. rank'[e] = t => rank[e] = t
      BY <1>1, <1>2, <1>4, <1>5, <2>3, NoneIsNone
    <3>3. SameRole(sock[t], sock[t])
      BY DEF SameRole
    <3> QED
      BY <3>1, <3>2, <3>3, TurnKept
  <2> QED
    BY <2>1, <2>2, <2>3
<1>11. wire' \in [Ids -> Seq(TurnItems)]
  <2>1. PICK w : w = wire' /\ w = ReplacedWire(b, x, i, k, replies)
    BY <1>2
  <2>2. /\ w = [s \in Ids |-> w[s]]
        /\ w[b] = Tail(wire[b]) /\ w[x] = SubSeq(wire[x], 1, i)
        /\ \A s \in Ids : s # b /\ s # x /\ s = link[b] => w[s] = wire[s] \o replies
        /\ \A s \in Ids : s # b /\ s # x /\ s # link[b] =>
              w[s] = IF s = link[x] THEN SubSeq(wire[s], 1, k) ELSE wire[s]
    BY <1>3, <2>1, ReplacedWireIs
  <2>3. i \in 0..Len(wire[x]) /\ IF link[x] = None THEN k = 0 ELSE k \in 0..Len(wire[link[x]])
    BY <1>2, <1>3, CutBounds DEF SessionInv
  <2>4. ASSUME NEW s \in Ids PROVE w[s] \in Seq(TurnItems)
    <3>1. wire[s] \in Seq(TurnItems)
      BY DEF Turns
    <3>2. CASE s = b
      BY <1>5, <2>2, <3>1, <3>2, HeadTailProperties
    <3>3. CASE s = x
      BY <2>2, <2>3, <3>1, <3>3, Beginning
    <3>4. CASE s # b /\ s # x /\ s = link[b]
      BY <2>2, <3>1, <3>4, ConcatProperties
    <3>5. CASE s # b /\ s # x /\ s # link[b] /\ s = link[x]
      <4>1. k \in 0..Len(wire[s]) /\ w[s] = SubSeq(wire[s], 1, k)
        BY <2>2, <2>3, <3>5, NoneIsNone
      <4> QED
        BY <3>1, <4>1, Beginning
    <3>6. CASE s # b /\ s # x /\ s # link[b] /\ s # link[x]
      <4>1. w[s] = wire[s]
        BY <2>2, <3>6
      <4> QED
        BY <3>1, <4>1
    <3> QED
      BY <3>2, <3>3, <3>4, <3>5, <3>6
  <2> QED
    BY <2>1, <2>2, <2>4
<1> QED
  BY <1>10, <1>11 DEF Turns

LEMMA AcceptExistingTurns ==
    ASSUME SessionInv, SeqMod % 2 = 0, NEW e \in Ends, Serving(policy, e), Turns(e),
           NEW b \in Ids, AcceptExisting(b)
    PROVE  Turns(e)'
<1>1. AtConnect(b) /\ Lookup(b[1]) # None
  BY DEF AcceptExisting
<1>2. PICK zero, i, k, q, a : /\ q = Successor(b, zero) /\ Replaces(b, q, i, k, a)
                              /\ a = Append(Early(b), Ready(b))
  <2>1. PICK a : a = Append(Early(b), Ready(b))
    OBVIOUS
  <2>2. PICK zero, i, k, q : /\ q = Successor(b, zero)
                             /\ Replaces(b, q, i, k, Append(Early(b), Ready(b)))
    BY ExistingReplaces
  <2>3. Replaces(b, q, i, k, a)
    BY <2>1, <2>2
  <2> QED
    BY <2>1, <2>2, <2>3
<1>3. a \in Seq(TurnItems)
  BY <1>1, <1>2, EarlyTurns, AppendProperties
<1>4. ConnectSeq(b) \in Nat /\ Even(ConnectSeq(b))
  BY <1>1, AtConnectTurns DEF AtConnect
<1>5. /\ q.state = "open" /\ q.reader = "reading" /\ q.writer = "loop"
      /\ q.cseq = NextSeq(ConnectSeq(b))
  BY <1>1, <1>2, SuccessorMeets
<1>6. ~Even(q.cseq)
  BY <1>4, <1>5, Turned
<1> QED
  BY <1>1, <1>2, <1>3, <1>5, <1>6, ReplacesTurns

LEMMA AcceptFailsTurns ==
    ASSUME SessionInv, SeqMod % 2 = 0, NEW e \in Ends, Serving(policy, e), Turns(e),
           NEW b \in Ids, AcceptFails(b)
    PROVE  Turns(e)'
<1>1. AtConnect(b)
  BY DEF AcceptFails
<1>2. PICK p : p = policy[b[1]]
  OBVIOUS
<1>3. b[1] = e /\ rank[e] # b /\ ConnectSeq(b) \in Nat /\ Even(ConnectSeq(b)) /\ p.server
  BY <1>1, <1>2, AtConnectTurns DEF AtConnect, Serving
<1>4. /\ rank \in [Ends -> Ids \cup {None}] /\ wire \in [Ids -> Seq(TurnItems)]
  BY DEF SessionInv, IsSession, Turns
<1>5. CASE /\ Lookup(b[1]) = None \/ Early(b) # <<>>
           /\ \E replaced \in BOOLEAN :
                LET r == IF Early(b) # <<>> THEN Identified(b)
                         ELSE Opened(Identified(b), ConnectSeq(b))
                    q == AcceptFailed(r, policy[b[1]], replaced)
                IN  /\ sock' = [sock EXCEPT ![b] = q]
                    /\ rank' = [rank EXCEPT ![b[1]] =
                          IF Early(b) # <<>> \/ (q.lossy /\ q.state = "closed" /\ replaced)
                          THEN @ ELSE b]
           /\ wire' = [wire EXCEPT ![b] = <<>>]
  <2>1. PICK replaced, r, q, stays :
          /\ r = IF Early(b) # <<>> THEN Identified(b) ELSE Opened(Identified(b), ConnectSeq(b))
          /\ q = AcceptFailed(r, p, replaced)
          /\ Early(b) # <<>> => stays
          /\ sock' = [sock EXCEPT ![b] = q]
          /\ rank' = [rank EXCEPT ![b[1]] = IF stays THEN rank[b[1]] ELSE b]
    BY <1>2, <1>5
  <2>2. IsSocket(Identified(b)) /\ IsTail(Identified(b))
    BY <1>1, IdentifiedIsGood
  <2>3. r \in Sockets /\ (Early(b) = <<>> => r.cseq = NextSeq(ConnectSeq(b)))
    <3>1. CASE Early(b) # <<>>
      BY <2>1, <2>2, <3>1 DEF IsSocket
    <3>2. CASE Early(b) = <<>>
      <4>1. PICK g, c : g = Identified(b) /\ c = ConnectSeq(b) /\ g \in Sockets /\ c \in Nat
        BY <1>3, <2>2 DEF IsSocket
      <4>2. r = Opened(g, c) /\ NextSeq(c) \in Nat
        BY <1>3, <2>1, <3>2, <4>1, Turned
      <4>3. r \in Sockets
        BY <1>3, <2>1, <2>2, <3>2, OpenedIsGood DEF IsSocket
      <4>4. r.cseq = NextSeq(c)
        BY <4>1, <4>2 DEF Opened, Sockets
      <4> QED
        BY <4>1, <4>3, <4>4
    <3> QED
      BY <3>1, <3>2
  <2>4. /\ q.writer \in {"none", "loop"} /\ q.reader \in {"none", "standby"}
        /\ q.state # "connecting"
    BY <1>3, <2>1, <2>3, AcceptFailedRole
  <2>5. q.cseq = r.cseq
    BY <1>3, <2>1, <2>3, AcceptFailedTurns
  <2>6. rank'[e] = b => ~Even(q.cseq)
    <3>1. ASSUME rank'[e] = b PROVE ~Even(q.cseq)
      <4>1. ~stays
        BY <1>3, <1>4, <2>1, <3>1
      <4>2. q.cseq = NextSeq(ConnectSeq(b))
        BY <2>1, <2>3, <2>5, <4>1
      <4> QED
        BY <1>3, <4>2, Turned
    <3> QED
      BY <3>1
  <2>7. InTurn(e, b, q, rank')
    BY <1>3, <2>4, <2>6 DEF InTurn, Waits
  <2>8. Keeps(e, b)
    BY <1>3, <1>4, <2>1 DEF Keeps
  <2>9. wire' \in [Ids -> Seq(TurnItems)]
    <3>1. <<>> \in Seq(TurnItems)
      BY EmptySeq
    <3> QED
      BY <1>4, <1>5, <3>1
  <2> QED
    BY <2>1, <2>7, <2>8, <2>9, OneTurns
<1>6. CASE /\ Lookup(b[1]) # None
           /\ Replace(b, LAMBDA r : AcceptFailed(r, policy[b[1]], TRUE), <<>>)
  <2>1. PICK zero, i, k, q, o, a, again :
          /\ o = Successor(b, zero) /\ q = AcceptFailed(o, p, again) /\ Replaces(b, q, i, k, a)
          /\ a = <<>>
    <3>1. PICK zero, i, k, q : /\ q = AcceptFailed(Successor(b, zero), policy[b[1]], TRUE)
                               /\ Replaces(b, q, i, k, <<>>)
      BY <1>6, FailsReplaces
    <3>2. PICK o, a, again : o = Successor(b, zero) /\ a = <<>> /\ again = TRUE
      OBVIOUS
    <3>3. q = AcceptFailed(o, p, again) /\ Replaces(b, q, i, k, a)
      BY <1>2, <3>1, <3>2
    <3> QED
      BY <3>2, <3>3
  <2>2. o \in Sockets /\ o.cseq = NextSeq(ConnectSeq(b))
    BY <1>1, <1>6, <2>1, SuccessorMeets DEF IsSocket
  <2>3. /\ q.writer \in {"none", "loop"} /\ q.reader \in {"none", "standby"}
        /\ q.state # "connecting"
    BY <1>3, <2>1, <2>2, AcceptFailedRole
  <2>4. q.cseq = NextSeq(ConnectSeq(b))
    BY <1>3, <2>1, <2>2, AcceptFailedTurns
  <2>5. ~Even(q.cseq)
    BY <1>3, <2>4, Turned
  <2>6. a \in Seq(TurnItems)
    BY <2>1, EmptySeq
  <2> QED
    BY <1>1, <1>6, <2>1, <2>3, <2>5, <2>6, ReplacesTurns
<1> QED
  BY <1>5, <1>6 DEF AcceptFails

TurnsInv == SessionInv /\ \A e \in Ends : Serving(policy, e) => Turns(e)

LEMMA StartsInTurn == Init => TurnsInv
<1> SUFFICES ASSUME Init PROVE TurnsInv
  OBVIOUS
<1>1. SessionInv
  BY StartsQuiet
<1>2. Free.state = "free" /\ Free.writer = "none" /\ Free.reader = "none"
  BY DEF Free, NewSocket
<1>3. ASSUME NEW e \in Ends PROVE Turns(e)
  <2>1. ASSUME NEW s \in Ids PROVE InTurn(e, s, sock[s], rank)
    <3>1. sock[s] = Free /\ rank[e] = None /\ s # None
      BY NoneIsNone DEF Init
    <3> QED
      BY <1>2, <3>1 DEF InTurn, Waits, Asks
  <2>2. <<>> \in Seq(TurnItems)
    BY EmptySeq
  <2> QED
    BY <2>1, <2>2 DEF Init, Turns
<1> QED
  BY <1>1, <1>3 DEF TurnsInv

\* The policies of the two messengers are set before they run.
LEMMA PolicyStays == ASSUME [Next]_vars PROVE policy' = policy
<1>1. CASE UNCHANGED vars
  BY <1>1 DEF vars
<1>2. ASSUME NEW e \in Ends, Send(e) \/ SendFirst(e) \/ MarkDown(e) PROVE policy' = policy
  <2>1. CASE Send(e)
    BY <2>1 DEF Send
  <2>2. CASE SendFirst(e)
    BY <2>2 DEF SendFirst
  <2>3. CASE MarkDown(e)
    BY <2>3 DEF MarkDown
  <2> QED
    BY <1>2, <2>1, <2>2, <2>3
<1>3. ASSUME NEW s \in Ids, Writer(s) PROVE policy' = policy
  <2>1. CASE \/ WriterLeavesStandby(s) \/ JoinReader(s) \/ TakeAck(s) \/ TakeMessage(s)
             \/ AckWritten(s) \/ WriterExits(s)
    BY <2>1 DEF WriterLeavesStandby, JoinReader, TakeAck, TakeMessage, AckWritten, WriterExits
  <2>2. CASE Connect(s)
    BY <2>2 DEF Connect
  <2>3. CASE ReadReply(s)
    BY <2>3 DEF ReadReply
  <2>4. CASE NoReply(s)
    BY <2>4 DEF NoReply
  <2>5. CASE WriteOut(s)
    BY <2>5 DEF WriteOut
  <2>6. CASE WriteFails(s)
    BY <2>6 DEF WriteFails
  <2> QED
    BY <1>3, <2>1, <2>2, <2>3, <2>4, <2>5, <2>6 DEF Writer
<1>4. ASSUME NEW s \in Ids, Reader(s) PROVE policy' = policy
  <2>1. CASE AcceptNew(s)
    BY <2>1 DEF AcceptNew
  <2>2. CASE AcceptExisting(s)
    BY <2>2 DEF AcceptExisting
  <2>3. CASE AcceptFails(s)
    BY <2>3 DEF AcceptFails
  <2>4. CASE AcceptLost(s)
    BY <2>4 DEF AcceptLost
  <2>5. CASE ReadMessage(s)
    BY <2>5 DEF ReadMessage
  <2>6. CASE ReadAck(s)
    BY <2>6 DEF ReadAck
  <2>7. CASE ReaderWakes(s)
    BY <2>7 DEF ReaderWakes
  <2>8. CASE ReadFails(s)
    BY <2>8 DEF ReadFails
  <2> QED
    BY <1>4, <2>1, <2>2, <2>3, <2>4, <2>5, <2>6, <2>7, <2>8 DEF Reader
<1>5. ASSUME NEW s \in Ids, Deliver(s) \/ Reap(s) \/ Break(s) PROVE policy' = policy
  <2>1. CASE Deliver(s)
    BY <2>1 DEF Deliver
  <2>2. CASE Reap(s)
    BY <2>2 DEF Reap
  <2>3. CASE Break(s)
    BY <2>3 DEF Break
  <2> QED
    BY <1>5, <2>1, <2>2, <2>3
<1> QED
  BY <1>1, <1>2, <1>3, <1>4, <1>5 DEF Next, Runs

LEMMA StepTurns == ASSUME SeqMod % 2 = 0, TurnsInv, [Next]_vars PROVE TurnsInv'
<1>1. SessionInv /\ SessionInv'
  BY StepKeeps DEF TurnsInv
<1>2. policy' = policy
  BY PolicyStays
<1>3. ASSUME NEW e \in Ends, Serving(policy, e) PROVE Turns(e)'
  <2>1. Turns(e) /\ policy[e].server
    BY <1>3 DEF TurnsInv, Serving
  <2>2. CASE UNCHANGED vars
    BY <2>1, <2>2 DEF vars, Turns
  <2>3. ASSUME NEW f \in Ends, Send(f) \/ SendFirst(f) \/ MarkDown(f) PROVE Turns(e)'
    BY <1>1, <1>3, <2>1, <2>3, SendTurns, SendFirstTurns, MarkDownTurns
  <2>4. ASSUME NEW s \in Ids, Writer(s) PROVE Turns(e)'
    <3>1. CASE \/ WriterLeavesStandby(s) \/ JoinReader(s) \/ TakeAck(s) \/ TakeMessage(s)
               \/ AckWritten(s) \/ WriterExits(s)
      BY <1>1, <1>3, <2>1, <3>1, WriterMovesTurns
    <3>2. CASE Connect(s) \/ ReadReply(s) \/ NoReply(s) \/ WriteOut(s) \/ WriteFails(s)
      BY <1>1, <1>3, <2>1, <3>2, ConnectTurns, ReadReplyTurns, NoReplyTurns, WriteOutTurns,
         WriteFailsTurns
    <3> QED
      BY <2>4, <3>1, <3>2 DEF Writer
  <2>5. ASSUME NEW s \in Ids, Reader(s) PROVE Turns(e)'
    <3>1. CASE AcceptNew(s) \/ AcceptExisting(s) \/ AcceptFails(s) \/ AcceptLost(s)
      BY <1>1, <1>3, <2>1, <3>1, AcceptNewTurns, AcceptExistingTurns, AcceptFailsTurns,
         AcceptLostTurns
    <3>2. CASE ReadMessage(s) \/ ReadAck(s) \/ ReaderWakes(s) \/ ReadFails(s)
      BY <1>1, <1>3, <2>1, <3>2, ReaderMovesTurns, ReadFailsTurns
    <3> QED
      BY <2>5, <3>1, <3>2 DEF Reader
  <2>6. ASSUME NEW s \in Ids, Deliver(s) \/ Reap(s) \/ Break(s) PROVE Turns(e)'
    BY <1>1, <1>3, <2>1, <2>6, DeliverTurns, ReapTurns, BreakTurns
  <2> QED
    BY <2>2, <2>3, <2>4, <2>5, <2>6 DEF Next, Runs
<1> QED
  BY <1>1, <1>2, <1>3 DEF TurnsInv

LEMMA TurnsUntie == TurnsInv => NoTie
<1> SUFFICES ASSUME TurnsInv, NEW e \in Ends, Serving(policy, e), NEW b \in SocketsOf(e),
                    sock[b].reader = "accepting", wire[b] # <<>>, Lookup(e) # None
             PROVE  ConnectSeq(b) # sock[rank[e]].cseq
  BY DEF NoTie, Serving
<1>1. SessionInv /\ Turns(e)
  BY DEF TurnsInv
<1>2. b \in Ids
  BY DEF Ids, Ends
<1>3. Even(ConnectSeq(b))
  BY <1>1, <1>2, AtConnectTurns
<1>4. /\ IsSession(sock, rank, link, wire) /\ rank[e] # None /\ sock[rank[e]].state # "closed"
  BY <1>1 DEF SessionInv, Lookup
<1>5. rank[e] \in Ids /\ rank[e] \in SocketsOf(e)
  BY <1>4, RegisteredIsUsed
<1>6. rank[e][1] = e /\ InTurn(e, rank[e], sock[rank[e]], rank)
  BY <1>1, <1>5 DEF SocketsOf, Turns
<1>7. ~Even(sock[rank[e]].cseq)
  BY <1>4, <1>6 DEF InTurn, Waits
<1> QED
  BY <1>3, <1>7

\* connect_seq counts modulo 2^32, an even number, and each side of a session
\* between an end that only connects and one that only accepts moves in turn:
\* the client comes with an even number, accepting() registers the next one
\* and READY makes the client's the same; fault() and RETRY_SESSION lead the
\* client back to an even number, and RESETSESSION to 0.  So no connect
\* record, however late, ties with the registered socket, across faults,
\* refusals, failed replies, resets and mark_down().
THEOREM NeverTies ==
    ASSUME SeqMod % 2 = 0
    PROVE  Spec => []NoTie
<1>1. Init => TurnsInv
  BY StartsInTurn
<1>2. TurnsInv /\ [Next]_vars => TurnsInv'
  BY StepTurns
<1>3. TurnsInv => NoTie
  BY TurnsUntie
<1> QED
  BY <1>1, <1>2, <1>3, PTL DEF Spec
=============================================================================
