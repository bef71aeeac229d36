------------------------------- MODULE Buffer -------------------------------
(***************************************************************************)
(* The buffer of common/buffer.h: a list of segments (ptr), each a piece   *)
(* of a counted block of memory (raw).  A block may be under several       *)
(* segments, of one buffer or of many, and it goes away with the last.     *)
(*                                                                         *)
(* Three things make it more than a list.  Appended bytes go to the free   *)
(* tail of a block the buffer keeps for that (_append_buffer), and extend  *)
(* the last segment when they follow it in memory.  The position of the    *)
(* last access by offset is kept (_last_p), with a list iterator in it.    *)
(* Checksums are kept per block and range, with the value they started     *)
(* from, and are adjusted when the next one starts from another.           *)
(*                                                                         *)
(* A call is one step: buffers are not shared between threads.  Blocks     *)
(* nothing points to are gone; that they are shareable, and the counting   *)
(* itself, is left out.                                                    *)
(***************************************************************************)
EXTENDS Integers, Sequences, FiniteSets, SequencesExt, Bitwise

CONSTANTS
  Buffers,      \* the buffer objects
  NumRaws,      \* bound: blocks alive at once
  Strings,      \* bound: the strings of bytes the callers append
  MaxLen,       \* bound: the length of a buffer
  MaxCalls,     \* bound: the number of calls
  Bases,        \* the values checksums are started from
  Page,         \* the page size, in bytes
  AllocUnit,    \* BUFFER_ALLOC_UNIT
  RawHeader     \* the room a raw_combined takes in its own allocation

BufferAssumption ==
  /\ NumRaws \in Nat /\ MaxLen \in Nat /\ MaxCalls \in Nat
  /\ Page \in Nat \ {0} /\ AllocUnit \in Nat /\ RawHeader \in 0 .. AllocUnit - 1

VARIABLES
  raw,          \* the blocks
  bl,           \* the buffers
  calls,        \* how many calls were made
  call,         \* the last one
  out           \* and what it returned

vars == <<raw, bl, calls, call, out>>

Raws == 1 .. NumRaws
Byte == {0, 1}
Junk == 2                      \* a byte nobody wrote

(***************************************************************************)
(* A checksum is a linear register: as crc32c is, on 3 bits instead of 32. *)
(* Without data crc32c runs over zeros.                                    *)
(***************************************************************************)
Shift(x) == IF x >= 4 THEN ((2 * x) % 8) ^^ 3 ELSE 2 * x
crc32c(crc, d) == FoldLeft(LAMBDA c, b : Shift(c ^^ b), crc, d)
Zeros(n) == [i \in 1 .. n |-> 0]

(***************************************************************************)
(* Segments.                                                               *)
(***************************************************************************)
NoPtr == [raw |-> 0, off |-> 0, len |-> 0]
PtrEnd(p) == p.off + p.len
Narrowed(p, o, n) == [p EXCEPT !.off = @ + o, !.len = n]
unused_tail_length(rw, p) ==
  IF p.raw = 0 THEN 0 ELSE Len(rw[p.raw].data) - PtrEnd(p)

Bytes(rw, p) == SubSeq(rw[p.raw].data, p.off + 1, PtrEnd(p))
Total(ps) == FoldLeft(LAMBDA n, p : n + p.len, 0, ps)
StartOf(ps, i) == Total(SubSeq(ps, 1, i - 1))
String(rw, ps) == FlattenSeq([i \in DOMAIN ps |-> Bytes(rw, ps[i])])
is_aligned(rw, p) == (rw[p.raw].phase + p.off) % Page = 0
is_n_align_sized(p) == p.len % Page = 0

\* the segments that cover n bytes from off, of a list of segments
Greatest(i, j) == IF i > j THEN i ELSE j
Least(i, j) == IF i < j THEN i ELSE j
Segments(ps, off, n) ==
  LET from(i) == Greatest(off - StartOf(ps, i), 0)
      to(i) == Least(off + n - StartOf(ps, i), ps[i].len)
      clip(i) == IF from(i) < to(i) THEN Narrowed(ps[i], from(i), to(i) - from(i)) ELSE NoPtr
  IN  SelectSeq([i \in DOMAIN ps |-> clip(i)], LAMBDA p : p.len > 0)

(***************************************************************************)
(* The kept position: its offset, the segment it is in and the offset      *)
(* there.  `moved' says that the list changed under it: the segment was    *)
(* erased (Gone) or others were put in front.                              *)
(***************************************************************************)
End == 0
Gone == -1
Begin(ps) == [off |-> 0, it |-> IF ps = <<>> THEN End ELSE 1, p |-> 0, moved |-> FALSE]

\* where p bytes after the start of segment i is
RECURSIVE Walk(_, _, _)
Walk(ps, i, p) ==
  IF i > Len(ps) THEN [it |-> End, p |-> p]
  ELSE IF p < ps[i].len THEN [it |-> i, p |-> p]
  ELSE Walk(ps, i + 1, p - ps[i].len)

\* advance() over n bytes; from the end it goes nowhere
Advanced(ps, c, n) ==
  IF n = 0 \/ c.it = End THEN c
  ELSE LET w == Walk(ps, c.it, c.p + n)
       IN  [c EXCEPT !.off = @ + n, !.it = w.it, !.p = w.p]

\* seek() beyond the end throws with the offset not yet set
Sought(ps, off) ==
  IF off > Total(ps)
  THEN [off |-> 0, it |-> End, p |-> off - Total(ps), moved |-> FALSE]
  ELSE Advanced(ps, Begin(ps), off)

\* advance() back over n bytes, segment by segment
RECURSIVE SteppedBack(_, _, _)
SteppedBack(ps, c, n) ==
  IF n = 0 THEN c
  ELSE IF c.p > 0
       THEN LET d == Least(n, c.p)
            IN  SteppedBack(ps, [c EXCEPT !.p = @ - d, !.off = @ - d], n - d)
       ELSE LET i == IF c.it = End THEN Len(ps) ELSE c.it - 1
            IN  SteppedBack(ps, [c EXCEPT !.it = i, !.p = ps[i].len], n)

\* (mutant) The kept position serves whatever the offset.
AccessAtKept(ps, c, off) == IF c.it = End THEN Sought(ps, off) ELSE c

\* where an access at off starts from: the kept position if its offset is off
AccessAt(ps, c, off) ==
  LET s == IF c.off # off THEN Sought(ps, off) ELSE c
  IN  IF s.it = End THEN Sought(ps, s.off) ELSE s

Usable(x, off) == x.last.off # off \/ ~x.last.moved

(***************************************************************************)
(* Buffers.                                                                *)
(***************************************************************************)
Empty == [ptrs |-> <<>>, len |-> 0, app |-> NoPtr, last |-> Begin(<<>>)]
Relist(x, ps) == [x EXCEPT !.ptrs = ps, !.last = Begin(ps)]
Shifted(c, n) ==
  IF c.it = End \/ n = 0 THEN c
  ELSE [c EXCEPT !.it = IF @ = Gone THEN Gone ELSE @ + n, !.moved = TRUE]

push_back(x, p) ==
  IF p.len = 0 THEN x ELSE [x EXCEPT !.ptrs = Append(@, p), !.len = @ + p.len]
push_front(x, p) ==
  IF p.len = 0 THEN x
  ELSE [x EXCEPT !.ptrs = <<p>> \o @, !.len = @ + p.len, !.last = Shifted(@, 1)]

\* append(const ptr&, off, len): n bytes of p, joined to the last segment if they follow it
AppendPart(x, p, off, n) ==
  IF /\ x.ptrs # <<>>
     /\ Last(x.ptrs).raw = p.raw
     /\ PtrEnd(Last(x.ptrs)) = p.off + off
  THEN [x EXCEPT !.ptrs[Len(x.ptrs)].len = @ + n, !.len = @ + n]
  ELSE push_back(x, Narrowed(p, off, n))
AppendParts(x, ps) == FoldLeft(LAMBDA y, p : AppendPart(y, p, 0, p.len), x, ps)

(***************************************************************************)
(* Memory: the blocks and the buffers together, as a call changes them.    *)
(***************************************************************************)
Dead == [data |-> <<>>, phase |-> 0, crc |-> {}]
Memory == [raw |-> raw, bl |-> bl]

Fresh(m) == CHOOSE r \in Raws : m.raw[r] = Dead /\ \A s \in 1 .. r - 1 : m.raw[s] # Dead
create(m, d, ph) ==
  [m EXCEPT !.raw[Fresh(m)] = [data |-> d, phase |-> ph, crc |-> {}]]
Whole(m, d) == [raw |-> Fresh(m), off |-> 0, len |-> Len(d)]
Unwritten(n) == [i \in 1 .. n |-> Junk]
PagePhase(n) == IF n % Page = 0 THEN 0 ELSE 1

\* d written from position off of block r; the checksums of r are dropped if asked
Stored(m, r, off, d) ==
  [m EXCEPT !.raw[r].data =
     [i \in DOMAIN @ |-> IF i > off /\ i <= off + Len(d) THEN d[i - off] ELSE @[i]]]

\* every write drops the checksums of its block
Invalidated(m, r) == [m EXCEPT !.raw[r].crc = {}]

\* _append_buffer.append(data), and the bytes joined to the list
Fill(m, b, d) ==
  LET a == m.bl[b].app
      w == [a EXCEPT !.len = @ + Len(d)]
  IN  IF d = <<>> THEN m
      ELSE [Stored(m, a.raw, PtrEnd(a), d) EXCEPT
              !.bl[b] = AppendPart([@ EXCEPT !.app = w], w, PtrEnd(w) - Len(d), Len(d))]

RoundUp(n, d) == ((n + d - 1) \div d) * d
Provided(m, b, n, ph) ==
  [create(m, Unwritten(n), ph) EXCEPT !.bl[b].app = [raw |-> Fresh(m), off |-> 0, len |-> 0]]

\* append(const char*, len), append(char)
AppendBytes(m, b, d) ==
  LET gap == Least(unused_tail_length(m.raw, m.bl[b].app), Len(d))
      m1 == Fill(m, b, SubSeq(d, 1, gap))
      rest == SubSeq(d, gap + 1, Len(d))
      room == RoundUp(Len(rest) + RawHeader, AllocUnit) - RawHeader
  IN  IF rest = <<>> THEN m1 ELSE Fill(Provided(m1, b, room, 1), b, rest)

reserve(m, b, n) ==
  IF unused_tail_length(m.raw, m.bl[b].app) < n THEN Provided(m, b, n, 1) ELSE m

\* a contiguous_appender for d \o e, that is given the segment p between the two
AppendAround(m, b, d, p, e) ==
  LET inPlace == Fill([Fill(m, b, d) EXCEPT !.bl[b] = push_back(@, p)], b, e)
      q == Whole(m, d \o e)
      apart(x) ==
        IF p.len = 0 THEN push_back(x, q)
        ELSE push_back(push_back(push_back(x, Narrowed(q, 0, Len(d))), p),
                       Narrowed(q, Len(d), Len(e)))
  IN  IF Len(d \o e) > unused_tail_length(m.raw, m.bl[b].app)
      THEN [create(m, d \o e, 1) EXCEPT !.bl[b] = apart(@)]
      ELSE inPlace

\* a page_aligned_appender that is given d and flushed
AppendPages(m, b, d) ==
  LET all == d \o Unwritten(RoundUp(Len(d), Page) - Len(d))
  IN  [create(m, all, 0) EXCEPT !.bl[b] = AppendPart(@, Whole(m, all), 0, Len(d))]

\* the list of b copied to one new block; the kept position stays when there was nothing
rebuild(m, b) ==
  LET d == String(m.raw, m.bl[b].ptrs)
  IN  IF d = <<>> THEN [m EXCEPT !.bl[b].ptrs = <<>>]
      ELSE [create(m, d, PagePhase(Len(d))) EXCEPT !.bl[b] = Relist(@, <<Whole(m, d)>>)]

\* rebuild_aligned(): a segment that is not aligned is copied to a new page-aligned
\* block, with those after it up to one that is aligned at an aligned offset
Good(rw, p) == is_aligned(rw, p) /\ is_n_align_sized(p)
GroupEnd(rw, ps) ==
  CHOOSE k \in DOMAIN ps :
    LET ends(j) == \/ j = Len(ps)
                   \/ Good(rw, ps[j + 1]) /\ Total(SubSeq(ps, 1, j)) % Page = 0
    IN  ends(k) /\ \A j \in 1 .. k - 1 : ~ends(j)

RECURSIVE Realigned(_, _, _, _)
Realigned(m, b, done, ps) ==
  IF ps = <<>> THEN [m EXCEPT !.bl[b] = Relist(@, done)]
  ELSE IF Good(m.raw, ps[1]) THEN Realigned(m, b, Append(done, ps[1]), Tail(ps))
  ELSE LET k == GroupEnd(m.raw, ps)
           d == String(m.raw, SubSeq(ps, 1, k))
           rest == SubSeq(ps, k + 1, Len(ps))
       IN  IF k = 1 /\ is_aligned(m.raw, ps[1])
           THEN Realigned(m, b, Append(done, ps[1]), rest)
           ELSE Realigned(create(m, d, 0), b, Append(done, Whole(m, d)), rest)

\* get_contiguous(): the segments that n bytes at off are spread over become one.
\* Only when they are in one already is the kept position started anew.
Merged(m, b, off, n) ==
  LET x == m.bl[b]
      i == Walk(x.ptrs, 1, off).it
      j == Walk(x.ptrs, 1, off + n - 1).it
      d == String(m.raw, SubSeq(x.ptrs, i, j))
      c == x.last
      last == IF c.it > j THEN [c EXCEPT !.it = @ - (j - i)]
              ELSE IF c.it >= i THEN [c EXCEPT !.it = Gone, !.moved = TRUE]
              ELSE c
      one == SubSeq(x.ptrs, 1, i - 1) \o <<Whole(m, d)>> \o SubSeq(x.ptrs, j + 1, Len(x.ptrs))
  IN  IF i = j THEN [m EXCEPT !.bl[b].last = Begin(x.ptrs)]
      ELSE [create(m, d, PagePhase(Len(d))) EXCEPT
              !.bl[b] = [x EXCEPT !.ptrs = one, !.last = last]]

\* claim_append(), claim_prepend(): the list of c spliced to that of b
claim_append(m, b, c) ==
  [m EXCEPT !.bl[b].ptrs = @ \o m.bl[c].ptrs, !.bl[b].len = @ + m.bl[c].len,
            !.bl[c] = [Relist(@, <<>>) EXCEPT !.len = 0]]
claim_prepend(m, b, c) ==
  [m EXCEPT !.bl[b].ptrs = m.bl[c].ptrs \o @, !.bl[b].len = @ + m.bl[c].len,
            !.bl[b].last = Shifted(@, Len(m.bl[c].ptrs)),
            !.bl[c] = [Relist(@, <<>>) EXCEPT !.len = 0]]

append(m, b, c) ==
  [m EXCEPT !.bl[b].ptrs = @ \o m.bl[c].ptrs, !.bl[b].len = @ + m.bl[c].len]

\* b = c : the list is assigned, and the position kept for the old one stays
Assigned(m, b, c) ==
  [m EXCEPT !.bl[b] = [@ EXCEPT
     !.ptrs = m.bl[c].ptrs, !.len = m.bl[c].len,
     !.last = IF @.it = End THEN @ ELSE [@ EXCEPT !.it = Gone, !.moved = TRUE]]]

\* b = std::move(c) : the append buffers change places, and c is cleared
Moved(m, b, c) ==
  [m EXCEPT !.bl[b] = [Relist(@, m.bl[c].ptrs) EXCEPT
                         !.len = m.bl[c].len, !.app = m.bl[c].app],
            !.bl[c] = Empty]

swap(m, b, c) ==
  [m EXCEPT !.bl[b] = Relist(m.bl[c], m.bl[c].ptrs),
            !.bl[c] = Relist(m.bl[b], m.bl[b].ptrs)]

\* substr_of(c, off, n), and share(c) when that is all of c
substr_of(m, b, c, off, n) ==
  [m EXCEPT !.bl[b] = [Empty EXCEPT !.ptrs = Segments(m.bl[c].ptrs, off, n), !.len = n]]

\* (mutant) The kept position is not started anew.
splicePositioned(m, b, off, n) ==
  LET ps == m.bl[b].ptrs
      rest == Segments(ps, 0, off) \o Segments(ps, off + n, Total(ps) - off - n)
  IN  [m EXCEPT !.bl[b] = [@ EXCEPT !.ptrs = rest, !.len = @ - n]]

\* splice(off, n, claim_by), without and with a buffer that claims
splice(m, b, off, n) ==
  LET ps == m.bl[b].ptrs
      rest == Segments(ps, 0, off) \o Segments(ps, off + n, Total(ps) - off - n)
  IN  [m EXCEPT !.bl[b] = [Relist(@, rest) EXCEPT !.len = @ - n]]
Claimed(m, b, off, n, c) ==
  [splice(m, b, off, n) EXCEPT !.bl[c] = AppendParts(@, Segments(m.bl[b].ptrs, off, n))]

\* d written over the bytes of b from off, segment by segment
WrittenOver(m, ps, off, d) ==
  LET step(a, p) ==
        [m |-> Stored(Invalidated(a.m, p.raw), p.raw, p.off, SubSeq(d, a.done + 1, a.done + p.len)),
         done |-> a.done + p.len]
  IN  FoldLeft(step, [m |-> m, done |-> 0], Segments(ps, off, Len(d))).m

\* crc32(): of each segment the checksum kept for it, adjusted to where this one
\* starts, or a new one that is kept
Known(m, p) == {e \in m.raw[p.raw].crc : e.from = p.off /\ e.to = PtrEnd(p)}
Adjusted(e, crc, n) ==
  IF e.base = crc THEN e.sum ELSE e.sum ^^ crc32c(e.base ^^ crc, Zeros(n))
Summed(a, p) ==
  LET new == crc32c(a.crc, Bytes(a.m.raw, p))
      entry == [from |-> p.off, to |-> PtrEnd(p), base |-> a.crc, sum |-> new]
  IN  IF Known(a.m, p) # {}
      THEN [a EXCEPT !.crc = Adjusted(CHOOSE e \in Known(a.m, p) : TRUE, a.crc, p.len)]
      ELSE [m |-> [a.m EXCEPT !.raw[p.raw].crc = @ \cup {entry}], crc |-> new]
crc32(m, b, base) == FoldLeft(Summed, [m |-> m, crc |-> base], m.bl[b].ptrs)

\* contents_equal(): the two lists walked together, n bytes of equal pieces at a time
RECURSIVE SameFrom(_, _, _)
SameFrom(rw, ps, qs) ==
  \/ ps = <<>>
  \/ LET n == Least(ps[1].len, qs[1].len)
         after(s) == IF s[1].len = n THEN Tail(s)
                     ELSE <<Narrowed(s[1], n, s[1].len - n)>> \o Tail(s)
     IN  /\ Bytes(rw, Narrowed(ps[1], 0, n)) = Bytes(rw, Narrowed(qs[1], 0, n))
         /\ SameFrom(rw, after(ps), after(qs))
contents_equal(m, b, c) ==
  m.bl[b].len = m.bl[c].len /\ SameFrom(m.raw, m.bl[b].ptrs, m.bl[c].ptrs)

\* operator[] walks the list; operator> and operator>= compare by it
At(m, b, n) ==
  LET w == Walk(m.bl[b].ptrs, 1, n) IN m.raw[m.bl[b].ptrs[w.it].raw].data[m.bl[b].ptrs[w.it].off + w.p + 1]
RECURSIVE GreaterFrom(_, _, _, _)
GreaterFrom(m, b, c, n) ==
  IF m.bl[b].len > n /\ m.bl[c].len = n THEN TRUE
  ELSE IF m.bl[b].len = n THEN FALSE
  ELSE \/ At(m, b, n) > At(m, c, n)
       \/ At(m, b, n) = At(m, c, n) /\ GreaterFrom(m, b, c, n + 1)
RECURSIVE GreaterOrEqualFrom(_, _, _, _)
GreaterOrEqualFrom(m, b, c, n) ==
  IF m.bl[c].len = n THEN TRUE
  ELSE IF m.bl[b].len = n THEN FALSE
  ELSE \/ At(m, b, n) > At(m, c, n)
       \/ At(m, b, n) = At(m, c, n) /\ GreaterOrEqualFrom(m, b, c, n + 1)

(***************************************************************************)
(* The calls.                                                              *)
(***************************************************************************)
Referenced(m) ==
  UNION {{p.raw : p \in ToSet(m.bl[b].ptrs)} \cup {m.bl[b].app.raw} : b \in Buffers}
Done(m, c, answer) ==
  /\ calls < MaxCalls /\ calls' = calls + 1
  /\ raw' = [r \in Raws |-> IF r \in Referenced(m) THEN m.raw[r] ELSE Dead]
  /\ bl' = m.bl
  /\ call' = c
  /\ out' = answer

Room == Cardinality({r \in Raws : raw[r] = Dead}) >= 2
Fits(b, n) == bl[b].len + n <= MaxLen
Ranges(b) == {<<o, n>> \in (0 .. MaxLen) \X (1 .. MaxLen) : o + n <= bl[b].len}

AppendCall(b, d) == [op |-> "append", to |-> b, data |-> d]

AppendData(b, d) ==
  /\ Room /\ Fits(b, Len(d))
  /\ Done(AppendBytes(Memory, b, d), AppendCall(b, d), <<>>)

\* append_zero(), and push_back() or append() of any new segment
AppendRaw(b, d) ==
  /\ Room /\ Fits(b, Len(d))
  /\ Done([create(Memory, d, 1) EXCEPT !.bl[b] = push_back(@, Whole(Memory, d))],
          AppendCall(b, d), <<>>)

PushFront(b, d) ==
  /\ Room /\ Fits(b, Len(d))
  /\ Done([create(Memory, d, 1) EXCEPT !.bl[b] = push_front(@, Whole(Memory, d))],
          [AppendCall(b, d) EXCEPT !.op = "prepend"], <<>>)

AppendContiguous(b, d, p, e) ==
  /\ Room /\ Fits(b, Len(d) + p.len + Len(e))
  /\ Done(AppendAround(Memory, b, d, p, e),
          AppendCall(b, d \o (IF p = NoPtr THEN <<>> ELSE Bytes(raw, p)) \o e), <<>>)

AppendPageAligned(b, d) ==
  /\ Room /\ Fits(b, Len(d))
  /\ Done(AppendPages(Memory, b, d), AppendCall(b, d), <<>>)

Between(op, b, c) == [op |-> op, to |-> b, from |-> c]
Span(op, b, off, n) == [op |-> op, of |-> b, off |-> off, len |-> n]

TakeList(b, c) ==
  /\ Fits(b, bl[c].len)
  /\ \/ Done(append(Memory, b, c), Between("append_list", b, c), <<>>)
     \/ Done(claim_append(Memory, b, c), Between("claim_append", b, c), <<>>)
     \/ Done(claim_prepend(Memory, b, c), Between("claim_prepend", b, c), <<>>)

\* operator=, copying and moving; claim() is the second after a clear()
Assign(b, c) ==
  \/ Done(Assigned(Memory, b, c), Between("assign", b, c), <<>>)
  \/ Done(Moved(Memory, b, c), Between("move", b, c), <<>>)
  \/ Done(swap(Memory, b, c), Between("swap", b, c), <<>>)
  \/ Done(claim_append([Memory EXCEPT !.bl[b] = Empty], b, c), Between("move", b, c), <<>>)

SubstrOf(b, c, off, n) ==
  Done(substr_of(Memory, b, c, off, n), Span("substr", c, off, n) @@ Between("substr", b, c), <<>>)

Splice(b, off, n) == Done(splice(Memory, b, off, n), Span("drop", b, off, n), <<>>)
SpliceTo(b, off, n, c) ==
  /\ Fits(c, n)
  /\ Done(Claimed(Memory, b, off, n, c), Span("cut", b, off, n) @@ [to |-> c], <<>>)
Clear(b) == Done([Memory EXCEPT !.bl[b] = Empty], Span("drop", b, 0, bl[b].len), <<>>)

\* rebuild(), c_str(), rebuild_aligned(), reserve()
Layout == [op |-> "layout"]
Rebuild(b) == Room /\ Done(rebuild(Memory, b), Layout, <<>>)
CStr(b) == Room /\ Len(bl[b].ptrs) > 1 /\ Done(rebuild(Memory, b), Layout, <<>>)
RebuildAligned(b) == Room /\ Done(Realigned(Memory, b, <<>>, bl[b].ptrs), Layout, <<>>)
Reserve(b) == Room /\ Done(reserve(Memory, b, Page), Layout, <<>>)

GetContiguous(b, off, n) ==
  /\ Room
  /\ Done(Merged(Memory, b, off, n), Span("read", b, off, n),
          SubSeq(String(raw, bl[b].ptrs), off + 1, off + n))

\* copy(off, len): the kept position serves if it is at off, and moves on
Copy(b, off, n) ==
  LET x == bl[b]
      c == AccessAt(x.ptrs, x.last, off)
      from == <<Narrowed(x.ptrs[c.it], c.p, x.ptrs[c.it].len - c.p)>>
                \o SubSeq(x.ptrs, c.it + 1, Len(x.ptrs))
  IN  /\ Usable(x, off)
      /\ Done([Memory EXCEPT !.bl[b].last = Advanced(x.ptrs, c, n)], Span("read", b, off, n),
              SubSeq(String(raw, from), 1, n))

\* copy(off, len, string) has no check of its own: the iterator throws at the end
CopyBeyond(b, off, n) ==
  LET x == bl[b]
      c == Sought(x.ptrs, off)
  IN  /\ Usable(x, off) /\ x.last.off # off /\ off + n > x.len
      /\ Done([Memory EXCEPT !.bl[b].last = Advanced(x.ptrs, c, Total(x.ptrs) - c.off)],
              Layout, <<>>)

CopyTo(b, off, n, d) ==
  LET x == bl[b]
      c == AccessAt(x.ptrs, x.last, off)
      at == StartOf(x.ptrs, c.it) + c.p
      read == [Memory EXCEPT !.bl[b].last = Advanced(x.ptrs, c, n)]
  IN  /\ Usable(x, off) /\ Fits(d, n)
      /\ Done([read EXCEPT !.bl[d] = AppendParts(@, Segments(x.ptrs, at, n))],
              Span("append_part", b, off, n) @@ Between("append_part", d, b), <<>>)

\* an iterator of the caller's: seek(off), advance(-back), operator*
Step(b, off, back) ==
  LET ps == bl[b].ptrs
      c == SteppedBack(ps, Sought(ps, off), back)
  IN  Done(Memory, Span("read", b, off - back, 1), Bytes(raw, Narrowed(ps[c.it], c.p, 1)))

\* a write through b shows in the buffers that share the memory; it is exact in b
\* unless b has some memory twice
CellsOf(b) == UNION {{<<p.raw, i>> : i \in p.off .. PtrEnd(p) - 1} : p \in ToSet(bl[b].ptrs)}
WriteCall(b, off, d) ==
  [op |-> "write", of |-> b, off |-> off, data |-> d,
   exact |-> Cardinality(CellsOf(b)) = bl[b].len,
   seen |-> {c \in Buffers : CellsOf(c) \cap CellsOf(b) # {}}]

CopyIn(b, off, d) ==
  LET x == bl[b]
      c == AccessAt(x.ptrs, x.last, off)
      m == [Memory EXCEPT !.bl[b].last = Advanced(x.ptrs, c, Len(d))]
      at == StartOf(x.ptrs, c.it) + c.p
  IN  /\ off + Len(d) <= x.len /\ Usable(x, off)
      /\ Done(WrittenOver(m, x.ptrs, at, d), WriteCall(b, off, d), <<>>)

Zero(b, off, n) ==
  Done(WrittenOver(Memory, bl[b].ptrs, off, Zeros(n)), WriteCall(b, off, Zeros(n)), <<>>)

Crc32(b, base) ==
  LET s == crc32(Memory, b, base)
  IN  Done(s.m, [op |-> "crc", of |-> b, base |-> base], <<s.crc>>)

Compare(b, c) ==
  Done(Memory, [op |-> "compare", of |-> b, with |-> c],
       << contents_equal(Memory, b, c), GreaterFrom(Memory, b, c, 0),
          GreaterOrEqualFrom(Memory, b, c, 0) >>)

Init ==
  /\ raw = [r \in Raws |-> Dead]
  /\ bl = [b \in Buffers |-> Empty]
  /\ calls = 0 /\ call = [op |-> "none"] /\ out = <<>>

AppendNext ==
  \E b \in Buffers : \E d \in Strings :
    \/ AppendData(b, d) \/ AppendRaw(b, d) \/ PushFront(b, d) \/ AppendPageAligned(b, d)
    \/ \E c \in Buffers \ {b}, e \in Strings :
          \E p \in {NoPtr} \cup {bl[c].ptrs[i] : i \in DOMAIN bl[c].ptrs} :
             AppendContiguous(b, d, p, e)

PairNext ==
  \E b \in Buffers : \E c \in Buffers \ {b} :
    \/ TakeList(b, c) \/ Assign(b, c) \/ Compare(b, c)
    \/ \E r \in Ranges(c) : SubstrOf(b, c, r[1], r[2])
    \/ \E r \in Ranges(b) : SpliceTo(b, r[1], r[2], c) \/ CopyTo(b, r[1], r[2], c)

OneNext ==
  \E b \in Buffers :
    \/ Clear(b) \/ Rebuild(b) \/ CStr(b) \/ RebuildAligned(b) \/ Reserve(b)
    \/ \E base \in Bases : Crc32(b, base)
    \/ \E d \in Strings : \E off \in 0 .. MaxLen : CopyIn(b, off, d)
    \/ \E off \in 0 .. MaxLen + 1 : CopyBeyond(b, off, 1)
    \/ \E r \in Ranges(b) :
          \/ Splice(b, r[1], r[2]) \/ GetContiguous(b, r[1], r[2])
          \/ Copy(b, r[1], r[2]) \/ Zero(b, r[1], r[2])
          \/ Step(b, r[1] + r[2], r[2])

Next == AppendNext \/ PairNext \/ OneNext
Spec == Init /\ [][Next]_vars

(***************************************************************************)
(* Properties.                                                             *)
(***************************************************************************)

\* The length of a buffer is that of its segments; none is empty, each lies within
\* its block in bytes that were written, and the append buffer starts its block.
Sound ==
  \A b \in Buffers :
    LET x == bl[b] IN
      /\ x.len = Total(x.ptrs)
      /\ \A p \in ToSet(x.ptrs) :
            /\ p.raw \in Raws /\ p.len > 0 /\ PtrEnd(p) <= Len(raw[p.raw].data)
            /\ Junk \notin ToSet(Bytes(raw, p))
      /\ x.app # NoPtr => x.app.off = 0 /\ x.app.len <= Len(raw[x.app.raw].data)

\* The position kept for the next access is where its offset says (or at the end, from
\* where the next access seeks), unless a segment was put before it or taken from under it.
CursorSound ==
  \A b \in Buffers :
    LET c == bl[b].last IN
      \/ c.moved \/ c.it = End
      \/ /\ c.it \in DOMAIN bl[b].ptrs
         /\ c.p < bl[b].ptrs[c.it].len
         /\ c.off = StartOf(bl[b].ptrs, c.it) + c.p

\* A checksum that is kept for a range of a block is that of the bytes there now,
\* whatever was written through which segment since.
CrcSound ==
  \A r \in Raws : \A e \in raw[r].crc :
    e.sum = crc32c(e.base, SubSeq(raw[r].data, e.from + 1, e.to))

\* A buffer is a string of bytes: every call does to the strings, and returns, what the
\* call promises, however the segments, the shared blocks and the caches lie.
Abstract == INSTANCE BufferSpec WITH
  content <- [b \in Buffers |-> String(raw, bl[b].ptrs)], Crc <- crc32c
IsString == Abstract!Spec
=============================================================================
