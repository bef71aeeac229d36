------------------------ MODULE DispatchQueueProofs ------------------------
(***************************************************************************)
(* Proofs about the dispatch queue, for any messages, connections and      *)
(* priorities, and any number of them: the queue agrees with its history,  *)
(* an item is at one place, the code of a failed connection comes last, no *)
(* thread sleeps while it has work, and the classes take turns.            *)
(*                                                                         *)
(* The first part says what the calls of a PrioritizedQueue do, for any    *)
(* classes, priorities, costs and items: each changes the one FIFO it is   *)
(* about, or those of one class, and leaves the queue sound.               *)
(***************************************************************************)
EXTENDS DispatchQueue, SetInduction, SequenceTheorems, TLAPS

-----------------------------------------------------------------------------
(* The prioritized queue                                                    *)

\* A map from finitely many numbers.
IsMap(f) == f = [x \in DOMAIN f |-> f[x]] /\ DOMAIN f \in SUBSET Nat /\ IsFiniteSet(DOMAIN f)

Entries(I) == [cost : Nat, item : I]
Lens(q) == [k \in DOMAIN q |-> Len(q[k])]

\* The FIFOs of a SubQueue for items in I, none of them empty, and their size.
IsLines(q, I) == IsMap(q) /\ \A k \in DOMAIN q : q[k] \in Seq(Entries(I)) /\ q[k] # <<>>
Size(q) == SumFunctionOnSet(Lens(q), DOMAIN q)

\* A SubQueue: the iterator is at one of its FIFOs, the size is that of all.
IsSubQueue(s, I) ==
    /\ s = [q |-> s.q, cur |-> s.cur, tokens |-> s.tokens, size |-> s.size]
    /\ IsLines(s.q, I)
    /\ IF DOMAIN s.q = {} THEN s.cur = End ELSE s.cur \in DOMAIN s.q
    /\ s.tokens \in 0..MaxTokens
    /\ s.size = Size(s.q)

\* The FIFO of class k, which is empty when there is none.
Line(q, k) == IF k \in DOMAIN q THEN q[k] ELSE <<>>

\* r is q with the FIFO l for class k.
Becomes(q, k, l, r) ==
    /\ DOMAIN r = IF l = <<>> THEN DOMAIN q \ {k} ELSE DOMAIN q \cup {k}
    /\ \A j : Line(r, j) = IF j = k THEN l ELSE Line(q, j)
    /\ Size(r) = Size(q) + Len(l) - Len(Line(q, k))

\* r is the SubQueue s with entry e for class k.
SubPuts(s, k, e, r) ==
    /\ DOMAIN r.q = DOMAIN s.q \cup {k}
    /\ \A j : Line(r.q, j) = IF j = k THEN Append(Line(s.q, k), e) ELSE Line(s.q, j)
    /\ DOMAIN s.q # {} => r.cur = s.cur

\* n is the class after k in q, round the corner after the last one.
IsAfter(q, k, n) ==
    /\ n \in DOMAIN q
    /\ \A l \in DOMAIN q : l > k => k < n /\ n <= l
    /\ n <= k => \A l \in DOMAIN q : n <= l /\ l <= k

\* r is the SubQueue s without class k.
SubDrops(s, k, r) ==
    /\ \A j : Line(r.q, j) = IF j = k THEN <<>> ELSE Line(s.q, j)
    /\ DOMAIN r.q # {} => IF s.cur = k THEN IsAfter(r.q, k, r.cur) ELSE r.cur = s.cur

-----------------------------------------------------------------------------
(* Maps                                                                    *)

\* The least member of a set of numbers.
LEMMA MinIsLeast ==
    ASSUME NEW S \in SUBSET Nat, S # {}
    PROVE  Min(S) \in S /\ \A n \in S : Min(S) <= n
BY LeastNat DEF Min

\* The greatest member of a finite set of numbers.
LEMMA MaxIsGreatest ==
    ASSUME NEW S \in SUBSET Nat, IsFiniteSet(S), S # {}
    PROVE  Max(S) \in S /\ \A n \in S : n <= Max(S)
<1>1. \E m \in S : \A n \in S : m >= n
  BY GreatestNat
<1>2. Max(S) \in S /\ \A n \in S : Max(S) >= n
  BY <1>1 DEF Max
<1> QED
  BY <1>2

\* A map with one more or one other value.
LEMMA WithEffect ==
    ASSUME NEW f, IsMap(f), NEW x \in Nat, NEW v
    PROVE  IsMap(With(f, x, v)) /\ DOMAIN With(f, x, v) = DOMAIN f \cup {x}
<1>1. IsFiniteSet(DOMAIN f \cup {x})
  BY FS_AddElement DEF IsMap
<1> QED
  BY <1>1 DEF IsMap, With

\* A map with one value less.
LEMMA WithoutEffect ==
    ASSUME NEW f, IsMap(f), NEW x
    PROVE  IsMap(Without(f, x)) /\ DOMAIN Without(f, x) = DOMAIN f \ {x}
<1>1. IsFiniteSet(DOMAIN f \ {x})
  BY FS_RemoveElement DEF IsMap
<1> QED
  BY <1>1 DEF IsMap, Without

\* The next class is the next one.
LEMMA AfterIsAfter ==
    ASSUME NEW q, IsMap(q), NEW k \in Nat
    PROVE  IF DOMAIN q = {} THEN After(q, k) = End ELSE IsAfter(q, k, After(q, k))
<1> DEFINE later == {l \in DOMAIN q : l > k}
<1>1. CASE DOMAIN q = {}
  BY <1>1 DEF After, Begin
<1>2. CASE DOMAIN q # {} /\ later = {}
  <2>1. After(q, k) = Min(DOMAIN q)
    BY <1>2 DEF After, Begin
  <2>2. After(q, k) \in DOMAIN q /\ \A n \in DOMAIN q : After(q, k) <= n
    BY <1>2, <2>1, MinIsLeast DEF IsMap
  <2>3. \A l \in DOMAIN q : l \in Nat /\ ~(l > k)
    BY <1>2 DEF IsMap
  <2> QED
    BY <1>2, <2>2, <2>3 DEF IsAfter
<1>3. CASE later # {}
  <2>1. After(q, k) = Min(later)
    BY <1>3 DEF After
  <2>2. later \in SUBSET Nat
    BY DEF IsMap
  <2>3. After(q, k) \in later /\ \A n \in later : After(q, k) <= n
    BY <1>3, <2>1, <2>2, MinIsLeast
  <2>4. After(q, k) \in DOMAIN q /\ After(q, k) > k /\ After(q, k) \in Nat
    BY <2>2, <2>3
  <2>5. \A l \in DOMAIN q : l > k => k < After(q, k) /\ After(q, k) <= l
    BY <2>3, <2>4
  <2> QED
    BY <1>3, <2>4, <2>5 DEF IsAfter
<1> QED
  BY <1>1, <1>2, <1>3

\* What the size is made of.
LEMMA LensType ==
    ASSUME NEW I, NEW q, IsLines(q, I)
    PROVE  /\ \A k \in DOMAIN q : Lens(q)[k] \in Nat /\ Lens(q)[k] = Len(q[k])
           /\ Size(q) \in Nat /\ IsFiniteSet(DOMAIN q)
<1>1. \A k \in DOMAIN q : Lens(q)[k] \in Nat /\ Lens(q)[k] = Len(q[k])
  BY LenProperties DEF Lens, IsLines
<1> QED
  BY <1>1, SumNat DEF IsMap, IsLines, Size

-----------------------------------------------------------------------------
(* SubQueue                                                                *)

\* A SubQueue as its constructor leaves it.
LEMMA EmptySubQueueSound ==
    ASSUME NEW I
    PROVE  IsSubQueue(EmptySubQueue, I) /\ DOMAIN EmptySubQueue.q = {}
<1>1. IsLines(EmptyMap, I) /\ DOMAIN EmptyMap = {}
  BY FS_EmptySet DEF IsLines, IsMap, EmptyMap
<1>2. Size(EmptyMap) = 0
  BY <1>1, SumEmpty DEF Size
<1>3. 0 \in 0..MaxTokens
  BY QueueAssumption
<1> QED
  BY <1>1, <1>2, <1>3 DEF IsSubQueue, EmptySubQueue

\* The FIFO of k becomes l.
LEMMA LineChange ==
    ASSUME NEW I, NEW q, IsLines(q, I), NEW k \in Nat,
           NEW l \in Seq(Entries(I)), l # <<>>
    PROVE  IsLines(With(q, k, l), I) /\ Becomes(q, k, l, With(q, k, l))
<1>0. PICK r : r = With(q, k, l)
  OBVIOUS
<1>1. /\ IsMap(r) /\ DOMAIN r = DOMAIN q \cup {k} /\ r[k] = l
      /\ \A j \in DOMAIN q \ {k} : r[j] = q[j]
  <2>1. IsMap(q)
    BY DEF IsLines
  <2>2. IsMap(r) /\ DOMAIN r = DOMAIN q \cup {k}
    BY <1>0, <2>1, WithEffect
  <2> QED
    BY <1>0, <2>2 DEF With
<1>2. IsLines(r, I)
  BY <1>1 DEF IsLines
<1>3. \A j : Line(r, j) = IF j = k THEN l ELSE Line(q, j)
  BY <1>1 DEF Line
<1> DEFINE m == Lens(q)
           n == Lens(r)
<1>4. /\ IsFiniteSet(DOMAIN q) /\ Size(q) \in Nat
      /\ \A j \in DOMAIN q : m[j] \in Nat /\ m[j] = Len(q[j])
  BY LensType
<1>5. \A j \in DOMAIN r : n[j] \in Nat /\ n[j] = Len(r[j])
  BY <1>2, LensType
<1>6. /\ n[k] \in Int /\ n[k] = Len(l)
      /\ \A j \in DOMAIN q \ {k} : n[j] = m[j]
      /\ \A j \in DOMAIN q : m[j] \in Int
  BY <1>1, <1>4, <1>5
<1>7. Size(q) = SumFunctionOnSet(m, DOMAIN q) /\ Size(r) = SumFunctionOnSet(n, DOMAIN q \cup {k})
  BY <1>1 DEF Size
<1> HIDE DEF m, n
<1>8. SumFunctionOnSet(n, DOMAIN q \cup {k}) =
        SumFunctionOnSet(m, DOMAIN q) + n[k] - (IF k \in DOMAIN q THEN m[k] ELSE 0)
  BY <1>4, <1>6, SumPut
<1>9. (IF k \in DOMAIN q THEN m[k] ELSE 0) = Len(Line(q, k))
  <2>1. Len(<<>>) = 0
    BY EmptySeq
  <2> QED
    BY <1>4, <2>1 DEF Line
<1>10. Size(r) = Size(q) + Len(l) - Len(Line(q, k))
  BY <1>6, <1>7, <1>8, <1>9
<1> QED
  BY <1>0, <1>1, <1>2, <1>3, <1>10 DEF Becomes

\* The FIFO of k goes.
LEMMA LineLoss ==
    ASSUME NEW I, NEW q, IsLines(q, I), NEW k \in DOMAIN q
    PROVE  IsLines(Without(q, k), I) /\ Becomes(q, k, <<>>, Without(q, k))
<1>0. PICK r : r = Without(q, k)
  OBVIOUS
<1>1. IsMap(r) /\ DOMAIN r = DOMAIN q \ {k} /\ \A j \in DOMAIN q \ {k} : r[j] = q[j]
  <2>1. IsMap(q)
    BY DEF IsLines
  <2>2. IsMap(r) /\ DOMAIN r = DOMAIN q \ {k}
    BY <1>0, <2>1, WithoutEffect
  <2> QED
    BY <1>0, <2>2 DEF Without
<1>2. IsLines(r, I)
  BY <1>1 DEF IsLines
<1>3. \A j : Line(r, j) = IF j = k THEN <<>> ELSE Line(q, j)
  BY <1>1 DEF Line
<1> DEFINE m == Lens(q)
           n == Lens(r)
<1>4. /\ IsFiniteSet(DOMAIN q) /\ Size(q) \in Nat
      /\ \A j \in DOMAIN q : m[j] \in Nat /\ m[j] = Len(q[j])
  BY LensType
<1>5. IsFiniteSet(DOMAIN r) /\ Size(r) \in Nat /\ \A j \in DOMAIN r : n[j] \in Nat /\ n[j] = Len(r[j])
  BY <1>2, LensType
<1>6. /\ \A j \in DOMAIN r : m[j] \in Int /\ n[j] = m[j]
      /\ \A j \in DOMAIN q : m[j] \in Int
  BY <1>1, <1>4, <1>5
<1>7. Size(q) = SumFunctionOnSet(m, DOMAIN q) /\ Size(r) = SumFunctionOnSet(n, DOMAIN r)
  BY DEF Size
<1> HIDE DEF m, n
<1>8. SumFunctionOnSet(m, DOMAIN q) = m[k] + SumFunctionOnSet(m, DOMAIN q \ {k})
  BY <1>4, <1>6, SumSplit
<1>9. SumFunctionOnSet(n, DOMAIN r) = SumFunctionOnSet(m, DOMAIN r)
  BY <1>5, <1>6, SumSame
<1>10. Size(q) = Len(q[k]) + Size(r)
  BY <1>1, <1>4, <1>7, <1>8, <1>9
<1>11. Len(<<>>) = 0 /\ Len(Line(q, k)) = Len(q[k])
  BY EmptySeq DEF Line
<1>12. Size(r) = Size(q) + Len(<<>>) - Len(Line(q, k))
  BY <1>4, <1>5, <1>10, <1>11
<1> QED
  BY <1>0, <1>1, <1>2, <1>3, <1>12 DEF Becomes

\* The FIFO of a class, with or without items.
LEMMA LineType ==
    ASSUME NEW I, NEW q, IsLines(q, I), NEW k
    PROVE  Line(q, k) \in Seq(Entries(I)) /\ (k \in DOMAIN q <=> Line(q, k) # <<>>)
BY EmptySeq DEF IsLines, Line

\* enqueue() appends to the FIFO of the class, and leaves the iterator.
LEMMA SubEnqueueEffect ==
    ASSUME NEW I, NEW s, IsSubQueue(s, I), NEW k \in Nat, NEW c \in Nat, NEW x \in I,
           NEW r, r = SubEnqueue(s, k, c, x)
    PROVE  IsSubQueue(r, I) /\ SubPuts(s, k, [cost |-> c, item |-> x], r)
<1> DEFINE e == [cost |-> c, item |-> x]
           l == Append(Line(s.q, k), e)
           q == With(s.q, k, l)
<1>1. IsLines(s.q, I) /\ Line(s.q, k) \in Seq(Entries(I)) /\ Len(Line(s.q, k)) \in Nat
  BY LineType, LenProperties DEF IsSubQueue
<1>2. e \in Entries(I)
  BY DEF Entries
<1>3. l \in Seq(Entries(I)) /\ l # <<>> /\ Len(l) = Len(Line(s.q, k)) + 1
  BY <1>1, <1>2, AppendProperties
<1> HIDE DEF l
<1>4. /\ IsLines(q, I) /\ DOMAIN q = DOMAIN s.q \cup {k}
      /\ \A j : Line(q, j) = IF j = k THEN l ELSE Line(s.q, j)
      /\ Size(q) = Size(s.q) + Len(l) - Len(Line(s.q, k))
  <2>1. IsLines(q, I) /\ Becomes(s.q, k, l, q)
    BY <1>1, <1>3, LineChange
  <2> QED
    BY <1>3, <2>1 DEF Becomes
<1>5. Size(s.q) \in Nat /\ s.size = Size(s.q) /\ Size(q) = s.size + 1
  BY <1>1, <1>3, <1>4, LensType DEF IsSubQueue
<1>6. s = [q |-> s.q, cur |-> s.cur, tokens |-> s.tokens, size |-> s.size]
  BY DEF IsSubQueue
<1>7. q = With(s.q, k, Append(IF k \in DOMAIN s.q THEN s.q[k] ELSE <<>>, e))
  BY DEF Line, l
<1>8. r = [q |-> q, cur |-> IF s.cur = End THEN Begin(q) ELSE s.cur, tokens |-> s.tokens,
           size |-> s.size + 1]
  BY <1>6, <1>7 DEF SubEnqueue
<1> HIDE DEF q
<1>9. DOMAIN q # {} /\ DOMAIN q \in SUBSET Nat
  BY <1>4 DEF IsLines, IsMap
<1>10. r.q = q /\ r.tokens = s.tokens /\ r.size = Size(q)
       /\ r.cur = IF s.cur = End THEN Begin(q) ELSE s.cur
  BY <1>5, <1>8
<1>11. Begin(q) \in DOMAIN q
  BY <1>9, MinIsLeast DEF Begin
<1>12. DOMAIN s.q # {} => s.cur \in DOMAIN s.q /\ s.cur # End
  BY <1>4, <1>9 DEF IsSubQueue, End
<1>13. r.cur \in DOMAIN q
  BY <1>4, <1>10, <1>11, <1>12 DEF IsSubQueue
<1>14. s.tokens \in 0..MaxTokens
  BY DEF IsSubQueue
<1>15. IsSubQueue(r, I)
  BY <1>4, <1>8, <1>9, <1>10, <1>13, <1>14 DEF IsSubQueue
<1> QED
  BY <1>4, <1>10, <1>12, <1>15 DEF l, SubPuts

\* pop_front() takes the head of the FIFO at the iterator, which goes on.
LEMMA SubPopEffect ==
    ASSUME NEW I, NEW s, IsSubQueue(s, I), DOMAIN s.q # {}, NEW r, r = SubPop(s)
    PROVE  /\ IsSubQueue(r, I) /\ r.tokens = s.tokens
           /\ \A j : Line(r.q, j) = IF j = s.cur THEN Tail(Line(s.q, j)) ELSE Line(s.q, j)
           /\ DOMAIN r.q \subseteq DOMAIN s.q
           /\ DOMAIN r.q # {} => IsAfter(r.q, s.cur, r.cur)
<1> DEFINE l == s.q[s.cur]
           rest == Tail(l)
           q == IF rest = <<>> THEN Without(s.q, s.cur) ELSE With(s.q, s.cur, rest)
<1>1. /\ IsLines(s.q, I) /\ s.cur \in DOMAIN s.q /\ s.cur \in Nat
      /\ s = [q |-> s.q, cur |-> s.cur, tokens |-> s.tokens, size |-> s.size]
      /\ s.tokens \in 0..MaxTokens /\ s.size = Size(s.q)
  BY DEF IsSubQueue, IsLines, IsMap
<1>2. l \in Seq(Entries(I)) /\ l # <<>> /\ l = Line(s.q, s.cur)
  BY <1>1 DEF IsLines, Line
<1>3. rest \in Seq(Entries(I)) /\ Len(rest) = Len(l) - 1 /\ Len(l) \in Nat
  BY <1>2, HeadTailProperties, LenProperties
<1>4. r = [q |-> q, cur |-> After(q, s.cur), tokens |-> s.tokens, size |-> s.size - 1]
  BY <1>1 DEF SubPop
<1> HIDE DEF rest
<1>5. /\ IsLines(q, I) /\ DOMAIN q \subseteq DOMAIN s.q
      /\ \A j : Line(q, j) = IF j = s.cur THEN rest ELSE Line(s.q, j)
      /\ Size(q) = Size(s.q) - 1
  <2>0. Size(s.q) \in Nat
    BY <1>1, LensType
  <2>1. CASE rest = <<>>
    <3>1. q = Without(s.q, s.cur) /\ Len(l) = 1
      BY <1>3, <2>1, EmptySeq
    <3>2. IsLines(q, I) /\ Becomes(s.q, s.cur, <<>>, q)
      BY <1>1, <3>1, LineLoss
    <3> QED
      BY <1>2, <1>3, <2>0, <2>1, <3>1, <3>2, EmptySeq DEF Becomes
  <2>2. CASE rest # <<>>
    <3>1. q = With(s.q, s.cur, rest)
      BY <2>2
    <3>2. IsLines(q, I) /\ Becomes(s.q, s.cur, rest, q)
      BY <1>1, <1>3, <2>2, <3>1, LineChange
    <3> HIDE DEF q, l
    <3> QED
      BY <1>1, <1>2, <1>3, <2>0, <2>2, <3>2 DEF Becomes
  <2> QED
    BY <2>1, <2>2
<1> HIDE DEF q
<1>6. r.q = q /\ r.tokens = s.tokens /\ r.size = Size(q) /\ r.cur = After(q, s.cur)
  BY <1>1, <1>4, <1>5
<1>7. IF DOMAIN q = {} THEN r.cur = End ELSE IsAfter(q, s.cur, r.cur)
  <2>1. IsMap(q)
    BY <1>5 DEF IsLines
  <2>2. IF DOMAIN q = {} THEN After(q, s.cur) = End ELSE IsAfter(q, s.cur, After(q, s.cur))
    BY <1>1, <2>1, AfterIsAfter
  <2> QED
    BY <1>6, <2>2
<1>8. IF DOMAIN q = {} THEN r.cur = End ELSE r.cur \in DOMAIN q
  BY <1>7 DEF IsAfter
<1>9. IsSubQueue(r, I)
  BY <1>1, <1>4, <1>5, <1>6, <1>8 DEF IsSubQueue
<1> QED
  BY <1>2, <1>5, <1>6, <1>7, <1>9 DEF rest

\* remove_by_class() takes the FIFO of the class, and the iterator goes on if
\* it was there.
LEMMA SubRemoveEffect ==
    ASSUME NEW I, NEW s, IsSubQueue(s, I), NEW k \in Nat, NEW r, r = SubRemove(s, k)
    PROVE  IsSubQueue(r, I) /\ SubDrops(s, k, r)
<1>1. CASE k \notin DOMAIN s.q
  <2>1. r = s /\ \A j : Line(s.q, j) = IF j = k THEN <<>> ELSE Line(s.q, j)
    BY <1>1 DEF SubRemove, Line
  <2>2. DOMAIN s.q # {} => s.cur # k
    BY <1>1 DEF IsSubQueue
  <2> QED
    BY <2>1, <2>2 DEF SubDrops
<1>2. CASE k \in DOMAIN s.q
  <2> DEFINE q == Without(s.q, k)
  <2>1. /\ IsLines(s.q, I) /\ s.cur \in DOMAIN s.q
        /\ s = [q |-> s.q, cur |-> s.cur, tokens |-> s.tokens, size |-> s.size]
        /\ s.tokens \in 0..MaxTokens /\ s.size = Size(s.q)
    BY <1>2 DEF IsSubQueue
  <2>2. r = [q |-> q, cur |-> IF s.cur = k THEN After(q, k) ELSE s.cur, tokens |-> s.tokens,
             size |-> s.size - Len(s.q[k])]
    BY <1>2, <2>1 DEF SubRemove
  <2>3. /\ IsLines(q, I) /\ DOMAIN q = DOMAIN s.q \ {k}
        /\ \A j : Line(q, j) = IF j = k THEN <<>> ELSE Line(s.q, j)
        /\ Size(q) = Size(s.q) - Len(s.q[k])
    <3>1. IsLines(q, I) /\ Becomes(s.q, k, <<>>, q)
      BY <1>2, <2>1, LineLoss
    <3>2. Len(<<>>) = 0 /\ Len(s.q[k]) \in Nat /\ Size(s.q) \in Nat
      BY <1>2, <2>1, LensType, EmptySeq
    <3> HIDE DEF q
    <3> QED
      BY <1>2, <3>1, <3>2 DEF Becomes, Line
  <2> HIDE DEF q
  <2>4. r.q = q /\ r.tokens = s.tokens /\ r.size = Size(q)
        /\ r.cur = IF s.cur = k THEN After(q, k) ELSE s.cur
    BY <2>1, <2>2, <2>3
  <2>5. IsMap(q)
    BY <2>3 DEF IsLines
  <2>6. IF DOMAIN q = {} THEN After(q, k) = End ELSE IsAfter(q, k, After(q, k))
    BY <2>5, AfterIsAfter
  <2>7. DOMAIN q # {} => IF s.cur = k THEN IsAfter(q, k, r.cur) ELSE r.cur = s.cur
    BY <2>4, <2>6
  <2>8. IF DOMAIN q = {} THEN r.cur = End ELSE r.cur \in DOMAIN q
    <3>1. DOMAIN q = {} => s.cur = k
      BY <2>1, <2>3
    <3> QED
      BY <2>1, <2>3, <2>4, <2>6, <2>7, <3>1 DEF IsAfter
  <2>9. IsSubQueue(r, I)
    BY <2>1, <2>2, <2>3, <2>4, <2>8 DEF IsSubQueue
  <2> QED
    BY <2>3, <2>4, <2>7, <2>9 DEF SubDrops
<1> QED
  BY <1>1, <1>2

-----------------------------------------------------------------------------
(* PrioritizedQueue                                                        *)

\* The SubQueues of one kind, none of them empty.
IsLevels(f, I) == IsMap(f) /\ \A p \in DOMAIN f : IsSubQueue(f[p], I) /\ DOMAIN f[p].q # {}

\* The sum of their priorities.
Total(f) == SumFunctionOnSet([p \in DOMAIN f |-> p], DOMAIN f)

\* A queue of items in I.
IsQueue(pq, I) ==
    /\ pq = [high |-> pq.high, low |-> pq.low, total |-> pq.total]
    /\ IsLevels(pq.high, I) /\ IsLevels(pq.low, I)
    /\ pq.total = Total(pq.low)

\* The items of priority p and class k, in order.
LineAt(f, p, k) == IF p \in DOMAIN f THEN Line(f[p].q, k) ELSE <<>>
ItemsOf(l) == [i \in DOMAIN l |-> l[i].item]
ItemsAt(f, p, k) == ItemsOf(LineAt(f, p, k))

\* Item x is the new last one of priority p and class k.
Puts(f, p, k, x, g) ==
    /\ DOMAIN g = DOMAIN f \cup {p}
    /\ \A r, j : ItemsAt(g, r, j) = IF r = p /\ j = k THEN Append(ItemsAt(f, r, j), x)
                                    ELSE ItemsAt(f, r, j)
    /\ \A r \in DOMAIN f : g[r].cur = f[r].cur

\* Item x, the first one of priority p and class k, is gone: it was the turn
\* of k, the next turn is the next class's.
Takes(f, p, k, x, g) ==
    /\ p \in DOMAIN f /\ f[p].cur = k
    /\ ItemsAt(f, p, k) # <<>> /\ x = Head(ItemsAt(f, p, k))
    /\ DOMAIN g \subseteq DOMAIN f
    /\ \A r, j : ItemsAt(g, r, j) = IF r = p /\ j = k THEN Tail(ItemsAt(f, r, j))
                                    ELSE ItemsAt(f, r, j)
    /\ p \in DOMAIN g => IsAfter(g[p].q, k, g[p].cur)
    /\ \A r \in DOMAIN g \ {p} : g[r].cur = f[r].cur

\* The items of class k are gone, and its turns.
Drops(f, k, g) ==
    /\ DOMAIN g \subseteq DOMAIN f
    /\ \A r, j : ItemsAt(g, r, j) = IF j = k THEN <<>> ELSE ItemsAt(f, r, j)
    /\ \A r \in DOMAIN g : IF f[r].cur = k THEN IsAfter(g[r].q, k, g[r].cur)
                           ELSE g[r].cur = f[r].cur

\* What the items of a FIFO are.
LEMMA ItemsType ==
    ASSUME NEW I, NEW l \in Seq(Entries(I))
    PROVE  /\ ItemsOf(l) \in Seq(I) /\ Len(ItemsOf(l)) = Len(l) /\ DOMAIN ItemsOf(l) = DOMAIN l
           /\ ItemsOf(l) = <<>> <=> l = <<>>
<1>1. Len(l) \in Nat /\ DOMAIN l = 1..Len(l) /\ \A i \in 1..Len(l) : l[i] \in Entries(I)
  BY LenProperties, ElementOfSeq
<1>2. ItemsOf(l) = [i \in 1..Len(l) |-> l[i].item]
  BY <1>1 DEF ItemsOf
<1>3. \A i \in 1..Len(l) : l[i].item \in I
  BY <1>1 DEF Entries
<1>4. ItemsOf(l) \in Seq(I) /\ Len(ItemsOf(l)) = Len(l)
  BY <1>1, <1>2, <1>3
<1>5. l = <<>> <=> Len(l) = 0
  BY EmptySeq
<1>6. ItemsOf(l) = <<>> <=> Len(ItemsOf(l)) = 0
  BY <1>4, EmptySeq
<1> QED
  BY <1>1, <1>2, <1>4, <1>5, <1>6

\* ... when an entry is appended,
LEMMA ItemsAppend ==
    ASSUME NEW I, NEW l \in Seq(Entries(I)), NEW c \in Nat, NEW x \in I
    PROVE  ItemsOf(Append(l, [cost |-> c, item |-> x])) = Append(ItemsOf(l), x)
<1> DEFINE e == [cost |-> c, item |-> x]
           a == Append(l, e)
           n == Append(ItemsOf(l), x)
<1>1. e \in Entries(I) /\ e.item = x
  BY DEF Entries
<1> HIDE DEF e
<1>2. /\ a \in Seq(Entries(I)) /\ Len(a) = Len(l) + 1 /\ Len(l) \in Nat
      /\ \A i \in 1..Len(l) : a[i] = l[i]
      /\ a[Len(l) + 1] = e /\ DOMAIN l = 1..Len(l)
  BY <1>1, AppendProperties, LenProperties
<1>3. ItemsOf(l) \in Seq(I) /\ Len(ItemsOf(l)) = Len(l) /\ \A i \in 1..Len(l) : ItemsOf(l)[i] = l[i].item
  BY <1>2, ItemsType DEF ItemsOf
<1>4. /\ n \in Seq(I) /\ Len(n) = Len(l) + 1
      /\ \A i \in 1..Len(l) : n[i] = l[i].item
      /\ n[Len(l) + 1] = x
  BY <1>3, AppendProperties
<1> HIDE DEF a, n
<1>5. /\ ItemsOf(a) \in Seq(I) /\ Len(ItemsOf(a)) = Len(a) /\ DOMAIN a = 1..Len(a)
      /\ \A i \in 1..Len(a) : ItemsOf(a)[i] = a[i].item
  BY <1>2, ItemsType, LenProperties DEF ItemsOf
<1>6. \A i \in 1..(Len(l) + 1) : ItemsOf(a)[i] = n[i]
  <2> TAKE i \in 1..(Len(l) + 1)
  <2>1. i \in 1..Len(l) \/ i = Len(l) + 1
    BY <1>2
  <2> QED
    BY <1>1, <1>2, <1>4, <1>5, <2>1
<1>7. ItemsOf(a) = n
  <2>1. ItemsOf(a) \in [1..(Len(l) + 1) -> I] /\ n \in [1..(Len(l) + 1) -> I]
    BY <1>2, <1>4, <1>5, LenProperties
  <2> QED
    BY <1>6, <2>1
<1> QED
  BY <1>7 DEF a, n, e

\* ... or taken.
LEMMA ItemsTail ==
    ASSUME NEW I, NEW l \in Seq(Entries(I)), l # <<>>
    PROVE  ItemsOf(Tail(l)) = Tail(ItemsOf(l)) /\ Head(l).item = Head(ItemsOf(l))
<1> DEFINE t == Tail(l)
           m == ItemsOf(l)
           n == Tail(m)
<1>1. /\ Len(l) \in Nat \ {0} /\ DOMAIN l = 1..Len(l)
      /\ t \in Seq(Entries(I)) /\ Len(t) = Len(l) - 1 /\ \A i \in 1..Len(t) : t[i] = l[i + 1]
      /\ DOMAIN t = 1..Len(t)
  BY HeadTailProperties, LenProperties, EmptySeq
<1>2. m \in Seq(I) /\ Len(m) = Len(l) /\ m # <<>> /\ \A i \in 1..Len(l) : m[i] = l[i].item
  BY <1>1, ItemsType DEF ItemsOf
<1>3. n \in Seq(I) /\ Len(n) = Len(l) - 1 /\ \A i \in 1..Len(n) : n[i] = m[i + 1]
  BY <1>2, HeadTailProperties
<1>4. ItemsOf(t) \in Seq(I) /\ Len(ItemsOf(t)) = Len(t) /\ \A i \in 1..Len(t) : ItemsOf(t)[i] = t[i].item
  BY <1>1, ItemsType DEF ItemsOf
<1>5. Head(l).item = Head(m)
  BY <1>1, <1>2
<1> HIDE DEF t, m, n
<1>6. \A i \in 1..Len(t) : ItemsOf(t)[i] = n[i]
  <2> TAKE i \in 1..Len(t)
  <2>1. i + 1 \in 1..Len(l) /\ i \in 1..Len(n)
    BY <1>1, <1>3
  <2> QED
    BY <1>1, <1>2, <1>3, <1>4, <2>1
<1>7. ItemsOf(t) \in [1..Len(t) -> I] /\ n \in [1..Len(t) -> I]
  BY <1>1, <1>3, <1>4, LenProperties
<1>8. ItemsOf(t) = n
  BY <1>6, <1>7
<1> QED
  BY <1>5, <1>8 DEF t, m, n

\* g is f with the SubQueue s for priority p, or without one.
Has(f, p, s, g) ==
    DOMAIN g = DOMAIN f \cup {p} /\ g[p] = s /\ \A r \in DOMAIN f \ {p} : g[r] = f[r]
Lacks(f, p, g) ==
    DOMAIN g = DOMAIN f \ {p} /\ \A r \in DOMAIN f \ {p} : g[r] = f[r]

\* The FIFOs of a queue.
LEMMA AtType ==
    ASSUME NEW I, NEW f, IsLevels(f, I), NEW p, NEW k
    PROVE  /\ LineAt(f, p, k) \in Seq(Entries(I)) /\ ItemsAt(f, p, k) \in Seq(I)
           /\ ItemsAt(f, p, k) = <<>> <=> LineAt(f, p, k) = <<>>
           /\ ItemsAt(f, p, k) # <<>> <=> p \in DOMAIN f /\ k \in DOMAIN f[p].q
<1>1. p \in DOMAIN f => IsLines(f[p].q, I)
  BY DEF IsLevels, IsSubQueue
<1>2. p \in DOMAIN f => Line(f[p].q, k) \in Seq(Entries(I)) /\ (k \in DOMAIN f[p].q <=> Line(f[p].q, k) # <<>>)
  BY <1>1, LineType
<1>3. LineAt(f, p, k) \in Seq(Entries(I)) /\ (LineAt(f, p, k) # <<>> <=> p \in DOMAIN f /\ k \in DOMAIN f[p].q)
  BY <1>2, EmptySeq DEF LineAt
<1>4. ItemsAt(f, p, k) \in Seq(I) /\ (ItemsAt(f, p, k) = <<>> <=> LineAt(f, p, k) = <<>>)
  BY <1>3, ItemsType DEF ItemsAt
<1> QED
  BY <1>3, <1>4

\* The iterator of every SubQueue is at a class with items.
LEMMA CursorAtItems ==
    ASSUME NEW I, NEW f, IsLevels(f, I), NEW p \in DOMAIN f
    PROVE  f[p].cur \in DOMAIN f[p].q /\ f[p].cur \in Nat /\ ItemsAt(f, p, f[p].cur) # <<>>
<1>1. f[p].cur \in DOMAIN f[p].q /\ f[p].cur \in Nat
  BY DEF IsLevels, IsSubQueue, IsLines, IsMap
<1> QED
  BY <1>1, AtType

\* A SubQueue is added or replaced.
LEMMA LevelPut ==
    ASSUME NEW I, NEW f, IsLevels(f, I), NEW p \in Nat, NEW s, IsSubQueue(s, I), DOMAIN s.q # {}
    PROVE  IsLevels(With(f, p, s), I) /\ Has(f, p, s, With(f, p, s))
<1>1. IsMap(f)
  BY DEF IsLevels
<1>2. PICK g : g = With(f, p, s)
  OBVIOUS
<1>3. IsMap(g) /\ DOMAIN g = DOMAIN f \cup {p}
  BY <1>1, <1>2, WithEffect
<1>4. g[p] = s /\ \A r \in DOMAIN f \ {p} : g[r] = f[r]
  BY <1>2, <1>3 DEF With
<1>5. \A r \in DOMAIN g : IsSubQueue(g[r], I) /\ DOMAIN g[r].q # {}
  <2> TAKE r \in DOMAIN g
  <2>1. CASE r = p
    BY <1>4, <2>1
  <2>2. CASE r # p
    <3>1. r \in DOMAIN f /\ g[r] = f[r]
      BY <1>3, <1>4, <2>2
    <3> QED
      BY <3>1 DEF IsLevels
  <2> QED
    BY <2>1, <2>2
<1> QED
  BY <1>2, <1>3, <1>4, <1>5 DEF IsLevels, Has

\* A SubQueue is erased.
LEMMA LevelDrop ==
    ASSUME NEW I, NEW f, IsLevels(f, I), NEW p
    PROVE  IsLevels(Without(f, p), I) /\ Lacks(f, p, Without(f, p))
<1>1. IsMap(f)
  BY DEF IsLevels
<1>2. PICK g : g = Without(f, p)
  OBVIOUS
<1>3. IsMap(g) /\ DOMAIN g = DOMAIN f \ {p}
  BY <1>1, <1>2, WithoutEffect
<1>4. \A r \in DOMAIN f \ {p} : g[r] = f[r]
  BY <1>2, <1>3 DEF Without
<1>5. \A r \in DOMAIN g : IsSubQueue(g[r], I) /\ DOMAIN g[r].q # {}
  <2> TAKE r \in DOMAIN g
  <2>1. r \in DOMAIN f /\ g[r] = f[r]
    BY <1>3, <1>4
  <2> QED
    BY <2>1 DEF IsLevels
<1> QED
  BY <1>2, <1>3, <1>4, <1>5 DEF IsLevels, Lacks

\* What the sum of the priorities is.
LEMMA TotalType ==
    ASSUME NEW f, IsMap(f)
    PROVE  Total(f) \in Nat /\ \A p \in DOMAIN f : p <= Total(f)
<1> DEFINE n == [p \in DOMAIN f |-> p]
<1>1. IsFiniteSet(DOMAIN f) /\ \A p \in DOMAIN f : n[p] \in Nat /\ n[p] = p
  BY DEF IsMap
<1>2. Total(f) = SumFunctionOnSet(n, DOMAIN f)
  BY DEF Total
<1> HIDE DEF n
<1> QED
  BY <1>1, <1>2, SumNat

\* It depends on the priorities only.
LEMMA TotalSame ==
    ASSUME NEW f, NEW g, DOMAIN g = DOMAIN f
    PROVE  Total(g) = Total(f)
BY DEF Total

\* A priority more.
LEMMA TotalMore ==
    ASSUME NEW f, NEW g, IsMap(f), NEW p \in Nat, DOMAIN g = DOMAIN f \cup {p}
    PROVE  Total(g) = IF p \in DOMAIN f THEN Total(f) ELSE Total(f) + p
<1>1. CASE p \in DOMAIN f
  BY <1>1, TotalSame
<1>2. CASE p \notin DOMAIN f
  <2> DEFINE m == [r \in DOMAIN f |-> r]
             n == [r \in DOMAIN g |-> r]
  <2>1. IsFiniteSet(DOMAIN f) /\ \A r \in DOMAIN f : m[r] \in Int /\ n[r] = m[r]
    BY DEF IsMap
  <2>2. n[p] = p /\ \A r \in DOMAIN f : n[r] \in Int
    BY <2>1
  <2>3. Total(f) = SumFunctionOnSet(m, DOMAIN f) /\ Total(g) = SumFunctionOnSet(n, DOMAIN f \cup {p})
    BY DEF Total
  <2> HIDE DEF m, n
  <2>4. SumFunctionOnSet(n, DOMAIN f) = SumFunctionOnSet(m, DOMAIN f)
    BY <2>1, SumSame
  <2>5. SumFunctionOnSet(n, DOMAIN f \cup {p}) = SumFunctionOnSet(n, DOMAIN f) + n[p]
    BY <1>2, <2>1, <2>2, SumJoin
  <2> QED
    BY <1>2, <2>2, <2>3, <2>4, <2>5
<1> QED
  BY <1>1, <1>2

\* Priorities less.
LEMMA TotalLess ==
    ASSUME NEW f, NEW g, IsMap(f), NEW gone \in SUBSET DOMAIN f, DOMAIN g = DOMAIN f \ gone
    PROVE  Total(f) = SumFunction([p \in gone |-> p]) + Total(g)
<1> DEFINE m == [r \in DOMAIN f |-> r]
           n == [r \in DOMAIN g |-> r]
           h == [r \in gone |-> r]
<1>1. /\ IsFiniteSet(DOMAIN f) /\ IsFiniteSet(DOMAIN g) /\ IsFiniteSet(gone)
      /\ \A r \in DOMAIN f : m[r] \in Int
      /\ \A r \in DOMAIN g : m[r] \in Int /\ n[r] = m[r]
      /\ \A r \in gone : m[r] \in Int /\ h[r] = m[r]
  <2>1. IsFiniteSet(DOMAIN f) /\ DOMAIN f \in SUBSET Nat
    BY DEF IsMap
  <2>2. IsFiniteSet(DOMAIN g) /\ IsFiniteSet(gone)
    BY <2>1, FS_Subset
  <2> QED
    BY <2>1, <2>2
<1>2. Total(f) = SumFunctionOnSet(m, DOMAIN f) /\ Total(g) = SumFunctionOnSet(n, DOMAIN f \ gone)
  BY DEF Total
<1>3. SumFunction(h) = SumFunctionOnSet(h, gone)
  BY DEF SumFunction
<1> HIDE DEF m, n, h
<1>4. SumFunctionOnSet(m, DOMAIN f) = SumFunctionOnSet(m, gone) + SumFunctionOnSet(m, DOMAIN f \ gone)
  BY <1>1, SumPart
<1>5. SumFunctionOnSet(n, DOMAIN f \ gone) = SumFunctionOnSet(m, DOMAIN f \ gone)
  BY <1>1, SumSame
<1>6. SumFunctionOnSet(h, gone) = SumFunctionOnSet(m, gone)
  BY <1>1, SumSame
<1>7. Total(f) = SumFunction(h) + Total(g)
  BY <1>2, <1>3, <1>4, <1>5, <1>6
<1> QED
  BY <1>7 DEF h

\* An item is put into the SubQueue of its priority, which may be a new one.
LEMMA PutEffect ==
    ASSUME NEW I, NEW f, IsLevels(f, I), NEW p \in Nat, NEW k \in Nat, NEW c \in Nat, NEW x \in I,
           NEW s, s = IF p \in DOMAIN f THEN f[p] ELSE EmptySubQueue
    PROVE  LET g == With(f, p, SubEnqueue(s, k, c, x))
           IN  IsLevels(g, I) /\ Puts(f, p, k, x, g)
<1> DEFINE e == [cost |-> c, item |-> x]
<1>1. PICK r, g : r = SubEnqueue(s, k, c, x) /\ g = With(f, p, r)
  OBVIOUS
<1>2. IsSubQueue(s, I) /\ (p \notin DOMAIN f => DOMAIN s.q = {})
  BY EmptySubQueueSound DEF IsLevels
<1>3. /\ IsSubQueue(r, I) /\ DOMAIN r.q = DOMAIN s.q \cup {k}
      /\ \A j : Line(r.q, j) = IF j = k THEN Append(Line(s.q, k), e) ELSE Line(s.q, j)
      /\ DOMAIN s.q # {} => r.cur = s.cur
  <2>1. IsSubQueue(r, I) /\ SubPuts(s, k, e, r)
    BY <1>1, <1>2, SubEnqueueEffect
  <2> QED
    BY <2>1 DEF SubPuts
<1>4. IsLevels(g, I) /\ Has(f, p, r, g)
  BY <1>1, <1>3, LevelPut
<1>5. DOMAIN g = DOMAIN f \cup {p} /\ g[p] = r /\ \A j \in DOMAIN f \ {p} : g[j] = f[j]
  BY <1>4 DEF Has
<1>6. \A j : Line(s.q, j) = LineAt(f, p, j)
  BY <1>2 DEF LineAt, Line
<1>7. LineAt(f, p, k) \in Seq(Entries(I))
  BY AtType
<1>8. ItemsOf(Append(LineAt(f, p, k), e)) = Append(ItemsAt(f, p, k), x)
  BY <1>7, ItemsAppend DEF ItemsAt
<1> HIDE DEF e
<1>9. \A j : LineAt(g, p, j) = IF j = k THEN Append(LineAt(f, p, k), e) ELSE LineAt(f, p, j)
  BY <1>3, <1>5, <1>6 DEF LineAt
<1>10. \A n, j : n # p => LineAt(g, n, j) = LineAt(f, n, j)
  BY <1>5 DEF LineAt
<1>11. \A n, j : ItemsAt(g, n, j) = IF n = p /\ j = k THEN Append(ItemsAt(f, n, j), x)
                                    ELSE ItemsAt(f, n, j)
  BY <1>8, <1>9, <1>10 DEF ItemsAt
<1>12. \A n \in DOMAIN f : g[n].cur = f[n].cur
  <2> TAKE n \in DOMAIN f
  <2>1. CASE n = p
    <3>1. s = f[p] /\ DOMAIN s.q # {}
      BY <2>1 DEF IsLevels
    <3> QED
      BY <1>3, <1>5, <2>1, <3>1
  <2>2. CASE n # p
    BY <1>5, <2>2
  <2> QED
    BY <2>1, <2>2
<1> QED
  BY <1>1, <1>4, <1>5, <1>11, <1>12 DEF Puts

\* enqueue_strict()
LEMMA EnqueueStrictEffect ==
    ASSUME NEW I, NEW pq, IsQueue(pq, I), NEW k \in Nat, NEW p \in Nat, NEW x \in I,
           NEW r, r = EnqueueStrict(pq, k, p, x)
    PROVE  IsQueue(r, I) /\ r.low = pq.low /\ Puts(pq.high, p, k, x, r.high)
<1>1. PICK f, s : f = pq.high /\ s = IF p \in DOMAIN f THEN f[p] ELSE EmptySubQueue
  OBVIOUS
<1>2. PICK g : g = With(f, p, SubEnqueue(s, k, 0, x))
  OBVIOUS
<1>3. /\ pq = [high |-> pq.high, low |-> pq.low, total |-> pq.total]
      /\ IsLevels(f, I) /\ IsLevels(pq.low, I) /\ pq.total = Total(pq.low)
  BY <1>1 DEF IsQueue
<1>4. IsLevels(g, I) /\ Puts(f, p, k, x, g)
  <2>1. 0 \in Nat
    OBVIOUS
  <2> QED
    BY <1>1, <1>2, <1>3, <2>1, PutEffect
<1>5. r = [high |-> g, low |-> pq.low, total |-> pq.total]
  BY <1>1, <1>2, <1>3 DEF EnqueueStrict
<1>6. r.high = g /\ r.low = pq.low /\ r.total = pq.total
  BY <1>5
<1> QED
  BY <1>1, <1>3, <1>4, <1>5, <1>6 DEF IsQueue

\* enqueue()
LEMMA EnqueueEffect ==
    ASSUME NEW I, NEW pq, IsQueue(pq, I), NEW k \in Nat, NEW p \in Nat, NEW c \in Nat, NEW x \in I,
           NEW r, r = Enqueue(pq, k, p, c, x)
    PROVE  IsQueue(r, I) /\ r.high = pq.high /\ Puts(pq.low, p, k, x, r.low)
<1> DEFINE charge == IF c < MinCost THEN MinCost ELSE IF c > MaxTokens THEN MaxTokens ELSE c
<1>0. charge \in Nat
  BY QueueAssumption
<1> HIDE DEF charge
<1>1. PICK f, s : f = pq.low /\ s = IF p \in DOMAIN f THEN f[p] ELSE EmptySubQueue
  OBVIOUS
<1>2. PICK g : g = With(f, p, SubEnqueue(s, k, charge, x))
  OBVIOUS
<1>3. /\ pq = [high |-> pq.high, low |-> pq.low, total |-> pq.total]
      /\ IsLevels(f, I) /\ IsLevels(pq.high, I) /\ pq.total = Total(f)
  BY <1>1 DEF IsQueue
<1>4. IsLevels(g, I) /\ Puts(f, p, k, x, g)
  BY <1>0, <1>1, <1>2, <1>3, PutEffect
<1>5. r = [high |-> pq.high, low |-> g,
           total |-> IF p \in DOMAIN f THEN pq.total ELSE pq.total + p]
  <2>1. s = IF p \notin DOMAIN pq.low THEN EmptySubQueue ELSE pq.low[p]
    BY <1>1
  <2>2. g = With(pq.low, p, SubEnqueue(s, k, charge, x))
    BY <1>1, <1>2
  <2>3. r = [pq EXCEPT !.low = g, !.total = IF p \notin DOMAIN pq.low THEN @ + p ELSE @]
    BY <2>1, <2>2 DEF Enqueue, charge
  <2> QED
    BY <1>1, <1>3, <2>3
<1>6. r.high = pq.high /\ r.low = g /\ r.total = IF p \in DOMAIN f THEN pq.total ELSE pq.total + p
  BY <1>5
<1>7. r.total = Total(g)
  <2>1. IsMap(f) /\ DOMAIN g = DOMAIN f \cup {p}
    BY <1>3, <1>4 DEF IsLevels, Puts
  <2>2. Total(g) = IF p \in DOMAIN f THEN Total(f) ELSE Total(f) + p
    BY <2>1, TotalMore
  <2> QED
    BY <1>3, <1>6, <2>2
<1> QED
  BY <1>1, <1>3, <1>4, <1>5, <1>6, <1>7 DEF IsQueue

\* The item at the iterator of one SubQueue is taken; g is what becomes of
\* the map when s, which has the FIFOs and the iterator of the rest, is kept
\* unless it is empty.
LEMMA TakeEffect ==
    ASSUME NEW I, NEW f, IsLevels(f, I), NEW p \in DOMAIN f,
           NEW s, IsSubQueue(s, I), s.q = SubPop(f[p]).q, s.cur = SubPop(f[p]).cur
    PROVE  LET g == IF DOMAIN s.q = {} THEN Without(f, p) ELSE With(f, p, s)
           IN  IsLevels(g, I) /\ Takes(f, p, f[p].cur, Front(f[p]).item, g)
<1>1. PICK k, r, u : k = f[p].cur /\ r = f[p] /\ u = SubPop(r)
  OBVIOUS
<1>2. PICK g : g = IF DOMAIN s.q = {} THEN Without(f, p) ELSE With(f, p, s)
  OBVIOUS
<1>3. IsSubQueue(r, I) /\ DOMAIN r.q # {} /\ p \in Nat /\ k \in DOMAIN r.q /\ k = r.cur
  BY <1>1 DEF IsLevels, IsMap, IsSubQueue
<1>4. /\ \A j : Line(u.q, j) = IF j = r.cur THEN Tail(Line(r.q, j)) ELSE Line(r.q, j)
      /\ DOMAIN u.q # {} => IsAfter(u.q, r.cur, u.cur)
  BY <1>1, <1>3, SubPopEffect
<1>5. s.q = u.q /\ s.cur = u.cur
  BY <1>1
<1>6. /\ \A j : Line(s.q, j) = IF j = k THEN Tail(Line(r.q, j)) ELSE Line(r.q, j)
      /\ DOMAIN s.q # {} => IsAfter(s.q, k, s.cur)
  BY <1>3, <1>4, <1>5
<1>7. IsLevels(g, I) /\ IF DOMAIN s.q = {} THEN Lacks(f, p, g) ELSE Has(f, p, s, g)
  <2>1. CASE DOMAIN s.q = {}
    <3>1. g = Without(f, p)
      BY <1>2, <2>1
    <3> QED
      BY <2>1, <3>1, LevelDrop
  <2>2. CASE DOMAIN s.q # {}
    <3>1. g = With(f, p, s)
      BY <1>2, <2>2
    <3> QED
      BY <1>3, <2>2, <3>1, LevelPut
  <2> QED
    BY <2>1, <2>2
<1>8. /\ DOMAIN g \subseteq DOMAIN f
      /\ p \in DOMAIN g <=> DOMAIN s.q # {}
      /\ p \in DOMAIN g => g[p] = s
      /\ \A n \in DOMAIN f \ {p} : n \in DOMAIN g /\ g[n] = f[n]
      /\ DOMAIN f \ {p} = DOMAIN g \ {p}
  BY <1>7 DEF Has, Lacks
<1>9. LineAt(f, p, k) \in Seq(Entries(I)) /\ LineAt(f, p, k) # <<>> /\ ItemsAt(f, p, k) # <<>>
  BY <1>1, <1>3, AtType
<1>10. /\ ItemsOf(Tail(LineAt(f, p, k))) = Tail(ItemsAt(f, p, k))
       /\ Head(LineAt(f, p, k)).item = Head(ItemsAt(f, p, k))
  BY <1>9, ItemsTail DEF ItemsAt
<1>11. \A j : LineAt(f, p, j) = Line(r.q, j)
  BY <1>1 DEF LineAt
<1>12. \A j : LineAt(g, p, j) = Line(s.q, j)
  BY <1>8 DEF LineAt, Line
<1>13. \A n, j : n # p => LineAt(g, n, j) = LineAt(f, n, j)
  BY <1>8 DEF LineAt
<1>14. \A n, j : ItemsAt(g, n, j) = IF n = p /\ j = k THEN Tail(ItemsAt(f, n, j)) ELSE ItemsAt(f, n, j)
  BY <1>6, <1>10, <1>11, <1>12, <1>13 DEF ItemsAt
<1>15. Front(f[p]).item = Head(ItemsAt(f, p, k))
  BY <1>1, <1>3, <1>10, <1>11 DEF Front, Line
<1>16. p \in DOMAIN g => IsAfter(g[p].q, k, g[p].cur)
  BY <1>6, <1>8
<1>17. \A n \in DOMAIN g \ {p} : g[n].cur = f[n].cur
  BY <1>8
<1>18. Takes(f, p, k, Front(f[p]).item, g)
  BY <1>1, <1>8, <1>9, <1>14, <1>15, <1>16, <1>17 DEF Takes
<1> QED
  BY <1>1, <1>2, <1>7, <1>18

\* g is f but for the tokens.
SameItems(f, g) ==
    DOMAIN g = DOMAIN f /\ \A p \in DOMAIN f : g[p].q = f[p].q /\ g[p].cur = f[p].cur

\* distribute_tokens() changes nothing else.
LEMMA DistributeEffect ==
    ASSUME NEW I, NEW pq, IsQueue(pq, I), NEW cost \in Nat, NEW r, r = Distribute(pq, cost)
    PROVE  IsQueue(r, I) /\ r.high = pq.high /\ SameItems(pq.low, r.low)
<1>1. CASE pq.total = 0
  BY <1>1 DEF Distribute, SameItems
<1>2. CASE pq.total # 0
  <2> DEFINE f == pq.low
             new(p) == Limited(f[p].tokens + (((p * cost) \div pq.total) + 1))
  <2>1. /\ pq = [high |-> pq.high, low |-> pq.low, total |-> pq.total]
        /\ IsLevels(f, I) /\ IsMap(f) /\ IsLevels(pq.high, I) /\ pq.total = Total(f)
    BY DEF IsQueue, IsLevels
  <2>2. PICK g : g = [p \in DOMAIN f |-> [f[p] EXCEPT !.tokens = new(p)]]
    OBVIOUS
  <2>3. r = [high |-> pq.high, low |-> g, total |-> pq.total]
    <3>1. r = [pq EXCEPT !.low = g]
      BY <1>2, <2>2 DEF Distribute
    <3> HIDE DEF new
    <3> QED
      BY <2>1, <3>1
  <2>4. r.high = pq.high /\ r.low = g /\ r.total = pq.total
    BY <2>3
  <2>5. ASSUME NEW p \in DOMAIN f PROVE new(p) \in 0..MaxTokens
    <3>1. pq.total \in Nat \ {0} /\ p \in Nat
      BY <1>2, <2>1, TotalType DEF IsMap
    <3>2. p * cost \in Nat
      BY <3>1
    <3>3. (p * cost) \div pq.total \in Nat
      BY <3>1, <3>2
    <3>4. f[p].tokens \in 0..MaxTokens /\ MaxTokens \in Nat
      BY <2>1, QueueAssumption DEF IsLevels, IsSubQueue
    <3> QED
      BY <3>3, <3>4 DEF Limited
  <2> HIDE DEF new
  <2>6. DOMAIN g = DOMAIN f /\ IsMap(g)
    BY <2>1, <2>2 DEF IsMap
  <2>7. ASSUME NEW p \in DOMAIN f
        PROVE  /\ IsSubQueue(g[p], I) /\ DOMAIN g[p].q # {}
               /\ g[p].q = f[p].q /\ g[p].cur = f[p].cur
    <3>1. PICK s, n : s = f[p] /\ n = new(p) /\ n \in 0..MaxTokens
      BY <2>5
    <3>2. IsSubQueue(s, I) /\ DOMAIN s.q # {}
      BY <2>1, <3>1 DEF IsLevels
    <3>3. g[p] = [s EXCEPT !.tokens = n]
      BY <2>2, <3>1
    <3>4. s = [q |-> s.q, cur |-> s.cur, tokens |-> s.tokens, size |-> s.size]
      BY <3>2 DEF IsSubQueue
    <3>5. g[p] = [q |-> s.q, cur |-> s.cur, tokens |-> n, size |-> s.size]
      BY <3>3, <3>4
    <3>6. g[p].q = s.q /\ g[p].cur = s.cur /\ g[p].tokens = n /\ g[p].size = s.size
      BY <3>5
    <3>7. IsSubQueue(g[p], I)
      BY <3>1, <3>2, <3>5, <3>6 DEF IsSubQueue
    <3> QED
      BY <3>1, <3>2, <3>6, <3>7
  <2>8. IsLevels(g, I) /\ SameItems(f, g)
    BY <2>6, <2>7 DEF IsLevels, SameItems
  <2>9. Total(g) = Total(f)
    BY <2>6, TotalSame
  <2> QED
    BY <2>1, <2>3, <2>4, <2>8, <2>9 DEF IsQueue
<1> QED
  BY <1>1, <1>2

\* What is taken is the same, whatever the tokens.
LEMMA SameTaken ==
    ASSUME NEW f, NEW g, NEW h, NEW p, NEW k, NEW x, Takes(f, p, k, x, g), SameItems(g, h)
    PROVE  Takes(f, p, k, x, h)
<1>1. \A n, j : ItemsAt(h, n, j) = ItemsAt(g, n, j)
  BY DEF SameItems, ItemsAt, LineAt
<1>2. DOMAIN h = DOMAIN g /\ \A n \in DOMAIN g : h[n].q = g[n].q /\ h[n].cur = g[n].cur
  BY DEF SameItems
<1> QED
  BY <1>1, <1>2 DEF Takes

\* An item of the low queue is taken, and paid for.
LEMMA PopLowEffect ==
    ASSUME NEW I, NEW pq, IsQueue(pq, I), NEW p \in DOMAIN pq.low, NEW paid \in Nat,
           NEW r, r = PopLow(pq, p, paid)
    PROVE  /\ IsQueue(r, I) /\ r.high = pq.high
           /\ Takes(pq.low, p, pq.low[p].cur, Front(pq.low[p]).item, r.low)
<1>1. PICK f, u, t : f = pq.low /\ u = SubPop(f[p]) /\ t = Taken(u.tokens, paid)
  OBVIOUS
<1>2. PICK s : s = [u EXCEPT !.tokens = t]
  OBVIOUS
<1>3. PICK g : g = IF DOMAIN s.q = {} THEN Without(f, p) ELSE With(f, p, s)
  OBVIOUS
<1>4. /\ pq = [high |-> pq.high, low |-> f, total |-> pq.total]
      /\ IsLevels(f, I) /\ IsLevels(pq.high, I) /\ pq.total = Total(f)
      /\ p \in DOMAIN f /\ p \in Nat
  BY <1>1 DEF IsQueue, IsLevels, IsMap
<1>5. IsSubQueue(u, I)
  <2>1. PICK b : b = f[p] /\ IsSubQueue(b, I) /\ DOMAIN b.q # {}
    BY <1>4 DEF IsLevels
  <2> QED
    BY <1>1, <2>1, SubPopEffect
<1>6. u = [q |-> u.q, cur |-> u.cur, tokens |-> u.tokens, size |-> u.size] /\ t \in 0..MaxTokens
  BY <1>1, <1>5, QueueAssumption DEF IsSubQueue, Taken
<1>7. s = [q |-> u.q, cur |-> u.cur, tokens |-> t, size |-> u.size]
  BY <1>2, <1>6
<1>8. s.q = u.q /\ s.cur = u.cur /\ s.tokens = t /\ s.size = u.size
  BY <1>7
<1>9. IsSubQueue(s, I)
  BY <1>5, <1>6, <1>7, <1>8 DEF IsSubQueue
<1>10. IsLevels(g, I) /\ Takes(f, p, f[p].cur, Front(f[p]).item, g)
  BY <1>1, <1>3, <1>4, <1>8, <1>9, TakeEffect
<1>11. r = [high |-> pq.high, low |-> g, total |-> IF DOMAIN s.q = {} THEN pq.total - p ELSE pq.total]
  <2>1. s = [SubPop(pq.low[p]) EXCEPT !.tokens = Taken(@, paid)]
    BY <1>1, <1>2, <1>6
  <2>2. CASE DOMAIN s.q = {}
    <3>1. r = [pq EXCEPT !.low = Without(@, p), !.total = @ - p]
      BY <2>1, <2>2 DEF PopLow
    <3> QED
      BY <1>1, <1>3, <1>4, <2>2, <3>1
  <2>3. CASE DOMAIN s.q # {}
    <3>1. r = [pq EXCEPT !.low[p] = s]
      BY <2>1, <2>3 DEF PopLow
    <3>2. r = [high |-> pq.high, low |-> [f EXCEPT ![p] = s], total |-> pq.total]
      BY <1>1, <1>4, <3>1
    <3>3. g = [f EXCEPT ![p] = s]
      <4>1. IsMap(f) /\ g = With(f, p, s)
        BY <1>3, <1>4, <2>3 DEF IsLevels
      <4>2. DOMAIN f \cup {p} = DOMAIN f
        BY <1>4
      <4>3. g = [y \in DOMAIN f |-> IF y = p THEN s ELSE f[y]]
        BY <4>1, <4>2 DEF With
      <4>4. [f EXCEPT ![p] = s] = [y \in DOMAIN f |-> IF y = p THEN s ELSE f[y]]
        BY <4>1 DEF IsMap
      <4> QED
        BY <4>3, <4>4
    <3> QED
      BY <2>3, <3>2, <3>3
  <2> QED
    BY <2>2, <2>3
<1>12. r.high = pq.high /\ r.low = g /\ r.total = IF DOMAIN s.q = {} THEN pq.total - p ELSE pq.total
  BY <1>11
<1>13. r.total = Total(g)
  <2>1. CASE DOMAIN s.q = {}
    <3>1. Lacks(f, p, g) /\ IsMap(g)
      BY <1>3, <1>4, <1>10, <2>1, LevelDrop DEF IsLevels
    <3>2. DOMAIN f = DOMAIN g \cup {p} /\ p \notin DOMAIN g
      BY <1>4, <3>1 DEF Lacks
    <3>3. Total(f) = IF p \in DOMAIN g THEN Total(g) ELSE Total(g) + p
      BY <1>4, <3>1, <3>2, TotalMore
    <3>4. Total(g) \in Nat
      BY <3>1, TotalType
    <3> QED
      BY <1>4, <1>12, <2>1, <3>2, <3>3, <3>4
  <2>2. CASE DOMAIN s.q # {}
    <3>1. Has(f, p, s, g)
      BY <1>3, <1>4, <1>9, <2>2, LevelPut
    <3>2. DOMAIN g = DOMAIN f
      BY <1>4, <3>1 DEF Has
    <3>3. Total(g) = Total(f)
      BY <3>2, TotalSame
    <3> QED
      BY <1>4, <1>12, <2>2, <3>3
  <2> QED
    BY <2>1, <2>2
<1>14. IsQueue(r, I)
  BY <1>4, <1>10, <1>11, <1>12, <1>13 DEF IsQueue
<1> QED
  BY <1>1, <1>10, <1>12, <1>14

\* dequeue(): the highest strict priority, or one of the others, has its turn.
LEMMA RestEffect ==
    ASSUME NEW I, NEW pq, IsQueue(pq, I), ~IsEmpty(pq)
    PROVE  LET p == Level(pq)
               k == Source(pq).cur
               r == Rest(pq)
           IN  /\ IsQueue(r, I)
               /\ IF DOMAIN pq.high # {}
                  THEN r.low = pq.low /\ Takes(pq.high, p, k, Dequeued(pq), r.high)
                  ELSE r.high = pq.high /\ Takes(pq.low, p, k, Dequeued(pq), r.low)
<1>1. PICK p, r : p = Level(pq) /\ r = Rest(pq)
  OBVIOUS
<1>2. /\ pq = [high |-> pq.high, low |-> pq.low, total |-> pq.total]
      /\ IsLevels(pq.high, I) /\ IsLevels(pq.low, I) /\ pq.total = Total(pq.low)
  BY DEF IsQueue
<1>3. /\ DOMAIN pq.high \in SUBSET Nat /\ IsFiniteSet(DOMAIN pq.high)
      /\ DOMAIN pq.low \in SUBSET Nat /\ IsFiniteSet(DOMAIN pq.low)
  BY <1>2 DEF IsLevels, IsMap
<1>4. CASE DOMAIN pq.high # {}
  <2>1. PICK f, s : f = pq.high /\ s = SubPop(f[p])
    OBVIOUS
  <2>2. p \in DOMAIN f
    BY <1>1, <1>3, <1>4, <2>1, MaxIsGreatest DEF Level
  <2>3. PICK g : g = IF DOMAIN s.q = {} THEN Without(f, p) ELSE With(f, p, s)
    OBVIOUS
  <2>4. IsSubQueue(s, I)
    <3>1. PICK b : b = f[p] /\ IsSubQueue(b, I) /\ DOMAIN b.q # {}
      BY <1>2, <2>1, <2>2 DEF IsLevels
    <3> QED
      BY <2>1, <3>1, SubPopEffect
  <2>5. IsLevels(g, I) /\ Takes(f, p, f[p].cur, Front(f[p]).item, g)
    <3>1. s.q = SubPop(f[p]).q /\ s.cur = SubPop(f[p]).cur /\ IsLevels(f, I)
      BY <1>2, <2>1
    <3> QED
      BY <2>2, <2>3, <2>4, <3>1, TakeEffect
  <2>6. r = [pq EXCEPT !.high = g]
    BY <1>1, <1>4, <2>1, <2>3 DEF Rest
  <2>7. r = [high |-> g, low |-> pq.low, total |-> pq.total]
    BY <1>2, <2>6
  <2>8. r.high = g /\ r.low = pq.low /\ r.total = pq.total
    BY <2>7
  <2>9. IsQueue(r, I)
    BY <1>2, <2>5, <2>7, <2>8 DEF IsQueue
  <2>10. Source(pq) = f[p] /\ Dequeued(pq) = Front(f[p]).item
    BY <1>1, <1>4, <2>1 DEF Source, Dequeued
  <2> QED
    BY <1>1, <1>4, <2>1, <2>5, <2>8, <2>9, <2>10
<1>5. CASE DOMAIN pq.high = {}
  <2>1. PICK f : f = pq.low
    OBVIOUS
  <2>2. DOMAIN f # {} /\ DOMAIN f \in SUBSET Nat /\ IsFiniteSet(DOMAIN f)
    BY <1>3, <1>5, <2>1 DEF IsEmpty
  <2>3. p \in DOMAIN f
    <3>1. Affordable(pq) \in SUBSET DOMAIN f /\ Affordable(pq) \in SUBSET Nat
      BY <2>1, <2>2 DEF Affordable
    <3>2. Affordable(pq) # {} => Min(Affordable(pq)) \in DOMAIN f
      BY <3>1, MinIsLeast
    <3>3. Max(DOMAIN f) \in DOMAIN f
      BY <2>2, MaxIsGreatest
    <3> QED
      BY <1>1, <1>5, <2>1, <3>2, <3>3 DEF Level
  <2>4. PICK cost : cost = Front(f[p]).cost
    OBVIOUS
  <2>5. cost \in Nat
    <3>1. PICK b : b = f[p] /\ IsSubQueue(b, I) /\ DOMAIN b.q # {}
      BY <1>2, <2>1, <2>3 DEF IsLevels
    <3>2. b.q[b.cur] \in Seq(Entries(I)) /\ b.q[b.cur] # <<>>
      BY <3>1 DEF IsSubQueue, IsLines
    <3>3. Head(b.q[b.cur]) \in Entries(I)
      BY <3>2, HeadTailProperties
    <3> QED
      BY <2>4, <3>1, <3>3 DEF Front, Entries
  <2>6. PICK paid, n : paid = (IF Affordable(pq) # {} THEN cost ELSE 0) /\ n = PopLow(pq, p, paid)
    OBVIOUS
  <2>7. paid \in Nat
    BY <2>5, <2>6
  <2>8. IsQueue(n, I) /\ n.high = pq.high /\ Takes(f, p, f[p].cur, Front(f[p]).item, n.low)
    BY <2>1, <2>3, <2>6, <2>7, PopLowEffect
  <2>9. r = Distribute(n, cost)
    BY <1>1, <1>5, <2>1, <2>4, <2>6 DEF Rest
  <2>10. IsQueue(r, I) /\ r.high = n.high /\ SameItems(n.low, r.low)
    BY <2>5, <2>8, <2>9, DistributeEffect
  <2>11. Takes(f, p, f[p].cur, Front(f[p]).item, r.low)
    BY <2>8, <2>10, SameTaken
  <2>12. Source(pq) = f[p] /\ Dequeued(pq) = Front(f[p]).item
    BY <1>1, <1>5, <2>1 DEF Source, Dequeued
  <2> QED
    BY <1>1, <1>5, <2>1, <2>8, <2>10, <2>11, <2>12
<1> QED
  BY <1>4, <1>5

\* The items of a class are removed from all SubQueues of one kind.
LEMMA DropEffect ==
    ASSUME NEW I, NEW f, IsLevels(f, I), NEW k \in Nat, NEW h,
           DOMAIN h = DOMAIN f, \A p \in DOMAIN f : h[p] = SubRemove(f[p], k),
           NEW g, g = [p \in DOMAIN f \ {r \in DOMAIN f : DOMAIN h[r].q = {}} |-> h[p]]
    PROVE  IsLevels(g, I) /\ Drops(f, k, g)
<1>1. ASSUME NEW p \in DOMAIN f
      PROVE  /\ IsSubQueue(h[p], I)
             /\ \A j : Line(h[p].q, j) = IF j = k THEN <<>> ELSE Line(f[p].q, j)
             /\ DOMAIN h[p].q # {} => IF f[p].cur = k THEN IsAfter(h[p].q, k, h[p].cur)
                                      ELSE h[p].cur = f[p].cur
  <2>1. PICK s, r : s = f[p] /\ r = h[p]
    OBVIOUS
  <2>2. IsSubQueue(s, I) /\ r = SubRemove(s, k)
    BY <2>1 DEF IsLevels
  <2>3. IsSubQueue(r, I) /\ SubDrops(s, k, r)
    BY <2>2, SubRemoveEffect
  <2> QED
    BY <2>1, <2>3 DEF SubDrops
<1>2. /\ DOMAIN g \subseteq DOMAIN f /\ g = [p \in DOMAIN g |-> g[p]]
      /\ \A p \in DOMAIN f : p \in DOMAIN g <=> DOMAIN h[p].q # {}
      /\ \A p \in DOMAIN g : g[p] = h[p]
  OBVIOUS
<1>3. IsMap(g)
  <2>1. DOMAIN f \in SUBSET Nat /\ IsFiniteSet(DOMAIN f)
    BY DEF IsLevels, IsMap
  <2>2. IsFiniteSet(DOMAIN g)
    BY <1>2, <2>1, FS_Subset
  <2> QED
    BY <1>2, <2>1, <2>2 DEF IsMap
<1>4. \A p, j : LineAt(g, p, j) = IF j = k THEN <<>> ELSE LineAt(f, p, j)
  <2> TAKE p, j
  <2>1. CASE p \notin DOMAIN f
    BY <1>2, <2>1 DEF LineAt
  <2>2. CASE p \in DOMAIN f /\ p \notin DOMAIN g
    <3>1. DOMAIN h[p].q = {} /\ Line(h[p].q, j) = IF j = k THEN <<>> ELSE Line(f[p].q, j)
      BY <1>1, <1>2, <2>2
    <3> QED
      BY <2>2, <3>1 DEF LineAt, Line
  <2>3. CASE p \in DOMAIN g
    <3>1. p \in DOMAIN f /\ g[p] = h[p] /\ Line(h[p].q, j) = IF j = k THEN <<>> ELSE Line(f[p].q, j)
      BY <1>1, <1>2, <2>3
    <3> QED
      BY <2>3, <3>1 DEF LineAt
  <2> QED
    BY <2>1, <2>2, <2>3
<1>5. \A p, j : ItemsAt(g, p, j) = IF j = k THEN <<>> ELSE ItemsAt(f, p, j)
  <2>1. ItemsOf(<<>>) = <<>>
    BY EmptySeq, ItemsType
  <2> QED
    BY <1>4, <2>1 DEF ItemsAt
<1>6. \A p \in DOMAIN g : IsSubQueue(g[p], I) /\ DOMAIN g[p].q # {}
  BY <1>1, <1>2
<1>7. \A p \in DOMAIN g : IF f[p].cur = k THEN IsAfter(g[p].q, k, g[p].cur) ELSE g[p].cur = f[p].cur
  BY <1>1, <1>2
<1> QED
  BY <1>2, <1>3, <1>5, <1>6, <1>7 DEF IsLevels, Drops

\* remove_by_class()
LEMMA RemoveClassEffect ==
    ASSUME NEW I, NEW pq, IsQueue(pq, I), NEW k \in Nat, NEW r, r = RemoveClass(pq, k)
    PROVE  IsQueue(r, I) /\ Drops(pq.high, k, r.high) /\ Drops(pq.low, k, r.low)
<1>1. /\ IsLevels(pq.high, I) /\ IsLevels(pq.low, I) /\ pq.total = Total(pq.low)
      /\ IsMap(pq.low)
  BY DEF IsQueue, IsLevels
<1>2. PICK low, high : /\ low = [p \in DOMAIN pq.low |-> SubRemove(pq.low[p], k)]
                       /\ high = [p \in DOMAIN pq.high |-> SubRemove(pq.high[p], k)]
  OBVIOUS
<1>3. PICK gone : gone = {p \in DOMAIN low : DOMAIN low[p].q = {}}
  OBVIOUS
<1>4. PICK h, l : /\ h = [p \in {n \in DOMAIN high : DOMAIN high[n].q # {}} |-> high[p]]
                  /\ l = [p \in DOMAIN low \ gone |-> low[p]]
  OBVIOUS
<1>5. r = [high |-> h, low |-> l, total |-> pq.total - SumFunction([p \in gone |-> p])]
  BY <1>2, <1>3, <1>4 DEF RemoveClass
<1>6. r.high = h /\ r.low = l /\ r.total = pq.total - SumFunction([p \in gone |-> p])
  BY <1>5
<1>7. IsLevels(l, I) /\ Drops(pq.low, k, l)
  <2>1. /\ DOMAIN low = DOMAIN pq.low /\ \A p \in DOMAIN pq.low : low[p] = SubRemove(pq.low[p], k)
        /\ l = [p \in DOMAIN pq.low \ {n \in DOMAIN pq.low : DOMAIN low[n].q = {}} |-> low[p]]
    BY <1>2, <1>3, <1>4
  <2> QED
    BY <1>1, <2>1, DropEffect
<1>8. IsLevels(h, I) /\ Drops(pq.high, k, h)
  <2>1. DOMAIN high = DOMAIN pq.high /\ \A p \in DOMAIN pq.high : high[p] = SubRemove(pq.high[p], k)
    BY <1>2
  <2>2. {n \in DOMAIN high : DOMAIN high[n].q # {}} =
          DOMAIN pq.high \ {n \in DOMAIN pq.high : DOMAIN high[n].q = {}}
    BY <2>1
  <2>3. h = [p \in DOMAIN pq.high \ {n \in DOMAIN pq.high : DOMAIN high[n].q = {}} |-> high[p]]
    BY <1>4, <2>2
  <2> QED
    BY <1>1, <2>1, <2>3, DropEffect
<1>9. r.total = Total(l)
  <2>1. gone \in SUBSET DOMAIN pq.low /\ DOMAIN l = DOMAIN pq.low \ gone
    BY <1>2, <1>3, <1>4
  <2>2. PICK n : n = SumFunction([p \in gone |-> p])
    OBVIOUS
  <2>3. Total(pq.low) = n + Total(l)
    BY <1>1, <2>1, <2>2, TotalLess
  <2>4. n \in Int
    <3> DEFINE m == [p \in gone |-> p]
    <3>1. IsFiniteSet(gone) /\ \A p \in gone : m[p] \in Int
      <4>1. DOMAIN pq.low \in SUBSET Nat /\ IsFiniteSet(DOMAIN pq.low)
        BY <1>1 DEF IsMap
      <4>2. IsFiniteSet(gone)
        BY <2>1, <4>1, FS_Subset
      <4> QED
        BY <2>1, <4>1, <4>2
    <3>2. n = SumFunctionOnSet(m, gone)
      BY <2>2 DEF SumFunction
    <3> HIDE DEF m
    <3> QED
      BY <3>1, <3>2, SumInt
  <2>5. Total(l) \in Nat
    BY <1>7, TotalType DEF IsLevels
  <2> QED
    BY <1>1, <1>6, <2>2, <2>3, <2>4, <2>5
<1> QED
  BY <1>5, <1>6, <1>7, <1>8, <1>9 DEF IsQueue
-----------------------------------------------------------------------------
(* What is in a queue                                                      *)

\* Item x is one of priority p and class k.
Among(f, p, k, x) == \E i \in DOMAIN ItemsAt(f, p, k) : ItemsAt(f, p, k)[i] = x

\* No item is at two places.
IsApart(f) ==
    /\ \A p, k : \A i, m \in DOMAIN ItemsAt(f, p, k) :
         ItemsAt(f, p, k)[i] = ItemsAt(f, p, k)[m] => i = m
    /\ \A p, k, r, j, x : Among(f, p, k, x) /\ Among(f, r, j, x) => p = r /\ k = j

LevelItems(f) == UNION {SubItems(f[p]) : p \in DOMAIN f}

\* The items of a SubQueue are those of its FIFOs,
LEMMA SubItemsAre ==
    ASSUME NEW I, NEW f, IsLevels(f, I), NEW p \in DOMAIN f, NEW x
    PROVE  x \in SubItems(f[p]) <=> \E k : Among(f, p, k, x)
<1>1. PICK s : s = f[p]
  OBVIOUS
<1>2. \A k \in DOMAIN s.q : ItemsAt(f, p, k) = ItemsOf(s.q[k]) /\ DOMAIN ItemsAt(f, p, k) = DOMAIN s.q[k]
  BY <1>1 DEF ItemsAt, LineAt, Line, ItemsOf
<1>3. \A k : k \notin DOMAIN s.q => ItemsAt(f, p, k) = <<>>
  BY <1>1, AtType
<1>4. \A k \in DOMAIN s.q : Among(f, p, k, x) <=> x \in {s.q[k][i].item : i \in DOMAIN s.q[k]}
  BY <1>2 DEF Among, ItemsOf
<1>5. \A k : k \notin DOMAIN s.q => ~Among(f, p, k, x)
  BY <1>3, EmptySeq DEF Among
<1>6. x \in SubItems(s) <=> \E k \in DOMAIN s.q : x \in {s.q[k][i].item : i \in DOMAIN s.q[k]}
  BY DEF SubItems
<1> QED
  BY <1>1, <1>4, <1>5, <1>6

\* ... and so are those of all SubQueues of one kind.
LEMMA LevelItemsAre ==
    ASSUME NEW I, NEW f, IsLevels(f, I), NEW x
    PROVE  x \in LevelItems(f) <=> \E p, k : Among(f, p, k, x)
<1>1. \A p, k : Among(f, p, k, x) => p \in DOMAIN f
  <2> TAKE p, k
  <2>1. p \notin DOMAIN f => ItemsAt(f, p, k) = <<>>
    BY AtType
  <2> QED
    BY <2>1, EmptySeq DEF Among
<1>2. \A p \in DOMAIN f : x \in SubItems(f[p]) <=> \E k : Among(f, p, k, x)
  BY SubItemsAre
<1> QED
  BY <1>1, <1>2 DEF LevelItems

\* The items of a queue are those of the FIFOs of both kinds.
LEMMA QueuedItemsAre ==
    ASSUME NEW I, NEW pq, IsQueue(pq, I), NEW x
    PROVE  x \in QueuedItems(pq) <=> \E p, k : Among(pq.low, p, k, x) \/ Among(pq.high, p, k, x)
<1>1. IsLevels(pq.low, I) /\ IsLevels(pq.high, I)
  BY DEF IsQueue
<1>2. QueuedItems(pq) = LevelItems(pq.low) \cup LevelItems(pq.high)
  BY DEF QueuedItems, LevelItems
<1>3. x \in LevelItems(pq.low) <=> \E p, k : Among(pq.low, p, k, x)
  BY <1>1, LevelItemsAre
<1>4. x \in LevelItems(pq.high) <=> \E p, k : Among(pq.high, p, k, x)
  BY <1>1, LevelItemsAre
<1> QED
  BY <1>2, <1>3, <1>4

\* Every item is in I.
LEMMA QueuedType ==
    ASSUME NEW I, NEW pq, IsQueue(pq, I)
    PROVE  QueuedItems(pq) \subseteq I
<1>1. ASSUME NEW f, IsLevels(f, I), NEW p, NEW k, NEW x, Among(f, p, k, x) PROVE x \in I
  <2>1. PICK a : a = ItemsAt(f, p, k) /\ a \in Seq(I)
    BY <1>1, AtType
  <2>2. PICK i \in DOMAIN a : a[i] = x
    BY <1>1, <2>1 DEF Among
  <2> QED
    BY <2>1, <2>2, ElementOfSeq, LenProperties
<1>2. IsLevels(pq.low, I) /\ IsLevels(pq.high, I)
  BY DEF IsQueue
<1> QED
  BY <1>1, <1>2, QueuedItemsAre

\* empty() is what it says.
LEMMA EmptyIsEmpty ==
    ASSUME NEW I, NEW pq, IsQueue(pq, I)
    PROVE  IsEmpty(pq) <=> QueuedItems(pq) = {}
<1>1. IsEmpty(pq) => QueuedItems(pq) = {}
  BY DEF IsEmpty, QueuedItems
<1>2. ASSUME NEW f, IsLevels(f, I), NEW p \in DOMAIN f PROVE \E k, x : Among(f, p, k, x)
  <2>1. PICK a, k : a = ItemsAt(f, p, k) /\ a \in Seq(I) /\ a # <<>>
    BY <1>2, CursorAtItems, AtType
  <2>2. 1 \in DOMAIN a
    BY <2>1, LenProperties, EmptySeq
  <2> QED
    BY <2>1, <2>2 DEF Among
<1>3. IsLevels(pq.low, I) /\ IsLevels(pq.high, I)
  BY DEF IsQueue
<1>4. ASSUME ~IsEmpty(pq) PROVE QueuedItems(pq) # {}
  <2>1. (\E p : p \in DOMAIN pq.low) \/ (\E p : p \in DOMAIN pq.high)
    BY <1>4 DEF IsEmpty
  <2>2. CASE \E p : p \in DOMAIN pq.low
    <3>1. \E p, k, x : Among(pq.low, p, k, x)
      BY <1>2, <1>3, <2>2
    <3> QED
      BY <3>1, QueuedItemsAre
  <2>3. CASE \E p : p \in DOMAIN pq.high
    <3>1. \E p, k, x : Among(pq.high, p, k, x)
      BY <1>2, <1>3, <2>3
    <3> QED
      BY <3>1, QueuedItemsAre
  <2> QED
    BY <2>1, <2>2, <2>3
<1> QED
  BY <1>1, <1>4

\* A queue as its constructor leaves it.
LEMMA EmptyQueueSound ==
    ASSUME NEW I
    PROVE  /\ IsQueue(EmptyQueue, I) /\ IsEmpty(EmptyQueue)
           /\ \A p, k : ItemsAt(EmptyQueue.low, p, k) = <<>> /\ ItemsAt(EmptyQueue.high, p, k) = <<>>
<1>1. IsLevels(EmptyMap, I) /\ DOMAIN EmptyMap = {} /\ IsMap(EmptyMap)
  BY FS_EmptySet DEF IsLevels, IsMap, EmptyMap
<1>2. Total(EmptyMap) = 0
  BY <1>1, SumEmpty DEF Total
<1>3. EmptyQueue = [high |-> EmptyMap, low |-> EmptyMap, total |-> 0]
  BY DEF EmptyQueue
<1>4. EmptyQueue.high = EmptyMap /\ EmptyQueue.low = EmptyMap /\ EmptyQueue.total = 0
  BY <1>3
<1>5. \A p, k : ItemsAt(EmptyMap, p, k) = <<>>
  BY <1>1, AtType
<1> QED
  BY <1>1, <1>2, <1>3, <1>4, <1>5 DEF IsQueue, IsEmpty

\* What dequeue() relies on.
LEMMA QueueWellFormed ==
    ASSUME NEW I, NEW pq, IsQueue(pq, I)
    PROVE  /\ WellFormed(pq)
           /\ \A p \in DOMAIN pq.low : pq.low[p].tokens \in 0..MaxTokens
<1>1. IsLevels(pq.low, I) /\ IsLevels(pq.high, I) /\ pq.total = Total(pq.low)
  BY DEF IsQueue
<1>2. \A f \in {pq.low, pq.high} : \A p \in DOMAIN f : IsSubQueue(f[p], I) /\ DOMAIN f[p].q # {}
  BY <1>1 DEF IsLevels
<1>3. Total(pq.low) = SumFunction([p \in DOMAIN pq.low |-> p])
  BY DEF Total, SumFunction
<1> QED
  BY <1>1, <1>2, <1>3 DEF WellFormed, IsSubQueue, IsLines

\* The items of a FIFO that has none twice are as many as it is long.
LEMMA LineSize ==
    ASSUME NEW I, NEW l \in Seq(Entries(I)),
           \A i, m \in DOMAIN l : l[i].item = l[m].item => i = m,
           NEW S, S = {l[i].item : i \in DOMAIN l}
    PROVE  IsFiniteSet(S) /\ Cardinality(S) = Len(l)
<1> DEFINE D == 1..Len(l)
<1>1. Len(l) \in Nat /\ DOMAIN l = D
  BY LenProperties
<1>2. IsFiniteSet(D) /\ Cardinality(D) = Len(l)
  BY <1>1, FS_Interval
<1> HIDE DEF D
<1>3. PICK g : g = [i \in D |-> l[i].item]
  OBVIOUS
<1>4. g \in [D -> S] /\ \A i \in D : g[i] = l[i].item
  BY <1>1, <1>3
<1>5. \A i, m \in D : g[i] = g[m] => i = m
  BY <1>1, <1>4
<1>6. \A x \in S : \E i \in D : g[i] = x
  BY <1>1, <1>4
<1>7. g \in Bijection(D, S)
  BY <1>4, <1>5, <1>6 DEF Bijection, Injection, IsInjective, Surjection
<1>8. ExistsBijection(D, S)
  BY <1>7 DEF ExistsBijection
<1> QED
  BY <1>2, <1>8, FS_Bijection

\* The size of a SubQueue is the number of its items,
LEMMA SubSize ==
    ASSUME NEW I, NEW f, IsLevels(f, I), IsApart(f), NEW p \in DOMAIN f
    PROVE  IsFiniteSet(SubItems(f[p])) /\ f[p].size = Cardinality(SubItems(f[p]))
<1>1. PICK s : s = f[p] /\ IsSubQueue(s, I)
  BY DEF IsLevels
<1>2. IsLines(s.q, I) /\ s.size = Size(s.q) /\ IsFiniteSet(DOMAIN s.q)
  BY <1>1 DEF IsSubQueue, IsLines, IsMap
<1>3. PICK g : g = [k \in DOMAIN s.q |-> {s.q[k][i].item : i \in DOMAIN s.q[k]}]
  OBVIOUS
<1>4. PICK n : n = Lens(s.q)
  OBVIOUS
<1>5. ASSUME NEW k \in DOMAIN s.q
      PROVE  /\ IsFiniteSet(g[k]) /\ n[k] = Cardinality(g[k])
             /\ \A x \in g[k] : Among(f, p, k, x)
  <2>1. PICK l : l = s.q[k] /\ l \in Seq(Entries(I)) /\ n[k] = Len(l)
    BY <1>2, <1>4, LensType DEF IsLines
  <2>2. ItemsAt(f, p, k) = ItemsOf(l)
    BY <1>1, <2>1 DEF ItemsAt, LineAt, Line
  <2>3. DOMAIN ItemsAt(f, p, k) = DOMAIN l /\ \A i \in DOMAIN l : ItemsAt(f, p, k)[i] = l[i].item
    BY <2>2 DEF ItemsOf
  <2>4. \A i, m \in DOMAIN l : l[i].item = l[m].item => i = m
    BY <2>3 DEF IsApart
  <2>5. g[k] = {l[i].item : i \in DOMAIN l}
    BY <1>3, <2>1
  <2>6. IsFiniteSet(g[k]) /\ Cardinality(g[k]) = Len(l)
    BY <2>1, <2>4, <2>5, LineSize
  <2>7. \A x \in g[k] : Among(f, p, k, x)
    BY <2>3, <2>5 DEF Among
  <2> QED
    BY <2>1, <2>6, <2>7
<1>6. \A j, k \in DOMAIN s.q : j # k => g[j] \cap g[k] = {}
  BY <1>5 DEF IsApart
<1>7. SubItems(s) = UNION {g[k] : k \in DOMAIN s.q}
  <2>1. \A k \in DOMAIN s.q : g[k] = {s.q[k][i].item : i \in DOMAIN s.q[k]}
    BY <1>3
  <2>2. \A x : x \in SubItems(s) <=> \E k \in DOMAIN s.q : x \in {s.q[k][i].item : i \in DOMAIN s.q[k]}
    BY DEF SubItems
  <2>3. PICK u : u = UNION {g[k] : k \in DOMAIN s.q}
    OBVIOUS
  <2>4. \A x : x \in u <=> \E k \in DOMAIN s.q : x \in g[k]
    BY <2>3
  <2>5. \A x : x \in SubItems(s) <=> x \in u
    BY <2>1, <2>2, <2>4
  <2> QED
    BY <2>3, <2>5
<1>8. Size(s.q) = SumFunctionOnSet(n, DOMAIN s.q)
  BY <1>4 DEF Size
<1>9. /\ IsFiniteSet(UNION {g[k] : k \in DOMAIN s.q})
      /\ Cardinality(UNION {g[k] : k \in DOMAIN s.q}) = SumFunctionOnSet(n, DOMAIN s.q)
  BY <1>2, <1>5, <1>6, UnionSize
<1> QED
  BY <1>1, <1>2, <1>7, <1>8, <1>9

\* ... the sizes of all of one kind add up to the number of theirs,
LEMMA LevelSize ==
    ASSUME NEW I, NEW f, IsLevels(f, I), IsApart(f)
    PROVE  /\ IsFiniteSet(LevelItems(f))
           /\ SumFunction([p \in DOMAIN f |-> f[p].size]) = Cardinality(LevelItems(f))
<1>1. IsFiniteSet(DOMAIN f)
  BY DEF IsLevels, IsMap
<1>2. PICK g, n : g = [p \in DOMAIN f |-> SubItems(f[p])] /\ n = [p \in DOMAIN f |-> f[p].size]
  OBVIOUS
<1>3. \A p \in DOMAIN f : IsFiniteSet(g[p]) /\ n[p] = Cardinality(g[p])
  BY <1>2, SubSize
<1>4. ASSUME NEW p \in DOMAIN f, NEW r \in DOMAIN f, p # r PROVE g[p] \cap g[r] = {}
  <2>1. ASSUME NEW x \in g[p], x \in g[r] PROVE FALSE
    <3>1. x \in SubItems(f[p]) /\ x \in SubItems(f[r])
      BY <1>2, <2>1
    <3>2. (\E k : Among(f, p, k, x)) /\ (\E k : Among(f, r, k, x))
      BY <3>1, SubItemsAre
    <3> QED
      BY <1>4, <3>2 DEF IsApart
  <2> QED
    BY <2>1
<1>5. LevelItems(f) = UNION {g[p] : p \in DOMAIN f}
  BY <1>2 DEF LevelItems
<1>6. SumFunction(n) = SumFunctionOnSet(n, DOMAIN f)
  BY <1>2 DEF SumFunction
<1>7. /\ IsFiniteSet(UNION {g[p] : p \in DOMAIN f})
      /\ Cardinality(UNION {g[p] : p \in DOMAIN f}) = SumFunctionOnSet(n, DOMAIN f)
  BY <1>1, <1>3, <1>4, UnionSize
<1> QED
  BY <1>2, <1>5, <1>6, <1>7

\* ... and length() is the number of items.
LEMMA LengthCounts ==
    ASSUME NEW I, NEW pq, IsQueue(pq, I), IsApart(pq.low), IsApart(pq.high),
           \A p, k, r, j, x : ~(Among(pq.low, p, k, x) /\ Among(pq.high, r, j, x))
    PROVE  IsFiniteSet(QueuedItems(pq)) /\ Length(pq) = Cardinality(QueuedItems(pq))
<1>1. IsLevels(pq.low, I) /\ IsLevels(pq.high, I)
  BY DEF IsQueue
<1>2. QueuedItems(pq) = LevelItems(pq.low) \cup LevelItems(pq.high)
  BY DEF QueuedItems, LevelItems
<1>3. PICK a, b : a = LevelItems(pq.low) /\ b = LevelItems(pq.high)
  OBVIOUS
<1>4. a \cap b = {}
  BY <1>1, <1>3, LevelItemsAre
<1>5. IsFiniteSet(a) /\ IsFiniteSet(b) /\ Length(pq) = Cardinality(a) + Cardinality(b)
  BY <1>1, <1>3, LevelSize DEF Length
<1>6. /\ IsFiniteSet(a \cup b)
      /\ Cardinality(a \cup b) = Cardinality(a) + Cardinality(b) - Cardinality(a \cap b)
  BY <1>5, FS_Union
<1>7. Cardinality(a \cap b) = 0 /\ Cardinality(a) \in Nat /\ Cardinality(b) \in Nat
  BY <1>4, <1>5, FS_EmptySet, FS_CardinalityType
<1> QED
  BY <1>2, <1>3, <1>5, <1>6, <1>7

-----------------------------------------------------------------------------
(* The dispatch queue                                                       *)

\* A list whose items are in S, none of them twice.
IsList(s, S) == s \in Seq(S) /\ IsInjective(s)

\* The SubQueues that priority p belongs to.
Half(pq, p) == IF p >= PrioLow THEN pq.high ELSE pq.low

Homes(key) == {x \in Items : Key(x) = key}

\* The queue pq is sound; its FIFOs are those of the history h, no others,
\* and no item is at two places or at a wrong one.
Agrees(pq, h) ==
    /\ IsQueue(pq, Items)
    /\ \A p \in DOMAIN pq.high : p >= PrioLow /\ \A k \in DOMAIN pq.high[p].q : <<k, p>> \in Keys
    /\ \A p \in DOMAIN pq.low : p < PrioLow /\ \A k \in DOMAIN pq.low[p].q : <<k, p>> \in Keys
    /\ h = [key \in Keys |-> h[key]]
    /\ \A key \in Keys :
        /\ h[key] = ItemsAt(Half(pq, key[2]), key[2], key[1])
        /\ IsList(h[key], Homes(key))

\* Class k comes before class j when the turns go on from class c.
Before(c, k, j) == (c <= k /\ k < j) \/ (k < j /\ j < c) \/ (j < c /\ c <= k)

\* Who was passed by, T, still waits and comes first.
IsTurns(pq, h, T) ==
    \A t \in T :
        /\ t = <<t[1], t[2], t[3]>> /\ t[3] \in Nat
        /\ <<t[2], t[1]>> \in Keys /\ h[<<t[2], t[1]>>] # <<>>
        /\ Before(Half(pq, t[1])[t[1]].cur, t[2], t[3])

QueueInv == Agrees(mqueue, fifo)
TurnsInv == IsTurns(mqueue, fifo, passed)

-----------------------------------------------------------------------------
(* Lists                                                                   *)

\* A list with one more item,
LEMMA ListAppend ==
    ASSUME NEW S, NEW s, IsList(s, S), NEW x \in S, x \notin Range(s)
    PROVE  /\ IsList(Append(s, x), S) /\ Append(s, x) # <<>>
           /\ Range(Append(s, x)) = Range(s) \cup {x}
<1>0. PICK r : r = Append(s, x)
  OBVIOUS
<1>1. s \in Seq(S) /\ Len(s) \in Nat /\ DOMAIN s = 1..Len(s)
  BY LenProperties DEF IsList
<1>2. /\ r \in Seq(S) /\ r # <<>> /\ Len(r) = Len(s) + 1 /\ DOMAIN r = 1..(Len(s) + 1)
      /\ \A i \in 1..Len(s) : r[i] = s[i]
      /\ r[Len(s) + 1] = x
  BY <1>0, <1>1, AppendProperties, LenProperties
<1>3. \A i \in DOMAIN r : i \in DOMAIN s \/ i = Len(s) + 1
  BY <1>1, <1>2
<1>4. \A i \in DOMAIN s : i \in DOMAIN r /\ r[i] = s[i] /\ s[i] # x
  BY <1>1, <1>2 DEF Range
<1>5. Len(s) + 1 \in DOMAIN r
  BY <1>1, <1>2
<1>6. Range(r) = Range(s) \cup {x}
  BY <1>2, <1>3, <1>4, <1>5 DEF Range
<1>7. IsInjective(r)
  <2>1. \A i, j \in DOMAIN s : s[i] = s[j] => i = j
    BY DEF IsList, IsInjective
  <2> QED
    BY <1>2, <1>3, <1>4, <2>1 DEF IsInjective
<1> QED
  BY <1>0, <1>2, <1>6, <1>7 DEF IsList

\* ... or without its first one.
LEMMA ListTail ==
    ASSUME NEW S, NEW s, IsList(s, S), s # <<>>
    PROVE  /\ IsList(Tail(s), S) /\ Head(s) \in Range(s) /\ Head(s) \in S
           /\ Range(Tail(s)) = Range(s) \ {Head(s)}
<1>0. PICK r : r = Tail(s)
  OBVIOUS
<1>1. s \in Seq(S) /\ Len(s) \in Nat \ {0} /\ DOMAIN s = 1..Len(s)
  BY LenProperties, EmptySeq DEF IsList
<1>2. /\ r \in Seq(S) /\ Len(r) = Len(s) - 1 /\ DOMAIN r = 1..(Len(s) - 1)
      /\ \A i \in 1..(Len(s) - 1) : r[i] = s[i + 1]
      /\ Head(s) \in S /\ Head(s) = s[1]
  BY <1>0, <1>1, HeadTailProperties, LenProperties
<1>3. \A i \in DOMAIN r : i + 1 \in DOMAIN s /\ i + 1 # 1 /\ r[i] = s[i + 1]
  BY <1>1, <1>2
<1>4. \A i \in DOMAIN s : i = 1 \/ (i - 1 \in DOMAIN r /\ (i - 1) + 1 = i)
  BY <1>1, <1>2
<1>5. 1 \in DOMAIN s
  BY <1>1
<1>6. \A i, j \in DOMAIN s : s[i] = s[j] => i = j
  BY DEF IsList, IsInjective
<1>7. \A i \in DOMAIN r : r[i] \in Range(s) /\ r[i] # Head(s)
  BY <1>2, <1>3, <1>5, <1>6 DEF Range
<1>8. \A i \in DOMAIN s : s[i] = Head(s) \/ s[i] \in Range(r)
  <2> TAKE i \in DOMAIN s
  <2>1. CASE i = 1
    BY <1>2, <2>1
  <2>2. CASE i # 1
    <3>1. i - 1 \in DOMAIN r /\ r[i - 1] = s[i]
      BY <1>3, <1>4, <2>2
    <3> QED
      BY <3>1 DEF Range
  <2> QED
    BY <2>1, <2>2
<1>9. Range(r) = Range(s) \ {Head(s)} /\ Head(s) \in Range(s)
  <2>1. Head(s) \in Range(s)
    BY <1>2, <1>5 DEF Range
  <2>2. \A e \in Range(r) : e \in Range(s) /\ e # Head(s)
    BY <1>7 DEF Range
  <2>3. \A e \in Range(s) : e = Head(s) \/ e \in Range(r)
    BY <1>8 DEF Range
  <2> QED
    BY <2>1, <2>2, <2>3
<1>10. IsInjective(r)
  <2>1. \A i, j \in DOMAIN r : r[i] = r[j] => i + 1 = j + 1
    BY <1>3, <1>6
  <2>2. \A i, j \in DOMAIN r : i + 1 = j + 1 => i = j
    BY <1>2
  <2> QED
    BY <2>1, <2>2 DEF IsInjective
<1> QED
  BY <1>0, <1>2, <1>9, <1>10 DEF IsList

\* The empty list is one, and the only one without items.
LEMMA ListEmpty ==
    ASSUME NEW S
    PROVE  IsList(<<>>, S) /\ Range(<<>>) = {} /\ \A s : IsList(s, S) /\ s # <<>> => Range(s) # {}
<1>1. <<>> \in Seq(S) /\ DOMAIN <<>> = {}
  BY EmptySeq
<1>2. IsList(<<>>, S) /\ Range(<<>>) = {}
  BY <1>1 DEF IsList, IsInjective, Range
<1> QED
  BY <1>2, ListTail

\* Its items are in S.
LEMMA ListRange ==
    ASSUME NEW S, NEW s, IsList(s, S)
    PROVE  Range(s) \subseteq S
BY LenProperties, ElementOfSeq DEF IsList, Range

-----------------------------------------------------------------------------
(* The items                                                               *)

\* Codes are no messages, and the messages of the process itself are not those
\* of a connection.
LEMMA ItemKinds ==
    /\ \A x \in Messages : x \notin Codes /\ x # Nothing /\ Mail[x].cost \in Nat
    /\ \A x \in Codes : x # Nothing /\ Conn(x) = 0 /\ Prio(x) = PrioHighest
    /\ \A x \in Local : x \in Messages /\ Conn(x) = 0
    /\ \A x \in Remote : x \in Messages /\ Conn(x) \in Conns /\ x \in Of(Conn(x))
    /\ \A k \in Conns : k \in Nat /\ k # 0
    /\ \A k : \A x \in Of(k) : x \in Remote /\ Conn(x) = k
    /\ Messages = Local \cup Remote
    /\ Local \cap Remote = {}
<1>1. \A x \in Codes : x # <<>>
  <2> TAKE x \in Codes
  <2>0. ASSUME NEW A, NEW B, x \in A \X B PROVE \E a, k : x = <<a, k>>
    BY <2>0
  <2>1. PICK a, k : x = <<a, k>>
    BY <2>0 DEF Codes
  <2>2. Len(<<a, k>>) = 2 /\ Len(<<>>) = 0
    OBVIOUS
  <2> QED
    BY <2>1, <2>2
<1>2. Messages \cap (Codes \cup {Nothing}) = {} /\ Conns \subseteq Nat \ {0}
  BY MailAssumption
<1>3. \A x \in Messages : Mail[x].cost \in Nat
  BY MailAssumption
<1>4. \A x \in Codes : x \notin Messages
  BY <1>2
<1> QED
  BY <1>1, <1>2, <1>3, <1>4 DEF Nothing, Conn, Prio, Local, Remote, Of, Conns

\* Which the codes are.
LEMMA CodeKinds ==
    /\ \A k \in Faults : k \in Conns /\ <<"reset", k>> \in Codes
    /\ \A k \in Resets : k \in Conns /\ <<"remote reset", k>> \in Codes
<1>1. Faults \subseteq Conns /\ Resets \subseteq Conns
  BY MailAssumption
<1>2. \A k \in Faults : <<"reset", k>> \in Codes
  BY DEF Codes
<1>3. \A k \in Resets : <<"remote reset", k>> \in Codes
  BY DEF Codes
<1> QED
  BY <1>1, <1>2, <1>3

\* Every item has a key.
LEMMA KeyType ==
    /\ \A x \in Items : /\ Conn(x) \in Nat /\ Prio(x) \in Nat
                        /\ Key(x) \in Keys /\ Key(x) = <<Conn(x), Prio(x)>>
    /\ \A key \in Keys : key = <<key[1], key[2]>> /\ key[1] \in Nat /\ key[2] \in Nat
<1>1. ASSUME NEW x \in Items PROVE Conn(x) \in Nat /\ Prio(x) \in Nat
  <2>1. CASE x \in Messages
    <3>1. Prio(x) \in Nat
      BY <2>1, MailAssumption DEF Prio
    <3>2. Conn(x) \in Nat
      BY <2>1, ItemKinds
    <3> QED
      BY <3>1, <3>2
  <2>2. CASE x \in Codes
    BY <2>2, ItemKinds, MailAssumption
  <2> QED
    BY <2>1, <2>2 DEF Items
<1>2. \A x \in Items : Key(x) \in Keys /\ Key(x) = <<Conn(x), Prio(x)>>
  BY DEF Keys, Key
<1>3. \A key \in Keys : key = <<key[1], key[2]>> /\ key[1] \in Nat /\ key[2] \in Nat
  BY <1>1 DEF Keys, Key
<1> QED
  BY <1>1, <1>2, <1>3

-----------------------------------------------------------------------------
(* The queue and its history                                               *)

\* What every class and priority has, in both kinds of SubQueues.
Fifos(pq, h) ==
    \A p, k :
        /\ ItemsAt(pq.high, p, k) = IF <<k, p>> \in Keys /\ p >= PrioLow THEN h[<<k, p>>] ELSE <<>>
        /\ ItemsAt(pq.low, p, k) = IF <<k, p>> \in Keys /\ ~(p >= PrioLow) THEN h[<<k, p>>] ELSE <<>>

\* Lists of the right items.
Lists(h) == h = [key \in Keys |-> h[key]] /\ \A key \in Keys : IsList(h[key], Homes(key))

\* Agrees says that,
LEMMA AgreesHasFifos ==
    ASSUME NEW pq, NEW h, Agrees(pq, h)
    PROVE  Fifos(pq, h)
<1>1. IsLevels(pq.high, Items) /\ IsLevels(pq.low, Items)
  BY DEF Agrees, IsQueue
<1>2. /\ \A p \in DOMAIN pq.high : p >= PrioLow /\ \A k \in DOMAIN pq.high[p].q : <<k, p>> \in Keys
      /\ \A p \in DOMAIN pq.low : p < PrioLow /\ \A k \in DOMAIN pq.low[p].q : <<k, p>> \in Keys
      /\ \A key \in Keys : h[key] = ItemsAt(Half(pq, key[2]), key[2], key[1])
  BY DEF Agrees
<1>3. PrioLow \in Nat /\ DOMAIN pq.low \in SUBSET Nat
  BY <1>1, MailAssumption DEF IsLevels, IsMap
<1>4. ASSUME NEW p, NEW k
      PROVE  /\ ItemsAt(pq.high, p, k) = <<>> \/ (<<k, p>> \in Keys /\ p >= PrioLow)
             /\ ItemsAt(pq.low, p, k) = <<>> \/ (<<k, p>> \in Keys /\ ~(p >= PrioLow))
  <2>1. ItemsAt(pq.high, p, k) # <<>> => p \in DOMAIN pq.high /\ k \in DOMAIN pq.high[p].q
    BY <1>1, AtType
  <2>2. ItemsAt(pq.low, p, k) # <<>> => p \in DOMAIN pq.low /\ k \in DOMAIN pq.low[p].q
    BY <1>1, AtType
  <2>3. p \in DOMAIN pq.low => ~(p >= PrioLow)
    BY <1>2, <1>3
  <2> QED
    BY <1>2, <2>1, <2>2, <2>3
<1>5. ASSUME NEW p, NEW k, <<k, p>> \in Keys PROVE h[<<k, p>>] = ItemsAt(Half(pq, p), p, k)
  BY <1>2, <1>5
<1>6. ASSUME NEW p, NEW k
      PROVE  /\ ItemsAt(pq.high, p, k) = IF <<k, p>> \in Keys /\ p >= PrioLow THEN h[<<k, p>>] ELSE <<>>
             /\ ItemsAt(pq.low, p, k) = IF <<k, p>> \in Keys /\ ~(p >= PrioLow) THEN h[<<k, p>>] ELSE <<>>
  <2>1. PICK a, b, l : a = ItemsAt(pq.low, p, k) /\ b = ItemsAt(pq.high, p, k) /\ l = h[<<k, p>>]
    OBVIOUS
  <2>2. <<k, p>> \in Keys => l = IF p >= PrioLow THEN b ELSE a
    BY <1>5, <2>1 DEF Half
  <2>3. /\ b = <<>> \/ (<<k, p>> \in Keys /\ p >= PrioLow)
        /\ a = <<>> \/ (<<k, p>> \in Keys /\ ~(p >= PrioLow))
    BY <1>4, <2>1
  <2> QED
    BY <2>1, <2>2, <2>3
<1> QED
  BY <1>6 DEF Fifos

\* ... and no more.
LEMMA FifosAgree ==
    ASSUME NEW pq, NEW h, IsQueue(pq, Items), Lists(h), Fifos(pq, h)
    PROVE  Agrees(pq, h)
<1>1. IsLevels(pq.high, Items) /\ IsLevels(pq.low, Items)
  BY DEF IsQueue
<1>2. ASSUME NEW p \in DOMAIN pq.high, NEW k \in DOMAIN pq.high[p].q
      PROVE  p >= PrioLow /\ <<k, p>> \in Keys
  <2>1. ItemsAt(pq.high, p, k) # <<>>
    BY <1>1, AtType
  <2> QED
    BY <2>1 DEF Fifos
<1>3. ASSUME NEW p \in DOMAIN pq.low, NEW k \in DOMAIN pq.low[p].q
      PROVE  p < PrioLow /\ <<k, p>> \in Keys
  <2>1. ItemsAt(pq.low, p, k) # <<>>
    BY <1>1, AtType
  <2>2. ~(p >= PrioLow) /\ <<k, p>> \in Keys
    BY <2>1 DEF Fifos
  <2>3. p \in Nat /\ PrioLow \in Nat
    BY <1>1, MailAssumption DEF IsLevels, IsMap
  <2> QED
    BY <2>2, <2>3
<1>4. /\ \A p \in DOMAIN pq.high : pq.high[p].cur \in DOMAIN pq.high[p].q
      /\ \A p \in DOMAIN pq.low : pq.low[p].cur \in DOMAIN pq.low[p].q
  BY <1>1, CursorAtItems
<1>5. ASSUME NEW key \in Keys PROVE h[key] = ItemsAt(Half(pq, key[2]), key[2], key[1])
  <2>1. PICK k, p : k = key[1] /\ p = key[2] /\ key = <<k, p>>
    BY KeyType
  <2>2. h[<<k, p>>] = ItemsAt(Half(pq, p), p, k)
    BY <2>1 DEF Fifos, Half
  <2> QED
    BY <2>1, <2>2
<1> QED
  BY <1>2, <1>3, <1>4, <1>5 DEF Agrees, Lists

\* What is in the queue is in the list of its class and priority.
LEMMA QueuedIs ==
    ASSUME NEW pq, NEW h, Agrees(pq, h), NEW x
    PROVE  x \in QueuedItems(pq) <=> x \in Items /\ x \in Range(h[Key(x)])
<1>1. Fifos(pq, h) /\ IsQueue(pq, Items) /\ \A key \in Keys : IsList(h[key], Homes(key))
  BY AgreesHasFifos DEF Agrees
<1>2. x \in QueuedItems(pq) <=> \E p, k : Among(pq.low, p, k, x) \/ Among(pq.high, p, k, x)
  BY <1>1, QueuedItemsAre
<1>3. ASSUME NEW p, NEW k
      PROVE  Among(pq.low, p, k, x) \/ Among(pq.high, p, k, x) <=>
               <<k, p>> \in Keys /\ x \in Range(h[<<k, p>>])
  <2>1. ~(\E i \in DOMAIN <<>> : <<>>[i] = x)
    BY EmptySeq
  <2>2. PICK a, b, l : a = ItemsAt(pq.low, p, k) /\ b = ItemsAt(pq.high, p, k) /\ l = h[<<k, p>>]
    OBVIOUS
  <2>3. /\ b = IF <<k, p>> \in Keys /\ p >= PrioLow THEN l ELSE <<>>
        /\ a = IF <<k, p>> \in Keys /\ ~(p >= PrioLow) THEN l ELSE <<>>
    BY <1>1, <2>2 DEF Fifos
  <2>4. /\ Among(pq.low, p, k, x) <=> \E i \in DOMAIN a : a[i] = x
        /\ Among(pq.high, p, k, x) <=> \E i \in DOMAIN b : b[i] = x
    BY <2>2 DEF Among
  <2> QED
    BY <2>1, <2>2, <2>3, <2>4 DEF Range
<1>4. ASSUME NEW key \in Keys, x \in Range(h[key]) PROVE x \in Items /\ key = Key(x)
  BY <1>1, <1>4, ListRange DEF Homes
<1>5. ASSUME x \in QueuedItems(pq) PROVE x \in Items /\ x \in Range(h[Key(x)])
  <2>1. PICK p, k : Among(pq.low, p, k, x) \/ Among(pq.high, p, k, x)
    BY <1>2, <1>5
  <2>2. PICK key : key = <<k, p>> /\ key \in Keys /\ x \in Range(h[key])
    BY <1>3, <2>1
  <2> QED
    BY <1>4, <2>2
<1>6. ASSUME x \in Items, x \in Range(h[Key(x)]) PROVE x \in QueuedItems(pq)
  <2>1. <<Conn(x), Prio(x)>> \in Keys /\ Key(x) = <<Conn(x), Prio(x)>>
    BY <1>6, KeyType
  <2> QED
    BY <1>2, <1>3, <1>6, <2>1
<1> QED
  BY <1>5, <1>6

\* It is as many as length() says.
LEMMA AgreesLength ==
    ASSUME NEW pq, NEW h, Agrees(pq, h)
    PROVE  Length(pq) = Cardinality(QueuedItems(pq))
<1>1. Fifos(pq, h) /\ IsQueue(pq, Items) /\ \A key \in Keys : IsList(h[key], Homes(key))
  BY AgreesHasFifos DEF Agrees
<1>2. ASSUME NEW p, NEW k, NEW x, Among(pq.low, p, k, x)
      PROVE  x \in Items /\ Key(x) = <<k, p>> /\ ~(p >= PrioLow)
  <2>1. ~(\E i \in DOMAIN <<>> : <<>>[i] = x)
    BY EmptySeq
  <2>2. <<k, p>> \in Keys /\ ~(p >= PrioLow) /\ x \in Range(h[<<k, p>>])
    BY <1>1, <1>2, <2>1 DEF Fifos, Among, Range
  <2> QED
    BY <1>1, <2>2, ListRange DEF Homes
<1>3. ASSUME NEW p, NEW k, NEW x, Among(pq.high, p, k, x)
      PROVE  x \in Items /\ Key(x) = <<k, p>> /\ p >= PrioLow
  <2>1. ~(\E i \in DOMAIN <<>> : <<>>[i] = x)
    BY EmptySeq
  <2>2. <<k, p>> \in Keys /\ p >= PrioLow /\ x \in Range(h[<<k, p>>])
    BY <1>1, <1>3, <2>1 DEF Fifos, Among, Range
  <2> QED
    BY <1>1, <2>2, ListRange DEF Homes
<1>4. ASSUME NEW p, NEW k, NEW a, a \in {ItemsAt(pq.low, p, k), ItemsAt(pq.high, p, k)}
      PROVE  \A i, m \in DOMAIN a : a[i] = a[m] => i = m
  <2>1. a = <<>> \/ (<<k, p>> \in Keys /\ a = h[<<k, p>>])
    BY <1>1, <1>4 DEF Fifos
  <2> QED
    BY <1>1, <2>1, EmptySeq DEF IsList, IsInjective
<1>5. \A p, k, r, j : <<k, p>> = <<j, r>> => p = r /\ k = j
  OBVIOUS
<1>6. IsApart(pq.low)
  BY <1>2, <1>4, <1>5 DEF IsApart
<1>7. IsApart(pq.high)
  BY <1>3, <1>4, <1>5 DEF IsApart
<1>8. \A p, k, r, j, x : ~(Among(pq.low, p, k, x) /\ Among(pq.high, r, j, x))
  BY <1>2, <1>3, <1>5
<1> QED
  BY <1>1, <1>6, <1>7, <1>8, LengthCounts

\* A class has items of a priority if the SubQueue has its FIFO.
LEMMA AgreesPlace ==
    ASSUME NEW pq, NEW h, Agrees(pq, h), NEW k, NEW p, <<k, p>> \in Keys
    PROVE  h[<<k, p>>] # <<>> <=> p \in DOMAIN Half(pq, p) /\ k \in DOMAIN Half(pq, p)[p].q
<1>1. PICK f : f = Half(pq, p) /\ IsLevels(f, Items)
  BY DEF Agrees, IsQueue, Half
<1>2. h[<<k, p>>] = ItemsAt(f, p, k)
  BY <1>1 DEF Agrees
<1> QED
  BY <1>1, <1>2, AtType

\* Who waits stays before those who had their turn when the turn goes on, and
\* before the one whose turn it was.
LEMMA BeforeMoves ==
    ASSUME NEW q, DOMAIN q \in SUBSET Nat, NEW c \in Nat, NEW n, IsAfter(q, c, n),
           NEW k \in DOMAIN q, k # c, NEW j \in Nat
    PROVE  Before(n, k, c) /\ (Before(c, k, j) => Before(n, k, j))
<1>1. n \in Nat /\ k \in Nat
  BY DEF IsAfter
<1>2. CASE c < k
  <2>1. c < n /\ n <= k
    BY <1>1, <1>2 DEF IsAfter
  <2> QED
    BY <1>1, <1>2, <2>1 DEF Before
<1>3. CASE k < c
  <2>1. CASE n <= c
    <3>1. n <= k
      BY <2>1 DEF IsAfter
    <3> QED
      BY <1>1, <1>3, <2>1, <3>1 DEF Before
  <2>2. CASE c < n
    BY <1>1, <1>3, <2>2 DEF Before
  <2> QED
    BY <1>1, <2>1, <2>2
<1> QED
  BY <1>1, <1>2, <1>3

\* The lists g are h with l for one key.
IsPut(h, key, l, g) == Lists(g) /\ g[key] = l /\ \A j \in Keys \ {key} : g[j] = h[j]

\* r is pq with l for class k and priority p.
IsChange(pq, p, k, l, r) ==
    /\ IF p >= PrioLow THEN r.low = pq.low ELSE r.high = pq.high
    /\ \A n, j : ItemsAt(Half(r, p), n, j) = IF n = p /\ j = k THEN l ELSE ItemsAt(Half(pq, p), n, j)

\* One list changes.
LEMMA FifosChange ==
    ASSUME NEW pq, NEW h, Fifos(pq, h), Lists(h), NEW k, NEW p, NEW key \in Keys, key = <<k, p>>,
           NEW l, NEW r, IsChange(pq, p, k, l, r), NEW g, IsPut(h, key, l, g)
    PROVE  Fifos(r, g)
<1>1. \A n, j : <<j, n>> \in Keys => g[<<j, n>>] = IF n = p /\ j = k THEN l ELSE h[<<j, n>>]
  <2>1. \A n, j : <<j, n>> = key <=> n = p /\ j = k
    OBVIOUS
  <2> QED
    BY <2>1 DEF IsPut
<1>2. ASSUME NEW n, NEW j
      PROVE  /\ ItemsAt(r.high, n, j) = IF <<j, n>> \in Keys /\ n >= PrioLow THEN g[<<j, n>>] ELSE <<>>
             /\ ItemsAt(r.low, n, j) = IF <<j, n>> \in Keys /\ ~(n >= PrioLow) THEN g[<<j, n>>] ELSE <<>>
  <2>1. /\ ItemsAt(pq.high, n, j) = IF <<j, n>> \in Keys /\ n >= PrioLow THEN h[<<j, n>>] ELSE <<>>
        /\ ItemsAt(pq.low, n, j) = IF <<j, n>> \in Keys /\ ~(n >= PrioLow) THEN h[<<j, n>>] ELSE <<>>
    BY DEF Fifos
  <2>2. CASE p >= PrioLow
    <3>1. r.low = pq.low /\ ItemsAt(r.high, n, j) = IF n = p /\ j = k THEN l ELSE ItemsAt(pq.high, n, j)
      BY <2>2 DEF IsChange, Half
    <3>2. CASE n = p /\ j = k
      BY <1>1, <2>1, <2>2, <3>1, <3>2
    <3>3. CASE ~(n = p /\ j = k)
      BY <1>1, <2>1, <3>1, <3>3
    <3> QED
      BY <3>2, <3>3
  <2>3. CASE ~(p >= PrioLow)
    <3>1. r.high = pq.high /\ ItemsAt(r.low, n, j) = IF n = p /\ j = k THEN l ELSE ItemsAt(pq.low, n, j)
      BY <2>3 DEF IsChange, Half
    <3>2. CASE n = p /\ j = k
      BY <1>1, <2>1, <2>3, <3>1, <3>2
    <3>3. CASE ~(n = p /\ j = k)
      BY <1>1, <2>1, <3>1, <3>3
    <3> QED
      BY <3>2, <3>3
  <2> QED
    BY <2>2, <2>3
<1> QED
  BY <1>2 DEF Fifos

\* ... to one with the right items.
LEMMA ListsChange ==
    ASSUME NEW h, Lists(h), NEW key \in Keys, NEW l, IsList(l, Homes(key))
    PROVE  IsPut(h, key, l, [h EXCEPT ![key] = l])
<1>0. PICK g : g = [h EXCEPT ![key] = l]
  OBVIOUS
<1>1. DOMAIN h = Keys /\ \A j \in Keys : IsList(h[j], Homes(j))
  BY DEF Lists
<1>2. DOMAIN g = Keys /\ g = [j \in Keys |-> g[j]] /\ g[key] = l /\ \A j \in Keys \ {key} : g[j] = h[j]
  BY <1>0, <1>1
<1> QED
  BY <1>0, <1>1, <1>2 DEF Lists, IsPut

\* The history with an item more or less, and without class k.
Longer(h, x) == [h EXCEPT ![Key(x)] = Append(@, x)]
Shorter(h, x) == [h EXCEPT ![Key(x)] = Tail(@)]
Cleared(h, k) == [key \in Keys |-> IF key[1] = k THEN <<>> ELSE h[key]]

-----------------------------------------------------------------------------
(* An item is put in                                                       *)

\* What Put does to _mqueue.
Added(pq, x) == IF Prio(x) >= PrioLow THEN EnqueueStrict(pq, Conn(x), Prio(x), x)
                ELSE Enqueue(pq, Conn(x), Prio(x), Mail[x].cost, x)

\* It goes to its place, and no turn changes.
LEMMA AddedEffect ==
    ASSUME NEW pq, IsQueue(pq, Items), NEW x \in Items, NEW r, r = Added(pq, x)
    PROVE  /\ IsQueue(r, Items)
           /\ Puts(Half(pq, Prio(x)), Prio(x), Conn(x), x, Half(r, Prio(x)))
           /\ IF Prio(x) >= PrioLow THEN r.low = pq.low ELSE r.high = pq.high
<1>1. PICK k, p : k = Conn(x) /\ p = Prio(x) /\ k \in Nat /\ p \in Nat
  BY KeyType
<1>2. CASE p >= PrioLow
  <2>1. r = EnqueueStrict(pq, k, p, x)
    BY <1>1, <1>2 DEF Added
  <2>2. IsQueue(r, Items) /\ r.low = pq.low /\ Puts(pq.high, p, k, x, r.high)
    BY <1>1, <2>1, EnqueueStrictEffect
  <2> QED
    BY <1>1, <1>2, <2>2 DEF Half
<1>3. CASE ~(p >= PrioLow)
  <2>1. PICK c : c = Mail[x].cost /\ c \in Nat
    <3>1. x \in Messages
      <4>1. x \in Codes => p = PrioHighest
        BY <1>1, ItemKinds
      <4>2. PrioHighest >= PrioLow
        BY MailAssumption
      <4> QED
        BY <1>3, <4>1, <4>2 DEF Items
    <3> QED
      BY <3>1, ItemKinds
  <2>2. r = Enqueue(pq, k, p, c, x)
    BY <1>1, <1>3, <2>1 DEF Added
  <2>3. k \in Nat /\ p \in Nat /\ c \in Nat
    BY <1>1, <2>1
  <2>4. IsQueue(r, Items) /\ r.high = pq.high /\ Puts(pq.low, p, k, x, r.low)
    BY <2>2, <2>3, EnqueueEffect
  <2> QED
    BY <1>1, <1>3, <2>4 DEF Half
<1> QED
  BY <1>2, <1>3

\* The queue and its history after that.
LEMMA AddedAgrees ==
    ASSUME NEW pq, NEW h, Agrees(pq, h), NEW x \in Items, x \notin QueuedItems(pq),
           NEW r, r = Added(pq, x), NEW g, g = Longer(h, x)
    PROVE  /\ Agrees(r, g) /\ QueuedItems(r) = QueuedItems(pq) \cup {x}
           /\ \A T : IsTurns(pq, h, T) => IsTurns(r, g, T)
<1>1. PICK k, p, key, old, l : /\ k = Conn(x) /\ p = Prio(x) /\ key = Key(x)
                               /\ old = h[key] /\ l = Append(old, x)
  OBVIOUS
<1>2. key \in Keys /\ key = <<k, p>> /\ p \in Nat
  BY <1>1, KeyType
<1>3. IsQueue(pq, Items) /\ Lists(h) /\ Fifos(pq, h)
  BY AgreesHasFifos DEF Agrees, Lists
<1>4. /\ IsQueue(r, Items) /\ Puts(Half(pq, p), p, k, x, Half(r, p))
      /\ IF p >= PrioLow THEN r.low = pq.low ELSE r.high = pq.high
  BY <1>1, <1>3, AddedEffect
<1>5. IsList(old, Homes(key)) /\ x \in Homes(key) /\ x \notin Range(old)
  BY <1>1, <1>2, <1>3, QueuedIs DEF Lists, Homes
<1>6. IsList(l, Homes(key)) /\ Range(l) = Range(old) \cup {x} /\ l # <<>>
  BY <1>1, <1>5, ListAppend
<1>7. IsPut(h, key, l, g)
  BY <1>1, <1>2, <1>3, <1>6, ListsChange DEF Longer
<1>8. Lists(g) /\ g[key] = l /\ \A j \in Keys \ {key} : g[j] = h[j]
  BY <1>7 DEF IsPut
<1>9. old = ItemsAt(Half(pq, p), p, k)
  BY <1>1, <1>2 DEF Agrees
<1>10. IsChange(pq, p, k, l, r)
  BY <1>1, <1>4, <1>9 DEF Puts, IsChange
<1>11. Fifos(r, g)
  BY <1>2, <1>3, <1>7, <1>10, FifosChange
<1>12. Agrees(r, g)
  BY <1>4, <1>8, <1>11, FifosAgree
<1>13. \A y : y \in QueuedItems(r) <=> y \in QueuedItems(pq) \/ y = x
  <2> TAKE y
  <2>1. y \in QueuedItems(r) <=> y \in Items /\ y \in Range(g[Key(y)])
    BY <1>12, QueuedIs
  <2>2. y \in QueuedItems(pq) <=> y \in Items /\ y \in Range(h[Key(y)])
    BY QueuedIs
  <2>3. y \in Items => Key(y) \in Keys
    BY KeyType
  <2>4. CASE y \in Items /\ Key(y) = key
    <3>1. g[Key(y)] = l /\ h[Key(y)] = old
      BY <1>1, <1>8, <2>4
    <3>2. y \in Range(g[Key(y)]) <=> y \in Range(h[Key(y)]) \/ y = x
      BY <1>6, <3>1
    <3> QED
      BY <2>1, <2>2, <2>4, <3>2
  <2>5. CASE ~(y \in Items /\ Key(y) = key)
    BY <1>1, <1>8, <2>1, <2>2, <2>3, <2>5
  <2> QED
    BY <2>4, <2>5
<1>14. ASSUME NEW T, IsTurns(pq, h, T), NEW t \in T
       PROVE  /\ t = <<t[1], t[2], t[3]>> /\ t[3] \in Nat
              /\ <<t[2], t[1]>> \in Keys /\ g[<<t[2], t[1]>>] # <<>>
              /\ Before(Half(r, t[1])[t[1]].cur, t[2], t[3])
  <2>1. /\ t = <<t[1], t[2], t[3]>> /\ t[3] \in Nat
        /\ <<t[2], t[1]>> \in Keys /\ h[<<t[2], t[1]>>] # <<>>
        /\ Before(Half(pq, t[1])[t[1]].cur, t[2], t[3])
    BY <1>14 DEF IsTurns
  <2>2. g[<<t[2], t[1]>>] # <<>>
    BY <1>6, <1>8, <2>1
  <2>3. t[1] \in DOMAIN Half(pq, t[1])
    BY <2>1, AgreesPlace
  <2>4. Half(r, t[1])[t[1]].cur = Half(pq, t[1])[t[1]].cur
    <3>1. \A n \in DOMAIN Half(pq, p) : Half(r, p)[n].cur = Half(pq, p)[n].cur
      BY <1>4 DEF Puts
    <3>2. \/ Half(pq, t[1]) = Half(pq, p) /\ Half(r, t[1]) = Half(r, p)
          \/ Half(r, t[1]) = Half(pq, t[1])
      BY <1>4 DEF Half
    <3> QED
      BY <2>3, <3>1, <3>2
  <2> QED
    BY <2>1, <2>2, <2>4
<1>15. \A T : IsTurns(pq, h, T) => IsTurns(r, g, T)
  BY <1>14 DEF IsTurns
<1> QED
  BY <1>12, <1>13, <1>15

-----------------------------------------------------------------------------
(* An item is taken                                                        *)

\* dequeue() takes x from class k and priority p, and leaves r.
IsTaken(pq, p, k, x, r) ==
    /\ IsQueue(r, Items)
    /\ IF p >= PrioLow THEN r.low = pq.low ELSE r.high = pq.high
    /\ Takes(Half(pq, p), p, k, x, Half(r, p))

\* It takes the first item of a list.
LEMMA TakenEffect ==
    ASSUME NEW pq, NEW h, Agrees(pq, h), ~IsEmpty(pq)
    PROVE  \E p, k : IsTaken(pq, p, k, Dequeued(pq), Rest(pq)) /\ <<k, p>> \in Keys
<1>1. PICK p, k, x, r : p = Level(pq) /\ k = Source(pq).cur /\ x = Dequeued(pq) /\ r = Rest(pq)
  OBVIOUS
<1>2. /\ IsQueue(pq, Items) /\ IsLevels(pq.high, Items) /\ IsLevels(pq.low, Items)
      /\ \A n \in DOMAIN pq.high : n >= PrioLow /\ \A j \in DOMAIN pq.high[n].q : <<j, n>> \in Keys
      /\ \A n \in DOMAIN pq.low : n < PrioLow /\ \A j \in DOMAIN pq.low[n].q : <<j, n>> \in Keys
  BY DEF Agrees, IsQueue
<1>3. /\ IsQueue(r, Items)
      /\ IF DOMAIN pq.high # {}
         THEN r.low = pq.low /\ Takes(pq.high, p, k, x, r.high)
         ELSE r.high = pq.high /\ Takes(pq.low, p, k, x, r.low)
  BY <1>1, <1>2, RestEffect
<1>4. CASE DOMAIN pq.high # {}
  <2>1. p \in DOMAIN pq.high /\ pq.high[p].cur = k
    BY <1>3, <1>4 DEF Takes
  <2>2. p >= PrioLow /\ <<k, p>> \in Keys
    BY <1>2, <2>1, CursorAtItems
  <2>3. IsTaken(pq, p, k, x, r)
    BY <1>3, <1>4, <2>2 DEF IsTaken, Half
  <2> QED
    BY <1>1, <2>2, <2>3
<1>5. CASE DOMAIN pq.high = {}
  <2>1. p \in DOMAIN pq.low /\ pq.low[p].cur = k
    BY <1>3, <1>5 DEF Takes
  <2>2. p < PrioLow /\ <<k, p>> \in Keys /\ p \in Nat /\ PrioLow \in Nat
    BY <1>2, <2>1, CursorAtItems, MailAssumption DEF IsLevels, IsMap
  <2>3. IsTaken(pq, p, k, x, r)
    BY <1>3, <1>5, <2>2 DEF IsTaken, Half
  <2> QED
    BY <1>1, <2>2, <2>3
<1> QED
  BY <1>4, <1>5

\* Where it was, and that it was the first there.
LEMMA TakenIsHead ==
    ASSUME NEW pq, NEW h, Agrees(pq, h), NEW p, NEW k, <<k, p>> \in Keys,
           NEW x, NEW r, IsTaken(pq, p, k, x, r)
    PROVE  /\ x \in Items /\ Key(x) = <<k, p>> /\ Conn(x) = k /\ Prio(x) = p
           /\ h[Key(x)] # <<>> /\ x = Head(h[Key(x)])
           /\ h[Key(x)] = ItemsAt(Half(pq, p), p, k)
<1>1. PICK key, old : key = <<k, p>> /\ old = h[key]
  OBVIOUS
<1>2. old = ItemsAt(Half(pq, p), p, k) /\ IsList(old, Homes(key))
  BY <1>1 DEF Agrees
<1>3. old # <<>> /\ x = Head(old)
  BY <1>2 DEF IsTaken, Takes
<1>4. x \in Homes(key)
  BY <1>2, <1>3, ListTail
<1>5. x \in Items /\ Key(x) = key
  BY <1>4 DEF Homes
<1>6. Conn(x) = k /\ Prio(x) = p
  BY <1>1, <1>5 DEF Key
<1> QED
  BY <1>1, <1>2, <1>3, <1>5, <1>6

\* The queue and its history after that.
LEMMA TakenAgrees ==
    ASSUME NEW pq, NEW h, Agrees(pq, h), NEW p, NEW k, <<k, p>> \in Keys,
           NEW x, NEW r, IsTaken(pq, p, k, x, r), NEW g, g = Shorter(h, x)
    PROVE  /\ Agrees(r, g) /\ x \in QueuedItems(pq) /\ QueuedItems(r) = QueuedItems(pq) \ {x}
           /\ \A key \in Keys \ {Key(x)} : g[key] = h[key]
<1>1. PICK key, old, l : key = Key(x) /\ old = h[key] /\ l = Tail(old)
  OBVIOUS
<1>2. /\ x \in Items /\ key = <<k, p>> /\ key \in Keys
      /\ old # <<>> /\ x = Head(old) /\ old = ItemsAt(Half(pq, p), p, k)
  BY <1>1, TakenIsHead
<1>3. Lists(h) /\ Fifos(pq, h) /\ IsQueue(r, Items) /\ IsList(old, Homes(key))
  BY <1>1, <1>2, AgreesHasFifos DEF Agrees, Lists, IsTaken
<1>4. /\ IsList(l, Homes(key)) /\ Range(l) = Range(old) \ {x} /\ x \in Range(old)
  BY <1>1, <1>2, <1>3, ListTail
<1>5. IsPut(h, key, l, g)
  BY <1>1, <1>2, <1>3, <1>4, ListsChange DEF Shorter
<1>6. Lists(g) /\ g[key] = l /\ \A j \in Keys \ {key} : g[j] = h[j]
  BY <1>5 DEF IsPut
<1>7. IsChange(pq, p, k, l, r)
  BY <1>1, <1>2 DEF IsTaken, Takes, IsChange
<1>8. Fifos(r, g)
  BY <1>2, <1>3, <1>5, <1>7, FifosChange
<1>9. Agrees(r, g)
  BY <1>3, <1>6, <1>8, FifosAgree
<1>10. \A y : y \in QueuedItems(r) <=> y \in QueuedItems(pq) /\ y # x
  <2> TAKE y
  <2>1. y \in QueuedItems(r) <=> y \in Items /\ y \in Range(g[Key(y)])
    BY <1>9, QueuedIs
  <2>2. y \in QueuedItems(pq) <=> y \in Items /\ y \in Range(h[Key(y)])
    BY QueuedIs
  <2>3. y \in Items => Key(y) \in Keys
    BY KeyType
  <2>4. CASE y \in Items /\ Key(y) = key
    <3>1. g[Key(y)] = l /\ h[Key(y)] = old
      BY <1>1, <1>6, <2>4
    <3>2. y \in Range(g[Key(y)]) <=> y \in Range(h[Key(y)]) /\ y # x
      BY <1>4, <3>1
    <3> QED
      BY <2>1, <2>2, <2>4, <3>2
  <2>5. CASE ~(y \in Items /\ Key(y) = key)
    BY <1>1, <1>2, <1>6, <2>1, <2>2, <2>3, <2>5
  <2> QED
    BY <2>4, <2>5
<1>11. x \in QueuedItems(pq)
  BY <1>1, <1>2, <1>4, QueuedIs
<1> QED
  BY <1>1, <1>6, <1>9, <1>10, <1>11

\* Nobody of this priority was passed by the class whose turn it was,
LEMMA TakenInTurn ==
    ASSUME NEW pq, NEW h, Agrees(pq, h), NEW p, NEW k, <<k, p>> \in Keys,
           NEW x, NEW r, IsTaken(pq, p, k, x, r), NEW T, IsTurns(pq, h, T), NEW j
    PROVE  <<p, j, k>> \notin T
<1>1. SUFFICES ASSUME <<p, j, k>> \in T PROVE FALSE
  OBVIOUS
<1>2. PICK t : t = <<p, j, k>> /\ t \in T
  BY <1>1
<1>3. <<j, p>> \in Keys /\ Before(Half(pq, p)[p].cur, j, k)
  BY <1>2 DEF IsTurns
<1>4. Half(pq, p)[p].cur = k
  BY DEF IsTaken, Takes
<1>5. j \in Nat /\ k \in Nat
  BY <1>3, KeyType
<1> QED
  BY <1>3, <1>4, <1>5 DEF Before

\* U is T without class k, whose turn it was, and with those it passes by.
IsPassing(h, p, k, T, U) ==
    \A t \in U : \/ t \in T /\ (t[1] # p \/ t[2] # k)
                \/ \E j : t = <<p, j, k>> /\ j # k /\ <<j, p>> \in Keys /\ h[<<j, p>>] # <<>>

\* ... and whom it passes by comes first from now on.
LEMMA TakenTurns ==
    ASSUME NEW pq, NEW h, Agrees(pq, h), NEW p, NEW k, <<k, p>> \in Keys,
           NEW x, NEW r, IsTaken(pq, p, k, x, r), NEW g, g = Shorter(h, x),
           NEW T, IsTurns(pq, h, T),
           NEW U, IsPassing(h, p, k, T, U)
    PROVE  IsTurns(r, g, U)
<1>1. /\ Agrees(r, g) /\ Key(x) = <<k, p>>
      /\ \A key \in Keys \ {<<k, p>>} : g[key] = h[key]
  BY TakenAgrees, TakenIsHead
<1>2. k \in Nat /\ p \in Nat
  BY KeyType
<1>3. ASSUME NEW j, <<j, p>> \in Keys, j # k, h[<<j, p>>] # <<>>
      PROVE  /\ g[<<j, p>>] # <<>>
             /\ Before(Half(r, p)[p].cur, j, k)
             /\ \A i \in Nat : Before(Half(pq, p)[p].cur, j, i) => Before(Half(r, p)[p].cur, j, i)
  <2>1. g[<<j, p>>] # <<>>
    BY <1>1, <1>3
  <2>2. p \in DOMAIN Half(r, p) /\ j \in DOMAIN Half(r, p)[p].q
    BY <1>1, <1>3, <2>1, AgreesPlace
  <2>3. PICK q, n : q = Half(r, p)[p].q /\ n = Half(r, p)[p].cur
    OBVIOUS
  <2>4. IsAfter(q, k, n) /\ Half(pq, p)[p].cur = k
    BY <2>2, <2>3 DEF IsTaken, Takes
  <2>5. DOMAIN q \in SUBSET Nat
    BY <1>1, <2>2, <2>3 DEF Agrees, IsQueue, Half, IsLevels, IsSubQueue, IsLines, IsMap
  <2>6. Before(n, j, k) /\ \A i \in Nat : Before(k, j, i) => Before(n, j, i)
    BY <1>2, <1>3, <2>2, <2>3, <2>4, <2>5, BeforeMoves
  <2> QED
    BY <2>1, <2>3, <2>4, <2>6
<1>4. ASSUME NEW t \in U
      PROVE  /\ t = <<t[1], t[2], t[3]>> /\ t[3] \in Nat
             /\ <<t[2], t[1]>> \in Keys /\ g[<<t[2], t[1]>>] # <<>>
             /\ Before(Half(r, t[1])[t[1]].cur, t[2], t[3])
  <2>1. CASE t \in T /\ (t[1] # p \/ t[2] # k)
    <3>1. /\ t = <<t[1], t[2], t[3]>> /\ t[3] \in Nat
          /\ <<t[2], t[1]>> \in Keys /\ h[<<t[2], t[1]>>] # <<>>
          /\ Before(Half(pq, t[1])[t[1]].cur, t[2], t[3])
      BY <2>1 DEF IsTurns
    <3>2. CASE t[1] = p
      BY <1>3, <2>1, <3>1, <3>2
    <3>3. CASE t[1] # p
      <4>1. g[<<t[2], t[1]>>] = h[<<t[2], t[1]>>]
        BY <1>1, <3>1, <3>3
      <4>2. t[1] \in DOMAIN Half(r, t[1])
        BY <1>1, <3>1, <4>1, AgreesPlace
      <4>3. \/ Half(r, t[1]) = Half(pq, t[1])
            \/ Half(r, t[1]) = Half(r, p) /\ Half(pq, t[1]) = Half(pq, p)
        BY DEF IsTaken, Half
      <4>4. \A n \in DOMAIN Half(r, p) \ {p} : Half(r, p)[n].cur = Half(pq, p)[n].cur
        BY DEF IsTaken, Takes
      <4>5. Half(r, t[1])[t[1]].cur = Half(pq, t[1])[t[1]].cur
        BY <3>3, <4>2, <4>3, <4>4
      <4> QED
        BY <3>1, <4>1, <4>5
    <3> QED
      BY <3>2, <3>3
  <2>2. CASE \E j : t = <<p, j, k>> /\ j # k /\ <<j, p>> \in Keys /\ h[<<j, p>>] # <<>>
    BY <1>2, <1>3, <2>2
  <2> QED
    BY <2>1, <2>2 DEF IsPassing
<1> QED
  BY <1>4 DEF IsTurns

-----------------------------------------------------------------------------
(* A class is removed                                                      *)

\* The queue and its history after remove_by_class().
LEMMA RemovedAgrees ==
    ASSUME NEW pq, NEW h, Agrees(pq, h), NEW k \in Nat, NEW r, r = RemoveClass(pq, k),
           NEW g, g = Cleared(h, k)
    PROVE  Agrees(r, g) /\ QueuedItems(r) = {x \in QueuedItems(pq) : Conn(x) # k}
<1>1. IsQueue(pq, Items) /\ Lists(h) /\ Fifos(pq, h)
  BY AgreesHasFifos DEF Agrees, Lists
<1>2. IsQueue(r, Items) /\ Drops(pq.high, k, r.high) /\ Drops(pq.low, k, r.low)
  BY <1>1, RemoveClassEffect
<1>3. g = [key \in Keys |-> g[key]] /\ \A key \in Keys : g[key] = IF key[1] = k THEN <<>> ELSE h[key]
  BY DEF Cleared
<1>4. Lists(g)
  BY <1>1, <1>3, ListEmpty DEF Lists
<1>5. ASSUME NEW n, NEW j
      PROVE  /\ ItemsAt(r.high, n, j) = IF <<j, n>> \in Keys /\ n >= PrioLow THEN g[<<j, n>>] ELSE <<>>
             /\ ItemsAt(r.low, n, j) = IF <<j, n>> \in Keys /\ ~(n >= PrioLow) THEN g[<<j, n>>] ELSE <<>>
  <2>1. /\ ItemsAt(pq.high, n, j) = IF <<j, n>> \in Keys /\ n >= PrioLow THEN h[<<j, n>>] ELSE <<>>
        /\ ItemsAt(pq.low, n, j) = IF <<j, n>> \in Keys /\ ~(n >= PrioLow) THEN h[<<j, n>>] ELSE <<>>
    BY <1>1 DEF Fifos
  <2>2. /\ ItemsAt(r.high, n, j) = IF j = k THEN <<>> ELSE ItemsAt(pq.high, n, j)
        /\ ItemsAt(r.low, n, j) = IF j = k THEN <<>> ELSE ItemsAt(pq.low, n, j)
    BY <1>2 DEF Drops
  <2>3. <<j, n>> \in Keys => g[<<j, n>>] = IF j = k THEN <<>> ELSE h[<<j, n>>]
    BY <1>3
  <2>4. CASE j = k
    BY <2>2, <2>3, <2>4
  <2>5. CASE j # k
    BY <2>1, <2>2, <2>3, <2>5
  <2> QED
    BY <2>4, <2>5
<1>6. Fifos(r, g)
  BY <1>5 DEF Fifos
<1>7. Agrees(r, g)
  BY <1>2, <1>4, <1>6, FifosAgree
<1>8. \A y : y \in QueuedItems(r) <=> y \in QueuedItems(pq) /\ Conn(y) # k
  <2> TAKE y
  <2>1. y \in QueuedItems(r) <=> y \in Items /\ y \in Range(g[Key(y)])
    BY <1>7, QueuedIs
  <2>2. y \in QueuedItems(pq) <=> y \in Items /\ y \in Range(h[Key(y)])
    BY QueuedIs
  <2>3. y \in Items => Key(y) \in Keys /\ Key(y)[1] = Conn(y)
    BY KeyType
  <2>4. Range(<<>>) = {}
    BY ListEmpty
  <2>5. y \in Items => g[Key(y)] = IF Conn(y) = k THEN <<>> ELSE h[Key(y)]
    BY <1>3, <2>3
  <2> QED
    BY <2>1, <2>2, <2>4, <2>5
<1> QED
  BY <1>7, <1>8

\* The turns of the others are as before.
LEMMA RemovedTurns ==
    ASSUME NEW pq, NEW h, Agrees(pq, h), NEW k \in Nat, NEW r, r = RemoveClass(pq, k),
           NEW g, g = Cleared(h, k),
           NEW T, IsTurns(pq, h, T)
    PROVE  IsTurns(r, g, {t \in T : t[2] # k})
<1>0. Agrees(r, g)
  BY RemovedAgrees
<1>1. Agrees(r, g) /\ IsQueue(pq, Items)
  BY <1>0 DEF Agrees
<1>2. IsQueue(r, Items) /\ Drops(pq.high, k, r.high) /\ Drops(pq.low, k, r.low)
  BY <1>1, RemoveClassEffect
<1>3. ASSUME NEW t \in T, t[2] # k
      PROVE  /\ t = <<t[1], t[2], t[3]>> /\ t[3] \in Nat
             /\ <<t[2], t[1]>> \in Keys /\ g[<<t[2], t[1]>>] # <<>>
             /\ Before(Half(r, t[1])[t[1]].cur, t[2], t[3])
  <2>1. PICK p, j, i : p = t[1] /\ j = t[2] /\ i = t[3]
    OBVIOUS
  <2>2. /\ t = <<p, j, i>> /\ i \in Nat /\ <<j, p>> \in Keys /\ h[<<j, p>>] # <<>>
        /\ Before(Half(pq, p)[p].cur, j, i) /\ j # k
    BY <1>3, <2>1 DEF IsTurns
  <2>3. g[<<j, p>>] # <<>>
    BY <2>2 DEF Cleared
  <2>4. p \in DOMAIN Half(r, p) /\ j \in DOMAIN Half(r, p)[p].q
    BY <1>1, <2>2, <2>3, AgreesPlace
  <2>5. Drops(Half(pq, p), k, Half(r, p))
    BY <1>2 DEF Half
  <2>6. PICK s, u : s = Half(pq, p)[p] /\ u = Half(r, p)[p]
    OBVIOUS
  <2>7. IF s.cur = k THEN IsAfter(u.q, k, u.cur) ELSE u.cur = s.cur
    BY <2>4, <2>5, <2>6 DEF Drops
  <2>8. DOMAIN u.q \in SUBSET Nat
    BY <1>2, <2>4, <2>6 DEF IsQueue, Half, IsLevels, IsSubQueue, IsLines, IsMap
  <2>9. Before(u.cur, j, i)
    <3>1. CASE s.cur = k
      <4>1. IsAfter(u.q, k, u.cur) /\ j \in DOMAIN u.q /\ Before(k, j, i)
        BY <2>2, <2>4, <2>6, <2>7, <3>1
      <4> QED
        BY <2>2, <2>8, <4>1, BeforeMoves
    <3>2. CASE s.cur # k
      BY <2>2, <2>6, <2>7, <3>2
    <3> QED
      BY <3>1, <3>2
  <2> QED
    BY <2>1, <2>2, <2>3, <2>6, <2>9
<1> QED
  BY <1>3 DEF IsTurns

-----------------------------------------------------------------------------
(* The invariant                                                           *)

\* What was handed over is at one place at most: in the queue,
ArrivalInv == arrival = Queued \ Codes /\ Queued \subseteq sent /\ sent \subseteq Items

\* ... in the delay queue of its connection,
DelayedInv ==
    /\ delayed = [k \in Conns |-> delayed[k]]
    /\ \A k \in Conns : IsList(delayed[k], Of(k)) /\ Range(delayed[k]) \subseteq sent \ Queued

\* ... in the list of local messages, or in hand.
LocalInv ==
    /\ IsList(local, Local) /\ Range(local) \subseteq sent \ Queued /\ localHand \notin Range(local)
    /\ IF courier = "deliver" THEN localHand \in Local \cap (sent \ Queued) ELSE localHand = Nothing
    /\ IF dispatcher = "deliver" THEN inHand \in Items ELSE inHand = Nothing

\* A connection that fails has nothing in its delay queue from then on, and
\* nothing in the queue either when the code is put there.
FaultInv ==
    /\ task \in [Conns -> {"read", "reset", "tell reset", "fault", "tell fault", "closed"}]
    /\ \A k \in Faults : <<"reset", k>> \in sent => task[k] = "closed"
    /\ \A k \in Conns : task[k] \in {"fault", "tell fault", "closed"} => Range(delayed[k]) = {}
    /\ \A k \in Conns : task[k] \in {"tell fault", "closed"} => Of(k) \cap Queued = {}

\* The threads, and what they leave behind.
ThreadsInv ==
    /\ {stop, localStop, woken, localWoken} \subseteq BOOLEAN
    /\ {dispatcher, courier} \subseteq {"run", "sleep", "deliver", "off"}
    /\ control \in {"up", "stopping", "waiting", "joined"}
    /\ early \subseteq Queued
    /\ dispatcher = "off" => stop /\ early = {}
    /\ NoLostWakeup

DispatchInv ==
    QueueInv /\ TurnsInv /\ ArrivalInv /\ DelayedInv /\ LocalInv /\ FaultInv /\ ThreadsInv

\* An empty queue has no items.
LEMMA EmptyAgrees ==
    ASSUME NEW pq, NEW h, Agrees(pq, h)
    PROVE  IsEmpty(pq) <=> QueuedItems(pq) = {}
BY EmptyIsEmpty DEF Agrees

\* So it is with the dispatch queue.
LEMMA EmptyQueued ==
    ASSUME QueueInv
    PROVE  IsEmpty(mqueue) <=> Queued = {}
BY EmptyAgrees DEF QueueInv, Queued

\* Nothing is wrong at first.
LEMMA InitInv ==
    ASSUME Init
    PROVE  DispatchInv
<1> USE DEF Init
<1>1. /\ IsQueue(EmptyQueue, Items) /\ IsEmpty(EmptyQueue)
      /\ \A p, k : ItemsAt(EmptyQueue.low, p, k) = <<>> /\ ItemsAt(EmptyQueue.high, p, k) = <<>>
  BY EmptyQueueSound
<1>2. Lists(fifo) /\ \A key \in Keys : fifo[key] = <<>>
  BY ListEmpty DEF Lists
<1>3. Fifos(mqueue, fifo)
  BY <1>1, <1>2 DEF Fifos
<1>4. QueueInv
  BY <1>1, <1>2, <1>3, FifosAgree DEF QueueInv
<1>5. Queued = {} /\ IsEmpty(mqueue)
  BY <1>1, <1>4, EmptyQueued
<1>6. TurnsInv
  BY DEF TurnsInv, IsTurns
<1>7. ArrivalInv
  BY <1>5 DEF ArrivalInv
<1>8. DelayedInv
  BY <1>5, ListEmpty DEF DelayedInv
<1>9. LocalInv
  BY <1>5, ListEmpty DEF LocalInv
<1>10. FaultInv
  BY <1>5, ListEmpty DEF FaultInv
<1>11. ThreadsInv
  BY <1>5 DEF ThreadsInv, NoLostWakeup
<1> QED
  BY <1>4, <1>6, <1>7, <1>8, <1>9, <1>10, <1>11 DEF DispatchInv

-----------------------------------------------------------------------------
(* What steps do to the queue                                              *)

\* An item that is not in the queue is put there.
LEMMA PutStep ==
    ASSUME QueueInv, TurnsInv, NEW x \in Items, x \notin Queued, Put(x)
    PROVE  QueueInv' /\ TurnsInv' /\ Queued' = Queued \cup {x}
<1>1. mqueue' = Added(mqueue, x) /\ fifo' = Longer(fifo, x) /\ passed' = passed
  BY DEF Put, Added, Longer
<1>2. Agrees(mqueue, fifo) /\ IsTurns(mqueue, fifo, passed) /\ x \notin QueuedItems(mqueue)
  BY DEF QueueInv, TurnsInv, Queued
<1>3. /\ Agrees(mqueue', fifo') /\ QueuedItems(mqueue') = QueuedItems(mqueue) \cup {x}
      /\ IsTurns(mqueue', fifo', passed)
  BY <1>1, <1>2, AddedAgrees
<1> QED
  BY <1>1, <1>3 DEF QueueInv, TurnsInv, Queued

\* What Take takes is the first of its list and its class had not had its turn
\* while another one waited.
LEMMA TakeStep ==
    ASSUME QueueInv, TurnsInv, Take
    PROVE  /\ QueueInv' /\ TurnsInv' /\ Queued' = Queued \ {inHand'}
           /\ inHand' \in Items /\ inHand' \in Queued
           /\ inHand' = Head(fifo[Key(inHand')])
           /\ \A j : <<Prio(inHand'), j, Conn(inHand')>> \notin passed
<1>1. PICK x : x = Dequeued(mqueue)
  OBVIOUS
<1>2. /\ ~IsEmpty(mqueue) /\ inHand' = x /\ mqueue' = Rest(mqueue) /\ fifo' = Shorter(fifo, x)
      /\ passed' = {t \in passed : t[1] # Prio(x) \/ t[2] # Conn(x)} \cup
                   {<<Prio(x), k, Conn(x)>> : k \in Classes(x) \ {Conn(x)}}
  BY <1>1 DEF Take, Shorter
<1>3. Agrees(mqueue, fifo) /\ IsTurns(mqueue, fifo, passed)
  BY DEF QueueInv, TurnsInv
<1>4. PICK p, k : IsTaken(mqueue, p, k, x, mqueue') /\ <<k, p>> \in Keys
  BY <1>1, <1>2, <1>3, TakenEffect
<1>5. /\ x \in Items /\ Key(x) = <<k, p>> /\ Conn(x) = k /\ Prio(x) = p
      /\ x = Head(fifo[Key(x)])
  BY <1>3, <1>4, TakenIsHead
<1>6. /\ Agrees(mqueue', fifo') /\ x \in QueuedItems(mqueue)
      /\ QueuedItems(mqueue') = QueuedItems(mqueue) \ {x}
  BY <1>2, <1>3, <1>4, TakenAgrees
<1>7. \A j : <<p, j, k>> \notin passed
  BY <1>3, <1>4, TakenInTurn
<1>8. IsPassing(fifo, p, k, passed, passed')
  <2>1. \A j \in Classes(x) : <<j, p>> \in Keys /\ fifo[<<j, p>>] # <<>>
    BY <1>5, KeyType DEF Classes
  <2> QED
    BY <1>2, <1>5, <2>1 DEF IsPassing
<1>9. IsTurns(mqueue', fifo', passed')
  BY <1>2, <1>3, <1>4, <1>8, TakenTurns
<1> QED
  BY <1>2, <1>5, <1>6, <1>7, <1>9 DEF QueueInv, TurnsInv, Queued

\* A connection's messages are removed.
LEMMA DiscardStep ==
    ASSUME QueueInv, TurnsInv, NEW k \in Conns, DiscardQueued(k)
    PROVE  QueueInv' /\ TurnsInv' /\ Queued' = {x \in Queued : Conn(x) # k}
<1>1. /\ mqueue' = RemoveClass(mqueue, k) /\ fifo' = Cleared(fifo, k)
      /\ passed' = {t \in passed : t[2] # k}
  BY DEF DiscardQueued, Cleared
<1>2. Agrees(mqueue, fifo) /\ IsTurns(mqueue, fifo, passed) /\ k \in Nat
  BY ItemKinds DEF QueueInv, TurnsInv
<1>3. Agrees(mqueue', fifo') /\ QueuedItems(mqueue') = {x \in QueuedItems(mqueue) : Conn(x) # k}
  BY <1>1, <1>2, RemovedAgrees
<1>4. IsTurns(mqueue', fifo', passed')
  BY <1>1, <1>2, RemovedTurns
<1> QED
  BY <1>3, <1>4 DEF QueueInv, TurnsInv, Queued

\* The queue is left alone.
LEMMA SameQueue ==
    ASSUME QueueInv, TurnsInv, UNCHANGED queue
    PROVE  /\ QueueInv' /\ TurnsInv' /\ Queued' = Queued
           /\ IsEmpty(mqueue') = IsEmpty(mqueue) /\ arrival' = arrival /\ early' = early
BY DEF queue, QueueInv, TurnsInv, Queued

-----------------------------------------------------------------------------
(* The steps                                                               *)

\* The reader of a connection hands over a message.
LEMMA ReceiveKeeps ==
    ASSUME DispatchInv, NEW x \in Messages, Receive(x)
    PROVE  DispatchInv'
<1> USE DEF DispatchInv
<1>1. PICK k, s, l : k = Conn(x) /\ s = delayed[k] /\ l = Append(s, x)
  OBVIOUS
<1>2. /\ x \in Remote /\ task[k] = "read"
      /\ x \notin sent \/ (x \notin Queued /\ x \notin Delayed(k))
      /\ delayed' = [delayed EXCEPT ![k] = l] /\ sent' = sent \cup {x}
      /\ UNCHANGED <<queue, task, dispatching, woken, locals, ending>>
  BY <1>1 DEF Receive
<1>3. /\ QueueInv' /\ TurnsInv' /\ Queued' = Queued /\ arrival' = arrival /\ early' = early
      /\ IsEmpty(mqueue') = IsEmpty(mqueue)
  BY <1>2, SameQueue
<1>4. k \in Conns /\ x \in Of(k) /\ x \in Items /\ x \notin Codes /\ Of(k) \subseteq Remote
  BY <1>1, <1>2, ItemKinds DEF Items, Of
<1>5. /\ DOMAIN delayed = Conns /\ IsList(s, Of(k)) /\ Range(s) \subseteq sent \ Queued
      /\ Delayed(k) = Range(s)
  BY <1>1, <1>4 DEF DelayedInv, Delayed, Range
<1>6. x \notin Queued /\ x \notin Range(s)
  BY <1>2, <1>5 DEF ArrivalInv
<1>7. IsList(l, Of(k)) /\ Range(l) = Range(s) \cup {x}
  BY <1>1, <1>4, <1>5, <1>6, ListAppend
<1>8. /\ delayed' = [j \in Conns |-> delayed'[j]] /\ delayed'[k] = l
      /\ \A j \in Conns \ {k} : delayed'[j] = delayed[j]
  BY <1>2, <1>4, <1>5
<1>9. ArrivalInv'
  BY <1>2, <1>3, <1>4 DEF ArrivalInv
<1>10. DelayedInv'
  <2>1. ASSUME NEW j \in Conns PROVE IsList(delayed'[j], Of(j)) /\ Range(delayed'[j]) \subseteq sent' \ Queued'
    <3>1. CASE j = k
      BY <1>2, <1>3, <1>5, <1>6, <1>7, <1>8, <3>1
    <3>2. CASE j # k
      BY <1>2, <1>3, <1>8, <3>2 DEF DelayedInv
    <3> QED
      BY <3>1, <3>2
  <2> QED
    BY <1>8, <2>1 DEF DelayedInv
<1>11. LocalInv'
  BY <1>2, <1>3 DEF LocalInv, dispatching, locals
<1>12. FaultInv'
  <2>1. \A j \in Faults : x # <<"reset", j>>
    BY <1>4, CodeKinds
  <2>2. \A j \in Conns : task[j] \in {"fault", "tell fault", "closed"} => delayed'[j] = delayed[j]
    BY <1>2, <1>8
  <2> QED
    BY <1>2, <1>3, <2>1, <2>2 DEF FaultInv
<1>13. ThreadsInv'
  BY <1>2, <1>3 DEF ThreadsInv, NoLostWakeup, dispatching, locals, ending
<1> QED
  BY <1>3, <1>9, <1>10, <1>11, <1>12, <1>13

\* The delay thread passes one on.
LEMMA ReleaseKeeps ==
    ASSUME DispatchInv, NEW k \in Conns, Release(k)
    PROVE  DispatchInv'
<1> USE DEF DispatchInv
<1>1. PICK s, x : s = delayed[k] /\ x = Head(s)
  OBVIOUS
<1>2. /\ s # <<>> /\ Put(x) /\ arrival' = arrival \cup {x}
      /\ delayed' = [delayed EXCEPT ![k] = Tail(s)]
      /\ UNCHANGED <<task, dispatching, locals, ending, sent>>
  BY <1>1 DEF Release, Push
<1>3. DOMAIN delayed = Conns /\ IsList(s, Of(k)) /\ Range(s) \subseteq sent \ Queued
  BY <1>1 DEF DelayedInv
<1>4. /\ IsList(Tail(s), Of(k)) /\ x \in Range(s) /\ x \in Of(k)
      /\ Range(Tail(s)) = Range(s) \ {x}
  BY <1>1, <1>2, <1>3, ListTail
<1>5. x \in Remote /\ Conn(x) = k /\ x \in Items /\ x \in Messages /\ x \notin Codes /\ x \notin Local
      /\ x \in sent /\ x \notin Queued
  BY <1>3, <1>4, ItemKinds DEF Items
<1>6. QueueInv' /\ TurnsInv' /\ Queued' = Queued \cup {x}
  BY <1>2, <1>5, PutStep
<1>7. /\ delayed' = [j \in Conns |-> delayed'[j]] /\ delayed'[k] = Tail(s)
      /\ \A j \in Conns \ {k} : delayed'[j] = delayed[j]
  BY <1>2, <1>3
<1>8. ArrivalInv'
  BY <1>2, <1>5, <1>6 DEF ArrivalInv
<1>9. ASSUME NEW j \in Conns, j # k PROVE x \notin Of(j)
  BY <1>5, <1>9, ItemKinds
<1>10. DelayedInv'
  <2>1. ASSUME NEW j \in Conns PROVE IsList(delayed'[j], Of(j)) /\ Range(delayed'[j]) \subseteq sent' \ Queued'
    <3>1. CASE j = k
      BY <1>2, <1>3, <1>4, <1>6, <1>7, <3>1
    <3>2. CASE j # k
      <4>1. IsList(delayed[j], Of(j)) /\ Range(delayed[j]) \subseteq sent \ Queued
        BY DEF DelayedInv
      <4>2. x \notin Range(delayed[j])
        BY <1>9, <3>2, <4>1, ListRange
      <4> QED
        BY <1>2, <1>6, <1>7, <3>2, <4>1, <4>2
    <3> QED
      BY <3>1, <3>2
  <2> QED
    BY <1>7, <2>1 DEF DelayedInv
<1>11. LocalInv'
  <2>1. x \notin Range(local)
    BY <1>5, ListRange DEF LocalInv
  <2> QED
    BY <1>2, <1>5, <1>6, <2>1 DEF LocalInv, dispatching, locals
<1>12. FaultInv'
  <2>1. task[k] \notin {"fault", "tell fault", "closed"}
    BY <1>1, <1>4 DEF FaultInv
  <2> QED
    BY <1>2, <1>6, <1>7, <1>9, <2>1 DEF FaultInv
<1>13. ThreadsInv'
  BY <1>2, <1>6 DEF ThreadsInv, NoLostWakeup, Put, Signal, dispatching, locals, ending
<1> QED
  BY <1>6, <1>8, <1>10, <1>11, <1>12, <1>13

\* A local message is handed over.
LEMMA LocalDeliveryKeeps ==
    ASSUME DispatchInv, NEW x \in Messages, LocalDelivery(x)
    PROVE  DispatchInv'
<1> USE DEF DispatchInv
<1>1. /\ x \in Local /\ x \notin sent /\ sent' = sent \cup {x} /\ local' = Append(local, x)
      /\ UNCHANGED <<queue, conns, dispatching, woken, courier, localHand, ending>>
  BY DEF LocalDelivery
<1>2. /\ QueueInv' /\ TurnsInv' /\ Queued' = Queued /\ arrival' = arrival /\ early' = early
      /\ IsEmpty(mqueue') = IsEmpty(mqueue)
  BY <1>1, SameQueue
<1>3. x \in Items /\ x \notin Codes /\ x # Nothing
  BY ItemKinds DEF Items
<1>4. ArrivalInv'
  BY <1>1, <1>2, <1>3 DEF ArrivalInv
<1>5. DelayedInv'
  BY <1>1, <1>2 DEF DelayedInv, conns
<1>6. LocalInv'
  <2>1. IsList(local, Local) /\ x \notin Range(local) /\ x \notin Queued /\ x # localHand
    BY <1>1, <1>3 DEF LocalInv, ArrivalInv
  <2>2. IsList(local', Local) /\ Range(local') = Range(local) \cup {x}
    BY <1>1, <2>1, ListAppend
  <2> QED
    BY <1>1, <1>2, <2>1, <2>2 DEF LocalInv, dispatching
<1>7. FaultInv'
  <2>1. \A j \in Faults : x # <<"reset", j>>
    BY <1>3, CodeKinds
  <2> QED
    BY <1>1, <1>2, <2>1 DEF FaultInv, conns
<1>8. ThreadsInv'
  <2>1. localWoken' \in BOOLEAN
    BY DEF LocalDelivery, LocalSignal, ThreadsInv
  <2>2. courier = "sleep" /\ ~localWoken' => FALSE
    BY DEF LocalDelivery, LocalSignal, ThreadsInv, NoLostWakeup
  <2> QED
    BY <1>1, <1>2, <2>1, <2>2 DEF ThreadsInv, NoLostWakeup, dispatching, ending
<1> QED
  BY <1>2, <1>4, <1>5, <1>6, <1>7, <1>8

\* discard_queue() keeps all but what is said of the connection's state.
LEMMA DiscardQueuedKeeps ==
    ASSUME DispatchInv, NEW k \in Conns, DiscardQueued(k)
    PROVE  /\ QueueInv' /\ TurnsInv' /\ ArrivalInv' /\ DelayedInv' /\ LocalInv' /\ ThreadsInv'
           /\ Queued' \subseteq Queued /\ Of(k) \cap Queued' = {}
<1> USE DEF DispatchInv
<1>1. QueueInv' /\ TurnsInv' /\ Queued' = {x \in Queued : Conn(x) # k}
  BY DiscardStep
<1>2. /\ arrival' = arrival \ (Queued \ Queued') /\ early' = early \ (Queued \ Queued')
      /\ UNCHANGED <<delayed, dispatching, woken, locals, ending, sent>>
  BY DEF DiscardQueued, Queued
<1>3. ArrivalInv'
  BY <1>1, <1>2 DEF ArrivalInv
<1>4. DelayedInv'
  BY <1>1, <1>2 DEF DelayedInv
<1>5. LocalInv'
  BY <1>1, <1>2 DEF LocalInv, locals, dispatching
<1>6. IsEmpty(mqueue) => IsEmpty(mqueue')
  <2>1. Agrees(mqueue', fifo') /\ QueuedItems(mqueue') \subseteq Queued
    BY <1>1 DEF QueueInv, Queued
  <2> QED
    BY <2>1, EmptyQueued, EmptyAgrees
<1>7. ThreadsInv'
  BY <1>1, <1>2, <1>6 DEF ThreadsInv, NoLostWakeup, dispatching, locals, ending
<1>8. \A x \in Of(k) : Conn(x) = k
  BY ItemKinds
<1> QED
  BY <1>1, <1>3, <1>4, <1>5, <1>7, <1>8

\* So does discard().
LEMMA DiscardDelayedKeeps ==
    ASSUME DispatchInv, NEW k \in Conns, DiscardDelayed(k)
    PROVE  /\ QueueInv' /\ TurnsInv' /\ ArrivalInv' /\ DelayedInv' /\ LocalInv' /\ ThreadsInv'
           /\ Queued' = Queued /\ sent' = sent /\ Range(delayed'[k]) = {}
           /\ \A j \in Conns \ {k} : delayed'[j] = delayed[j]
<1> USE DEF DispatchInv
<1>1. /\ delayed' = [delayed EXCEPT ![k] = <<>>]
      /\ UNCHANGED <<queue, dispatching, woken, locals, ending, sent>>
  BY DEF DiscardDelayed
<1>2. /\ QueueInv' /\ TurnsInv' /\ Queued' = Queued /\ arrival' = arrival /\ early' = early
      /\ IsEmpty(mqueue') = IsEmpty(mqueue)
  BY <1>1, SameQueue
<1>3. /\ delayed' = [j \in Conns |-> delayed'[j]] /\ delayed'[k] = <<>>
      /\ \A j \in Conns \ {k} : delayed'[j] = delayed[j]
  BY <1>1 DEF DelayedInv
<1>4. \A S : IsList(<<>>, S) /\ Range(<<>>) = {}
  BY ListEmpty
<1>5. ArrivalInv'
  BY <1>1, <1>2 DEF ArrivalInv
<1>6. DelayedInv'
  <2>1. ASSUME NEW j \in Conns PROVE IsList(delayed'[j], Of(j)) /\ Range(delayed'[j]) \subseteq sent' \ Queued'
    <3>1. CASE j = k
      BY <1>3, <1>4, <3>1
    <3>2. CASE j # k
      BY <1>1, <1>2, <1>3, <3>2 DEF DelayedInv
    <3> QED
      BY <3>1, <3>2
  <2> QED
    BY <1>3, <2>1 DEF DelayedInv
<1>7. LocalInv'
  BY <1>1, <1>2 DEF LocalInv, locals, dispatching
<1>8. ThreadsInv'
  BY <1>1, <1>2 DEF ThreadsInv, NoLostWakeup, dispatching, locals, ending
<1> QED
  BY <1>1, <1>2, <1>3, <1>4, <1>5, <1>6, <1>7, <1>8

\* ... and so does putting a code into the queue, for the first time.
LEMMA TellKeeps ==
    ASSUME DispatchInv, NEW x \in Codes, x \notin sent, Tell(x)
    PROVE  /\ QueueInv' /\ TurnsInv' /\ ArrivalInv' /\ DelayedInv' /\ LocalInv' /\ ThreadsInv'
           /\ Queued' \subseteq Queued \cup {x} /\ sent' = sent \cup {x} /\ delayed' = delayed
<1> USE DEF DispatchInv
<1>1. sent' = sent \cup {x} /\ UNCHANGED <<delayed, dispatching, locals, ending>>
  BY DEF Tell
<1>2. x \in Items /\ x \notin Messages /\ x \notin Queued
  BY ItemKinds DEF Items, ArrivalInv
<1>3. x \notin Local /\ \A k \in Conns : x \notin Of(k)
  BY <1>2, ItemKinds
<1>4. /\ QueueInv' /\ TurnsInv' /\ arrival' = arrival
      /\ Queued' = Queued \/ Queued' = Queued \cup {x}
  <2>1. CASE stop
    <3>1. UNCHANGED queue
      BY <2>1 DEF Tell
    <3> QED
      BY <3>1, SameQueue
  <2>2. CASE ~stop
    <3>1. Put(x) /\ arrival' = arrival
      BY <2>2 DEF Tell
    <3> QED
      BY <1>2, <3>1, PutStep
  <2> QED
    BY <2>1, <2>2
<1>5. ArrivalInv'
  BY <1>1, <1>2, <1>4 DEF ArrivalInv
<1>6. DelayedInv'
  <2>1. \A k \in Conns : x \notin Range(delayed[k])
    BY <1>3, ListRange DEF DelayedInv
  <2> QED
    BY <1>1, <1>4, <2>1 DEF DelayedInv
<1>7. LocalInv'
  <2>1. x \notin Range(local)
    BY <1>3, ListRange DEF LocalInv
  <2> QED
    BY <1>1, <1>3, <1>4, <2>1 DEF LocalInv, locals, dispatching
<1>8. ThreadsInv'
  <2>1. CASE stop
    <3>1. UNCHANGED <<queue, woken>>
      BY <2>1 DEF Tell
    <3>2. Queued' = Queued /\ early' = early /\ IsEmpty(mqueue') = IsEmpty(mqueue)
      BY <3>1, SameQueue
    <3> QED
      BY <1>1, <3>1, <3>2 DEF ThreadsInv, NoLostWakeup, dispatching, locals, ending
  <2>2. CASE ~stop
    <3>1. Put(x)
      BY <2>2 DEF Tell
    <3>2. Queued' = Queued \cup {x}
      BY <1>2, <3>1, PutStep
    <3> QED
      BY <1>1, <2>2, <3>1, <3>2 DEF ThreadsInv, NoLostWakeup, Put, Signal, dispatching, locals, ending
  <2> QED
    BY <2>1, <2>2
<1> QED
  BY <1>1, <1>4, <1>5, <1>6, <1>7, <1>8

\* A connection goes on to the next step of its failure, or of its reset, and
\* has dropped what it must have dropped by then.
Enters(k, to) ==
    /\ task' = [task EXCEPT ![k] = to]
    /\ to \in {"read", "reset", "tell reset", "fault", "tell fault", "closed"}
    /\ \A j \in Faults : <<"reset", j>> \in sent' =>
         IF j = k THEN to = "closed" ELSE <<"reset", j>> \in sent
    /\ \A j \in Conns \ {k} : /\ Range(delayed[j]) = {} => Range(delayed'[j]) = {}
                              /\ Of(j) \cap Queued = {} => Of(j) \cap Queued' = {}
    /\ to \in {"fault", "tell fault", "closed"} => Range(delayed'[k]) = {}
    /\ to \in {"tell fault", "closed"} => Of(k) \cap Queued' = {}

\* This is what FaultInv wants.
LEMMA FaultStep ==
    ASSUME FaultInv, NEW k \in Conns, NEW to, Enters(k, to)
    PROVE  FaultInv'
<1>1. DOMAIN task = Conns /\ \A j \in Faults : j \in Conns
  BY CodeKinds DEF FaultInv
<1>2. task'[k] = to /\ \A j \in Conns \ {k} : task'[j] = task[j]
  BY <1>1 DEF Enters
<1>3. task' \in [Conns -> {"read", "reset", "tell reset", "fault", "tell fault", "closed"}]
  BY DEF FaultInv, Enters
<1>4. \A j \in Faults : <<"reset", j>> \in sent' => task'[j] = "closed"
  BY <1>1, <1>2 DEF FaultInv, Enters
<1>5. \A j \in Conns : task'[j] \in {"fault", "tell fault", "closed"} => Range(delayed'[j]) = {}
  BY <1>2 DEF FaultInv, Enters
<1>6. \A j \in Conns : task'[j] \in {"tell fault", "closed"} => Of(j) \cap Queued' = {}
  BY <1>2 DEF FaultInv, Enters
<1> QED
  BY <1>3, <1>4, <1>5, <1>6 DEF FaultInv

\* A session is reset.
LEMMA WasSessionResetKeeps ==
    ASSUME DispatchInv, NEW k \in Conns, WasSessionReset(k)
    PROVE  DispatchInv'
<1> USE DEF DispatchInv
<1>0. k \in Resets /\ <<"remote reset", k>> \notin sent
  BY DEF WasSessionReset
<1>1. task[k] # "closed" => \A j \in Faults : <<"reset", j>> \in sent => j # k
  BY DEF FaultInv
<1>2. CASE Goto(k, "read", "reset") /\ DiscardQueued(k)
  <2>1. /\ QueueInv' /\ TurnsInv' /\ ArrivalInv' /\ DelayedInv' /\ LocalInv' /\ ThreadsInv'
        /\ Queued' \subseteq Queued
    BY <1>2, DiscardQueuedKeeps
  <2>2. delayed' = delayed /\ sent' = sent
    BY <1>2 DEF DiscardQueued
  <2>3. task[k] = "read" /\ task' = [task EXCEPT ![k] = "reset"]
    BY <1>2 DEF Goto
  <2>4. FaultInv'
    <3>1. Enters(k, "reset")
      BY <1>1, <2>1, <2>2, <2>3 DEF Enters
    <3> QED
      BY <3>1, FaultStep
  <2> QED
    BY <2>1, <2>4
<1>3. CASE Goto(k, "reset", "tell reset") /\ DiscardDelayed(k)
  <2>1. /\ QueueInv' /\ TurnsInv' /\ ArrivalInv' /\ DelayedInv' /\ LocalInv' /\ ThreadsInv'
        /\ Queued' = Queued /\ sent' = sent /\ \A j \in Conns \ {k} : delayed'[j] = delayed[j]
    BY <1>3, DiscardDelayedKeeps
  <2>2. task[k] = "reset" /\ task' = [task EXCEPT ![k] = "tell reset"]
    BY <1>3 DEF Goto
  <2>3. \A j \in Faults : <<"reset", j>> \in sent' => j # k /\ <<"reset", j>> \in sent
    BY <1>1, <2>1, <2>2
  <2>4. FaultInv'
    <3>1. Enters(k, "tell reset")
      BY <2>1, <2>2, <2>3 DEF Enters
    <3> QED
      BY <3>1, FaultStep
  <2> QED
    BY <2>1, <2>4
<1>4. CASE Goto(k, "tell reset", "read") /\ Tell(<<"remote reset", k>>)
  <2>1. PICK x : x = <<"remote reset", k>> /\ x \in Codes
    BY <1>0, CodeKinds
  <2>2. /\ QueueInv' /\ TurnsInv' /\ ArrivalInv' /\ DelayedInv' /\ LocalInv' /\ ThreadsInv'
        /\ Queued' \subseteq Queued \cup {x} /\ sent' = sent \cup {x} /\ delayed' = delayed
    BY <1>0, <1>4, <2>1, TellKeeps
  <2>3. task[k] = "tell reset" /\ task' = [task EXCEPT ![k] = "read"]
    BY <1>4 DEF Goto
  <2>4. \A j \in Conns : Of(j) \cap Queued = {} => Of(j) \cap Queued' = {}
    BY <2>1, <2>2, ItemKinds
  <2>5. \A j \in Faults : <<"reset", j>> # x
    BY <2>1
  <2>6. \A j \in Faults : <<"reset", j>> \in sent' => j # k /\ <<"reset", j>> \in sent
    BY <1>1, <2>2, <2>3, <2>5
  <2>7. FaultInv'
    <3>1. Enters(k, "read")
      BY <2>2, <2>3, <2>4, <2>6 DEF Enters
    <3> QED
      BY <3>1, FaultStep
  <2> QED
    BY <2>2, <2>7
<1> QED
  BY <1>2, <1>3, <1>4 DEF WasSessionReset

\* A lossy connection fails.
LEMMA LossyFaultKeeps ==
    ASSUME DispatchInv, NEW k \in Conns, LossyFault(k)
    PROVE  DispatchInv'
<1> USE DEF DispatchInv
<1>0. k \in Faults
  BY DEF LossyFault
<1>1. task[k] # "closed" => \A j \in Faults : <<"reset", j>> \in sent => j # k
  BY DEF FaultInv
<1>2. CASE Goto(k, "read", "fault") /\ DiscardDelayed(k)
  <2>1. /\ QueueInv' /\ TurnsInv' /\ ArrivalInv' /\ DelayedInv' /\ LocalInv' /\ ThreadsInv'
        /\ Queued' = Queued /\ sent' = sent /\ Range(delayed'[k]) = {}
        /\ \A j \in Conns \ {k} : delayed'[j] = delayed[j]
    BY <1>2, DiscardDelayedKeeps
  <2>2. task[k] = "read" /\ task' = [task EXCEPT ![k] = "fault"]
    BY <1>2 DEF Goto
  <2>3. FaultInv'
    <3>1. Enters(k, "fault")
      BY <1>1, <2>1, <2>2 DEF Enters
    <3> QED
      BY <3>1, FaultStep
  <2> QED
    BY <2>1, <2>3
<1>3. CASE Goto(k, "fault", "tell fault") /\ DiscardQueued(k)
  <2>1. /\ QueueInv' /\ TurnsInv' /\ ArrivalInv' /\ DelayedInv' /\ LocalInv' /\ ThreadsInv'
        /\ Queued' \subseteq Queued /\ Of(k) \cap Queued' = {}
    BY <1>3, DiscardQueuedKeeps
  <2>2. delayed' = delayed /\ sent' = sent
    BY <1>3 DEF DiscardQueued
  <2>3. task[k] = "fault" /\ task' = [task EXCEPT ![k] = "tell fault"]
    BY <1>3 DEF Goto
  <2>4. Range(delayed[k]) = {}
    BY <2>3 DEF FaultInv
  <2>5. FaultInv'
    <3>1. Enters(k, "tell fault")
      BY <1>1, <2>1, <2>2, <2>3, <2>4 DEF Enters
    <3> QED
      BY <3>1, FaultStep
  <2> QED
    BY <2>1, <2>5
<1>4. CASE Goto(k, "tell fault", "closed") /\ Tell(<<"reset", k>>)
  <2>1. PICK x : x = <<"reset", k>> /\ x \in Codes
    BY <1>0, CodeKinds
  <2>2. task[k] = "tell fault" /\ task' = [task EXCEPT ![k] = "closed"]
    BY <1>4 DEF Goto
  <2>3. x \notin sent
    BY <1>0, <2>1, <2>2 DEF FaultInv
  <2>4. /\ QueueInv' /\ TurnsInv' /\ ArrivalInv' /\ DelayedInv' /\ LocalInv' /\ ThreadsInv'
        /\ Queued' \subseteq Queued \cup {x} /\ sent' = sent \cup {x} /\ delayed' = delayed
    BY <1>4, <2>1, <2>3, TellKeeps
  <2>5. \A j \in Conns : Of(j) \cap Queued = {} => Of(j) \cap Queued' = {}
    BY <2>1, <2>4, ItemKinds
  <2>6. Range(delayed[k]) = {} /\ Of(k) \cap Queued = {}
    BY <2>2 DEF FaultInv
  <2>7. \A j \in Faults : <<"reset", j>> = x => j = k
    BY <2>1
  <2>8. \A j \in Faults : <<"reset", j>> \in sent' => (IF j = k THEN TRUE ELSE <<"reset", j>> \in sent)
    BY <2>4, <2>7
  <2>9. FaultInv'
    <3>1. Enters(k, "closed")
      BY <2>2, <2>4, <2>5, <2>6, <2>8 DEF Enters
    <3> QED
      BY <3>1, FaultStep
  <2> QED
    BY <2>4, <2>9
<1> QED
  BY <1>2, <1>3, <1>4 DEF LossyFault

\* The dispatch thread takes an item out.
LEMMA TakeKeeps ==
    ASSUME DispatchInv, Take
    PROVE  DispatchInv'
<1> USE DEF DispatchInv
<1>1. PICK x : x = inHand'
  OBVIOUS
<1>2. QueueInv' /\ TurnsInv' /\ Queued' = Queued \ {x} /\ x \in Items /\ x \in Queued
  BY <1>1, TakeStep
<1>3. /\ arrival' = arrival \ {x} /\ early' = early \ {x}
      /\ dispatcher' = "deliver" /\ woken' = FALSE
      /\ UNCHANGED <<conns, locals, ending, sent>>
  BY <1>1 DEF Take
<1>4. ArrivalInv'
  BY <1>2, <1>3 DEF ArrivalInv
<1>5. DelayedInv'
  BY <1>2, <1>3 DEF DelayedInv, conns
<1>6. LocalInv'
  BY <1>1, <1>2, <1>3 DEF LocalInv, locals
<1>7. FaultInv'
  BY <1>2, <1>3 DEF FaultInv, conns
<1>8. ThreadsInv'
  BY <1>2, <1>3 DEF ThreadsInv, NoLostWakeup, locals, ending
<1> QED
  BY <1>2, <1>4, <1>5, <1>6, <1>7, <1>8

\* It hands the item to the application.
LEMMA DeliverKeeps ==
    ASSUME DispatchInv, Deliver
    PROVE  DispatchInv'
<1> USE DEF DispatchInv
<1>1. /\ dispatcher = "deliver" /\ dispatcher' = "run" /\ inHand' = Nothing
      /\ UNCHANGED <<queue, conns, woken, locals, ending, sent>>
  BY DEF Deliver
<1>2. /\ QueueInv' /\ TurnsInv' /\ Queued' = Queued /\ arrival' = arrival /\ early' = early
      /\ IsEmpty(mqueue') = IsEmpty(mqueue)
  BY <1>1, SameQueue
<1>3. ArrivalInv' /\ DelayedInv' /\ FaultInv'
  BY <1>1, <1>2 DEF ArrivalInv, DelayedInv, FaultInv, conns
<1>4. LocalInv'
  BY <1>1, <1>2 DEF LocalInv, locals
<1>5. ThreadsInv'
  BY <1>1, <1>2 DEF ThreadsInv, NoLostWakeup, locals, ending
<1> QED
  BY <1>2, <1>3, <1>4, <1>5

\* It finds the queue empty, and so has left nothing behind.
LEMMA RestOrEndKeeps ==
    ASSUME DispatchInv, RestOrEnd
    PROVE  DispatchInv'
<1> USE DEF DispatchInv
<1>1. /\ Awake /\ IsEmpty(mqueue) /\ dispatcher' = (IF stop THEN "off" ELSE "sleep")
      /\ woken' = FALSE
      /\ UNCHANGED <<queue, conns, inHand, locals, ending, sent>>
  BY DEF RestOrEnd
<1>2. /\ QueueInv' /\ TurnsInv' /\ Queued' = Queued /\ arrival' = arrival /\ early' = early
      /\ IsEmpty(mqueue') = IsEmpty(mqueue)
  BY <1>1, SameQueue
<1>3. ArrivalInv' /\ DelayedInv' /\ FaultInv'
  BY <1>1, <1>2 DEF ArrivalInv, DelayedInv, FaultInv, conns
<1>4. dispatcher # "deliver" /\ dispatcher' # "deliver"
  BY <1>1 DEF Awake
<1>5. LocalInv'
  BY <1>1, <1>2, <1>4 DEF LocalInv, locals
<1>6. early = {}
  BY <1>1, EmptyQueued DEF ThreadsInv
<1>7. ThreadsInv'
  BY <1>1, <1>2, <1>6 DEF ThreadsInv, NoLostWakeup, locals, ending
<1> QED
  BY <1>2, <1>3, <1>5, <1>7

\* The local delivery thread takes a message,
LEMMA LocalTakeKeeps ==
    ASSUME DispatchInv, LocalTake
    PROVE  DispatchInv'
<1> USE DEF DispatchInv
<1>1. /\ LocalAwake /\ local # <<>>
      /\ localHand' = Head(local) /\ local' = Tail(local)
      /\ courier' = "deliver" /\ localWoken' = FALSE
      /\ UNCHANGED <<queue, conns, dispatching, woken, ending, sent>>
  BY DEF LocalTake
<1>2. /\ QueueInv' /\ TurnsInv' /\ Queued' = Queued /\ arrival' = arrival /\ early' = early
      /\ IsEmpty(mqueue') = IsEmpty(mqueue)
  BY <1>1, SameQueue
<1>3. ArrivalInv' /\ DelayedInv' /\ FaultInv'
  BY <1>1, <1>2 DEF ArrivalInv, DelayedInv, FaultInv, conns
<1>4. LocalInv'
  <2>1. IsList(local, Local) /\ Range(local) \subseteq sent \ Queued
    BY DEF LocalInv
  <2>2. /\ IsList(local', Local) /\ localHand' \in Range(local) /\ localHand' \in Local
        /\ Range(local') = Range(local) \ {localHand'}
    BY <1>1, <2>1, ListTail
  <2> QED
    BY <1>1, <1>2, <2>1, <2>2 DEF LocalInv, dispatching
<1>5. ThreadsInv'
  BY <1>1, <1>2 DEF ThreadsInv, NoLostWakeup, dispatching, ending
<1> QED
  BY <1>2, <1>3, <1>4, <1>5

\* ... hands it to the application or puts it into the queue,
LEMMA LocalDeliverKeeps ==
    ASSUME DispatchInv, LocalDeliver
    PROVE  DispatchInv'
<1> USE DEF DispatchInv
<1>1. /\ courier = "deliver" /\ courier' = "run" /\ localHand' = Nothing
      /\ UNCHANGED <<conns, dispatching, local, localWoken, ending, sent>>
  BY DEF LocalDeliver
<1>2. PICK x : x = localHand /\ x \in Local /\ x \in sent /\ x \notin Queued /\ x \notin Range(local)
  BY <1>1 DEF LocalInv
<1>3. x \in Items /\ x \notin Codes /\ x \notin Remote /\ Nothing \notin Local
  BY <1>2, ItemKinds DEF Items
<1>4. CASE x \in Fast
  <2>1. UNCHANGED <<queue, woken>>
    BY <1>2, <1>4 DEF LocalDeliver
  <2>2. /\ QueueInv' /\ TurnsInv' /\ Queued' = Queued /\ arrival' = arrival /\ early' = early
        /\ IsEmpty(mqueue') = IsEmpty(mqueue)
    BY <2>1, SameQueue
  <2>3. ArrivalInv' /\ DelayedInv' /\ FaultInv'
    BY <1>1, <2>2 DEF ArrivalInv, DelayedInv, FaultInv, conns
  <2>4. LocalInv'
    <3>1. Nothing \notin Range(local)
      BY <1>3, ListRange DEF LocalInv
    <3> QED
      BY <1>1, <2>2, <3>1 DEF LocalInv, dispatching
  <2>5. ThreadsInv'
    BY <1>1, <2>1, <2>2 DEF ThreadsInv, NoLostWakeup, dispatching, ending
  <2> QED
    BY <2>2, <2>3, <2>4, <2>5
<1>5. CASE x \notin Fast
  <2>1. Put(x) /\ arrival' = arrival \cup {x}
    BY <1>2, <1>5 DEF LocalDeliver, Push
  <2>2. QueueInv' /\ TurnsInv' /\ Queued' = Queued \cup {x}
    BY <1>2, <1>3, <2>1, PutStep
  <2>3. ArrivalInv'
    BY <1>1, <1>2, <1>3, <2>1, <2>2 DEF ArrivalInv
  <2>4. \A k \in Conns : x \notin Of(k)
    BY <1>3, ItemKinds
  <2>5. DelayedInv'
    <3>1. \A k \in Conns : x \notin Range(delayed[k])
      BY <2>4, ListRange DEF DelayedInv
    <3> QED
      BY <1>1, <2>2, <3>1 DEF DelayedInv, conns
  <2>6. LocalInv'
    <3>1. Nothing \notin Range(local)
      BY <1>3, ListRange DEF LocalInv
    <3> QED
      BY <1>1, <1>2, <2>2, <3>1 DEF LocalInv, dispatching
  <2>7. FaultInv'
    BY <1>1, <2>2, <2>4 DEF FaultInv, conns
  <2>8. ThreadsInv'
    BY <1>1, <2>1, <2>2 DEF ThreadsInv, NoLostWakeup, Put, Signal, dispatching, ending
  <2> QED
    BY <2>2, <2>3, <2>5, <2>6, <2>7, <2>8
<1> QED
  BY <1>4, <1>5

\* ... or finds nothing to do.
LEMMA LocalRestOrEndKeeps ==
    ASSUME DispatchInv, LocalRestOrEnd
    PROVE  DispatchInv'
<1> USE DEF DispatchInv
<1>1. /\ LocalAwake /\ (localStop \/ local = <<>>)
      /\ courier' = (IF localStop THEN "off" ELSE "sleep")
      /\ localWoken' = FALSE
      /\ UNCHANGED <<queue, conns, dispatching, woken, local, localHand, ending, sent>>
  BY DEF LocalRestOrEnd
<1>2. /\ QueueInv' /\ TurnsInv' /\ Queued' = Queued /\ arrival' = arrival /\ early' = early
      /\ IsEmpty(mqueue') = IsEmpty(mqueue)
  BY <1>1, SameQueue
<1>3. ArrivalInv' /\ DelayedInv' /\ FaultInv'
  BY <1>1, <1>2 DEF ArrivalInv, DelayedInv, FaultInv, conns
<1>4. courier # "deliver" /\ courier' # "deliver"
  BY <1>1 DEF LocalAwake
<1>5. LocalInv'
  BY <1>1, <1>2, <1>4 DEF LocalInv, dispatching
<1>6. ThreadsInv'
  BY <1>1, <1>2 DEF ThreadsInv, NoLostWakeup, dispatching, ending
<1> QED
  BY <1>2, <1>3, <1>5, <1>6

\* shutdown() and wait() wake the threads and end them.
LEMMA EndingKeeps ==
    ASSUME DispatchInv, StopLocal \/ Stop \/ Joined
    PROVE  DispatchInv'
<1> USE DEF DispatchInv
<1>1. /\ UNCHANGED <<queue, conns, dispatching, courier, localHand, sent>>
      /\ control' \in {"up", "stopping", "waiting", "joined"}
      /\ local' \in {local, <<>>}
  BY DEF StopLocal, Stop, Joined, locals
<1>2. /\ QueueInv' /\ TurnsInv' /\ Queued' = Queued /\ arrival' = arrival /\ early' = early
      /\ IsEmpty(mqueue') = IsEmpty(mqueue)
  BY <1>1, SameQueue
<1>3. ArrivalInv' /\ DelayedInv' /\ FaultInv'
  BY <1>1, <1>2 DEF ArrivalInv, DelayedInv, FaultInv, conns
<1>4. LocalInv'
  BY <1>1, <1>2, ListEmpty DEF LocalInv, dispatching
<1>5. /\ stop' \in BOOLEAN /\ (stop => stop')
      /\ woken' \in BOOLEAN /\ localStop' \in BOOLEAN /\ localWoken' \in BOOLEAN
  BY DEF StopLocal, Stop, Joined, locals, Signal, LocalSignal, ThreadsInv
<1>6. NoLostWakeup'
  <2>1. CASE StopLocal
    BY <1>2, <2>1 DEF StopLocal, LocalSignal, ThreadsInv, NoLostWakeup, dispatching
  <2>2. CASE Stop
    BY <1>2, <2>2 DEF Stop, Signal, ThreadsInv, NoLostWakeup, dispatching, locals
  <2>3. CASE Joined
    BY <1>2, <2>3 DEF Joined, ThreadsInv, NoLostWakeup, dispatching
  <2> QED
    BY <2>1, <2>2, <2>3
<1>7. ThreadsInv'
  BY <1>1, <1>2, <1>5, <1>6 DEF ThreadsInv, dispatching
<1> QED
  BY <1>2, <1>3, <1>4, <1>7

\* No step breaks it,
LEMMA StepInv ==
    ASSUME DispatchInv, [Next]_vars
    PROVE  DispatchInv'
<1>1. CASE Dispatching
  BY <1>1, TakeKeeps, DeliverKeeps, RestOrEndKeeps DEF Dispatching
<1>2. CASE Delivering
  BY <1>2, LocalTakeKeeps, LocalDeliverKeeps, LocalRestOrEndKeeps DEF Delivering
<1>3. CASE Ending \/ StopLocal
  BY <1>3, EndingKeeps DEF Ending
<1>4. CASE \E x \in Messages : Receive(x) \/ LocalDelivery(x)
  BY <1>4, ReceiveKeeps, LocalDeliveryKeeps
<1>5. CASE \E k \in Conns : Release(k) \/ WasSessionReset(k) \/ LossyFault(k)
  BY <1>5, ReleaseKeeps, WasSessionResetKeeps, LossyFaultKeeps
<1>6. CASE UNCHANGED vars
  <2>1. /\ QueueInv' /\ TurnsInv' /\ Queued' = Queued /\ arrival' = arrival /\ early' = early
        /\ IsEmpty(mqueue') = IsEmpty(mqueue)
    BY <1>6, SameQueue DEF vars, DispatchInv
  <2>2. ArrivalInv' /\ DelayedInv' /\ FaultInv'
    BY <1>6, <2>1 DEF vars, conns, DispatchInv, ArrivalInv, DelayedInv, FaultInv
  <2>3. LocalInv' /\ ThreadsInv'
    BY <1>6, <2>1 DEF vars, dispatching, locals, ending, DispatchInv, LocalInv, ThreadsInv, NoLostWakeup
  <2> QED
    BY <2>1, <2>2, <2>3 DEF DispatchInv
<1> QED
  BY <1>1, <1>2, <1>3, <1>4, <1>5, <1>6 DEF Next

\* ... so that it always holds.
LEMMA AlwaysInv == Spec => []DispatchInv
BY InitInv, StepInv, PTL DEF Spec

-----------------------------------------------------------------------------
(* The theorems                                                            *)

\* Neither thread sleeps on without a signal while it has work or should end:
\* the signals of enqueue(), local_delivery(), shutdown() and stop() suffice,
\* however the steps of the threads come (dispatch_queue.cpp:21-60, 84-130).
THEOREM WakeupsSuffice == Spec => []NoLostWakeup
<1>1. DispatchInv => NoLostWakeup
  BY DEF DispatchInv, ThreadsInv
<1> QED
  BY <1>1, AlwaysInv, PTL

\* The application hears of the end of a lossy connection after the last of
\* its messages, whatever is delayed, queued or in hand when it fails.
THEOREM ResetComesLast == Spec => []ResetIsLast
<1>1. ASSUME DispatchInv PROVE ResetIsLast
  <2>1. ASSUME NEW k \in Faults, <<"reset", k>> \in sent PROVE Of(k) \cap (Queued \cup Delayed(k)) = {}
    <3>1. k \in Conns /\ task[k] = "closed"
      BY <1>1, <2>1, CodeKinds DEF DispatchInv, FaultInv
    <3>2. Range(delayed[k]) = {} /\ Of(k) \cap Queued = {}
      BY <1>1, <3>1 DEF DispatchInv, FaultInv
    <3>3. Delayed(k) = Range(delayed[k])
      BY DEF Delayed, Range
    <3> QED
      BY <3>2, <3>3
  <2> QED
    BY <2>1 DEF ResetIsLast
<1> QED
  BY <1>1, AlwaysInv, PTL

\* The dispatch thread ends only when what was queued before shutdown() has
\* been taken out or discarded.
THEOREM DrainsAtExit == Spec => []DrainedAtExit
<1>1. DispatchInv => DrainedAtExit
  BY DEF DispatchInv, ThreadsInv, DrainedAtExit
<1> QED
  BY <1>1, AlwaysInv, PTL

\* The SubQueues, their iterators and counters and _marrival agree with what
\* is in the queue, so that dequeue() finds a front wherever it looks and
\* never divides by zero.
THEOREM QueueIsSound == Spec => []QueueSound
<1>1. ASSUME DispatchInv PROVE QueueSound
  <2>0. QueueInv /\ TurnsInv /\ ArrivalInv /\ DelayedInv /\ LocalInv /\ FaultInv /\ ThreadsInv
    BY <1>1 DEF DispatchInv
  <2>1. Agrees(mqueue, fifo) /\ IsQueue(mqueue, Items)
    BY <2>0 DEF QueueInv, Agrees
  <2>2. /\ WellFormed(mqueue)
        /\ \A p \in DOMAIN mqueue.low : mqueue.low[p].tokens \in 0..MaxTokens
    BY <2>1, QueueWellFormed
  <2>3. Length(mqueue) = Cardinality(Queued)
    BY <2>1, AgreesLength DEF Queued
  <2>4. arrival = Queued \ Codes /\ Queued \subseteq Items /\ sent \subseteq Items /\ arrival \subseteq Messages
    BY <2>0 DEF ArrivalInv, Items
  <2>5. delayed \in [Conns -> Seq(Remote)]
    <3>1. ASSUME NEW k \in Conns PROVE delayed[k] \in Seq(Remote)
      <4>1. delayed[k] \in Seq(Of(k)) /\ Of(k) \subseteq Remote
        BY <2>0 DEF DelayedInv, IsList, Of
      <4> QED
        BY <4>1
    <3> QED
      BY <2>0, <3>1 DEF DelayedInv
  <2>6. fifo \in [Keys -> Seq(Items)]
    <3>1. ASSUME NEW key \in Keys PROVE fifo[key] \in Seq(Items)
      <4>1. fifo[key] \in Seq(Homes(key)) /\ Homes(key) \subseteq Items
        BY <2>1 DEF Agrees, IsList, Homes
      <4> QED
        BY <4>1
    <3> QED
      BY <2>1, <3>1 DEF Agrees
  <2>7. /\ inHand \in Items \cup {Nothing} /\ localHand \in Local \cup {Nothing}
        /\ local \in Seq(Local)
    BY <2>0 DEF LocalInv, IsList
  <2>8. /\ task \in [Conns -> {"read", "reset", "tell reset", "fault", "tell fault", "closed"}]
        /\ {stop, localStop, woken, localWoken} \subseteq BOOLEAN
        /\ {dispatcher, courier} \subseteq {"run", "sleep", "deliver", "off"}
        /\ control \in {"up", "stopping", "waiting", "joined"}
        /\ early \subseteq Queued
    BY <2>0 DEF FaultInv, ThreadsInv
  <2>9. TypeOK
    BY <2>2, <2>4, <2>5, <2>6, <2>7, <2>8 DEF TypeOK
  <2> QED
    BY <2>2, <2>3, <2>4, <2>9 DEF QueueSound
<1> QED
  BY <1>1, AlwaysInv, PTL

\* Only Take gives the dispatch thread something to deliver.
LEMMA OnlyTakeHands ==
    ASSUME DispatchInv, [Next]_vars, inHand = Nothing, inHand' # Nothing
    PROVE  Take
BY DEF Next, vars, Dispatching, Delivering, Ending, Deliver, RestOrEnd, LocalTake, LocalDeliver,
       LocalRestOrEnd, Stop, Joined, StopLocal, Receive, LocalDelivery, Release, WasSessionReset,
       DiscardQueued, DiscardDelayed, Tell, LossyFault, dispatching

\* Messages of one connection and priority are handed out in the order they
\* came, although other connections, priorities, discards and the token
\* scheme come between them.
THEOREM OrderIsKept == Spec => TakenInOrder
<1>1. ASSUME DispatchInv, [Next]_vars, NEW x \in Items, inHand = Nothing /\ inHand' = x
      PROVE  x = Head(fifo[Key(x)])
  <2>1. x # Nothing
    BY ItemKinds DEF Items
  <2>2. Take
    BY <1>1, <2>1, OnlyTakeHands
  <2> QED
    BY <1>1, <2>2, TakeStep DEF DispatchInv
<1>2. DispatchInv /\ [Next]_vars =>
        [\A x \in Items : inHand = Nothing /\ inHand' = x => x = Head(fifo[Key(x)])]_vars
  BY <1>1
<1> QED
  BY <1>2, AlwaysInv, PTL DEF Spec, TakenInOrder

\* Within a priority no connection has two turns while another one waits for
\* its first.
THEOREM TurnsAreTaken == Spec => TakeTurns
<1>1. ASSUME DispatchInv, [Next]_vars, NEW x \in Items, inHand = Nothing /\ inHand' = x,
             NEW k \in Conns \cup {0}
      PROVE  <<Prio(x), k, Conn(x)>> \notin passed
  <2>1. x # Nothing
    BY ItemKinds DEF Items
  <2>2. Take
    BY <1>1, <2>1, OnlyTakeHands
  <2> QED
    BY <1>1, <2>2, TakeStep DEF DispatchInv
<1>2. DispatchInv /\ [Next]_vars =>
        [\A x \in Items : inHand = Nothing /\ inHand' = x =>
           \A k \in Conns \cup {0} : <<Prio(x), k, Conn(x)>> \notin passed]_vars
  BY <1>1
<1> QED
  BY <1>2, AlwaysInv, PTL DEF Spec, TakeTurns
=============================================================================
