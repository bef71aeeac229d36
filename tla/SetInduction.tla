---------------------------- MODULE SetInduction ----------------------------
(***************************************************************************)
(* Induction stated with sets instead of operators, and what it gives for  *)
(* the sum of a function over a finite set: the lemmas that the proofs of  *)
(* the components share.  A property of n or s is put as membership in the *)
(* set of all n or s that have it.                                         *)
(***************************************************************************)
EXTENDS Integers, FiniteSets, FiniteSetsExt, FiniteSetTheorems, TLAPS

\* A set of natural numbers that is not empty has a least element.
LEMMA LeastNat ==
    ASSUME NEW T \in SUBSET Nat, T # {}
    PROVE  \E m \in T : \A n \in T : m <= n
<1>1. PICK m \in T : \A n \in T : ~(<<n, m>> \in OpToRel(<, Nat))
  BY NatLessThanWellFounded, WFMin
<1>2. \A n \in T : ~(n < m)
  BY <1>1 DEF OpToRel
<1>3. \A n \in T : m <= n
  BY <1>2
<1> QED
  BY <1>3

\* Induction over the natural numbers.
LEMMA NatSetInduction ==
    ASSUME NEW G \in SUBSET Nat, 0 \in G, \A n \in G : n + 1 \in G
    PROVE  G = Nat
<1>1. SUFFICES ASSUME Nat \ G # {} PROVE FALSE
  OBVIOUS
<1>2. PICK m \in Nat \ G : \A n \in Nat \ G : m <= n
  BY <1>1, LeastNat
<1>3. m # 0 /\ m - 1 \in Nat /\ ~(m <= m - 1)
  BY <1>2
<1>4. m - 1 \in G
  BY <1>2, <1>3
<1>5. (m - 1) + 1 \in G
  BY <1>4
<1> QED
  BY <1>2, <1>5

\* Induction over the subsets of a finite set: from the sets with one element
\* less to the set.
LEMMA FiniteSetInduction ==
    ASSUME NEW C, IsFiniteSet(C), NEW G, {} \in G,
           \A s \in SUBSET C : s # {} /\ (\A x \in s : s \ {x} \in G) => s \in G
    PROVE  \A s \in SUBSET C : s \in G
<1> DEFINE N == {n \in Nat : \A s \in SUBSET C : Cardinality(s) = n => s \in G}
<1>0. \A s \in SUBSET C : IsFiniteSet(s) /\ Cardinality(s) \in Nat
  BY FS_Subset, FS_CardinalityType
<1>1. 0 \in N
  BY <1>0, FS_EmptySet
<1>2. ASSUME NEW n \in N PROVE n + 1 \in N
  <2> SUFFICES ASSUME NEW s \in SUBSET C, Cardinality(s) = n + 1 PROVE s \in G
    OBVIOUS
  <2>1. s # {}
    <3>1. n + 1 # 0
      OBVIOUS
    <3> QED
      BY <3>1, FS_EmptySet
  <2>2. ASSUME NEW x \in s PROVE s \ {x} \in G
    <3>1. Cardinality(s \ {x}) = n
      BY <1>0, FS_RemoveElement
    <3> QED
      BY <3>1
  <2> QED
    BY <2>1, <2>2
<1>3. N = Nat
  <2> HIDE DEF N
  <2>1. N \in SUBSET Nat
    BY DEF N
  <2> QED
    BY <1>1, <1>2, <2>1, NatSetInduction
<1> QED
  BY <1>0, <1>3

-----------------------------------------------------------------------------
(* Sums                                                                    *)

\* One step of the recursion that defines it, for a given rest g.
Adds(f, g, s) == IF s = {} THEN 0
                 ELSE f[CHOOSE x \in s : TRUE] + g[s \ {CHOOSE x \in s : TRUE}]

\* The recursive function that FoldFunctionOnSet evaluates.
Sums(f, S) == CHOOSE g : g = [s \in SUBSET S |-> Adds(f, g, s)]

\* The sum is that function's value.
LEMMA SumIsSums ==
    ASSUME NEW f, NEW S
    PROVE  SumFunctionOnSet(f, S) = Sums(f, S)[S]
BY DEF Sums, Adds, SumFunctionOnSet, FoldFunctionOnSet, MapThenFoldSet

\* The recursion has a solution whose values are integers.
LEMMA SumsExist ==
    ASSUME NEW f, NEW S, IsFiniteSet(S), \A x \in S : f[x] \in Int
    PROVE  \E g \in [SUBSET S -> Int] : g = [s \in SUBSET S |-> Adds(f, g, s)]
<1> DEFINE N == {n \in Nat : \E g \in [SUBSET S -> Int] :
                    \A s \in SUBSET S : Cardinality(s) <= n => g[s] = Adds(f, g, s)}
<1>0. \A s \in SUBSET S : IsFiniteSet(s) /\ Cardinality(s) \in Nat
  BY FS_Subset, FS_CardinalityType
<1>1. ASSUME NEW s \in SUBSET S, NEW g \in [SUBSET S -> Int]
      PROVE  Adds(f, g, s) \in Int
  <2>1. CASE s = {}
    BY <2>1 DEF Adds
  <2>2. CASE s # {}
    <3>1. (CHOOSE x \in s : TRUE) \in s
      BY <2>2
    <3> QED
      BY <2>2, <3>1 DEF Adds
  <2> QED
    BY <2>1, <2>2
<1>2. 0 \in N
  <2>1. [s \in SUBSET S |-> 0] \in [SUBSET S -> Int]
    OBVIOUS
  <2>2. \A s \in SUBSET S : Cardinality(s) <= 0 => s = {}
    BY <1>0, FS_EmptySet
  <2> QED
    BY <2>1, <2>2 DEF Adds
<1>3. ASSUME NEW n \in N PROVE n + 1 \in N
  <2>1. PICK g \in [SUBSET S -> Int] :
               \A s \in SUBSET S : Cardinality(s) <= n => g[s] = Adds(f, g, s)
    OBVIOUS
  <2> DEFINE h == [s \in SUBSET S |-> Adds(f, g, s)]
  <2>2. h \in [SUBSET S -> Int]
    BY <1>1
  <2>3. ASSUME NEW s \in SUBSET S, Cardinality(s) <= n + 1 PROVE h[s] = Adds(f, h, s)
    <3>1. CASE s = {}
      BY <3>1 DEF Adds
    <3>2. CASE s # {}
      <4> DEFINE t == s \ {CHOOSE x \in s : TRUE}
      <4>1. (CHOOSE x \in s : TRUE) \in s
        BY <3>2
      <4>2. Cardinality(t) = Cardinality(s) - 1
        BY <1>0, <4>1, FS_RemoveElement
      <4>3. t \in SUBSET S /\ Cardinality(t) <= n
        BY <1>0, <2>3, <4>2
      <4>4. h[t] = g[t]
        BY <2>1, <4>3
      <4> QED
        BY <3>2, <4>4 DEF Adds
    <3> QED
      BY <3>1, <3>2
  <2> HIDE DEF h
  <2> QED
    BY <2>2, <2>3
<1>4. N = Nat
  <2> HIDE DEF N
  <2>1. N \in SUBSET Nat
    BY DEF N
  <2> QED
    BY <1>2, <1>3, <2>1, NatSetInduction
<1>5. PICK g \in [SUBSET S -> Int] :
             \A s \in SUBSET S : Cardinality(s) <= Cardinality(S) => g[s] = Adds(f, g, s)
  <2>1. Cardinality(S) \in N
    BY <1>0, <1>4
  <2> QED
    BY <2>1
<1>6. \A s \in SUBSET S : g[s] = Adds(f, g, s)
  BY <1>5, FS_Subset
<1>7. g = [s \in SUBSET S |-> g[s]]
  OBVIOUS
<1>8. g = [s \in SUBSET S |-> Adds(f, g, s)]
  BY <1>6, <1>7
<1> QED
  BY <1>8

\* The function is that solution, and its values are integers.
LEMMA SumsAdd ==
    ASSUME NEW f, NEW S, IsFiniteSet(S), \A x \in S : f[x] \in Int
    PROVE  \A s \in SUBSET S : Sums(f, S)[s] = Adds(f, Sums(f, S), s) /\ Sums(f, S)[s] \in Int
<1> DEFINE g == Sums(f, S)
           G == {s \in SUBSET S : g[s] \in Int}
<1>1. g = [s \in SUBSET S |-> Adds(f, g, s)]
  BY SumsExist DEF Sums
<1> HIDE DEF g
<1>2. \A s \in SUBSET S : g[s] = Adds(f, g, s)
  BY <1>1
<1>3. {} \in G
  <2>1. g[{}] = Adds(f, g, {})
    BY <1>2
  <2>2. Adds(f, g, {}) = 0
    BY DEF Adds
  <2> QED
    BY <2>1, <2>2
<1>4. ASSUME NEW s \in SUBSET S, s # {}, \A x \in s : s \ {x} \in G PROVE s \in G
  <2>1. PICK x \in s : g[s] = f[x] + g[s \ {x}]
    <3>1. (CHOOSE x \in s : TRUE) \in s
      BY <1>4
    <3> QED
      BY <1>2, <1>4, <3>1 DEF Adds
  <2>2. g[s \ {x}] \in Int
    BY <1>4
  <2> QED
    BY <2>1, <2>2
<1>5. \A s \in SUBSET S : s \in G
  <2> HIDE DEF G
  <2> QED
    BY <1>3, <1>4, FiniteSetInduction
<1> QED
  BY <1>2, <1>5 DEF g

\* The order in which the elements are added does not matter.
LEMMA SumsAnyOrder ==
    ASSUME NEW f, NEW S, IsFiniteSet(S), \A x \in S : f[x] \in Int
    PROVE  \A s \in SUBSET S : \A x \in s : Sums(f, S)[s] = f[x] + Sums(f, S)[s \ {x}]
<1> DEFINE g == Sums(f, S)
           G == {s \in SUBSET S : \A x \in s : g[s] = f[x] + g[s \ {x}]}
<1>1. \A s \in SUBSET S : g[s] = Adds(f, g, s) /\ g[s] \in Int
  BY SumsAdd
<1> HIDE DEF g
<1>2. {} \in G
  OBVIOUS
<1>3. ASSUME NEW s \in SUBSET S, s # {}, \A x \in s : s \ {x} \in G PROVE s \in G
  <2> SUFFICES ASSUME NEW x \in s PROVE g[s] = f[x] + g[s \ {x}]
    OBVIOUS
  <2>1. PICK y \in s : g[s] = f[y] + g[s \ {y}]
    <3>1. (CHOOSE z \in s : TRUE) \in s
      BY <1>3
    <3> QED
      BY <1>1, <1>3, <3>1 DEF Adds
  <2>2. CASE x = y
    BY <2>1, <2>2
  <2>3. CASE x # y
    <3>1. g[s \ {y}] = f[x] + g[(s \ {y}) \ {x}]
      BY <1>3, <2>3
    <3>2. g[s \ {x}] = f[y] + g[(s \ {x}) \ {y}]
      BY <1>3, <2>3
    <3>3. g[(s \ {y}) \ {x}] = g[(s \ {x}) \ {y}]
      <4>1. (s \ {y}) \ {x} = (s \ {x}) \ {y}
        OBVIOUS
      <4> QED
        BY <4>1
    <3>4. f[x] \in Int /\ f[y] \in Int /\ g[(s \ {x}) \ {y}] \in Int
      BY <1>1
    <3>5. g[s] = f[y] + (f[x] + g[(s \ {x}) \ {y}])
      BY <2>1, <3>1, <3>3
    <3> HIDE DEF G
    <3>6. f[y] + (f[x] + g[(s \ {x}) \ {y}]) = f[x] + (f[y] + g[(s \ {x}) \ {y}])
      BY <3>4
    <3> QED
      BY <3>2, <3>5, <3>6
  <2> QED
    BY <2>2, <2>3
<1>4. \A s \in SUBSET S : s \in G
  <2> HIDE DEF G
  <2> QED
    BY <1>2, <1>3, FiniteSetInduction
<1> QED
  BY <1>4 DEF g

\* Functions that agree on a set have the same sums over it, whatever larger
\* sets they are summed over for.
LEMMA SumsAgree ==
    ASSUME NEW f, NEW h, NEW S, NEW T, IsFiniteSet(S), IsFiniteSet(T),
           \A x \in S : f[x] \in Int, \A x \in T : h[x] \in Int,
           NEW U \in SUBSET (S \cap T), \A x \in U : f[x] = h[x]
    PROVE  Sums(f, S)[U] = Sums(h, T)[U]
<1> DEFINE g == Sums(f, S)
           k == Sums(h, T)
           G == {s \in SUBSET U : g[s] = k[s]}
<1>1. /\ \A s \in SUBSET U : g[s] = Adds(f, g, s)
      /\ \A s \in SUBSET U : k[s] = Adds(h, k, s)
  BY SumsAdd
<1>2. IsFiniteSet(U)
  BY FS_Subset
<1> HIDE DEF g, k
<1>3. {} \in G
  BY <1>1 DEF Adds
<1>4. ASSUME NEW s \in SUBSET U, s # {}, \A x \in s : s \ {x} \in G PROVE s \in G
  <2>1. PICK x \in s : g[s] = f[x] + g[s \ {x}] /\ k[s] = h[x] + k[s \ {x}]
    <3>1. (CHOOSE x \in s : TRUE) \in s
      BY <1>4
    <3> QED
      BY <1>1, <1>4, <3>1 DEF Adds
  <2>2. g[s \ {x}] = k[s \ {x}] /\ f[x] = h[x]
    BY <1>4
  <2>3. g[s] = k[s]
    BY <2>1, <2>2
  <2> QED
    BY <2>3
<1>5. \A s \in SUBSET U : s \in G
  <2> HIDE DEF G
  <2> QED
    BY <1>2, <1>3, <1>4, FiniteSetInduction
<1> QED
  BY <1>5 DEF g, k

\* A sum over nothing is 0.
LEMMA SumEmpty == ASSUME NEW f PROVE SumFunctionOnSet(f, {}) = 0
BY SumIsSums, SumsAdd, FS_EmptySet DEF Adds

\* A sum of integers is an integer.
LEMMA SumInt ==
    ASSUME NEW f, NEW S, IsFiniteSet(S), \A x \in S : f[x] \in Int
    PROVE  SumFunctionOnSet(f, S) \in Int
BY SumIsSums, SumsAdd

\* Any element may be split off a sum.
LEMMA SumSplit ==
    ASSUME NEW f, NEW S, IsFiniteSet(S), \A x \in S : f[x] \in Int, NEW x \in S
    PROVE  SumFunctionOnSet(f, S) = f[x] + SumFunctionOnSet(f, S \ {x})
<1>1. IsFiniteSet(S \ {x})
  BY FS_RemoveElement
<1>2. Sums(f, S)[S \ {x}] = Sums(f, S \ {x})[S \ {x}]
  BY <1>1, SumsAgree
<1>3. Sums(f, S)[S] = f[x] + Sums(f, S)[S \ {x}]
  BY SumsAnyOrder
<1> QED
  BY <1>2, <1>3, SumIsSums

\* A sum depends on nothing but the values.
LEMMA SumSame ==
    ASSUME NEW f, NEW h, NEW S, IsFiniteSet(S), \A x \in S : f[x] \in Int /\ h[x] = f[x]
    PROVE  SumFunctionOnSet(h, S) = SumFunctionOnSet(f, S)
BY SumIsSums, SumsAgree

\* A sum changes by as much as the one value that changes.
LEMMA SumChange ==
    ASSUME NEW f, NEW h, NEW S, IsFiniteSet(S), NEW x \in S, \A y \in S : f[y] \in Int,
           h[x] \in Int, \A y \in S \ {x} : h[y] = f[y]
    PROVE  SumFunctionOnSet(h, S) = SumFunctionOnSet(f, S) - f[x] + h[x]
<1>1. IsFiniteSet(S \ {x})
  BY FS_RemoveElement
<1>2. SumFunctionOnSet(h, S \ {x}) = SumFunctionOnSet(f, S \ {x})
  BY <1>1, SumSame
<1>3. SumFunctionOnSet(f, S \ {x}) \in Int
  BY <1>1, SumInt
<1>4. SumFunctionOnSet(h, S) = h[x] + SumFunctionOnSet(h, S \ {x})
  BY SumSplit
<1>5. SumFunctionOnSet(f, S) = f[x] + SumFunctionOnSet(f, S \ {x})
  BY SumSplit
<1> QED
  BY <1>2, <1>3, <1>4, <1>5

\* A sum of natural numbers is one, and none of them exceeds it.
LEMMA SumNat ==
    ASSUME NEW f, NEW S, IsFiniteSet(S), \A x \in S : f[x] \in Nat
    PROVE  /\ SumFunctionOnSet(f, S) \in Nat
           /\ \A x \in S : f[x] <= SumFunctionOnSet(f, S)
<1> DEFINE G == {s \in SUBSET S : SumFunctionOnSet(f, s) \in Nat}
<1>1. {} \in G
  BY SumEmpty
<1>2. ASSUME NEW s \in SUBSET S, s # {}, \A x \in s : s \ {x} \in G PROVE s \in G
  <2>1. PICK x \in s : TRUE
    BY <1>2
  <2>2. IsFiniteSet(s)
    BY FS_Subset
  <2>3. SumFunctionOnSet(f, s) = f[x] + SumFunctionOnSet(f, s \ {x})
    BY <2>2, SumSplit
  <2> QED
    BY <1>2, <2>3
<1>3. \A s \in SUBSET S : s \in G
  <2> HIDE DEF G
  <2> QED
    BY <1>1, <1>2, FiniteSetInduction
<1>4. ASSUME NEW x \in S PROVE f[x] <= SumFunctionOnSet(f, S)
  <2>1. SumFunctionOnSet(f, S) = f[x] + SumFunctionOnSet(f, S \ {x})
    BY SumSplit
  <2>2. SumFunctionOnSet(f, S \ {x}) \in Nat
    BY <1>3
  <2> QED
    BY <2>1, <2>2
<1> QED
  BY <1>3, <1>4

\* A sum with one element more.
LEMMA SumJoin ==
    ASSUME NEW f, NEW S, IsFiniteSet(S), \A y \in S : f[y] \in Int,
           NEW x, x \notin S, f[x] \in Int
    PROVE  SumFunctionOnSet(f, S \cup {x}) = SumFunctionOnSet(f, S) + f[x]
<1>1. IsFiniteSet(S \cup {x}) /\ (S \cup {x}) \ {x} = S
  BY FS_AddElement
<1>2. \A y \in S \cup {x} : f[y] \in Int
  OBVIOUS
<1>3. SumFunctionOnSet(f, S \cup {x}) = f[x] + SumFunctionOnSet(f, (S \cup {x}) \ {x})
  BY <1>1, <1>2, SumSplit
<1>4. SumFunctionOnSet(f, S) \in Int
  BY SumInt
<1>5. SumFunctionOnSet(f, S \cup {x}) = f[x] + SumFunctionOnSet(f, S)
  BY <1>1, <1>3
<1> QED
  BY <1>4, <1>5

\* A sum to which an element is added, or in which it gets another value.
LEMMA SumPut ==
    ASSUME NEW f, NEW h, NEW S, IsFiniteSet(S), NEW x, \A y \in S : f[y] \in Int,
           h[x] \in Int, \A y \in S \ {x} : h[y] = f[y]
    PROVE  SumFunctionOnSet(h, S \cup {x}) =
             SumFunctionOnSet(f, S) + h[x] - (IF x \in S THEN f[x] ELSE 0)
<1>0. SumFunctionOnSet(f, S) \in Int
  BY SumInt
<1>1. CASE x \in S
  <2>1. S \cup {x} = S
    BY <1>1
  <2>2. SumFunctionOnSet(h, S) = SumFunctionOnSet(f, S) - f[x] + h[x]
    BY <1>1, SumChange
  <2> QED
    BY <1>0, <1>1, <2>1, <2>2
<1>2. CASE x \notin S
  <2>1. \A y \in S : h[y] \in Int
    BY <1>2
  <2>2. SumFunctionOnSet(h, S) = SumFunctionOnSet(f, S)
    BY <1>2, SumSame
  <2>3. SumFunctionOnSet(h, S \cup {x}) = SumFunctionOnSet(h, S) + h[x]
    BY <1>2, <2>1, SumJoin
  <2> QED
    BY <1>0, <1>2, <2>2, <2>3
<1> QED
  BY <1>1, <1>2

\* A sum is the sum of its parts.
LEMMA SumPart ==
    ASSUME NEW f, NEW S, IsFiniteSet(S), \A x \in S : f[x] \in Int, NEW T \in SUBSET S
    PROVE  SumFunctionOnSet(f, S) = SumFunctionOnSet(f, T) + SumFunctionOnSet(f, S \ T)
<1> DEFINE Q(u) == SumFunctionOnSet(f, S) = SumFunctionOnSet(f, u) + SumFunctionOnSet(f, S \ u)
           G == {u \in SUBSET S : Q(u)}
<1>0. \A u \in SUBSET S : IsFiniteSet(u) /\ SumFunctionOnSet(f, u) \in Int
  BY FS_Subset, SumInt
<1>1. {} \in G
  <2>1. S \ {} = S
    OBVIOUS
  <2> QED
    BY <1>0, <2>1, SumEmpty
<1>2. ASSUME NEW u \in SUBSET S, u # {}, \A x \in u : u \ {x} \in G PROVE u \in G
  <2>1. PICK x \in u : TRUE
    BY <1>2
  <2>2. Q(u \ {x})
    BY <1>2, <2>1
  <2>3. S \ (u \ {x}) = (S \ u) \cup {x} /\ x \notin S \ u
    OBVIOUS
  <2>4. SumFunctionOnSet(f, (S \ u) \cup {x}) = SumFunctionOnSet(f, S \ u) + f[x]
    <3>1. IsFiniteSet(S \ u) /\ x \notin S \ u /\ f[x] \in Int
      BY <1>0, <2>1
    <3> QED
      BY <3>1, SumJoin
  <2>5. SumFunctionOnSet(f, u) = f[x] + SumFunctionOnSet(f, u \ {x})
    BY <1>0, SumSplit
  <2>6. /\ SumFunctionOnSet(f, u \ {x}) \in Int /\ SumFunctionOnSet(f, S \ u) \in Int
        /\ SumFunctionOnSet(f, u) \in Int /\ f[x] \in Int
    BY <1>0
  <2>7. SumFunctionOnSet(f, S) = SumFunctionOnSet(f, u \ {x}) + (SumFunctionOnSet(f, S \ u) + f[x])
    BY <2>2, <2>3, <2>4
  <2> QED
    BY <2>5, <2>6, <2>7
<1>3. \A u \in SUBSET S : u \in G
  <2> HIDE DEF G
  <2> QED
    BY <1>1, <1>2, FiniteSetInduction
<1> QED
  BY <1>3

-----------------------------------------------------------------------------
(* Sizes                                                                   *)

\* A finite set of natural numbers that is not empty has a greatest element.
LEMMA GreatestNat ==
    ASSUME NEW S \in SUBSET Nat, IsFiniteSet(S), S # {}
    PROVE  \E m \in S : \A n \in S : m >= n
<1> DEFINE G == {s \in SUBSET S : s = {} \/ \E m \in s : \A n \in s : m >= n}
<1>1. {} \in G
  OBVIOUS
<1>2. ASSUME NEW s \in SUBSET S, s # {}, \A x \in s : s \ {x} \in G PROVE s \in G
  <2>1. PICK x \in s : TRUE
    BY <1>2
  <2>2. CASE s \ {x} = {}
    <3>1. \A n \in s : x >= n
      BY <2>2
    <3> QED
      BY <3>1
  <2>3. CASE s \ {x} # {}
    <3>1. PICK m \in s \ {x} : \A n \in s \ {x} : m >= n
      BY <1>2, <2>3
    <3>2. m \in Nat /\ x \in Nat /\ \A n \in s : n \in Nat /\ (n = x \/ m >= n)
      BY <3>1
    <3>3. CASE m >= x
      <4>1. \A n \in s : m >= n
        BY <3>2, <3>3
      <4> QED
        BY <3>1, <4>1
    <3>4. CASE x > m
      <4>1. \A n \in s : x >= n
        BY <3>2, <3>4
      <4> QED
        BY <4>1
    <3> QED
      BY <3>2, <3>3, <3>4
  <2> QED
    BY <2>2, <2>3
<1>3. S \in G
  <2> HIDE DEF G
  <2> QED
    BY <1>1, <1>2, FiniteSetInduction
<1> QED
  BY <1>3

\* Sets that have no element in common have as many together as their sizes
\* add up to.
LEMMA UnionSize ==
    ASSUME NEW C, IsFiniteSet(C), NEW f, NEW n,
           \A x \in C : IsFiniteSet(f[x]) /\ n[x] = Cardinality(f[x]),
           \A x, y \in C : x # y => f[x] \cap f[y] = {}
    PROVE  /\ IsFiniteSet(UNION {f[x] : x \in C})
           /\ Cardinality(UNION {f[x] : x \in C}) = SumFunctionOnSet(n, C)
<1> DEFINE U(c) == UNION {f[x] : x \in c}
           G == {c \in SUBSET C : IsFiniteSet(U(c)) /\ Cardinality(U(c)) = SumFunctionOnSet(n, c)}
<1>0. \A x \in C : n[x] \in Nat
  BY FS_CardinalityType
<1>1. {} \in G
  <2>1. U({}) = {}
    OBVIOUS
  <2> QED
    BY <2>1, FS_EmptySet, SumEmpty
<1>2. ASSUME NEW c \in SUBSET C, c # {}, \A x \in c : c \ {x} \in G PROVE c \in G
  <2>1. PICK x \in c : TRUE
    BY <1>2
  <2> DEFINE d == c \ {x}
  <2>2. IsFiniteSet(U(d)) /\ Cardinality(U(d)) = SumFunctionOnSet(n, d)
    BY <1>2, <2>1
  <2>3. U(c) = U(d) \cup f[x]
    BY <2>1
  <2>4. U(d) \cap f[x] = {}
    BY <2>1
  <2>5. IsFiniteSet(c) /\ SumFunctionOnSet(n, c) = n[x] + SumFunctionOnSet(n, d)
    BY <1>0, <2>1, FS_Subset, SumSplit
  <2>6. IsFiniteSet(f[x]) /\ n[x] = Cardinality(f[x]) /\ n[x] \in Nat
    BY <1>0, <2>1
  <2> HIDE DEF U, d
  <2>7. /\ IsFiniteSet(U(c)) /\ Cardinality(U(d)) \in Nat
        /\ Cardinality(U(c)) = Cardinality(U(d)) + n[x] - Cardinality({})
    <3>1. IsFiniteSet(U(c)) /\ Cardinality(U(c)) = Cardinality(U(d)) + Cardinality(f[x]) - Cardinality({})
      <4> PICK A, B, D : A = U(c) /\ B = U(d) /\ D = f[x]
        OBVIOUS
      <4>1. A = B \cup D /\ B \cap D = {} /\ IsFiniteSet(B) /\ IsFiniteSet(D)
        BY <2>2, <2>3, <2>4, <2>6
      <4>2. IsFiniteSet(A) /\ Cardinality(A) = Cardinality(B) + Cardinality(D) - Cardinality({})
        BY <4>1, FS_Union
      <4> QED
        BY <4>2
    <3>2. Cardinality(U(d)) \in Nat
      BY <2>2, FS_CardinalityType
    <3> QED
      BY <2>6, <3>1, <3>2
  <2>8. Cardinality(U(c)) = SumFunctionOnSet(n, c)
    BY <2>2, <2>5, <2>6, <2>7, FS_EmptySet
  <2> QED
    BY <2>7, <2>8
<1>3. C \in G
  <2> HIDE DEF G
  <2> QED
    BY <1>1, <1>2, FiniteSetInduction
<1> QED
  BY <1>3
=============================================================================
