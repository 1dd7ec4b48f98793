---------------------------- MODULE CommonLemmas ----------------------------
(***************************************************************************)
(* Facts about the queues and lists that the modules keep as sequences,    *)
(* the principle of the least number, for what the code picks as the       *)
(* smallest or the largest, sums over finite sets, and sorting.            *)
(***************************************************************************)
EXTENDS Integers, SequencesExt, SequenceTheorems, FiniteSetTheorems, WellFoundedInduction, Ordering, TLAPS

\* Removing one element keeps the others, in their order: container/list's Remove
\* (Handler.processAction) and slices.Delete (SyncStream.deleteRequest).
LEMMA RemoveAtProps ==
    ASSUME NEW S, NEW q \in Seq(S), NEW k \in 1 .. Len(q)
    PROVE  /\ RemoveAt(q, k) \in Seq(S)
           /\ Len(RemoveAt(q, k)) = Len(q) - 1
           /\ \A j \in 1 .. k - 1 : RemoveAt(q, k)[j] = q[j]
           /\ \A j \in k .. Len(q) - 1 : RemoveAt(q, k)[j] = q[j + 1]
<1> DEFINE front == SubSeq(q, 1, k - 1)
           back  == SubSeq(q, k + 1, Len(q))
<1>1. front \in Seq(S) /\ Len(front) = k - 1 /\ \A j \in 1 .. k - 1 : front[j] = q[j]
  OBVIOUS
<1>2. /\ back \in Seq(S) /\ Len(back) = Len(q) - k
      /\ \A j \in 1 .. Len(q) - k : back[j] = q[j + k]
  OBVIOUS
<1>3. RemoveAt(q, k) = front \o back
  BY DEF RemoveAt
<1> HIDE DEF front, back
<1>4. front \o back \in Seq(S) /\ Len(front \o back) = Len(q) - 1
  <2>1. front \o back \in Seq(S)
    BY <1>1, <1>2, ConcatProperties
  <2>2. Len(front \o back) = Len(front) + Len(back)
    BY <1>1, <1>2, ConcatProperties
  <2> QED BY <1>1, <1>2, <2>1, <2>2
<1>5. ASSUME NEW j \in 1 .. k - 1
      PROVE  (front \o back)[j] = q[j]
  BY <1>1, <1>2, ConcatProperties
<1>6. ASSUME NEW j \in k .. Len(q) - 1
      PROVE  (front \o back)[j] = q[j + 1]
  <2>1. (front \o back)[j] = back[j - Len(front)]
    BY <1>1, <1>2, ConcatProperties
  <2>2. PICK m \in 1 .. Len(q) - k : m = j - Len(front) /\ m + k = j + 1
    BY <1>1
  <2>3. back[m] = q[m + k]
    BY <1>2
  <2> QED BY <2>1, <2>2, <2>3
<1> QED BY <1>3, <1>4, <1>5, <1>6

\* What is in the list after one element was removed from a list of distinct ones.
LEMMA RemoveAtMembers ==
    ASSUME NEW S, NEW q \in Seq(S), NEW k \in 1 .. Len(q),
           \A i, j \in 1 .. Len(q) : q[i] = q[j] => i = j
    PROVE  \A x : (\E j \in 1 .. Len(RemoveAt(q, k)) : RemoveAt(q, k)[j] = x)
                  <=> x # q[k] /\ \E i \in 1 .. Len(q) : q[i] = x
<1> DEFINE r == RemoveAt(q, k)
<1>0. /\ Len(r) = Len(q) - 1
      /\ \A j \in 1 .. k - 1 : r[j] = q[j]
      /\ \A j \in k .. Len(q) - 1 : r[j] = q[j + 1]
  BY RemoveAtProps
<1> HIDE DEF r
<1>1. ASSUME NEW j \in 1 .. Len(r) PROVE r[j] # q[k] /\ \E i \in 1 .. Len(q) : q[i] = r[j]
  <2>1. CASE j < k
    BY <1>0, <2>1
  <2>2. CASE j >= k
    BY <1>0, <2>2
  <2> QED BY <2>1, <2>2, <1>0
<1>2. ASSUME NEW i \in 1 .. Len(q), i # k PROVE \E j \in 1 .. Len(r) : r[j] = q[i]
  <2>1. CASE i < k
    BY <1>0, <2>1
  <2>2. CASE i > k
    <3>1. i - 1 \in k .. Len(q) - 1 /\ i - 1 \in 1 .. Len(r) /\ (i - 1) + 1 = i
      BY <1>0, <2>2
    <3> QED BY <1>0, <3>1
  <2> QED BY <1>2, <2>1, <2>2
<1> QED BY <1>1, <1>2 DEF r

\* Appending: the old elements stay where they are and the new one comes last.
LEMMA AppendProps ==
    ASSUME NEW S, NEW q \in Seq(S), NEW e \in S
    PROVE  /\ Append(q, e) \in Seq(S)
           /\ Len(Append(q, e)) = Len(q) + 1
           /\ \A j \in 1 .. Len(q) : Append(q, e)[j] = q[j]
           /\ Append(q, e)[Len(q) + 1] = e
  OBVIOUS

\* Taking the first element: the others move one place forward.
LEMMA TailProps ==
    ASSUME NEW S, NEW q \in Seq(S), q # <<>>
    PROVE  /\ Len(q) \in Nat \ {0}
           /\ Head(q) = q[1] /\ q[1] \in S
           /\ Tail(q) \in Seq(S)
           /\ Len(Tail(q)) = Len(q) - 1
           /\ \A j \in 1 .. Len(q) - 1 : Tail(q)[j] = q[j + 1]
  OBVIOUS

-----------------------------------------------------------------------------
\* A set of natural numbers has a least element.
LEMMA LeastNatural ==
    ASSUME NEW S, S \subseteq Nat, S # {}
    PROVE  \E x \in S : \A y \in S : x <= y
<1> DEFINE R == {p \in Nat \X Nat : p[1] < p[2]}
<1>1. OpToRel(<, Nat) = R
  BY Zenon DEF OpToRel
<1>2. IsWellFoundedOn(R, Nat)
  BY <1>1, NatLessThanWellFounded, Zenon
<1>3. \A x, y \in Nat : y < x => <<y, x>> \in R
  OBVIOUS
<1> HIDE DEF R
<1>4. PICK x \in S : \A y \in S : ~ (<<y, x>> \in R)
  BY <1>2, WFMin
<1>5. ASSUME NEW y \in S PROVE x <= y
  <2>1. ~ (y < x)
    BY <1>3, <1>4, Zenon
  <2> QED
    BY <2>1
<1> QED
  BY <1>5

\* A bounded one has a greatest element.
LEMMA GreatestNatural ==
    ASSUME NEW S, S \subseteq Nat, S # {}, NEW n \in Nat, \A x \in S : x <= n
    PROVE  \E x \in S : \A y \in S : y <= x
<1> DEFINE T == {n - x : x \in S}
<1>1. T \subseteq Nat
  <2>1. \A x \in S : n - x \in Nat
    OBVIOUS
  <2> QED
    BY <2>1, Zenon
<1>0. T # {}
  BY Zenon
<1>2. PICK d \in T : \A e \in T : d <= e
  BY <1>1, <1>0, LeastNatural
<1>3. PICK x \in S : d = n - x
  OBVIOUS
<1>4. ASSUME NEW y \in S PROVE y <= x
  <2>1. n - x <= n - y
    BY <1>2, <1>3
  <2> QED
    BY <2>1
<1> QED
  BY <1>4

\* Sequences over their own elements are sequences over a common set.
LEMMA SequencesTyped ==
    ASSUME NEW T, \A c \in T : c \in Seq(Range(c))
    PROVE  \A c \in T : c \in Seq(UNION {Range(d) : d \in T})
<1> DEFINE U == UNION {Range(d) : d \in T}
<1> SUFFICES ASSUME NEW c \in T PROVE c \in Seq(U)
  BY Zenon
<1>1. c \in Seq(Range(c)) /\ Len(c) \in Nat /\ DOMAIN c = 1 .. Len(c)
  OBVIOUS
<1>2. c \in [1 .. Len(c) -> Range(c)]
  BY <1>1
<1>3. \A k \in 1 .. Len(c) : c[k] \in Range(c)
  BY <1>1
<1>4. \A k \in 1 .. Len(c) : c[k] \in U
  BY <1>3, Zenon
<1> HIDE DEF U
<1>5. c \in [1 .. Len(c) -> U]
  BY <1>2, <1>4
<1> QED
  BY <1>1, <1>5

-----------------------------------------------------------------------------
(***************************************************************************)
(* Sums.  SumFunctionOnSet takes the elements in the order in which CHOOSE *)
(* returns them; the result does not depend on it.  What induction over    *)
(* the set would show follows from the least number of elements of a set   *)
(* for which it is false.                                                  *)
(***************************************************************************)

\* One step of the fold that SumFunctionOnSet is made of.
SumStep(f, g, s) ==
    IF s = {} THEN 0 ELSE f[CHOOSE x \in s : TRUE] + g[s \ {CHOOSE x \in s : TRUE}]

\* g sums f over the subsets of S.
IsSum(f, S, g) == g = [s \in SUBSET S |-> SumStep(f, g, s)]

LEMMA SumIsChosen ==
    ASSUME NEW f, NEW S
    PROVE  SumFunctionOnSet(f, S) = (CHOOSE g : IsSum(f, S, g))[S]
    BY DEF SumFunctionOnSet, FoldFunctionOnSet, MapThenFoldSet, IsSum, SumStep

LEMMA SumExists ==
    ASSUME NEW S, IsFiniteSet(S), NEW f, \A x \in S : f[x] \in Nat
    PROVE  \E g \in [SUBSET S -> Nat] : IsSum(f, S, g)
<1> DEFINE Upto(g, n) == \A s \in SUBSET S : Cardinality(s) <= n => g[s] = SumStep(f, g, s)
           Bad == {n \in Nat : ~ \E g \in [SUBSET S -> Nat] : Upto(g, n)}
<1>0. \A s \in SUBSET S : IsFiniteSet(s) /\ Cardinality(s) \in Nat /\ Cardinality(s) <= Cardinality(S)
  BY FS_Subset, FS_CardinalityType
<1>a. \A s \in SUBSET S : s # {} => (CHOOSE x \in s : TRUE) \in s
  OBVIOUS
<1>1. \E g \in [SUBSET S -> Nat] : Upto(g, 0)
  <2> DEFINE g == [s \in SUBSET S |-> 0]
  <2>1. ASSUME NEW s \in SUBSET S, Cardinality(s) <= 0 PROVE g[s] = SumStep(f, g, s)
    <3>1. s = {}
      BY <1>0, <2>1, FS_EmptySet
    <3> QED
      BY <3>1 DEF SumStep
  <2>2. g \in [SUBSET S -> Nat]
    OBVIOUS
  <2> QED
    BY <2>1, <2>2, Zenon
<1>2. ASSUME NEW n \in Nat, NEW g \in [SUBSET S -> Nat], Upto(g, n)
      PROVE  \E h \in [SUBSET S -> Nat] : Upto(h, n + 1)
  <2> DEFINE h == [s \in SUBSET S |-> IF Cardinality(s) <= n THEN g[s] ELSE SumStep(f, g, s)]
  <2>1. \A s \in SUBSET S : SumStep(f, g, s) \in Nat
    BY <1>a DEF SumStep
  <2>2. h \in [SUBSET S -> Nat]
    BY <2>1
  <2>3. ASSUME NEW s \in SUBSET S, Cardinality(s) <= n + 1 PROVE h[s] = SumStep(f, h, s)
    <3>1. h[s] = SumStep(f, g, s)
      BY <1>2
    <3>2. CASE s = {}
      BY <3>1, <3>2 DEF SumStep
    <3>3. CASE s # {}
      <4>1. PICK x \in s : x = CHOOSE y \in s : TRUE
        BY <3>3
      <4>2. Cardinality(s \ {x}) = Cardinality(s) - 1 /\ s \ {x} \in SUBSET S
        BY <1>0, FS_RemoveElement
      <4>3. h[s \ {x}] = g[s \ {x}]
        BY <1>0, <2>3, <4>2
      <4> HIDE DEF h
      <4> QED
        BY <3>1, <3>3, <4>1, <4>3 DEF SumStep
    <3> QED
      BY <3>2, <3>3
  <2> QED
    BY <2>2, <2>3, Zenon
<1>3. Bad = {}
  <2> SUFFICES ASSUME Bad # {} PROVE FALSE
    OBVIOUS
  <2>1. PICK n \in Bad : \A m \in Bad : n <= m
    BY LeastNatural
  <2>2. n # 0
    BY <1>1
  <2>3. n - 1 \in Nat /\ n - 1 \notin Bad /\ (n - 1) + 1 = n
    <3>1. n \in Nat
      OBVIOUS
    <3> HIDE DEF Bad
    <3> QED
      BY <2>1, <2>2, <3>1
  <2>4. PICK g \in [SUBSET S -> Nat] : Upto(g, n - 1)
    BY <2>3
  <2> HIDE DEF Upto
  <2>5. \E h \in [SUBSET S -> Nat] : Upto(h, (n - 1) + 1)
    BY <1>2, <2>3, <2>4
  <2> QED
    BY <2>3, <2>5
<1>4. PICK g \in [SUBSET S -> Nat] : Upto(g, Cardinality(S))
  BY <1>0, <1>3
<1>5. IsSum(f, S, g)
  <2>1. \A s \in SUBSET S : g[s] = SumStep(f, g, s)
    BY <1>0, <1>4
  <2> QED
    BY <2>1 DEF IsSum
<1> QED
  BY <1>5

\* g is the table of the sums over the subsets of S.
SumTable(f, S, g) == IsSum(f, S, g) /\ \A s \in SUBSET S : SumFunctionOnSet(f, s) = g[s]

\* SumFunctionOnSet follows the recursion for all subsets of a finite set at once.
LEMMA SumRecursion ==
    ASSUME NEW S, IsFiniteSet(S), NEW f, \A x \in S : f[x] \in Nat
    PROVE  \E g \in [SUBSET S -> Nat] : SumTable(f, S, g)
<1>0. \A s \in SUBSET S : IsFiniteSet(s) /\ Cardinality(s) \in Nat
  BY FS_Subset, FS_CardinalityType
<1>1. PICK g \in [SUBSET S -> Nat] : IsSum(f, S, g)
  BY SumExists
<1>2. ASSUME NEW T \in SUBSET S PROVE SumFunctionOnSet(f, T) = g[T]
  <2>1. PICK h : IsSum(f, T, h) /\ SumFunctionOnSet(f, T) = h[T]
    BY <1>0, SumExists, SumIsChosen
  <2> DEFINE Bad == {s \in SUBSET T : h[s] # g[s]}
             N == {Cardinality(s) : s \in Bad}
  <2>2. Bad = {}
    <3> SUFFICES ASSUME Bad # {} PROVE FALSE
      OBVIOUS
    <3>1. N \subseteq Nat /\ N # {}
      BY <1>0
    <3>2. PICK n \in N : \A m \in N : n <= m
      BY <3>1, LeastNatural
    <3>3. PICK s \in Bad : n = Cardinality(s)
      OBVIOUS
    <3>4. h[s] = SumStep(f, h, s) /\ g[s] = SumStep(f, g, s)
      BY <1>1, <2>1 DEF IsSum
    <3>5. s # {}
      BY <3>4 DEF SumStep
    <3>6. PICK x \in s : x = CHOOSE y \in s : TRUE
      BY <3>5
    <3>7. Cardinality(s \ {x}) = Cardinality(s) - 1 /\ s \ {x} \in SUBSET T
      BY <1>0, FS_RemoveElement
    <3>8. s \ {x} \notin Bad
      <4>1. Cardinality(s \ {x}) < n /\ ~ (n <= Cardinality(s \ {x}))
        BY <1>0, <3>3, <3>7
      <4>2. s \ {x} \in Bad => Cardinality(s \ {x}) \in N
        BY Zenon
      <4> HIDE DEF N, Bad
      <4> QED
        BY <3>2, <4>1, <4>2, Zenon
    <3> QED
      BY <3>4, <3>5, <3>6, <3>7, <3>8 DEF SumStep
  <2> QED
    BY <2>1, <2>2
<1>3. SumTable(f, S, g)
  BY <1>1, <1>2, Zenon DEF SumTable
<1> QED
  BY <1>3

\* The sum over nothing is zero, a sum is a natural number, and any element may be
\* taken out of it first.
LEMMA SumProps ==
    ASSUME NEW S, IsFiniteSet(S), NEW f, \A x \in S : f[x] \in Nat
    PROVE  /\ SumFunctionOnSet(f, {}) = 0
           /\ \A T \in SUBSET S : SumFunctionOnSet(f, T) \in Nat
           /\ \A T \in SUBSET S : \A x \in T :
                 SumFunctionOnSet(f, T) = f[x] + SumFunctionOnSet(f, T \ {x})
<1>0. \A s \in SUBSET S : IsFiniteSet(s) /\ Cardinality(s) \in Nat
  BY FS_Subset, FS_CardinalityType
<1>a. PICK g \in [SUBSET S -> Nat] : SumTable(f, S, g)
  BY SumRecursion
<1>1. IsSum(f, S, g) /\ \A s \in SUBSET S : SumFunctionOnSet(f, s) = g[s]
  BY <1>a DEF SumTable
<1>2. \A s \in SUBSET S : g[s] = SumStep(f, g, s)
  BY <1>1 DEF IsSum
<1>3. g[{}] = 0
  BY <1>2 DEF SumStep
<1> DEFINE Bad == {T \in SUBSET S : \E x \in T : g[T] # f[x] + g[T \ {x}]}
           N == {Cardinality(s) : s \in Bad}
<1>4. Bad = {}
  <2> SUFFICES ASSUME Bad # {} PROVE FALSE
    OBVIOUS
  <2>1. N \subseteq Nat /\ N # {}
    BY <1>0
  <2>2. PICK n \in N : \A m \in N : n <= m
    BY <2>1, LeastNatural
  <2>3. PICK T \in Bad : n = Cardinality(T)
    OBVIOUS
  <2>4. PICK x \in T : g[T] # f[x] + g[T \ {x}]
    OBVIOUS
  <2>5. PICK y \in T : y = CHOOSE z \in T : TRUE
    BY <2>4
  <2>6. g[T] = f[y] + g[T \ {y}]
    BY <1>2, <2>4, <2>5 DEF SumStep
  <2>7. x # y
    BY <2>4, <2>6
  <2>8. ASSUME NEW z \in T PROVE T \ {z} \in SUBSET S /\ T \ {z} \notin Bad
    <3>1. Cardinality(T \ {z}) = Cardinality(T) - 1
      BY <1>0, FS_RemoveElement
    <3>2. Cardinality(T \ {z}) < n /\ n \in Nat /\ T \ {z} \in SUBSET S
      BY <1>0, <2>3, <3>1
    <3>3. T \ {z} \in Bad => Cardinality(T \ {z}) \in N
      BY Zenon
    <3> HIDE DEF N, Bad
    <3> QED
      BY <1>0, <2>2, <3>2, <3>3
  <2>9. g[T \ {y}] = f[x] + g[(T \ {y}) \ {x}] /\ g[T \ {x}] = f[y] + g[(T \ {x}) \ {y}]
    <3>1. T \ {y} \in SUBSET S /\ T \ {y} \notin Bad /\ x \in T \ {y}
      BY <2>7, <2>8
    <3>2. T \ {x} \in SUBSET S /\ T \ {x} \notin Bad /\ y \in T \ {x}
      BY <2>7, <2>8
    <3> QED
      BY <3>1, <3>2, Zenon
  <2>10. (T \ {y}) \ {x} = (T \ {x}) \ {y} /\ (T \ {x}) \ {y} \in SUBSET S
    OBVIOUS
  <2>11. f[x] \in Nat /\ f[y] \in Nat /\ g[(T \ {x}) \ {y}] \in Nat
    BY <2>10
  <2>12. \A a, b, c \in Nat : a + (b + c) = b + (a + c)
    OBVIOUS
  <2>13. f[y] + (f[x] + g[(T \ {x}) \ {y}]) = f[x] + (f[y] + g[(T \ {x}) \ {y}])
    BY <2>11, <2>12, Zenon
  <2>14. g[T] = f[y] + (f[x] + g[(T \ {x}) \ {y}])
    BY <2>6, <2>9, <2>10, Zenon
  <2> QED
    BY <2>4, <2>9, <2>13, <2>14, Zenon
<1>5. \A T \in SUBSET S : \A x \in T : g[T] = f[x] + g[T \ {x}]
  BY <1>4, Zenon
<1>6. ASSUME NEW T \in SUBSET S, NEW x \in T
      PROVE  SumFunctionOnSet(f, T) = f[x] + SumFunctionOnSet(f, T \ {x})
  <2>1. T \ {x} \in SUBSET S
    OBVIOUS
  <2> QED
    BY <1>1, <1>5, <2>1, Zenon
<1>7. SumFunctionOnSet(f, {}) = 0
  BY <1>1, <1>3, Zenon
<1>8. \A T \in SUBSET S : SumFunctionOnSet(f, T) \in Nat
  BY <1>1
<1> QED
  BY <1>6, <1>7, <1>8, Zenon

\* A sum over two disjoint sets is the sum of their sums.
LEMMA SumDisjoint ==
    ASSUME NEW A, NEW B, IsFiniteSet(A), IsFiniteSet(B), A \intersect B = {},
           NEW f, \A x \in A \union B : f[x] \in Nat
    PROVE  /\ SumFunctionOnSet(f, A) \in Nat
           /\ SumFunctionOnSet(f, B) \in Nat
           /\ SumFunctionOnSet(f, A \union B) = SumFunctionOnSet(f, A) + SumFunctionOnSet(f, B)
<1> DEFINE S == A \union B
           sum(s) == SumFunctionOnSet(f, s)
<1>0. /\ sum({}) = 0
      /\ \A T \in SUBSET S : sum(T) \in Nat
      /\ \A T \in SUBSET S : \A x \in T : sum(T) = f[x] + sum(T \ {x})
  <2>1. IsFiniteSet(S)
    BY FS_Union
  <2> HIDE DEF S
  <2> QED
    BY <2>1, SumProps DEF S
<1>1. \A s \in SUBSET B : IsFiniteSet(s) /\ Cardinality(s) \in Nat
  BY FS_Subset, FS_CardinalityType
<1> HIDE DEF sum
<1> DEFINE Bad == {T \in SUBSET B : sum(A \union T) # sum(A) + sum(T)}
           N == {Cardinality(s) : s \in Bad}
<1>2. Bad = {}
  <2> SUFFICES ASSUME Bad # {} PROVE FALSE
    OBVIOUS
  <2>1. N \subseteq Nat /\ N # {}
    BY <1>1
  <2>2. PICK n \in N : \A m \in N : n <= m
    BY <2>1, LeastNatural
  <2>3. PICK T \in Bad : n = Cardinality(T)
    OBVIOUS
  <2>4. T # {}
    <3>1. A \union {} = A /\ A \in SUBSET S
      OBVIOUS
    <3>2. sum(A) + 0 = sum(A)
      BY <1>0, <3>1
    <3> QED
      BY <1>0, <3>1, <3>2, Zenon
  <2>5. PICK x \in T : TRUE
    BY <2>4
  <2>6. T \ {x} \notin Bad /\ T \ {x} \in SUBSET B
    <3>1. Cardinality(T \ {x}) = Cardinality(T) - 1
      BY <1>1, FS_RemoveElement
    <3>2. ~ (n <= Cardinality(T \ {x})) /\ T \ {x} \in SUBSET B
      BY <1>1, <2>3, <3>1
    <3>3. T \ {x} \in Bad => Cardinality(T \ {x}) \in N
      BY Zenon
    <3> HIDE DEF N, Bad
    <3> QED
      BY <2>2, <3>2, <3>3, Zenon
  <2>7. sum(A \union (T \ {x})) = sum(A) + sum(T \ {x})
    BY <2>6
  <2>8. (A \union T) \ {x} = A \union (T \ {x}) /\ x \in A \union T
    OBVIOUS
  <2>9. /\ A \union T \in SUBSET S /\ T \in SUBSET S
        /\ A \in SUBSET S /\ T \ {x} \in SUBSET S /\ f[x] \in Nat
    OBVIOUS
  <2>10. sum(A \union T) = f[x] + sum(A \union (T \ {x})) /\ sum(T) = f[x] + sum(T \ {x})
    BY <1>0, <2>8, <2>9
  <2>11. f[x] \in Nat /\ sum(A) \in Nat /\ sum(T \ {x}) \in Nat
    BY <1>0, <2>9, Zenon
  <2>12. \A a, b, c \in Nat : a + (b + c) = b + (a + c)
    OBVIOUS
  <2>13. f[x] + (sum(A) + sum(T \ {x})) = sum(A) + (f[x] + sum(T \ {x}))
    BY <2>11, <2>12, Zenon
  <2> QED
    BY <2>7, <2>10, <2>13, Zenon
<1>3. sum(A \union B) = sum(A) + sum(B)
  BY <1>2
<1>4. A \in SUBSET S /\ B \in SUBSET S
  OBVIOUS
<1> QED
  BY <1>0, <1>3, <1>4, Zenon DEF sum

\* Taking away a subset takes its sum away.
LEMMA SumWithout ==
    ASSUME NEW S, IsFiniteSet(S), NEW R \in SUBSET S, NEW f, \A x \in S : f[x] \in Nat
    PROVE  /\ SumFunctionOnSet(f, R) \in Nat
           /\ SumFunctionOnSet(f, S \ R) \in Nat
           /\ SumFunctionOnSet(f, S) = SumFunctionOnSet(f, S \ R) + SumFunctionOnSet(f, R)
<1>1. IsFiniteSet(R) /\ IsFiniteSet(S \ R)
  BY FS_Subset
<1>2. (S \ R) \intersect R = {} /\ (S \ R) \union R = S
  OBVIOUS
<1>3. \A x \in (S \ R) \union R : f[x] \in Nat
  OBVIOUS
<1>4. /\ SumFunctionOnSet(f, R) \in Nat
      /\ SumFunctionOnSet(f, S \ R) \in Nat
      /\ SumFunctionOnSet(f, (S \ R) \union R) = SumFunctionOnSet(f, S \ R) + SumFunctionOnSet(f, R)
  BY <1>1, <1>2, <1>3, SumDisjoint
<1> QED
  BY <1>2, <1>4, Zenon

\* A sum over positions is the sum over what is there, if it is there once.
LEMMA SumImage ==
    ASSUME NEW P, IsFiniteSet(P), NEW e, NEW f, NEW g,
           \A p \in P : g[p] = f[e[p]] /\ f[e[p]] \in Nat,
           \A p, q \in P : e[p] = e[q] => p = q
    PROVE  SumFunctionOnSet(g, P) = SumFunctionOnSet(f, {e[p] : p \in P})
<1> DEFINE image(T) == {e[p] : p \in T}
           sumf(s) == SumFunctionOnSet(f, s)
           sumg(s) == SumFunctionOnSet(g, s)
<1>0. /\ sumg({}) = 0
      /\ \A T \in SUBSET P : sumg(T) \in Nat
      /\ \A T \in SUBSET P : \A x \in T : sumg(T) = g[x] + sumg(T \ {x})
  BY SumProps
<1>a. IsFiniteSet(image(P))
  <2>1. [p \in P |-> e[p]] \in Surjection(P, image(P))
    BY DEF Surjection
  <2> QED
    BY <2>1, FS_Surjection
<1>1. /\ sumf({}) = 0
      /\ \A T \in SUBSET image(P) : sumf(T) \in Nat
      /\ \A T \in SUBSET image(P) : \A x \in T : sumf(T) = f[x] + sumf(T \ {x})
  BY <1>a, SumProps
<1>2. \A s \in SUBSET P : IsFiniteSet(s) /\ Cardinality(s) \in Nat
  BY FS_Subset, FS_CardinalityType
<1> HIDE DEF sumf, sumg
<1> DEFINE Bad == {T \in SUBSET P : sumg(T) # sumf(image(T))}
           N == {Cardinality(s) : s \in Bad}
<1>3. Bad = {}
  <2> SUFFICES ASSUME Bad # {} PROVE FALSE
    OBVIOUS
  <2>1. N \subseteq Nat /\ N # {}
    BY <1>2
  <2>2. PICK n \in N : \A m \in N : n <= m
    BY <2>1, LeastNatural
  <2>3. PICK T \in Bad : n = Cardinality(T)
    OBVIOUS
  <2>4. T # {}
    <3>1. image({}) = {}
      OBVIOUS
    <3> QED
      BY <1>0, <1>1, <3>1, Zenon
  <2>5. PICK x \in T : TRUE
    BY <2>4
  <2>6. T \ {x} \notin Bad /\ T \ {x} \in SUBSET P
    <3>1. Cardinality(T \ {x}) = Cardinality(T) - 1
      BY <1>2, FS_RemoveElement
    <3>2. ~ (n <= Cardinality(T \ {x})) /\ T \ {x} \in SUBSET P
      BY <1>2, <2>3, <3>1
    <3>3. T \ {x} \in Bad => Cardinality(T \ {x}) \in N
      BY Zenon
    <3> HIDE DEF N, Bad
    <3> QED
      BY <2>2, <3>2, <3>3, Zenon
  <2>7. sumg(T \ {x}) = sumf(image(T \ {x}))
    BY <2>6, Zenon
  <2>8. image(T \ {x}) = image(T) \ {e[x]} /\ e[x] \in image(T) /\ image(T) \in SUBSET image(P)
    OBVIOUS
  <2> HIDE DEF image
  <2>9. sumf(image(T)) = f[e[x]] + sumf(image(T) \ {e[x]})
    BY <1>1, <2>8, Zenon
  <2>10. sumg(T) = g[x] + sumg(T \ {x}) /\ g[x] = f[e[x]]
    BY <1>0
  <2> QED
    BY <2>7, <2>8, <2>9, <2>10, Zenon
<1> QED
  BY <1>3, Zenon DEF sumf, sumg

\* A sum whose terms are covered by different terms of another is not larger.
LEMMA SumCovered ==
    ASSUME NEW P, IsFiniteSet(P), NEW K, IsFiniteSet(K), NEW e, NEW f, NEW g,
           \A p \in P : g[p] \in Nat, \A k \in K : f[k] \in Nat,
           \A p \in P : g[p] # 0 => e[p] \in K /\ g[p] <= f[e[p]],
           \A p, q \in P : g[p] # 0 /\ g[q] # 0 /\ e[p] = e[q] => p = q
    PROVE  SumFunctionOnSet(g, P) <= SumFunctionOnSet(f, K)
<1> DEFINE image(T) == {e[p] : p \in {q \in T : g[q] # 0}}
           sumf(s) == SumFunctionOnSet(f, s)
           sumg(s) == SumFunctionOnSet(g, s)
<1>0. /\ sumg({}) = 0
      /\ \A T \in SUBSET P : sumg(T) \in Nat
      /\ \A T \in SUBSET P : \A x \in T : sumg(T) = g[x] + sumg(T \ {x})
  BY SumProps
<1>1. /\ sumf({}) = 0
      /\ \A T \in SUBSET K : sumf(T) \in Nat
      /\ \A T \in SUBSET K : \A x \in T : sumf(T) = f[x] + sumf(T \ {x})
  BY SumProps
<1>2. \A s \in SUBSET P : IsFiniteSet(s) /\ Cardinality(s) \in Nat
  BY FS_Subset, FS_CardinalityType
<1>a. \A T \in SUBSET P : image(T) \in SUBSET K
  OBVIOUS
<1>b. sumf(image(P)) <= sumf(K)
  <2>1. image(P) \in SUBSET K
    BY <1>a
  <2> HIDE DEF image
  <2>2. sumf(K) = sumf(K \ image(P)) + sumf(image(P)) /\ sumf(K \ image(P)) \in Nat /\ sumf(image(P)) \in Nat
    BY <2>1, SumWithout
  <2> HIDE DEF sumf
  <2> QED
    BY <2>2
<1> HIDE DEF sumf, sumg
<1> DEFINE Bad == {T \in SUBSET P : ~ (sumg(T) <= sumf(image(T)))}
           N == {Cardinality(s) : s \in Bad}
<1>3. Bad = {}
  <2> SUFFICES ASSUME Bad # {} PROVE FALSE
    OBVIOUS
  <2>1. N \subseteq Nat /\ N # {}
    BY <1>2
  <2>2. PICK n \in N : \A m \in N : n <= m
    BY <2>1, LeastNatural
  <2>3. PICK T \in Bad : n = Cardinality(T)
    OBVIOUS
  <2>4. T # {}
    <3>1. image({}) = {}
      OBVIOUS
    <3>2. sumg({}) <= sumf(image({}))
      BY <1>0, <1>1, <3>1
    <3> QED
      BY <3>2, Zenon
  <2>5. PICK x \in T : TRUE
    BY <2>4
  <2>6. T \ {x} \notin Bad /\ T \ {x} \in SUBSET P
    <3>1. Cardinality(T \ {x}) = Cardinality(T) - 1
      BY <1>2, FS_RemoveElement
    <3>2. ~ (n <= Cardinality(T \ {x})) /\ T \ {x} \in SUBSET P
      BY <1>2, <2>3, <3>1
    <3>3. T \ {x} \in Bad => Cardinality(T \ {x}) \in N
      BY Zenon
    <3> HIDE DEF N, Bad
    <3> QED
      BY <2>2, <3>2, <3>3, Zenon
  <2>7. sumg(T \ {x}) <= sumf(image(T \ {x}))
    BY <2>6, Zenon
  <2>8. sumg(T) = g[x] + sumg(T \ {x}) /\ g[x] \in Nat /\ sumg(T \ {x}) \in Nat
    BY <1>0, <2>6
  <2>9. sumf(image(T)) \in Nat /\ sumf(image(T \ {x})) \in Nat
    BY <1>1, <1>a, <2>6
  <2>10. CASE g[x] = 0
    <3>1. image(T \ {x}) = image(T)
      BY <2>10
    <3>2. sumg(T) <= sumf(image(T))
      BY <2>7, <2>8, <2>10, <3>1
    <3> QED
      BY <3>2, Zenon
  <2>11. CASE g[x] # 0
    <3>1. image(T \ {x}) = image(T) \ {e[x]} /\ e[x] \in image(T) /\ image(T) \in SUBSET K
      BY <2>11
    <3>2. e[x] \in K /\ g[x] <= f[e[x]] /\ f[e[x]] \in Nat
      BY <2>11
    <3> HIDE DEF image
    <3>3. sumf(image(T)) = f[e[x]] + sumf(image(T) \ {e[x]})
      BY <1>1, <3>1, Zenon
    <3>a. \A a, b, c, d \in Nat : a <= c /\ b <= d => a + b <= c + d
      OBVIOUS
    <3>4. g[x] + sumg(T \ {x}) <= f[e[x]] + sumf(image(T \ {x}))
      BY <2>7, <2>8, <2>9, <3>2, <3>a, Zenon
    <3>5. sumg(T) <= sumf(image(T))
      BY <2>8, <3>1, <3>3, <3>4, Zenon
    <3> QED
      BY <3>5, Zenon
  <2> QED
    BY <2>10, <2>11
<1>4. sumg(P) <= sumf(image(P))
  BY <1>3, Zenon
<1>5. sumg(P) \in Nat /\ sumf(image(P)) \in Nat /\ sumf(K) \in Nat
  BY <1>0, <1>1, <1>a
<1>6. sumg(P) <= sumf(K)
  BY <1>4, <1>5, <1>b
<1> QED
  BY <1>6, Zenon DEF sumf, sumg

-----------------------------------------------------------------------------
(***************************************************************************)
(* Sorting                                                                 *)
(***************************************************************************)

\* R orders the members of S, each of them with itself included.
OrdersAll(S, R) ==
    /\ \A x, y \in S : <<x, y>> \in R \/ <<y, x>> \in R
    /\ \A x, y \in S : <<x, y>> \in R /\ <<y, x>> \in R => x = y
    /\ \A x, y, z \in S : <<x, y>> \in R /\ <<y, z>> \in R => <<x, z>> \in R

\* InOrder names every member of S once, in the order R.
LEMMA InOrderProps ==
    ASSUME NEW S, IsFiniteSet(S), NEW R, OrdersAll(S, R)
    PROVE  /\ Cardinality(S) \in Nat
           /\ InOrder(S, R) \in [1 .. Cardinality(S) -> S]
           /\ \A x \in S : \E k \in 1 .. Cardinality(S) : InOrder(S, R)[k] = x
           /\ \A j, k \in 1 .. Cardinality(S) :
                 j < k => /\ InOrder(S, R)[j] # InOrder(S, R)[k]
                          /\ <<InOrder(S, R)[j], InOrder(S, R)[k]>> \in R
    <1> DEFINE n == Cardinality(S)
               below(x) == {y \in S : <<y, x>> \in R}
               rank == [x \in S |-> Cardinality(below(x))]
    <1>0. n \in Nat
        BY FS_CardinalityType
    <1>1. \A x \in S : below(x) \in SUBSET S /\ x \in below(x)
        BY DEF OrdersAll
    <1>2. \A x \in S : IsFiniteSet(below(x)) /\ Cardinality(below(x)) \in 1 .. n
        <2> SUFFICES ASSUME NEW x \in S PROVE IsFiniteSet(below(x)) /\ Cardinality(below(x)) \in 1 .. n
            BY Zenon
        <2>1. below(x) \in SUBSET S /\ below(x) # {}
            BY <1>1
        <2> HIDE DEF below
        <2>2. IsFiniteSet(below(x)) /\ Cardinality(below(x)) <= n
            BY <2>1, FS_Subset
        <2>3. Cardinality(below(x)) \in Nat /\ Cardinality(below(x)) # 0
            BY <2>1, <2>2, FS_CardinalityType, FS_EmptySet
        <2> QED
            BY <1>0, <2>2, <2>3
    <1>3. ASSUME NEW x \in S, NEW y \in S, x # y, <<x, y>> \in R PROVE rank[x] < rank[y]
        <2>1. below(x) \in SUBSET below(y)
            BY <1>3 DEF OrdersAll
        <2>2. y \notin below(x) /\ y \in below(y)
            BY <1>3, <1>1 DEF OrdersAll
        <2> HIDE DEF below
        <2>3. IsFiniteSet(below(y)) /\ Cardinality(below(x)) <= Cardinality(below(y))
            BY <1>2, <2>1, FS_Subset
        <2>4. Cardinality(below(x)) # Cardinality(below(y))
            BY <2>1, <2>2, <2>3, FS_Subset
        <2> QED
            BY <1>2, <2>3, <2>4
    <1>4. rank \in [S -> 1 .. n]
        BY <1>2
    <1>5. \A x, y \in S : rank[x] = rank[y] => x = y
        <2> SUFFICES ASSUME NEW x \in S, NEW y \in S, rank[x] = rank[y], x # y PROVE FALSE
            BY Zenon
        <2>1. rank[x] < rank[y] \/ rank[y] < rank[x]
            BY <1>3 DEF OrdersAll
        <2> HIDE DEF rank
        <2> QED
            BY <1>0, <1>4, <2>1
    <1>6. \A k \in 1 .. n : \E x \in S : rank[x] = k
        <2> HIDE DEF rank, n
        <2>1. rank \in Injection(S, 1 .. n)
            BY <1>4, <1>5 DEF Injection, IsInjective
        <2>2. IsFiniteSet(1 .. n) /\ Cardinality(1 .. n) = n
            BY <1>0, FS_Interval
        <2>3. rank \in Surjection(S, 1 .. n)
            BY <2>1, <2>2, FS_Injection DEF n
        <2> QED
            BY <2>3 DEF Surjection
    <1>7. ASSUME NEW k \in 1 .. n PROVE InOrder(S, R)[k] \in S /\ rank[InOrder(S, R)[k]] = k
        <2>1. PICK x \in S : Cardinality(below(x)) = k
            BY <1>6
        <2>2. InOrder(S, R)[k] = CHOOSE y \in S : Cardinality(below(y)) = k
            BY DEF InOrder
        <2> HIDE DEF below
        <2>3. InOrder(S, R)[k] \in S /\ Cardinality(below(InOrder(S, R)[k])) = k
            BY <2>1, <2>2
        <2> QED
            BY <2>3
    <1>8. InOrder(S, R) \in [1 .. n -> S]
        BY <1>7 DEF InOrder
    <1> HIDE DEF rank
    <1>9. ASSUME NEW x \in S PROVE \E k \in 1 .. n : InOrder(S, R)[k] = x
        <2>1. rank[x] \in 1 .. n
            BY <1>4
        <2> QED
            BY <1>5, <1>7, <2>1
    <1>10. ASSUME NEW j \in 1 .. n, NEW k \in 1 .. n, j < k
           PROVE  InOrder(S, R)[j] # InOrder(S, R)[k] /\ <<InOrder(S, R)[j], InOrder(S, R)[k]>> \in R
        <2>1. PICK x \in S, y \in S : /\ x = InOrder(S, R)[j] /\ rank[x] = j
                                      /\ y = InOrder(S, R)[k] /\ rank[y] = k
            BY <1>7
        <2>2. x # y
            BY <1>10, <2>1
        <2>3. ~ (rank[y] < rank[x])
            BY <1>0, <1>10, <2>1
        <2>4. <<x, y>> \in R
            BY <1>3, <2>2, <2>3 DEF OrdersAll
        <2> QED
            BY <2>1, <2>2, <2>4
    <1> QED
        BY <1>0, <1>8, <1>9, <1>10

=============================================================================
