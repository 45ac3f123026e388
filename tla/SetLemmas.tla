------------------------------ MODULE SetLemmas ------------------------------
(***************************************************************************)
(* Facts that the proofs of the components share: sets of numbers, sums    *)
(* over sets of rows, lists of rows.  The induction principles take sets   *)
(* where one would write a predicate, and the sums take a function.        *)
(***************************************************************************)
EXTENDS Integers, FiniteSets, FiniteSetsExt, FiniteSetTheorems, WellFoundedInduction, TLAPS

\* A set of natural numbers has a least element.
LEMMA MinNat ==
  ASSUME NEW T, T \subseteq Nat, T # {}
  PROVE \E x \in T : \A y \in T : x <= y
<1> DEFINE R == OpToRel(<, Nat)
<1>1. IsWellFoundedOn(R, Nat)
  BY NatLessThanWellFounded
<1>2. \A x, y \in Nat : <<y, x>> \in R <=> y < x
  BY DEF OpToRel
<1> HIDE DEF R
<1>3. \E x \in T : \A y \in T : ~ (<<y, x>> \in R)
  BY <1>1, WFMin
<1>4. PICK x \in T : \A y \in T : ~ (<<y, x>> \in R)
  BY <1>3
<1>5. \A y \in T : ~(y < x)
  <2> TAKE y \in T
  <2>1. x \in Nat /\ y \in Nat
    OBVIOUS
  <2>2. <<y, x>> \in R <=> y < x
    BY <1>2, <2>1
  <2> QED BY <1>4, <2>2
<1>6. \A y \in T : x <= y
  <2> TAKE y \in T
  <2>1. x \in Nat /\ y \in Nat /\ ~(y < x)
    BY <1>5
  <2> QED BY <2>1
<1> QED BY <1>6

\* Min returns it.
LEMMA MinOf ==
  ASSUME NEW T, T \subseteq Nat, T # {}
  PROVE  Min(T) \in T /\ \A y \in T : Min(T) <= y
BY MinNat DEF Min

\* A bounded set of natural numbers has a maximum.
LEMMA MaxNat ==
  ASSUME NEW S, S \subseteq Nat, 0 \in S, NEW b \in Nat, \A x \in S : x <= b
  PROVE Max(S) \in S /\ \A x \in S : x <= Max(S)
<1> DEFINE T == {n \in Nat : \A x \in S : x <= n}
<1>1. PICK m \in T : \A n \in T : m <= n
  BY MinNat
<1>2. m \in S
  <2>1. CASE m = 0 BY <2>1
  <2>2. CASE m # 0
    <3>1. m - 1 \in Nat /\ ~(m <= m-1)
      BY <2>2
    <3>2. m - 1 \notin T
      BY <1>1, <3>1
    <3>3. PICK x \in S : ~(x <= m - 1)
      BY <3>1, <3>2
    <3>4. x = m BY <3>3, <1>1
    <3> QED BY <3>4
  <2> QED BY <2>1, <2>2
<1> QED BY <1>1, <1>2 DEF Max

\* Of one number more than there are rows, one is nobody's.
LEMMA FreeNumber ==
  ASSUME NEW P, IsFiniteSet(P), NEW f
  PROVE  \E n \in 1..(Cardinality(P) + 1) : \A p \in P : f[p] # n
<1> DEFINE N == 1..(Cardinality(P) + 1)
           owner == [n \in N |-> CHOOSE p \in P : f[p] = n]
<1>1. SUFFICES ASSUME \A n \in N : \E p \in P : f[p] = n PROVE FALSE
  OBVIOUS
<1>2. Cardinality(P) \in Nat
  BY FS_CardinalityType
<1>3. IsFiniteSet(N) /\ Cardinality(N) = Cardinality(P) + 1
  BY <1>2, FS_Interval
<1>4. \A n \in N : owner[n] \in P /\ f[owner[n]] = n
  BY <1>1
<1>5. owner \in [N -> P]
  BY <1>4
<1> HIDE DEF N, owner
<1>6. \E m, n \in N : m # n /\ owner[m] = owner[n]
  BY <1>2, <1>3, <1>5, FS_PigeonHole
<1> QED BY <1>4, <1>6

-----------------------------------------------------------------------------
(* Induction, with the property given as the set of what has it.           *)

\* What 0 is in, and with every number the next, holds every number.
LEMMA NatSet ==
  ASSUME NEW P, 0 \in P, \A n \in Nat : n \in P => n + 1 \in P
  PROVE  Nat \subseteq P
<1>1. SUFFICES ASSUME Nat \ P # {} PROVE FALSE
  OBVIOUS
<1>2. PICK n \in Nat \ P : \A m \in Nat \ P : n <= m
  BY <1>1, MinNat
<1>3. n - 1 \in Nat /\ ~(n <= n - 1)
  BY <1>2
<1>4. n - 1 \in P
  BY <1>2, <1>3
<1> QED BY <1>2, <1>3, <1>4

\* What has the empty set, and with every set of elements one more, has them all.
LEMMA SubsetInduction ==
  ASSUME NEW S, IsFiniteSet(S), NEW P, {} \in P,
         \A T \in SUBSET S : T \in P => \A x \in S \ T : T \cup {x} \in P
  PROVE  S \in P
<1> DEFINE sizes == {Cardinality(T) : T \in (SUBSET S) \ P}
<1>1. SUFFICES ASSUME S \notin P PROVE FALSE
  OBVIOUS
<1>2. \A T \in SUBSET S : IsFiniteSet(T) /\ Cardinality(T) \in Nat
  BY FS_Subset, FS_CardinalityType
<1>3. sizes \subseteq Nat /\ sizes # {}
  BY <1>1, <1>2
<1>4. PICK n \in sizes : \A m \in sizes : n <= m
  BY <1>3, MinNat
<1>5. PICK T \in (SUBSET S) \ P : n = Cardinality(T)
  BY <1>4
<1>6. PICK x \in T : TRUE
  BY <1>5
<1>7. Cardinality(T \ {x}) = n - 1 /\ n \in Nat
  BY <1>2, <1>3, <1>5, FS_RemoveElement
<1>8. ~(n <= Cardinality(T \ {x}))
  BY <1>7
<1>9. T \ {x} \in P
  BY <1>4, <1>5, <1>8
<1>10. (T \ {x}) \cup {x} = T
  OBVIOUS
<1> QED BY <1>5, <1>9, <1>10

\* The images of finitely many elements are finitely many.
LEMMA ImageFinite ==
  ASSUME NEW S, IsFiniteSet(S), NEW m
  PROVE  IsFiniteSet({m[x] : x \in S})
<1> DEFINE image(T) == {m[x] : x \in T}
           P        == {T \in SUBSET S : IsFiniteSet(image(T))}
<1>1. {} \in P
  <2>1. image({}) = {}
    OBVIOUS
  <2> QED BY <2>1, FS_EmptySet
<1>2. ASSUME NEW T \in SUBSET S, T \in P, NEW x \in S \ T PROVE T \cup {x} \in P
  <2>1. image(T \cup {x}) = image(T) \cup {m[x]}
    OBVIOUS
  <2>2. IsFiniteSet(image(T)) /\ T \cup {x} \in SUBSET S
    BY <1>2
  <2>3. IsFiniteSet(image(T) \cup {m[x]})
    <3> HIDE DEF image
    <3> QED BY <2>2, FS_AddElement
  <2>4. IsFiniteSet(image(T \cup {x}))
    BY <2>1, <2>3
  <2> QED BY <2>2, <2>4
<1> HIDE DEF P
<1>3. S \in P
  BY <1>1, <1>2, SubsetInduction
<1> QED BY <1>3 DEF P

\* A product grows with its factors.
LEMMA ProductGrows ==
  ASSUME NEW n \in Nat, NEW a \in Nat, NEW b \in Nat, a <= b
  PROVE  n * a <= n * b
<1>1. b - a \in Nat /\ n * b = n * a + n * (b - a)
  OBVIOUS
<1>2. n * a \in Nat /\ n * (b - a) \in Nat
  BY <1>1
<1> QED BY <1>1, <1>2

-----------------------------------------------------------------------------
(* Sums of f[x] over the elements x of a finite set.                       *)

Pick(s) == CHOOSE x \in s : TRUE

\* g maps each subset of S to its sum, taking one element after the other.
IsSum(g, f, S) == g = [s \in SUBSET S |-> IF s = {} THEN 0 ELSE f[Pick(s)] + g[s \ {Pick(s)}]]

SumOf(f, S) == LET g == CHOOSE h : IsSum(h, f, S) IN g[S]

LEMMA PickIn == ASSUME NEW s, s # {} PROVE Pick(s) \in s
BY DEF Pick

\* There is such a function.
LEMMA SumExists ==
  ASSUME NEW S, IsFiniteSet(S), NEW V, V \in {Nat, Int}, NEW f, \A x \in S : f[x] \in V
  PROVE  \E g \in [SUBSET S -> V] : IsSum(g, f, S)
<1> DEFINE Next(g) == [s \in SUBSET S |-> IF s = {} THEN 0 ELSE f[Pick(s)] + g[s \ {Pick(s)}]]
           upTo    == {n \in Nat : \E g \in [SUBSET S -> V] :
                        \A s \in SUBSET S : Cardinality(s) <= n => g[s] = Next(g)[s]}
<1>1. /\ 0 \in V /\ \A a, b \in V : a + b \in V
  OBVIOUS
<1>2. \A g \in [SUBSET S -> V] : Next(g) \in [SUBSET S -> V]
  <2> TAKE g \in [SUBSET S -> V]
  <2>1. \A s \in SUBSET S : s # {} => f[Pick(s)] \in V /\ g[s \ {Pick(s)}] \in V
    BY PickIn
  <2> QED BY <1>1, <2>1
<1>3. \A s \in SUBSET S : IsFiniteSet(s) /\ Cardinality(s) \in Nat
  BY FS_Subset, FS_CardinalityType
<1>4. 0 \in upTo
  <2> DEFINE g == [s \in SUBSET S |-> 0]
  <2>1. g \in [SUBSET S -> V]
    BY <1>1
  <2>2. \A s \in SUBSET S : Cardinality(s) <= 0 => s = {}
    BY <1>3, FS_EmptySet
  <2>3. g[{}] = Next(g)[{}]
    OBVIOUS
  <2> HIDE DEF g, Next
  <2> QED BY <2>1, <2>2, <2>3
<1>5. \A n \in Nat : n \in upTo => n + 1 \in upTo
  <2> TAKE n \in Nat
  <2> HAVE n \in upTo
  <2>1. PICK g \in [SUBSET S -> V] : \A s \in SUBSET S : Cardinality(s) <= n => g[s] = Next(g)[s]
    OBVIOUS
  <2>2. Next(g) \in [SUBSET S -> V]
    BY <1>2
  <2>3. ASSUME NEW s \in SUBSET S, Cardinality(s) <= n + 1
        PROVE  Next(g)[s] = Next(Next(g))[s]
    <3>1. CASE s = {}
      BY <3>1
    <3>2. CASE s # {}
      <4>1. Pick(s) \in s /\ s \ {Pick(s)} \in SUBSET S
        BY <3>2, PickIn
      <4>2. Cardinality(s \ {Pick(s)}) = Cardinality(s) - 1
        BY <1>3, <4>1, FS_RemoveElement
      <4>3. Cardinality(s \ {Pick(s)}) <= n
        BY <1>3, <2>3, <4>1, <4>2
      <4>4. g[s \ {Pick(s)}] = Next(g)[s \ {Pick(s)}]
        BY <2>1, <4>1, <4>3
      <4>5. \A h : Next(h)[s] = f[Pick(s)] + h[s \ {Pick(s)}]
        BY <3>2
      <4> HIDE DEF Next
      <4> QED BY <4>4, <4>5
    <3> QED BY <3>1, <3>2
  <2> HIDE DEF Next
  <2> QED BY <2>2, <2>3
<1>6. PICK g \in [SUBSET S -> V] :
        \A s \in SUBSET S : Cardinality(s) <= Cardinality(S) => g[s] = Next(g)[s]
  <2>1. Cardinality(S) \in upTo
    <3> HIDE DEF upTo
    <3> QED BY <1>3, <1>4, <1>5, NatSet
  <2> HIDE DEF Next
  <2> QED BY <2>1
<1>7. \A s \in SUBSET S : Cardinality(s) <= Cardinality(S)
  BY FS_Subset
<1>8. g = Next(g)
  <2>1. \A s \in SUBSET S : g[s] = Next(g)[s]
    BY <1>6, <1>7
  <2>2. Next(g) \in [SUBSET S -> V]
    BY <1>2
  <2> HIDE DEF Next
  <2> QED BY <2>1, <2>2
<1> QED BY <1>8 DEF IsSum

\* Two such functions agree where both are defined.
LEMMA SumUnique ==
  ASSUME NEW S, IsFiniteSet(S), NEW T \in SUBSET S, NEW f, NEW g, NEW h,
         IsSum(g, f, S), IsSum(h, f, T)
  PROVE  g[T] = h[T]
<1> DEFINE sizes == {Cardinality(s) : s \in {u \in SUBSET T : g[u] # h[u]}}
<1>1. SUFFICES ASSUME g[T] # h[T] PROVE FALSE
  OBVIOUS
<1>2. \A s \in SUBSET T : IsFiniteSet(s) /\ Cardinality(s) \in Nat
  BY FS_Subset, FS_CardinalityType
<1>3. sizes \subseteq Nat /\ sizes # {}
  BY <1>1, <1>2
<1>4. PICK n \in sizes : \A m \in sizes : n <= m
  BY <1>3, MinNat
<1>5. PICK s \in SUBSET T : g[s] # h[s] /\ n = Cardinality(s)
  BY <1>4
<1>6. /\ g[s] = IF s = {} THEN 0 ELSE f[Pick(s)] + g[s \ {Pick(s)}]
      /\ h[s] = IF s = {} THEN 0 ELSE f[Pick(s)] + h[s \ {Pick(s)}]
  BY DEF IsSum
<1>7. Pick(s) \in s /\ g[s \ {Pick(s)}] # h[s \ {Pick(s)}]
  BY <1>5, <1>6, PickIn
<1>8. Cardinality(s \ {Pick(s)}) = n - 1 /\ n \in Nat
  BY <1>2, <1>5, <1>7, FS_RemoveElement
<1>9. n <= Cardinality(s \ {Pick(s)})
  BY <1>4, <1>7
<1> QED BY <1>8, <1>9

\* SumOf is what such a function gives.
LEMMA SumIs ==
  ASSUME NEW S, IsFiniteSet(S), NEW T \in SUBSET S, NEW f, NEW g, IsSum(g, f, S),
         \A x \in S : f[x] \in Int
  PROVE  g[T] = SumOf(f, T)
<1>1. IsFiniteSet(T)
  BY FS_Subset
<1>2. \E h : IsSum(h, f, T)
  BY <1>1, SumExists
<1>3. PICK h : h = CHOOSE k : IsSum(k, f, T)
  OBVIOUS
<1>4. IsSum(h, f, T)
  BY <1>2, <1>3
<1>5. SumOf(f, T) = h[T]
  BY <1>3 DEF SumOf
<1> QED BY <1>4, <1>5, SumUnique

LEMMA SumEmpty == ASSUME NEW f PROVE SumOf(f, {}) = 0
<1>1. PICK g : IsSum(g, f, {})
  BY FS_EmptySet, SumExists
<1>2. SumOf(f, {}) = g[{}]
  BY <1>1, FS_EmptySet, SumIs
<1> QED BY <1>1, <1>2 DEF IsSum

LEMMA SumType ==
  ASSUME NEW S, IsFiniteSet(S), NEW V, V \in {Nat, Int}, NEW f, \A x \in S : f[x] \in V
  PROVE  SumOf(f, S) \in V
<1>1. PICK g \in [SUBSET S -> V] : IsSum(g, f, S)
  BY SumExists
<1>2. \A x \in S : f[x] \in Int
  OBVIOUS
<1>3. g[S] = SumOf(f, S)
  BY <1>1, <1>2, SumIs
<1> QED BY <1>1, <1>3

\* The order of the elements does not matter: any of them can be taken first.
LEMMA SumRemove ==
  ASSUME NEW S, IsFiniteSet(S), NEW f, \A y \in S : f[y] \in Int, NEW x \in S
  PROVE  SumOf(f, S) = f[x] + SumOf(f, S \ {x})
<1>1. PICK g \in [SUBSET S -> Int] : IsSum(g, f, S)
  BY SumExists
<1>2. \A s \in SUBSET S : IsFiniteSet(s) /\ Cardinality(s) \in Nat
  BY FS_Subset, FS_CardinalityType
<1> DEFINE wrong == {s \in SUBSET S : \E y \in s : g[s] # f[y] + g[s \ {y}]}
           sizes == {Cardinality(s) : s \in wrong}
<1>3. wrong = {}
  <2>1. SUFFICES ASSUME wrong # {} PROVE FALSE
    OBVIOUS
  <2>2. sizes \subseteq Nat /\ sizes # {}
    BY <1>2, <2>1
  <2>3. PICK n \in sizes : \A m \in sizes : n <= m
    BY <2>2, MinNat
  <2>4. PICK s \in wrong : n = Cardinality(s)
    BY <2>3
  <2>5. PICK y \in s : g[s] # f[y] + g[s \ {y}]
    BY <2>4
  <2> DEFINE c == Pick(s)
  <2>6. c \in s /\ s \in SUBSET S
    BY <2>4, <2>5, PickIn
  <2>7. g[s] = f[c] + g[s \ {c}]
    BY <1>1, <2>6 DEF IsSum
  <2> HIDE DEF c
  <2>8. c # y
    BY <2>5, <2>7
  <2>9. \A z \in s : s \ {z} \notin wrong
    <3> TAKE z \in s
    <3>1. Cardinality(s \ {z}) = n - 1 /\ n \in Nat
      BY <1>2, <2>4, <2>6, FS_RemoveElement
    <3> HIDE DEF wrong
    <3>2. s \ {z} \in wrong => Cardinality(s \ {z}) \in sizes
      OBVIOUS
    <3> HIDE DEF sizes
    <3>3. s \ {z} \in wrong => n <= n - 1
      BY <2>3, <3>1, <3>2
    <3> QED BY <3>1, <3>3
  <2>10. g[s \ {c}] = f[y] + g[(s \ {c}) \ {y}]
    BY <2>6, <2>8, <2>9
  <2>11. g[s \ {y}] = f[c] + g[(s \ {y}) \ {c}]
    BY <2>6, <2>8, <2>9
  <2>12. (s \ {y}) \ {c} = (s \ {c}) \ {y}
    OBVIOUS
  <2>13. f[c] \in Int /\ f[y] \in Int /\ g[(s \ {c}) \ {y}] \in Int
    BY <1>1, <2>6
  <2>14. PICK rest \in Int : rest = g[(s \ {c}) \ {y}]
    BY <2>13
  <2>15. g[s] = f[c] + (f[y] + rest) /\ g[s \ {y}] = f[c] + rest
    BY <2>7, <2>10, <2>11, <2>12, <2>14
  <2> QED BY <2>5, <2>13, <2>15
<1>4. g[S] = f[x] + g[S \ {x}]
  BY <1>3
<1>5. g[S] = SumOf(f, S)
  BY <1>1, SumIs
<1>6. g[S \ {x}] = SumOf(f, S \ {x})
  BY <1>1, SumIs
<1> QED BY <1>4, <1>5, <1>6

LEMMA SumAdd ==
  ASSUME NEW S, IsFiniteSet(S), NEW x, x \notin S, NEW f, \A y \in S \cup {x} : f[y] \in Int
  PROVE  SumOf(f, S \cup {x}) = SumOf(f, S) + f[x]
<1>1. IsFiniteSet(S \cup {x}) /\ (S \cup {x}) \ {x} = S
  BY FS_AddElement
<1>2. SumOf(f, S \cup {x}) = f[x] + SumOf(f, S)
  BY <1>1, SumRemove
<1>3. SumOf(f, S) \in Int
  BY SumType
<1> QED BY <1>2, <1>3

\* Only the summands matter.
LEMMA SumAgree ==
  ASSUME NEW S, IsFiniteSet(S), NEW f, NEW h, \A x \in S : f[x] \in Int /\ h[x] = f[x]
  PROVE  SumOf(f, S) = SumOf(h, S)
<1>1. \A s \in SUBSET S : s # {} => f[Pick(s)] = h[Pick(s)]
  BY PickIn
<1>2. PICK g : IsSum(g, f, S)
  BY SumExists
<1>3. IsSum(g, h, S)
  BY <1>1, <1>2 DEF IsSum
<1>4. SumOf(f, S) = g[S]
  BY <1>2, SumIs
<1>5. SumOf(h, S) = g[S]
  BY <1>3, SumIs
<1> QED BY <1>4, <1>5

\* A sum splits over two disjoint sets.
LEMMA SumUnion ==
  ASSUME NEW A, NEW B, IsFiniteSet(A), IsFiniteSet(B), A \cap B = {},
         NEW f, \A x \in A \cup B : f[x] \in Int
  PROVE  SumOf(f, A \cup B) = SumOf(f, A) + SumOf(f, B)
<1> DEFINE P == {T \in SUBSET B : SumOf(f, A \cup T) = SumOf(f, A) + SumOf(f, T)}
<1>1. SumOf(f, A) \in Int
  BY SumType
<1>2. {} \in P
  BY <1>1, SumEmpty
<1>3. ASSUME NEW T \in SUBSET B, T \in P, NEW x \in B \ T PROVE T \cup {x} \in P
  <2>1. IsFiniteSet(T) /\ IsFiniteSet(A \cup T)
    BY FS_Subset, FS_Union
  <2>2. SumOf(f, T \cup {x}) = SumOf(f, T) + f[x]
    BY <1>3, <2>1, SumAdd
  <2>3. x \notin A \cup T /\ (A \cup T) \cup {x} = A \cup (T \cup {x})
    BY <1>3
  <2>4. SumOf(f, (A \cup T) \cup {x}) = SumOf(f, A \cup T) + f[x]
    BY <2>1, <2>3, SumAdd
  <2>5. SumOf(f, T) \in Int /\ f[x] \in Int
    BY <2>1, SumType
  <2>6. SumOf(f, A \cup T) = SumOf(f, A) + SumOf(f, T)
    BY <1>3
  <2> HIDE DEF P
  <2>7. SumOf(f, A \cup (T \cup {x})) = SumOf(f, A) + SumOf(f, T \cup {x})
    <3>1. SumOf(f, A \cup (T \cup {x})) = SumOf(f, A \cup T) + f[x]
      <4>1. PICK U : U = A \cup (T \cup {x})
        OBVIOUS
      <4>2. U = (A \cup T) \cup {x}
        BY <2>3, <4>1
      <4> QED BY <2>4, <4>1, <4>2
    <3>2. PICK a \in Int, t \in Int, y \in Int : a = SumOf(f, A) /\ t = SumOf(f, T) /\ y = f[x]
      BY <1>1, <2>5
    <3> QED BY <2>2, <2>6, <3>1, <3>2
  <2> QED BY <2>7 DEF P
<1> HIDE DEF P
<1>4. B \in P
  BY <1>2, <1>3, SubsetInduction
<1> QED BY <1>4 DEF P

\* A sum of sums adds up the summands.
LEMMA SumPlus ==
  ASSUME NEW S, IsFiniteSet(S), NEW f, NEW g, NEW h,
         \A x \in S : f[x] \in Int /\ g[x] \in Int /\ h[x] = f[x] + g[x]
  PROVE  SumOf(h, S) = SumOf(f, S) + SumOf(g, S)
<1> DEFINE P == {T \in SUBSET S : SumOf(h, T) = SumOf(f, T) + SumOf(g, T)}
<1>1. {} \in P
  BY SumEmpty
<1>2. ASSUME NEW T \in SUBSET S, T \in P, NEW x \in S \ T PROVE T \cup {x} \in P
  <2>1. IsFiniteSet(T) /\ x \notin T
    BY FS_Subset
  <2>2. \A y \in T \cup {x} : f[y] \in Int /\ g[y] \in Int /\ h[y] \in Int
    OBVIOUS
  <2>3. SumOf(f, T \cup {x}) = SumOf(f, T) + f[x]
    BY <2>1, <2>2, SumAdd
  <2>4. SumOf(g, T \cup {x}) = SumOf(g, T) + g[x]
    BY <2>1, <2>2, SumAdd
  <2>5. SumOf(h, T \cup {x}) = SumOf(h, T) + h[x]
    BY <2>1, <2>2, SumAdd
  <2>6. SumOf(f, T) \in Int /\ SumOf(g, T) \in Int
    BY <2>1, <2>2, SumType
  <2>7. SumOf(h, T) = SumOf(f, T) + SumOf(g, T) /\ h[x] = f[x] + g[x]
    BY <1>2
  <2> QED BY <2>2, <2>3, <2>4, <2>5, <2>6, <2>7
<1> HIDE DEF P
<1>3. S \in P
  BY <1>1, <1>2, SubsetInduction
<1> QED BY <1>3 DEF P

\* Renaming the elements one by one keeps the sum.
LEMMA SumRename ==
  ASSUME NEW S, IsFiniteSet(S), NEW f, NEW g, NEW m,
         \A x, y \in S : m[x] = m[y] => x = y,
         \A x \in S : f[x] \in Int /\ g[m[x]] = f[x]
  PROVE  SumOf(g, {m[x] : x \in S}) = SumOf(f, S)
<1> DEFINE image(T) == {m[x] : x \in T}
           P        == {T \in SUBSET S : IsFiniteSet(image(T)) /\ SumOf(g, image(T)) = SumOf(f, T)}
<1>1. {} \in P
  <2>1. image({}) = {}
    OBVIOUS
  <2> QED BY <2>1, SumEmpty, FS_EmptySet
<1>2. ASSUME NEW T \in SUBSET S, T \in P, NEW x \in S \ T PROVE T \cup {x} \in P
  <2>1. IsFiniteSet(T) /\ x \notin T /\ IsFiniteSet(image(T))
    BY <1>2, FS_Subset
  <2>2. image(T \cup {x}) = image(T) \cup {m[x]} /\ m[x] \notin image(T)
    OBVIOUS
  <2>3. \A z \in image(T) \cup {m[x]} : g[z] \in Int
    OBVIOUS
  <2>4. \A y \in T \cup {x} : f[y] \in Int
    OBVIOUS
  <2>5. SumOf(g, image(T)) = SumOf(f, T) /\ g[m[x]] = f[x]
    BY <1>2
  <2> HIDE DEF image
  <2>6. SumOf(g, image(T) \cup {m[x]}) = SumOf(g, image(T)) + g[m[x]]
    <3>1. PICK I, y : I = image(T) /\ y = m[x]
      OBVIOUS
    <3>2. IsFiniteSet(I) /\ y \notin I /\ \A z \in I \cup {y} : g[z] \in Int
      BY <2>1, <2>2, <2>3, <3>1
    <3>3. SumOf(g, I \cup {y}) = SumOf(g, I) + g[y]
      BY <3>2, SumAdd
    <3> QED BY <3>1, <3>3
  <2>7. SumOf(f, T \cup {x}) = SumOf(f, T) + f[x]
    BY <2>1, <2>4, SumAdd
  <2>8. IsFiniteSet(image(T) \cup {m[x]})
    BY <2>1, FS_AddElement
  <2> QED BY <2>2, <2>5, <2>6, <2>7, <2>8
<1> HIDE DEF P
<1>3. S \in P
  BY <1>1, <1>2, SubsetInduction
<1> QED BY <1>3 DEF P

\* A sum is at most the number of elements times a bound on the summands.
LEMMA SumBound ==
  ASSUME NEW S, IsFiniteSet(S), NEW f, NEW b \in Int, \A x \in S : f[x] \in Int /\ f[x] <= b
  PROVE  SumOf(f, S) <= Cardinality(S) * b
<1> DEFINE P == {T \in SUBSET S : SumOf(f, T) <= Cardinality(T) * b}
<1>1. {} \in P
  BY SumEmpty, FS_EmptySet
<1>2. ASSUME NEW T \in SUBSET S, T \in P, NEW x \in S \ T PROVE T \cup {x} \in P
  <2>1. IsFiniteSet(T) /\ x \notin T /\ Cardinality(T) \in Nat
    BY FS_Subset, FS_CardinalityType
  <2>2. Cardinality(T \cup {x}) = Cardinality(T) + 1
    BY <2>1, FS_AddElement
  <2>3. SumOf(f, T \cup {x}) = SumOf(f, T) + f[x]
    BY <2>1, SumAdd
  <2>4. SumOf(f, T) \in Int /\ f[x] \in Int /\ f[x] <= b
    BY <2>1, SumType
  <2>5. (Cardinality(T) + 1) * b = Cardinality(T) * b + b
    BY <2>1
  <2>6. SumOf(f, T) <= Cardinality(T) * b
    BY <1>2
  <2>7. PICK p \in Int : p = Cardinality(T) * b
    BY <2>1
  <2> QED BY <2>2, <2>3, <2>4, <2>5, <2>6, <2>7
<1> HIDE DEF P
<1>3. S \in P
  BY <1>1, <1>2, SubsetInduction
<1> QED BY <1>3 DEF P


\* Smaller summands make a smaller sum.
LEMMA SumAtMost ==
  ASSUME NEW S, IsFiniteSet(S), NEW f, NEW h,
         \A x \in S : f[x] \in Int /\ h[x] \in Int /\ f[x] <= h[x]
  PROVE  SumOf(f, S) <= SumOf(h, S)
<1> DEFINE P == {T \in SUBSET S : SumOf(f, T) <= SumOf(h, T)}
<1>1. {} \in P
  BY SumEmpty
<1>2. ASSUME NEW T \in SUBSET S, T \in P, NEW x \in S \ T PROVE T \cup {x} \in P
  <2>1. IsFiniteSet(T) /\ x \notin T
    BY FS_Subset
  <2>2. \A y \in T \cup {x} : f[y] \in Int /\ h[y] \in Int
    OBVIOUS
  <2>3. SumOf(f, T \cup {x}) = SumOf(f, T) + f[x]
    BY <2>1, <2>2, SumAdd
  <2>4. SumOf(h, T \cup {x}) = SumOf(h, T) + h[x]
    BY <2>1, <2>2, SumAdd
  <2>5. SumOf(f, T) \in Int /\ SumOf(h, T) \in Int
    BY <2>1, <2>2, SumType
  <2>6. SumOf(f, T) <= SumOf(h, T) /\ f[x] <= h[x]
    BY <1>2
  <2> QED BY <2>2, <2>3, <2>4, <2>5, <2>6
<1> HIDE DEF P
<1>3. S \in P
  BY <1>1, <1>2, SubsetInduction
<1> QED BY <1>3 DEF P

\* Fewer natural numbers have a smaller sum.
LEMMA SumSubset ==
  ASSUME NEW S, IsFiniteSet(S), NEW T \in SUBSET S, NEW f, \A x \in S : f[x] \in Nat
  PROVE  SumOf(f, T) <= SumOf(f, S)
<1>1. IsFiniteSet(T) /\ IsFiniteSet(S \ T) /\ T \cap (S \ T) = {} /\ T \cup (S \ T) = S
  BY FS_Subset
<1>2. \A x \in T \cup (S \ T) : f[x] \in Int
  OBVIOUS
<1>3. SumOf(f, T \cup (S \ T)) = SumOf(f, T) + SumOf(f, S \ T)
  BY <1>1, <1>2, SumUnion
<1>4. SumOf(f, T) \in Nat
  BY <1>1, SumType
<1>5. SumOf(f, S \ T) \in Nat
  BY <1>1, SumType
<1>6. SumOf(f, S) = SumOf(f, T) + SumOf(f, S \ T)
  BY <1>1, <1>3
<1> QED BY <1>4, <1>5, <1>6


\* A sum of differences is the difference of the sums.
LEMMA SumMinus ==
  ASSUME NEW S, IsFiniteSet(S), NEW f, NEW g, NEW h,
         \A x \in S : f[x] \in Int /\ g[x] \in Int /\ h[x] = f[x] - g[x]
  PROVE  SumOf(h, S) = SumOf(f, S) - SumOf(g, S)
<1>1. \A x \in S : h[x] \in Int /\ g[x] \in Int /\ f[x] = h[x] + g[x]
  OBVIOUS
<1>2. SumOf(f, S) = SumOf(h, S) + SumOf(g, S)
  BY <1>1, SumPlus
<1>3. SumOf(h, S) \in Int
  BY <1>1, SumType
<1>4. SumOf(g, S) \in Int
  BY <1>1, SumType
<1> QED BY <1>2, <1>3, <1>4

\* The sums over sets that are apart add up to the sum over their union.
LEMMA SumPartition ==
  ASSUME NEW S, IsFiniteSet(S), NEW f, \A x \in S : f[x] \in Int,
         NEW J, IsFiniteSet(J), NEW part, NEW g,
         \A j \in J : part[j] \in SUBSET S /\ g[j] = SumOf(f, part[j]),
         \A j, k \in J : j # k => part[j] \cap part[k] = {}
  PROVE  SumOf(g, J) = SumOf(f, UNION {part[j] : j \in J})
<1> DEFINE all(Q) == UNION {part[j] : j \in Q}
           P      == {Q \in SUBSET J : SumOf(g, Q) = SumOf(f, all(Q))}
<1>1. \A T \in SUBSET S : IsFiniteSet(T) /\ \A x \in T : f[x] \in Int
  BY FS_Subset
<1>2. \A T \in SUBSET S : SumOf(f, T) \in Int
  BY <1>1, SumType
<1>3. {} \in P
  <2>1. all({}) = {}
    OBVIOUS
  <2> QED BY <2>1, SumEmpty
<1>4. ASSUME NEW Q \in SUBSET J, Q \in P, NEW j \in J \ Q PROVE Q \cup {j} \in P
  <2>1. all(Q \cup {j}) = all(Q) \cup part[j]
    OBVIOUS
  <2>2. all(Q) \cap part[j] = {} /\ all(Q) \in SUBSET S /\ part[j] \in SUBSET S
    OBVIOUS
  <2>3. SumOf(g, Q) = SumOf(f, all(Q)) /\ g[j] = SumOf(f, part[j])
    BY <1>4
  <2>4. IsFiniteSet(Q) /\ j \notin Q /\ \A k \in Q \cup {j} : g[k] \in Int
    BY <1>2, FS_Subset
  <2> HIDE DEF all
  <2>5. SumOf(f, all(Q) \cup part[j]) = SumOf(f, all(Q)) + SumOf(f, part[j])
    <3>1. /\ IsFiniteSet(all(Q)) /\ IsFiniteSet(part[j])
          /\ \A x \in all(Q) \cup part[j] : f[x] \in Int
      BY <1>1, <2>2
    <3> QED BY <2>2, <3>1, SumUnion
  <2>6. SumOf(g, Q \cup {j}) = SumOf(g, Q) + g[j]
    BY <2>4, SumAdd
  <2>7. SumOf(g, Q \cup {j}) = SumOf(f, all(Q \cup {j}))
    BY <2>1, <2>3, <2>5, <2>6
  <2> QED BY <2>7
<1> HIDE DEF P, all
<1>5. J \in P
  BY <1>3, <1>4, SubsetInduction
<1> QED BY <1>5 DEF P, all


\* Nothing but zeros.
LEMMA SumZero ==
  ASSUME NEW S, IsFiniteSet(S), NEW f, \A x \in S : f[x] = 0
  PROVE  SumOf(f, S) = 0
<1> DEFINE P == {T \in SUBSET S : SumOf(f, T) = 0}
<1>1. {} \in P
  BY SumEmpty
<1>2. ASSUME NEW T \in SUBSET S, T \in P, NEW x \in S \ T PROVE T \cup {x} \in P
  <2>1. IsFiniteSet(T) /\ x \notin T /\ \A y \in T \cup {x} : f[y] \in Int
    BY FS_Subset
  <2>2. SumOf(f, T \cup {x}) = SumOf(f, T) + f[x]
    BY <2>1, SumAdd
  <2> QED BY <1>2, <2>2
<1> HIDE DEF P
<1>3. S \in P
  BY <1>1, <1>2, SubsetInduction
<1> QED BY <1>3 DEF P

\* What is zero outside T sums over T.
LEMMA SumFilter ==
  ASSUME NEW S, IsFiniteSet(S), NEW T \in SUBSET S, NEW f, NEW g,
         \A x \in T : f[x] \in Int /\ g[x] = f[x], \A x \in S \ T : g[x] = 0
  PROVE  SumOf(g, S) = SumOf(f, T)
<1>1. /\ IsFiniteSet(T) /\ IsFiniteSet(S \ T) /\ T \cap (S \ T) = {} /\ T \cup (S \ T) = S
      /\ \A x \in T \cup (S \ T) : g[x] \in Int
  BY FS_Subset
<1>2. SumOf(g, T \cup (S \ T)) = SumOf(g, T) + SumOf(g, S \ T)
  BY <1>1, SumUnion
<1>3. SumOf(f, T) = SumOf(g, T)
  BY <1>1, SumAgree
<1>4. SumOf(g, S \ T) = 0
  BY <1>1, SumZero
<1>5. SumOf(f, T) \in Int
  BY <1>1, SumType
<1>6. SumOf(g, S) = SumOf(g, T) + SumOf(g, S \ T)
  BY <1>1, <1>2
<1> QED BY <1>3, <1>4, <1>5, <1>6

-----------------------------------------------------------------------------
(* Finite sets in an order, given as the set of its pairs.                 *)

\* A finite set with a strict total order can be listed in that order.
LEMMA Sorted ==
  ASSUME NEW S, IsFiniteSet(S), NEW R,
         \A x \in S : <<x, x>> \notin R,
         \A x, y, z \in S : <<x, y>> \in R /\ <<y, z>> \in R => <<x, z>> \in R,
         \A x, y \in S : x # y => <<x, y>> \in R \/ <<y, x>> \in R
  PROVE  \E list \in [1..Cardinality(S) -> S] :
           \A i, j \in 1..Cardinality(S) : i < j => <<list[i], list[j]>> \in R
<1> DEFINE n       == Cardinality(S)
           before  == [x \in S |-> {y \in S : <<y, x>> \in R}]
           rank    == [x \in S |-> Cardinality(before[x]) + 1]
           list    == [i \in 1..n |-> CHOOSE x \in S : rank[x] = i]
<1>1. n \in Nat /\ IsFiniteSet(1..n) /\ Cardinality(1..n) = n
  BY FS_CardinalityType, FS_Interval
<1>2. \A x \in S : /\ before[x] \in SUBSET S /\ IsFiniteSet(before[x])
                   /\ Cardinality(before[x]) \in Nat /\ Cardinality(before[x]) <= n
                   /\ x \notin before[x]
  BY FS_Subset, FS_CardinalityType
<1>3. \A x \in S : rank[x] \in 1..n
  <2> TAKE x \in S
  <2>1. before[x] # S
    BY <1>2
  <2>2. Cardinality(before[x]) # n
    BY <1>2, <2>1, FS_Subset
  <2> HIDE DEF before
  <2>3. rank[x] = Cardinality(before[x]) + 1
    OBVIOUS
  <2> HIDE DEF rank, n
  <2> QED BY <1>1, <1>2, <2>2, <2>3
<1>4. \A x, y \in S : <<x, y>> \in R => rank[x] < rank[y]
  <2> SUFFICES ASSUME NEW x \in S, NEW y \in S, <<x, y>> \in R PROVE rank[x] < rank[y]
    OBVIOUS
  <2>1. before[x] \subseteq before[y] /\ x \in before[y] /\ x \notin before[x]
    OBVIOUS
  <2>2. before[x] # before[y]
    BY <2>1
  <2> HIDE DEF before
  <2>3. /\ Cardinality(before[x]) <= Cardinality(before[y])
        /\ Cardinality(before[x]) # Cardinality(before[y])
    BY <1>2, <2>1, <2>2, FS_Subset
  <2>4. rank[x] = Cardinality(before[x]) + 1 /\ rank[y] = Cardinality(before[y]) + 1
    OBVIOUS
  <2> HIDE DEF rank
  <2> QED BY <1>2, <2>3, <2>4
<1> HIDE DEF before
<1>5. rank \in [S -> 1..n]
  BY <1>3
<1> HIDE DEF rank
<1>6. \A x, y \in S : rank[x] = rank[y] => x = y
  <2> SUFFICES ASSUME NEW x \in S, NEW y \in S, rank[x] = rank[y], x # y PROVE FALSE
    OBVIOUS
  <2>1. rank[x] < rank[y] \/ rank[y] < rank[x]
    BY <1>4
  <2>2. rank[x] \in Int
    BY <1>1, <1>3
  <2> QED BY <2>1, <2>2
<1>7. \A i \in 1..n : \E x \in S : rank[x] = i
  <2>1. rank \in Injection(S, 1..n)
    BY <1>5, <1>6 DEF Injection, IsInjective
  <2>2. rank \in Surjection(S, 1..n)
    BY <1>1, <2>1, FS_Injection
  <2> QED BY <2>2 DEF Surjection
<1>8. \A i \in 1..n : list[i] \in S /\ rank[list[i]] = i
  BY <1>7
<1>9. list \in [1..n -> S]
  BY <1>8
<1> HIDE DEF list
<1>10. ASSUME NEW i \in 1..n, NEW j \in 1..n, i < j PROVE <<list[i], list[j]>> \in R
  <2>1. list[i] \in S /\ list[j] \in S /\ rank[list[i]] = i /\ rank[list[j]] = j
    BY <1>8
  <2>2. list[i] # list[j]
    BY <1>1, <1>10, <2>1
  <2>3. CASE <<list[j], list[i]>> \in R
    <3>1. j < i
      BY <1>4, <2>1, <2>3
    <3> QED BY <1>1, <1>10, <3>1
  <2> QED BY <2>1, <2>2, <2>3
<1> QED BY <1>9, <1>10 DEF n

\* A list as long as the set and without repetitions has every element.
LEMMA ListedAll ==
  ASSUME NEW S, IsFiniteSet(S), NEW list \in [1..Cardinality(S) -> S],
         \A i, j \in 1..Cardinality(S) : list[i] = list[j] => i = j
  PROVE  \A x \in S : \E i \in 1..Cardinality(S) : list[i] = x
<1> DEFINE n == Cardinality(S)
<1>1. n \in Nat /\ IsFiniteSet(1..n) /\ Cardinality(1..n) = n
  BY FS_CardinalityType, FS_Interval
<1>2. list \in Injection(1..n, S)
  BY DEF Injection, IsInjective
<1>3. list \in Surjection(1..n, S)
  BY <1>1, <1>2, FS_Injection
<1> QED BY <1>3 DEF Surjection
=============================================================================
