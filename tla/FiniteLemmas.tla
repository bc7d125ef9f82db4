--------------------------- MODULE FiniteLemmas ---------------------------
(***************************************************************************)
(* Least and greatest elements, and sums over finite sets, as the proofs   *)
(* of several modules need them.  There is no induction here: a set of     *)
(* counterexamples that is not empty would have a smallest one.            *)
(***************************************************************************)
EXTENDS Integers, Sequences, Functions, FiniteSetTheorems, SequenceTheorems,
        WellFoundedInduction, TLAPS

\* Of a set of subsets of a finite set, one includes no other.
LEMMA MinimalSet ==
    ASSUME NEW S, IsFiniteSet(S), NEW Bad \in SUBSET SUBSET S, Bad # {}
    PROVE  \E B \in Bad : \A C \in Bad : C \subseteq B => C = B
<1> DEFINE R == StrictSubsetOrdering(S)
<1>1. Bad \subseteq FiniteSubsetsOf(S)
  BY FS_Subset DEF FiniteSubsetsOf
<1>2. IsWellFoundedOn(R, FiniteSubsetsOf(S))
  BY FS_StrictSubsetOrderingWellFounded DEF R
<1> HIDE DEF R
<1>3. PICK B \in Bad : \A C \in Bad : <<C, B>> \notin R
  BY <1>1, <1>2, WFMin
<1>4. ASSUME NEW C \in Bad, C \subseteq B, C # B PROVE FALSE
  <2>1. <<C, B>> \in R
    BY <1>4, Zenon DEF R, StrictSubsetOrdering
  <2> QED
    BY <1>3, <2>1
<1> QED
  BY <1>4

\* A nonempty set of naturals has a least element: of the finite sets 0..i, for
\* its elements i, one is smallest under strict inclusion.
LEMMA LeastElement ==
    ASSUME NEW L \in SUBSET Nat, L # {}
    PROVE  \E i \in L : \A k \in L : i <= k
<1> DEFINE Prefixes == {0..i : i \in L}
           R == StrictSubsetOrdering(Nat)
<1>1. Prefixes # {} /\ Prefixes \subseteq FiniteSubsetsOf(Nat)
  <2>1. ASSUME NEW i \in L PROVE IsFiniteSet(0..i) /\ 0..i \subseteq Nat
    BY FS_Interval
  <2> QED
    BY <2>1 DEF FiniteSubsetsOf
<1> HIDE DEF Prefixes, R
<1>2. PICK P \in Prefixes : \A Q \in Prefixes : <<Q, P>> \notin R
  <2>1. IsWellFoundedOn(R, FiniteSubsetsOf(Nat))
    BY FS_StrictSubsetOrderingWellFounded DEF R
  <2> QED
    BY <1>1, <2>1, WFMin
<1>3. PICK i \in L : P = 0..i
  BY <1>2 DEF Prefixes
<1>4. SUFFICES ASSUME NEW k \in L, k < i PROVE FALSE
  BY <1>3
<1>5. 0..k \subseteq 0..i /\ i \in 0..i /\ i \notin 0..k
  BY <1>4
<1>6. 0..k \in SUBSET Nat /\ 0..i \in SUBSET Nat /\ 0..k # 0..i
  BY <1>5
<1>7. <<0..k, 0..i>> \in R
  BY <1>5, <1>6, Zenon DEF R, StrictSubsetOrdering
<1> QED
  BY <1>2, <1>3, <1>7, Zenon DEF Prefixes

\* A nonempty set of positions of a sequence has a greatest one.
LEMMA LastPosition ==
    ASSUME NEW n \in Nat, NEW L \in SUBSET (1..n), L # {}
    PROVE  \E i \in L : \A k \in L : i >= k
<1> DEFINE Up == {n - i : i \in L}
<1>1. Up \in SUBSET Nat /\ Up # {}
  <2>1. \A i \in L : i \in 1..n /\ n - i \in Nat
    OBVIOUS
  <2>2. PICK i \in L : TRUE
    OBVIOUS
  <2>3. n - i \in Up
    OBVIOUS
  <2> QED
    BY <2>1, <2>3
<1>2. PICK m \in Up : \A k \in Up : m <= k
  BY <1>1, LeastElement
<1>3. PICK i \in L : m = n - i
  BY <1>2
<1>4. ASSUME NEW k \in L PROVE i >= k
  <2>1. n - k \in Up
    OBVIOUS
  <2> QED
    BY <1>2, <1>3, <2>1
<1> QED
  BY <1>4

\* Of finitely many things that are weighed by naturals, one weighs most: the set
\* of those heavier than it is smallest.
LEMMA Heaviest ==
    ASSUME NEW S, IsFiniteSet(S), S # {}, NEW weight \in [S -> Nat]
    PROVE  \E h \in S : \A g \in S : weight[h] >= weight[g]
<1> DEFINE Heavier(h) == {g \in S : weight[g] > weight[h]}
           Sets == {Heavier(h) : h \in S}
<1>1. Sets # {} /\ Sets \in SUBSET SUBSET S
  <2>1. \A h \in S : Heavier(h) \subseteq S
    OBVIOUS
  <2> HIDE DEF Heavier
  <2> QED
    BY <2>1
<1> HIDE DEF Sets
<1>2. PICK P \in Sets : \A Q \in Sets : Q \subseteq P => Q = P
  BY <1>1, MinimalSet
<1>3. PICK h \in S : P = Heavier(h)
  BY <1>2 DEF Sets
<1>4. SUFFICES ASSUME NEW g \in S, weight[g] > weight[h] PROVE FALSE
  BY <1>3
<1>5. Heavier(g) \subseteq Heavier(h) /\ g \in Heavier(h) /\ g \notin Heavier(g)
  BY <1>4
<1>6. Heavier(g) \in Sets
  BY DEF Sets
<1> QED
  BY <1>2, <1>3, <1>5, <1>6

-----------------------------------------------------------------------------
\* Sums.  The function that a sum is the last value of, and the element it takes first.
Some(s) == CHOOSE x \in s : TRUE

\* What a sum's recursive function is to satisfy on a set of sets.
Sums(g, f, Sets) ==
    g = [s \in Sets |-> IF s = {} THEN 0 ELSE f[Some(s)] + g[s \ {Some(s)}]]

LEMMA SumByFunction ==
    ASSUME NEW S, NEW f, \E g : Sums(g, f, SUBSET S)
    PROVE  \E g : Sums(g, f, SUBSET S) /\ SumFunctionOnSet(f, S) = g[S]
<1> DEFINE iter[s \in SUBSET S] == IF s = {} THEN 0 ELSE LET x == CHOOSE x \in s : TRUE IN f[x] + iter[s \ {x}]
<1>1. SumFunctionOnSet(f, S) = iter[S]
  BY DEF SumFunctionOnSet, FoldFunctionOnSet, MapThenFoldSet
<1>2. iter = CHOOSE g : g = [s \in SUBSET S |-> IF s = {} THEN 0 ELSE f[Some(s)] + g[s \ {Some(s)}]]
  BY DEF iter, Some
<1>3. iter = CHOOSE g : Sums(g, f, SUBSET S)
  BY <1>2 DEF Sums
<1> HIDE DEF iter
<1>4. Sums(iter, f, SUBSET S)
  BY <1>3
<1> QED
  BY <1>1, <1>4

LEMMA SomeOf ==
    ASSUME NEW S, IsFiniteSet(S), NEW s \in SUBSET S, s # {}
    PROVE  /\ Some(s) \in s /\ Some(s) \in S /\ s \ {Some(s)} \in SUBSET S
           /\ Cardinality(s) \in Nat \ {0} /\ Cardinality(s \ {Some(s)}) = Cardinality(s) - 1
<1>1. Some(s) \in s
  BY DEF Some
<1>2. IsFiniteSet(s) /\ Cardinality(s) \in Nat
  BY FS_Subset, FS_CardinalityType
<1> QED
  BY <1>1, <1>2, FS_RemoveElement, FS_EmptySet

\* The recursive function of a sum is there, from the small sets up.
LEMMA SumsUpTo ==
    ASSUME NEW S, IsFiniteSet(S), NEW f \in [S -> Int], NEW n \in Nat
    PROVE  \E g \in [{s \in SUBSET S : Cardinality(s) <= n} -> Int] :
               Sums(g, f, {s \in SUBSET S : Cardinality(s) <= n})
<1> DEFINE Small(m) == {s \in SUBSET S : Cardinality(s) <= m}
           Bad == {m \in Nat : ~\E g \in [Small(m) -> Int] : Sums(g, f, Small(m))}
<1>1. SUFFICES Bad = {}
  OBVIOUS
<1>2. SUFFICES ASSUME Bad # {} PROVE FALSE
  OBVIOUS
<1>3. PICK m \in Bad : \A k \in Bad : m <= k
  BY <1>2, LeastElement
<1> HIDE DEF Small
<1>4. CASE m = 0
  <2>1. ASSUME NEW s \in Small(0), s # {} PROVE FALSE
    <3>1. s \in SUBSET S /\ Cardinality(s) <= 0
      BY DEF Small
    <3>2. Cardinality(s) \in Nat \ {0}
      BY <2>1, <3>1, SomeOf
    <3> QED
      BY <3>1, <3>2
  <2> DEFINE h == [s \in Small(0) |-> 0]
  <2>2. h \in [Small(0) -> Int] /\ Sums(h, f, Small(0))
    BY <2>1 DEF Sums
  <2> QED
    BY <1>4, <2>2
<1>5. CASE m # 0
  <2>1. m - 1 \in Nat /\ m - 1 \notin Bad
    BY <1>3, <1>5
  <2>2. PICK g \in [Small(m - 1) -> Int] : Sums(g, f, Small(m - 1))
    BY <2>1
  <2>3. \A s \in Small(m) : s # {} => /\ s \ {Some(s)} \in Small(m - 1) /\ s \ {Some(s)} \in Small(m)
                                       /\ Some(s) \in S
    BY SomeOf DEF Small
  <2> DEFINE h == [s \in Small(m) |-> IF s = {} THEN 0 ELSE f[Some(s)] + g[s \ {Some(s)}]]
  <2>4. h \in [Small(m) -> Int]
    BY <2>3
  <2>5. \A s \in Small(m - 1) : h[s] = g[s]
    <3>1. Small(m - 1) \subseteq Small(m)
      BY FS_Subset, FS_CardinalityType DEF Small
    <3> QED
      BY <2>2, <3>1 DEF Sums
  <2>6. Sums(h, f, Small(m))
    BY <2>3, <2>5 DEF Sums
  <2> QED
    BY <2>4, <2>6
<1> QED
  BY <1>4, <1>5

LEMMA SumsOfSubsets ==
    ASSUME NEW S, IsFiniteSet(S), NEW f \in [S -> Int]
    PROVE  \E g : Sums(g, f, SUBSET S)
<1>1. Cardinality(S) \in Nat /\ \A s \in SUBSET S : Cardinality(s) <= Cardinality(S)
  BY FS_Subset, FS_CardinalityType
<1>2. {s \in SUBSET S : Cardinality(s) <= Cardinality(S)} = SUBSET S
  BY <1>1
<1>3. \E g \in [{s \in SUBSET S : Cardinality(s) <= Cardinality(S)} -> Int] :
          Sums(g, f, {s \in SUBSET S : Cardinality(s) <= Cardinality(S)})
  BY <1>1, SumsUpTo
<1> QED
  BY <1>2, <1>3

\* Such a function is a sum, whichever element comes first.
LEMMA SumsTyped ==
    ASSUME NEW S, IsFiniteSet(S), NEW f \in [S -> Int], NEW g, Sums(g, f, SUBSET S)
    PROVE  \A s \in SUBSET S : g[s] \in Int
<1> DEFINE Bad == {s \in SUBSET S : g[s] \notin Int}
<1>1. SUFFICES ASSUME Bad # {} PROVE FALSE
  OBVIOUS
<1>2. PICK s \in Bad : \A t \in Bad : t \subseteq s => t = s
  <2>1. Bad \in SUBSET SUBSET S
    OBVIOUS
  <2> HIDE DEF Bad
  <2> QED
    BY <1>1, <2>1, MinimalSet
<1>3. g[s] = IF s = {} THEN 0 ELSE f[Some(s)] + g[s \ {Some(s)}]
  BY DEF Sums
<1>4. s # {}
  BY <1>3
<1>5. Some(s) \in s /\ s \ {Some(s)} \in SUBSET S
  BY <1>4, SomeOf
<1>6. g[s \ {Some(s)}] \in Int
  BY <1>2, <1>5
<1> QED
  BY <1>3, <1>5, <1>6

LEMMA AnyFirst ==
    ASSUME NEW S, IsFiniteSet(S), NEW f \in [S -> Int], NEW g, Sums(g, f, SUBSET S)
    PROVE  \A s \in SUBSET S : \A x \in s : g[s] = f[x] + g[s \ {x}]
<1> DEFINE Bad == {s \in SUBSET S : \E x \in s : g[s] # f[x] + g[s \ {x}]}
<1>1. SUFFICES ASSUME Bad # {} PROVE FALSE
  OBVIOUS
<1>2. PICK s \in Bad : \A t \in Bad : t \subseteq s => t = s
  <2>1. Bad \in SUBSET SUBSET S
    OBVIOUS
  <2> HIDE DEF Bad
  <2> QED
    BY <1>1, <2>1, MinimalSet
<1>3. PICK x \in s : g[s] # f[x] + g[s \ {x}]
  OBVIOUS
<1>4. PICK e : e = Some(s)
  OBVIOUS
<1>5. e \in s /\ g[s] = f[e] + g[s \ {e}]
  BY <1>4, SomeOf DEF Sums
<1>6. e # x
  BY <1>3, <1>5
<1>7. g[s \ {e}] = f[x] + g[(s \ {e}) \ {x}]
  <2>1. s \ {e} \in SUBSET S /\ s \ {e} \notin Bad /\ x \in s \ {e}
    BY <1>2, <1>5, <1>6
  <2> QED
    BY <2>1
<1>8. g[s \ {x}] = f[e] + g[(s \ {x}) \ {e}]
  <2>1. s \ {x} \in SUBSET S /\ s \ {x} \notin Bad /\ e \in s \ {x}
    BY <1>2, <1>5, <1>6
  <2> QED
    BY <2>1
<1>9. (s \ {e}) \ {x} = (s \ {x}) \ {e} /\ (s \ {e}) \ {x} \in SUBSET S
  OBVIOUS
<1>10. PICK rest : rest = g[(s \ {e}) \ {x}]
  OBVIOUS
<1>11. rest \in Int /\ f[e] \in Int /\ f[x] \in Int
  BY <1>5, <1>9, <1>10, SumsTyped
<1>12. g[s] = f[e] + (f[x] + rest) /\ g[s \ {x}] = f[e] + rest
  BY <1>5, <1>7, <1>8, <1>9, <1>10
<1> QED
  BY <1>3, <1>11, <1>12

LEMMA SameSums ==
    ASSUME NEW S, IsFiniteSet(S), NEW f \in [S -> Int], NEW h \in [S -> Int], NEW g, NEW k,
           Sums(g, f, SUBSET S), Sums(k, h, SUBSET S),
           NEW T \in SUBSET S, \A y \in T : h[y] = f[y]
    PROVE  g[T] = k[T]
<1> DEFINE Bad == {s \in SUBSET T : g[s] # k[s]}
<1>1. SUFFICES ASSUME Bad # {} PROVE FALSE
  OBVIOUS
<1>2. PICK s \in Bad : \A t \in Bad : t \subseteq s => t = s
  <2>1. Bad \in SUBSET SUBSET S
    OBVIOUS
  <2> HIDE DEF Bad
  <2> QED
    BY <1>1, <2>1, MinimalSet
<1>3. /\ g[s] = IF s = {} THEN 0 ELSE f[Some(s)] + g[s \ {Some(s)}]
      /\ k[s] = IF s = {} THEN 0 ELSE h[Some(s)] + k[s \ {Some(s)}]
  BY DEF Sums
<1>4. s # {}
  BY <1>3
<1>5. Some(s) \in s
  BY <1>4, SomeOf
<1>6. g[s \ {Some(s)}] = k[s \ {Some(s)}]
  BY <1>2, <1>5
<1> QED
  BY <1>3, <1>5, <1>6

\* A sum where one thing changed.
LEMMA SumChanged ==
    ASSUME NEW S, IsFiniteSet(S), NEW f \in [S -> Int], NEW h \in [S -> Int], NEW x \in S,
           \A y \in S \ {x} : h[y] = f[y]
    PROVE  /\ SumFunctionOnSet(f, S) \in Int /\ SumFunctionOnSet(h, S) \in Int
           /\ SumFunctionOnSet(h, S) = SumFunctionOnSet(f, S) + h[x] - f[x]
<1>1. PICK g : Sums(g, f, SUBSET S) /\ SumFunctionOnSet(f, S) = g[S]
  BY SumsOfSubsets, SumByFunction
<1>2. PICK k : Sums(k, h, SUBSET S) /\ SumFunctionOnSet(h, S) = k[S]
  BY SumsOfSubsets, SumByFunction
<1>3. g[S] = f[x] + g[S \ {x}] /\ k[S] = h[x] + k[S \ {x}]
  BY <1>1, <1>2, AnyFirst
<1>4. g[S \ {x}] = k[S \ {x}]
  BY <1>1, <1>2, SameSums
<1>5. g[S \ {x}] \in Int /\ f[x] \in Int /\ h[x] \in Int
  BY <1>1, SumsTyped
<1> QED
  BY <1>1, <1>2, <1>3, <1>4, <1>5

LEMMA SumTyped ==
    ASSUME NEW S, IsFiniteSet(S), NEW f \in [S -> Int]
    PROVE  SumFunctionOnSet(f, S) \in Int
<1>1. PICK g : Sums(g, f, SUBSET S) /\ SumFunctionOnSet(f, S) = g[S]
  BY SumsOfSubsets, SumByFunction
<1> QED
  BY <1>1, SumsTyped

\* A sum where one thing changed and no other has grown.
LEMMA SumBounded ==
    ASSUME NEW S, IsFiniteSet(S), NEW f \in [S -> Int], NEW h \in [S -> Int], NEW x \in S,
           \A y \in S \ {x} : h[y] <= f[y]
    PROVE  /\ SumFunctionOnSet(f, S) \in Int /\ SumFunctionOnSet(h, S) \in Int
           /\ SumFunctionOnSet(h, S) <= SumFunctionOnSet(f, S) + h[x] - f[x]
<1>1. PICK g : Sums(g, f, SUBSET S) /\ SumFunctionOnSet(f, S) = g[S]
  BY SumsOfSubsets, SumByFunction
<1>2. PICK k : Sums(k, h, SUBSET S) /\ SumFunctionOnSet(h, S) = k[S]
  BY SumsOfSubsets, SumByFunction
<1>3. g[S] = f[x] + g[S \ {x}] /\ k[S] = h[x] + k[S \ {x}]
  BY <1>1, <1>2, AnyFirst
<1>4. \A s \in SUBSET S : g[s] \in Int /\ k[s] \in Int
  BY <1>1, <1>2, SumsTyped
<1>5. k[S \ {x}] <= g[S \ {x}]
  <2> DEFINE Bad == {s \in SUBSET (S \ {x}) : ~(k[s] <= g[s])}
  <2>1. SUFFICES ASSUME Bad # {} PROVE FALSE
    OBVIOUS
  <2>2. PICK s \in Bad : \A t \in Bad : t \subseteq s => t = s
    <3>1. Bad \in SUBSET SUBSET S
      OBVIOUS
    <3> HIDE DEF Bad
    <3> QED
      BY <2>1, <3>1, MinimalSet
  <2>3. /\ g[s] = IF s = {} THEN 0 ELSE f[Some(s)] + g[s \ {Some(s)}]
        /\ k[s] = IF s = {} THEN 0 ELSE h[Some(s)] + k[s \ {Some(s)}]
    BY <1>1, <1>2 DEF Sums
  <2>4. s # {}
    BY <2>3
  <2>5. Some(s) \in s /\ Some(s) \in S \ {x} /\ s \ {Some(s)} \in SUBSET (S \ {x})
    BY <2>4, SomeOf
  <2>6. PICK e : e = Some(s)
    OBVIOUS
  <2>7. k[s \ {e}] <= g[s \ {e}]
    BY <2>2, <2>5, <2>6
  <2>8. h[e] <= f[e] /\ h[e] \in Int /\ f[e] \in Int
    BY <2>5, <2>6
  <2>9. g[s \ {e}] \in Int /\ k[s \ {e}] \in Int /\ g[s] = f[e] + g[s \ {e}] /\ k[s] = h[e] + k[s \ {e}]
    BY <1>4, <2>3, <2>4, <2>6
  <2> QED
    BY <2>7, <2>8, <2>9
<1>6. f[x] \in Int /\ h[x] \in Int /\ S \ {x} \in SUBSET S
  OBVIOUS
<1> QED
  BY <1>1, <1>2, <1>3, <1>4, <1>5, <1>6

\* A sum of nothing.
LEMMA SumOfZeros ==
    ASSUME NEW S, IsFiniteSet(S), NEW f \in [S -> Int], \A x \in S : f[x] = 0
    PROVE  SumFunctionOnSet(f, S) = 0
<1>1. PICK g : Sums(g, f, SUBSET S) /\ SumFunctionOnSet(f, S) = g[S]
  BY SumsOfSubsets, SumByFunction
<1> DEFINE Bad == {s \in SUBSET S : g[s] # 0}
<1>2. SUFFICES ASSUME Bad # {} PROVE FALSE
  BY <1>1
<1>3. PICK s \in Bad : \A t \in Bad : t \subseteq s => t = s
  <2>1. Bad \in SUBSET SUBSET S
    OBVIOUS
  <2> HIDE DEF Bad
  <2> QED
    BY <1>2, <2>1, MinimalSet
<1>4. g[s] = IF s = {} THEN 0 ELSE f[Some(s)] + g[s \ {Some(s)}]
  BY <1>1 DEF Sums
<1>5. s # {}
  BY <1>4
<1>6. Some(s) \in s
  BY <1>5, SomeOf
<1>7. g[s \ {Some(s)}] = 0
  BY <1>3, <1>6
<1> QED
  BY <1>4, <1>5, <1>6, <1>7
=============================================================================
