----------------------------- MODULE FoldLemmas -----------------------------
(***************************************************************************)
(* Induction as the proofs need it, stated of sets: what a fold over a     *)
(* finite set keeps, what a sum comes to, which element comes last.        *)
(***************************************************************************)
EXTENDS Integers, FiniteSetsExt, Folds, FiniteSetTheorems, WellFoundedInduction, TLAPS

\* A nonempty set of naturals has a least member.
LEMMA LeastNat ==
  ASSUME NEW T, T \subseteq Nat, T # {}
  PROVE  \E n \in T : \A m \in T : n <= m
<1>1. PICK n \in T : \A m \in T : ~(<<m, n>> \in OpToRel(<, Nat))
  BY NatLessThanWellFounded, WFMin
<1>2. \A m \in T : ~(m < n)
  BY <1>1 DEF OpToRel
<1> QED BY <1>2

\* A nonempty collection of subsets of a finite set has a minimal one.
LEMMA MinimalSubset ==
  ASSUME NEW S, IsFiniteSet(S), NEW T, T \subseteq SUBSET S, T # {}
  PROVE  \E s \in T : \A u \in T : u \subseteq s => u = s
<1>1. T \subseteq FiniteSubsetsOf(S)
  BY FS_FiniteSubsetsOfFinite
<1>2. PICK s \in T : \A u \in T : ~(<<u, s>> \in StrictSubsetOrdering(S))
  BY <1>1, FS_StrictSubsetOrderingWellFounded, WFMin
<1>3. ASSUME NEW u \in T, u \subseteq s PROVE u = s
  BY <1>2, <1>3 DEF StrictSubsetOrdering
<1> QED BY <1>3

\* f is the fold of each set of elements of S, taken in the order c has them last.
Folding(f, S, base, c, G) ==
  \A s \in SUBSET S : f[s] = IF s = {} THEN base ELSE G[<<c[s], f[s \ {c[s]}]>>]

\* A fold over a finite set, by a function: one exists, whatever the order it takes them in.
LEMMA FoldExists ==
  ASSUME NEW S, IsFiniteSet(S), NEW A, NEW base \in A, NEW c, NEW G \in [S \X A -> A],
         \A s \in SUBSET S : s # {} => c[s] \in s
  PROVE  \E f \in [SUBSET S -> A] : Folding(f, S, base, c, G)
<1> DEFINE Small(n) == {s \in SUBSET S : Cardinality(s) <= n}
           Fits(f, n) == \A s \in Small(n) :
                           f[s] = IF s = {} THEN base ELSE G[<<c[s], f[s \ {c[s]}]>>]
           Bad == {n \in Nat : ~\E f \in [SUBSET S -> A] : Fits(f, n)}
<1>1. \A s \in SUBSET S :
        IsFiniteSet(s) /\ Cardinality(s) \in Nat /\ Cardinality(s) <= Cardinality(S)
  BY FS_Subset, FS_CardinalityType
<1>2. \A s \in SUBSET S : s # {} => Cardinality(s \ {c[s]}) = Cardinality(s) - 1
  BY <1>1, FS_RemoveElement
<1>3. Bad = {}
  <2> SUFFICES ASSUME Bad # {} PROVE FALSE
    OBVIOUS
  <2>1. PICK n \in Bad : \A m \in Bad : n <= m
    BY LeastNat
  <2>2. CASE n = 0
    <3> DEFINE f == [s \in SUBSET S |-> base]
    <3>1. f \in [SUBSET S -> A]
      OBVIOUS
    <3>2. \A s \in Small(0) : s = {}
      BY <1>1, FS_EmptySet
    <3>3. Fits(f, 0)
      BY <3>2
    <3> QED BY <2>1, <2>2, <3>1, <3>3
  <2>3. CASE n # 0
    <3>1. n - 1 \in Nat /\ n - 1 \notin Bad
      <4>1. n \in Nat
        OBVIOUS
      <4> HIDE DEF Bad
      <4> QED BY <2>1, <2>3, <4>1
    <3>2. PICK f \in [SUBSET S -> A] : Fits(f, n - 1)
      BY <3>1
    <3> DEFINE g == [s \in SUBSET S |->
                       IF s = {} THEN base ELSE G[<<c[s], f[s \ {c[s]}]>>]]
    <3>3. g \in [SUBSET S -> A]
      <4>1. ASSUME NEW s \in SUBSET S, s # {} PROVE G[<<c[s], f[s \ {c[s]}]>>] \in A
        <5>1. c[s] \in S /\ s \ {c[s]} \in SUBSET S
          BY <4>1
        <5>2. f[s \ {c[s]}] \in A
          BY <5>1, <3>2
        <5> QED BY <5>1, <5>2
      <4> QED BY <4>1
    <3>4. \A s \in Small(n - 1) : g[s] = f[s]
      BY <3>2
    <3>5. ASSUME NEW s \in Small(n), s # {} PROVE s \ {c[s]} \in Small(n - 1)
      BY <1>1, <1>2, <2>1, <3>5
    <3>6. Fits(g, n)
      BY <3>4, <3>5
    <3> QED BY <2>1, <3>3, <3>6
  <2> QED BY <2>2, <2>3
<1>4. PICK f \in [SUBSET S -> A] : Fits(f, Cardinality(S))
  BY <1>1, <1>3
<1> QED BY <1>1, <1>4 DEF Folding

\* What holds of a fold of nothing, and after each element if before it, holds of every fold.
LEMMA FoldInvariant ==
  ASSUME NEW S, IsFiniteSet(S), NEW A, NEW f, NEW c, f[{}] \in A,
         \A s \in SUBSET S : s # {} => c[s] \in s /\ (f[s \ {c[s]}] \in A => f[s] \in A)
  PROVE  \A s \in SUBSET S : f[s] \in A
<1> DEFINE Bad == {s \in SUBSET S : f[s] \notin A}
<1> SUFFICES ASSUME Bad # {} PROVE FALSE
  OBVIOUS
<1>1. PICK s \in Bad : \A u \in Bad : u \subseteq s => u = s
  <2>1. Bad \subseteq SUBSET S
    OBVIOUS
  <2> HIDE DEF Bad
  <2> QED BY <2>1, MinimalSubset
<1>2. s # {} /\ s \in SUBSET S
  OBVIOUS
<1>3. s \ {c[s]} \notin Bad
  BY <1>1, <1>2
<1> QED BY <1>2, <1>3

\* A strict order of a finite set has a last element.
LEMMA LastInOrder ==
  ASSUME NEW S, IsFiniteSet(S), S # {}, NEW R,
         \A x \in S : <<x, x>> \notin R,
         \A x, y, z \in S : <<x, y>> \in R /\ <<y, z>> \in R => <<x, z>> \in R
  PROVE  \E x \in S : \A y \in S : <<x, y>> \notin R
<1> DEFINE Last(s) == \E x \in s : \A y \in s : <<x, y>> \notin R
           Bad == {s \in SUBSET S : s # {} /\ ~Last(s)}
<1>1. Bad = {}
  <2> SUFFICES ASSUME Bad # {} PROVE FALSE
    OBVIOUS
  <2>1. PICK s \in Bad : \A u \in Bad : u \subseteq s => u = s
    <3>1. Bad \subseteq SUBSET S
      OBVIOUS
    <3> HIDE DEF Bad
    <3> QED BY <3>1, MinimalSubset
  <2>2. s \in SUBSET S /\ s # {} /\ ~Last(s)
    OBVIOUS
  <2>3. PICK x \in s : TRUE
    BY <2>2
  <2>4. CASE s \ {x} = {}
    BY <2>2, <2>3, <2>4
  <2>5. CASE s \ {x} # {}
    <3>1. s \ {x} \notin Bad
      <4> HIDE DEF Bad
      <4> QED BY <2>1, <2>3
    <3>2. PICK y \in s \ {x} : \A z \in s \ {x} : <<y, z>> \notin R
      BY <2>2, <2>5, <3>1
    <3>3. <<y, x>> \in R
      BY <2>2, <3>2
    <3>4. x \in S /\ y \in S
      BY <2>2, <2>3
    <3>5. ASSUME NEW z \in s, <<x, z>> \in R PROVE FALSE
      <4>1. z \in S
        BY <2>2
      <4>2. z # x
        BY <3>4, <3>5
      <4>3. <<y, z>> \in R
        BY <3>3, <3>4, <3>5, <4>1
      <4> QED BY <3>2, <4>2, <4>3
    <3> QED BY <2>2, <2>3, <3>5
  <2> QED BY <2>4, <2>5
<1>2. Last(S)
  BY <1>1
<1> QED BY <1>2

\* A nonempty finite set of integers has a greatest member.
LEMMA MaxIs ==
  ASSUME NEW S, S \subseteq Int, IsFiniteSet(S), S # {}
  PROVE  Max(S) \in S /\ \A n \in S : n <= Max(S)
<1> DEFINE R == {p \in Int \X Int : p[1] < p[2]}
<1>1. \A x \in S : <<x, x>> \notin R
  OBVIOUS
<1>2. \A x, y, z \in S : <<x, y>> \in R /\ <<y, z>> \in R => <<x, z>> \in R
  OBVIOUS
<1>3. PICK n \in S : \A m \in S : <<n, m>> \notin R
  <2> HIDE DEF R
  <2> QED BY <1>1, <1>2, LastInOrder
<1>4. ASSUME NEW m \in S PROVE n >= m
  <2>1. n \in Int /\ m \in Int /\ <<n, m>> \notin R
    BY <1>3
  <2> QED BY <2>1
<1>5. Max(S) \in S /\ \A m \in S : Max(S) >= m
  BY <1>4 DEF Max
<1> QED BY <1>5

-----------------------------------------------------------------------------
(* Sums over a finite set, as MapThenSumSet takes them *)

\* The sum of f over S, as MapThenSumSet has it.
SumOf(f, S) == MapThenSumSet(LAMBDA x : f[x], S)

\* it sums f over each subset of S, taking out what CHOOSE gives.
Summing(it, f, S) ==
  \A s \in SUBSET S : it[s] = IF s = {} THEN 0
                              ELSE f[CHOOSE x \in s : TRUE] + it[s \ {CHOOSE x \in s : TRUE}]

\* The sum over a set is that of some such function.
LEMMA SumIs ==
  ASSUME NEW S, IsFiniteSet(S), NEW f, \A x \in S : f[x] \in Int
  PROVE  \E it \in [SUBSET S -> Int] : Summing(it, f, S) /\ SumOf(f, S) = it[S]
<1> DEFINE One(s) == CHOOSE x \in s : TRUE
           iter == CHOOSE it : it = [s \in SUBSET S |->
                     IF s = {} THEN 0 ELSE f[One(s)] + it[s \ {One(s)}]]
           c == [s \in SUBSET S |-> One(s)]
           G == [p \in S \X Int |-> f[p[1]] + p[2]]
<1>1. SumOf(f, S) = iter[S]
  BY DEF SumOf, MapThenSumSet, MapThenFoldSet
<1>2. \A s \in SUBSET S : s # {} => One(s) \in s
  OBVIOUS
<1>3. \A it : Summing(it, f, S) <=>
        \A s \in SUBSET S : it[s] = IF s = {} THEN 0 ELSE f[One(s)] + it[s \ {One(s)}]
  BY DEF Summing
<1> HIDE DEF One
<1>4. PICK it \in [SUBSET S -> Int] :
        \A s \in SUBSET S : it[s] = IF s = {} THEN 0 ELSE f[One(s)] + it[s \ {One(s)}]
  <2>1. G \in [S \X Int -> Int]
    OBVIOUS
  <2>2. \A s \in SUBSET S : s # {} => c[s] \in s
    BY <1>2
  <2>3. PICK it \in [SUBSET S -> Int] : Folding(it, S, 0, c, G)
    <3>1. PICK zero \in Int : zero = 0
      OBVIOUS
    <3> HIDE DEF G, c, iter
    <3>2. \E it \in [SUBSET S -> Int] : Folding(it, S, zero, c, G)
      BY <2>1, <2>2, FoldExists
    <3> QED BY <3>1, <3>2
  <2>4. ASSUME NEW s \in SUBSET S, s # {}
        PROVE  it[s] = f[One(s)] + it[s \ {One(s)}]
    <3>1. One(s) \in S /\ it[s \ {One(s)}] \in Int /\ it[s] = G[<<One(s), it[s \ {One(s)}]>>]
      BY <1>2, <2>3, <2>4 DEF Folding
    <3> QED BY <3>1
  <2> QED BY <2>3, <2>4 DEF Folding
<1>5. it = [s \in SUBSET S |-> IF s = {} THEN 0 ELSE f[One(s)] + it[s \ {One(s)}]]
  BY <1>4
<1>6. iter = [s \in SUBSET S |-> IF s = {} THEN 0 ELSE f[One(s)] + iter[s \ {One(s)}]]
  BY <1>5
<1> HIDE DEF iter
<1>7. \A s \in SUBSET S : iter[s] = it[s]
  <2> DEFINE Bad == {s \in SUBSET S : iter[s] # it[s]}
  <2> SUFFICES ASSUME Bad # {} PROVE FALSE
    OBVIOUS
  <2>1. PICK s \in Bad : \A u \in Bad : u \subseteq s => u = s
    <3>1. Bad \subseteq SUBSET S
      OBVIOUS
    <3> HIDE DEF Bad
    <3> QED BY <3>1, MinimalSubset
  <2>2. s # {}
    BY <1>4, <1>6
  <2>3. s \ {One(s)} \in SUBSET S /\ s \ {One(s)} # s
    BY <1>2, <2>2
  <2>4. iter[s \ {One(s)}] = it[s \ {One(s)}]
    BY <2>1, <2>3
  <2>5. iter[s] = f[One(s)] + iter[s \ {One(s)}] /\ it[s] = f[One(s)] + it[s \ {One(s)}]
    BY <1>4, <1>6, <2>2
  <2> QED BY <2>4, <2>5
<1> QED BY <1>1, <1>3, <1>4, <1>7

\* Two such functions give the subsets they share one sum.
LEMMA SumUnique ==
  ASSUME NEW S, IsFiniteSet(S), NEW f, NEW T, NEW U, S \subseteq T, S \subseteq U,
         NEW it, Summing(it, f, T), NEW jt, Summing(jt, f, U)
  PROVE  it[S] = jt[S]
<1> DEFINE Bad == {s \in SUBSET S : it[s] # jt[s]}
<1> SUFFICES ASSUME Bad # {} PROVE FALSE
  OBVIOUS
<1>1. PICK s \in Bad : \A u \in Bad : u \subseteq s => u = s
  <2>1. Bad \subseteq SUBSET S
    OBVIOUS
  <2> HIDE DEF Bad
  <2> QED BY <2>1, MinimalSubset
<1> DEFINE x == CHOOSE x \in s : TRUE
<1>2. s \in SUBSET S /\ s \in SUBSET T /\ s \in SUBSET U /\ it[s] # jt[s]
  OBVIOUS
<1>3. s # {}
  BY <1>2 DEF Summing
<1>4. x \in s
  BY <1>3
<1>5. it[s] = f[x] + it[s \ {x}] /\ jt[s] = f[x] + jt[s \ {x}]
  BY <1>2, <1>3 DEF Summing
<1> HIDE DEF x
<1>6. it[s \ {x}] = jt[s \ {x}]
  BY <1>1, <1>4
<1> QED BY <1>2, <1>5, <1>6

\* A sum of integers is one; the empty sum is zero, and any other is that of one element, the one
\* CHOOSE gives, and of the rest.
LEMMA SumUnfolds ==
  ASSUME NEW S, IsFiniteSet(S), NEW f, \A x \in S : f[x] \in Int
  PROVE  /\ SumOf(f, S) \in Int
         /\ S = {} => SumOf(f, S) = 0
         /\ S # {} => \E x \in S : SumOf(f, S) = f[x] + SumOf(f, S \ {x})
<1>1. PICK it \in [SUBSET S -> Int] : Summing(it, f, S) /\ SumOf(f, S) = it[S]
  BY SumIs
<1>2. SumOf(f, S) \in Int /\ (S = {} => SumOf(f, S) = 0)
  BY <1>1 DEF Summing
<1>3. ASSUME S # {} PROVE \E x \in S : SumOf(f, S) = f[x] + SumOf(f, S \ {x})
  <2> DEFINE x == CHOOSE x \in S : TRUE
  <2>1. x \in S
    BY <1>3
  <2>2. it[S] = f[x] + it[S \ {x}]
    BY <1>1, <1>3 DEF Summing
  <2> HIDE DEF x
  <2> DEFINE R == S \ {x}
  <2>3. R \in SUBSET S /\ IsFiniteSet(R) /\ \A y \in R : f[y] \in Int
    BY FS_Subset
  <2> HIDE DEF R
  <2>4. PICK jt \in [SUBSET R -> Int] : Summing(jt, f, R) /\ SumOf(f, R) = jt[R]
    BY <2>3, SumIs
  <2>5. jt[R] = it[R]
    BY <1>1, <2>3, <2>4, SumUnique
  <2> QED BY <1>1, <2>1, <2>2, <2>4, <2>5 DEF R
<1> QED BY <1>2, <1>3

\* Whatever the order they are taken in, one element more adds its value.
LEMMA SumAdd ==
  ASSUME NEW T, IsFiniteSet(T), NEW f, \A y \in T : f[y] \in Int,
         NEW S, NEW x \in T, S = T \ {x}
  PROVE  SumOf(f, T) = f[x] + SumOf(f, S)
<1> DEFINE Bad == {u \in SUBSET T :
                     \E y \in u : \E v \in SUBSET T :
                       v = u \ {y} /\ SumOf(f, u) # f[y] + SumOf(f, v)}
<1>1. \A u \in SUBSET T : IsFiniteSet(u) /\ (\A y \in u : f[y] \in Int) /\ SumOf(f, u) \in Int
  <2> TAKE u \in SUBSET T
  <2>1. IsFiniteSet(u) /\ \A y \in u : f[y] \in Int
    BY FS_Subset
  <2> QED BY <2>1, SumUnfolds
<1>2. Bad = {}
  <2> SUFFICES ASSUME Bad # {} PROVE FALSE
    OBVIOUS
  <2>1. PICK u \in Bad : \A w \in Bad : w \subseteq u => w = u
    <3>1. Bad \subseteq SUBSET T
      OBVIOUS
    <3> HIDE DEF Bad
    <3> QED BY <3>1, MinimalSubset
  <2>2. PICK y \in u : \E v \in SUBSET T : v = u \ {y} /\ SumOf(f, u) # f[y] + SumOf(f, v)
    OBVIOUS
  <2>3. PICK v \in SUBSET T : v = u \ {y} /\ SumOf(f, u) # f[y] + SumOf(f, v)
    BY <2>2
  <2>4. u \in SUBSET T /\ u # {}
    BY <2>2
  <2>5. PICK z \in u : SumOf(f, u) = f[z] + SumOf(f, u \ {z})
    BY <1>1, <2>4, SumUnfolds
  <2>6. PICK w : w = u \ {z}
    OBVIOUS
  <2>7. SumOf(f, u) = f[z] + SumOf(f, w)
    BY <2>5, <2>6
  <2>8. z # y
    <3> SUFFICES ASSUME z = y PROVE FALSE
      OBVIOUS
    <3>1. w = v
      BY <2>3, <2>6
    <3> QED BY <2>3, <2>7, <3>1
  <2>9. PICK r : r = u \ {y, z}
    OBVIOUS
  <2>10. /\ v \notin Bad /\ w \notin Bad /\ v \in SUBSET T /\ w \in SUBSET T /\ r \in SUBSET T
         /\ z \in v /\ y \in w /\ r = v \ {z} /\ r = w \ {y}
    <3>1. /\ v \in SUBSET T /\ w \in SUBSET T /\ r \in SUBSET T /\ z \in v /\ y \in w
          /\ r = v \ {z} /\ r = w \ {y} /\ v \subseteq u /\ v # u /\ w \subseteq u /\ w # u
      BY <2>2, <2>3, <2>4, <2>5, <2>6, <2>8, <2>9
    <3> HIDE DEF Bad
    <3> QED BY <2>1, <3>1
  <2>11. SumOf(f, v) = f[z] + SumOf(f, r)
    BY <2>10
  <2>12. SumOf(f, w) = f[y] + SumOf(f, r)
    BY <2>10
  <2>13. f[y] \in Int /\ f[z] \in Int /\ SumOf(f, r) \in Int
    BY <1>1, <2>2, <2>4, <2>5, <2>10
  <2>14. SumOf(f, u) = f[y] + SumOf(f, v)
    BY <2>7, <2>11, <2>12, <2>13
  <2> QED BY <2>3, <2>14
<1>3. S \in SUBSET T /\ T \in SUBSET T /\ T \notin Bad
  BY <1>2
<1> QED BY <1>3

\* The sum of two functions is the sum of their sums.
LEMMA SumPlus ==
  ASSUME NEW S, IsFiniteSet(S), NEW f, NEW g, NEW h,
         \A x \in S : f[x] \in Int /\ g[x] \in Int /\ h[x] = f[x] + g[x]
  PROVE  SumOf(h, S) = SumOf(f, S) + SumOf(g, S)
<1> DEFINE Bad == {u \in SUBSET S : SumOf(h, u) # SumOf(f, u) + SumOf(g, u)}
<1>1. \A u \in SUBSET S : /\ IsFiniteSet(u) /\ (\A y \in u : f[y] \in Int)
                          /\ (\A y \in u : g[y] \in Int) /\ (\A y \in u : h[y] \in Int)
  BY FS_Subset
<1>2. Bad = {}
  <2> SUFFICES ASSUME Bad # {} PROVE FALSE
    OBVIOUS
  <2>1. PICK u \in Bad : \A w \in Bad : w \subseteq u => w = u
    <3>1. Bad \subseteq SUBSET S
      OBVIOUS
    <3> HIDE DEF Bad
    <3> QED BY <3>1, MinimalSubset
  <2>2. u \in SUBSET S /\ SumOf(h, u) # SumOf(f, u) + SumOf(g, u)
    OBVIOUS
  <2>3. CASE u = {}
    <3>1. SumOf(f, u) = 0 /\ SumOf(g, u) = 0 /\ SumOf(h, u) = 0
      BY <1>1, <2>2, <2>3, SumUnfolds
    <3> QED BY <2>2, <3>1
  <2>4. CASE u # {}
    <3>1. PICK x \in u : TRUE
      BY <2>4
    <3>2. PICK w : w = u \ {x}
      OBVIOUS
    <3>3. w \in SUBSET S /\ x \in S /\ w # u /\ w \subseteq u
      BY <2>2, <3>1, <3>2
    <3>4. SumOf(h, w) = SumOf(f, w) + SumOf(g, w)
      BY <2>1, <3>3
    <3>5. /\ IsFiniteSet(u) /\ (\A y \in u : f[y] \in Int) /\ (\A y \in u : g[y] \in Int)
          /\ (\A y \in u : h[y] \in Int)
      BY <1>1, <2>2
    <3> HIDE DEF Bad
    <3>6. SumOf(h, u) = h[x] + SumOf(h, w)
      BY ONLY <3>1, <3>2, <3>5, SumAdd
    <3>7. SumOf(f, u) = f[x] + SumOf(f, w) /\ SumOf(g, u) = g[x] + SumOf(g, w)
      BY ONLY <3>1, <3>2, <3>5, SumAdd
    <3>8. SumOf(f, w) \in Int /\ SumOf(g, w) \in Int
      BY <1>1, <3>3, SumUnfolds
    <3>9. f[x] \in Int /\ g[x] \in Int /\ h[x] = f[x] + g[x]
      BY <3>3
    <3>10. SumOf(h, u) = SumOf(f, u) + SumOf(g, u)
      BY <3>4, <3>6, <3>7, <3>8, <3>9
    <3> QED BY <2>2, <3>10
  <2> QED BY <2>3, <2>4
<1> QED BY <1>2

\* Only what is not zero counts.
LEMMA SumSupport ==
  ASSUME NEW S, IsFiniteSet(S), NEW T, T \subseteq S, NEW f, NEW g,
         \A x \in S : f[x] \in Int, \A x \in T : g[x] = f[x], \A x \in S \ T : f[x] = 0
  PROVE  SumOf(f, S) = SumOf(g, T)
<1> DEFINE Bad == {u \in SUBSET S : \E t \in SUBSET S : t = u \cap T /\ SumOf(f, u) # SumOf(g, t)}
<1>1. \A u \in SUBSET S : IsFiniteSet(u) /\ (\A y \in u : f[y] \in Int)
  BY FS_Subset
<1>2. \A u \in SUBSET T : IsFiniteSet(u) /\ (\A y \in u : g[y] \in Int)
  BY FS_Subset
<1>3. Bad = {}
  <2> SUFFICES ASSUME Bad # {} PROVE FALSE
    OBVIOUS
  <2>1. PICK u \in Bad : \A w \in Bad : w \subseteq u => w = u
    <3>1. Bad \subseteq SUBSET S
      OBVIOUS
    <3> HIDE DEF Bad
    <3> QED BY <3>1, MinimalSubset
  <2>2. PICK t \in SUBSET S : t = u \cap T /\ SumOf(f, u) # SumOf(g, t)
    OBVIOUS
  <2>3. u \in SUBSET S /\ t \in SUBSET T
    BY <2>2
  <2>4. CASE u = {}
    <3>1. t = {}
      BY <2>2, <2>4
    <3>2. SumOf(f, u) = 0
      BY <1>1, <2>3, <2>4, SumUnfolds
    <3>3. SumOf(g, t) = 0
      BY <1>2, <2>3, <3>1, SumUnfolds
    <3> QED BY <2>2, <3>2, <3>3
  <2>5. CASE u # {}
    <3>1. PICK x \in u : TRUE
      BY <2>5
    <3>2. PICK w : w = u \ {x}
      OBVIOUS
    <3>3. PICK v : v = w \cap T
      OBVIOUS
    <3>4. w \in SUBSET S /\ x \in S /\ w # u /\ w \subseteq u /\ v \in SUBSET T /\ v \in SUBSET S
      BY <2>3, <3>1, <3>2, <3>3
    <3>5. SumOf(f, w) = SumOf(g, v)
      BY <2>1, <3>3, <3>4
    <3>6. SumOf(f, u) = f[x] + SumOf(f, w)
      BY <1>1, <2>3, <3>1, <3>2, SumAdd
    <3>7. SumOf(f, w) \in Int
      BY <1>1, <3>4, SumUnfolds
    <3>8. CASE x \in T
      <4>1. v = t \ {x} /\ x \in t
        BY <2>2, <3>1, <3>2, <3>3, <3>8
      <4>2. SumOf(g, t) = g[x] + SumOf(g, v)
        <5>1. IsFiniteSet(t) /\ \A y \in t : g[y] \in Int
          BY <1>2, <2>3
        <5> QED BY ONLY <4>1, <5>1, SumAdd
      <4>3. g[x] = f[x]
        BY <3>8
      <4> QED BY <2>2, <3>5, <3>6, <4>2, <4>3
    <3>9. CASE x \notin T
      <4>1. f[x] = 0
        BY <3>4, <3>9
      <4>2. v = t
        BY <2>2, <3>1, <3>2, <3>3, <3>9
      <4> QED BY <2>2, <3>5, <3>6, <3>7, <4>1, <4>2
    <3> QED BY <3>8, <3>9
  <2> QED BY <2>4, <2>5
<1>4. S \in SUBSET S /\ T \in SUBSET S /\ T = S \cap T /\ S \notin Bad
  BY <1>3
<1> QED BY <1>4

\* Raising one value raises the sum as much.
LEMMA SumExcept ==
  ASSUME NEW S, IsFiniteSet(S), NEW f, \A x \in S : f[x] \in Int, NEW y \in S, NEW n \in Int,
         NEW g, g[y] = f[y] + n, \A x \in S : x # y => g[x] = f[x]
  PROVE  SumOf(g, S) = SumOf(f, S) + n
<1>1. PICK R : R = S \ {y}
  OBVIOUS
<1>2. IsFiniteSet(R) /\ (\A x \in S : g[x] \in Int) /\ \A x \in R : f[x] \in Int
  BY <1>1, FS_Subset
<1>3. SumOf(f, S) = f[y] + SumOf(f, R)
  BY <1>1, SumAdd
<1>4. SumOf(g, S) = g[y] + SumOf(g, R)
  BY <1>1, <1>2, SumAdd
<1>5. SumOf(f, R) = SumOf(g, R)
  <2>1. \A x \in R : g[x] = f[x]
    BY <1>1
  <2>2. R \subseteq R /\ \A x \in R \ R : f[x] = 0
    OBVIOUS
  <2> QED BY <1>2, <2>1, <2>2, SumSupport
<1>6. SumOf(f, R) \in Int /\ f[y] \in Int
  BY <1>2, SumUnfolds
<1> QED BY <1>3, <1>4, <1>5, <1>6

\* A sum of naturals is one.
LEMMA SumNat ==
  ASSUME NEW S, IsFiniteSet(S), NEW f, \A x \in S : f[x] \in Nat
  PROVE  SumOf(f, S) \in Nat
<1> DEFINE c == [s \in SUBSET S |-> CHOOSE x \in s : TRUE]
<1>1. \A s \in SUBSET S : s # {} => (CHOOSE x \in s : TRUE) \in s
  OBVIOUS
<1>2. PICK it \in [SUBSET S -> Int] : Summing(it, f, S) /\ SumOf(f, S) = it[S]
  <2>1. \A x \in S : f[x] \in Int
    OBVIOUS
  <2> QED BY <2>1, SumIs
<1>3. it[{}] \in Nat
  BY <1>2 DEF Summing
<1>4. ASSUME NEW s \in SUBSET S, s # {}
      PROVE  c[s] \in s /\ (it[s \ {c[s]}] \in Nat => it[s] \in Nat)
  <2>1. c[s] \in s /\ c[s] \in S
    BY <1>1, <1>4
  <2>2. it[s] = f[c[s]] + it[s \ {c[s]}]
    BY <1>2, <1>4 DEF Summing
  <2> QED BY <2>1, <2>2
<1> HIDE DEF c
<1>5. \A s \in SUBSET S : it[s] \in Nat
  BY <1>3, <1>4, FoldInvariant
<1> QED BY <1>2, <1>5

\* No value being higher, the sum is none.
LEMMA SumBelow ==
  ASSUME NEW S, IsFiniteSet(S), NEW f, NEW g,
         \A x \in S : f[x] \in Int /\ g[x] \in Int /\ f[x] <= g[x]
  PROVE  SumOf(f, S) <= SumOf(g, S)
<1>1. PICK d : d = [x \in S |-> g[x] - f[x]]
  OBVIOUS
<1>2. \A x \in S : f[x] \in Int /\ d[x] \in Int /\ g[x] = f[x] + d[x]
  BY <1>1
<1>3. \A x \in S : d[x] \in Nat
  BY <1>1
<1>4. SumOf(g, S) = SumOf(f, S) + SumOf(d, S)
  BY <1>2, SumPlus
<1>5. SumOf(d, S) \in Nat
  BY <1>3, SumNat
<1>6. SumOf(f, S) \in Int
  BY <1>2, SumUnfolds
<1> QED BY <1>4, <1>5, <1>6

\* The sum over a part and over the rest is the sum over the whole.
LEMMA SumSplit ==
  ASSUME NEW S, IsFiniteSet(S), NEW f, \A x \in S : f[x] \in Int, NEW T, T \subseteq S,
         NEW R, R = S \ T
  PROVE  SumOf(f, S) = SumOf(f, T) + SumOf(f, R)
<1> DEFINE in  == [x \in S |-> IF x \in T THEN f[x] ELSE 0]
           out == [x \in S |-> IF x \in T THEN 0 ELSE f[x]]
<1>1. \A x \in S : in[x] \in Int /\ out[x] \in Int /\ f[x] = in[x] + out[x]
  OBVIOUS
<1>2. (\A x \in T : f[x] = in[x]) /\ \A x \in S \ T : in[x] = 0
  OBVIOUS
<1>3. R \subseteq S /\ (\A x \in R : f[x] = out[x]) /\ \A x \in S \ R : out[x] = 0
  OBVIOUS
<1> HIDE DEF in, out
<1>4. SumOf(f, S) = SumOf(in, S) + SumOf(out, S)
  BY <1>1, SumPlus
<1>5. SumOf(in, S) = SumOf(f, T)
  BY <1>1, <1>2, SumSupport
<1>6. SumOf(out, S) = SumOf(f, R)
  BY <1>1, <1>3, SumSupport
<1> QED BY <1>4, <1>5, <1>6

-----------------------------------------------------------------------------
(* A function applied once for each element of a finite set *)

\* g of g of ... of n, once for each element of S, as FoldSet has it.
Repeated(g, n, S) == FoldSet(LAMBDA x, m : g[m], n, S)

\* g takes A to itself.
Closed(g, A) == \A m \in A : g[m] \in A

\* it applies g once more to each subset of S than to the rest of it.
Repeating(it, g, n, S) ==
  \A s \in SUBSET S : it[s] = IF s = {} THEN n ELSE g[it[s \ {CHOOSE x \in s : TRUE}]]

\* There is such a function.
LEMMA RepeatingExists ==
  ASSUME NEW S, IsFiniteSet(S), NEW A, NEW n \in A, NEW g, Closed(g, A)
  PROVE  \E it \in [SUBSET S -> A] : Repeating(it, g, n, S)
<1> DEFINE c == [s \in SUBSET S |-> CHOOSE x \in s : TRUE]
           G == [p \in S \X A |-> g[p[2]]]
<1>1. G \in [S \X A -> A]
  BY DEF Closed
<1>2. \A s \in SUBSET S : s # {} => c[s] \in s
  OBVIOUS
<1>3. PICK it \in [SUBSET S -> A] : Folding(it, S, n, c, G)
  <2> HIDE DEF G, c
  <2> QED BY <1>1, <1>2, FoldExists
<1>4. ASSUME NEW s \in SUBSET S, s # {}
      PROVE  it[s] = g[it[s \ {c[s]}]]
  <2>1. c[s] \in S /\ it[s \ {c[s]}] \in A /\ it[s] = G[<<c[s], it[s \ {c[s]}]>>]
    <3>1. c[s] \in s /\ s \ {c[s]} \in SUBSET S
      BY <1>2, <1>4
    <3> HIDE DEF G, c
    <3> QED BY <1>3, <1>4, <3>1 DEF Folding
  <2> HIDE DEF c
  <2> QED BY <2>1
<1> QED BY <1>3, <1>4 DEF Folding, Repeating

\* What is repeated over a set is what any such function of a larger set has it.
LEMMA RepeatedIs ==
  ASSUME NEW S, IsFiniteSet(S), NEW T, S \subseteq T, NEW g, NEW n, NEW jt, Repeating(jt, g, n, T)
  PROVE  Repeated(g, n, S) = jt[S]
<1> DEFINE One(s) == CHOOSE x \in s : TRUE
           iter == CHOOSE it : it = [s \in SUBSET S |->
                     IF s = {} THEN n ELSE g[it[s \ {One(s)}]]]
           it == [s \in SUBSET S |-> jt[s]]
<1>1. Repeated(g, n, S) = iter[S]
  BY DEF Repeated, FoldSet, MapThenFoldSet
<1>2. \A s \in SUBSET S : s # {} => One(s) \in s
  OBVIOUS
<1>3. \A s \in SUBSET S : jt[s] = IF s = {} THEN n ELSE g[jt[s \ {One(s)}]]
  BY DEF Repeating
<1> HIDE DEF One
<1>4. it = [s \in SUBSET S |-> IF s = {} THEN n ELSE g[it[s \ {One(s)}]]]
  BY <1>3
<1> HIDE DEF it
<1>5. iter = [s \in SUBSET S |-> IF s = {} THEN n ELSE g[iter[s \ {One(s)}]]]
  BY <1>4
<1> HIDE DEF iter
<1>6. \A s \in SUBSET S : iter[s] = jt[s]
  <2> DEFINE Bad == {s \in SUBSET S : iter[s] # jt[s]}
  <2> SUFFICES ASSUME Bad # {} PROVE FALSE
    OBVIOUS
  <2>1. PICK s \in Bad : \A u \in Bad : u \subseteq s => u = s
    <3>1. Bad \subseteq SUBSET S
      OBVIOUS
    <3> HIDE DEF Bad
    <3> QED BY <3>1, MinimalSubset
  <2>2. s # {}
    BY <1>3, <1>5
  <2>3. s \ {One(s)} \in SUBSET S /\ s \ {One(s)} # s
    BY <1>2, <2>2
  <2>4. iter[s \ {One(s)}] = jt[s \ {One(s)}]
    BY <2>1, <2>3
  <2>5. iter[s] = g[iter[s \ {One(s)}]] /\ jt[s] = g[jt[s \ {One(s)}]]
    BY <1>3, <1>5, <2>2
  <2> QED BY <2>4, <2>5
<1> QED BY <1>1, <1>6

\* What is repeated keeps its type; over nothing it is n, and over any other set g of what it is
\* without one element, the one CHOOSE gives.
LEMMA RepeatedUnfolds ==
  ASSUME NEW S, IsFiniteSet(S), NEW A, NEW n \in A, NEW g, Closed(g, A)
  PROVE  /\ Repeated(g, n, S) \in A
         /\ S = {} => Repeated(g, n, S) = n
         /\ S # {} => \E x \in S : Repeated(g, n, S) = g[Repeated(g, n, S \ {x})]
<1>1. PICK it \in [SUBSET S -> A] : Repeating(it, g, n, S)
  BY RepeatingExists
<1>2. Repeated(g, n, S) = it[S]
  BY <1>1, RepeatedIs
<1>3. Repeated(g, n, S) \in A /\ (S = {} => Repeated(g, n, S) = n)
  BY <1>1, <1>2 DEF Repeating
<1>4. ASSUME S # {} PROVE \E x \in S : Repeated(g, n, S) = g[Repeated(g, n, S \ {x})]
  <2> DEFINE x == CHOOSE x \in S : TRUE
             R == S \ {x}
  <2>1. x \in S
    BY <1>4
  <2>2. it[S] = g[it[R]]
    BY <1>1, <1>4 DEF Repeating
  <2>3. R \in SUBSET S /\ IsFiniteSet(R)
    BY FS_Subset
  <2>4. Repeated(g, n, R) = it[R]
    <3> HIDE DEF R
    <3> QED BY <1>1, <2>3, RepeatedIs
  <2> QED BY <1>2, <2>1, <2>2, <2>4
<1> QED BY <1>3, <1>4

\* Whatever the order they are taken in, one element more applies g once more.
LEMMA RepeatedOnce ==
  ASSUME NEW T, IsFiniteSet(T), NEW A, NEW n \in A, NEW g, Closed(g, A),
         NEW x \in T, NEW S, S = T \ {x}
  PROVE  Repeated(g, n, T) = g[Repeated(g, n, S)]
<1> DEFINE Bad == {u \in SUBSET T :
                     \E y \in u : \E v \in SUBSET T :
                       v = u \ {y} /\ Repeated(g, n, u) # g[Repeated(g, n, v)]}
<1>1. Bad = {}
  <2> SUFFICES ASSUME Bad # {} PROVE FALSE
    OBVIOUS
  <2>1. PICK u \in Bad : \A w \in Bad : w \subseteq u => w = u
    <3>1. Bad \subseteq SUBSET T
      OBVIOUS
    <3> HIDE DEF Bad
    <3> QED BY <3>1, MinimalSubset
  <2>2. PICK y \in u : \E v \in SUBSET T :
                         v = u \ {y} /\ Repeated(g, n, u) # g[Repeated(g, n, v)]
    OBVIOUS
  <2>3. PICK v \in SUBSET T : v = u \ {y} /\ Repeated(g, n, u) # g[Repeated(g, n, v)]
    BY <2>2
  <2>4. u \in SUBSET T /\ u # {}
    BY <2>2
  <2>5. PICK z \in u : Repeated(g, n, u) = g[Repeated(g, n, u \ {z})]
    <3>1. IsFiniteSet(u)
      BY <2>4, FS_Subset
    <3> HIDE DEF Bad
    <3> QED BY <2>4, <3>1, RepeatedUnfolds
  <2>6. PICK w : w = u \ {z}
    OBVIOUS
  <2>7. Repeated(g, n, u) = g[Repeated(g, n, w)]
    BY <2>5, <2>6
  <2>8. z # y
    <3> SUFFICES ASSUME z = y PROVE FALSE
      OBVIOUS
    <3>1. w = v
      BY <2>3, <2>6
    <3> QED BY <2>3, <2>7, <3>1
  <2>9. PICK r : r = u \ {y, z}
    OBVIOUS
  <2>10. /\ v \notin Bad /\ w \notin Bad /\ v \in SUBSET T /\ w \in SUBSET T /\ r \in SUBSET T
         /\ z \in v /\ y \in w /\ r = v \ {z} /\ r = w \ {y}
    <3>1. /\ v \in SUBSET T /\ w \in SUBSET T /\ r \in SUBSET T /\ z \in v /\ y \in w
          /\ r = v \ {z} /\ r = w \ {y} /\ v \subseteq u /\ v # u /\ w \subseteq u /\ w # u
      BY <2>2, <2>3, <2>4, <2>5, <2>6, <2>8, <2>9
    <3> HIDE DEF Bad
    <3> QED BY <2>1, <3>1
  <2>11. Repeated(g, n, v) = g[Repeated(g, n, r)]
    BY <2>10
  <2>12. Repeated(g, n, w) = g[Repeated(g, n, r)]
    BY <2>10
  <2>13. Repeated(g, n, u) = g[Repeated(g, n, v)]
    BY <2>7, <2>11, <2>12
  <2> QED BY <2>3, <2>13
<1>2. S \in SUBSET T /\ T \in SUBSET T /\ T \notin Bad
  BY <1>1
<1> QED BY <1>2

=============================================================================
