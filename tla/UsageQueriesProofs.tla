------------------------- MODULE UsageQueriesProofs -------------------------
(***************************************************************************)
(* What a client of QueryUsage is shown, proved for any facts, queries and *)
(* meters and any commits between the statements of its calls.             *)
(***************************************************************************)
EXTENDS UsageQueries, FiniteSetTheorems, WellFoundedInduction, SequenceTheorems, TLAPS

-----------------------------------------------------------------------------
(* Finite sets in a strict total order.                                    *)

\* The relation R, a set of pairs, orders S strictly and totally.
StrictOrder(S, R) ==
    /\ \A x \in S : <<x, x>> \notin R
    /\ \A x, y \in S : x # y => <<x, y>> \in R \/ <<y, x>> \in R
    /\ \A x, y, z \in S : <<x, y>> \in R /\ <<y, z>> \in R => <<x, z>> \in R

\* The elements of S that are smaller than x.
Below(S, R, x) == {y \in S : <<y, x>> \in R}

\* The greater element has more elements below it.
LEMMA BelowGrows ==
    ASSUME NEW S, IsFiniteSet(S), NEW R, StrictOrder(S, R)
    PROVE  /\ \A x \in S : Cardinality(Below(S, R, x)) \in 0..(Cardinality(S) - 1)
           /\ \A x, y \in S : <<x, y>> \in R =>
                Cardinality(Below(S, R, x)) < Cardinality(Below(S, R, y))
  <1>1. ASSUME NEW x \in S
        PROVE  IsFiniteSet(Below(S, R, x)) /\ Cardinality(Below(S, R, x)) \in Nat
    BY FS_Subset, FS_CardinalityType DEF Below
  <1>2. ASSUME NEW x \in S
        PROVE  Cardinality(Below(S, R, x)) \in 0..(Cardinality(S) - 1)
    <2>1. Below(S, R, x) \in SUBSET (S \ {x})
      BY DEF Below, StrictOrder
    <2>2. IsFiniteSet(S \ {x}) /\ Cardinality(S \ {x}) = Cardinality(S) - 1
      BY FS_RemoveElement
    <2>3. Cardinality(Below(S, R, x)) <= Cardinality(S \ {x})
      BY <2>1, <2>2, FS_Subset
    <2> QED
      BY <1>1, <2>2, <2>3, FS_CardinalityType
  <1>3. ASSUME NEW x \in S, NEW y \in S, <<x, y>> \in R
        PROVE  Cardinality(Below(S, R, x)) < Cardinality(Below(S, R, y))
    <2>1. Below(S, R, x) \cup {x} \in SUBSET Below(S, R, y)
      BY <1>3 DEF Below, StrictOrder
    <2>2. x \notin Below(S, R, x)
      BY DEF Below, StrictOrder
    <2>3. Cardinality(Below(S, R, x) \cup {x}) = Cardinality(Below(S, R, x)) + 1
      BY <1>1, <2>2, FS_AddElement
    <2>4. Cardinality(Below(S, R, x) \cup {x}) <= Cardinality(Below(S, R, y))
      BY <1>1, <2>1, FS_Subset
    <2> QED
      BY <1>1, <2>3, <2>4
  <1> QED
    BY <1>2, <1>3

\* Every position is taken: counting the smaller elements is a bijection.
LEMMA BelowCovers ==
    ASSUME NEW S, IsFiniteSet(S), NEW R, StrictOrder(S, R),
           NEW k \in 0..(Cardinality(S) - 1)
    PROVE  \E x \in S : Cardinality(Below(S, R, x)) = k
  <1> DEFINE T == 0..(Cardinality(S) - 1)
             rank == [x \in S |-> Cardinality(Below(S, R, x))]
  <1>1. Cardinality(S) \in Nat
    BY FS_CardinalityType
  <1>2. IsFiniteSet(T) /\ Cardinality(T) = Cardinality(S)
    BY <1>1, FS_Interval
  <1>3. rank \in [S -> T]
    BY BelowGrows
  <1>4. \A x, y \in S : rank[x] = rank[y] => x = y
    <2> SUFFICES ASSUME NEW x \in S, NEW y \in S, rank[x] = rank[y], x # y
                 PROVE  FALSE
      OBVIOUS
    <2>1. <<x, y>> \in R \/ <<y, x>> \in R
      BY DEF StrictOrder
    <2>2. rank[x] \in Int /\ rank[y] \in Int
      BY <1>3
    <2> QED
      BY <2>1, <2>2, BelowGrows
  <1>5. rank \in Injection(S, T)
    BY <1>3, <1>4 DEF Injection, IsInjective
  <1>6. rank \in Surjection(S, T)
    BY <1>2, <1>5, FS_Injection
  <1> QED
    BY <1>6 DEF Surjection

LEMMA Greatest ==
    ASSUME NEW S, IsFiniteSet(S), S # {}, NEW R, StrictOrder(S, R)
    PROVE  \E x \in S : \A y \in S \ {x} : <<y, x>> \in R
  <1>1. Cardinality(S) \in Nat /\ Cardinality(S) # 0
    BY FS_CardinalityType, FS_EmptySet
  <1>2. PICK x \in S : Cardinality(Below(S, R, x)) = Cardinality(S) - 1
    BY <1>1, BelowCovers
  <1>3. ASSUME NEW y \in S \ {x}, <<y, x>> \notin R PROVE FALSE
    <2>1. <<x, y>> \in R
      BY <1>3 DEF StrictOrder
    <2>2. Cardinality(Below(S, R, x)) < Cardinality(Below(S, R, y))
      BY <2>1, BelowGrows
    <2>3. Cardinality(Below(S, R, y)) \in 0..(Cardinality(S) - 1)
      BY BelowGrows
    <2> QED
      BY <1>1, <1>2, <2>2, <2>3
  <1> QED
    BY <1>3

-----------------------------------------------------------------------------
(* Sums over finite sets.  SumOf is a fold, a recursive function of the    *)
(* subsets of its argument; facts about it are proved by taking a smallest *)
(* set that violates them.                                                 *)

LEMMA SmallestSet ==
    ASSUME NEW S, IsFiniteSet(S), NEW T \in SUBSET (SUBSET S), T # {}
    PROVE  \E X \in T : \A Y \in T : Y \subseteq X => Y = X
  <1>1. T \subseteq FiniteSubsetsOf(S)
    BY FS_FiniteSubsetsOfFinite
  <1>2. PICK X \in T : \A Y \in T : ~(<<Y, X>> \in StrictSubsetOrdering(S))
    BY <1>1, FS_StrictSubsetOrderingWellFounded, WFMin
  <1> QED
    BY <1>2 DEF StrictSubsetOrdering

Pick(s) == CHOOSE x \in s : TRUE

\* The function g adds up the quantities of the subsets of S, as MapThenSumSet does.
Adds(g, S) ==
    g = [s \in SUBSET S |-> IF s = {} THEN 0 ELSE Pick(s).quantity + g[s \ {Pick(s)}]]

LEMMA Picked == \A s : s # {} => Pick(s) \in s
  BY DEF Pick

LEMMA SumIsAdded == \A S : SumOf(S) = (CHOOSE g : Adds(g, S))[S]
  BY DEF SumOf, MapThenSumSet, MapThenFoldSet, Adds, Pick

LEMMA AddsStep ==
    ASSUME NEW S, NEW g, Adds(g, S), NEW s \in SUBSET S
    PROVE  g[s] = IF s = {} THEN 0 ELSE Pick(s).quantity + g[s \ {Pick(s)}]
  BY DEF Adds

LEMMA AddsUnique ==
    ASSUME NEW S, IsFiniteSet(S), NEW R \in SUBSET S, NEW g, Adds(g, S), NEW h, Adds(h, R)
    PROVE  g[R] = h[R]
  <1> DEFINE T == {s \in SUBSET R : g[s] # h[s]}
  <1> SUFFICES ASSUME T # {} PROVE FALSE
    OBVIOUS
  <1>1. IsFiniteSet(R)
    BY FS_Subset
  <1>2. PICK s \in T : \A u \in T : u \subseteq s => u = s
    <2>1. T \in SUBSET (SUBSET R)
      OBVIOUS
    <2> HIDE DEF T
    <2> QED
      BY <1>1, <2>1, SmallestSet
  <1>3. s \in SUBSET R /\ s \in SUBSET S
    OBVIOUS
  <1>4. CASE s = {}
    BY <1>3, <1>4, AddsStep
  <1>5. CASE s # {}
    <2> DEFINE u == s \ {Pick(s)}
    <2>1. u \subseteq s /\ u # s /\ u \in SUBSET R
      BY <1>3, <1>5, Picked
    <2>2. g[u] = h[u]
      BY <1>2, <2>1
    <2>3. g[s] = Pick(s).quantity + g[u] /\ h[s] = Pick(s).quantity + h[u]
      BY <1>3, <1>5, AddsStep
    <2> QED
      BY <2>2, <2>3
  <1> QED
    BY <1>4, <1>5

LEMMA AddsExists ==
    ASSUME NEW S, IsFiniteSet(S)
    PROVE  \E g : Adds(g, S)
  <1> DEFINE T == {s \in SUBSET S : ~\E g : Adds(g, s)}
  <1> SUFFICES ASSUME T # {} PROVE FALSE
    OBVIOUS
  <1>1. PICK Y \in T : \A u \in T : u \subseteq Y => u = Y
    <2>1. T \in SUBSET (SUBSET S)
      OBVIOUS
    <2> HIDE DEF T
    <2> QED
      BY <2>1, SmallestSet
  <1> DEFINE G(u) == CHOOSE g : Adds(g, u)
             h == [s \in SUBSET Y |-> IF s = {} THEN 0
                      ELSE Pick(s).quantity + G(s \ {Pick(s)})[s \ {Pick(s)}]]
  <1>2. ASSUME NEW u \in SUBSET Y, u # Y PROVE Adds(G(u), u) /\ IsFiniteSet(u)
    <2>1. u \in SUBSET S /\ u \notin T
      BY <1>1, <1>2
    <2>2. \E g : Adds(g, u)
      BY <2>1
    <2> QED
      BY <2>1, <2>2, FS_Subset
  <1>3. ASSUME NEW u \in SUBSET Y, u # Y PROVE h[u] = G(u)[u]
    <2>1. Adds(G(u), u) /\ IsFiniteSet(u)
      BY <1>2, <1>3
    <2>2. CASE u = {}
      <3>1. G(u)[u] = 0
        BY <2>1, <2>2, AddsStep
      <3>2. h[u] = 0
        BY <2>2
      <3> QED
        BY <3>1, <3>2
    <2>3. CASE u # {}
      <3> DEFINE v == u \ {Pick(u)}
      <3>1. v \in SUBSET u /\ v \in SUBSET Y /\ v # Y
        BY <2>3, Picked
      <3>2. Adds(G(v), v)
        BY <3>1, <1>2
      <3>3. G(u)[v] = G(v)[v]
        <4> HIDE DEF G, v
        <4> QED
          BY <2>1, <3>1, <3>2, AddsUnique
      <3>4. G(u)[u] = Pick(u).quantity + G(u)[v]
        <4> HIDE DEF G
        <4> QED
          BY <2>1, <2>3, AddsStep
      <3>5. h[u] = Pick(u).quantity + G(v)[v]
        <4> HIDE DEF G
        <4> QED
          BY <2>3
      <3> QED
        BY <3>3, <3>4, <3>5
    <2> QED
      BY <2>2, <2>3
  <1>4. ASSUME NEW s \in SUBSET Y, s # {}
        PROVE  h[s] = Pick(s).quantity + h[s \ {Pick(s)}]
    <2> DEFINE v == s \ {Pick(s)}
    <2>1. v \in SUBSET Y /\ v # Y
      BY <1>4, Picked
    <2>2. h[v] = G(v)[v]
      BY <1>3, <2>1
    <2>3. h[s] = Pick(s).quantity + G(v)[v]
      <3> HIDE DEF G
      <3> QED
        BY <1>4
    <2> QED
      BY <2>2, <2>3
  <1>5. h = [s \in SUBSET Y |-> h[s]] /\ (Y = {} \/ Y # {}) /\ h[{}] = 0
    <2> HIDE DEF G
    <2> QED
      OBVIOUS
  <1>6. Adds(h, Y)
    <2> HIDE DEF h
    <2> QED
      BY <1>4, <1>5 DEF Adds
  <1> QED
    BY <1>6

\* SumOf satisfies the equation it is defined by.
LEMMA SumStep ==
    ASSUME NEW S, IsFiniteSet(S)
    PROVE  /\ SumOf({}) = 0
           /\ S # {} => SumOf(S) = Pick(S).quantity + SumOf(S \ {Pick(S)})
  <1> DEFINE G(s) == CHOOSE g : Adds(g, s)
  <1>1. ASSUME NEW s, IsFiniteSet(s) PROVE Adds(G(s), s) /\ SumOf(s) = G(s)[s]
    BY <1>1, AddsExists, SumIsAdded
  <1> HIDE DEF G
  <1>2. SumOf({}) = 0
    BY <1>1, FS_EmptySet, AddsStep
  <1>3. ASSUME S # {} PROVE SumOf(S) = Pick(S).quantity + SumOf(S \ {Pick(S)})
    <2> DEFINE s == S \ {Pick(S)}
    <2>1. IsFiniteSet(s) /\ s \in SUBSET S
      BY FS_Subset
    <2>2. G(S)[S] = Pick(S).quantity + G(S)[s]
      BY <1>1, <1>3, AddsStep
    <2>3. G(S)[s] = G(s)[s]
      <3> HIDE DEF s
      <3> QED
        BY <1>1, <2>1, AddsUnique
    <2> QED
      BY <1>1, <2>1, <2>2, <2>3
  <1> QED
    BY <1>2, <1>3

Quantified(S) == IsFiniteSet(S) /\ \A x \in S : x.quantity \in Int

LEMMA QuantifiedSubset ==
    ASSUME NEW S, Quantified(S), NEW T \in SUBSET S
    PROVE  Quantified(T)
  BY FS_Subset DEF Quantified

LEMMA SumType ==
    ASSUME NEW S, Quantified(S)
    PROVE  SumOf(S) \in Int
  <1> DEFINE T == {s \in SUBSET S : SumOf(s) \notin Int}
  <1> SUFFICES ASSUME T # {} PROVE FALSE
    OBVIOUS
  <1>1. PICK s \in T : \A u \in T : u \subseteq s => u = s
    <2>1. T \in SUBSET (SUBSET S) /\ IsFiniteSet(S)
      BY DEF Quantified
    <2> HIDE DEF T
    <2> QED
      BY <2>1, SmallestSet
  <1>2. Quantified(s)
    BY QuantifiedSubset
  <1>3. CASE s = {}
    <2>1. SumOf(s) \notin Int
      OBVIOUS
    <2>2. SumOf(s) = 0
      BY <1>3, SumStep, FS_EmptySet
    <2> QED
      BY <2>1, <2>2
  <1>4. CASE s # {}
    <2> DEFINE u == s \ {Pick(s)}
    <2>1. Pick(s) \in s /\ u \subseteq s /\ u # s
      BY <1>4, Picked
    <2>2. SumOf(u) \in Int
      BY <1>1, <2>1
    <2>3. SumOf(s) = Pick(s).quantity + SumOf(u)
      BY <1>2, <1>4, SumStep DEF Quantified
    <2>4. Pick(s).quantity \in Int
      BY <1>2, <2>1 DEF Quantified
    <2> QED
      BY <2>2, <2>3, <2>4
  <1> QED
    BY <1>3, <1>4

\* The order does not matter: any element may be added last.
LEMMA SumElement ==
    ASSUME NEW S, Quantified(S), NEW x \in S
    PROVE  SumOf(S) = x.quantity + SumOf(S \ {x})
  <1> DEFINE T == {s \in SUBSET S : \E y \in s : SumOf(s) # y.quantity + SumOf(s \ {y})}
  <1> SUFFICES ASSUME T # {} PROVE FALSE
    OBVIOUS
  <1>1. PICK s \in T : \A u \in T : u \subseteq s => u = s
    <2>1. T \in SUBSET (SUBSET S) /\ IsFiniteSet(S)
      BY DEF Quantified
    <2> HIDE DEF T
    <2> QED
      BY <2>1, SmallestSet
  <1>2. PICK y \in s : SumOf(s) # y.quantity + SumOf(s \ {y})
    OBVIOUS
  <1> DEFINE c == Pick(s)
  <1>3. c \in s /\ s \in SUBSET S
    BY <1>2, Picked
  <1>4. Quantified(s) /\ Quantified(s \ {c}) /\ Quantified(s \ {y})
    BY QuantifiedSubset
  <1>5. SumOf(s) = c.quantity + SumOf(s \ {c})
    BY <1>2, <1>4, SumStep DEF Quantified
  <1>6. y # c
    BY <1>2, <1>5
  <1> HIDE DEF c
  <1> DEFINE u == (s \ {c}) \ {y}
  <1>7. s \ {c} \notin T /\ s \ {y} \notin T
    BY <1>1, <1>2, <1>3
  <1>8. SumOf(s \ {c}) = y.quantity + SumOf(u)
    BY <1>2, <1>3, <1>6, <1>7
  <1>9. SumOf(s \ {y}) = c.quantity + SumOf(u)
    <2>1. (s \ {y}) \ {c} = u
      OBVIOUS
    <2>2. c \in s \ {y} /\ s \ {y} \in SUBSET S
      BY <1>3, <1>6
    <2> QED
      BY <1>7, <2>1, <2>2
  <1>10. SumOf(u) \in Int /\ y.quantity \in Int /\ c.quantity \in Int
    <2>1. Quantified(u)
      BY <1>4, QuantifiedSubset
    <2> QED
      BY <2>1, <1>2, <1>3, <1>4, SumType DEF Quantified
  <1> HIDE DEF u
  <1> QED
    BY <1>2, <1>5, <1>8, <1>9, <1>10

LEMMA SumUnion ==
    ASSUME NEW A, NEW B, Quantified(A), Quantified(B), A \cap B = {}
    PROVE  SumOf(A \cup B) = SumOf(A) + SumOf(B)
  <1> DEFINE T == {s \in SUBSET A : SumOf(s \cup B) # SumOf(s) + SumOf(B)}
  <1> SUFFICES ASSUME T # {} PROVE FALSE
    OBVIOUS
  <1>1. PICK s \in T : \A u \in T : u \subseteq s => u = s
    <2>1. T \in SUBSET (SUBSET A) /\ IsFiniteSet(A)
      BY DEF Quantified
    <2> HIDE DEF T
    <2> QED
      BY <2>1, SmallestSet
  <1>2. Quantified(s) /\ Quantified(s \cup B)
    <2>1. Quantified(s)
      BY QuantifiedSubset
    <2> QED
      BY <2>1, FS_Union DEF Quantified
  <1>3. CASE s = {}
    <2>1. SumOf(s \cup B) # SumOf(s) + SumOf(B)
      OBVIOUS
    <2>2. s \cup B = B
      BY <1>3
    <2>3. SumOf(s \cup B) = SumOf(B)
      BY <2>2, Zenon
    <2>4. SumOf(s) = 0 /\ SumOf(B) \in Int
      BY <1>3, SumStep, FS_EmptySet, SumType
    <2> QED
      BY <2>1, <2>3, <2>4
  <1>4. CASE s # {}
    <2>1. PICK x : x \in s
      BY <1>4
    <2> DEFINE u == s \ {x}
    <2>2. u \subseteq s /\ u # s
      BY <2>1
    <2>3. SumOf(u \cup B) = SumOf(u) + SumOf(B)
      BY <1>1, <2>2
    <2>4. (s \cup B) \ {x} = u \cup B /\ x \in s \cup B
      BY <2>1
    <2>5. SumOf(s \cup B) = x.quantity + SumOf(u \cup B) /\ SumOf(s) = x.quantity + SumOf(u)
      BY <1>2, <2>1, <2>4, SumElement
    <2>6. SumOf(u) \in Int /\ SumOf(B) \in Int /\ x.quantity \in Int
      BY <1>2, <2>1, QuantifiedSubset, SumType DEF Quantified
    <2> HIDE DEF u
    <2> QED
      BY <2>3, <2>5, <2>6
  <1> QED
    BY <1>3, <1>4

\* Rows of equal quantities have equal sums.
LEMMA SumImage ==
    ASSUME NEW S, Quantified(S), NEW f, DOMAIN f = S,
           \A x \in S : f[x].quantity = x.quantity,
           \A x, y \in S : f[x] = f[y] => x = y
    PROVE  SumOf({f[x] : x \in S}) = SumOf(S)
  <1> DEFINE I(s) == {f[x] : x \in s}
             T == {s \in SUBSET S : SumOf(I(s)) # SumOf(s)}
  <1> SUFFICES ASSUME T # {} PROVE FALSE
    OBVIOUS
  <1>1. PICK s \in T : \A u \in T : u \subseteq s => u = s
    <2>1. T \in SUBSET (SUBSET S) /\ IsFiniteSet(S)
      BY DEF Quantified
    <2> HIDE DEF T
    <2> QED
      BY <2>1, SmallestSet
  <1>2. Quantified(s)
    BY QuantifiedSubset
  <1>3. CASE s = {}
    <2>1. I(s) = {}
      BY <1>3
    <2> QED
      BY <1>3, <2>1
  <1>4. CASE s # {}
    <2>1. PICK x : x \in s
      BY <1>4
    <2> DEFINE u == s \ {x}
    <2>2. u \subseteq s /\ u # s
      BY <2>1
    <2>3. SumOf(I(u)) = SumOf(u)
      BY <1>1, <2>2
    <2>4. Quantified(I(s))
      <3> DEFINE g == [y \in s |-> f[y]]
      <3>1. g \in Surjection(s, I(s))
        BY DEF Surjection
      <3>2. IsFiniteSet(I(s))
        BY <1>2, <3>1, FS_Surjection DEF Quantified
      <3>3. \A y \in s : f[y].quantity \in Int
        BY <1>2 DEF Quantified
      <3> QED
        BY <3>2, <3>3 DEF Quantified
    <2>5. I(s) \ {f[x]} = I(u) /\ f[x] \in I(s)
      BY <2>1
    <2>6. SumOf(I(s)) = f[x].quantity + SumOf(I(u))
      <3>1. SumOf(I(s)) = f[x].quantity + SumOf(I(s) \ {f[x]})
        <4> HIDE DEF I
        <4> QED
          BY <2>4, <2>5, SumElement
      <3> QED
        BY <2>5, <3>1
    <2>7. SumOf(s) = x.quantity + SumOf(u)
      BY <1>2, <2>1, SumElement
    <2>8. f[x].quantity = x.quantity
      BY <2>1
    <2>9. SumOf(I(s)) # SumOf(s)
      OBVIOUS
    <2> QED
      BY <2>3, <2>6, <2>7, <2>8, <2>9
  <1> QED
    BY <1>3, <1>4

\* The measure w adds up over disjoint subsets of M, the parts m[g] divide M, and
\* the quantity of a row g is the measure of its part.
Measured(G, M, w, m) ==
    /\ w[{}] = 0
    /\ \A a, b \in SUBSET M : a \cap b = {} => w[a \cup b] = w[a] + w[b]
    /\ \A g \in G : m[g] \in SUBSET M /\ g.quantity = w[m[g]]
    /\ \A g, h \in G : g # h => m[g] \cap m[h] = {}
    /\ \A x \in M : \E g \in G : x \in m[g]

LEMMA SumOfParts ==
    ASSUME NEW G, Quantified(G), NEW M, NEW w, NEW m, Measured(G, M, w, m)
    PROVE  SumOf(G) = w[M]
  <1> USE DEF Measured
  <1> DEFINE U(s) == UNION {m[g] : g \in s}
             T == {s \in SUBSET G : SumOf(s) # w[U(s)]}
  <1>0. U(G) = M
    OBVIOUS
  <1> SUFFICES ASSUME T # {} PROVE FALSE
    <2>1. w[U(G)] = w[M]
      BY <1>0
    <2>2. SumOf(G) # w[U(G)] => G \in T
      OBVIOUS
    <2> HIDE DEF T, U
    <2> QED
      BY <2>1, <2>2
  <1>1. PICK s \in T : \A u \in T : u \subseteq s => u = s
    <2>1. T \in SUBSET (SUBSET G) /\ IsFiniteSet(G)
      BY DEF Quantified
    <2> HIDE DEF T
    <2> QED
      BY <2>1, SmallestSet
  <1>2. Quantified(s) /\ SumOf(s) # w[U(s)]
    BY QuantifiedSubset
  <1>3. CASE s = {}
    <2>1. U(s) = {}
      BY <1>3
    <2>2. SumOf(s) = 0
      BY <1>3, SumStep, FS_EmptySet
    <2>3. w[U(s)] = w[{}]
      BY <2>1
    <2> QED
      BY <1>2, <2>2, <2>3
  <1>4. CASE s # {}
    <2>1. PICK x : x \in s
      BY <1>4
    <2> DEFINE u == s \ {x}
    <2>2. u \subseteq s /\ u # s
      BY <2>1
    <2>3. SumOf(u) = w[U(u)]
      BY <1>1, <2>2
    <2>4. U(s) = m[x] \cup U(u) /\ m[x] \cap U(u) = {} /\ U(u) \in SUBSET M /\ m[x] \in SUBSET M
      BY <2>1
    <2>5. w[U(s)] = w[m[x]] + w[U(u)]
      <3> HIDE DEF U
      <3> QED
        BY <2>4
    <2>6. SumOf(s) = x.quantity + SumOf(u)
      BY <1>2, <2>1, SumElement
    <2>7. x.quantity = w[m[x]]
      BY <2>1
    <2> QED
      BY <1>2, <2>3, <2>5, <2>6, <2>7
  <1> QED
    BY <1>3, <1>4

-----------------------------------------------------------------------------
(* The calendar.                                                           *)

LEMMA FirstDayType == \A m \in Int : FirstDay(m) \in Int
  BY DEF FirstDay, DaysBefore

LEMMA FirstDayMonotonic == \A m, n \in Int : m < n => FirstDay(m) < FirstDay(n)
  BY DEF FirstDay, DaysBefore

LEMMA FirstDayOfYear ==
    \A y, m \in Int : FirstDay(12 * y + m) = 365 * y + FirstDay(m)
  <1> SUFFICES ASSUME NEW y \in Int, NEW m \in Int
               PROVE  FirstDay(12 * y + m) = 365 * y + FirstDay(m)
    OBVIOUS
  <1>1. (12 * y + m) \div 12 = y + (m \div 12) /\ (12 * y + m) % 12 = m % 12
    OBVIOUS
  <1>2. m % 12 \in 0..11 /\ m \div 12 \in Int
    OBVIOUS
  <1> QED
    BY <1>1, <1>2 DEF FirstDay, DaysBefore

LEMMA MonthOfDay ==
    ASSUME NEW d \in Int
    PROVE  /\ MonthOf(d) \in Int
           /\ FirstDay(MonthOf(d)) <= d /\ d < FirstDay(MonthOf(d) + 1)
  <1> DEFINE r == d % 365
             In(m) == FirstDay(m) <= r /\ r < FirstDay(m + 1)
             k == CHOOSE m \in 0..11 : In(m)
  <1>0. /\ FirstDay(0) = 0 /\ FirstDay(1) = 31 /\ FirstDay(2) = 59 /\ FirstDay(3) = 90
        /\ FirstDay(4) = 120 /\ FirstDay(5) = 151 /\ FirstDay(6) = 181
        /\ FirstDay(7) = 212 /\ FirstDay(8) = 243 /\ FirstDay(9) = 273
        /\ FirstDay(10) = 304 /\ FirstDay(11) = 334 /\ FirstDay(12) = 365
    BY DEF FirstDay, DaysBefore
  <1>1. \E m \in 0..11 : In(m)
    <2>1. r \in 0..364
      OBVIOUS
    <2> HIDE DEF r
    <2>2. \/ In(0) \/ In(1) \/ In(2) \/ In(3) \/ In(4) \/ In(5)
          \/ In(6) \/ In(7) \/ In(8) \/ In(9) \/ In(10) \/ In(11)
      BY <1>0, <2>1
    <2> HIDE DEF In
    <2> QED
      BY <2>2
  <1>2. k \in 0..11 /\ In(k)
    <2> HIDE DEF In
    <2> QED
      BY <1>1
  <1> DEFINE y == d \div 365
  <1>3. y \in Int /\ r \in Int /\ d = 365 * y + r
    OBVIOUS
  <1>4. MonthOf(d) = 12 * y + k
    BY DEF MonthOf
  <1> HIDE DEF y, r, k
  <1>5. /\ FirstDay(12 * y + k) = 365 * y + FirstDay(k)
        /\ FirstDay(12 * y + (k + 1)) = 365 * y + FirstDay(k + 1)
    BY <1>2, <1>3, FirstDayOfYear
  <1>6. (12 * y + k) + 1 = 12 * y + (k + 1) /\ 12 * y + k \in Int /\ 365 * y \in Int
    BY <1>2, <1>3
  <1>7. FirstDay(k) \in Int /\ FirstDay(k + 1) \in Int
    BY <1>2, FirstDayType
  <1> QED
    BY <1>2, <1>3, <1>4, <1>5, <1>6, <1>7

\* A month is known by any of its days.
LEMMA MonthUnique ==
    ASSUME NEW d \in Int, NEW m \in Int, FirstDay(m) <= d, d < FirstDay(m + 1)
    PROVE  m = MonthOf(d)
  <1> DEFINE k == MonthOf(d)
  <1>1. k \in Int /\ FirstDay(k) <= d /\ d < FirstDay(k + 1)
    BY MonthOfDay
  <1> HIDE DEF k
  <1>2. /\ FirstDay(m) \in Int /\ FirstDay(m + 1) \in Int
        /\ FirstDay(k) \in Int /\ FirstDay(k + 1) \in Int
    BY <1>1, FirstDayType
  <1>3. ~(k < m)
    <2> SUFFICES ASSUME k < m PROVE FALSE
      OBVIOUS
    <2>1. k + 1 = m \/ k + 1 < m
      BY <1>1
    <2>2. FirstDay(k + 1) <= FirstDay(m)
      BY <1>1, <1>2, <2>1, FirstDayMonotonic
    <2> QED
      BY <1>1, <1>2, <2>2
  <1>4. ~(m < k)
    <2> SUFFICES ASSUME m < k PROVE FALSE
      OBVIOUS
    <2>1. m + 1 = k \/ m + 1 < k
      BY <1>1
    <2>2. FirstDay(m + 1) <= FirstDay(k)
      BY <1>1, <1>2, <2>1, FirstDayMonotonic
    <2> QED
      BY <1>1, <1>2, <2>2
  <1> QED
    BY <1>1, <1>3, <1>4 DEF k

Granularities == {"hour", "day", "month"}

LEMMA BucketType ==
    ASSUME NEW at \in Int, NEW g \in Granularities
    PROVE  Bucket(at, g) \in Int
  <1>1. CASE g = "hour"
    BY <1>1 DEF Bucket
  <1>2. CASE g = "day"
    BY <1>2 DEF Bucket
  <1>3. CASE g = "month"
    <2> DEFINE d == at \div 48
    <2>1. d \in Int
      OBVIOUS
    <2>2. Bucket(at, g) = 48 * FirstDay(MonthOf(d))
      BY <1>3 DEF Bucket
    <2> HIDE DEF d
    <2>3. FirstDay(MonthOf(d)) \in Int
      BY <2>1, MonthOfDay, FirstDayType
    <2> QED
      BY <2>2, <2>3
  <1> QED
    BY <1>1, <1>2, <1>3 DEF Granularities

\* nextWindow ends a window where the next bucket begins, unless the process is in
\* a time zone behind the one of the buckets: a time lies in the window of a bucket
\* if and only if that is its bucket.
LEMMA WindowOfBucket ==
    ASSUME ProcessZone \in 0..47, NEW g \in Granularities,
           NEW t \in Int, NEW u \in Int
    PROVE  Bucket(t, g) <= u /\ u < nextWindow(Bucket(t, g), g)
             <=> Bucket(u, g) = Bucket(t, g)
  <1>1. CASE g = "hour"
    BY <1>1 DEF Bucket, nextWindow
  <1>2. CASE g = "day"
    <2> DEFINE d == t \div 48
               e == u \div 48
    <2>1. /\ d \in Int /\ t - (t % 48) = 48 * d
          /\ e \in Int /\ u - (u % 48) = 48 * e
          /\ \A i \in Int : 48 * i <= u <=> i <= e
      OBVIOUS
    <2>2. /\ Bucket(t, g) = 48 * d /\ Bucket(u, g) = 48 * e
          /\ nextWindow(48 * d, g) = 48 * (d + 1)
      BY <1>2, <2>1 DEF Bucket, nextWindow
    <2> HIDE DEF d, e
    <2>3. 48 * d <= u /\ u < 48 * (d + 1) <=> d <= e /\ e < d + 1
      BY <2>1
    <2> QED
      BY <2>1, <2>2, <2>3
  <1>3. CASE g = "month"
    <2> DEFINE d == t \div 48
               e == u \div 48
               m == MonthOf(d)
               n == MonthOf(e)
               s == 48 * FirstDay(m)
    <2>1. d \in Int /\ e \in Int /\ \A i \in Int : 48 * i <= u <=> i <= e
      OBVIOUS
    <2>2. Bucket(t, g) = s /\ Bucket(u, g) = 48 * FirstDay(n)
      BY <1>3 DEF Bucket
    <2> HIDE DEF d, e
    <2>3. /\ m \in Int /\ FirstDay(m) <= d /\ d < FirstDay(m + 1)
          /\ n \in Int /\ FirstDay(n) <= e /\ e < FirstDay(n + 1)
      BY <2>1, MonthOfDay
    <2> HIDE DEF m, n
    <2>4. /\ FirstDay(m) \in Int /\ FirstDay(m + 1) \in Int
          /\ FirstDay(n) \in Int /\ FirstDay(n + 1) \in Int
      BY <2>3, FirstDayType
    <2>5. (s + ProcessZone) \div 48 = FirstDay(m)
      BY <2>4
    <2>6. MonthOf(FirstDay(m)) = m
      <3>1. FirstDay(m) < FirstDay(m + 1)
        BY <2>3, <2>4, FirstDayMonotonic
      <3> QED
        BY <2>3, <2>4, <3>1, MonthUnique
    <2>7. nextWindow(s, g) = s + 48 * (FirstDay(m + 1) - FirstDay(m))
      BY <1>3, <2>5, <2>6 DEF nextWindow, AddMonth
    <2>8. nextWindow(s, g) = 48 * FirstDay(m + 1)
      BY <2>4, <2>7
    <2>9. s <= u /\ u < nextWindow(s, g) <=> FirstDay(m) <= e /\ e < FirstDay(m + 1)
      BY <2>1, <2>4, <2>8
    <2>10. FirstDay(m) <= e /\ e < FirstDay(m + 1) <=> m = n
      BY <2>1, <2>3, MonthUnique DEF n
    <2>11. m = n <=> s = 48 * FirstDay(n)
      <3>1. m # n => FirstDay(m) # FirstDay(n)
        BY <2>3, <2>4, FirstDayMonotonic
      <3> QED
        BY <2>4, <3>1
    <2> QED
      BY <2>2, <2>9, <2>10, <2>11
  <1> QED
    BY <1>1, <1>2, <1>3 DEF Granularities

-----------------------------------------------------------------------------
(* The groups of a query and their order.                                  *)

LEMMA FactFields ==
    ASSUME NEW f \in Facts
    PROVE  /\ f.id \in Nat /\ f.at \in Int /\ f.quantity \in Int
           /\ f.dims \in Range(DimensionsText)
  BY QueryAssumption DEF Fact

LEMMA TextRankOrders ==
    ASSUME NEW d \in Range(DimensionsText), NEW e \in Range(DimensionsText)
    PROVE  TextRank(d) \in Int /\ TextRank(e) \in Int
           /\ (TextRank(d) = TextRank(e) => d = e)
  <1>1. DOMAIN DimensionsText \subseteq Int
    BY QueryAssumption
  <1>2. ASSUME NEW c \in Range(DimensionsText)
        PROVE  TextRank(c) \in DOMAIN DimensionsText /\ DimensionsText[TextRank(c)] = c
    BY <1>2 DEF Range, TextRank
  <1> QED
    BY <1>1, <1>2

LEMMA MatchingFacts ==
    ASSUME NEW rows \in SUBSET Facts, IsFiniteSet(rows), NEW q
    PROVE  Matching(rows, q) \in SUBSET rows /\ IsFiniteSet(Matching(rows, q))
  <1>1. Matching(rows, q) \in SUBSET rows
    BY DEF Matching
  <1> QED
    BY <1>1, FS_Subset

\* A group is known by its window and its dimensions, the GROUP BY columns.
LEMMA GroupsByKey ==
    ASSUME NEW rows, NEW q, NEW kind,
           NEW g \in Groups(rows, q, kind), NEW h \in Groups(rows, q, kind),
           g.start = h.start, g.dims = h.dims
    PROVE  g = h
  <1> DEFINE M == Matching(rows, q)
  <1>1. PICK e \in M : g = Group(e, M, q, kind)
    BY DEF Groups
  <1>2. PICK f \in M : h = Group(f, M, q, kind)
    BY DEF Groups
  <1>3. Bucket(e.at, q.granularity) = Bucket(f.at, q.granularity) /\ e.dims = f.dims
    BY <1>1, <1>2 DEF Group
  <1>4. {x \in M : SameGroup(e, x, q)} = {x \in M : SameGroup(f, x, q)}
    BY <1>3 DEF SameGroup
  <1> QED
    BY <1>1, <1>2, <1>3, <1>4 DEF Group

LEMMA GroupsFinite ==
    ASSUME NEW rows \in SUBSET Facts, IsFiniteSet(rows), NEW q, NEW kind
    PROVE  IsFiniteSet(Groups(rows, q, kind))
  <1> DEFINE M == Matching(rows, q)
             G == Groups(rows, q, kind)
             group == [f \in M |-> Group(f, M, q, kind)]
  <1>1. IsFiniteSet(M)
    BY MatchingFacts
  <1>2. G = {Group(f, M, q, kind) : f \in M}
    BY DEF Groups
  <1>3. group \in [M -> G] /\ \A g \in G : \E f \in M : group[f] = g
    BY <1>2
  <1>4. group \in Surjection(M, G)
    BY <1>3 DEF Surjection
  <1> QED
    BY <1>1, <1>4, FS_Surjection

\* Precedes as a relation between the groups of G.
Before(G) == {p \in G \X G : Precedes(p[1], p[2])}

LEMMA GroupFields ==
    ASSUME NEW rows \in SUBSET Facts, NEW q, q.granularity \in Granularities, NEW kind,
           NEW g \in Groups(rows, q, kind)
    PROVE  g.start \in Int /\ g.dims \in Range(DimensionsText)
  <1>1. PICK f \in Matching(rows, q) : g = Group(f, Matching(rows, q), q, kind)
    BY DEF Groups
  <1>2. f \in Facts
    BY DEF Matching
  <1>3. g.start = Bucket(f.at, q.granularity) /\ g.dims = f.dims
    BY <1>1 DEF Group
  <1> QED
    BY <1>2, <1>3, FactFields, BucketType

\* ORDER BY window_start, dimensions_json is a total order of the groups.
LEMMA GroupsOrdered ==
    ASSUME NEW rows \in SUBSET Facts, NEW q, q.granularity \in Granularities, NEW kind
    PROVE  StrictOrder(Groups(rows, q, kind), Before(Groups(rows, q, kind)))
  <1> DEFINE G == Groups(rows, q, kind)
  <1>1. ASSUME NEW g \in G PROVE g.start \in Int /\ TextRank(g.dims) \in Int
    BY GroupFields, TextRankOrders
  <1>2. ASSUME NEW g \in G, NEW h \in G, g # h
        PROVE  g.start # h.start \/ TextRank(g.dims) # TextRank(h.dims)
    BY <1>2, GroupsByKey, GroupFields, TextRankOrders
  <1> HIDE DEF G
  <1>3. \A g, h \in G : <<g, h>> \in Before(G) <=> Precedes(g, h)
    BY DEF Before
  <1>4. \A g \in G : ~Precedes(g, g)
    BY <1>1 DEF Precedes
  <1>5. \A g, h \in G : g # h => Precedes(g, h) \/ Precedes(h, g)
    BY <1>1, <1>2 DEF Precedes
  <1>6. \A g, h, k \in G : Precedes(g, h) /\ Precedes(h, k) => Precedes(g, k)
    BY <1>1 DEF Precedes
  <1>7. StrictOrder(G, Before(G))
    BY <1>3, <1>4, <1>5, <1>6 DEF StrictOrder
  <1> QED
    BY <1>7 DEF G

LEMMA RankIsBelow ==
    ASSUME NEW G, NEW g \in G
    PROVE  Rank(g, G) = Cardinality(Below(G, Before(G), g))
  <1>1. {h \in G : Precedes(h, g)} = Below(G, Before(G), g)
    BY DEF Below, Before
  <1> QED
    BY <1>1 DEF Rank

LEMMA RankType ==
    ASSUME NEW G, IsFiniteSet(G), NEW g
    PROVE  IsFiniteSet({h \in G : Precedes(h, g)}) /\ Rank(g, G) \in Nat
  BY FS_Subset, FS_CardinalityType DEF Rank

LEMMA RanksUnique ==
    ASSUME NEW rows \in SUBSET Facts, IsFiniteSet(rows), NEW q,
           q.granularity \in Granularities, NEW kind
    PROVE  LET G == Groups(rows, q, kind)
           IN  /\ \A g \in G : Rank(g, G) \in 0..(Cardinality(G) - 1)
               /\ \A g, h \in G : Rank(g, G) = Rank(h, G) => g = h
               /\ \A k \in 0..(Cardinality(G) - 1) : \E g \in G : Rank(g, G) = k
  <1> DEFINE G == Groups(rows, q, kind)
  <1>1. IsFiniteSet(G) /\ StrictOrder(G, Before(G))
    BY GroupsFinite, GroupsOrdered
  <1> HIDE DEF G
  <1>2. \A g \in G : Rank(g, G) \in 0..(Cardinality(G) - 1)
    BY <1>1, BelowGrows, RankIsBelow
  <1>3. ASSUME NEW g \in G, NEW h \in G, Rank(g, G) = Rank(h, G), g # h
        PROVE  FALSE
    <2>1. <<g, h>> \in Before(G) \/ <<h, g>> \in Before(G)
      BY <1>1, <1>3 DEF StrictOrder
    <2>2. Rank(g, G) < Rank(h, G) \/ Rank(h, G) < Rank(g, G)
      BY <1>1, <2>1, BelowGrows, RankIsBelow
    <2>3. Rank(g, G) \in Int /\ Rank(h, G) \in Int
      BY <1>2
    <2> QED
      BY <1>3, <2>2, <2>3
  <1>4. \A k \in 0..(Cardinality(G) - 1) : \E g \in G : Rank(g, G) = k
    BY <1>1, BelowCovers, RankIsBelow
  <1> QED
    BY <1>2, <1>3, <1>4 DEF G

\* A commit moves a group to a later position or leaves it where it is: groups
\* may come before it, and none goes away.
LEMMA RankGrows ==
    ASSUME NEW more \in SUBSET Facts, IsFiniteSet(more), NEW rows \in SUBSET more,
           NEW q, NEW kind, NEW f \in Matching(rows, q)
    PROVE  Rank(Group(f, Matching(rows, q), q, kind), Groups(rows, q, kind))
             <= Rank(Group(f, Matching(more, q), q, kind), Groups(more, q, kind))
  <1> DEFINE M == Matching(rows, q)
             N == Matching(more, q)
             G == Groups(rows, q, kind)
             H == Groups(more, q, kind)
             A == {g \in G : Precedes(g, Group(f, M, q, kind))}
             B == {h \in H : Precedes(h, Group(f, N, q, kind))}
             same(g, h) == g.start = h.start /\ g.dims = h.dims
             to == [g \in A |-> CHOOSE h \in B : same(g, h)]
  <1>1. IsFiniteSet(rows) /\ M \subseteq N
    BY FS_Subset DEF Matching
  <1>2. IsFiniteSet(G) /\ IsFiniteSet(H)
    BY <1>1, GroupsFinite
  <1>3. IsFiniteSet(B)
    BY <1>2, FS_Subset
  <1>4. ASSUME NEW g \in A PROVE \E h \in B : same(g, h)
    <2>1. PICK e \in M : g = Group(e, M, q, kind)
      BY DEF Groups
    <2>2. Group(e, N, q, kind) \in H
      BY <1>1, <2>1 DEF Groups
    <2>3. same(g, Group(e, N, q, kind))
      BY <2>1 DEF Group
    <2>4. same(Group(f, M, q, kind), Group(f, N, q, kind))
      BY DEF Group
    <2>5. Precedes(Group(e, N, q, kind), Group(f, N, q, kind))
      BY <2>3, <2>4, <1>4 DEF Precedes
    <2> QED
      BY <2>2, <2>3, <2>5
  <1>5. \A g \in A : to[g] \in B /\ same(g, to[g])
    <2> HIDE DEF A, B, same
    <2> QED
      BY <1>4
  <1>6. to \in Injection(A, B)
    <2>1. to \in [A -> B]
      BY <1>5
    <2>2. ASSUME NEW g \in A, NEW h \in A, to[g] = to[h] PROVE g = h
      BY <1>5, <2>2, GroupsByKey
    <2> QED
      BY <2>1, <2>2 DEF Injection, IsInjective
  <1>7. Cardinality(A) <= Cardinality(B)
    BY <1>3, <1>6, FS_Injection
  <1> QED
    BY <1>7 DEF Rank

-----------------------------------------------------------------------------
(* The pages of a query.                                                   *)

LEMMA PageSizeType ==
    ASSUME NEW q \in Queries
    PROVE  PageSize(q) \in Nat \ {0} /\ FirstPage(q) \in Nat \ {0}
           /\ (q.page <= 1 => FirstPage(q) = 1)
  BY QueryAssumption DEF Query, PageSize, FirstPage, DefaultPageSize

LEMMA Offsets ==
    ASSUME NEW q \in Queries, NEW n \in Nat \ {0}
    PROVE  /\ Offset(q, n) \in Nat /\ Offset(q, 1) = 0
           /\ Offset(q, n + 1) = Offset(q, n) + PageSize(q)
  <1> DEFINE s == PageSize(q)
  <1>1. s \in Nat
    BY PageSizeType
  <1> HIDE DEF s
  <1>2. (n - 1) * s \in Nat /\ (1 - 1) * s = 0 /\ ((n + 1) - 1) * s = (n - 1) * s + s
    BY <1>1
  <1> QED
    BY <1>2 DEF Offset, s

\* The rows P are the groups of G at the positions of page n; a page that is not
\* full has come to the end.
Slice(P, G, q, n) ==
    /\ \A i \in DOMAIN P : \E g \in G :
         Rank(g, G) = Offset(q, n) + i - 1 /\ P[i] = Point(g, q)
    /\ Offset(q, n) <= Cardinality(G) =>
         /\ Offset(q, n) + Len(P) <= Cardinality(G)
         /\ Len(P) < PageSize(q) => Offset(q, n) + Len(P) = Cardinality(G)
         /\ ~(Len(P) < PageSize(q)) => Offset(q, n) + Len(P) = Offset(q, n + 1)

\* LIMIT and OFFSET return the groups whose positions they name.
LEMMA PageRows ==
    ASSUME NEW rows \in SUBSET Facts, IsFiniteSet(rows), NEW q \in Queries,
           q.granularity \in Granularities, NEW kind, NEW n \in Nat \ {0}
    PROVE  LET G == Groups(rows, q, kind)
               P == PageOf(rows, q, n, kind)
           IN  /\ P \in Seq({Point(g, q) : g \in G})
               /\ Slice(P, G, q, n)
               /\ \A g \in G : \/ Rank(g, G) < Offset(q, n)
                               \/ \E i \in DOMAIN P : P[i] = Point(g, q)
                               \/ /\ Rank(g, G) >= Offset(q, n + 1)
                                  /\ Len(P) = PageSize(q)
  <1> DEFINE G == Groups(rows, q, kind)
             P == PageOf(rows, q, n, kind)
             size == PageSize(q)
             off == Offset(q, n)
             count == Cardinality(G)
             rest == count - off
             length == IF rest < 0 THEN 0 ELSE IF rest < size THEN rest ELSE size
             row(i) == CHOOSE g \in G : Rank(g, G) = off + i - 1
  <1>1. P = [i \in 1..length |-> Point(row(i), q)]
    BY DEF PageOf
  <1>2. /\ size \in Nat /\ off \in Nat /\ Offset(q, n + 1) = off + size
        /\ count \in Nat
    BY PageSizeType, Offsets, GroupsFinite, FS_CardinalityType
  <1>3. /\ \A g \in G : Rank(g, G) \in 0..(count - 1)
        /\ \A g, h \in G : Rank(g, G) = Rank(h, G) => g = h
        /\ \A k \in 0..(count - 1) : \E g \in G : Rank(g, G) = k
    BY RanksUnique
  <1> HIDE DEF G, P, size, off, count
  <1>4. length \in Nat /\ \A i \in 1..length : off + i - 1 \in 0..(count - 1)
    BY <1>2
  <1>5. ASSUME NEW i \in 1..length PROVE row(i) \in G /\ Rank(row(i), G) = off + i - 1
    BY <1>3, <1>4
  <1>6. Len(P) = length /\ DOMAIN P = 1..length
    BY <1>1, <1>4
  <1>7. ASSUME NEW g \in G, Rank(g, G) >= off, Rank(g, G) < off + length
        PROVE  \E i \in DOMAIN P : P[i] = Point(g, q)
    <2> DEFINE i == Rank(g, G) - off + 1
    <2>1. i \in 1..length /\ off + i - 1 = Rank(g, G)
      BY <1>2, <1>3, <1>4, <1>7
    <2> HIDE DEF i
    <2>2. row(i) = g
      BY <1>3, <1>5, <2>1
    <2> QED
      BY <1>1, <1>6, <2>1, <2>2
  <1>8. ASSUME NEW g \in G, Rank(g, G) >= off + length
        PROVE  Rank(g, G) >= Offset(q, n + 1) /\ length = size
    BY <1>2, <1>3, <1>8
  <1>9. \A g \in G : Rank(g, G) \in Int
    BY <1>3
  <1>10. off <= count =>
           /\ off + length <= count
           /\ length < size => off + length = count
           /\ ~(length < size) => off + length = Offset(q, n + 1)
    BY <1>2
  <1> HIDE DEF length, row
  <1>11. \A i \in DOMAIN P : \E g \in G : Rank(g, G) = off + i - 1 /\ P[i] = Point(g, q)
    BY <1>1, <1>5, <1>6
  <1>12. P \in Seq({Point(g, q) : g \in G})
    BY <1>1, <1>4, <1>5
  <1>13. Slice(P, G, q, n)
    BY <1>6, <1>11, <1>10 DEF Slice, size, off, count
  <1>14. ASSUME NEW g \in G
         PROVE  \/ Rank(g, G) < off
                \/ \E i \in DOMAIN P : P[i] = Point(g, q)
                \/ Rank(g, G) >= Offset(q, n + 1) /\ Len(P) = size
    <2>1. CASE Rank(g, G) < off
      BY <2>1
    <2>2. CASE Rank(g, G) >= off /\ Rank(g, G) < off + length
      BY <2>2, <1>7
    <2>3. CASE Rank(g, G) >= off + length
      BY <2>3, <1>8, <1>6
    <2> QED
      BY <2>1, <2>2, <2>3, <1>2, <1>4, <1>9
  <1> QED
    BY <1>14, <1>12, <1>13 DEF G, P, size, off

-----------------------------------------------------------------------------
(* The inductive invariant.                                                *)

\* What the table held at some moment since the walk began.
Views == {rows \in SUBSET facts : since \subseteq rows}

\* A fact's window is among those received.
Received(f) ==
    \E p \in Shown : /\ p.dims = f.dims
                     /\ p.start = Bucket(f.at, query.granularity)
                     /\ p.end = nextWindow(p.start, query.granularity)

\* The position of a fact's group in the result as it is now.
Position(f) ==
    Rank(Group(f, Matching(facts, query), query, aggregation[query.code]),
         Groups(facts, query, aggregation[query.code]))

\* Types; the table is finite, and the walk began with a part of it.
QueryTypeOK ==
    /\ aggregation \in [Codes -> Aggregations]
    /\ facts \in SUBSET Facts /\ IsFiniteSet(facts)
    /\ since \in SUBSET facts
    /\ query \in Queries
    /\ wpc \in {"idle", "check", "summary", "rows", "done"}
    /\ page \in Nat /\ (wpc # "idle" => page # 0)

\* Rows are read, and shown, only after the checks; and every point shown is a
\* group of one state of the table.
Checked ==
    wpc \in {"summary", "rows"} \/ shown # <<>> \/ reply = "ok" => ~MustRefuse(query)

PointsOf(rows) == {Point(g, query) : g \in Groups(rows, query, aggregation[query.code])}

PointsTrue ==
    shown # <<>> => wpc # "idle" /\ shown \in Seq(UNION {PointsOf(rows) : rows \in Views})

\* Between two pages, every fact the walk began with has been shown or lies ahead.
NothingPassed ==
    ~MustRefuse(query) /\ query.page <= 1 =>
        /\ wpc \in {"check", "summary", "rows"} =>
             \A f \in Matching(since, query) : Received(f) \/ Position(f) >= Offset(query, page)
        /\ Complete => \A f \in Matching(since, query) : Received(f)

\* As long as nothing is committed, what has been shown are the first groups in
\* their order, up to the page the walk is at, and the totals are those of the
\* table.
QuietPages ==
    facts = since /\ ~MustRefuse(query) /\ query.page <= 1 =>
        LET G == Groups(facts, query, aggregation[query.code])
        IN  /\ wpc \in {"check", "summary", "rows"} => Len(shown) = Offset(query, page)
            /\ Len(shown) <= Cardinality(G)
            /\ Complete => Len(shown) = Cardinality(G)
            /\ \A i \in DOMAIN shown : \E g \in G :
                  Rank(g, G) = i - 1 /\ shown[i] = Point(g, query)
            /\ wpc = "rows" \/ Complete => total = Cardinality(G) /\ totalQuantity = SumOf(G)

QueryInv == QueryTypeOK /\ Checked /\ PointsTrue /\ NothingPassed /\ QuietPages

LEMMA AcceptedQuery ==
    ASSUME NEW q, ~MustRefuse(q)
    PROVE  q.granularity \in Granularities /\ q.code \in Codes
  BY DEF MustRefuse, Granularities

LEMMA RefusalIsNoPage == \A q : "ok" \notin RefusalsOf(q)
  <1> SUFFICES ASSUME NEW q PROVE "ok" \notin RefusalsOf(q)
    OBVIOUS
  <1>1. TenantAnswer(q) # "ok"
    BY DEF TenantAnswer
  <1>2. "ok" \notin ApplicationAnswers(q)
    BY DEF ApplicationAnswers
  <1> QED
    BY <1>1, <1>2 DEF RefusalsOf

LEMMA ShownPoints ==
    ASSUME PointsTrue
    PROVE  shown \in Seq(UNION {PointsOf(rows) : rows \in Views})
  <1> DEFINE S == UNION {PointsOf(rows) : rows \in Views}
  <1>1. shown = <<>> \/ shown \in Seq(S)
    BY DEF PointsTrue
  <1> HIDE DEF S
  <1>2. <<>> \in Seq(S)
    OBVIOUS
  <1>3. shown \in Seq(S)
    BY <1>1, <1>2
  <1> QED
    BY <1>3 DEF S

LEMMA PositionType ==
    ASSUME QueryTypeOK, NEW f
    PROVE  Position(f) \in Nat
  BY GroupsFinite, RankType DEF Position, QueryTypeOK

LEMMA InitInv == QueryInit => QueryInv
  <1> SUFFICES ASSUME QueryInit PROVE QueryInv
    OBVIOUS
  <1>1. QueryTypeOK
    BY FS_EmptySet DEF QueryInit, QueryTypeOK
  <1>2. Checked /\ PointsTrue /\ NothingPassed
    BY DEF QueryInit, Checked, PointsTrue, NothingPassed, Complete
  <1>3. QuietPages
    <2>1. Cardinality(Groups(facts, query, aggregation[query.code])) \in Nat
      BY <1>1, GroupsFinite, FS_CardinalityType DEF QueryTypeOK
    <2> QED
      BY <2>1 DEF QueryInit, QuietPages, Complete
  <1> QED
    BY <1>1, <1>2, <1>3 DEF QueryInv

\* A commit makes views larger and positions later.
LEMMA CommitInv == QueryInv /\ CommitFacts => QueryInv'
  <1> SUFFICES ASSUME QueryInv, CommitFacts PROVE QueryInv'
    OBVIOUS
  <1> USE DEF QueryInv
  <1>1. PICK batch \in SUBSET (Facts \ facts) :
          batch # {} /\ IsFiniteSet(batch) /\ facts' = facts \cup batch
    BY DEF CommitFacts
  <1>2. /\ UNCHANGED <<aggregation, query, wpc, page, shown, since, reply>>
        /\ facts \in SUBSET facts' /\ facts' \in SUBSET Facts /\ IsFiniteSet(facts')
    BY <1>1, FS_Union DEF CommitFacts, QueryTypeOK
  <1>3. QueryTypeOK'
    BY <1>2 DEF QueryTypeOK
  <1>4. Checked'
    BY <1>2 DEF Checked
  <1>5. PointsTrue'
    <2> DEFINE S == UNION {PointsOf(rows) : rows \in Views}
    <2>1. Views \subseteq Views'
      BY <1>2 DEF Views
    <2>2. S' = UNION {PointsOf(rows) : rows \in Views'}
      BY <1>2 DEF PointsOf
    <2>3. S \subseteq S'
      BY <2>1, <2>2
    <2>4. shown \in Seq(S)
      BY ShownPoints
    <2> HIDE DEF S
    <2>5. shown \in Seq(S')
      BY <2>3, <2>4, SeqMonotonic
    <2> USE DEF S
    <2> QED
      BY <1>2, <2>5 DEF PointsTrue
  <1>6. NothingPassed'
    <2> DEFINE kind == aggregation[query.code]
    <2>1. ASSUME NEW f PROVE Received(f)' <=> Received(f)
      BY <1>2 DEF Received, Shown
    <2>2. ASSUME NEW f \in Matching(since, query) PROVE Position(f) <= Position(f)'
      <3>1. f \in Matching(facts, query)
        BY DEF Matching, QueryTypeOK
      <3>2. Position(f) = Rank(Group(f, Matching(facts, query), query, kind),
                               Groups(facts, query, kind))
        BY DEF Position
      <3>3. Position(f)' = Rank(Group(f, Matching(facts', query), query, kind),
                                Groups(facts', query, kind))
        BY <1>2 DEF Position
      <3> QED
        BY <1>2, <3>1, <3>2, <3>3, RankGrows
    <2>3. ASSUME NEW f PROVE Position(f) \in Nat /\ Position(f)' \in Nat
      BY <1>3, GroupsFinite, RankType DEF Position, QueryTypeOK
    <2>4. wpc \in {"check", "summary", "rows"} => Offset(query, page) \in Nat
      BY Offsets DEF QueryTypeOK
    <2> QED
      BY <1>2, <2>1, <2>2, <2>3, <2>4 DEF NothingPassed, Complete
  <1>7. QuietPages'
    <2>1. facts' # since'
      BY <1>1, <1>2 DEF QueryTypeOK
    <2> QED
      BY <2>1 DEF QuietPages
  <1> QED
    BY <1>3, <1>4, <1>5, <1>6, <1>7

\* The walk begins at the first page, before which there is nothing.
LEMMA BeginInv == QueryInv /\ Begin => QueryInv'
  <1> SUFFICES ASSUME QueryInv, Begin PROVE QueryInv'
    OBVIOUS
  <1> USE DEF QueryInv
  <1>1. /\ UNCHANGED <<aggregation, facts, query, shown, reply>>
        /\ wpc = "idle" /\ wpc' = "check" /\ since' = facts /\ page' = FirstPage(query)
    BY DEF Begin
  <1>2. shown = <<>>
    BY <1>1 DEF PointsTrue
  <1>3. QueryTypeOK'
    BY <1>1, PageSizeType DEF QueryTypeOK
  <1>4. Checked' /\ PointsTrue'
    BY <1>1, <1>2 DEF Checked, PointsTrue
  <1>5. NothingPassed'
    <2>1. query.page <= 1 => Offset(query, page') = 0
      BY <1>1, PageSizeType, Offsets DEF QueryTypeOK
    <2>2. ASSUME NEW f PROVE Position(f)' \in Nat
      BY <1>3, GroupsFinite, RankType DEF Position, QueryTypeOK
    <2> QED
      BY <1>1, <2>1, <2>2 DEF NothingPassed, Complete
  <1>6. QuietPages'
    <2> DEFINE G == Groups(facts, query, aggregation[query.code])
    <2>1. query.page <= 1 => Offset(query, page') = 0
      BY <1>1, PageSizeType, Offsets DEF QueryTypeOK
    <2>2. Cardinality(G) \in Nat
      BY GroupsFinite, FS_CardinalityType DEF QueryTypeOK
    <2>3. G' = G /\ shown' = <<>> /\ ~Complete'
      BY <1>1, <1>2 DEF Complete
    <2> HIDE DEF G
    <2>4. facts' = since' /\ ~MustRefuse(query)' /\ query'.page <= 1 =>
            /\ Len(shown') = Offset(query', page') /\ Len(shown') <= Cardinality(G')
            /\ \A i \in DOMAIN shown' : \E g \in G' :
                  Rank(g, G') = i - 1 /\ shown'[i] = Point(g, query')
      BY <1>1, <2>1, <2>2, <2>3
    <2> USE DEF G
    <2> QED
      BY <1>1, <2>3, <2>4 DEF QuietPages
  <1> QED
    BY <1>3, <1>4, <1>5, <1>6

LEMMA CheckInv == QueryInv /\ (Refused \/ Accepted \/ Summarize \/ StatementFails) => QueryInv'
  <1> SUFFICES ASSUME QueryInv, Refused \/ Accepted \/ Summarize \/ StatementFails
               PROVE  QueryInv'
    OBVIOUS
  <1> USE DEF QueryInv
  <1>1. /\ UNCHANGED <<aggregation, facts, query, page, shown, since>>
        /\ wpc \in {"check", "summary", "rows"}
        /\ \/ wpc' = "done" /\ reply' # "ok"
           \/ wpc' \in {"summary", "rows"} /\ reply' = reply /\ ~MustRefuse(query)
    BY RefusalIsNoPage DEF Refused, Accepted, Summarize, StatementFails, Checked
  <1>2. QueryTypeOK' /\ Checked'
    BY <1>1 DEF QueryTypeOK, Checked
  <1>3. PointsTrue'
    BY <1>1 DEF PointsTrue, PointsOf, Views
  <1>4. ASSUME NEW f
        PROVE  (Received(f)' <=> Received(f)) /\ Position(f)' = Position(f)
    BY <1>1 DEF Received, Shown, Position
  <1>5. NothingPassed'
    BY <1>1, <1>4 DEF NothingPassed, Complete
  <1>6. QuietPages'
    <2> DEFINE G == Groups(facts, query, aggregation[query.code])
    <2>1. /\ wpc' # "rows" \/ (total' = Cardinality(G) /\ totalQuantity' = SumOf(G))
          /\ ~Complete'
      BY <1>1 DEF Refused, Accepted, Summarize, StatementFails, Complete
    <2> QED
      BY <1>1, <2>1 DEF QuietPages
  <1> QED
    BY <1>2, <1>3, <1>5, <1>6

\* A page shows the groups at its positions; the others lie ahead or were shown.
LEMMA SelectInv == QueryInv /\ SelectRows => QueryInv'
  <1> SUFFICES ASSUME QueryInv, SelectRows PROVE QueryInv'
    OBVIOUS
  <1> USE DEF QueryInv
  <1> DEFINE kind == aggregation[query.code]
             P == PageOf(facts, query, page, kind)
             G == Groups(facts, query, kind)
             S == UNION {PointsOf(rows) : rows \in Views}
  <1>1. /\ UNCHANGED <<aggregation, facts, query, total, totalQuantity, since>>
        /\ wpc = "rows" /\ shown' = shown \o P
        /\ \/ Len(P) < PageSize(query) /\ wpc' = "done" /\ page' = page
           \/ ~(Len(P) < PageSize(query)) /\ wpc' = "check" /\ page' = page + 1 /\ reply' = reply
    BY DEF SelectRows
  <1>2. /\ facts \in SUBSET Facts /\ IsFiniteSet(facts) /\ query \in Queries
        /\ page \in Nat \ {0} /\ page' \in Nat \ {0} /\ page <= page'
    BY <1>1 DEF QueryTypeOK
  <1>3. QueryTypeOK'
    BY <1>1 DEF QueryTypeOK
  <1>4. ~MustRefuse(query) /\ query.granularity \in Granularities
    BY <1>1, AcceptedQuery DEF Checked
  <1>5. shown \in Seq(S) /\ P \in Seq(S) /\ S' = S
    <2>1. shown \in Seq(S)
      BY ShownPoints
    <2>2. P \in Seq(PointsOf(facts))
      BY <1>2, <1>4, PageRows DEF PointsOf
    <2>3. facts \in Views
      BY DEF Views, QueryTypeOK
    <2>4. PointsOf(facts) \subseteq S
      BY <2>3
    <2>5. S' = S
      BY <1>1 DEF PointsOf, Views
    <2> HIDE DEF P, S
    <2> QED
      BY <2>1, <2>2, <2>4, <2>5, SeqMonotonic
  <1>6. Checked'
    BY <1>1, <1>4 DEF Checked
  <1>7. /\ shown' \in Seq(S) /\ Len(shown') = Len(shown) + Len(P)
        /\ Len(shown) \in Nat /\ Len(P) \in Nat
        /\ DOMAIN shown = 1..Len(shown) /\ DOMAIN P = 1..Len(P)
        /\ DOMAIN shown' = 1..(Len(shown) + Len(P))
        /\ \A i \in DOMAIN shown' :
             shown'[i] = IF i <= Len(shown) THEN shown[i] ELSE P[i - Len(shown)]
    <2> HIDE DEF P, S
    <2> QED
      BY <1>1, <1>5, ConcatProperties
  <1>8. PointsTrue'
    <2> HIDE DEF P
    <2> QED
      BY <1>1, <1>5, <1>7 DEF PointsTrue
  <1>9. Shown' = Shown \cup Range(P)
    <2> HIDE DEF P, S
    <2>1. \A i \in DOMAIN P : i + Len(shown) \in DOMAIN shown' /\ shown'[i + Len(shown)] = P[i]
      BY <1>7
    <2>2. \A i \in DOMAIN shown : i \in DOMAIN shown' /\ shown'[i] = shown[i]
      BY <1>7
    <2>3. \A i \in DOMAIN shown' : shown'[i] \in Shown \cup Range(P)
      BY <1>7 DEF Shown, Range
    <2> QED
      BY <2>1, <2>2, <2>3 DEF Shown, Range
  <1>10. ASSUME NEW f \in Matching(since, query), query.page <= 1
        PROVE  \/ Received(f)'
               \/ Position(f)' >= Offset(query, page + 1) /\ Len(P) = PageSize(query)
    <2> DEFINE M == Matching(facts, query)
               g == Group(f, M, query, kind)
    <2>1. Received(f) => Received(f)'
      BY <1>1, <1>9 DEF Received
    <2>2. Received(f) \/ Position(f) >= Offset(query, page)
      BY <1>1, <1>4, <1>10 DEF NothingPassed
    <2>3. f \in M /\ g \in G
      BY DEF Matching, Groups, QueryTypeOK
    <2>4. Position(f) = Rank(g, G) /\ Position(f)' = Rank(g, G)
      BY <1>1 DEF Position
    <2>5. Position(f) \in Nat /\ Offset(query, page) \in Nat
      BY <1>2, PositionType, Offsets
    <2>6. \/ Rank(g, G) < Offset(query, page)
          \/ \E i \in DOMAIN P : P[i] = Point(g, query)
          \/ Rank(g, G) >= Offset(query, page + 1) /\ Len(P) = PageSize(query)
      BY <1>2, <1>4, <2>3, PageRows
    <2>7. ASSUME NEW i \in DOMAIN P, P[i] = Point(g, query) PROVE Received(f)'
      <3>1. Point(g, query) \in Shown'
        BY <1>9, <2>7 DEF Range
      <3>2. /\ Point(g, query).dims = f.dims
            /\ Point(g, query).start = Bucket(f.at, query.granularity)
            /\ Point(g, query).end = nextWindow(Point(g, query).start, query.granularity)
        BY DEF Point, Group
      <3> QED
        BY <1>1, <3>1, <3>2 DEF Received
    <2> HIDE DEF P, M, G, g
    <2> QED
      BY <2>1, <2>2, <2>4, <2>5, <2>6, <2>7
  <1>11. NothingPassed'
    <2>1. Len(P) \in Nat /\ PageSize(query) \in Nat
      BY <1>2, <1>7, PageSizeType
    <2> HIDE DEF P
    <2> QED
      BY <1>1, <1>4, <1>10, <2>1 DEF NothingPassed, Complete
  <1>12. Slice(P, G, query, page)
    BY <1>2, <1>4, PageRows
  <1>13. QuietPages'
    <2> SUFFICES ASSUME facts = since, query.page <= 1
                 PROVE  /\ wpc' \in {"check", "summary", "rows"} =>
                             Len(shown') = Offset(query, page')
                        /\ Len(shown') <= Cardinality(G)
                        /\ Complete' => Len(shown') = Cardinality(G)
                        /\ \A i \in DOMAIN shown' : \E g \in G :
                              Rank(g, G) = i - 1 /\ shown'[i] = Point(g, query)
                        /\ total = Cardinality(G) /\ totalQuantity = SumOf(G)
      BY <1>1 DEF QuietPages
    <2>1. /\ Len(shown) = Offset(query, page) /\ Len(shown) <= Cardinality(G)
          /\ \A i \in DOMAIN shown : \E g \in G :
               Rank(g, G) = i - 1 /\ shown[i] = Point(g, query)
          /\ total = Cardinality(G) /\ totalQuantity = SumOf(G)
      BY <1>1, <1>4 DEF QuietPages
    <2>2. /\ \A i \in DOMAIN P : \E g \in G :
               Rank(g, G) = Offset(query, page) + i - 1 /\ P[i] = Point(g, query)
          /\ Offset(query, page) + Len(P) <= Cardinality(G)
          /\ Len(P) < PageSize(query) => Offset(query, page) + Len(P) = Cardinality(G)
          /\ ~(Len(P) < PageSize(query)) => Offset(query, page) + Len(P) = Offset(query, page + 1)
      <3> HIDE DEF P, G
      <3> QED
        BY <1>12, <2>1 DEF Slice
    <2> HIDE DEF P, G, S
    <2>3. ASSUME NEW i \in DOMAIN shown'
          PROVE  \E g \in G : Rank(g, G) = i - 1 /\ shown'[i] = Point(g, query)
      <3>1. CASE i <= Len(shown)
        BY <1>7, <2>1, <3>1
      <3>2. CASE ~(i <= Len(shown))
        <4> DEFINE j == i - Len(shown)
        <4>1. j \in DOMAIN P /\ shown'[i] = P[j] /\ Offset(query, page) + j - 1 = i - 1
          BY <1>7, <2>1, <3>2
        <4> HIDE DEF j
        <4> QED
          BY <2>2, <4>1
      <3> QED
        BY <3>1, <3>2
    <2> QED
      BY <1>1, <1>7, <2>1, <2>2, <2>3 DEF Complete
  <1> QED
    BY <1>3, <1>6, <1>8, <1>11, <1>13

LEMMA NextInv == QueryInv /\ [QueryNext]_queryVars => QueryInv'
  <1> SUFFICES ASSUME QueryInv, [QueryNext]_queryVars PROVE QueryInv'
    OBVIOUS
  <1>1. ASSUME UNCHANGED queryVars PROVE QueryInv'
    BY <1>1 DEF queryVars, QueryInv, QueryTypeOK, Checked, PointsTrue, NothingPassed, QuietPages,
                Complete, Views, PointsOf, Received, Shown, Position
  <1> QED
    BY <1>1, CommitInv, BeginInv, CheckInv, SelectInv DEF QueryNext, WalkStep

-----------------------------------------------------------------------------
(* What the invariant says of the points a client has received.            *)

\* A point is a group of some view of the table.
LEMMA TruePoints ==
    ASSUME QueryInv, NEW p \in Shown
    PROVE  /\ ~MustRefuse(query)
           /\ \E rows \in Views : \E f \in Matching(rows, query) :
                p = Point(Group(f, Matching(rows, query), query, aggregation[query.code]), query)
  <1> DEFINE S == UNION {PointsOf(rows) : rows \in Views}
  <1>1. PICK k \in DOMAIN shown : p = shown[k]
    BY DEF Shown, Range
  <1>2. shown \in Seq(S)
    BY ShownPoints DEF QueryInv
  <1>3. p \in S /\ shown # <<>>
    <2> HIDE DEF S
    <2> QED
      BY <1>1, <1>2
  <1>4. ~MustRefuse(query)
    BY <1>3 DEF QueryInv, Checked
  <1>5. PICK rows \in Views : p \in PointsOf(rows)
    BY <1>3
  <1>6. PICK g \in Groups(rows, query, aggregation[query.code]) : p = Point(g, query)
    BY <1>5 DEF PointsOf
  <1>7. PICK f \in Matching(rows, query) :
          g = Group(f, Matching(rows, query), query, aggregation[query.code])
    BY DEF Groups
  <1> QED
    BY <1>4, <1>6, <1>7

LEMMA AuthorizedInv == QueryInv => ShownAuthorized
  <1> SUFFICES ASSUME QueryInv, NEW p \in Shown
               PROVE  /\ query.who \in {"service", query.tenant}
                      /\ [tenant |-> query.tenant, app |-> query.app] \in Granted
                      /\ \E f \in facts : /\ f.tenant = query.tenant /\ f.app = query.app
                                          /\ f.dims = p.dims
                                          /\ Bucket(f.at, query.granularity) = p.start
    BY DEF ShownAuthorized
  <1>1. ~MustRefuse(query)
    BY TruePoints
  <1>2. query.who \in {"service", query.tenant}
    <2>1. TenantAnswer(query) = "none"
      BY <1>1 DEF MustRefuse
    <2> QED
      BY <2>1 DEF TenantAnswer
  <1>3. [tenant |-> query.tenant, app |-> query.app] \in Granted
    BY <1>1 DEF MustRefuse, ApplicationAnswers
  <1>4. PICK rows \in Views : \E f \in Matching(rows, query) :
          p = Point(Group(f, Matching(rows, query), query, aggregation[query.code]), query)
    BY TruePoints
  <1>4a. PICK f \in Matching(rows, query) :
          p = Point(Group(f, Matching(rows, query), query, aggregation[query.code]), query)
    BY <1>4
  <1>5. f \in facts /\ f.tenant = query.tenant /\ f.app = query.app
    BY DEF Views, Matching, Matches
  <1>6. f.dims = p.dims /\ Bucket(f.at, query.granularity) = p.start
    BY <1>4a DEF Point, Group
  <1> QED
    BY <1>2, <1>3, <1>5, <1>6

LEMMA GreatestInteger ==
    ASSUME NEW Q \in SUBSET Int, IsFiniteSet(Q), Q # {}
    PROVE  \E x \in Q : \A y \in Q : x >= y
  <1> DEFINE R == {p \in Int \X Int : p[1] < p[2]}
  <1>1. StrictOrder(Q, R)
    BY DEF StrictOrder
  <1>2. \A x, y \in Q : <<x, y>> \in R => y >= x
    OBVIOUS
  <1> HIDE DEF R
  <1>3. PICK x \in Q : \A y \in Q \ {x} : <<y, x>> \in R
    BY <1>1, Greatest
  <1>4. ASSUME NEW y \in Q PROVE x >= y
    <2>1. CASE y = x
      BY <2>1
    <2>2. CASE y # x
      <3>1. <<y, x>> \in R
        BY <2>2, <1>3
      <3> QED
        BY <3>1, <1>2
    <2> QED
      BY <2>1, <2>2
  <1> QED
    BY <1>4

\* The value MAX returns exists and is that of a row.
LEMMA MaxOfRows ==
    ASSUME NEW rows \in SUBSET Facts, IsFiniteSet(rows), rows # {}
    PROVE  \E f \in rows : /\ f.quantity = Aggregate(rows, "max")
                           /\ \A g \in rows : g.quantity <= f.quantity
  <1> DEFINE Q == {f.quantity : f \in rows}
             quantity == [f \in rows |-> f.quantity]
  <1>1. Q \in SUBSET Int /\ Q # {}
    BY FactFields
  <1>2. quantity \in [rows -> Q] /\ \A x \in Q : \E f \in rows : quantity[f] = x
    OBVIOUS
  <1>3. quantity \in Surjection(rows, Q)
    BY <1>2 DEF Surjection
  <1>4. IsFiniteSet(Q)
    BY <1>3, FS_Surjection
  <1>5. \E z \in Q : \A y \in Q : z >= y
    <2> HIDE DEF Q
    <2> QED
      BY <1>1, <1>4, GreatestInteger
  <1>6. Max(Q) \in Q /\ \A y \in Q : Max(Q) >= y
    <2> HIDE DEF Q
    <2> QED
      BY <1>5 DEF Max
  <1>7. Aggregate(rows, "max") = Max(Q)
    BY DEF Aggregate
  <1>8. PICK f \in rows : f.quantity = Max(Q)
    BY <1>6
  <1>9. \A g \in rows : g.quantity <= f.quantity
    BY <1>6, <1>8
  <1> QED
    BY <1>7, <1>8, <1>9

\* ORDER BY occurred_at DESC, id DESC has a first row, and only one.
LEMMA LastOfRows ==
    ASSUME NEW rows \in SUBSET Facts, IsFiniteSet(rows), rows # {}
    PROVE  \E f \in rows : /\ f.quantity = Aggregate(rows, "last")
                           /\ \A g \in rows \ {f} : Later(f, g)
  <1> DEFINE R == {p \in rows \X rows : Later(p[2], p[1])}
  <1>1. \A f \in rows : f.at \in Int /\ f.id \in Int
    BY FactFields
  <1>2. \A f, g \in rows : f.id = g.id => f = g
    BY QueryAssumption
  <1>3. StrictOrder(rows, R)
    <2>1. \A f, g \in rows : <<f, g>> \in R <=> Later(g, f)
      OBVIOUS
    <2> HIDE DEF R
    <2>2. \A f \in rows : <<f, f>> \notin R
      BY <1>1, <2>1 DEF Later
    <2>3. \A f, g \in rows : f # g => <<f, g>> \in R \/ <<g, f>> \in R
      BY <1>1, <1>2, <2>1 DEF Later
    <2>4. \A f, g, h \in rows : <<f, g>> \in R /\ <<g, h>> \in R => <<f, h>> \in R
      BY <1>1, <2>1 DEF Later
    <2> QED
      BY <2>2, <2>3, <2>4 DEF StrictOrder
  <1>4. \E f \in rows : \A g \in rows \ {f} : Later(f, g)
    <2>1. PICK f \in rows : \A g \in rows \ {f} : <<g, f>> \in R
      <3> HIDE DEF R
      <3> QED
        BY <1>3, Greatest
    <2> QED
      BY <2>1
  <1> DEFINE last == CHOOSE f \in rows : \A g \in rows \ {f} : Later(f, g)
  <1>5. last \in rows /\ \A g \in rows \ {last} : Later(last, g)
    BY <1>4
  <1>6. Aggregate(rows, "last") = last.quantity
    BY DEF Aggregate
  <1> QED
    BY <1>5, <1>6

LEMMA UpToDateInv == QueryInv => PointsUpToDate
  <1> SUFFICES ASSUME QueryInv, NEW p \in Shown
               PROVE  LET group(rows) == {f \in Matching(rows, query) :
                              f.dims = p.dims /\ Bucket(f.at, query.granularity) = p.start}
                          from == {f \in group(facts) : f.quantity = p.quantity}
                      IN  /\ aggregation[query.code] = "max" =>
                               \E f \in from : \A g \in group(since) : g.quantity <= f.quantity
                          /\ aggregation[query.code] = "last" =>
                               \E f \in from : \A g \in group(since) \ {f} :
                                  f.at > g.at \/ (f.at = g.at /\ f.id > g.id)
    BY DEF PointsUpToDate
  <1> DEFINE group(rows) == {f \in Matching(rows, query) :
                  f.dims = p.dims /\ Bucket(f.at, query.granularity) = p.start}
             from == {f \in group(facts) : f.quantity = p.quantity}
             kind == aggregation[query.code]
  <1>0. PICK rows \in Views : \E e \in Matching(rows, query) :
          p = Point(Group(e, Matching(rows, query), query, kind), query)
    BY TruePoints
  <1>1. PICK e \in Matching(rows, query) :
          p = Point(Group(e, Matching(rows, query), query, kind), query)
    BY <1>0
  <1> DEFINE members == {f \in Matching(rows, query) : SameGroup(e, f, query)}
  <1>2. /\ p.dims = e.dims /\ p.start = Bucket(e.at, query.granularity)
        /\ p.quantity = Aggregate(members, kind)
    BY <1>1 DEF Point, Group
  <1>3. members = group(rows)
    BY <1>2 DEF SameGroup
  <1>4. e \in members
    BY DEF SameGroup
  <1>5. members \subseteq rows /\ members \subseteq group(facts) /\ group(since) \subseteq members
    BY <1>3 DEF Views, Matching
  <1>6. rows \in SUBSET facts /\ facts \in SUBSET Facts /\ IsFiniteSet(facts)
    BY DEF Views, QueryInv, QueryTypeOK
  <1>7. members \in SUBSET Facts /\ IsFiniteSet(members) /\ members # {}
    <2> HIDE DEF members
    <2>1. members \in SUBSET facts
      BY <1>5, <1>6
    <2> QED
      BY <1>4, <1>6, <2>1, FS_Subset
  <1> HIDE DEF members, group
  <1>8. ASSUME kind = "max"
        PROVE  \E f \in from : \A g \in group(since) : g.quantity <= f.quantity
    BY <1>2, <1>5, <1>7, <1>8, MaxOfRows
  <1>9. ASSUME kind = "last"
        PROVE  \E f \in from : \A g \in group(since) \ {f} : Later(f, g)
    BY <1>2, <1>5, <1>7, <1>9, LastOfRows
  <1> QED
    BY <1>8, <1>9 DEF group, Later

-----------------------------------------------------------------------------
(* The totals of a query.                                                  *)

\* Every aggregation of a group is an integer.
LEMMA GroupsQuantified ==
    ASSUME NEW rows \in SUBSET Facts, IsFiniteSet(rows), NEW q, NEW kind \in Aggregations
    PROVE  Quantified(Groups(rows, q, kind)) /\ Quantified(Matching(rows, q))
  <1> DEFINE M == Matching(rows, q)
             G == Groups(rows, q, kind)
  <1>1. M \in SUBSET Facts /\ IsFiniteSet(M) /\ IsFiniteSet(G)
    BY MatchingFacts, GroupsFinite
  <1>2. Quantified(M)
    BY <1>1, FactFields DEF Quantified
  <1>3. ASSUME NEW g \in G PROVE g.quantity \in Int
    <2>1. PICK f \in M : g = Group(f, M, q, kind)
      BY DEF Groups
    <2> DEFINE members == {e \in M : SameGroup(f, e, q)}
    <2>2. g.quantity = Aggregate(members, kind)
      BY <2>1 DEF Group
    <2>3. members \in SUBSET M /\ f \in members
      BY DEF SameGroup
    <2> HIDE DEF M, members
    <2>4. members \in SUBSET Facts /\ IsFiniteSet(members) /\ Quantified(members)
      BY <1>1, <1>2, <2>3, FS_Subset, QuantifiedSubset
    <2>5. CASE kind = "sum"
      BY <2>2, <2>4, <2>5, SumType DEF Aggregate
    <2>6. CASE kind = "count"
      BY <2>2, <2>4, <2>6, FS_CardinalityType DEF Aggregate
    <2>7. CASE kind = "max"
      BY <2>2, <2>3, <2>4, <2>7, MaxOfRows, FactFields
    <2>8. CASE kind = "last"
      BY <2>2, <2>3, <2>4, <2>8, LastOfRows, FactFields
    <2> QED
      BY <2>5, <2>6, <2>7, <2>8 DEF Aggregations
  <1> QED
    BY <1>1, <1>2, <1>3 DEF Quantified

\* GROUP BY divides the matching facts: the sum over the groups of a sum or of a
\* count is that of the facts.
LEMMA GroupsDivide ==
    ASSUME NEW rows \in SUBSET Facts, IsFiniteSet(rows), NEW q
    PROVE  /\ SumOf(Groups(rows, q, "sum")) = SumOf(Matching(rows, q))
           /\ SumOf(Groups(rows, q, "count")) = Cardinality(Matching(rows, q))
  <1> DEFINE M == Matching(rows, q)
             part(g) == {e \in M : Bucket(e.at, q.granularity) = g.start /\ e.dims = g.dims}
  <1>1. M \in SUBSET Facts /\ IsFiniteSet(M) /\ Quantified(M)
    BY MatchingFacts, GroupsQuantified DEF Aggregations
  <1>2. ASSUME NEW kind \in {"sum", "count"}
        PROVE  LET G == Groups(rows, q, kind)
                   m == [g \in G |-> part(g)]
               IN  /\ \A g \in G : m[g] \in SUBSET M /\ g.quantity = Aggregate(m[g], kind)
                   /\ \A g, h \in G : g # h => m[g] \cap m[h] = {}
                   /\ \A x \in M : \E g \in G : x \in m[g]
    <2> DEFINE G == Groups(rows, q, kind)
    <2>1. ASSUME NEW g \in G PROVE g.quantity = Aggregate(part(g), kind)
      <3>1. PICK f \in M : g = Group(f, M, q, kind)
        BY DEF Groups
      <3>2. {e \in M : SameGroup(f, e, q)} = part(g)
        BY <3>1 DEF Group, SameGroup
      <3>3. g.quantity = Aggregate({e \in M : SameGroup(f, e, q)}, kind)
        BY <3>1 DEF Group
      <3> HIDE DEF part
      <3> QED
        BY <3>2, <3>3, Zenon
    <2>2. ASSUME NEW g \in G, NEW h \in G, g # h PROVE part(g) \cap part(h) = {}
      BY <2>2, GroupsByKey
    <2>3. ASSUME NEW e \in M PROVE \E g \in G : e \in part(g)
      <3>1. Group(e, M, q, kind) \in G
        BY DEF Groups
      <3>2. e \in part(Group(e, M, q, kind))
        BY DEF Group
      <3> QED
        BY <3>1, <3>2
    <2>4. \A g : part(g) \in SUBSET M
      OBVIOUS
    <2> HIDE DEF G, M, part
    <2> DEFINE m == [g \in G |-> part(g)]
    <2>5. \A x \in M : \E g \in G : x \in m[g]
      BY <2>3
    <2>6. /\ \A g \in G : m[g] \in SUBSET M /\ g.quantity = Aggregate(m[g], kind)
          /\ \A g, h \in G : g # h => m[g] \cap m[h] = {}
      BY <2>1, <2>2, <2>4
    <2> HIDE DEF m
    <2>7. /\ \A g \in G : m[g] \in SUBSET M /\ g.quantity = Aggregate(m[g], kind)
          /\ \A g, h \in G : g # h => m[g] \cap m[h] = {}
          /\ \A x \in M : \E g \in G : x \in m[g]
      BY <2>5, <2>6
    <2> QED
      BY <2>7 DEF G, m
  <1>3. SumOf(Groups(rows, q, "sum")) = SumOf(M)
    <2> DEFINE G == Groups(rows, q, "sum")
               m == [g \in G |-> part(g)]
               w == [s \in SUBSET M |-> SumOf(s)]
    <2>1. /\ \A g \in G : m[g] \in SUBSET M /\ g.quantity = Aggregate(m[g], "sum")
          /\ \A g, h \in G : g # h => m[g] \cap m[h] = {}
          /\ \A x \in M : \E g \in G : x \in m[g]
      BY <1>2
    <2>2. Quantified(G)
      BY GroupsQuantified DEF Aggregations
    <2> HIDE DEF G, M, m
    <2>3. \A s \in SUBSET M : Aggregate(s, "sum") = w[s]
      BY DEF Aggregate
    <2>4. w[{}] = 0 /\ w[M] = SumOf(M)
      BY FS_EmptySet, SumStep
    <2>5. ASSUME NEW a \in SUBSET M, NEW b \in SUBSET M, a \cap b = {}
          PROVE  w[a \cup b] = w[a] + w[b]
      <3>1. Quantified(a) /\ Quantified(b)
        BY <1>1, QuantifiedSubset
      <3>2. SumOf(a \cup b) = SumOf(a) + SumOf(b)
        BY <2>5, <3>1, SumUnion
      <3> QED
        BY <3>2
    <2> HIDE DEF w
    <2>6. SumOf(G) = w[M]
      <3>1. \A g \in G : m[g] \in SUBSET M /\ g.quantity = w[m[g]]
        BY <2>1, <2>3
      <3>2. \A a, b \in SUBSET M : a \cap b = {} => w[a \cup b] = w[a] + w[b]
        BY <2>5
      <3>3. Measured(G, M, w, m)
        BY <2>1, <2>4, <3>1, <3>2 DEF Measured
      <3> QED
        BY <2>2, <3>3, SumOfParts
    <2> QED
      BY <2>4, <2>6 DEF G
  <1>4. SumOf(Groups(rows, q, "count")) = Cardinality(M)
    <2> DEFINE G == Groups(rows, q, "count")
               m == [g \in G |-> part(g)]
               w == [s \in SUBSET M |-> Cardinality(s)]
    <2>1. /\ \A g \in G : m[g] \in SUBSET M /\ g.quantity = Aggregate(m[g], "count")
          /\ \A g, h \in G : g # h => m[g] \cap m[h] = {}
          /\ \A x \in M : \E g \in G : x \in m[g]
      BY <1>2
    <2>2. Quantified(G)
      BY GroupsQuantified DEF Aggregations
    <2> HIDE DEF G, M, m
    <2>3. \A s \in SUBSET M : Aggregate(s, "count") = w[s]
      BY DEF Aggregate
    <2>4. w[{}] = 0 /\ w[M] = Cardinality(M)
      BY FS_EmptySet
    <2>5. ASSUME NEW a \in SUBSET M, NEW b \in SUBSET M, a \cap b = {}
          PROVE  w[a \cup b] = w[a] + w[b]
      <3>1. IsFiniteSet(a) /\ IsFiniteSet(b)
        BY <1>1, FS_Subset
      <3>2. Cardinality(a \cup b) = Cardinality(a) + Cardinality(b)
        <4>1. Cardinality(a \cap b) = 0
          BY <2>5, FS_EmptySet, Zenon
        <4>2. Cardinality(a) \in Nat /\ Cardinality(b) \in Nat
          BY <3>1, FS_CardinalityType
        <4>3. Cardinality(a \cup b) = Cardinality(a) + Cardinality(b) - Cardinality(a \cap b)
          BY <3>1, FS_Union, Zenon
        <4> QED
          BY <4>1, <4>2, <4>3
      <3> QED
        BY <3>2
    <2> HIDE DEF w
    <2>6. SumOf(G) = w[M]
      <3>1. \A g \in G : m[g] \in SUBSET M /\ g.quantity = w[m[g]]
        BY <2>1, <2>3
      <3>2. \A a, b \in SUBSET M : a \cap b = {} => w[a \cup b] = w[a] + w[b]
        BY <2>5
      <3>3. Measured(G, M, w, m)
        BY <2>1, <2>4, <3>1, <3>2 DEF Measured
      <3> QED
        BY <2>2, <3>3, SumOfParts
    <2> QED
      BY <2>4, <2>6 DEF G
  <1> QED
    BY <1>3, <1>4

\* A walk during which nothing is committed shows the groups one by one in their
\* order, each once, and so adds up to the totals.
LEMMA QuietInv == QueryInv => QuietWalkExact
  <1> SUFFICES ASSUME QueryInv, Complete, query.page <= 1, facts = since
               PROVE  /\ Len(shown) = total /\ IsInjective(shown)
                      /\ SumOf(Shown) = totalQuantity
                      /\ aggregation[query.code] = "sum" =>
                           totalQuantity = SumOf(Matching(facts, query))
                      /\ aggregation[query.code] = "count" =>
                           totalQuantity = Cardinality(Matching(facts, query))
    BY DEF QuietWalkExact
  <1> USE DEF QueryInv
  <1> DEFINE kind == aggregation[query.code]
             G == Groups(facts, query, kind)
             n == Cardinality(G)
             point == [g \in G |-> Point(g, query)]
  <1>1. ~MustRefuse(query) /\ query.granularity \in Granularities /\ query.code \in Codes
    BY AcceptedQuery DEF Checked, Complete
  <1>2. facts \in SUBSET Facts /\ IsFiniteSet(facts) /\ kind \in Aggregations
    BY <1>1 DEF QueryTypeOK
  <1>3. /\ Len(shown) = n /\ total = n /\ totalQuantity = SumOf(G)
        /\ \A i \in DOMAIN shown : \E g \in G : Rank(g, G) = i - 1 /\ shown[i] = Point(g, query)
    BY <1>1 DEF QuietPages
  <1>4. /\ \A g \in G : Rank(g, G) \in 0..(n - 1)
        /\ \A g, h \in G : Rank(g, G) = Rank(h, G) => g = h
    BY <1>1, <1>2, RanksUnique
  <1>5. ASSUME NEW g \in G, NEW h \in G, Point(g, query) = Point(h, query) PROVE g = h
    BY <1>5, GroupsByKey DEF Point
  <1>6. Quantified(G) /\ n \in Nat
    BY <1>2, GroupsQuantified, FS_CardinalityType DEF Quantified
  <1>7. DOMAIN shown = 1..n
    <2> DEFINE S == UNION {PointsOf(rows) : rows \in Views}
    <2>1. shown \in Seq(S)
      BY ShownPoints
    <2> HIDE DEF S, G, n
    <2> QED
      BY <1>3, <2>1
  <1>8. \A g \in G : Point(g, query).quantity = g.quantity
    BY DEF Point
  <1>9. IsInjective(shown)
    <2> HIDE DEF G, n
    <2>1. ASSUME NEW i \in DOMAIN shown, NEW j \in DOMAIN shown, shown[i] = shown[j]
          PROVE  i = j
      <3>1. PICK g \in G : Rank(g, G) = i - 1 /\ shown[i] = Point(g, query)
        BY <1>3
      <3>2. PICK h \in G : Rank(h, G) = j - 1 /\ shown[j] = Point(h, query)
        BY <1>3
      <3>3. g = h
        BY <1>5, <2>1, <3>1, <3>2
      <3> QED
        BY <1>6, <1>7, <3>1, <3>2, <3>3
    <2> QED
      BY <2>1 DEF IsInjective
  <1>10. Shown = {point[g] : g \in G}
    <2> HIDE DEF G, n
    <2>1. ASSUME NEW p \in Shown PROVE \E g \in G : p = point[g]
      BY <1>3 DEF Shown, Range
    <2>2. ASSUME NEW g \in G PROVE point[g] \in Shown
      <3> DEFINE i == Rank(g, G) + 1
      <3>1. i \in DOMAIN shown /\ i - 1 = Rank(g, G)
        BY <1>4, <1>6, <1>7
      <3> HIDE DEF i
      <3>2. PICK h \in G : Rank(h, G) = i - 1 /\ shown[i] = Point(h, query)
        BY <1>3, <3>1
      <3>3. h = g
        BY <1>4, <3>1, <3>2
      <3> QED
        BY <3>1, <3>2, <3>3 DEF Shown, Range
    <2> HIDE DEF point
    <2> QED
      BY <2>1, <2>2
  <1>11. SumOf({point[g] : g \in G}) = SumOf(G)
    <2>1. /\ DOMAIN point = G /\ \A g \in G : point[g].quantity = g.quantity
          /\ \A g, h \in G : point[g] = point[h] => g = h
      <3> HIDE DEF G
      <3> QED
        BY <1>5, <1>8
    <2> HIDE DEF G, point
    <2> QED
      BY <1>6, <2>1, SumImage
  <1>12. SumOf(Shown) = totalQuantity
    BY <1>3, <1>10, <1>11, Zenon
  <1>13. /\ kind = "sum" => SumOf(G) = SumOf(Matching(facts, query))
         /\ kind = "count" => SumOf(G) = Cardinality(Matching(facts, query))
    BY <1>2, GroupsDivide
  <1> QED
    BY <1>3, <1>9, <1>12, <1>13

-----------------------------------------------------------------------------
\* Windows do not overlap, so the one a fact was shown in is the only one.
LEMMA OneWindowInv ==
    ASSUME ProcessZone \in 0..47
    PROVE  QueryInv => FactsInOneWindow
  <1> SUFFICES ASSUME QueryInv, Complete, query.page <= 1, NEW f \in Matching(since, query)
               PROVE  Cardinality({<<p.start, p.end>> : p \in
                        {s \in Shown : s.dims = f.dims /\ s.start <= f.at /\ f.at < s.end}}) = 1
    BY DEF FactsInOneWindow
  <1> DEFINE own == {s \in Shown : s.dims = f.dims /\ s.start <= f.at /\ f.at < s.end}
             start == Bucket(f.at, query.granularity)
             end == nextWindow(start, query.granularity)
  <1>1. ~MustRefuse(query) /\ query.granularity \in Granularities
    BY AcceptedQuery DEF QueryInv, Checked, Complete
  <1>2. since \subseteq Facts /\ facts \subseteq Facts
    BY DEF QueryInv, QueryTypeOK
  <1>3. f.at \in Int
    BY <1>2, FactFields DEF Matching
  <1>4. start <= f.at /\ f.at < end
    BY <1>1, <1>3, WindowOfBucket
  <1>5. PICK p \in Shown : p.dims = f.dims /\ p.start = start /\ p.end = end
    BY <1>1 DEF QueryInv, NothingPassed, Received
  <1>6. p \in own
    BY <1>4, <1>5
  <1>7. ASSUME NEW s \in own PROVE s.start = start /\ s.end = end
    <2>0. PICK rows \in Views : \E e \in Matching(rows, query) :
            s = Point(Group(e, Matching(rows, query), query, aggregation[query.code]), query)
      BY TruePoints DEF own
    <2>1. PICK e \in Matching(rows, query) :
            s = Point(Group(e, Matching(rows, query), query, aggregation[query.code]), query)
      BY <2>0
    <2>2. /\ s.start = Bucket(e.at, query.granularity)
          /\ s.end = nextWindow(s.start, query.granularity)
      BY <2>1 DEF Point, Group
    <2>3. e.at \in Int
      BY <1>2, FactFields DEF Views, Matching
    <2>4. s.start <= f.at /\ f.at < s.end
      OBVIOUS
    <2>5. start = s.start
      BY <1>1, <1>3, <2>2, <2>3, <2>4, WindowOfBucket
    <2> QED
      BY <2>2, <2>5
  <1> HIDE DEF own, start, end
  <1>8. {<<s.start, s.end>> : s \in own} = {<<start, end>>}
    BY <1>5, <1>6, <1>7
  <1>9. Cardinality({<<start, end>>}) = 1
    BY FS_Singleton
  <1> QED
    BY <1>8, <1>9 DEF own

-----------------------------------------------------------------------------
LEMMA QuerySafe == QuerySpec => []QueryInv
  BY InitInv, NextInv, PTL DEF QuerySpec

\* The state of a walk is well typed: pages are counted from 1, the walk knows a
\* part of what is committed, and the table stays finite.
THEOREM QueryTyped == QuerySpec => []QueryTypeOK
  <1>1. QueryInv => QueryTypeOK
    BY DEF QueryInv
  <1> QED
    BY <1>1, QuerySafe, PTL

\* QueryUsage shows a client nothing but groups of facts of the tenant and the
\* application it asked about, after it has checked that it may see them, for any
\* query and whatever is committed between the check and the rows.
THEOREM OnlyAuthorizedShown == QuerySpec => []ShownAuthorized
  BY AuthorizedInv, QuerySafe, PTL

\* A point of a max or last meter is the value of a fact of its group and is not
\* older than the walk, for any facts, also with negative quantities and equal times.
THEOREM PointsNeverStale == QuerySpec => []PointsUpToDate
  BY UpToDateInv, QuerySafe, PTL

\* Paging over the ordered groups skips none of the facts the walk began with, for
\* any page size and any commits between the pages, and each of them lies in one
\* window.  The premise on the time zone is needed: windows_utc shows months ending
\* early in a process behind the zone of the buckets.
THEOREM WalksSkipNothing ==
    ASSUME ProcessZone \in 0..47
    PROVE  QuerySpec => []FactsInOneWindow
  BY OneWindowInv, QuerySafe, PTL

\* A walk during which nothing is committed is exact: it shows as many points as
\* COUNT(*) reported, no window twice, and they add up to SUM(quantity), which for
\* a sum or count meter is that of the facts themselves; for any facts, quantities
\* of either sign, page size, granularity and aggregation.
THEOREM QuietWalksExact == QuerySpec => []QuietWalkExact
  BY QuietInv, QuerySafe, PTL
=============================================================================
