-------------------------- MODULE ExecutionLemmas ---------------------------
(***************************************************************************)
(* What the proofs about the profiler and the kill gate share: of finite   *)
(* sets, of the folds the models compute with, and of the arithmetic of a  *)
(* trade.  A fold is a choice of a function that satisfies a recursion     *)
(* over the subsets of a set: such a function exists, and what holds of    *)
(* the empty set and is kept by a step holds of every value of it.         *)
(***************************************************************************)
EXTENDS Execution, FiniteSetsExt, FiniteSetTheorems, TLAPS

-----------------------------------------------------------------------------
(* Least elements *)

\* Among some subsets of a finite set one has none of the others inside it.
LEMMA SmallestSubset ==
  ASSUME NEW S, IsFiniteSet(S), NEW T \in SUBSET SUBSET S, T # {}
  PROVE  \E m \in T : \A u \in T : u \subseteq m => u = m
<1>1. IsWellFoundedOn(StrictSubsetOrdering(S), SUBSET S)
  BY FS_StrictSubsetOrderingWellFounded, FS_FiniteSubsetsOfFinite
<1>2. PICK m \in T : \A u \in T : <<u, m>> \notin StrictSubsetOrdering(S)
  BY <1>1, WFMin
<1>3. QED BY <1>2 DEF StrictSubsetOrdering

\* The elements before x in an order, given as a set of pairs.
Before(S, R, x) == {y \in S : <<y, x>> \in R}

TotalOrder(S, R) ==
  /\ \A x \in S : <<x, x>> \notin R
  /\ \A x, y \in S : x = y \/ <<x, y>> \in R \/ <<y, x>> \in R
  /\ \A x, y, z \in S : <<x, y>> \in R /\ <<y, z>> \in R => <<x, z>> \in R

\* A finite set listed in a strict total order.
LEMMA OrderRank ==
  ASSUME NEW S, IsFiniteSet(S), NEW R, TotalOrder(S, R)
  PROVE  /\ Cardinality(S) \in Nat
         /\ \A x \in S : Cardinality(Before(S, R, x)) \in 0..(Cardinality(S) - 1)
         /\ \A x, y \in S :
              <<x, y>> \in R <=> Cardinality(Before(S, R, x)) < Cardinality(Before(S, R, y))
         /\ \A k \in 0..(Cardinality(S) - 1) : \E x \in S : Cardinality(Before(S, R, x)) = k
<1> DEFINE n == Cardinality(S)
           f == [x \in S |-> Cardinality(Before(S, R, x))]
<1>1. n \in Nat
  BY FS_CardinalityType
<1>2. ASSUME NEW x \in S
      PROVE  IsFiniteSet(Before(S, R, x)) /\ Cardinality(Before(S, R, x)) \in 0..(n - 1)
  <2>1. Before(S, R, x) \subseteq S /\ Before(S, R, x) # S
    BY DEF Before, TotalOrder
  <2>2. IsFiniteSet(Before(S, R, x)) /\ Cardinality(Before(S, R, x)) \in Nat
    BY <2>1, FS_Subset, FS_CardinalityType
  <2>3. Cardinality(Before(S, R, x)) <= n /\ Cardinality(Before(S, R, x)) # n
    BY <2>1, FS_Subset
  <2>4. QED BY <1>1, <2>2, <2>3
<1>3. ASSUME NEW x \in S, NEW y \in S, <<x, y>> \in R
      PROVE  Cardinality(Before(S, R, x)) < Cardinality(Before(S, R, y))
  <2>1. Before(S, R, x) \subseteq Before(S, R, y) /\ Before(S, R, x) # Before(S, R, y)
    BY <1>3 DEF Before, TotalOrder
  <2>2. /\ Cardinality(Before(S, R, x)) <= Cardinality(Before(S, R, y))
        /\ Cardinality(Before(S, R, x)) # Cardinality(Before(S, R, y))
    BY <1>2, <2>1, FS_Subset
  <2>3. QED BY <1>2, <2>2
<1>4. f \in [S -> 0..(n - 1)]
  BY <1>2
<1>5. ASSUME NEW x \in S, NEW y \in S,
             Cardinality(Before(S, R, x)) < Cardinality(Before(S, R, y))
      PROVE  <<x, y>> \in R
  <2>1. Cardinality(Before(S, R, x)) \in Int /\ Cardinality(Before(S, R, y)) \in Int
    BY <1>2
  <2>2. x # y
    BY <1>5, <2>1
  <2>3. <<y, x>> \notin R
    <3>1. <<y, x>> \in R => Cardinality(Before(S, R, y)) < Cardinality(Before(S, R, x))
      BY <1>3
    <3>2. QED BY <1>5, <2>1, <3>1
  <2>4. QED BY <2>2, <2>3 DEF TotalOrder
<1>6. \A x, y \in S : f[x] = f[y] => x = y
  <2>1. SUFFICES ASSUME NEW x \in S, NEW y \in S, f[x] = f[y], x # y PROVE FALSE
    OBVIOUS
  <2>2. f[x] < f[y] \/ f[y] < f[x]
    BY <1>3, <2>1 DEF TotalOrder
  <2>3. f[x] \in Int /\ f[y] \in Int
    BY <1>4
  <2> HIDE DEF f
  <2>4. QED BY <2>1, <2>2, <2>3
<1>7. f \in Injection(S, 0..(n - 1))
  BY <1>4, <1>6 DEF Injection, IsInjective
<1>8. IsFiniteSet(0..(n - 1)) /\ Cardinality(0..(n - 1)) = n
  <2>1. 0 \in Int /\ n - 1 \in Int
    BY <1>1
  <2> HIDE DEF n
  <2>2. QED BY <1>1, <2>1, FS_Interval
<1>9. f \in Surjection(S, 0..(n - 1))
  BY <1>7, <1>8, FS_Injection
<1>10. \A k \in 0..(n - 1) : \E x \in S : f[x] = k
  BY <1>9 DEF Surjection
<1>11. \A x, y \in S :
         <<x, y>> \in R <=> Cardinality(Before(S, R, x)) < Cardinality(Before(S, R, y))
  BY <1>3, <1>5
<1>12. \A x \in S : Cardinality(Before(S, R, x)) \in 0..(n - 1)
  BY <1>2
<1> HIDE DEF n
<1>13. \A k \in 0..(n - 1) : \E x \in S : Cardinality(Before(S, R, x)) = k
  BY <1>10
<1>14. QED BY <1>1, <1>11, <1>12, <1>13 DEF n

\* A set that is not empty has a first element in a strict total order.
LEMMA First ==
  ASSUME NEW S, IsFiniteSet(S), S # {}, NEW R, TotalOrder(S, R)
  PROVE  \E m \in S : \A x \in S : x = m \/ <<m, x>> \in R
<1>1. Cardinality(S) \in Nat /\ Cardinality(S) # 0
  BY FS_CardinalityType, FS_EmptySet
<1>2. PICK m \in S : Cardinality(Before(S, R, m)) = 0
  BY <1>1, OrderRank
<1>3. IsFiniteSet(Before(S, R, m))
  BY FS_Subset DEF Before
<1>4. Before(S, R, m) = {}
  BY <1>2, <1>3, FS_EmptySet
<1>5. QED BY <1>4 DEF Before, TotalOrder

\* Numbers in their order, and the greatest and the least of them.
LEMMA IntOrder ==
  ASSUME NEW S \in SUBSET Int, IsFiniteSet(S), S # {}
  PROVE  /\ \E m \in S : \A x \in S : x <= m
         /\ \E m \in S : \A x \in S : m <= x
         /\ Max(S) \in S /\ \A x \in S : x <= Max(S)
         /\ Min(S) \in S /\ \A x \in S : Min(S) <= x
<1> DEFINE up == {e \in S \X S : e[1] < e[2]}
           down == {e \in S \X S : e[1] > e[2]}
<1>1. TotalOrder(S, up) /\ TotalOrder(S, down)
  BY DEF TotalOrder
<1>2. PICK m \in S : \A x \in S : x = m \/ <<m, x>> \in up
  <2> HIDE DEF up
  <2> QED BY <1>1, First
<1>3. PICK w \in S : \A x \in S : x = w \/ <<w, x>> \in down
  <2> HIDE DEF down
  <2> QED BY <1>1, First
<1>4. \A x \in S : m <= x /\ x <= w
  <2>1. ASSUME NEW x \in S PROVE m <= x /\ x <= w
    <3>1. x \in Int /\ m \in Int /\ w \in Int
      OBVIOUS
    <3>2. (x = m \/ m < x) /\ (x = w \/ w > x)
      BY <1>2, <1>3
    <3>3. QED BY <3>1, <3>2
  <2>2. QED BY <2>1
<1>5. Max(S) \in S /\ \A x \in S : x <= Max(S)
  BY <1>4 DEF Max
<1>6. Min(S) \in S /\ \A x \in S : Min(S) <= x
  BY <1>4 DEF Min
<1>7. QED BY <1>4, <1>5, <1>6

\* What a function makes of a finite set is finite.
LEMMA FiniteImage ==
  ASSUME NEW S, IsFiniteSet(S), NEW f, DOMAIN f = S
  PROVE  IsFiniteSet({f[x] : x \in S})
<1> DEFINE g == [x \in S |-> f[x]]
<1>1. g \in Surjection(S, {f[x] : x \in S})
  BY DEF Surjection
<1>2. QED BY <1>1, FS_Surjection

\* What is mapped into a finite set, no two to one place, is not more than it.
LEMMA CountWithin ==
  ASSUME NEW T, IsFiniteSet(T), NEW S, NEW f \in [S -> T],
         \A x, y \in S : f[x] = f[y] => x = y
  PROVE  IsFiniteSet(S) /\ Cardinality(S) <= Cardinality(T)
<1>1. f \in Injection(S, T)
  BY DEF Injection, IsInjective
<1>2. QED BY <1>1, FS_Injection

\* The union of finite sets, one for each element of a finite set, with that element.
LEMMA FinitePairs ==
  ASSUME NEW K, IsFiniteSet(K), NEW f, \A k \in K : IsFiniteSet(f[k])
  PROVE  IsFiniteSet(UNION {{k} \X f[k] : k \in K})
<1> DEFINE T == {{k} \X f[k] : k \in K}
           g == [k \in K |-> {k} \X f[k]]
<1>1. g \in Surjection(K, T)
  BY DEF Surjection
<1>2. ASSUME NEW k \in K PROVE IsFiniteSet({k} \X f[k])
  <2>1. IsFiniteSet({k})
    BY FS_Singleton
  <2>2. QED BY <2>1, FS_Product
<1>3. \A t \in T : IsFiniteSet(t)
  BY <1>2
<1> HIDE DEF T, g
<1>4. IsFiniteSet(T)
  BY <1>1, FS_Surjection
<1>5. IsFiniteSet(UNION T)
  BY <1>3, <1>4, FS_UNION
<1>6. QED BY <1>5 DEF T

\* A sample of integers has a value of each rank: at most k of the sample are less
\* and more than k are no greater.
LEMMA OrderStatistic ==
  ASSUME NEW s, IsFiniteSet(DOMAIN s), \A i \in DOMAIN s : s[i] \in Int,
         NEW k \in 0..(Cardinality(DOMAIN s) - 1)
  PROVE  \E v \in {s[i] : i \in DOMAIN s} :
           /\ Cardinality({i \in DOMAIN s : s[i] < v}) <= k
           /\ k < Cardinality({i \in DOMAIN s : s[i] <= v})
<1> DEFINE D == DOMAIN s
           V == {s[i] : i \in D}
           less(v) == {i \in D : s[i] < v}
           upto(v) == {i \in D : s[i] <= v}
           high == {v \in V : k < Cardinality(upto(v))}
<1>1. Cardinality(D) \in Nat /\ k \in Nat /\ k < Cardinality(D)
  BY FS_CardinalityType
<1>2. \A v : IsFiniteSet(less(v)) /\ Cardinality(less(v)) \in Nat
             /\ IsFiniteSet(upto(v)) /\ Cardinality(upto(v)) \in Nat
  <2>1. ASSUME NEW v PROVE IsFiniteSet(less(v)) /\ IsFiniteSet(upto(v))
    BY FS_Subset
  <2> HIDE DEF less, upto
  <2>2. QED BY <2>1, FS_CardinalityType
<1>3. V \subseteq Int /\ IsFiniteSet(V)
  <2> DEFINE f == [i \in D |-> s[i]]
  <2>1. f \in Surjection(D, V)
    BY DEF Surjection
  <2>2. IsFiniteSet(V)
    <3> HIDE DEF V, f
    <3>1. QED BY <2>1, FS_Surjection
  <2>3. QED BY <2>2
<1>4. high # {}
  <2>1. D # {}
    BY <1>1, FS_EmptySet
  <2>2. V # {} /\ V \in SUBSET Int
    BY <1>3, <2>1
  <2>3. PICK m \in V : \A v \in V : v <= m
    <3> HIDE DEF V
    <3>1. QED BY <1>3, <2>2, IntOrder
  <2>4. upto(m) = D
    BY <2>3
  <2>5. m \in high
    BY <1>1, <2>4
  <2>6. QED BY <2>5
<1>5. PICK v \in high : \A w \in high : v <= w
  <2>1. high \in SUBSET Int /\ IsFiniteSet(high)
    <3>1. high \subseteq V
      OBVIOUS
    <3> HIDE DEF high, V
    <3>2. QED BY <1>3, <3>1, FS_Subset
  <2> HIDE DEF high
  <2>2. QED BY <1>4, <2>1, IntOrder
<1>6. v \in V /\ v \in Int /\ k < Cardinality(upto(v))
  BY <1>3
<1>7. Cardinality(less(v)) <= k
  <2> DEFINE U == {w \in V : w < v}
  <2>1. CASE U = {}
    <3>1. less(v) = {}
      BY <2>1
    <3>2. Cardinality(less(v)) = 0
      BY <3>1, FS_EmptySet
    <3>3. QED BY <1>1, <3>2
  <2>2. CASE U # {}
    <3>1. U \in SUBSET Int /\ IsFiniteSet(U)
      <4>1. U \subseteq V
        OBVIOUS
      <4> HIDE DEF U, V
      <4>2. QED BY <1>3, <4>1, FS_Subset
    <3>2. PICK u \in U : \A w \in U : w <= u
      <4> HIDE DEF U
      <4>1. QED BY <2>2, <3>1, IntOrder
    <3>3. u \in V /\ u < v /\ u \in Int
      BY <1>3
    <3>4. less(v) = upto(u)
      <4>1. \A i \in D : s[i] < v => s[i] <= u
        BY <3>2
      <4>2. \A i \in D : s[i] <= u => s[i] < v
        BY <1>6, <3>3
      <4>3. QED BY <4>1, <4>2
    <3>5. u \notin high
      BY <1>5, <1>6, <3>3
    <3>6. ~(k < Cardinality(upto(u)))
      BY <3>3, <3>5
    <3> HIDE DEF less, upto
    <3>7. QED BY <1>1, <1>2, <3>4, <3>6
  <2>3. QED BY <2>1, <2>2
<1>8. QED BY <1>6, <1>7

-----------------------------------------------------------------------------
(* Folds *)

\* g computes on the subsets of S: base on the empty set, and on another one a step
\* from an element of it and the value of the rest.
Computes(g, S, base, pick, step) ==
  g = [s \in SUBSET S |-> IF s = {} THEN base ELSE step[<<pick[s], g[s \ {pick[s]}]>>]]

LEMMA ComputesOnce ==
  ASSUME NEW S, IsFiniteSet(S), NEW base, NEW step,
         NEW pick, \A s \in SUBSET S : s # {} => pick[s] \in s,
         NEW a \in SUBSET S, NEW g, Computes(g, a, base, pick, step),
         NEW b \in SUBSET S, NEW h, Computes(h, b, base, pick, step)
  PROVE  \A s \in SUBSET (a \cap b) : g[s] = h[s]
<1> DEFINE bad == {s \in SUBSET (a \cap b) : g[s] # h[s]}
<1>1. SUFFICES ASSUME bad # {} PROVE FALSE
  OBVIOUS
<1>2. PICK m \in bad : \A u \in bad : u \subseteq m => u = m
  <2>1. bad \in SUBSET SUBSET S
    OBVIOUS
  <2> HIDE DEF bad
  <2>2. QED BY <1>1, <2>1, SmallestSubset
<1>3. m \in SUBSET a /\ m \in SUBSET b
  OBVIOUS
<1>4. /\ g[m] = IF m = {} THEN base ELSE step[<<pick[m], g[m \ {pick[m]}]>>]
      /\ h[m] = IF m = {} THEN base ELSE step[<<pick[m], h[m \ {pick[m]}]>>]
  BY <1>3 DEF Computes
<1>5. m # {}
  BY <1>4
<1>6. pick[m] \in m
  BY <1>5
<1>7. m \ {pick[m]} \notin bad
  BY <1>2, <1>6
<1>8. g[m \ {pick[m]}] = h[m \ {pick[m]}]
  BY <1>7
<1>9. g[m] = h[m]
  BY <1>4, <1>8
<1>10. QED BY <1>9

LEMMA ComputesSome ==
  ASSUME NEW S, IsFiniteSet(S), NEW V, NEW base \in V, NEW step \in [S \X V -> V],
         NEW pick, \A s \in SUBSET S : s # {} => pick[s] \in s
  PROVE  \E g \in [SUBSET S -> V] : Computes(g, S, base, pick, step)
<1> DEFINE fits(g, s) == g \in [SUBSET s -> V] /\ Computes(g, s, base, pick, step)
           bad == {s \in SUBSET S : ~ \E g : fits(g, s)}
<1>1. SUFFICES ASSUME bad # {} PROVE FALSE
  OBVIOUS
<1>2. PICK m \in bad : \A u \in bad : u \subseteq m => u = m
  <2>1. bad \in SUBSET SUBSET S
    OBVIOUS
  <2> HIDE DEF bad
  <2>2. QED BY <1>1, <2>1, SmallestSubset
<1> DEFINE sol(s) == CHOOSE g : fits(g, s)
           rest == m \ {pick[m]}
           G == [s \in SUBSET m |->
                   IF s = {} THEN base
                   ELSE IF s = m THEN step[<<pick[m], sol(rest)[rest]>>] ELSE sol(s)[s]]
<1>3. \A s \in SUBSET m : s # m => fits(sol(s), s)
  BY <1>2
<1>4. \A s \in SUBSET m : s # {} => pick[s] \in s
  OBVIOUS
<1> HIDE DEF sol
<1>5. \A s \in SUBSET m : s # m => sol(s)[s] \in V
  BY <1>3
<1>6. \A s \in SUBSET m : s # m => G[s] = sol(s)[s]
  <2>1. ASSUME NEW s \in SUBSET m, s # m, s = {} PROVE sol(s)[s] = base
    <3>1. Computes(sol(s), s, base, pick, step) /\ s \in SUBSET s
      BY <1>3, <2>1
    <3>2. QED BY <2>1, <3>1 DEF Computes
  <2>2. QED BY <2>1
<1>7. \A s \in SUBSET m : G[s] \in V
  <2>1. m # {} => rest \in SUBSET m /\ rest # m /\ pick[m] \in S
    BY <1>4
  <2>2. m # {} => step[<<pick[m], sol(rest)[rest]>>] \in V
    <3>1. m # {} => sol(rest)[rest] \in V
      BY <1>5, <2>1
    <3>2. QED BY <2>1, <3>1
  <2>3. QED BY <1>5, <2>2
<1>8. ASSUME NEW s \in SUBSET m, s # {}
      PROVE  G[s] = step[<<pick[s], G[s \ {pick[s]}]>>]
  <2> DEFINE t == s \ {pick[s]}
  <2>1. t \in SUBSET m /\ t # m /\ t \subseteq s
    BY <1>4, <1>8
  <2>2. G[t] = sol(t)[t]
    BY <1>6, <2>1
  <2>3. CASE s = m
    BY <1>8, <2>2, <2>3
  <2>4. CASE s # m
    <3>1. G[s] = sol(s)[s]
      BY <1>6, <2>4
    <3>2. sol(s)[s] = step[<<pick[s], sol(s)[t]>>]
      <4>1. Computes(sol(s), s, base, pick, step) /\ s \in SUBSET s
        BY <1>3, <2>4
      <4>2. QED BY <1>8, <4>1 DEF Computes
    <3>3. sol(s)[t] = sol(t)[t]
      <4>1. Computes(sol(s), s, base, pick, step) /\ Computes(sol(t), t, base, pick, step)
        BY <1>3, <2>1, <2>4
      <4>2. t \in SUBSET (s \cap t) /\ s \in SUBSET S /\ t \in SUBSET S
        BY <2>1
      <4> HIDE DEF t
      <4>3. QED BY <4>1, <4>2, ComputesOnce
    <3>4. QED BY <2>2, <3>1, <3>2, <3>3
  <2>5. QED BY <2>3, <2>4
<1>9. G \in [SUBSET m -> V]
  BY <1>7
<1>10. Computes(G, m, base, pick, step)
  <2>1. \A s \in SUBSET m : s = {} => G[s] = base
    OBVIOUS
  <2>2. G = [s \in SUBSET m |-> G[s]]
    BY <1>9
  <2> HIDE DEF G
  <2>3. QED BY <1>8, <2>1, <2>2 DEF Computes
<1>11. fits(G, m)
  BY <1>9, <1>10
<1> HIDE DEF G, fits
<1>12. QED BY <1>2, <1>11

\* A sum is taken over the empty set, or adds to one of its terms the rest's.  What
\* is closed under addition, and holds of the terms, holds of it.
LEMMA SumWithin ==
  ASSUME NEW V \in SUBSET Int, \A v, w \in V : v + w \in V,
         NEW f, IsFiniteSet(DOMAIN f), \A x \in DOMAIN f : f[x] \in V
  PROVE  /\ SumFunction(f) \in V \cup {0}
         /\ DOMAIN f # {} => SumFunction(f) \in V
<1> DEFINE S == DOMAIN f
           W == V \cup {0}
           pick == [s \in SUBSET S |-> CHOOSE x \in s : TRUE]
           step == [e \in S \X W |-> f[e[1]] + e[2]]
           sums(g) == g = [s \in SUBSET S |->
                             IF s = {} THEN 0
                             ELSE f[CHOOSE x \in s : TRUE] + g[s \ {CHOOSE x \in s : TRUE}]]
<1>1. \A s \in SUBSET S : s # {} => pick[s] \in s /\ pick[s] = CHOOSE x \in s : TRUE
  OBVIOUS
<1>2. \A v \in V, w \in W : v + w \in V
  <2>1. SUFFICES ASSUME NEW v \in V, NEW w \in W PROVE v + w \in V
    OBVIOUS
  <2>2. CASE w = 0
    <3>1. v \in Int /\ v + 0 = v
      OBVIOUS
    <3>2. QED BY <2>2, <3>1
  <2>3. CASE w \in V
    BY <2>3
  <2>4. QED BY <2>2, <2>3
<1>3. step \in [S \X W -> W]
  BY <1>2
<1>4. \A s \in SUBSET S : s # {} => pick[s] \in s
  BY <1>1
<1> HIDE DEF pick, step
<1>5. PICK h \in [SUBSET S -> W] : Computes(h, S, 0, pick, step)
  <2>1. IsFiniteSet(S) /\ 0 \in W
    OBVIOUS
  <2> HIDE DEF S, W
  <2>2. QED BY <1>3, <1>4, <2>1, ComputesSome
<1>6. sums(h)
  <2>1. \A s \in SUBSET S : s # {} =>
          h[s] = f[CHOOSE x \in s : TRUE] + h[s \ {CHOOSE x \in s : TRUE}]
    <3>1. SUFFICES ASSUME NEW s \in SUBSET S, s # {}
                   PROVE  h[s] = f[CHOOSE x \in s : TRUE] + h[s \ {CHOOSE x \in s : TRUE}]
      OBVIOUS
    <3>2. h[s] = step[<<pick[s], h[s \ {pick[s]}]>>]
      BY <1>5, <3>1 DEF Computes
    <3>3. pick[s] \in S /\ h[s \ {pick[s]}] \in W
      BY <1>1, <3>1
    <3>4. step[<<pick[s], h[s \ {pick[s]}]>>] = f[pick[s]] + h[s \ {pick[s]}]
      BY <3>3 DEF step
    <3>5. QED BY <1>1, <3>1, <3>2, <3>4
  <2>2. \A s \in SUBSET S : s = {} => h[s] = 0
    BY <1>5 DEF Computes
  <2>3. QED BY <2>1, <2>2
<1> DEFINE it == CHOOSE g : sums(g)
<1>7. sums(it)
  BY <1>6
<1>8. SumFunction(f) = it[S]
  BY DEF SumFunction, SumFunctionOnSet, FoldFunctionOnSet, MapThenFoldSet
<1> HIDE DEF it
<1>9. it[{}] = 0
  BY <1>7
<1> DEFINE bad == {s \in SUBSET S : s # {} /\ it[s] \notin V}
<1>10. ASSUME bad # {} PROVE FALSE
  <2>1. PICK m \in bad : \A u \in bad : u \subseteq m => u = m
    <3>1. bad \in SUBSET SUBSET S /\ IsFiniteSet(S)
      OBVIOUS
    <3> HIDE DEF bad, S
    <3>2. QED BY <1>10, <3>1, SmallestSubset
  <2>2. m \in SUBSET S /\ m # {} /\ it[m] \notin V
    OBVIOUS
  <2>3. it[m] = f[pick[m]] + it[m \ {pick[m]}]
    BY <1>1, <1>7, <2>2
  <2>4. pick[m] \in m
    BY <1>4, <2>2
  <2>5. it[m \ {pick[m]}] \in W
    <3>1. m \ {pick[m]} \notin bad /\ m \ {pick[m]} \in SUBSET S
      BY <2>1, <2>4
    <3>2. CASE m \ {pick[m]} = {}
      BY <1>9, <3>2
    <3>3. CASE m \ {pick[m]} # {}
      BY <3>1, <3>3
    <3>4. QED BY <3>2, <3>3
  <2>6. f[pick[m]] \in V
    BY <2>2, <2>4
  <2>7. QED BY <1>2, <2>2, <2>3, <2>5, <2>6
<1>11. QED BY <1>8, <1>9, <1>10

LEMMA SumIsInt ==
  ASSUME NEW f, IsFiniteSet(DOMAIN f), \A x \in DOMAIN f : f[x] \in Int
  PROVE  SumFunction(f) \in Int
<1>1. \A v, w \in Int : v + w \in Int
  OBVIOUS
<1>2. SumFunction(f) \in Int \cup {0}
  BY <1>1, SumWithin
<1>3. QED BY <1>2

LEMMA SumIsPositive ==
  ASSUME NEW f, IsFiniteSet(DOMAIN f), \A x \in DOMAIN f : f[x] \in Nat \ {0}
  PROVE  /\ SumFunction(f) \in Nat
         /\ DOMAIN f # {} => SumFunction(f) > 0
<1> DEFINE V == Nat \ {0}
<1>1. V \in SUBSET Int /\ \A v, w \in V : v + w \in V
  OBVIOUS
<1> HIDE DEF V
<1>2. SumFunction(f) \in V \cup {0} /\ (DOMAIN f # {} => SumFunction(f) \in V)
  BY <1>1, SumWithin DEF V
<1>3. QED BY <1>2 DEF V

-----------------------------------------------------------------------------
(* Samples and round trips *)

LEMMA Quotient ==
  ASSUME NEW a \in Int, NEW b \in Nat \ {0}
  PROVE  a \div b \in Int /\ (a \in Nat => a \div b \in Nat)
OBVIOUS

\* The values of each rank of a sample of integers, and what is drawn from them.
LEMMA RankedIsOfSample ==
  ASSUME NEW s, IsFiniteSet(DOMAIN s), \A i \in DOMAIN s : s[i] \in Int,
         NEW k \in 0..(Cardinality(DOMAIN s) - 1)
  PROVE  \E i \in DOMAIN s : Ranked(s, k) = s[i]
<1>1. \E v \in {s[i] : i \in DOMAIN s} :
        /\ Cardinality({i \in DOMAIN s : s[i] < v}) <= k
        /\ k < Cardinality({i \in DOMAIN s : s[i] <= v})
  BY OrderStatistic
<1>2. Ranked(s, k) \in {s[i] : i \in DOMAIN s}
  BY <1>1 DEF Ranked, ToSet
<1>3. QED BY <1>2

LEMMA MedianIsNat ==
  ASSUME NEW s, IsFiniteSet(DOMAIN s), \A i \in DOMAIN s : s[i] \in Nat, DOMAIN s # {}
  PROVE  Median(s) \in Nat
<1> DEFINE n == Cardinality(DOMAIN s)
           h == n \div 2
<1>1. n \in Nat \ {0}
  BY FS_CardinalityType, FS_EmptySet
<1>2. /\ n % 2 = 1 => h \in 0..(n - 1)
      /\ n % 2 # 1 => h - 1 \in 0..(n - 1) /\ h \in 0..(n - 1)
  BY <1>1
<1>3. \A k \in 0..(n - 1) : Ranked(s, k) \in Nat
  BY RankedIsOfSample
<1> HIDE DEF n
<1>4. CASE n % 2 = 1
  BY <1>2, <1>3, <1>4 DEF Median, n
<1>5. CASE n % 2 # 1
  <2>1. Ranked(s, h - 1) + Ranked(s, h) \in Nat
    BY <1>2, <1>3, <1>5
  <2>2. (Ranked(s, h - 1) + Ranked(s, h)) \div 2 \in Nat
    BY <2>1
  <2>3. QED BY <1>5, <2>2 DEF Median, n
<1>6. QED BY <1>4, <1>5

LEMMA QuantileIsInt ==
  ASSUME NEW s, IsFiniteSet(DOMAIN s), \A i \in DOMAIN s : s[i] \in Int,
         Cardinality(DOMAIN s) > 0,
         NEW q \in {<<0, 1>>, <<1, 4>>, <<1, 2>>, <<3, 4>>, <<9, 10>>, <<19, 20>>}
  PROVE  Quantile(s, q[1], q[2]) \in Int
<1> DEFINE n == Cardinality(DOMAIN s)
           a == q[1]
           b == q[2]
           where == a * (n - 1)
           lo == where \div b
           hi == IF lo + 1 < n THEN lo + 1 ELSE lo
           weighted == Ranked(s, lo) * (b - (where % b)) + Ranked(s, hi) * (where % b)
<1>1. n \in Nat \ {0}
  BY FS_CardinalityType
<1>2. Quantile(s, a, b) = -((-weighted) \div b)
  BY DEF Quantile
<1> HIDE DEF n
<1>3. b \in Nat \ {0} /\ where \in Nat /\ lo \in 0..(n - 1) /\ where % b \in Nat
  <2>1. CASE q = <<0, 1>>
    BY <1>1, <2>1
  <2>2. CASE q = <<1, 4>>
    BY <1>1, <2>2
  <2>3. CASE q = <<1, 2>>
    BY <1>1, <2>3
  <2>4. CASE q = <<3, 4>>
    BY <1>1, <2>4
  <2>5. CASE q = <<9, 10>>
    BY <1>1, <2>5
  <2>6. CASE q = <<19, 20>>
    BY <1>1, <2>6
  <2>7. QED BY <2>1, <2>2, <2>3, <2>4, <2>5, <2>6
<1> HIDE DEF a, b, where, lo
<1>4. hi \in 0..(n - 1)
  BY <1>1, <1>3
<1> HIDE DEF hi
<1>5. Ranked(s, lo) \in Int /\ Ranked(s, hi) \in Int
  BY <1>3, <1>4, RankedIsOfSample DEF n
<1>6. weighted \in Int
  BY <1>3, <1>5
<1> HIDE DEF weighted
<1>7. -weighted \in Int
  BY <1>6
<1>8. (-weighted) \div b \in Int
  BY <1>3, <1>7, Quotient
<1>9. QED BY <1>2, <1>8 DEF a, b

\* A round trip brings a number.
LEMMA NetReturnIsInt ==
  ASSUME NEW size \in Nat, NEW p0 \in Nat \ {0}, NEW q0 \in Nat, NEW p1 \in Nat \ {0},
         NEW q1 \in Nat
  PROVE  NetReturn(size, p0, q0, p1, q1) \in Int
<1>1. CASE Degenerate(size, p0, q0, p1, q1)
  BY <1>1, ExecutionAssumption DEF NetReturn
<1>2. CASE ~Degenerate(size, p0, q0, p1, q1)
  <2> DEFINE dq == (size * (100 - FeePercent)) \div 100
             n == q0 * p1 * dq
             d == p0 * q1 * (q0 + dq)
             gross == (q1 * n) \div (d + n)
             out == (gross * (100 - FeePercent)) \div 100
  <2>1. size \in Nat \ {0} /\ q0 \in Nat \ {0} /\ q1 \in Nat \ {0}
    BY <1>2 DEF Degenerate
  <2>2. 100 - FeePercent \in Nat /\ FixedCost \in Nat /\ Scale \in Nat
    BY ExecutionAssumption
  <2>3. dq \in Nat
    <3>1. size * (100 - FeePercent) \in Nat
      BY <2>2
    <3>2. QED BY <3>1
  <2> HIDE DEF dq
  <2>4. n \in Nat
    BY <2>1, <2>3
  <2>5. d \in Nat \ {0}
    <3>1. p0 * q1 \in Nat \ {0} /\ q0 + dq \in Nat \ {0}
      BY <2>1, <2>3
    <3>2. QED BY <3>1
  <2>6. gross \in Nat
    <3>1. q1 * n \in Nat /\ d + n \in Nat \ {0}
      BY <2>1, <2>4, <2>5
    <3> HIDE DEF n, d
    <3>2. QED BY <3>1, Quotient
  <2>7. gross = GrossOut(size, p0, q0, p1, q1)
    BY DEF GrossOut, dq
  <2> HIDE DEF gross
  <2>8. out \in Int
    <3>1. gross * (100 - FeePercent) \in Int
      BY <2>2, <2>6
    <3>2. QED BY <3>1
  <2>9. NetReturn(size, p0, q0, p1, q1) = (Scale * (out - size - 2 * FixedCost)) \div size
    BY <1>2, <2>7 DEF NetReturn
  <2> HIDE DEF out
  <2>10. Scale * (out - size - 2 * FixedCost) \in Int
    BY <2>2, <2>8
  <2>11. QED BY <2>1, <2>9, <2>10, Quotient
<1>3. QED BY <1>1, <1>2
=============================================================================
