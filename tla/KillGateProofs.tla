--------------------------- MODULE KillGateProofs ---------------------------
(***************************************************************************)
(* What TLAPS proves of the mid-cap universe and the kill gate, for every  *)
(* listing, band, market and setting.  First the funnel: a token whose     *)
(* request fails thins no funnel that finishes.  Then the gate: that       *)
(* each signal looks back only, so that a panel cut off at a day yields    *)
(* the decisions of the whole panel up to that day; that every number of a *)
(* report is one, and a best threshold exists; and what UNPROVEN entails.  *)
(* Last the invariant that carries what is stored into what is reported.   *)
(***************************************************************************)
EXTENDS KillGate, ExecutionLemmas, SequenceTheorems

-----------------------------------------------------------------------------
(* Finite sets of naturals *)

Lower(S, x) == {y \in S : y < x}

\* The numbers of elements below each element of n are 0 to n - 1, each once.
LEMMA NatRank ==
  ASSUME NEW S \in SUBSET Nat, IsFiniteSet(S)
  PROVE  /\ Cardinality(S) \in Nat
         /\ \A x \in S : Cardinality(Lower(S, x)) \in 0..(Cardinality(S) - 1)
         /\ \A x, y \in S : x < y => Cardinality(Lower(S, x)) < Cardinality(Lower(S, y))
         /\ \A k \in 0..(Cardinality(S) - 1) : \E x \in S : Cardinality(Lower(S, x)) = k
<1> DEFINE R == {e \in S \X S : e[1] < e[2]}
<1>1. TotalOrder(S, R)
  BY DEF TotalOrder
<1>2. \A x \in S : Before(S, R, x) = Lower(S, x)
  BY DEF Before, Lower
<1>3. \A x, y \in S : <<x, y>> \in R <=> x < y
  OBVIOUS
<1> HIDE DEF R
<1>4. /\ Cardinality(S) \in Nat
      /\ \A x \in S : Cardinality(Before(S, R, x)) \in 0..(Cardinality(S) - 1)
      /\ \A x, y \in S :
           <<x, y>> \in R <=> Cardinality(Before(S, R, x)) < Cardinality(Before(S, R, y))
      /\ \A k \in 0..(Cardinality(S) - 1) : \E x \in S : Cardinality(Before(S, R, x)) = k
  BY <1>1, OrderRank
<1>5. QED BY <1>2, <1>3, <1>4

\* The elements of a list at some of its places.
LEMMA AtFacts ==
  ASSUME NEW X, NEW list \in Seq(X), NEW places \in SUBSET DOMAIN list
  PROVE  /\ At(list, places) \in Seq(X)
         /\ Cardinality(places) \in Nat /\ Len(At(list, places)) = Cardinality(places)
         /\ \A k \in 1..Cardinality(places) : \E i \in places : At(list, places)[k] = list[i]
         /\ \A j, k \in 1..Cardinality(places) : j # k =>
              \E h, i \in places : /\ h # i
                                   /\ At(list, places)[j] = list[h] /\ At(list, places)[k] = list[i]
<1> DEFINE n == Cardinality(places)
           at(m) == CHOOSE k \in places : Cardinality({j \in places : j < k}) = m - 1
<1>1. Len(list) \in Nat /\ DOMAIN list = 1..Len(list) /\ \A i \in DOMAIN list : list[i] \in X
  BY LenProperties
<1>2. places \in SUBSET Nat /\ IsFiniteSet(places)
  <2>1. IsFiniteSet(1..Len(list))
    BY <1>1, FS_Interval
  <2>2. QED BY <1>1, <2>1, FS_Subset
<1>3. n \in Nat
  BY <1>2, FS_CardinalityType
<1>4. At(list, places) = [m \in 1..n |-> list[at(m)]]
  BY DEF At
<1>5. ASSUME NEW m \in 1..n PROVE at(m) \in places /\ Cardinality(Lower(places, at(m))) = m - 1
  <2>1. m - 1 \in 0..(n - 1)
    BY <1>3
  <2>2. PICK k \in places : Cardinality(Lower(places, k)) = m - 1
    BY <1>2, <2>1, NatRank
  <2>3. QED BY <2>2 DEF Lower
<1> HIDE DEF at
<1>6. \A j, k \in 1..n : at(j) = at(k) => j = k
  <2>1. SUFFICES ASSUME NEW j \in 1..n, NEW k \in 1..n, at(j) = at(k) PROVE j = k
    OBVIOUS
  <2>2. j - 1 = k - 1
    BY <1>5, <2>1
  <2>3. QED BY <1>3, <2>2
<1>7. At(list, places) \in [1..n -> X] /\ Len(At(list, places)) = n
  BY <1>1, <1>3, <1>4, <1>5
<1>8. \A k \in 1..n : at(k) \in places /\ At(list, places)[k] = list[at(k)]
  BY <1>4, <1>5
<1>9. At(list, places) \in Seq(X)
  BY <1>3, <1>7
<1>10. QED BY <1>3, <1>6, <1>7, <1>8, <1>9

-----------------------------------------------------------------------------
(* Operators of the funnel *)

\* The pools a token may be resolved to: some of those served, with a reserve.
LEMMA SizedPools ==
  ASSUME NEW c \in Coins
  PROVE  /\ IsFiniteSet(Sized(c))
         /\ \A r \in Sized(c) : r \in ToSet(TokenPools[c]) /\ r.pool \in Pools /\ r.reserve \in Nat
<1> DEFINE X == [pool : Pools, reserve : Nat \cup {NoReserve}]
           list == TokenPools[c]
           asked == {j \in DOMAIN list : j <= TokenPage}
           f == [k \in asked |-> list[k]]
<1>1. list \in Seq(X)
  BY MidcapAssumption
<1>2. \A r \in X : r.pool \in Pools /\ (r.reserve # NoReserve => r.reserve \in Nat)
  OBVIOUS
<1> HIDE DEF X
<1>3. Len(list) \in Nat /\ DOMAIN list = 1..Len(list) /\ \A k \in DOMAIN list : list[k] \in X
  BY <1>1, LenProperties
<1>4. FirstPage(c) = {list[k] : k \in asked} /\ asked \subseteq 1..Len(list)
  BY <1>3 DEF FirstPage
<1> HIDE DEF list
<1>5. IsFiniteSet(FirstPage(c))
  <2>1. IsFiniteSet(1..Len(list))
    BY <1>3, FS_Interval
  <2>2. IsFiniteSet(asked)
    BY <1>4, <2>1, FS_Subset
  <2>3. f \in Surjection(asked, FirstPage(c))
    BY <1>4 DEF Surjection
  <2>4. QED BY <2>2, <2>3, FS_Surjection
<1>6. Sized(c) \subseteq FirstPage(c) /\ \A r \in Sized(c) : r.reserve # NoReserve
  BY DEF Sized
<1>7. IsFiniteSet(Sized(c))
  BY <1>5, <1>6, FS_Subset
<1>8. \A r \in FirstPage(c) : r \in ToSet(list) /\ r \in X
  BY <1>3, <1>4 DEF ToSet
<1>9. QED BY <1>2, <1>6, <1>7, <1>8 DEF list

LEMMA DeepestIsSized ==
  ASSUME NEW c \in Coins, Sized(c) # {}
  PROVE  Deepest(c) \in Sized(c) /\ \A o \in Sized(c) : o.reserve <= Deepest(c).reserve
<1> DEFINE D == {r.reserve : r \in Sized(c)}
<1>1. IsFiniteSet(Sized(c))
  BY SizedPools
<1>2. D \in SUBSET Nat /\ D # {}
  BY SizedPools
<1>3. IsFiniteSet(D)
  <2> DEFINE f == [r \in Sized(c) |-> r.reserve]
  <2>1. f \in Surjection(Sized(c), D)
    BY DEF Surjection
  <2>2. QED BY <1>1, <2>1, FS_Surjection
<1>4. PICK m \in D : \A x \in D : x <= m
  <2>1. D \in SUBSET Int /\ D # {}
    BY <1>2
  <2> HIDE DEF D
  <2>2. QED BY <1>3, <2>1, IntOrder
<1>5. \E r \in Sized(c) : \A o \in Sized(c) : o.reserve <= r.reserve
  BY <1>4
<1>6. QED BY <1>5 DEF Deepest

\* Of every pool in the list, one row is kept: one of the list's.
LEMMA LastRow ==
  ASSUME NEW R, NEW list \in Seq(R)
  PROVE  /\ \A r \in LastPerPool(list) : \E k \in 1..Len(list) : r = list[k]
         /\ \A k \in 1..Len(list) : \E r \in LastPerPool(list) : r.pool = list[k].pool
<1>1. Len(list) \in Nat /\ DOMAIN list = 1..Len(list)
  BY LenProperties
<1>2. ASSUME NEW k \in 1..Len(list) PROVE \E r \in LastPerPool(list) : r.pool = list[k].pool
  <2> DEFINE same == {j \in 1..Len(list) : list[j].pool = list[k].pool}
  <2>1. same \in SUBSET Nat /\ k \in same
    BY <1>1
  <2>2. IsFiniteSet(same)
    <3>1. IsFiniteSet(1..Len(list))
      BY <1>1, FS_Interval
    <3>2. QED BY <3>1, FS_Subset
  <2>3. PICK m \in same : \A j \in same : j <= m
    <3>1. same \in SUBSET Int /\ same # {}
      BY <2>1
    <3> HIDE DEF same
    <3>2. QED BY <2>2, <3>1, IntOrder
  <2>4. \A l \in (m + 1)..Len(list) : list[l].pool # list[m].pool
    BY <1>1, <2>3
  <2>5. list[m] \in LastPerPool(list)
    BY <1>1, <2>4 DEF LastPerPool
  <2>6. QED BY <2>5
<1>3. QED BY <1>1, <1>2 DEF LastPerPool

\* The eligible coins of a page: in the band, with a mint, each once and new.
LEMMA EligibleCoins ==
  ASSUME NEW list \in Seq(Coins)
  PROVE  /\ Eligible(list) \in Seq(InFdvBand \cap Mapped)
         /\ \A j, k \in 1..Len(Eligible(list)) : Eligible(list)[j] = Eligible(list)[k] => j = k
         /\ \A k \in 1..Len(Eligible(list)) : Eligible(list)[k] \notin ToSet(candidates)
<1> DEFINE fresh(k) == \A j \in 1..(k - 1) : list[j] # list[k]
           keep == {k \in DOMAIN list : /\ fresh(k) /\ list[k] \in InFdvBand \cap Mapped
                                        /\ list[k] \notin ToSet(candidates)}
           n == Cardinality(keep)
<1>1. Len(list) \in Nat /\ DOMAIN list = 1..Len(list)
  BY LenProperties
<1>2. \A k \in keep : list[k] \in InFdvBand \cap Mapped /\ list[k] \notin ToSet(candidates)
  OBVIOUS
<1>3. \A j, k \in keep : list[j] = list[k] => j = k
  BY <1>1
<1>4. Eligible(list) = At(list, keep) /\ keep \in SUBSET DOMAIN list
  BY DEF Eligible
<1> HIDE DEF keep
<1>5. n \in Nat /\ Eligible(list) \in Seq(Coins) /\ Len(Eligible(list)) = n
  BY <1>4, AtFacts
<1>6. ASSUME NEW k \in 1..n PROVE \E i \in keep : Eligible(list)[k] = list[i]
  BY <1>4, AtFacts
<1>7. ASSUME NEW j \in 1..n, NEW k \in 1..n, j # k PROVE Eligible(list)[j] # Eligible(list)[k]
  <2>1. \E h, i \in keep : h # i /\ Eligible(list)[j] = list[h] /\ Eligible(list)[k] = list[i]
    BY <1>4, <1>7, AtFacts
  <2>2. QED BY <1>3, <2>1
<1>8. \A k \in 1..n : /\ Eligible(list)[k] \in InFdvBand \cap Mapped
                      /\ Eligible(list)[k] \notin ToSet(candidates)
  BY <1>2, <1>6
<1>9. Eligible(list) \in Seq(InFdvBand \cap Mapped)
  BY <1>5, <1>8
<1>10. QED BY <1>5, <1>7, <1>8, <1>9

-----------------------------------------------------------------------------
(* The bars that fire *)

\* A bar fires when it has a value and no earlier one that fired still holds.
FiresIn(fired, valued, horizon, n) ==
  /\ fired \subseteq valued \cap 1..n
  /\ \A i \in valued \cap 1..n : i \in fired <=> \A j \in fired : j < i => j + horizon <= i

LEMMA FiredFacts ==
  ASSUME NEW valued, NEW horizon \in Nat \ {0}, NEW n \in Nat
  PROVE  FiresIn(Fired(valued, horizon, n), valued, horizon, n)
<1> DEFINE D == 1..n
           V == SUBSET D
           step == [e \in D \X V |-> IF e[1] \in valued /\ \A j \in e[2] : j + horizon <= e[1]
                                       THEN e[2] \cup {e[1]} ELSE e[2]]
           pick == [s \in SUBSET D |-> Max(s)]
           next(i, fired) == IF i \in valued /\ \A j \in fired : j + horizon <= i
                               THEN fired \cup {i} ELSE fired
           runs(g) == g = [s \in SUBSET D |->
                             IF s = {} THEN {} ELSE next(Max(s), g[s \ {Max(s)}])]
<1>1. IsFiniteSet(D)
  BY FS_Interval
<1>2. \A s \in SUBSET D : s # {} => Max(s) \in s /\ \A x \in s : x <= Max(s)
  <2>1. SUFFICES ASSUME NEW s \in SUBSET D, s # {} PROVE Max(s) \in s /\ \A x \in s : x <= Max(s)
    OBVIOUS
  <2>2. s \in SUBSET Int
    OBVIOUS
  <2> HIDE DEF D
  <2>3. IsFiniteSet(s)
    BY <1>1, FS_Subset
  <2>4. QED BY <2>1, <2>2, <2>3, IntOrder
<1>3. \A s \in SUBSET D : s # {} => pick[s] \in s /\ pick[s] = Max(s)
  BY <1>2
<1>4. step \in [D \X V -> V] /\ {} \in V
  OBVIOUS
<1>5. \A e \in D \X V : step[e] = next(e[1], e[2])
  OBVIOUS
<1> HIDE DEF step, pick
<1>6. \A s \in SUBSET D : s # {} => pick[s] \in s
  BY <1>3
<1>7. PICK h \in [SUBSET D -> V] : Computes(h, D, {}, pick, step)
  <2> HIDE DEF D, V
  <2>1. QED BY <1>1, <1>4, <1>6, ComputesSome
<1>8. runs(h)
  <2>1. ASSUME NEW s \in SUBSET D, s # {} PROVE h[s] = next(Max(s), h[s \ {Max(s)}])
    <3>1. h[s] = step[<<pick[s], h[s \ {pick[s]}]>>]
      BY <1>7, <2>1 DEF Computes
    <3>2. pick[s] = Max(s) /\ Max(s) \in D
      BY <1>3, <2>1
    <3>3. <<Max(s), h[s \ {Max(s)}]>> \in D \X V
      BY <3>2
    <3> HIDE DEF next
    <3>4. step[<<Max(s), h[s \ {Max(s)}]>>] = next(Max(s), h[s \ {Max(s)}])
      BY <1>5, <3>3
    <3>5. QED BY <3>1, <3>2, <3>4
  <2>2. \A s \in SUBSET D : s = {} => h[s] = {}
    BY <1>7 DEF Computes
  <2> HIDE DEF next
  <2>3. QED BY <2>1, <2>2
<1> DEFINE it == CHOOSE g : runs(g)
<1>9. runs(it)
  <2> HIDE DEF runs
  <2>1. QED BY <1>8
<1>10. Fired(valued, horizon, n) = it[D]
  <2>1. \A s \in SUBSET D : s # {} => [i \in 1..n |-> i][Max(s)] = Max(s)
    BY <1>2
  <2>2. DOMAIN [i \in 1..n |-> i] = D
    OBVIOUS
  <2> DEFINE raw(g) == g = [s \in SUBSET D |->
                         IF s = {} THEN {} ELSE next([i \in 1..n |-> i][Max(s)], g[s \ {Max(s)}])]
  <2>3. Fired(valued, horizon, n) = (CHOOSE g : raw(g))[D]
    BY <2>2 DEF Fired, FoldLeft, MapThenFoldSet
  <2>4. \A g : raw(g) <=> runs(g)
    <3> HIDE DEF next
    <3>1. \A g : [s \in SUBSET D |->
                    IF s = {} THEN {} ELSE next([i \in 1..n |-> i][Max(s)], g[s \ {Max(s)}])]
               = [s \in SUBSET D |-> IF s = {} THEN {} ELSE next(Max(s), g[s \ {Max(s)}])]
      BY <2>1
    <3>2. QED BY <3>1
  <2> HIDE DEF raw, runs
  <2>5. (CHOOSE g : raw(g)) = (CHOOSE g : runs(g))
    BY <2>4
  <2>6. QED BY <2>3, <2>5
<1> HIDE DEF it
<1>11. it[{}] = {}
  BY <1>9
<1>12. ASSUME NEW k \in 1..n PROVE it[1..k] = next(k, it[1..(k - 1)])
  <2>1. 1..k \in SUBSET D /\ k \in 1..k
    OBVIOUS
  <2>2. Max(1..k) = k
    <3>1. Max(1..k) \in 1..k /\ k <= Max(1..k)
      BY <1>2, <2>1
    <3>2. QED BY <3>1
  <2>3. (1..k) \ {k} = 1..(k - 1)
    OBVIOUS
  <2>4. it[1..k] = next(Max(1..k), it[(1..k) \ {Max(1..k)}])
    <3> HIDE DEF next
    <3>1. QED BY <1>9, <2>1
  <2>5. QED BY <2>2, <2>3, <2>4
<1> DEFINE bad == {k \in 0..n : ~FiresIn(it[1..k], valued, horizon, k)}
<1>13. ASSUME bad # {} PROVE FALSE
  <2>1. PICK k \in bad : \A x \in bad : k <= x
    <3>1. IsFiniteSet(0..n) /\ bad \subseteq 0..n
      BY FS_Interval
    <3>2. bad \in SUBSET Int /\ IsFiniteSet(bad)
      BY <3>1, FS_Subset
    <3> HIDE DEF bad
    <3>3. QED BY <1>13, <3>2, IntOrder
  <2>2. k \in 0..n /\ ~FiresIn(it[1..k], valued, horizon, k)
    OBVIOUS
  <2>3. k # 0
    <3>1. 1..0 = {}
      OBVIOUS
    <3>2. FiresIn({}, valued, horizon, 0)
      BY DEF FiresIn
    <3>3. QED BY <1>11, <2>2, <3>1, <3>2
  <2>4. k - 1 \in 0..n /\ k \in 1..n /\ k - 1 \notin bad
    BY <2>1, <2>2, <2>3
  <2> DEFINE a == it[1..(k - 1)]
  <2>5. FiresIn(a, valued, horizon, k - 1)
    BY <2>4
  <2>6. it[1..k] = next(k, a)
    BY <1>12, <2>4
  <2> HIDE DEF a, bad
  <2>7. \A j \in a : j \in Int /\ j < k
    BY <2>4, <2>5 DEF FiresIn
  <2>8. valued \cap 1..k = (valued \cap 1..(k - 1)) \cup (valued \cap {k})
    BY <2>4
  <2>9. CASE k \in valued /\ \A j \in a : j + horizon <= k
    <3>1. it[1..k] = a \cup {k}
      BY <2>6, <2>9
    <3>2. FiresIn(a \cup {k}, valued, horizon, k)
      BY <2>4, <2>5, <2>7, <2>8, <2>9 DEF FiresIn
    <3>3. QED BY <2>2, <3>1, <3>2
  <2>10. CASE ~(k \in valued /\ \A j \in a : j + horizon <= k)
    <3>1. it[1..k] = a
      BY <2>6, <2>10
    <3>2. FiresIn(a, valued, horizon, k)
      BY <2>4, <2>5, <2>7, <2>8, <2>10 DEF FiresIn
    <3>3. QED BY <2>2, <3>1, <3>2
  <2>11. QED BY <2>9, <2>10
<1>14. n \notin bad /\ n \in 0..n
  BY <1>13
<1>15. QED BY <1>10, <1>14

\* The bars that fire on the first bars of a series are the first of those that fire.
LEMMA FiredPrefix ==
  ASSUME NEW valued, NEW early, NEW horizon \in Nat \ {0}, NEW n \in Nat, NEW m \in 0..n,
         \A i \in 1..m : i \in early <=> i \in valued
  PROVE  Fired(early, horizon, m) = Fired(valued, horizon, n) \cap 1..m
<1> DEFINE a == Fired(early, horizon, m)
           b == Fired(valued, horizon, n)
           bad == {i \in 1..m : ~(i \in a <=> i \in b)}
<1>1. FiresIn(a, early, horizon, m) /\ FiresIn(b, valued, horizon, n)
  BY FiredFacts
<1> HIDE DEF a, b
<1>2. ASSUME bad # {} PROVE FALSE
  <2>1. PICK i \in bad : \A x \in bad : i <= x
    <3>1. IsFiniteSet(1..m) /\ bad \subseteq 1..m
      BY FS_Interval
    <3>2. bad \in SUBSET Int /\ IsFiniteSet(bad)
      BY <3>1, FS_Subset
    <3> HIDE DEF bad
    <3>3. QED BY <1>2, <3>2, IntOrder
  <2>2. i \in 1..m /\ i \in 1..n /\ ~(i \in a <=> i \in b)
    OBVIOUS
  <2>3. \A j \in 1..m : j < i => (j \in a <=> j \in b)
    BY <2>1
  <2>4. i \in early /\ i \in valued
    BY <1>1, <2>2 DEF FiresIn
  <2>5. i \in a <=> \A j \in a : j < i => j + horizon <= i
    BY <1>1, <2>2, <2>4 DEF FiresIn
  <2>6. i \in b <=> \A j \in b : j < i => j + horizon <= i
    BY <1>1, <2>2, <2>4 DEF FiresIn
  <2>7. \A j \in a : j \in 1..m
    BY <1>1 DEF FiresIn
  <2>8. \A j \in b : j \in 1..n /\ (j < i => j \in 1..m)
    BY <1>1, <2>2 DEF FiresIn
  <2>9. QED BY <2>2, <2>3, <2>5, <2>6, <2>7, <2>8
<1>3. a \subseteq 1..m
  BY <1>1 DEF FiresIn
<1>4. QED BY <1>2, <1>3 DEF a, b

-----------------------------------------------------------------------------
(* A panel and what was closed of it by a day *)

BarSet == [day : Nat, close : Nat \ {0}, high : Nat \ {0}, volume : Nat]

IsSeries(s) ==
  /\ s \in Seq(BarSet)
  /\ \A i, j \in 1..Len(s) : i < j => s[i].day < s[j].day

IsPanel(panel) ==
  /\ IsFiniteSet(DOMAIN panel)
  /\ \A k \in DOMAIN panel :
       /\ panel[k] \in [pool : Pools, reserve : Nat, bars : Seq(BarSet)]
       /\ IsSeries(panel[k].bars)

\* t is the start of s.
Begins(t, s) ==
  /\ Len(t) \in Nat /\ Len(s) \in Nat /\ Len(t) <= Len(s)
  /\ \A i \in 1..Len(t) : t[i] = s[i]

\* How many bars of a series are closed by a day.
Known(s, day) == Cardinality({i \in DOMAIN s : s[i].day <= day})

LEMMA KnownFirst ==
  ASSUME NEW s, IsSeries(s), NEW day \in Int
  PROVE  /\ Known(s, day) \in 0..Len(s)
         /\ \A i \in 1..Len(s) : i <= Known(s, day) <=> s[i].day <= day
<1> DEFINE K == {i \in DOMAIN s : s[i].day <= day}
<1>1. /\ Len(s) \in Nat /\ DOMAIN s = 1..Len(s)
      /\ \A i \in 1..Len(s) : s[i].day \in Nat
      /\ \A i, j \in 1..Len(s) : i < j => s[i].day < s[j].day
  <2>1. s \in Seq(BarSet) /\ \A b \in BarSet : b.day \in Nat
    BY DEF IsSeries, BarSet
  <2> HIDE DEF BarSet
  <2>2. Len(s) \in Nat /\ DOMAIN s = 1..Len(s) /\ \A i \in 1..Len(s) : s[i] \in BarSet
    BY <2>1
  <2>3. QED BY <2>1, <2>2 DEF IsSeries
<1>2. CASE K = {}
  <2>1. Known(s, day) = 0
    BY <1>2, FS_EmptySet DEF Known
  <2>2. QED BY <1>1, <1>2, <2>1
<1>3. CASE K # {}
  <2>1. K \subseteq 1..Len(s) /\ IsFiniteSet(1..Len(s))
    <3>1. IsFiniteSet(1..Len(s))
      BY <1>1, FS_Interval
    <3>2. QED BY <1>1, <3>1
  <2>2. K \in SUBSET Int /\ IsFiniteSet(K)
    <3> HIDE DEF K
    <3>1. IsFiniteSet(K)
      BY <2>1, FS_Subset
    <3>2. QED BY <2>1, <3>1
  <2>3. PICK m \in K : \A x \in K : x <= m
    <3> HIDE DEF K
    <3>1. QED BY <1>3, <2>2, IntOrder
  <2>4. m \in 1..Len(s) /\ s[m].day <= day
    BY <2>1
  <2>5. \A i \in 1..Len(s) : i <= m => s[i].day <= day
    BY <1>1, <2>4
  <2>6. \A i \in 1..Len(s) : s[i].day <= day => i <= m
    BY <1>1, <2>3
  <2>7. K = 1..m
    BY <1>1, <2>4, <2>5, <2>6
  <2>8. Cardinality(1..m) = m
    BY <2>4, FS_Interval
  <2>9. Known(s, day) = m
    BY <2>7, <2>8 DEF Known
  <2>10. QED BY <1>1, <2>4, <2>5, <2>6, <2>9
<1>4. QED BY <1>2, <1>3

LEMMA CutFacts ==
  ASSUME NEW panel, IsPanel(panel), NEW day \in Int, NEW k \in DOMAIN panel
  PROVE  /\ DOMAIN Cut(panel, day) = DOMAIN panel
         /\ Cut(panel, day)[k].reserve = panel[k].reserve
         /\ Len(Cut(panel, day)[k].bars) = Known(panel[k].bars, day)
         /\ Begins(Cut(panel, day)[k].bars, panel[k].bars)
<1> DEFINE s == panel[k].bars
           n == Known(s, day)
<1>1. panel[k] \in [pool : Pools, reserve : Nat, bars : Seq(BarSet)] /\ IsSeries(s)
  BY DEF IsPanel
<1>2. n \in 0..Len(s) /\ Len(s) \in Nat
  BY <1>1, KnownFirst
<1>3. /\ Cut(panel, day)[k].bars = SubSeq(s, 1, n)
      /\ Cut(panel, day)[k].reserve = panel[k].reserve
      /\ DOMAIN Cut(panel, day) = DOMAIN panel
  BY <1>1 DEF Cut, Known
<1>4. s \in Seq(BarSet)
  BY <1>1
<1> HIDE DEF s, n
<1>5. Len(SubSeq(s, 1, n)) = n /\ \A i \in 1..n : SubSeq(s, 1, n)[i] = s[i]
  BY <1>2, <1>4
<1>6. QED BY <1>2, <1>3, <1>5 DEF Begins, s, n

-----------------------------------------------------------------------------
(* The signals look back *)

\* Two functions agree up to n on which numbers have a value and which it is.
Agree(f, g, n) ==
  \A i \in 1..n : (i \in DOMAIN f <=> i \in DOMAIN g) /\ (i \in DOMAIN g => f[i] = g[i])

LEMMA MomentumLooksBack ==
  ASSUME NEW s, NEW t, Begins(t, s), NEW lookback \in Nat \ {0}
  PROVE  Agree(Momentum(t, lookback), Momentum(s, lookback), Len(t))
<1> DEFINE value(r, i) == (Scale * r[i].close) \div r[i - lookback].close - Scale
<1>1. \A r : Momentum(r, lookback) = [i \in (lookback + 1)..Len(r) |-> value(r, i)]
  BY DEF Momentum
<1>2. ASSUME NEW i \in (lookback + 1)..Len(t)
      PROVE  t[i] = s[i] /\ t[i - lookback] = s[i - lookback]
  <2>1. i \in 1..Len(t) /\ i - lookback \in 1..Len(t)
    BY DEF Begins
  <2>2. QED BY <2>1 DEF Begins
<1>3. \A i \in (lookback + 1)..Len(t) : value(t, i) = value(s, i)
  BY <1>2
<1> HIDE DEF value
<1>4. \A i \in 1..Len(t) : i \in (lookback + 1)..Len(t) <=> i \in (lookback + 1)..Len(s)
  BY DEF Begins
<1>5. QED BY <1>1, <1>3, <1>4 DEF Agree

LEMMA MeanReversionLooksBack ==
  ASSUME NEW s, NEW t, Begins(t, s), NEW lookback \in Nat \ {0}
  PROVE  Agree(MeanReversion(t, lookback), MeanReversion(s, lookback), Len(t))
<1> DEFINE closes(r, i) == [k \in (i - lookback)..(i - 1) |-> r[k].close]
           total(r, i) == SumFunction(closes(r, i))
           spread(r, i) == lookback * SumFunction([k \in DOMAIN closes(r, i) |->
                                                     Square(closes(r, i)[k])])
                             - Square(total(r, i))
           gap(r, i) == lookback * r[i].close - total(r, i)
           z2(r, i) == (Scale * Square(gap(r, i))) \div spread(r, i)
           value(r, i) == IF gap(r, i) < 0 THEN z2(r, i) ELSE -z2(r, i)
<1>1. \A r : MeanReversion(r, lookback) =
               [i \in {k \in (lookback + 1)..Len(r) : spread(r, k) > 0} |-> value(r, i)]
  BY DEF MeanReversion
<1>2. ASSUME NEW i \in (lookback + 1)..Len(t)
      PROVE  closes(t, i) = closes(s, i) /\ t[i].close = s[i].close
  BY DEF Begins
<1>3. ASSUME NEW i \in (lookback + 1)..Len(t)
      PROVE  spread(t, i) = spread(s, i) /\ value(t, i) = value(s, i)
  <2>1. closes(t, i) = closes(s, i) /\ t[i].close = s[i].close
    BY <1>2
  <2> HIDE DEF closes
  <2>2. total(t, i) = total(s, i) /\ spread(t, i) = spread(s, i)
    BY <2>1
  <2>3. gap(t, i) = gap(s, i)
    BY <2>1, <2>2
  <2> HIDE DEF total, spread, gap
  <2>4. value(t, i) = value(s, i)
    BY <2>2, <2>3
  <2> HIDE DEF value
  <2>5. QED BY <2>2, <2>4
<1> HIDE DEF closes, total, spread, gap, z2, value
<1>4. \A i \in 1..Len(t) : i \in (lookback + 1)..Len(t) <=> i \in (lookback + 1)..Len(s)
  BY DEF Begins
<1>5. DOMAIN MeanReversion(t, lookback) = {k \in (lookback + 1)..Len(t) : spread(t, k) > 0}
      /\ DOMAIN MeanReversion(s, lookback) = {k \in (lookback + 1)..Len(s) : spread(s, k) > 0}
  BY <1>1
<1>6. /\ \A i \in DOMAIN MeanReversion(t, lookback) : MeanReversion(t, lookback)[i] = value(t, i)
      /\ \A i \in DOMAIN MeanReversion(s, lookback) : MeanReversion(s, lookback)[i] = value(s, i)
  BY <1>1
<1>7. QED BY <1>3, <1>4, <1>5, <1>6 DEF Agree

LEMMA BreakoutLooksBack ==
  ASSUME NEW s, NEW t, Begins(t, s), NEW lookback \in Nat \ {0}
  PROVE  Agree(Breakout(t, lookback), Breakout(s, lookback), Len(t))
<1> DEFINE window(i) == (i - lookback)..(i - 1)
           volumes(r, i) == [k \in window(i) |-> r[k].volume]
           highs(r, i) == {r[k].high : k \in window(i)}
           confirmed(r, i) == lookback * r[i].volume >= SumFunction(volumes(r, i))
           value(r, i) == (Scale * r[i].close) \div Max(highs(r, i)) - Scale
<1>1. \A r : Breakout(r, lookback) =
               [i \in {k \in (lookback + 1)..Len(r) : confirmed(r, k)} |-> value(r, i)]
  BY DEF Breakout
<1>2. ASSUME NEW i \in (lookback + 1)..Len(t)
      PROVE  volumes(t, i) = volumes(s, i) /\ highs(t, i) = highs(s, i) /\ t[i] = s[i]
  <2>1. \A k \in window(i) : t[k] = s[k]
    BY DEF Begins
  <2>2. t[i] = s[i]
    BY DEF Begins
  <2> HIDE DEF window
  <2>3. volumes(t, i) = volumes(s, i)
    BY <2>1
  <2>4. highs(t, i) = highs(s, i)
    BY <2>1
  <2>5. QED BY <2>2, <2>3, <2>4
<1> HIDE DEF volumes, highs
<1>3. \A i \in (lookback + 1)..Len(t) :
        (confirmed(t, i) <=> confirmed(s, i)) /\ value(t, i) = value(s, i)
  BY <1>2
<1> HIDE DEF confirmed, value
<1>4. \A i \in 1..Len(t) : i \in (lookback + 1)..Len(t) <=> i \in (lookback + 1)..Len(s)
  BY DEF Begins
<1>5. QED BY <1>1, <1>3, <1>4 DEF Agree

LEMMA XsLooksBack ==
  ASSUME NEW panel, IsPanel(panel), NEW day \in Int, NEW lookback \in Nat \ {0},
         NEW k \in DOMAIN panel
  PROVE  Agree(XsValues(Cut(panel, day), lookback)[k], XsValues(panel, lookback)[k],
               Known(panel[k].bars, day))
<1> DEFINE cut == Cut(panel, day)
           raw(P) == [n \in DOMAIN P |-> Momentum(P[n].bars, lookback)]
           peers(P, d) == {e \in UNION {{n} \X DOMAIN raw(P)[n] : n \in DOMAIN P} :
                             P[e[1]].bars[e[2]].day = d}
           weaker(P, e, n, i) == \/ raw(P)[e[1]][e[2]] < raw(P)[n][i]
                                 \/ raw(P)[e[1]][e[2]] = raw(P)[n][i] /\ e[1] < n
           sameDay(P, n, i) == peers(P, P[n].bars[i].day)
           below(P, n, i) == {e \in sameDay(P, n, i) : weaker(P, e, n, i)}
           value(P, n, i) == (Scale * Cardinality(below(P, n, i)))
                               \div (Cardinality(sameDay(P, n, i)) - 1)
           known(n) == Known(panel[n].bars, day)
<1>1. \A P : \A n \in DOMAIN P :
        XsValues(P, lookback)[n] =
          [i \in {j \in DOMAIN raw(P)[n] : Cardinality(sameDay(P, n, j)) >= 3} |-> value(P, n, i)]
  BY DEF XsValues
<1>2. DOMAIN cut = DOMAIN panel
  BY CutFacts
<1>3. ASSUME NEW n \in DOMAIN panel
      PROVE  /\ known(n) \in 0..Len(panel[n].bars) /\ Len(panel[n].bars) \in Nat
             /\ \A i \in 1..Len(panel[n].bars) : i <= known(n) <=> panel[n].bars[i].day <= day
             /\ \A i \in 1..known(n) : cut[n].bars[i] = panel[n].bars[i]
             /\ DOMAIN raw(panel)[n] = (lookback + 1)..Len(panel[n].bars)
             /\ DOMAIN raw(cut)[n] = (lookback + 1)..known(n)
             /\ \A i \in DOMAIN raw(cut)[n] : raw(cut)[n][i] = raw(panel)[n][i]
  <2>1. IsSeries(panel[n].bars) /\ Len(panel[n].bars) \in Nat
    BY DEF IsPanel, IsSeries
  <2>2. /\ known(n) \in 0..Len(panel[n].bars)
        /\ \A i \in 1..Len(panel[n].bars) : i <= known(n) <=> panel[n].bars[i].day <= day
    BY <2>1, KnownFirst
  <2>3. Begins(cut[n].bars, panel[n].bars) /\ Len(cut[n].bars) = known(n)
    BY CutFacts
  <2>4. \A i \in 1..known(n) : cut[n].bars[i] = panel[n].bars[i]
    BY <2>3 DEF Begins
  <2>5. /\ raw(panel)[n] = Momentum(panel[n].bars, lookback)
        /\ raw(cut)[n] = Momentum(cut[n].bars, lookback)
    BY <1>2
  <2>6. /\ DOMAIN raw(panel)[n] = (lookback + 1)..Len(panel[n].bars)
        /\ DOMAIN raw(cut)[n] = (lookback + 1)..known(n)
    BY <2>3, <2>5 DEF Momentum
  <2>7. Agree(raw(cut)[n], raw(panel)[n], known(n))
    BY <2>3, <2>5, MomentumLooksBack
  <2> HIDE DEF raw, known, cut
  <2>8. \A i \in DOMAIN raw(cut)[n] : i \in 1..known(n) /\ i \in DOMAIN raw(panel)[n]
    BY <2>1, <2>2, <2>6
  <2>9. \A i \in DOMAIN raw(cut)[n] : raw(cut)[n][i] = raw(panel)[n][i]
    BY <2>7, <2>8 DEF Agree
  <2>10. QED BY <2>1, <2>2, <2>4, <2>6, <2>9
<1> HIDE DEF known, cut, raw
<1>4. ASSUME NEW n \in DOMAIN panel, NEW i \in 1..known(n)
      PROVE  i \in DOMAIN raw(cut)[n] <=> i \in DOMAIN raw(panel)[n]
  BY <1>3
<1>5. ASSUME NEW d \in Int, d <= day PROVE peers(cut, d) = peers(panel, d)
  <2>1. ASSUME NEW n \in DOMAIN panel, NEW i
        PROVE  i \in DOMAIN raw(cut)[n] /\ cut[n].bars[i].day = d
                 <=> i \in DOMAIN raw(panel)[n] /\ panel[n].bars[i].day = d
    <3>1. /\ known(n) \in 0..Len(panel[n].bars) /\ Len(panel[n].bars) \in Nat
          /\ \A j \in 1..Len(panel[n].bars) : j <= known(n) <=> panel[n].bars[j].day <= day
          /\ \A j \in 1..known(n) : cut[n].bars[j] = panel[n].bars[j]
          /\ DOMAIN raw(panel)[n] = (lookback + 1)..Len(panel[n].bars)
          /\ DOMAIN raw(cut)[n] = (lookback + 1)..known(n)
      BY <1>3
    <3>2. i \in DOMAIN raw(cut)[n] => i \in 1..known(n) /\ i \in DOMAIN raw(panel)[n]
      BY <3>1
    <3>3. ASSUME i \in DOMAIN raw(panel)[n], panel[n].bars[i].day = d
          PROVE  i \in DOMAIN raw(cut)[n] /\ i \in 1..known(n)
      <4>1. i \in 1..Len(panel[n].bars)
        BY <3>1, <3>3
      <4>2. i <= known(n)
        BY <1>5, <3>1, <3>3, <4>1
      <4>3. QED BY <3>1, <3>3, <4>1, <4>2
    <3>4. QED BY <3>1, <3>2, <3>3
  <2>2. \A P : \A e : e \in peers(P, d) <=>
          \E n \in DOMAIN P : \E i \in DOMAIN raw(P)[n] : e = <<n, i>> /\ P[n].bars[i].day = d
    OBVIOUS
  <2> HIDE DEF peers
  <2>3. \A e : e \in peers(cut, d) <=> e \in peers(panel, d)
    BY <1>2, <2>1, <2>2
  <2>4. QED BY <2>3
<1>6. ASSUME NEW i \in 1..known(k), i \in DOMAIN raw(panel)[k]
      PROVE  sameDay(cut, k, i) = sameDay(panel, k, i) /\ value(cut, k, i) = value(panel, k, i)
  <2> DEFINE d == panel[k].bars[i].day
  <2>1. i \in 1..Len(panel[k].bars) /\ d <= day /\ cut[k].bars[i] = panel[k].bars[i]
    BY <1>3
  <2>2. d \in Int
    <3>1. panel[k].bars \in Seq(BarSet) /\ \A b \in BarSet : b.day \in Int
      BY DEF IsPanel, IsSeries, BarSet
    <3> HIDE DEF BarSet
    <3>2. panel[k].bars[i] \in BarSet
      BY <2>1, <3>1
    <3>3. QED BY <3>1, <3>2
  <2>3. peers(cut, d) = peers(panel, d)
    BY <1>5, <2>1, <2>2
  <2>4. sameDay(cut, k, i) = sameDay(panel, k, i) /\ sameDay(panel, k, i) = peers(panel, d)
    BY <2>1, <2>3
  <2>5. \A e \in peers(cut, d) : e[1] \in DOMAIN panel /\ e[2] \in DOMAIN raw(cut)[e[1]]
    BY <1>2
  <2> HIDE DEF peers, sameDay, d
  <2>6. ASSUME NEW e \in peers(cut, d) PROVE weaker(cut, e, k, i) <=> weaker(panel, e, k, i)
    <3>1. raw(cut)[e[1]][e[2]] = raw(panel)[e[1]][e[2]]
      BY <1>3, <2>5
    <3>2. raw(cut)[k][i] = raw(panel)[k][i]
      BY <1>3, <1>4, <1>6
    <3>3. QED BY <3>1, <3>2
  <2> HIDE DEF weaker
  <2>7. below(cut, k, i) = below(panel, k, i)
    BY <2>3, <2>4, <2>6
  <2> HIDE DEF below
  <2>8. value(cut, k, i) = value(panel, k, i)
    BY <2>4, <2>7
  <2>9. QED BY <2>4, <2>8
<1> HIDE DEF value, sameDay
<1>7. /\ XsValues(cut, lookback)[k] =
           [i \in {j \in DOMAIN raw(cut)[k] : Cardinality(sameDay(cut, k, j)) >= 3} |->
              value(cut, k, i)]
      /\ XsValues(panel, lookback)[k] =
           [i \in {j \in DOMAIN raw(panel)[k] : Cardinality(sameDay(panel, k, j)) >= 3} |->
              value(panel, k, i)]
  BY <1>1, <1>2
<1>8. Agree(XsValues(cut, lookback)[k], XsValues(panel, lookback)[k], known(k))
  BY <1>4, <1>6, <1>7 DEF Agree
<1>9. QED BY <1>8 DEF cut, known

IsSetup(c) ==
  c.signal \in Signals /\ {c.lookback, c.horizon, c.quarters} \subseteq Nat \ {0}

\* With the bars closed by a day, a signal has the values it had on that day.
LEMMA SignalsLookBack ==
  ASSUME NEW panel, IsPanel(panel), NEW day \in Int, NEW c, IsSetup(c), NEW k \in DOMAIN panel
  PROVE  Agree(SignalValues(Cut(panel, day), c)[k], SignalValues(panel, c)[k],
               Known(panel[k].bars, day))
<1> DEFINE t == Cut(panel, day)[k].bars
           s == panel[k].bars
<1>1. DOMAIN Cut(panel, day) = DOMAIN panel /\ Begins(t, s) /\ Len(t) = Known(s, day)
  BY CutFacts
<1>2. c.lookback \in Nat \ {0}
  BY DEF IsSetup
<1>3. CASE c.signal = "xs_mom"
  BY <1>2, <1>3, XsLooksBack DEF SignalValues
<1>4. CASE c.signal = "ts_mom"
  <2>1. /\ SignalValues(Cut(panel, day), c)[k] = Momentum(t, c.lookback)
        /\ SignalValues(panel, c)[k] = Momentum(s, c.lookback)
    BY <1>1, <1>4 DEF SignalValues
  <2>2. QED BY <1>1, <1>2, <2>1, MomentumLooksBack
<1>5. CASE c.signal = "mean_rev"
  <2>1. /\ SignalValues(Cut(panel, day), c)[k] = MeanReversion(t, c.lookback)
        /\ SignalValues(panel, c)[k] = MeanReversion(s, c.lookback)
    BY <1>1, <1>5 DEF SignalValues
  <2>2. QED BY <1>1, <1>2, <2>1, MeanReversionLooksBack
<1>6. CASE c.signal = "breakout"
  <2>1. /\ SignalValues(Cut(panel, day), c)[k] = Breakout(t, c.lookback)
        /\ SignalValues(panel, c)[k] = Breakout(s, c.lookback)
    BY <1>1, <1>6 DEF SignalValues
  <2>2. QED BY <1>1, <1>2, <2>1, BreakoutLooksBack
<1>7. QED BY <1>3, <1>4, <1>5, <1>6 DEF IsSetup, Signals

-----------------------------------------------------------------------------
(* The trades of a panel *)

\* Where the k-th pool's trades are decided, and the trade decided at a bar.
Decisions(row, values, c) ==
  LET fired == IF DepthQuote(row.reserve, c) <= 0 \/ Position(row.reserve) <= 0 THEN {}
               ELSE Fired({i \in DOMAIN values : i > Warmup}, c.horizon, Len(row.bars))
  IN {n \in fired : n + c.horizon <= Len(row.bars)}

TradeAt(k, row, values, c, i) ==
  [row |-> k, at |-> row.bars[i].day, exit |-> row.bars[i + c.horizon].day, value |-> values[i],
   net |-> NetReturn(Position(row.reserve), row.bars[i].close, DepthQuote(row.reserve, c),
                     row.bars[i + c.horizon].close, DepthQuote(row.reserve, c))]

LEMMA TradesAreDecisions ==
  ASSUME NEW panel, NEW c
  PROVE  \A t : t \in Run(panel, c) <=>
           \E k \in DOMAIN panel : \E i \in Decisions(panel[k], SignalValues(panel, c)[k], c) :
             t = TradeAt(k, panel[k], SignalValues(panel, c)[k], c, i)
<1>1. \A k, row, values : PoolTrades(k, row, values, c)
        = {TradeAt(k, row, values, c, i) : i \in Decisions(row, values, c)}
  BY DEF PoolTrades, TradeAt, Decisions
<1>2. \A t : t \in Run(panel, c) <=>
        \E k \in DOMAIN panel : t \in PoolTrades(k, panel[k], SignalValues(panel, c)[k], c)
  BY DEF Run
<1>3. QED BY <1>1, <1>2

LEMMA DecisionFacts ==
  ASSUME NEW panel, IsPanel(panel), NEW c, IsSetup(c), NEW k \in DOMAIN panel,
         NEW i \in Decisions(panel[k], SignalValues(panel, c)[k], c)
  PROVE  /\ i \in DOMAIN SignalValues(panel, c)[k]
         /\ i \in 1..Len(panel[k].bars) /\ i + c.horizon \in 1..Len(panel[k].bars)
<1> DEFINE valued == {n \in DOMAIN SignalValues(panel, c)[k] : n > Warmup}
<1>1. Len(panel[k].bars) \in Nat /\ c.horizon \in Nat \ {0}
  BY DEF IsPanel, IsSeries, IsSetup
<1>2. i \in Fired(valued, c.horizon, Len(panel[k].bars)) /\ i + c.horizon <= Len(panel[k].bars)
  BY DEF Decisions
<1>3. i \in valued /\ i \in 1..Len(panel[k].bars)
  <2> HIDE DEF valued
  <2>1. QED BY <1>1, <1>2, FiredFacts DEF FiresIn
<1>4. QED BY <1>1, <1>2, <1>3

\* With the bars closed by a day the gate decides what it had decided, and closed,
\* by then.
LEMMA DecisionsOfThePast ==
  ASSUME NEW panel, IsPanel(panel), NEW day \in Int, NEW c, IsSetup(c), NEW k \in DOMAIN panel
  PROVE  LET now == Decisions(panel[k], SignalValues(panel, c)[k], c)
             then == Decisions(Cut(panel, day)[k], SignalValues(Cut(panel, day), c)[k], c)
         IN /\ \A i : i \in then <=> i \in now /\ panel[k].bars[i + c.horizon].day <= day
            /\ \A i \in then :
                 TradeAt(k, Cut(panel, day)[k], SignalValues(Cut(panel, day), c)[k], c, i)
                   = TradeAt(k, panel[k], SignalValues(panel, c)[k], c, i)
<1> DEFINE cut == Cut(panel, day)[k]
           row == panel[k]
           n == Len(row.bars)
           m == Known(row.bars, day)
           v == SignalValues(panel, c)[k]
           w == SignalValues(Cut(panel, day), c)[k]
           h == c.horizon
           valued == {i \in DOMAIN v : i > Warmup}
           early == {i \in DOMAIN w : i > Warmup}
           all == Fired(valued, h, n)
           past == Fired(early, h, m)
<1>1. h \in Nat \ {0}
  BY DEF IsSetup
<1>2. IsSeries(row.bars) /\ n \in Nat
  BY DEF IsPanel, IsSeries
<1>3. m \in 0..n /\ \A i \in 1..n : i <= m <=> row.bars[i].day <= day
  BY <1>2, KnownFirst
<1>4. cut.reserve = row.reserve /\ Len(cut.bars) = m /\ \A i \in 1..m : cut.bars[i] = row.bars[i]
  <2>1. cut.reserve = row.reserve /\ Len(cut.bars) = m /\ Begins(cut.bars, row.bars)
    BY CutFacts
  <2>2. QED BY <2>1 DEF Begins
<1>5. Agree(w, v, m)
  BY SignalsLookBack
<1>6. past = all \cap 1..m
  <2>1. \A i \in 1..m : i \in early <=> i \in valued
    BY <1>5 DEF Agree
  <2> HIDE DEF early, valued, m, n
  <2>2. QED BY <1>1, <1>2, <1>3, <2>1, FiredPrefix
<1>7. all \subseteq valued \cap 1..n
  <2> HIDE DEF valued
  <2>1. QED BY <1>1, <1>2, FiredFacts DEF FiresIn
<1> DEFINE none == DepthQuote(row.reserve, c) <= 0 \/ Position(row.reserve) <= 0
           now == Decisions(row, v, c)
           then == Decisions(cut, w, c)
<1>8. /\ \A i : i \in now <=> ~none /\ i \in all /\ i + h <= n
      /\ \A i : i \in then <=> ~none /\ i \in past /\ i + h <= m
  BY <1>4 DEF Decisions
<1> HIDE DEF all, past, now, then, none, m, n, v, w, row, cut, valued, h
<1>9. ASSUME NEW i PROVE i \in then <=> i \in now /\ row.bars[i + h].day <= day
  <2>1. CASE i \in all
    <3>1. i \in 1..n /\ i + h \in Nat \ {0}
      BY <1>1, <1>7, <2>1
    <3>2. i + h <= n => (i + h <= m <=> row.bars[i + h].day <= day)
      BY <1>2, <1>3, <3>1
    <3>3. i + h <= m => i + h <= n /\ i \in 1..m
      BY <1>1, <1>2, <1>3, <3>1
    <3>4. QED BY <1>6, <1>8, <2>1, <3>2, <3>3
  <2>2. CASE i \notin all
    BY <1>6, <1>8, <2>2
  <2>3. QED BY <2>1, <2>2
<1>10. ASSUME NEW i \in then PROVE TradeAt(k, cut, w, c, i) = TradeAt(k, row, v, c, i)
  <2>1. i \in past /\ i + h <= m /\ i \in valued
    BY <1>6, <1>7, <1>8
  <2>2. i \in 1..m /\ i + h \in 1..m
    BY <1>1, <1>3, <1>6, <2>1
  <2>3. cut.bars[i] = row.bars[i] /\ cut.bars[i + h] = row.bars[i + h]
    BY <1>4, <2>2
  <2>4. w[i] = v[i]
    BY <1>5, <2>1, <2>2 DEF Agree, valued
  <2>5. QED BY <1>4, <2>3, <2>4 DEF TradeAt, h
<1>11. QED BY <1>9, <1>10 DEF now, then, h, row, cut, v, w

\* What a gate given only the past does is what it had closed by then.
LEMMA RunOfThePast ==
  ASSUME NEW panel, IsPanel(panel), NEW day \in Int, NEW c, IsSetup(c)
  PROVE  Run(Cut(panel, day), c) = {t \in Run(panel, c) : t.exit <= day}
<1> DEFINE cut == Cut(panel, day)
           v(k) == SignalValues(panel, c)[k]
           w(k) == SignalValues(cut, c)[k]
<1>1. ASSUME NEW k \in DOMAIN panel
      PROVE  /\ \A i : i \in Decisions(cut[k], w(k), c)
                         <=> i \in Decisions(panel[k], v(k), c) /\ panel[k].bars[i + c.horizon].day <= day
             /\ \A i \in Decisions(cut[k], w(k), c) :
                  TradeAt(k, cut[k], w(k), c, i) = TradeAt(k, panel[k], v(k), c, i)
  BY DecisionsOfThePast
<1>2. DOMAIN cut = DOMAIN panel
  <2>1. CASE DOMAIN panel = {}
    BY <2>1 DEF Cut
  <2>2. CASE DOMAIN panel # {}
    BY <2>2, CutFacts
  <2>3. QED BY <2>1, <2>2
<1>3. \A k, i : TradeAt(k, panel[k], v(k), c, i).exit = panel[k].bars[i + c.horizon].day
  BY DEF TradeAt
<1>4. \A t : t \in Run(cut, c) <=> \E k \in DOMAIN cut : \E i \in Decisions(cut[k], w(k), c) :
                                     t = TradeAt(k, cut[k], w(k), c, i)
  <2>1. PICK P : P = cut
    OBVIOUS
  <2>2. \A t : t \in Run(P, c) <=>
          \E k \in DOMAIN P : \E i \in Decisions(P[k], SignalValues(P, c)[k], c) :
            t = TradeAt(k, P[k], SignalValues(P, c)[k], c, i)
    BY TradesAreDecisions
  <2> HIDE DEF cut
  <2>3. QED BY <2>1, <2>2
<1>5. \A t : t \in Run(panel, c) <=> \E k \in DOMAIN panel : \E i \in Decisions(panel[k], v(k), c) :
                                       t = TradeAt(k, panel[k], v(k), c, i)
  BY TradesAreDecisions
<1> HIDE DEF cut, v, w
<1>6. ASSUME NEW t PROVE t \in Run(cut, c) <=> t \in Run(panel, c) /\ t.exit <= day
  <2>1. ASSUME t \in Run(cut, c) PROVE t \in Run(panel, c) /\ t.exit <= day
    <3>1. PICK k \in DOMAIN panel : \E i \in Decisions(cut[k], w(k), c) :
            t = TradeAt(k, cut[k], w(k), c, i)
      BY <1>2, <1>4, <2>1
    <3>2. PICK i \in Decisions(cut[k], w(k), c) : t = TradeAt(k, cut[k], w(k), c, i)
      BY <3>1
    <3>3. /\ i \in Decisions(panel[k], v(k), c) /\ panel[k].bars[i + c.horizon].day <= day
          /\ t = TradeAt(k, panel[k], v(k), c, i)
      BY <1>1, <3>2
    <3>4. QED BY <1>3, <1>5, <3>3
  <2>2. ASSUME t \in Run(panel, c), t.exit <= day PROVE t \in Run(cut, c)
    <3>1. PICK k \in DOMAIN panel : \E i \in Decisions(panel[k], v(k), c) :
            t = TradeAt(k, panel[k], v(k), c, i)
      BY <1>5, <2>2
    <3>2. PICK i \in Decisions(panel[k], v(k), c) : t = TradeAt(k, panel[k], v(k), c, i)
      BY <3>1
    <3>3. panel[k].bars[i + c.horizon].day <= day
      BY <1>3, <2>2, <3>2
    <3>4. i \in Decisions(cut[k], w(k), c) /\ t = TradeAt(k, cut[k], w(k), c, i)
      BY <1>1, <3>2, <3>3
    <3>5. QED BY <1>2, <1>4, <3>4
  <2>3. QED BY <2>1, <2>2
<1>7. QED BY <1>6 DEF cut

\* The value of a trade is the one its signal has on the day of the decision.
LEMMA TradeDecidedThen ==
  ASSUME NEW panel, IsPanel(panel), NEW c, IsSetup(c), NEW t \in Run(panel, c)
  PROVE  DecidedThen(panel, t, c)
<1>1. PICK k \in DOMAIN panel : \E i \in Decisions(panel[k], SignalValues(panel, c)[k], c) :
        t = TradeAt(k, panel[k], SignalValues(panel, c)[k], c, i)
  BY TradesAreDecisions
<1>2. PICK i \in Decisions(panel[k], SignalValues(panel, c)[k], c) :
        t = TradeAt(k, panel[k], SignalValues(panel, c)[k], c, i)
  BY <1>1
<1> DEFINE s == panel[k].bars
           v == SignalValues(panel, c)[k]
           w == SignalValues(Cut(panel, t.at), c)[k]
<1>3. t.row = k /\ t.at = s[i].day /\ t.value = v[i]
  BY <1>2 DEF TradeAt
<1>4. i \in DOMAIN v /\ i \in 1..Len(s)
  BY <1>2, DecisionFacts
<1>5. IsSeries(s) /\ Len(s) \in Nat
  BY DEF IsPanel, IsSeries
<1>6. t.at \in Int
  <2>1. s \in Seq(BarSet) /\ \A b \in BarSet : b.day \in Int
    BY <1>5 DEF IsSeries, BarSet
  <2> HIDE DEF BarSet, s
  <2>2. s[i] \in BarSet
    BY <1>4, <2>1
  <2>3. QED BY <1>3, <2>1, <2>2
<1>7. Known(s, t.at) = i
  <2>1. /\ Known(s, t.at) \in 0..Len(s)
        /\ \A j \in 1..Len(s) : j <= Known(s, t.at) <=> s[j].day <= t.at
    BY <1>5, <1>6, KnownFirst
  <2>2. \A j \in 1..Len(s) : i < j => ~(s[j].day <= t.at)
    <3>1. \A j \in 1..Len(s) : s[j].day \in Int
      <4>1. s \in Seq(BarSet) /\ \A b \in BarSet : b.day \in Int
        BY <1>5 DEF IsSeries, BarSet
      <4> HIDE DEF BarSet, s
      <4>2. \A j \in 1..Len(s) : s[j] \in BarSet
        BY <1>5, <4>1
      <4>3. QED BY <4>1, <4>2
    <3>2. \A j \in 1..Len(s) : i < j => s[i].day < s[j].day
      BY <1>4, <1>5 DEF IsSeries
    <3>3. QED BY <1>3, <1>6, <3>1, <3>2
  <2>3. i <= Known(s, t.at)
    <3>1. s[i].day <= t.at
      BY <1>3, <1>6
    <3>2. QED BY <1>4, <2>1, <3>1
  <2> HIDE DEF s
  <2>4. ~(i < Known(s, t.at))
    BY <1>4, <1>5, <2>1, <2>2
  <2>5. QED BY <1>4, <1>5, <2>1, <2>3, <2>4
<1>8. Agree(w, v, Known(s, t.at)) /\ Len(Cut(panel, t.at)[k].bars) = i
  BY <1>6, <1>7, SignalsLookBack, CutFacts
<1>9. i \in DOMAIN w /\ w[i] = v[i]
  BY <1>4, <1>7, <1>8 DEF Agree
<1>10. QED BY <1>3, <1>8, <1>9 DEF DecidedThen

-----------------------------------------------------------------------------
(* Values and returns are numbers *)

LEMMA BarFacts ==
  ASSUME NEW s, IsSeries(s)
  PROVE  /\ Len(s) \in Nat /\ DOMAIN s = 1..Len(s)
         /\ \A i \in 1..Len(s) : /\ s[i].day \in Nat /\ s[i].volume \in Nat
                                 /\ s[i].close \in Nat \ {0} /\ s[i].high \in Nat \ {0}
<1>1. s \in Seq(BarSet)
  BY DEF IsSeries
<1>2. \A b \in BarSet : /\ b.day \in Nat /\ b.volume \in Nat
                        /\ b.close \in Nat \ {0} /\ b.high \in Nat \ {0}
  BY DEF BarSet
<1> HIDE DEF BarSet
<1>3. QED BY <1>1, <1>2

LEMMA MomentumIsInt ==
  ASSUME NEW s, IsSeries(s), NEW lookback \in Nat \ {0}
  PROVE  /\ DOMAIN Momentum(s, lookback) = (lookback + 1)..Len(s)
         /\ \A i \in DOMAIN Momentum(s, lookback) : Momentum(s, lookback)[i] \in Int
<1>1. Scale \in Nat
  BY ExecutionAssumption
<1>2. ASSUME NEW i \in (lookback + 1)..Len(s)
      PROVE  (Scale * s[i].close) \div s[i - lookback].close - Scale \in Int
  <2>1. s[i].close \in Nat /\ s[i - lookback].close \in Nat \ {0}
    BY BarFacts
  <2>2. Scale * s[i].close \in Int
    BY <1>1, <2>1
  <2>3. (Scale * s[i].close) \div s[i - lookback].close \in Int
    BY <2>1, <2>2, Quotient
  <2>4. QED BY <1>1, <2>3
<1>3. QED BY <1>2 DEF Momentum

LEMMA MeanReversionIsInt ==
  ASSUME NEW s, IsSeries(s), NEW lookback \in Nat \ {0}
  PROVE  \A i \in DOMAIN MeanReversion(s, lookback) : MeanReversion(s, lookback)[i] \in Int
<1> DEFINE closes(i) == [k \in (i - lookback)..(i - 1) |-> s[k].close]
           total(i) == SumFunction(closes(i))
           squares(i) == [k \in DOMAIN closes(i) |-> Square(closes(i)[k])]
           spread(i) == lookback * SumFunction(squares(i)) - Square(total(i))
           gap(i) == lookback * s[i].close - total(i)
           z2(i) == (Scale * Square(gap(i))) \div spread(i)
<1>1. MeanReversion(s, lookback) =
        [i \in {k \in (lookback + 1)..Len(s) : spread(k) > 0} |->
           IF gap(i) < 0 THEN z2(i) ELSE -z2(i)]
  BY DEF MeanReversion
<1>2. ASSUME NEW i \in (lookback + 1)..Len(s), spread(i) > 0 PROVE z2(i) \in Int
  <2>1. IsFiniteSet(DOMAIN closes(i)) /\ DOMAIN squares(i) = DOMAIN closes(i)
    <3>1. IsFiniteSet((i - lookback)..(i - 1))
      BY FS_Interval
    <3>2. QED BY <3>1
  <2>2. \A k \in DOMAIN closes(i) : closes(i)[k] \in Int /\ squares(i)[k] \in Int
    <3>1. \A k \in (i - lookback)..(i - 1) : s[k].close \in Int
      BY BarFacts
    <3>2. QED BY <3>1 DEF Square
  <2>3. s[i].close \in Int
    BY BarFacts
  <2> HIDE DEF closes, squares
  <2>4. total(i) \in Int /\ SumFunction(squares(i)) \in Int
    BY <2>1, <2>2, SumIsInt
  <2> HIDE DEF total
  <2>5. spread(i) \in Int /\ gap(i) \in Int
    BY <2>3, <2>4 DEF Square
  <2> HIDE DEF spread, gap
  <2>6. Scale * Square(gap(i)) \in Int
    BY <2>5, ExecutionAssumption DEF Square
  <2>7. spread(i) \in Nat \ {0}
    BY <1>2, <2>5
  <2>8. QED BY <2>6, <2>7, Quotient
<1> HIDE DEF z2, spread, gap
<1>3. \A i \in DOMAIN MeanReversion(s, lookback) :
        MeanReversion(s, lookback)[i] = (IF gap(i) < 0 THEN z2(i) ELSE -z2(i)) /\ z2(i) \in Int
  BY <1>1, <1>2
<1>4. QED BY <1>3

LEMMA BreakoutIsInt ==
  ASSUME NEW s, IsSeries(s), NEW lookback \in Nat \ {0}
  PROVE  \A i \in DOMAIN Breakout(s, lookback) : Breakout(s, lookback)[i] \in Int
<1> DEFINE highs(i) == {s[k].high : k \in (i - lookback)..(i - 1)}
<1>1. \A i \in DOMAIN Breakout(s, lookback) :
        /\ i \in (lookback + 1)..Len(s)
        /\ Breakout(s, lookback)[i] = (Scale * s[i].close) \div Max(highs(i)) - Scale
  BY DEF Breakout
<1>2. ASSUME NEW i \in (lookback + 1)..Len(s)
      PROVE  (Scale * s[i].close) \div Max(highs(i)) - Scale \in Int
  <2> DEFINE window == (i - lookback)..(i - 1)
             f == [k \in window |-> s[k].high]
  <2>1. highs(i) \in SUBSET (Nat \ {0}) /\ highs(i) # {}
    <3>1. \A k \in window : s[k].high \in Nat \ {0}
      BY BarFacts
    <3>2. i - 1 \in window
      OBVIOUS
    <3>3. QED BY <3>1, <3>2
  <2>2. IsFiniteSet(highs(i))
    <3>1. IsFiniteSet(window)
      BY FS_Interval
    <3>2. f \in Surjection(window, highs(i))
      BY DEF Surjection
    <3> HIDE DEF window, f, highs
    <3>3. QED BY <3>1, <3>2, FS_Surjection
  <2> HIDE DEF highs
  <2>3. Max(highs(i)) \in Nat \ {0}
    <3>1. highs(i) \in SUBSET Int
      BY <2>1
    <3>2. Max(highs(i)) \in highs(i)
      BY <2>1, <2>2, <3>1, IntOrder
    <3>3. QED BY <2>1, <3>2
  <2>4. s[i].close \in Nat /\ Scale \in Nat
    BY BarFacts, ExecutionAssumption
  <2>5. (Scale * s[i].close) \div Max(highs(i)) \in Int
    <3>1. Scale * s[i].close \in Int
      BY <2>4
    <3>2. QED BY <2>3, <3>1, Quotient
  <2>6. QED BY <2>4, <2>5
<1> HIDE DEF highs
<1>3. QED BY <1>1, <1>2

LEMMA XsIsInt ==
  ASSUME NEW panel, IsPanel(panel), NEW lookback \in Nat \ {0}, NEW k \in DOMAIN panel
  PROVE  \A i \in DOMAIN XsValues(panel, lookback)[k] : XsValues(panel, lookback)[k][i] \in Int
<1> DEFINE raw == [n \in DOMAIN panel |-> Momentum(panel[n].bars, lookback)]
           own == [n \in DOMAIN panel |-> DOMAIN raw[n]]
           all == UNION {{n} \X own[n] : n \in DOMAIN panel}
           peers(day) == {e \in UNION {{n} \X DOMAIN raw[n] : n \in DOMAIN panel} :
                            panel[e[1]].bars[e[2]].day = day}
           weaker(e, n, i) == \/ raw[e[1]][e[2]] < raw[n][i]
                              \/ raw[e[1]][e[2]] = raw[n][i] /\ e[1] < n
           sameDay(n, i) == peers(panel[n].bars[i].day)
           below(n, i) == {e \in sameDay(n, i) : weaker(e, n, i)}
<1>1. \A i \in DOMAIN XsValues(panel, lookback)[k] :
        /\ Cardinality(sameDay(k, i)) >= 3
        /\ XsValues(panel, lookback)[k][i] =
             (Scale * Cardinality(below(k, i))) \div (Cardinality(sameDay(k, i)) - 1)
  BY DEF XsValues
<1>2. IsFiniteSet(all)
  <2>1. ASSUME NEW n \in DOMAIN panel PROVE IsFiniteSet(own[n])
    <3>1. own[n] = (lookback + 1)..Len(panel[n].bars) /\ Len(panel[n].bars) \in Nat
      BY MomentumIsInt, BarFacts DEF IsPanel
    <3>2. QED BY <3>1, FS_Interval
  <2>2. IsFiniteSet(DOMAIN panel)
    BY DEF IsPanel
  <2> HIDE DEF own
  <2>3. QED BY <2>1, <2>2, FinitePairs
<1>3. \A day : peers(day) \subseteq all
  <2>1. \A n \in DOMAIN panel : own[n] = DOMAIN raw[n]
    OBVIOUS
  <2> HIDE DEF own, raw
  <2>2. QED BY <2>1
<1> HIDE DEF all, peers
<1>4. ASSUME NEW i
      PROVE  Cardinality(sameDay(k, i)) \in Nat /\ Cardinality(below(k, i)) \in Nat
  <2>1. IsFiniteSet(sameDay(k, i))
    BY <1>2, <1>3, FS_Subset
  <2> HIDE DEF sameDay, weaker
  <2>2. IsFiniteSet(below(k, i))
    BY <2>1, FS_Subset
  <2> HIDE DEF below
  <2>3. QED BY <2>1, <2>2, FS_CardinalityType
<1> HIDE DEF sameDay, below
<1>5. ASSUME NEW i, Cardinality(sameDay(k, i)) >= 3
      PROVE  (Scale * Cardinality(below(k, i))) \div (Cardinality(sameDay(k, i)) - 1) \in Int
  <2>1. Scale * Cardinality(below(k, i)) \in Int
    BY <1>4, ExecutionAssumption
  <2>2. Cardinality(sameDay(k, i)) - 1 \in Nat \ {0}
    BY <1>4, <1>5
  <2>3. QED BY <2>1, <2>2, Quotient
<1>6. QED BY <1>1, <1>5

LEMMA ValuesAreInts ==
  ASSUME NEW panel, IsPanel(panel), NEW c, IsSetup(c), NEW k \in DOMAIN panel
  PROVE  \A i \in DOMAIN SignalValues(panel, c)[k] : SignalValues(panel, c)[k][i] \in Int
<1>1. c.lookback \in Nat \ {0} /\ IsSeries(panel[k].bars)
  BY DEF IsSetup, IsPanel
<1>2. CASE c.signal = "xs_mom"
  BY <1>1, <1>2, XsIsInt DEF SignalValues
<1>3. CASE c.signal = "ts_mom"
  <2>1. SignalValues(panel, c)[k] = Momentum(panel[k].bars, c.lookback)
    BY <1>3 DEF SignalValues
  <2>2. QED BY <1>1, <2>1, MomentumIsInt
<1>4. CASE c.signal = "mean_rev"
  <2>1. SignalValues(panel, c)[k] = MeanReversion(panel[k].bars, c.lookback)
    BY <1>4 DEF SignalValues
  <2>2. QED BY <1>1, <2>1, MeanReversionIsInt
<1>5. CASE c.signal = "breakout"
  <2>1. SignalValues(panel, c)[k] = Breakout(panel[k].bars, c.lookback)
    BY <1>5 DEF SignalValues
  <2>2. QED BY <1>1, <2>1, BreakoutIsInt
<1>6. QED BY <1>2, <1>3, <1>4, <1>5 DEF IsSetup, Signals

\* A position needs a reserve, of which half the depth is something.
LEMMA PositionFacts ==
  ASSUME NEW reserve \in Nat
  PROVE  /\ Position(reserve) \in Nat
         /\ Position(reserve) > 0 => reserve >= 4
<1> DEFINE part == reserve \div CapacityPart
<1>1. CapacityPart \in Nat \ {0} /\ CapacityPart >= 4 /\ MaxNotional \in Nat
  BY KillGateAssumption
<1>2. part \in Nat
  BY <1>1, Quotient
<1>3. reserve < CapacityPart => part = 0
  BY <1>1
<1> HIDE DEF part
<1>4. PICK v \in {MaxNotional, part} : \A o \in {MaxNotional, part} : v <= o
  <2>1. MaxNotional <= part \/ part <= MaxNotional
    BY <1>1, <1>2
  <2>2. QED BY <1>1, <1>2, <2>1
<1>5. Position(reserve) = Min({MaxNotional, part})
  BY DEF Position, part
<1>6. /\ Min({MaxNotional, part}) \in {MaxNotional, part}
      /\ \A o \in {MaxNotional, part} : Min({MaxNotional, part}) <= o
  BY <1>4 DEF Min
<1>7. Position(reserve) \in Nat /\ Position(reserve) <= part
  BY <1>1, <1>2, <1>5, <1>6
<1>8. QED BY <1>1, <1>2, <1>3, <1>7

-----------------------------------------------------------------------------
(* The sample a verdict is drawn from *)

\* Where a gate decides: pools and bars.
Places(panel, c) ==
  UNION {{k} \X Decisions(panel[k], SignalValues(panel, c)[k], c) : k \in DOMAIN panel}

\* A gate trades once at each place, and every trade has a number for its value and
\* for its return.
LEMMA RunFacts ==
  ASSUME NEW panel, IsPanel(panel), NEW c, IsSetup(c)
  PROVE  /\ IsFiniteSet(Run(panel, c))
         /\ Cardinality(Run(panel, c)) = Cardinality(Places(panel, c))
         /\ \A t \in Run(panel, c) : t.value \in Int /\ t.net \in Int
<1> DEFINE v(k) == SignalValues(panel, c)[k]
           own == [k \in DOMAIN panel |-> Decisions(panel[k], v(k), c)]
           P == Places(panel, c)
           f == [e \in P |-> TradeAt(e[1], panel[e[1]], v(e[1]), c, e[2])]
<1>1. \A e : e \in P <=> \E k \in DOMAIN panel : \E i \in own[k] : e = <<k, i>>
  BY DEF Places
<1>2. ASSUME NEW k \in DOMAIN panel, NEW i \in own[k]
      PROVE  /\ i \in DOMAIN v(k)
             /\ i \in 1..Len(panel[k].bars) /\ i + c.horizon \in 1..Len(panel[k].bars)
  BY DecisionFacts
<1>3. IsFiniteSet(P)
  <2>1. ASSUME NEW k \in DOMAIN panel PROVE IsFiniteSet(own[k])
    <3>1. own[k] \subseteq 1..Len(panel[k].bars)
      BY <1>2
    <3>2. IsFiniteSet(1..Len(panel[k].bars))
      BY BarFacts, FS_Interval DEF IsPanel
    <3>3. QED BY <3>1, <3>2, FS_Subset
  <2>2. IsFiniteSet(DOMAIN panel)
    BY DEF IsPanel
  <2>3. P = UNION {{k} \X own[k] : k \in DOMAIN panel}
    BY DEF Places
  <2> HIDE DEF own, P
  <2>4. QED BY <2>1, <2>2, <2>3, FinitePairs
<1>4. \A t : t \in Run(panel, c) <=> \E e \in P : t = f[e]
  <2>1. \A t : t \in Run(panel, c) <=>
          \E k \in DOMAIN panel : \E i \in own[k] : t = TradeAt(k, panel[k], v(k), c, i)
    BY TradesAreDecisions
  <2>2. ASSUME NEW k \in DOMAIN panel, NEW i \in own[k]
        PROVE  <<k, i>> \in P /\ f[<<k, i>>] = TradeAt(k, panel[k], v(k), c, i)
    <3>1. PICK e : e = <<k, i>>
      OBVIOUS
    <3>2. e \in P /\ e[1] = k /\ e[2] = i
      BY <1>1, <3>1
    <3>3. f[e] = TradeAt(k, panel[k], v(k), c, i)
      BY <3>2
    <3> HIDE DEF P, f
    <3>4. QED BY <3>1, <3>2, <3>3
  <2> HIDE DEF P, f, own, v
  <2>3. ASSUME NEW t \in Run(panel, c) PROVE \E e \in P : t = f[e]
    BY <2>1, <2>2
  <2>4. ASSUME NEW e \in P PROVE f[e] \in Run(panel, c)
    <3>1. PICK k \in DOMAIN panel : \E i \in own[k] : e = <<k, i>>
      BY <1>1
    <3>2. PICK i \in own[k] : e = <<k, i>>
      BY <3>1
    <3>3. f[e] = TradeAt(k, panel[k], v(k), c, i)
      BY <2>2, <3>2
    <3>4. QED BY <2>1, <3>3
  <2>5. QED BY <2>3, <2>4
<1>5. ASSUME NEW k \in DOMAIN panel, NEW i \in own[k]
      PROVE  /\ TradeAt(k, panel[k], v(k), c, i).row = k
             /\ TradeAt(k, panel[k], v(k), c, i).at = panel[k].bars[i].day
             /\ TradeAt(k, panel[k], v(k), c, i).value \in Int
             /\ TradeAt(k, panel[k], v(k), c, i).net \in Int
  <2> DEFINE s == panel[k].bars
             n == Position(panel[k].reserve)
             q == DepthQuote(panel[k].reserve, c)
  <2>1. v(k)[i] \in Int
    BY <1>2, ValuesAreInts
  <2>2. n \in Nat
    BY PositionFacts DEF IsPanel
  <2>3. q \in Nat
    <3>1. panel[k].reserve \in Nat /\ c.quarters \in Nat
      BY DEF IsPanel, IsSetup
    <3>2. panel[k].reserve * c.quarters \in Nat
      BY <3>1
    <3>3. QED BY <3>2 DEF DepthQuote
  <2>4. s[i].close \in Nat \ {0} /\ s[i + c.horizon].close \in Nat \ {0}
    BY <1>2, BarFacts DEF IsPanel
  <2> HIDE DEF s, n, q
  <2>5. NetReturn(n, s[i].close, q, s[i + c.horizon].close, q) \in Int
    BY <2>2, <2>3, <2>4, NetReturnIsInt
  <2>6. QED BY <2>1, <2>5 DEF TradeAt, s, n, q
<1>6. \A a, b \in P : f[a] = f[b] => a = b
  <2>1. SUFFICES ASSUME NEW a \in P, NEW b \in P, f[a] = f[b] PROVE a = b
    OBVIOUS
  <2>2. \E k \in DOMAIN panel : \E i \in own[k] : a = <<k, i>>
    BY <1>1
  <2>3. PICK k \in DOMAIN panel : \E i \in own[k] : a = <<k, i>>
    BY <2>2
  <2>4. PICK i \in own[k] : a = <<k, i>>
    BY <2>3
  <2>5. PICK l \in DOMAIN panel : \E j \in own[l] : b = <<l, j>>
    BY <1>1
  <2>6. PICK j \in own[l] : b = <<l, j>>
    BY <2>5
  <2>7. f[a] = TradeAt(k, panel[k], v(k), c, i) /\ f[b] = TradeAt(l, panel[l], v(l), c, j)
    BY <2>4, <2>6
  <2> HIDE DEF f, own, v, P
  <2>8. k = l /\ panel[k].bars[i].day = panel[k].bars[j].day
    <3>1. f[a].row = k /\ f[a].at = panel[k].bars[i].day
      BY <1>5, <2>7
    <3>2. f[b].row = l /\ f[b].at = panel[l].bars[j].day
      BY <1>5, <2>7
    <3>3. QED BY <2>1, <3>1, <3>2
  <2> DEFINE s == panel[k].bars
  <2>9. i \in 1..Len(s) /\ j \in 1..Len(s) /\ Len(s) \in Nat
    BY <1>2, <2>4, <2>6, <2>8, BarFacts DEF IsPanel
  <2>10. s[i].day \in Int /\ s[j].day \in Int
    BY <2>9, BarFacts DEF IsPanel
  <2>11. (i < j => s[i].day < s[j].day) /\ (j < i => s[j].day < s[i].day)
    BY <2>9 DEF IsPanel, IsSeries
  <2> HIDE DEF s
  <2>12. ~(i < j) /\ ~(j < i)
    BY <2>8, <2>10, <2>11 DEF s
  <2>13. i = j
    BY <2>9, <2>12
  <2>14. QED BY <2>4, <2>6, <2>8, <2>13
<1>7. ExistsBijection(P, Run(panel, c))
  <2>1. DOMAIN f = P /\ \A e \in P : f[e] \in Run(panel, c)
    BY <1>4
  <2>2. f = [e \in P |-> f[e]]
    OBVIOUS
  <2> HIDE DEF f, P
  <2>3. f \in [P -> Run(panel, c)]
    BY <2>1, <2>2
  <2>4. f \in Bijection(P, Run(panel, c))
    BY <1>4, <1>6, <2>1, <2>3 DEF Bijection, Injection, Surjection, IsInjective
  <2>5. QED BY <2>4 DEF ExistsBijection
<1>8. \A t \in Run(panel, c) : t.value \in Int /\ t.net \in Int
  <2>1. \A e \in P : f[e].value \in Int /\ f[e].net \in Int
    <3>1. SUFFICES ASSUME NEW e \in P PROVE f[e].value \in Int /\ f[e].net \in Int
      OBVIOUS
    <3>2. PICK k \in DOMAIN panel : \E i \in own[k] : e = <<k, i>>
      BY <1>1
    <3>3. PICK i \in own[k] : e = <<k, i>>
      BY <3>2
    <3>4. f[e] = TradeAt(k, panel[k], v(k), c, i)
      BY <3>3
    <3>5. QED BY <1>5, <3>4
  <2>2. QED BY <1>4, <2>1
<1> HIDE DEF P
<1>9. QED BY <1>3, <1>7, <1>8, FS_Bijection DEF P

\* At half the depth the gate trades at the same places: a reserve that affords a
\* position has a depth at either.
LEMMA HalfDepthSamePlaces ==
  ASSUME NEW panel, IsPanel(panel), NEW s \in Signals
  PROVE  Places(panel, [Base(s) EXCEPT !.quarters = 1]) = Places(panel, Base(s))
<1> DEFINE c == Base(s)
           h == [Base(s) EXCEPT !.quarters = 1]
<1>1. /\ h.signal = c.signal /\ h.lookback = c.lookback /\ h.horizon = c.horizon
      /\ h.quarters = 1 /\ c.quarters = 2
  BY DEF Base
<1> HIDE DEF c, h
<1>2. SignalValues(panel, h) = SignalValues(panel, c)
  BY <1>1 DEF SignalValues
<1>3. ASSUME NEW row, row.reserve \in Nat
      PROVE  DepthQuote(row.reserve, h) <= 0 \/ Position(row.reserve) <= 0
               <=> DepthQuote(row.reserve, c) <= 0 \/ Position(row.reserve) <= 0
  <2>1. PICK r \in Nat : r = row.reserve
    BY <1>3
  <2>2. DepthQuote(r, h) = (r * 1) \div 4 /\ DepthQuote(r, c) = (r * 2) \div 4
    BY <1>1 DEF DepthQuote
  <2>3. Position(r) \in Nat /\ (Position(r) > 0 => r >= 4)
    BY PositionFacts
  <2>4. r >= 4 => (r * 1) \div 4 > 0 /\ (r * 2) \div 4 > 0
    OBVIOUS
  <2>5. QED BY <2>1, <2>2, <2>3, <2>4
<1>4. ASSUME NEW k \in DOMAIN panel
      PROVE  Decisions(panel[k], SignalValues(panel, h)[k], h)
               = Decisions(panel[k], SignalValues(panel, c)[k], c)
  <2>1. panel[k].reserve \in Nat
    BY DEF IsPanel
  <2>2. QED BY <1>1, <1>2, <1>3, <2>1 DEF Decisions
<1>5. Places(panel, h) = Places(panel, c)
  BY <1>4 DEF Places
<1>6. QED BY <1>5 DEF c, h

\* Products keep the order of their factors.
LEMMA Scaled ==
  ASSUME NEW a \in Int, NEW b \in Int, NEW c \in Nat \ {0}
  PROVE  /\ a >= b <=> a * c >= b * c
         /\ a > b <=> a * c > b * c
<1>1. PICK d \in Int : d = a - b
  OBVIOUS
<1>2. a * c = b * c + d * c
  BY <1>1
<1>3. (d >= 0 => d * c >= 0) /\ (d > 0 => d * c > 0) /\ (d < 0 => d * c < 0)
  OBVIOUS
<1>4. a * c \in Int /\ b * c \in Int /\ d * c \in Int
  OBVIOUS
<1>5. (d >= 0 <=> d * c >= 0) /\ (d > 0 <=> d * c > 0)
  BY <1>3, <1>4
<1>6. (a * c >= b * c <=> d * c >= 0) /\ (a * c > b * c <=> d * c > 0)
  BY <1>2, <1>4
<1>7. QED BY <1>1, <1>5, <1>6

\* Of three fractions the first is at least the last if each is at least the next,
\* and more if one is more.
LEMMA FractionsOrdered ==
  ASSUME NEW t1 \in Int, NEW t2 \in Int, NEW t3 \in Int,
         NEW f1 \in Nat \ {0}, NEW f2 \in Nat \ {0}, NEW f3 \in Nat \ {0},
         t1 * f2 >= t2 * f1, t2 * f3 >= t3 * f2
  PROVE  /\ t1 * f3 >= t3 * f1
         /\ t1 * f2 > t2 * f1 \/ t2 * f3 > t3 * f2 => t1 * f3 > t3 * f1
<1> DEFINE a == t1 * f2
           b == t2 * f1
           x == t2 * f3
           y == t3 * f2
<1>1. a \in Int /\ b \in Int /\ x \in Int /\ y \in Int
  OBVIOUS
<1>2. b * f3 = x * f1
  OBVIOUS
<1>3. a * f3 = (t1 * f3) * f2 /\ y * f1 = (t3 * f1) * f2
  OBVIOUS
<1>4. a >= b /\ x >= y
  OBVIOUS
<1>5. t1 * f3 \in Int /\ t3 * f1 \in Int
  OBVIOUS
<1>6. (a > b \/ x > y) <=> (t1 * f2 > t2 * f1 \/ t2 * f3 > t3 * f2)
  OBVIOUS
<1> HIDE DEF a, b, x, y
<1>7. a * f3 \in Int /\ b * f3 \in Int /\ x * f1 \in Int /\ y * f1 \in Int
  BY <1>1
<1>8. a * f3 >= b * f3 /\ x * f1 >= y * f1
  BY <1>1, <1>4, Scaled
<1>9. (a > b => a * f3 > b * f3) /\ (x > y => x * f1 > y * f1)
  BY <1>1, Scaled
<1>10. /\ a * f3 >= y * f1
       /\ a > b \/ x > y => a * f3 > y * f1
  BY <1>2, <1>7, <1>8, <1>9
<1>11. PICK l \in Int : l = t1 * f3
  BY <1>5
<1>12. PICK r \in Int : r = t3 * f1
  BY <1>5
<1>13. /\ l * f2 >= r * f2
       /\ a > b \/ x > y => l * f2 > r * f2
  BY <1>3, <1>10, <1>11, <1>12
<1>14. /\ l >= r
       /\ a > b \/ x > y => l > r
  BY <1>13, Scaled
<1>15. QED BY <1>6, <1>11, <1>12, <1>14

IsSample(T) == IsFiniteSet(T) /\ \A t \in T : t.value \in Int /\ t.net \in Int

LEMMA StatFacts ==
  ASSUME NEW T, IsSample(T)
  PROVE  Stat(T).fires = Cardinality(T) /\ Stat(T).fires \in Nat /\ Stat(T).total \in Int
<1> DEFINE f == [t \in T |-> t.net]
<1>1. IsFiniteSet(DOMAIN f) /\ \A t \in DOMAIN f : f[t] \in Int
  BY DEF IsSample
<1>2. Stat(T).total = SumFunction(f) /\ Stat(T).fires = Cardinality(T)
  BY DEF Stat
<1> HIDE DEF f
<1>3. QED BY <1>1, <1>2, SumIsInt, FS_CardinalityType DEF IsSample

LEMMA PassedFacts ==
  ASSUME NEW T, IsSample(T), NEW thr
  PROVE  /\ IsSample(Passed(T, thr)) /\ Passed(T, thr) \subseteq T
         /\ Cardinality(Passed(T, thr)) <= Cardinality(T)
         /\ Cardinality(Passed(T, thr)) = Cardinality(T) => Passed(T, thr) = T
<1>1. Passed(T, thr) \subseteq T
  BY DEF Passed
<1>2. QED BY <1>1, FS_Subset DEF IsSample

LEMMA ThresholdsFacts ==
  ASSUME NEW T, IsSample(T)
  PROVE  IsFiniteSet(Thresholds(T)) /\ Thresholds(T) \subseteq Int
<1> DEFINE s == [t \in T |-> t.value]
           Q == {<<0, 1>>, <<1, 4>>, <<1, 2>>, <<3, 4>>, <<9, 10>>, <<19, 20>>}
           D == {r \in Q : T # {}}
           f == [q \in D |-> Quantile(s, q[1], q[2])]
<1>1. Thresholds(T) = {f[q] : q \in D}
  BY DEF Thresholds
<1>2. IsFiniteSet(DOMAIN s) /\ \A t \in DOMAIN s : s[t] \in Int
  BY DEF IsSample
<1>3. T # {} => Cardinality(DOMAIN s) > 0
  <2>1. DOMAIN s = T
    OBVIOUS
  <2>2. Cardinality(T) \in Nat /\ (T # {} => Cardinality(T) # 0)
    BY FS_CardinalityType, FS_EmptySet DEF IsSample
  <2> HIDE DEF s
  <2>3. QED BY <2>1, <2>2
<1> HIDE DEF s
<1>4. \A q \in D : f[q] \in Int
  <2>1. SUFFICES ASSUME NEW q \in D PROVE f[q] \in Int
    OBVIOUS
  <2>2. q \in Q /\ T # {}
    OBVIOUS
  <2>3. QED BY <1>2, <1>3, <2>2, QuantileIsInt
<1>5. IsFiniteSet(D)
  <2>1. IsFiniteSet(Q)
    <3>1. /\ IsFiniteSet({<<0, 1>>}) /\ IsFiniteSet({<<1, 4>>}) /\ IsFiniteSet({<<1, 2>>})
          /\ IsFiniteSet({<<3, 4>>}) /\ IsFiniteSet({<<9, 10>>}) /\ IsFiniteSet({<<19, 20>>})
      BY FS_Singleton
    <3>2. /\ IsFiniteSet({<<0, 1>>} \cup {<<1, 4>>}) /\ IsFiniteSet({<<1, 2>>} \cup {<<3, 4>>})
          /\ IsFiniteSet({<<9, 10>>} \cup {<<19, 20>>})
      BY <3>1, FS_Union
    <3>3. IsFiniteSet(({<<0, 1>>} \cup {<<1, 4>>}) \cup ({<<1, 2>>} \cup {<<3, 4>>}))
      BY <3>2, FS_Union
    <3>4. IsFiniteSet((({<<0, 1>>} \cup {<<1, 4>>}) \cup ({<<1, 2>>} \cup {<<3, 4>>}))
                        \cup ({<<9, 10>>} \cup {<<19, 20>>}))
      BY <3>2, <3>3, FS_Union
    <3>5. Q = (({<<0, 1>>} \cup {<<1, 4>>}) \cup ({<<1, 2>>} \cup {<<3, 4>>}))
                \cup ({<<9, 10>>} \cup {<<19, 20>>})
      OBVIOUS
    <3> HIDE DEF Q
    <3>6. QED BY <3>4, <3>5
  <2>2. D \subseteq Q
    OBVIOUS
  <2> HIDE DEF D, Q
  <2>3. QED BY <2>1, <2>2, FS_Subset
<1> HIDE DEF Q
<1>6. f \in Surjection(D, Thresholds(T))
  BY <1>1 DEF Surjection
<1> HIDE DEF D, f
<1>7. QED BY <1>1, <1>4, <1>5, <1>6, FS_Surjection

\* Among the eligible thresholds one is the first of the best.
LEMMA BestIsEligible ==
  ASSUME NEW T, IsSample(T), Eligibles(T) # {}
  PROVE  BestThreshold(T) \in Eligibles(T)
<1> DEFINE E == Eligibles(T)
           fires(x) == Stat(Passed(T, x)).fires
           total(x) == Stat(Passed(T, x)).total
           beats(x, y) == total(x) * fires(y) > total(y) * fires(x)
           R == {e \in E \X E : \/ beats(e[1], e[2])
                                \/ ~beats(e[2], e[1]) /\ e[1] < e[2]}
<1>1. E \subseteq Int /\ IsFiniteSet(E)
  <2>1. E \subseteq Thresholds(T)
    BY DEF Eligibles
  <2>2. QED BY <2>1, ThresholdsFacts, FS_Subset
<1>2. \A x \in E : fires(x) \in Nat \ {0} /\ total(x) \in Int
  <2>1. SUFFICES ASSUME NEW x \in E PROVE fires(x) \in Nat \ {0} /\ total(x) \in Int
    OBVIOUS
  <2>2. IsSample(Passed(T, x))
    BY PassedFacts
  <2>3. Cardinality(Passed(T, x)) >= MinFires /\ MinFires \in Nat \ {0}
    BY KillGateAssumption DEF Eligibles
  <2>4. fires(x) = Cardinality(Passed(T, x)) /\ fires(x) \in Nat /\ total(x) \in Int
    BY <2>2, StatFacts
  <2>5. QED BY <2>3, <2>4
<1>3. \A x, y : Better(Stat(Passed(T, x)), Stat(Passed(T, y))) <=> beats(x, y)
  BY DEF Better
<1>4. BestThreshold(T) = CHOOSE m \in E : \A o \in E : ~beats(o, m) /\ (o < m => beats(m, o))
  BY DEF BestThreshold, Better
<1> HIDE DEF E, fires, total
<1>5. \A x, y \in E : beats(x, y) \/ total(y) * fires(x) >= total(x) * fires(y)
  <2>1. ASSUME NEW x \in E, NEW y \in E
        PROVE  beats(x, y) \/ total(y) * fires(x) >= total(x) * fires(y)
    <3>1. total(x) * fires(y) \in Int /\ total(y) * fires(x) \in Int
      BY <1>2
    <3>2. QED BY <3>1
  <2>2. QED BY <2>1
<1>6. \A x, y \in E : beats(x, y) => /\ total(x) * fires(y) >= total(y) * fires(x)
                                    /\ ~beats(y, x)
  <2>1. ASSUME NEW x \in E, NEW y \in E, beats(x, y)
        PROVE  total(x) * fires(y) >= total(y) * fires(x) /\ ~beats(y, x)
    <3>1. total(x) * fires(y) \in Int /\ total(y) * fires(x) \in Int
      BY <1>2
    <3>2. QED BY <2>1, <3>1
  <2>2. QED BY <2>1
<1>7. ASSUME NEW x \in E, NEW y \in E, NEW z \in E, ~beats(y, x), ~beats(z, y)
      PROVE  ~beats(z, x) /\ (beats(x, y) \/ beats(y, z) => beats(x, z))
  <2>1. /\ fires(x) \in Nat \ {0} /\ fires(y) \in Nat \ {0} /\ fires(z) \in Nat \ {0}
        /\ total(x) \in Int /\ total(y) \in Int /\ total(z) \in Int
    BY <1>2
  <2>2. /\ total(x) * fires(y) >= total(y) * fires(x)
        /\ total(y) * fires(z) >= total(z) * fires(y)
    BY <1>5, <1>7
  <2>3. /\ total(x) * fires(z) >= total(z) * fires(x)
        /\ beats(x, y) \/ beats(y, z) => beats(x, z)
    BY <2>1, <2>2, FractionsOrdered
  <2>4. total(x) * fires(z) \in Int /\ total(z) * fires(x) \in Int
    BY <2>1
  <2>5. QED BY <2>3, <2>4
<1>8. \A x, y : <<x, y>> \in R <=> x \in E /\ y \in E /\ (beats(x, y) \/ (~beats(y, x) /\ x < y))
  OBVIOUS
<1> HIDE DEF beats, R
<1>9. TotalOrder(E, R)
  <2>1. \A x \in E : <<x, x>> \notin R
    BY <1>1, <1>6, <1>8
  <2>2. ASSUME NEW x \in E, NEW y \in E PROVE x = y \/ <<x, y>> \in R \/ <<y, x>> \in R
    <3>1. x = y \/ x < y \/ y < x
      BY <1>1
    <3>2. QED BY <1>8, <3>1
  <2>3. ASSUME NEW x \in E, NEW y \in E, NEW z \in E, <<x, y>> \in R, <<y, z>> \in R
        PROVE  <<x, z>> \in R
    <3>1. ~beats(y, x) /\ ~beats(z, y)
      BY <1>6, <1>8, <2>3
    <3>2. ~beats(z, x) /\ (beats(x, y) \/ beats(y, z) => beats(x, z))
      BY <1>7, <3>1
    <3>3. CASE beats(x, y) \/ beats(y, z)
      BY <1>8, <3>2, <3>3
    <3>4. CASE ~(beats(x, y) \/ beats(y, z))
      <4>1. x < y /\ y < z
        BY <1>8, <2>3, <3>4
      <4>2. x < z
        BY <1>1, <4>1
      <4>3. QED BY <1>8, <3>2, <4>2
    <3>5. QED BY <3>3, <3>4
  <2>4. QED BY <2>1, <2>2, <2>3 DEF TotalOrder
<1>10. PICK m \in E : \A x \in E : x = m \/ <<m, x>> \in R
  <2>1. E # {}
    BY DEF E
  <2>2. QED BY <1>1, <1>9, <2>1, First
<1>11. \A o \in E : ~beats(o, m) /\ (o < m => beats(m, o))
  <2>1. SUFFICES ASSUME NEW o \in E PROVE ~beats(o, m) /\ (o < m => beats(m, o))
    OBVIOUS
  <2>2. o \in Int /\ m \in Int
    BY <1>1
  <2>3. CASE o = m
    <3>1. ~beats(m, m)
      BY <1>6
    <3>2. QED BY <2>2, <2>3, <3>1
  <2>4. CASE <<m, o>> \in R
    BY <1>6, <1>8, <2>2, <2>4
  <2>5. QED BY <1>10, <2>3, <2>4
<1>12. BestThreshold(T) \in E
  BY <1>4, <1>11
<1>13. QED BY <1>12 DEF E

LEMMA SampleOfRun ==
  ASSUME NEW panel, IsPanel(panel), NEW c, IsSetup(c)
  PROVE  IsSample(Run(panel, c))
BY RunFacts DEF IsSample

LEMMA UnprovenVerdict ==
  ASSUME NEW panel, NEW c, NEW T, VerdictOf(panel, c, T) = "unproven"
  PROVE  /\ Eligibles(T) # {}
         /\ Better(Stat(Passed(T, BestThreshold(T))), Stat(T))
         /\ ~Fragile(Sweeps(panel, c, T))
BY DEF VerdictOf

\* A sweep of the depth with enough fires has made money, unless the signal is fragile.
LEMMA DepthSwept ==
  ASSUME NEW panel, IsPanel(panel), NEW c, IsSetup(c), NEW T, ~Fragile(Sweeps(panel, c, T)),
         NEW q \in {1, 2, 4}, Stat(Run(panel, [c EXCEPT !.quarters = q])).fires >= MinFires,
         IsSetup([c EXCEPT !.quarters = q])
  PROVE  Stat(Run(panel, [c EXCEPT !.quarters = q])).total > 0
<1> DEFINE stat == Stat(Run(panel, [c EXCEPT !.quarters = q]))
<1>1. stat \in Sweeps(panel, c, T)
  BY DEF Sweeps, DepthSweep
<1>2. stat.total \in Int /\ stat.fires >= MinFires
  BY SampleOfRun, StatFacts
<1> HIDE DEF stat
<1>3. ~(stat.total <= 0)
  BY <1>1, <1>2 DEF Fragile
<1>4. stat.total > 0
  BY <1>2, <1>3
<1>5. QED BY <1>4 DEF stat

\* What the picked trades earn, they earn over the rest.
LEMMA PickedBeatsRest ==
  ASSUME NEW f \in Int, NEW t \in Int, NEW n \in Int, NEW w \in Int, t * n > w * f
  PROVE  t * (n - f) > (w - t) * f
<1>1. t * (n - f) = t * n - t * f /\ (w - t) * f = w * f - t * f
  OBVIOUS
<1>2. t * n \in Int /\ t * f \in Int /\ w * f \in Int
  OBVIOUS
<1>3. QED BY <1>1, <1>2

-----------------------------------------------------------------------------
(* The funnel *)

ResolvedRows == {Row(Deepest(c), c \in InFdvBand, c) : c \in {d \in Coins : Sized(d) # {}}}

\* Before pos, a candidate has failed, has no pool with a reserve, or has its row;
\* there is no other row.  Outside the resolution there is nothing.
FunnelInv ==
  /\ candidates \in Seq(InFdvBand \cap Mapped)
  /\ \A j, k \in 1..Len(candidates) : candidates[j] = candidates[k] => j = k
  /\ pos \in Nat \ {0} /\ page \in Nat \ {0}
  /\ rows \in Seq(ResolvedRows)
  /\ \A k \in 1..Len(rows) : \E j \in 1..Len(candidates) :
       j < pos /\ rows[k].coin = candidates[j] /\ candidates[j] \notin failed
  /\ \A j \in 1..Len(candidates) :
       j < pos /\ candidates[j] \notin failed /\ Sized(candidates[j]) # {} =>
         \E k \in 1..Len(rows) : rows[k].coin = candidates[j]
  /\ failed \subseteq Flaky
  /\ \A c \in failed : \E j \in 1..Len(candidates) : j < pos /\ candidates[j] = c
  /\ command # "resolve" => pos = 1 /\ rows = <<>> /\ failed = {}

\* The promise of OneBadTokenCostsItself for one snapshot.
Kept(s) ==
  s.source = Funnel =>
    /\ s.failed \subseteq Flaky
    /\ s.whole => \A c \in s.asked \ s.failed : Sized(c) # {} =>
         \E r \in s.rows : /\ r.pool = Deepest(c).pool
                           /\ r.inBand <=> Deepest(c).reserve >= MinReserve
    /\ \A r \in s.rows : r.coin \in s.asked \ s.failed /\ r.pool = Deepest(r.coin).pool

SnapshotsInv ==
  /\ snapshots \in Seq(ToSet(snapshots))
  /\ \A n \in DOMAIN snapshots : Kept(snapshots[n])

LEMMA RowFacts ==
  ASSUME NEW r \in ResolvedRows
  PROVE  /\ r.coin \in Coins /\ Sized(r.coin) # {}
         /\ r.pool = Deepest(r.coin).pool
         /\ r.coin \in InFdvBand => (r.inBand <=> Deepest(r.coin).reserve >= MinReserve)
<1>1. PICK c \in Coins : Sized(c) # {} /\ r = Row(Deepest(c), c \in InFdvBand, c)
  BY DEF ResolvedRows
<1>2. Deepest(c).reserve # NoReserve
  BY <1>1, DeepestIsSized DEF Sized
<1>3. /\ r.coin = c /\ r.pool = Deepest(c).pool
      /\ r.inBand = (/\ Deepest(c).reserve # NoReserve /\ Deepest(c).reserve >= MinReserve
                     /\ c \in InFdvBand)
  BY <1>1 DEF Row, InBand
<1>4. QED BY <1>1, <1>2, <1>3

\* A snapshot of some of the rows, or of all when every candidate was tried,
\* keeps the promise.
LEMMA SnapshotKeeps ==
  ASSUME FunnelInv, pos > Len(candidates), NEW part \in Seq(ResolvedRows), NEW whole \in BOOLEAN,
         whole => part = rows,
         \A k \in 1..Len(part) : \E j \in 1..Len(rows) : part[k] = rows[j]
  PROVE  Kept(Snapshot(Funnel, part, ToSet(candidates), failed, whole))
<1>1. Len(candidates) \in Nat /\ DOMAIN candidates = 1..Len(candidates)
      /\ Len(rows) \in Nat /\ \A k \in 1..Len(rows) : rows[k] \in ResolvedRows
      /\ \A j \in 1..Len(candidates) : candidates[j] \in InFdvBand \cap Coins
  BY MidcapAssumption DEF FunnelInv
<1>2. /\ \A r \in LastPerPool(part) : \E k \in 1..Len(rows) : r = rows[k]
      /\ \A k \in 1..Len(part) : \E r \in LastPerPool(part) : r.pool = part[k].pool
  BY LastRow
<1>3. ASSUME NEW r \in LastPerPool(part)
      PROVE  /\ r.coin \in ToSet(candidates) \ failed /\ r.pool = Deepest(r.coin).pool
             /\ r.inBand <=> Deepest(r.coin).reserve >= MinReserve
             /\ r.coin \in Coins /\ Sized(r.coin) # {}
  <2>1. PICK k \in 1..Len(rows) : r = rows[k]
    BY <1>2
  <2>2. PICK j \in 1..Len(candidates) : r.coin = candidates[j] /\ candidates[j] \notin failed
    BY <2>1 DEF FunnelInv
  <2>3. r.coin \in ToSet(candidates) \ failed /\ r.coin \in InFdvBand
    BY <1>1, <2>2 DEF ToSet
  <2>4. QED BY <1>1, <2>1, <2>3, RowFacts
<1>4. ASSUME NEW c \in ToSet(candidates) \ failed, Sized(c) # {}, whole
      PROVE  \E r \in LastPerPool(part) : /\ r.pool = Deepest(c).pool
                                          /\ r.inBand <=> Deepest(c).reserve >= MinReserve
  <2>1. PICK j \in 1..Len(candidates) : c = candidates[j]
    BY <1>1 DEF ToSet
  <2>2. PICK k \in 1..Len(rows) : rows[k].coin = c
    <3>1. j < pos /\ candidates[j] \notin failed /\ Sized(candidates[j]) # {}
      BY <1>1, <1>4, <2>1 DEF FunnelInv
    <3>2. QED BY <2>1, <3>1 DEF FunnelInv
  <2>3. rows[k].pool = Deepest(c).pool
    BY <1>1, <2>2, RowFacts
  <2>4. PICK r \in LastPerPool(part) : r.pool = Deepest(c).pool
    BY <1>2, <1>4, <2>3
  <2>5. Deepest(c) \in ToSet(TokenPools[c]) /\ Deepest(r.coin) \in ToSet(TokenPools[r.coin])
    BY <1>1, <1>3, <1>4, <2>1, DeepestIsSized, SizedPools
  <2>6. Deepest(r.coin) = Deepest(c)
    BY <1>1, <1>3, <2>1, <2>4, <2>5, MidcapAssumption
  <2>7. QED BY <1>3, <2>4, <2>6
<1>5. QED BY <1>3, <1>4 DEF Kept, Snapshot, FunnelInv

\* What a death in the middle of a write leaves of a list.
LEMMA CutKeeps ==
  ASSUME NEW X, NEW list \in Seq(X), NEW part \in CutRows(list)
  PROVE  part \in Seq(X) /\ \A k \in 1..Len(part) : \E j \in 1..Len(list) : part[k] = list[j]
<1>1. PICK n \in 1..Len(list) : part = SubSeq(list, 1, n)
  BY DEF CutRows
<1>2. Len(list) \in Nat /\ DOMAIN list = 1..Len(list) /\ \A k \in DOMAIN list : list[k] \in X
  BY LenProperties
<1>3. part = [k \in 1..n |-> list[k]]
  BY <1>1, <1>2
<1>4. part \in [1..n -> X]
  BY <1>2, <1>3
<1>5. part \in Seq(X) /\ Len(part) = n
  BY <1>2, <1>3, <1>4
<1>6. QED BY <1>2, <1>3, <1>5

\* Appending a snapshot that keeps the promise.
LEMMA SnapshotAdded ==
  ASSUME SnapshotsInv, NEW s, Kept(s), snapshots' = Append(snapshots, s)
  PROVE  SnapshotsInv'
<1> DEFINE old == snapshots
           T == ToSet(snapshots) \cup {s}
<1>1. old \in Seq(T) /\ s \in T
  BY DEF SnapshotsInv, ToSet
<1>2. /\ Len(old) \in Nat /\ DOMAIN old = 1..Len(old)
      /\ Append(old, s) \in Seq(T) /\ Len(Append(old, s)) = Len(old) + 1
      /\ DOMAIN Append(old, s) = 1..(Len(old) + 1)
      /\ \A k \in 1..Len(old) : Append(old, s)[k] = old[k]
      /\ Append(old, s)[Len(old) + 1] = s
  BY <1>1
<1>3. \A k \in DOMAIN snapshots' : Kept(snapshots'[k])
  BY <1>2 DEF SnapshotsInv
<1>4. snapshots' \in Seq(ToSet(snapshots'))
  <2> DEFINE a == Append(old, s)
             n == Len(old) + 1
  <2>1. a \in [1..n -> T] /\ n \in Nat
    BY <1>2, LenProperties
  <2> HIDE DEF a, n
  <2>2. \A k \in 1..n : a[k] \in ToSet(a)
    BY <2>1 DEF ToSet
  <2>3. a \in [1..n -> ToSet(a)]
    BY <2>1, <2>2
  <2>4. a \in Seq(ToSet(a))
    BY <2>1, <2>3
  <2>5. QED BY <2>4 DEF a
<1>5. QED BY <1>3, <1>4 DEF SnapshotsInv, Kept

\* The start and every end of a command leave no funnel behind.
LEMMA NothingLeft ==
  ASSUME Forget, command' # "resolve"
  PROVE  FunnelInv'
<1>1. candidates' = <<>> /\ rows' = <<>> /\ failed' = {} /\ pos' = 1 /\ page' = 1
  BY DEF Forget
<1>2. Len(candidates') = 0 /\ Len(rows') = 0
  BY <1>1
<1>3. candidates' \in Seq(InFdvBand \cap Mapped) /\ rows' \in Seq(ResolvedRows)
  BY <1>1, EmptySeq
<1>4. QED BY <1>1, <1>2, <1>3 DEF FunnelInv, ResolvedRows

\* Another page only adds candidates, before any is tried.
LEMMA PageKeeps ==
  ASSUME FunnelInv, MarketsPage
  PROVE  FunnelInv'
<1> DEFINE new == Eligible(Pages[page])
           P == InFdvBand \cap Mapped
<1>1. /\ candidates' = candidates \o new /\ page' = page + 1 /\ command = "pages"
      /\ UNCHANGED <<rows, failed, pos, command>>
  BY DEF MarketsPage
<1>2. /\ candidates \in Seq(P) /\ new \in Seq(P)
      /\ \A j, k \in 1..Len(new) : new[j] = new[k] => j = k
      /\ \A k \in 1..Len(new) : new[k] \notin ToSet(candidates)
  <2>1. Pages[page] \in Seq(Coins)
    BY MidcapAssumption DEF MarketsPage, FunnelInv
  <2>2. QED BY <2>1, EligibleCoins DEF FunnelInv
<1> HIDE DEF new
<1>3. /\ Len(candidates) \in Nat /\ Len(new) \in Nat /\ candidates' \in Seq(P)
      /\ Len(candidates') = Len(candidates) + Len(new)
      /\ \A k \in 1..Len(candidates) : candidates'[k] = candidates[k]
      /\ \A k \in 1..Len(new) : candidates'[Len(candidates) + k] = new[k]
  BY <1>1, <1>2
<1>4. \A k \in 1..Len(candidates') :
        \/ k \in 1..Len(candidates)
        \/ k - Len(candidates) \in 1..Len(new)
           /\ candidates'[k] = new[k - Len(candidates)]
  BY <1>3
<1>5. \A k \in 1..Len(candidates) : candidates[k] \in ToSet(candidates)
  BY <1>2, <1>3 DEF ToSet
<1>6. ASSUME NEW j \in 1..Len(candidates'), NEW k \in 1..Len(candidates'),
             candidates'[j] = candidates'[k]
      PROVE  j = k
  <2>1. CASE j \in 1..Len(candidates) /\ k \in 1..Len(candidates)
    BY <1>3, <1>6, <2>1 DEF FunnelInv
  <2>2. CASE j \notin 1..Len(candidates) /\ k \notin 1..Len(candidates)
    <3>1. new[j - Len(candidates)] = new[k - Len(candidates)]
      BY <1>4, <1>6, <2>2
    <3>2. j - Len(candidates) = k - Len(candidates)
      BY <1>2, <1>4, <2>2, <3>1
    <3>3. QED BY <1>3, <3>2
  <2>3. CASE j \in 1..Len(candidates) /\ k \notin 1..Len(candidates)
    <3>1. candidates'[j] \in ToSet(candidates)
      BY <1>3, <1>5, <2>3
    <3>2. candidates'[k] \notin ToSet(candidates)
      BY <1>2, <1>4, <2>3
    <3>3. QED BY <1>6, <3>1, <3>2
  <2>4. CASE j \notin 1..Len(candidates) /\ k \in 1..Len(candidates)
    <3>1. candidates'[k] \in ToSet(candidates)
      BY <1>3, <1>5, <2>4
    <3>2. candidates'[j] \notin ToSet(candidates)
      BY <1>2, <1>4, <2>4
    <3>3. QED BY <1>6, <3>1, <3>2
  <2>5. QED BY <2>1, <2>2, <2>3, <2>4
<1>7. pos' = 1 /\ rows' = <<>> /\ failed' = {} /\ command' # "resolve"
  BY <1>1 DEF FunnelInv
<1>8. Len(rows') = 0 /\ rows' \in Seq(ResolvedRows) /\ page' \in Nat \ {0}
  BY <1>1, <1>7, EmptySeq DEF FunnelInv
<1>9. QED BY <1>3, <1>6, <1>7, <1>8 DEF FunnelInv, ResolvedRows

\* A candidate tried: it has its row, has no pool, or has failed.
LEMMA TryKeeps ==
  ASSUME FunnelInv, Resolve \/ SkipToken
  PROVE  FunnelInv'
<1>1. /\ pos \in 1..Len(candidates) /\ pos' = pos + 1 /\ command = "resolve"
      /\ UNCHANGED <<candidates, page, command>>
      /\ Len(candidates) \in Nat
  BY DEF FunnelInv, Resolve, SkipToken, Resolving
<1> DEFINE c == candidates[pos]
<1>2. c \in InFdvBand /\ c \in Coins /\ \A j \in 1..Len(candidates) : j < pos => candidates[j] # c
  BY <1>1, MidcapAssumption DEF FunnelInv
<1>3. c \notin failed /\ \A k \in 1..Len(rows) : rows[k].coin # c
  BY <1>2 DEF FunnelInv
<1>4. \A j \in 1..Len(candidates) : j < pos' <=> j < pos \/ candidates[j] = c
  BY <1>1 DEF FunnelInv
<1>5. Len(rows) \in Nat
  BY DEF FunnelInv
<1>6. CASE SkipToken
  <2>1. failed' = failed \cup {c} /\ c \in Flaky /\ rows' = rows
    BY <1>6 DEF SkipToken, Candidate
  <2> HIDE DEF c
  <2>2. \A k \in 1..Len(rows') : \E j \in 1..Len(candidates') :
          j < pos' /\ rows'[k].coin = candidates'[j] /\ candidates'[j] \notin failed'
    BY <1>1, <1>3, <1>4, <2>1 DEF FunnelInv
  <2>3. \A j \in 1..Len(candidates') :
          j < pos' /\ candidates'[j] \notin failed' /\ Sized(candidates'[j]) # {} =>
            \E k \in 1..Len(rows') : rows'[k].coin = candidates'[j]
    BY <1>1, <1>4, <2>1 DEF FunnelInv
  <2>4. \A d \in failed' : \E j \in 1..Len(candidates') : j < pos' /\ candidates'[j] = d
    BY <1>1, <1>4, <2>1 DEF FunnelInv, c
  <2>5. rows' \in Seq(ResolvedRows)' /\ failed' \subseteq Flaky /\ pos' \in Nat \ {0}
    BY <1>1, <2>1 DEF FunnelInv, ResolvedRows
  <2>6. QED BY <1>1, <2>2, <2>3, <2>4, <2>5 DEF FunnelInv
<1>7. CASE Resolve /\ Sized(c) = {}
  <2>1. rows' = rows /\ failed' = failed
    BY <1>7 DEF Resolve, Candidate
  <2>2. \A j \in 1..Len(candidates') :
          j < pos' /\ candidates'[j] \notin failed' /\ Sized(candidates'[j]) # {} =>
            \E k \in 1..Len(rows') : rows'[k].coin = candidates'[j]
    BY <1>1, <1>4, <1>7, <2>1 DEF FunnelInv
  <2>3. \A k \in 1..Len(rows') : \E j \in 1..Len(candidates') :
          j < pos' /\ rows'[k].coin = candidates'[j] /\ candidates'[j] \notin failed'
    BY <1>1, <1>4, <2>1 DEF FunnelInv
  <2>4. \A d \in failed' : \E j \in 1..Len(candidates') : j < pos' /\ candidates'[j] = d
    BY <1>1, <1>4, <2>1 DEF FunnelInv
  <2>5. rows' \in Seq(ResolvedRows)' /\ failed' \subseteq Flaky /\ pos' \in Nat \ {0}
    BY <1>1, <2>1 DEF FunnelInv, ResolvedRows
  <2> HIDE DEF c
  <2>6. QED BY <1>1, <2>2, <2>3, <2>4, <2>5 DEF FunnelInv
<1>8. CASE Resolve /\ Sized(c) # {}
  <2> DEFINE row == Row(Deepest(c), c \in InFdvBand, c)
  <2>1. rows' = Append(rows, row) /\ failed' = failed
    BY <1>8 DEF Resolve, Candidate
  <2>2. row \in ResolvedRows /\ row.coin = c
    BY <1>2, <1>8 DEF ResolvedRows, Row
  <2> HIDE DEF row
  <2>3. /\ rows' \in Seq(ResolvedRows) /\ Len(rows') = Len(rows) + 1
        /\ \A k \in 1..Len(rows) : rows'[k] = rows[k]
        /\ rows'[Len(rows) + 1] = row
    BY <2>1, <2>2 DEF FunnelInv
  <2> HIDE DEF c
  <2>4. \A k \in 1..Len(rows') : \E j \in 1..Len(candidates') :
          j < pos' /\ rows'[k].coin = candidates'[j] /\ candidates'[j] \notin failed'
    <3>1. ASSUME NEW k \in 1..Len(rows)
          PROVE  \E j \in 1..Len(candidates') :
                   j < pos' /\ rows'[k].coin = candidates'[j] /\ candidates'[j] \notin failed'
      BY <1>1, <1>4, <2>1, <2>3 DEF FunnelInv
    <3>2. pos < pos' /\ rows'[Len(rows) + 1].coin = candidates'[pos] /\ candidates'[pos] \notin failed'
      BY <1>1, <1>3, <2>1, <2>2, <2>3 DEF c
    <3>3. QED BY <1>1, <1>5, <2>3, <3>1, <3>2
  <2>5. \A j \in 1..Len(candidates') :
          j < pos' /\ candidates'[j] \notin failed' /\ Sized(candidates'[j]) # {} =>
            \E k \in 1..Len(rows') : rows'[k].coin = candidates'[j]
    <3>1. SUFFICES ASSUME NEW j \in 1..Len(candidates), j < pos', candidates[j] \notin failed,
                          Sized(candidates[j]) # {}
                   PROVE  \E k \in 1..Len(rows') : rows'[k].coin = candidates[j]
      BY <1>1, <2>1
    <3>2. CASE j < pos
      <4>1. PICK k \in 1..Len(rows) : rows[k].coin = candidates[j]
        BY <3>1, <3>2 DEF FunnelInv
      <4>2. k \in 1..Len(rows') /\ rows'[k] = rows[k]
        BY <1>5, <2>3
      <4>3. QED BY <4>1, <4>2
    <3>3. CASE candidates[j] = c
      <4>1. Len(rows) + 1 \in 1..Len(rows')
        BY <1>5, <2>3
      <4>2. QED BY <2>2, <2>3, <3>3, <4>1
    <3>4. QED BY <1>4, <3>1, <3>2, <3>3
  <2>6. \A d \in failed' : \E j \in 1..Len(candidates') : j < pos' /\ candidates'[j] = d
    BY <1>1, <1>4, <2>1 DEF FunnelInv
  <2>7. rows' \in Seq(ResolvedRows)' /\ failed' \subseteq Flaky /\ pos' \in Nat \ {0}
    BY <1>1, <2>1, <2>3 DEF FunnelInv, ResolvedRows
  <2>8. QED BY <1>1, <2>4, <2>5, <2>6, <2>7 DEF FunnelInv
<1>9. QED BY <1>6, <1>7, <1>8

-----------------------------------------------------------------------------
(* The invariant *)

LEMMA UniverseInit ==
  MidcapInit => FunnelInv /\ SnapshotsInv
<1> SUFFICES ASSUME MidcapInit PROVE FunnelInv /\ SnapshotsInv
  OBVIOUS
<1>1. /\ candidates = <<>> /\ rows = <<>> /\ failed = {} /\ pos = 1 /\ page = 1
      /\ snapshots = <<>>
  BY DEF MidcapInit
<1>2. Len(candidates) = 0 /\ Len(rows) = 0 /\ DOMAIN snapshots = {}
  BY <1>1
<1>3. /\ candidates \in Seq(InFdvBand \cap Mapped) /\ rows \in Seq(ResolvedRows)
      /\ snapshots \in Seq(ToSet(snapshots))
  BY <1>1, EmptySeq
<1>4. QED BY <1>1, <1>2, <1>3 DEF FunnelInv, SnapshotsInv

\* A step that leaves the funnel's variables alone and does not enter or leave
\* the resolution.
LEMMA FunnelUntouched ==
  ASSUME FunnelInv, UNCHANGED funnelVars, command # "resolve", command' # "resolve"
  PROVE  FunnelInv'
BY DEF FunnelInv, ResolvedRows, funnelVars

LEMMA SnapshotsUntouched ==
  ASSUME SnapshotsInv, UNCHANGED snapshots
  PROVE  SnapshotsInv'
BY DEF SnapshotsInv, Kept

LEMMA UniverseNext ==
  ASSUME FunnelInv, SnapshotsInv, [Next]_vars
  PROVE  FunnelInv' /\ SnapshotsInv'
<1>1. CASE NextDay
  BY <1>1, FunnelUntouched, SnapshotsUntouched DEF NextDay
<1>2. ASSUME NEW withControl \in BOOLEAN, StartFunnel(withControl) PROVE FunnelInv' /\ SnapshotsInv'
  <2>1. /\ command = "none" /\ command' = "pages"
        /\ UNCHANGED <<snapshots, page, candidates, rows, failed, pos>>
    BY <1>2 DEF StartFunnel, Begin
  <2>2. QED BY <2>1, SnapshotsUntouched DEF FunnelInv, ResolvedRows
<1>3. ASSUME NEW withControl \in BOOLEAN, TopSnapshot(withControl) PROVE FunnelInv' /\ SnapshotsInv'
  <2>1. /\ command = "none" /\ command' \in {"bars", "none"} /\ UNCHANGED funnelVars
    BY <1>3 DEF TopSnapshot, Begin
  <2>2. snapshots' = Append(snapshots, Snapshot(TopList, TopRows, {}, {}, TRUE))
    BY <1>3 DEF TopSnapshot
  <2>3. Kept(Snapshot(TopList, TopRows, {}, {}, TRUE))
    BY DEF Kept, Snapshot, TopList, Funnel
  <2>4. SnapshotsInv'
    BY <2>2, <2>3, SnapshotAdded
  <2>5. QED BY <2>1, <2>4, FunnelUntouched
<1>4. CASE MarketsPage
  <2>1. UNCHANGED snapshots
    BY <1>4 DEF MarketsPage
  <2>2. QED BY <1>4, <2>1, PageKeeps, SnapshotsUntouched
<1>5. CASE EndPages
  <2>1. UNCHANGED <<snapshots, page, candidates, rows, failed, pos>> /\ command = "pages"
        /\ command' = "resolve"
    BY <1>5 DEF EndPages, funnelVars
  <2>2. QED BY <2>1, SnapshotsUntouched DEF FunnelInv, ResolvedRows
<1>6. CASE Resolve \/ SkipToken
  <2>1. UNCHANGED snapshots
    BY <1>6 DEF Resolve, SkipToken
  <2>2. QED BY <1>6, <2>1, TryKeeps, SnapshotsUntouched
<1>7. CASE WriteSnapshot
  <2>1. FunnelInv'
    BY <1>7, NothingLeft DEF WriteSnapshot
  <2>2. CASE rows = <<>>
    BY <1>7, <2>1, <2>2, SnapshotsUntouched DEF WriteSnapshot
  <2>3. CASE rows # <<>>
    <3>1. Kept(Snapshot(Funnel, rows, ToSet(candidates), failed, TRUE))
      BY <1>7, SnapshotKeeps DEF WriteSnapshot, FunnelInv
    <3>2. SnapshotsInv'
      BY <1>7, <2>3, <3>1, SnapshotAdded DEF WriteSnapshot
    <3>3. QED BY <2>1, <3>2
  <2>4. QED BY <2>2, <2>3
<1>8. ASSUME NEW source \in {Funnel, TopList}, StartControl(source) PROVE FunnelInv' /\ SnapshotsInv'
  BY <1>8, FunnelUntouched, SnapshotsUntouched DEF StartControl, Begin
<1>9. CASE IngestBars \/ EndBars
  BY <1>9, FunnelUntouched, SnapshotsUntouched DEF IngestBars, EndBars
<1>10. CASE Break
  BY <1>10, NothingLeft, SnapshotsUntouched DEF Break
<1>11. ASSUME NEW source, NEW all, RunKillGate(source, all) PROVE FunnelInv' /\ SnapshotsInv'
  BY <1>11, FunnelUntouched, SnapshotsUntouched DEF RunKillGate, Begin
<1>12. CASE UNCHANGED vars
  BY <1>12, SnapshotsUntouched DEF vars, midcapVars, funnelVars, FunnelInv, ResolvedRows
<1>13. CASE WriteSnapshotDies
  <2>1. PICK part \in CutRows(rows) :
          snapshots' = Append(snapshots, Snapshot(Funnel, part, ToSet(candidates), failed, FALSE))
    BY <1>13 DEF WriteSnapshotDies
  <2>2. part \in Seq(ResolvedRows)
        /\ \A k \in 1..Len(part) : \E j \in 1..Len(rows) : part[k] = rows[j]
    <3>1. rows \in Seq(ResolvedRows)
      BY DEF FunnelInv
    <3>2. QED BY <3>1, CutKeeps
  <2>3. Kept(Snapshot(Funnel, part, ToSet(candidates), failed, FALSE))
    BY <1>13, <2>2, SnapshotKeeps DEF WriteSnapshotDies
  <2>4. QED BY <1>13, <2>1, <2>3, NothingLeft, SnapshotAdded DEF WriteSnapshotDies
<1>14. CASE TopSnapshotDies
  <2>1. /\ command = "none" /\ command' = "none" /\ UNCHANGED funnelVars
    BY <1>14 DEF TopSnapshotDies, Begin
  <2>2. PICK part : snapshots' = Append(snapshots, Snapshot(TopList, part, {}, {}, FALSE))
    BY <1>14 DEF TopSnapshotDies
  <2>3. Kept(Snapshot(TopList, part, {}, {}, FALSE))
    BY DEF Kept, Snapshot, TopList, Funnel
  <2>4. QED BY <2>1, <2>2, <2>3, FunnelUntouched, SnapshotAdded
<1>15. CASE IngestBarsDies
  BY <1>15, FunnelUntouched, SnapshotsUntouched DEF IngestBarsDies
<1>16. QED
  BY <1>1, <1>2, <1>3, <1>4, <1>5, <1>6, <1>7, <1>8, <1>9, <1>10, <1>11, <1>12, <1>13, <1>14, <1>15
  DEF Next, Ingestion

-----------------------------------------------------------------------------
(* What is stored, and the panel read from it *)

StoredRow(r) == r.pool \in Pools /\ (r.inBand => r.reserve \in Nat)

BarsInv ==
  \A b \in bars : b[1] \in Pools /\ b[2] \in ToSet(Markets[b[1]]) /\ b[2].day <= today

\* With the funnel's own invariant, the types of the store.
StoreInv ==
  /\ today \in StartDay..MaxDay /\ commands \in 0..MaxCommands
  /\ command \in {"none", "pages", "resolve", "bars"}
  /\ control \in BOOLEAN /\ page \in 1..(Len(Pages) + 1)
  /\ queue \in Seq(Pools)
  /\ BarsInv
  /\ \A n \in DOMAIN snapshots :
       IsFiniteSet(snapshots[n].rows) /\ \A r \in snapshots[n].rows : StoredRow(r)

\* Rows listed by their reserve: the list is one of the set's elements, each once.
LEMMA DeepestFirstFacts ==
  ASSUME NEW S, IsFiniteSet(S), \A r \in S : r.reserve \in Int
  PROVE  DeepestFirst(S) \in [1..Cardinality(S) -> S]
<1> DEFINE n == Cardinality(S)
           sorted(list) == /\ IsInjective(list)
                           /\ \A j, k \in DOMAIN list : j < k => list[j].reserve >= list[k].reserve
<1>1. n \in Nat /\ ExistsBijection(1..n, S)
  BY FS_CardinalityType
<1>2. PICK g \in [1..n -> S] : (\A i, j \in 1..n : g[i] = g[j] => i = j)
                               /\ \A r \in S : \E i \in 1..n : g[i] = r
  BY <1>1 DEF ExistsBijection, Bijection, Injection, Surjection, IsInjective
<1> DEFINE place == [r \in S |-> CHOOSE i \in 1..n : g[i] = r]
           R == {e \in S \X S : \/ e[1].reserve > e[2].reserve
                                \/ e[1].reserve = e[2].reserve /\ place[e[1]] < place[e[2]]}
<1>3. \A r \in S : place[r] \in 1..n /\ g[place[r]] = r
  BY <1>2
<1>4. \A x, y \in S : place[x] = place[y] => x = y
  BY <1>3
<1> HIDE DEF place
<1>5. \A x, y \in S : <<x, y>> \in R <=>
        \/ x.reserve > y.reserve
        \/ x.reserve = y.reserve /\ place[x] < place[y]
  OBVIOUS
<1>6. TotalOrder(S, R)
  <2> HIDE DEF R
  <2>1. \A x \in S : x.reserve \in Int /\ place[x] \in Int
    BY <1>3
  <2>2. \A x \in S : <<x, x>> \notin R
    BY <1>5, <2>1
  <2>3. ASSUME NEW x \in S, NEW y \in S PROVE x = y \/ <<x, y>> \in R \/ <<y, x>> \in R
    <3>1. /\ x.reserve \in Int /\ y.reserve \in Int /\ place[x] \in Int /\ place[y] \in Int
          /\ (place[x] = place[y] => x = y)
      BY <1>4, <2>1
    <3>2. /\ (x.reserve > y.reserve) \/ (x.reserve = y.reserve /\ place[x] < place[y])
               => <<x, y>> \in R
          /\ (y.reserve > x.reserve) \/ (y.reserve = x.reserve /\ place[y] < place[x])
               => <<y, x>> \in R
      BY <1>5
    <3>3. QED BY <3>1, <3>2
  <2>4. \A x, y, z \in S : <<x, y>> \in R /\ <<y, z>> \in R => <<x, z>> \in R
    BY <1>5, <2>1
  <2>5. QED BY <2>2, <2>3, <2>4 DEF TotalOrder
<1> HIDE DEF R
<1> DEFINE rank(x) == Cardinality(Before(S, R, x))
<1>7. /\ \A x \in S : rank(x) \in 0..(n - 1)
      /\ \A x, y \in S : <<x, y>> \in R <=> rank(x) < rank(y)
      /\ \A k \in 0..(n - 1) : \E x \in S : rank(x) = k
  BY <1>6, OrderRank
<1> HIDE DEF rank
<1> DEFINE nth == [k \in 1..n |-> CHOOSE x \in S : rank(x) = k - 1]
<1>8. \A k \in 1..n : nth[k] \in S /\ rank(nth[k]) = k - 1
  <2>1. \A k \in 1..n : k - 1 \in 0..(n - 1)
    BY <1>1
  <2>2. QED BY <1>7, <2>1
<1>9. nth \in [1..n -> S]
  BY <1>8
<1> HIDE DEF nth
<1>10. IsInjective(nth)
  <2>1. \A j, k \in 1..n : nth[j] = nth[k] => j = k
    <3>1. SUFFICES ASSUME NEW j \in 1..n, NEW k \in 1..n, nth[j] = nth[k] PROVE j = k
      OBVIOUS
    <3>2. j - 1 = k - 1
      BY <1>8, <3>1
    <3>3. QED BY <1>1, <3>2
  <2>2. QED BY <1>9, <2>1 DEF IsInjective
<1>11. ASSUME NEW j \in 1..n, NEW k \in 1..n, j < k PROVE nth[j].reserve >= nth[k].reserve
  <2>1. rank(nth[j]) < rank(nth[k])
    BY <1>1, <1>8, <1>11
  <2>2. <<nth[j], nth[k]>> \in R
    BY <1>7, <1>8, <2>1
  <2>3. nth[j].reserve \in Int /\ nth[k].reserve \in Int
    BY <1>8
  <2>4. QED BY <1>5, <1>8, <2>2, <2>3
<1>12. sorted(nth)
  BY <1>9, <1>10, <1>11
<1> HIDE DEF sorted
<1>13. \E list \in [1..n -> S] : sorted(list)
  BY <1>9, <1>12
<1>14. DeepestFirst(S) = CHOOSE list \in [1..n -> S] : sorted(list)
  BY DEF DeepestFirst, sorted
<1> HIDE DEF n
<1>15. DeepestFirst(S) \in [1..n -> S]
  BY <1>13, <1>14
<1>16. QED BY <1>15 DEF n

\* The bars of a pool in the order of their days.
LEMMA SeriesFacts ==
  ASSUME BarsInv, NEW p \in Pools
  PROVE  IsSeries(Series(p))
<1> DEFINE M == Markets[p]
           Raw == [day : Nat, close : Nat, high : Nat, volume : Nat]
           own == {b[2] : b \in {x \in bars : x[1] = p /\ x[2].close > 0}}
           n == Cardinality(own)
           nth(k) == CHOOSE b \in own : Cardinality({o \in own : o.day < b.day}) = k - 1
           mended(k) == [nth(k) EXCEPT !.high = IF @ > 0 THEN @ ELSE nth(k).close]
<1>1. M \in Seq(Raw) /\ \A j, k \in DOMAIN M : j < k => M[j].day < M[k].day
  BY MidcapAssumption
<1>2. /\ DOMAIN M = 1..Len(M) /\ Len(M) \in Nat
      /\ \A k \in DOMAIN M : M[k] \in Raw
  <2> HIDE DEF Raw, M
  <2>1. QED BY <1>1
<1>3. own \subseteq {b \in ToSet(M) : b.close > 0}
  BY DEF BarsInv
<1>4. IsFiniteSet(own)
  <2> DEFINE f == [k \in 1..Len(M) |-> M[k]]
  <2>1. f \in Surjection(1..Len(M), ToSet(M))
    BY <1>2 DEF Surjection, ToSet
  <2>2. IsFiniteSet(1..Len(M))
    BY <1>2, FS_Interval
  <2>3. IsFiniteSet(ToSet(M))
    BY <2>1, <2>2, FS_Surjection
  <2>4. QED BY <1>3, <2>3, FS_Subset
<1>5. \A b \in own : b \in Raw /\ b.close > 0
  <2> HIDE DEF own, Raw, M
  <2>1. QED BY <1>2, <1>3 DEF ToSet
<1>6. \A a, b \in own : a.day = b.day => a = b
  <2>1. \A j, k \in DOMAIN M : M[j].day = M[k].day => j = k
    <3>1. \A k \in DOMAIN M : M[k].day \in Int
      BY <1>2
    <3> HIDE DEF M
    <3>2. SUFFICES ASSUME NEW j \in DOMAIN M, NEW k \in DOMAIN M, M[j].day = M[k].day, j # k
                   PROVE  FALSE
      OBVIOUS
    <3>3. j \in Int /\ k \in Int /\ M[j].day \in Int
      BY <1>2, <3>1
    <3>4. M[j].day < M[k].day \/ M[k].day < M[j].day
      <4>1. \A a, b \in DOMAIN M : a < b => M[a].day < M[b].day
        BY <1>1
      <4>2. j < k \/ k < j
        BY <3>2, <3>3
      <4>3. QED BY <4>1, <4>2
    <3>5. QED BY <3>2, <3>3, <3>4
  <2> HIDE DEF own, M
  <2>2. QED BY <1>3, <2>1 DEF ToSet
<1>7. Series(p) = [k \in 1..n |-> mended(k)]
  BY DEF Series
<1> HIDE DEF own, M
<1> DEFINE R == {e \in own \X own : e[1].day < e[2].day}
<1>8. \A b \in own : b.day \in Int
  BY <1>5
<1>9. \A x, y \in own : <<x, y>> \in R <=> x.day < y.day
  OBVIOUS
<1> HIDE DEF R, Raw
<1>10. TotalOrder(own, R)
  <2>1. \A x \in own : <<x, x>> \notin R
    BY <1>8, <1>9
  <2>2. ASSUME NEW x \in own, NEW y \in own PROVE x = y \/ <<x, y>> \in R \/ <<y, x>> \in R
    <3>1. x.day \in Int /\ y.day \in Int /\ (x.day = y.day => x = y)
      BY <1>6, <1>8
    <3>2. (<<x, y>> \in R <=> x.day < y.day) /\ (<<y, x>> \in R <=> y.day < x.day)
      BY <1>9
    <3>3. QED BY <3>1, <3>2
  <2>3. \A x, y, z \in own : <<x, y>> \in R /\ <<y, z>> \in R => <<x, z>> \in R
    BY <1>8, <1>9
  <2>4. QED BY <2>1, <2>2, <2>3 DEF TotalOrder
<1>11. \A b \in own : Before(own, R, b) = {o \in own : o.day < b.day}
  BY <1>9 DEF Before
<1> DEFINE rank(b) == Cardinality(Before(own, R, b))
<1>12. /\ n \in Nat
       /\ \A x, y \in own : <<x, y>> \in R <=> rank(x) < rank(y)
       /\ \A k \in 0..(n - 1) : \E x \in own : rank(x) = k
  BY <1>4, <1>10, OrderRank
<1>13. ASSUME NEW k \in 1..n PROVE nth(k) \in own /\ rank(nth(k)) = k - 1
  <2>1. k - 1 \in 0..(n - 1)
    BY <1>12
  <2>2. PICK b \in own : rank(b) = k - 1
    BY <1>12, <2>1
  <2>3. Cardinality({o \in own : o.day < b.day}) = k - 1
    BY <1>11, <2>2
  <2>4. nth(k) \in own /\ Cardinality({o \in own : o.day < nth(k).day}) = k - 1
    BY <2>3
  <2>5. QED BY <1>11, <2>4
<1> HIDE DEF nth, rank, n
<1>14. ASSUME NEW k \in 1..n PROVE mended(k) \in BarSet /\ mended(k).day = nth(k).day
  BY <1>5, <1>13 DEF Raw, BarSet
<1>15. ASSUME NEW j \in 1..n, NEW k \in 1..n, j < k PROVE nth(j).day < nth(k).day
  <2>1. rank(nth(j)) < rank(nth(k))
    BY <1>12, <1>13, <1>15
  <2>2. QED BY <1>9, <1>12, <1>13, <2>1
<1> HIDE DEF mended
<1>16. Series(p) \in Seq(BarSet) /\ Len(Series(p)) = n
  <2> HIDE DEF BarSet
  <2>1. Series(p) \in [1..n -> BarSet]
    BY <1>7, <1>14
  <2>2. QED BY <1>12, <2>1
<1>17. \A k \in 1..n : Series(p)[k] = mended(k)
  BY <1>7
<1>18. QED BY <1>14, <1>15, <1>16, <1>17 DEF IsSeries

\* The rows of the latest snapshot that are in the band.
LEMMA InBandFacts ==
  ASSUME StoreInv, SnapshotsInv, NEW source
  PROVE  LoadInBand(source) \in Seq({r : r \in UNION {s.rows : s \in ToSet(snapshots)}})
         /\ \A k \in DOMAIN LoadInBand(source) :
              LoadInBand(source)[k].pool \in Pools /\ LoadInBand(source)[k].reserve \in Nat
<1> DEFINE own == OfSource(source)
           T == UNION {s.rows : s \in ToSet(snapshots)}
           list == LoadInBand(source)
<1>1. DOMAIN snapshots = 1..Len(snapshots) /\ Len(snapshots) \in Nat
  BY DEF SnapshotsInv
<1>2. CASE own = {}
  <2>1. list = <<>> /\ DOMAIN list = {}
    BY <1>2 DEF LoadInBand
  <2>2. QED BY <2>1, EmptySeq
<1>3. CASE own # {}
  <2>1. own \in SUBSET Int /\ IsFiniteSet(own)
    <3>1. IsFiniteSet(1..Len(snapshots)) /\ own \subseteq 1..Len(snapshots)
      BY <1>1, FS_Interval DEF OfSource
    <3> HIDE DEF own
    <3>2. own \in SUBSET Int
      BY <1>1, <3>1
    <3>3. IsFiniteSet(own)
      BY <3>1, FS_Subset
    <3>4. QED BY <3>2, <3>3
  <2>2. PICK m : m = Max(own)
    OBVIOUS
  <2>3. m \in DOMAIN snapshots
    <3>1. own \subseteq DOMAIN snapshots
      BY DEF OfSource
    <3> HIDE DEF own
    <3>2. QED BY <1>3, <2>1, <2>2, <3>1, IntOrder
  <2> DEFINE S == {r \in snapshots[m].rows : r.inBand}
  <2>4. IsFiniteSet(S) /\ \A r \in S : r.pool \in Pools /\ r.reserve \in Nat /\ r \in T
    <3>1. IsFiniteSet(snapshots[m].rows) /\ \A r \in snapshots[m].rows : StoredRow(r)
      BY <2>3 DEF StoreInv
    <3>2. IsFiniteSet(S)
      BY <3>1, FS_Subset
    <3>3. \A r \in S : r \in T
      BY <2>3 DEF ToSet
    <3>4. QED BY <3>1, <3>2, <3>3 DEF StoredRow
  <2>5. list = DeepestFirst(S)
    BY <1>3, <2>2 DEF LoadInBand
  <2> HIDE DEF S, T, list
  <2>6. list \in [1..Cardinality(S) -> S] /\ Cardinality(S) \in Nat
    <3>1. \A r \in S : r.reserve \in Int
      BY <2>4
    <3>2. QED BY <2>4, <2>5, <3>1, DeepestFirstFacts, FS_CardinalityType
  <2>7. list \in Seq(T)
    BY <2>4, <2>6
  <2>8. \A k \in DOMAIN list : list[k].pool \in Pools /\ list[k].reserve \in Nat
    BY <2>4, <2>6
  <2>9. QED BY <2>7, <2>8 DEF T, list
<1>4. QED BY <1>2, <1>3

LEMMA PanelFacts ==
  ASSUME StoreInv, SnapshotsInv, NEW source, NEW speculativeOnly
  PROVE  /\ IsPanel(LoadPoolBars(source, speculativeOnly))
         /\ speculativeOnly => \A k \in DOMAIN LoadPoolBars(source, speculativeOnly) :
              LoadPoolBars(source, speculativeOnly)[k].pool \notin Pegged
<1> DEFINE T == UNION {s.rows : s \in ToSet(snapshots)}
           all == LoadInBand(source)
           places == {k \in DOMAIN all : /\ speculativeOnly => all[k].pool \notin Pegged
                                         /\ Len(Series(all[k].pool)) >= Warmup + Horizon + 1}
           kept == At(all, places)
<1>1. all \in Seq(T) /\ \A k \in DOMAIN all : all[k].pool \in Pools /\ all[k].reserve \in Nat
  BY InBandFacts
<1>2. \A k \in places : /\ all[k].pool \in Pools /\ all[k].reserve \in Nat
                        /\ speculativeOnly => all[k].pool \notin Pegged
                        /\ IsSeries(Series(all[k].pool))
  BY <1>1, SeriesFacts DEF StoreInv
<1>3. places \in SUBSET DOMAIN all
  OBVIOUS
<1>4. LoadPoolBars(source, speculativeOnly) =
        [k \in DOMAIN kept |-> [pool |-> kept[k].pool, reserve |-> kept[k].reserve,
                                bars |-> Series(kept[k].pool)]]
  BY DEF LoadPoolBars
<1> HIDE DEF places, T, all
<1>5. /\ kept \in Seq(T) /\ Len(kept) = Cardinality(places) /\ Cardinality(places) \in Nat
      /\ \A k \in 1..Cardinality(places) : \E i \in places : kept[k] = all[i]
  BY <1>1, <1>3, AtFacts
<1>6. DOMAIN kept = 1..Cardinality(places) /\ IsFiniteSet(DOMAIN kept)
  BY <1>5, FS_Interval
<1> HIDE DEF kept
<1>7. \A k \in DOMAIN kept : /\ kept[k].pool \in Pools /\ kept[k].reserve \in Nat
                             /\ speculativeOnly => kept[k].pool \notin Pegged
                             /\ IsSeries(Series(kept[k].pool))
  BY <1>2, <1>5, <1>6
<1> DEFINE panel == LoadPoolBars(source, speculativeOnly)
<1>8. DOMAIN panel = DOMAIN kept
  BY <1>4
<1>9. ASSUME NEW k \in DOMAIN panel
      PROVE  /\ panel[k] \in [pool : Pools, reserve : Nat, bars : Seq(BarSet)]
             /\ IsSeries(panel[k].bars)
             /\ speculativeOnly => panel[k].pool \notin Pegged
  <2>1. panel[k] = [pool |-> kept[k].pool, reserve |-> kept[k].reserve,
                    bars |-> Series(kept[k].pool)]
    BY <1>4, <1>8
  <2>2. Series(kept[k].pool) \in Seq(BarSet)
    BY <1>7, <1>8 DEF IsSeries
  <2> HIDE DEF panel, BarSet
  <2>3. QED BY <1>7, <1>8, <2>1, <2>2
<1> HIDE DEF panel
<1>10. IsPanel(panel)
  BY <1>6, <1>8, <1>9 DEF IsPanel
<1>11. QED BY <1>9, <1>10 DEF panel

\* The pools of a list of rows, in the order of the list.
LEMMA QueueOf ==
  ASSUME NEW X, NEW list \in Seq(X), \A r \in X : r.pool \in Pools
  PROVE  [k \in DOMAIN InBandOf(list) |-> InBandOf(list)[k].pool] \in Seq(Pools)
<1> DEFINE places == {k \in DOMAIN list : list[k].inBand}
           kept == At(list, places)
           n == Cardinality(places)
<1>1. places \in SUBSET DOMAIN list /\ InBandOf(list) = kept
  BY DEF InBandOf
<1> HIDE DEF places
<1>2. kept \in Seq(X) /\ Len(kept) = n /\ n \in Nat
  BY <1>1, AtFacts
<1> HIDE DEF kept, n
<1>3. DOMAIN kept = 1..n /\ \A k \in 1..n : kept[k].pool \in Pools
  BY <1>2
<1>4. [k \in DOMAIN kept |-> kept[k].pool] \in [1..n -> Pools]
  BY <1>3
<1>5. [k \in DOMAIN kept |-> kept[k].pool] \in Seq(Pools)
  BY <1>2, <1>4
<1>6. QED BY <1>1, <1>5

\* The rows a snapshot keeps of a list.
LEMMA KeptRows ==
  ASSUME NEW X, NEW list \in Seq(X), \A r \in X : StoredRow(r)
  PROVE  IsFiniteSet(LastPerPool(list)) /\ \A r \in LastPerPool(list) : StoredRow(r)
<1>1. Len(list) \in Nat /\ DOMAIN list = 1..Len(list) /\ \A k \in DOMAIN list : list[k] \in X
  BY LenProperties
<1> DEFINE D == {j \in DOMAIN list : \A l \in (j + 1)..Len(list) : list[l].pool # list[j].pool}
           f == [j \in D |-> list[j]]
<1>2. IsFiniteSet(D)
  <2>1. IsFiniteSet(1..Len(list)) /\ D \subseteq 1..Len(list)
    BY <1>1, FS_Interval
  <2> HIDE DEF D
  <2>2. QED BY <2>1, FS_Subset
<1>3. f \in Surjection(D, LastPerPool(list))
  BY DEF Surjection, LastPerPool
<1>4. IsFiniteSet(LastPerPool(list))
  <2> HIDE DEF D, f
  <2>1. QED BY <1>2, <1>3, FS_Surjection
<1>5. QED BY <1>1, <1>4 DEF LastPerPool

LEMMA ResolvedRowsAreStored ==
  \A r \in ResolvedRows : StoredRow(r)
<1> SUFFICES ASSUME NEW r \in ResolvedRows PROVE StoredRow(r)
  OBVIOUS
<1>1. PICK c \in Coins : Sized(c) # {} /\ r = Row(Deepest(c), c \in InFdvBand, c)
  BY DEF ResolvedRows
<1>2. Deepest(c).pool \in Pools /\ Deepest(c).reserve \in Nat
  BY <1>1, DeepestIsSized, SizedPools
<1>3. QED BY <1>1, <1>2 DEF Row, StoredRow

\* The rows of the top pools.
LEMMA TopRowsAreStored ==
  \E Y : TopRows \in Seq(Y) /\ \A r \in Y : StoredRow(r) /\ r.pool \in Pools
<1> DEFINE X == [pool : Pools, reserve : Nat \cup {NoReserve}, fdvOk : BOOLEAN]
           list == [k \in DOMAIN TopPools |-> Row(TopPools[k], TopPools[k].fdvOk, "none")]
           Y == {list[k] : k \in DOMAIN TopPools}
           places == {k \in DOMAIN list : \A j \in 1..(k - 1) : list[j].pool # list[k].pool}
<1>1. TopPools \in Seq(X)
  BY MidcapAssumption
<1>2. \A r \in X : r.pool \in Pools /\ r.reserve \in Nat \cup {NoReserve}
  OBVIOUS
<1> HIDE DEF X
<1>3. Len(TopPools) \in Nat /\ DOMAIN TopPools = 1..Len(TopPools)
      /\ \A k \in DOMAIN TopPools : TopPools[k] \in X
  BY <1>1
<1>4. ASSUME NEW k \in DOMAIN TopPools PROVE StoredRow(list[k])
  <2>1. list[k] = Row(TopPools[k], TopPools[k].fdvOk, "none")
    OBVIOUS
  <2>2. TopPools[k].pool \in Pools /\ TopPools[k].reserve \in Nat \cup {NoReserve}
    BY <1>2, <1>3
  <2> HIDE DEF list
  <2>3. list[k].pool \in Pools /\ list[k].reserve = TopPools[k].reserve
    BY <2>1, <2>2 DEF Row
  <2>4. list[k].inBand = InBand(TopPools[k].reserve, TopPools[k].fdvOk)
    BY <2>1 DEF Row
  <2>5. list[k].inBand => TopPools[k].reserve # NoReserve
    BY <2>4, Zenon DEF InBand
  <2>6. QED BY <2>2, <2>3, <2>5 DEF StoredRow
<1>5. DOMAIN list = 1..Len(TopPools) /\ TopRows = At(list, places)
  BY <1>3 DEF TopRows, FirstPerPool
<1>6. \A k \in 1..Len(TopPools) : list[k] \in Y
  BY <1>3
<1>7. list \in [1..Len(TopPools) -> Y]
  <2>1. list = [k \in 1..Len(TopPools) |-> list[k]]
    BY <1>3
  <2> HIDE DEF list, Y
  <2>2. QED BY <1>6, <2>1
<1>8. \A r \in Y : StoredRow(r) /\ r.pool \in Pools
  BY <1>4 DEF StoredRow
<1>9. places \in SUBSET DOMAIN list
  OBVIOUS
<1> HIDE DEF list, places, Y
<1>10. list \in Seq(Y)
  BY <1>3, <1>7
<1>11. TopRows \in Seq(Y)
  BY <1>5, <1>9, <1>10, AtFacts
<1>12. QED BY <1>8, <1>11

\* A snapshot of stored rows is added, or none is.
LEMMA RowsAdded ==
  ASSUME StoreInv, SnapshotsInv, NEW s, IsFiniteSet(s.rows), \A r \in s.rows : StoredRow(r),
         snapshots' = Append(snapshots, s)
  PROVE  \A n \in DOMAIN snapshots' :
           IsFiniteSet(snapshots'[n].rows) /\ \A r \in snapshots'[n].rows : StoredRow(r)
<1> DEFINE T == ToSet(snapshots) \cup {s}
<1>1. PICK old : old = snapshots
  OBVIOUS
<1>2. PICK U : U = T
  OBVIOUS
<1>3. old \in Seq(U) /\ s \in U
  <2>1. snapshots \in Seq(ToSet(snapshots))
    BY DEF SnapshotsInv
  <2>2. QED BY <1>1, <1>2, <2>1 DEF SnapshotsInv, ToSet
<1>4. /\ Len(old) \in Nat /\ DOMAIN old = 1..Len(old)
      /\ DOMAIN Append(old, s) = 1..(Len(old) + 1)
      /\ \A k \in 1..Len(old) : Append(old, s)[k] = old[k]
      /\ Append(old, s)[Len(old) + 1] = s
  BY <1>3
<1>5. snapshots' = Append(old, s)
  BY <1>1
<1>6. \A n \in DOMAIN old : IsFiniteSet(old[n].rows) /\ \A r \in old[n].rows : StoredRow(r)
  BY <1>1 DEF StoreInv
<1>7. QED BY <1>4, <1>5, <1>6

\* The same of the rows a death lets through.
LEMMA PartAdded ==
  ASSUME StoreInv, SnapshotsInv, NEW Y, NEW part \in Seq(Y), \A r \in Y : StoredRow(r),
         NEW source, NEW asked, NEW lost, NEW whole,
         snapshots' = Append(snapshots, Snapshot(source, part, asked, lost, whole))
  PROVE  \A n \in DOMAIN snapshots' :
           IsFiniteSet(snapshots'[n].rows) /\ \A r \in snapshots'[n].rows : StoredRow(r)
<1> DEFINE s == Snapshot(source, part, asked, lost, whole)
<1>1. IsFiniteSet(s.rows) /\ (\A r \in s.rows : StoredRow(r)) /\ snapshots' = Append(snapshots, s)
  BY KeptRows DEF Snapshot
<1> HIDE DEF s
<1>2. QED BY <1>1, RowsAdded

LEMMA StoreInit ==
  ASSUME MidcapInit
  PROVE  StoreInv
<1>1. /\ today = StartDay /\ snapshots = <<>> /\ bars = {} /\ command = "none" /\ queue = <<>>
      /\ commands = 0 /\ control = FALSE /\ page = 1
  BY DEF MidcapInit
<1>2. StartDay \in StartDay..MaxDay /\ 0 \in 0..MaxCommands /\ Len(Pages) \in Nat
  BY MidcapAssumption
<1>3. queue \in Seq(Pools) /\ DOMAIN snapshots = {}
  BY <1>1, EmptySeq
<1>4. 1 \in 1..(Len(Pages) + 1)
  BY <1>2
<1>5. QED BY <1>1, <1>2, <1>3, <1>4 DEF StoreInv, BarsInv

\* What a command changes when it begins and when it ends.
LEMMA StoreBegin ==
  ASSUME StoreInv, NEW step \in {"none", "pages", "resolve", "bars"}, Begin(step)
  PROVE  command' \in {"none", "pages", "resolve", "bars"} /\ commands' \in 0..MaxCommands
<1>1. commands \in 0..MaxCommands /\ commands < MaxCommands /\ MaxCommands \in Nat
  BY MidcapAssumption DEF StoreInv, Begin
<1>2. QED BY <1>1 DEF Begin

LEMMA StoreNext ==
  ASSUME StoreInv, FunnelInv, SnapshotsInv, [Next]_vars
  PROVE  StoreInv'
<1> USE DEF StoreInv
<1> DEFINE Steps == {"none", "pages", "resolve", "bars"}
           SameRows == \A n \in DOMAIN snapshots' : IsFiniteSet(snapshots'[n].rows)
                                                  /\ \A r \in snapshots'[n].rows : StoredRow(r)
<1>1. CASE NextDay
  <2>1. today' = today + 1 /\ today < MaxDay
        /\ UNCHANGED <<snapshots, bars, command, control, page, queue, commands>>
    BY <1>1 DEF NextDay, funnelVars
  <2>2. today' \in StartDay..MaxDay /\ today <= today'
    BY <2>1, MidcapAssumption
  <2>3. BarsInv'
    <3>1. ASSUME NEW b \in bars PROVE b[2].day <= today'
      <4>1. b[1] \in Pools /\ b[2] \in ToSet(Markets[b[1]]) /\ b[2].day <= today
        BY DEF BarsInv
      <4>2. b[2].day \in Int
        <5> DEFINE Raw == [day : Nat, close : Nat, high : Nat, volume : Nat]
        <5>1. Markets[b[1]] \in Seq(Raw) /\ \A x \in Raw : x.day \in Int
          BY <4>1, MidcapAssumption
        <5> HIDE DEF Raw
        <5>2. b[2] \in Raw
          BY <4>1, <5>1 DEF ToSet
        <5>3. QED BY <5>1, <5>2
      <4>3. today \in Int
        BY MidcapAssumption
      <4>4. QED BY <2>2, <4>1, <4>2, <4>3, MidcapAssumption
    <3>2. QED BY <2>1, <3>1 DEF BarsInv
  <2>4. QED BY <2>1, <2>2, <2>3
<1>2. ASSUME NEW withControl \in BOOLEAN, StartFunnel(withControl) PROVE StoreInv'
  <2>1. Begin("pages") /\ control' = withControl
        /\ UNCHANGED <<today, snapshots, bars, page, queue>>
    BY <1>2 DEF StartFunnel
  <2>2. QED BY <2>1, StoreBegin DEF BarsInv
<1>3. ASSUME NEW withControl \in BOOLEAN, TopSnapshot(withControl) PROVE StoreInv'
  <2>1. /\ Begin("bars") \/ Begin("none")
        /\ snapshots' = Append(snapshots, Snapshot(TopList, TopRows, {}, {}, TRUE))
        /\ queue' = IF withControl THEN [k \in DOMAIN InBandOf(TopRows) |-> InBandOf(TopRows)[k].pool]
                    ELSE <<>>
        /\ UNCHANGED <<today, bars, control, page>>
    BY <1>3 DEF TopSnapshot, funnelVars
  <2>2. PICK Y : TopRows \in Seq(Y) /\ \A r \in Y : StoredRow(r) /\ r.pool \in Pools
    BY TopRowsAreStored
  <2>3. queue' \in Seq(Pools)
    <3>1. [k \in DOMAIN InBandOf(TopRows) |-> InBandOf(TopRows)[k].pool] \in Seq(Pools)
      BY <2>2, QueueOf
    <3>2. <<>> \in Seq(Pools)
      BY EmptySeq
    <3>3. QED BY <2>1, <3>1, <3>2
  <2>4. SameRows
    <3>1. IsFiniteSet(LastPerPool(TopRows)) /\ \A r \in LastPerPool(TopRows) : StoredRow(r)
      BY <2>2, KeptRows
    <3> DEFINE s == Snapshot(TopList, TopRows, {}, {}, TRUE)
    <3>2. IsFiniteSet(s.rows) /\ (\A r \in s.rows : StoredRow(r)) /\ snapshots' = Append(snapshots, s)
      BY <2>1, <3>1 DEF Snapshot
    <3> HIDE DEF s
    <3>3. QED BY <3>2, RowsAdded
  <2>5. QED BY <2>1, <2>3, <2>4, StoreBegin DEF BarsInv
<1>4. CASE MarketsPage
  <2>1. /\ page <= Len(Pages) /\ page' = page + 1
        /\ UNCHANGED <<today, snapshots, bars, command, control, queue, commands>>
    BY <1>4 DEF MarketsPage
  <2>2. Len(Pages) \in Nat
    BY MidcapAssumption
  <2>3. page' \in 1..(Len(Pages) + 1)
    BY <2>1, <2>2
  <2>4. QED BY <2>1, <2>3 DEF BarsInv
<1>5. CASE EndPages
  BY <1>5 DEF EndPages, funnelVars, BarsInv
<1>6. CASE Resolve \/ SkipToken
  BY <1>6 DEF Resolve, SkipToken, BarsInv
<1>7. CASE WriteSnapshot
  <2> DEFINE s == Snapshot(Funnel, rows, ToSet(candidates), failed, TRUE)
             line == [k \in DOMAIN InBandOf(rows) |-> InBandOf(rows)[k].pool]
  <2>1. /\ snapshots' = snapshots \/ snapshots' = Append(snapshots, s)
        /\ \/ command' = "bars" /\ queue' = line
           \/ command' = "none" /\ queue' = <<>>
        /\ control' = FALSE /\ page' = 1 /\ UNCHANGED <<today, bars, commands>>
    BY <1>7 DEF WriteSnapshot, Forget
  <2>2. PICK list : list = rows
    OBVIOUS
  <2>3. list \in Seq(ResolvedRows) /\ \A r \in ResolvedRows : StoredRow(r) /\ r.pool \in Pools
    BY <2>2, ResolvedRowsAreStored DEF FunnelInv, StoredRow
  <2>4. queue' \in Seq(Pools)
    <3>1. line \in Seq(Pools)
      BY <2>2, <2>3, QueueOf
    <3>2. <<>> \in Seq(Pools)
      BY EmptySeq
    <3>3. QED BY <2>1, <3>1, <3>2
  <2>5. SameRows
    <3>1. IsFiniteSet(LastPerPool(list)) /\ \A r \in LastPerPool(list) : StoredRow(r)
      BY <2>3, KeptRows
    <3>2. IsFiniteSet(s.rows) /\ \A r \in s.rows : StoredRow(r)
      BY <2>2, <3>1 DEF Snapshot
    <3> HIDE DEF s
    <3>3. CASE snapshots' = Append(snapshots, s)
      <4>1. PICK t : t = s
        OBVIOUS
      <4>2. QED BY <3>2, <3>3, <4>1, RowsAdded
    <3>4. CASE snapshots' = snapshots
      BY <3>4
    <3>5. QED BY <2>1, <3>3, <3>4
  <2>6. 1 \in 1..(Len(Pages) + 1)
    <3>1. Len(Pages) \in Nat
      BY MidcapAssumption
    <3>2. QED BY <3>1
  <2> HIDE DEF s, line
  <2>7. QED BY <2>1, <2>4, <2>5, <2>6 DEF BarsInv
<1>8. ASSUME NEW source \in {Funnel, TopList}, StartControl(source) PROVE StoreInv'
  <2>1. Begin("bars") /\ UNCHANGED <<today, snapshots, bars, control, page>>
        /\ queue' = [k \in DOMAIN LoadInBand(source) |-> LoadInBand(source)[k].pool]
    BY <1>8 DEF StartControl, funnelVars
  <2>2. PICK list : list = LoadInBand(source)
    OBVIOUS
  <2>3. PICK T : T = {r : r \in UNION {s.rows : s \in ToSet(snapshots)}}
    OBVIOUS
  <2>4. list \in Seq(T) /\ \A k \in DOMAIN list : list[k].pool \in Pools
    BY <2>2, <2>3, InBandFacts
  <2>5. DOMAIN list = 1..Len(list) /\ Len(list) \in Nat
    BY <2>4
  <2>6. [k \in DOMAIN list |-> list[k].pool] \in [1..Len(list) -> Pools]
    BY <2>4, <2>5
  <2>7. queue' \in Seq(Pools)
    BY <2>1, <2>2, <2>5, <2>6
  <2>8. QED BY <2>1, <2>7, StoreBegin DEF BarsInv
<1>9. CASE IngestBars
  <2> DEFINE p == Head(queue)
  <2>1. /\ queue # <<>> /\ bars' = bars \cup ({p} \X Closed(p)) /\ queue' = Tail(queue)
        /\ UNCHANGED <<today, snapshots, command, control, page, commands>>
    BY <1>9 DEF IngestBars, funnelVars
  <2>2. p \in Pools /\ queue' \in Seq(Pools)
    BY <2>1
  <2>3. \A b \in Closed(p) : b \in ToSet(Markets[p]) /\ b.day <= today
    BY DEF Closed, Listed, ToSet
  <2> HIDE DEF p
  <2>4. BarsInv'
    BY <2>1, <2>2, <2>3 DEF BarsInv
  <2>5. QED BY <2>1, <2>2, <2>4
<1>10. CASE EndBars
  BY <1>10 DEF EndBars, funnelVars, BarsInv
<1>11. CASE Break
  <2>1. /\ command' = "none" /\ queue' = <<>> /\ control' = FALSE /\ page' = 1
        /\ UNCHANGED <<today, snapshots, bars, commands>>
    BY <1>11 DEF Break, Forget
  <2>2. queue' \in Seq(Pools) /\ Len(Pages) \in Nat
    BY <2>1, EmptySeq, MidcapAssumption
  <2>3. 1 \in 1..(Len(Pages) + 1)
    BY <2>2
  <2>4. QED BY <2>1, <2>2, <2>3 DEF BarsInv
<1>12. ASSUME NEW source, NEW all, RunKillGate(source, all) PROVE StoreInv'
  <2>1. Begin("none") /\ UNCHANGED <<today, snapshots, bars, control, page, queue>>
    BY <1>12 DEF RunKillGate, funnelVars
  <2>2. QED BY <2>1, StoreBegin DEF BarsInv
<1>13. CASE UNCHANGED vars
  BY <1>13 DEF vars, midcapVars, funnelVars, BarsInv
<1>14. CASE WriteSnapshotDies
  <2>1. /\ command' = "none" /\ control' = FALSE /\ page' = 1
        /\ UNCHANGED <<today, bars, queue, commands>>
    BY <1>14 DEF WriteSnapshotDies, Forget
  <2>2. PICK part \in CutRows(rows) :
          snapshots' = Append(snapshots, Snapshot(Funnel, part, ToSet(candidates), failed, FALSE))
    BY <1>14 DEF WriteSnapshotDies
  <2>3. part \in Seq(ResolvedRows)
    BY CutKeeps DEF FunnelInv
  <2>4. SameRows
    BY <2>2, <2>3, ResolvedRowsAreStored, PartAdded
  <2>5. 1 \in 1..(Len(Pages) + 1)
    <3>1. Len(Pages) \in Nat
      BY MidcapAssumption
    <3>2. QED BY <3>1
  <2>6. QED BY <2>1, <2>4, <2>5 DEF BarsInv
<1>15. CASE TopSnapshotDies
  <2>1. Begin("none") /\ UNCHANGED <<today, bars, control, page, queue>>
    BY <1>15 DEF TopSnapshotDies, funnelVars
  <2>2. PICK part \in CutRows(TopRows) :
          snapshots' = Append(snapshots, Snapshot(TopList, part, {}, {}, FALSE))
    BY <1>15 DEF TopSnapshotDies
  <2>3. PICK Y : TopRows \in Seq(Y) /\ \A r \in Y : StoredRow(r) /\ r.pool \in Pools
    BY TopRowsAreStored
  <2>4. part \in Seq(Y)
    BY <2>3, CutKeeps
  <2>5. SameRows
    BY <2>2, <2>3, <2>4, PartAdded
  <2>6. QED BY <2>1, <2>5, StoreBegin DEF BarsInv
<1>16. CASE IngestBarsDies
  <2> DEFINE p == Head(queue)
  <2>1. PICK n \in CutAt :
          bars' = bars \cup ({p} \X {b \in Closed(p) :
                    Cardinality({l \in Closed(p) : l.day > b.day}) < n})
    BY <1>16 DEF IngestBarsDies
  <2>2. /\ queue # <<>> /\ command' = "none" /\ queue' = <<>>
        /\ UNCHANGED <<today, snapshots, control, page, commands>>
    BY <1>16 DEF IngestBarsDies, funnelVars
  <2>3. p \in Pools /\ queue' \in Seq(Pools)
    BY <2>2, EmptySeq
  <2>4. \A b \in Closed(p) : b \in ToSet(Markets[p]) /\ b.day <= today
    BY DEF Closed, Listed, ToSet
  <2> HIDE DEF p
  <2>5. BarsInv'
    BY <2>1, <2>2, <2>3, <2>4 DEF BarsInv
  <2>6. QED BY <2>2, <2>3, <2>5
<1>17. QED
  BY <1>1, <1>2, <1>3, <1>4, <1>5, <1>6, <1>7, <1>8, <1>9, <1>10, <1>11, <1>12, <1>13, <1>14,
     <1>15, <1>16
  DEF Next, Ingestion

-----------------------------------------------------------------------------
(* The report *)

\* A report is of a panel, and of what the gate makes of it.
ReportInv ==
  report # NoReport =>
    /\ IsPanel(report.panel)
    /\ report.speculativeOnly =>
         \A k \in DOMAIN report.panel : report.panel[k].pool \notin Pegged
    /\ report.of = [s \in Signals |-> ProfileSignal(report.panel, s)]

GateInv == FunnelInv /\ SnapshotsInv /\ StoreInv /\ ReportInv

LEMMA GateInit ==
  Init => GateInv
BY UniverseInit, StoreInit DEF Init, GateInv, ReportInv

LEMMA GateNext ==
  ASSUME GateInv, [Next]_vars
  PROVE  GateInv'
<1>1. FunnelInv /\ SnapshotsInv /\ StoreInv
  BY DEF GateInv
<1>2. FunnelInv' /\ SnapshotsInv' /\ StoreInv'
  BY <1>1, UniverseNext, StoreNext
<1>3. ReportInv'
  <2>1. ASSUME NEW source, NEW only \in BOOLEAN, RunKillGate(source, only) PROVE ReportInv'
    <3>1. PICK panel : panel = LoadPoolBars(source, only)
      OBVIOUS
    <3>2. IsPanel(panel) /\ (only => \A k \in DOMAIN panel : panel[k].pool \notin Pegged)
      BY <1>1, <3>1, PanelFacts
    <3>3. report' = [speculativeOnly |-> only, panel |-> panel,
                     of |-> [s \in Signals |-> ProfileSignal(panel, s)]]
      BY <2>1, <3>1 DEF RunKillGate
    <3>4. /\ report'.panel = panel /\ report'.speculativeOnly = only
          /\ report'.of = [s \in Signals |-> ProfileSignal(panel, s)]
      BY <3>3
    <3>5. QED BY <3>2, <3>4 DEF ReportInv
  <2>2. ASSUME UNCHANGED report PROVE ReportInv'
    BY <2>2 DEF GateInv, ReportInv
  <2>3. QED BY <2>1, <2>2 DEF Next, vars
<1>4. QED BY <1>2, <1>3 DEF GateInv

\* The inductive invariant of the universe and the gate: the funnel at work, the
\* snapshots taken, the bars stored and the last report (mcap_rank.py
\* build_midcap_universe, universe.py, killgate.py run_killgate).
THEOREM GateInvariant == Spec => []GateInv
<1>1. GateInv /\ [Next]_vars => GateInv'
  BY GateNext
<1>2. QED BY <1>1, GateInit, PTL DEF Spec

LEMMA BaseIsSetup ==
  ASSUME NEW s \in Signals
  PROVE  IsSetup(Base(s))
BY KillGateAssumption DEF IsSetup, Base

\* What a report says of a signal.
LEMMA ReportFacts ==
  ASSUME GateInv, report # NoReport, NEW s \in Signals
  PROVE  /\ IsPanel(report.panel) /\ IsSetup(Base(s))
         /\ report.of[s].trades = Run(report.panel, Base(s))
         /\ report.of[s].verdict =
              VerdictOf(report.panel, Base(s), Run(report.panel, Base(s)))
<1>1. IsPanel(report.panel) /\ report.of[s] = ProfileSignal(report.panel, s)
  BY DEF GateInv, ReportInv
<1>2. QED BY <1>1, BaseIsSetup DEF ProfileSignal

-----------------------------------------------------------------------------
(* The theorems *)

\* Every decision of a report uses what was closed on its day: given the bars closed
\* by an earlier day only, the gate makes the trades it had closed by then, with the
\* same returns (killgate.py signal_values and _run).
THEOREM GateReplaysHistory == Spec => []GatePointInTime
<1>1. ASSUME GateInv PROVE GatePointInTime
  <2>1. SUFFICES ASSUME report # NoReport, NEW s \in Signals
                 PROVE  /\ \A t \in report.of[s].trades : DecidedThen(report.panel, t, Base(s))
                        /\ \A day \in 1..MaxDay :
                             Run(Cut(report.panel, day), Base(s))
                               = {t \in report.of[s].trades : t.exit <= day}
    BY DEF GatePointInTime
  <2>2. /\ IsPanel(report.panel) /\ IsSetup(Base(s))
        /\ report.of[s].trades = Run(report.panel, Base(s))
    BY <1>1, <2>1, ReportFacts
  <2>3. PICK panel : panel = report.panel
    OBVIOUS
  <2>4. \A t \in Run(panel, Base(s)) : DecidedThen(panel, t, Base(s))
    BY <2>2, <2>3, TradeDecidedThen
  <2>5. \A day \in 1..MaxDay :
          Run(Cut(panel, day), Base(s)) = {t \in Run(panel, Base(s)) : t.exit <= day}
    BY <2>2, <2>3, RunOfThePast
  <2>6. QED BY <2>2, <2>3, <2>4, <2>5
<1>2. QED BY <1>1, GateInvariant, PTL

\* An UNPROVEN signal has picked some of the blind trades, which did better than the
\* rest, and buying blind made money at the depth assumed and at half of it
\* (killgate.py profile_signal and _verdict).
THEOREM UnprovenIsEarned == Spec => []UnprovenEarned
<1>1. ASSUME GateInv PROVE UnprovenEarned
  <2> DEFINE Earned(s) ==
        LET trades == report.of[s].trades
            best == Stat(Passed(trades, BestThreshold(trades)))
            half == Stat(Run(report.panel, [Base(s) EXCEPT !.quarters = 1]))
            rest == [fires |-> Stat(trades).fires - best.fires,
                     total |-> Stat(trades).total - best.total]
        IN /\ best.fires >= MinFires /\ rest.fires > 0 /\ Better(best, rest)
           /\ Stat(trades).total > 0
           /\ half.fires = Stat(trades).fires /\ half.total > 0
  <2>1. ASSUME report # NoReport, NEW s \in Signals, report.of[s].verdict = "unproven"
        PROVE  Earned(s)
    <3>1. PICK panel : panel = report.panel
      OBVIOUS
    <3>2. PICK T : T = Run(panel, Base(s))
      OBVIOUS
    <3>3. IsPanel(panel) /\ IsSetup(Base(s)) /\ report.of[s].trades = T
          /\ VerdictOf(panel, Base(s), T) = "unproven"
      BY <1>1, <2>1, <3>1, <3>2, ReportFacts
    <3> DEFINE h == [Base(s) EXCEPT !.quarters = 1]
               H == Run(panel, h)
               P == Passed(T, BestThreshold(T))
    <3>4. IsSetup(h) /\ [Base(s) EXCEPT !.quarters = 2] = Base(s)
      BY <3>3 DEF IsSetup, Base
    <3>5. IsSample(T) /\ IsSample(H) /\ IsSample(P)
      <4>1. IsSample(T)
        BY <3>2, <3>3, SampleOfRun
      <4>2. IsSample(H)
        BY <3>3, <3>4, SampleOfRun
      <4>3. QED BY <4>1, <4>2, PassedFacts
    <3>6. /\ Stat(T).fires \in Nat /\ Stat(T).total \in Int /\ Stat(T).fires = Cardinality(T)
          /\ Stat(P).fires \in Nat /\ Stat(P).total \in Int /\ Stat(P).fires = Cardinality(P)
          /\ Stat(H).fires = Cardinality(H)
      BY <3>5, StatFacts
    <3>7. /\ Eligibles(T) # {} /\ Better(Stat(P), Stat(T))
          /\ ~Fragile(Sweeps(panel, Base(s), T))
      BY <3>3, UnprovenVerdict
    <3>8. Stat(P).fires >= MinFires
      <4>1. BestThreshold(T) \in Eligibles(T)
        BY <3>5, <3>7, BestIsEligible
      <4>2. QED BY <3>6, <4>1 DEF Eligibles
    <3>9. Stat(P).fires < Stat(T).fires
      <4>1. Cardinality(P) <= Cardinality(T) /\ (Cardinality(P) = Cardinality(T) => P = T)
        BY <3>5, PassedFacts
      <4>2. P # T
        <5>1. Stat(T).total * Stat(T).fires \in Int
          BY <3>6
        <5>2. ~Better(Stat(T), Stat(T))
          BY <5>1 DEF Better
        <5>3. QED BY <3>7, <5>2
      <4> HIDE DEF P
      <4>3. QED BY <3>6, <4>1, <4>2
    <3>10. MinFires \in Nat
      BY KillGateAssumption
    <3> HIDE DEF P, H
    <3>11. Stat(T).total > 0
      <4>1. Stat(Run(panel, [Base(s) EXCEPT !.quarters = 2])) = Stat(T)
        BY <3>2, <3>4
      <4>2. Stat(T).fires >= MinFires
        BY <3>6, <3>8, <3>9, <3>10
      <4>3. QED BY <3>3, <3>4, <3>7, <4>1, <4>2, DepthSwept
    <3>12. Stat(H).fires = Stat(T).fires
      <4>1. Cardinality(H) = Cardinality(Places(panel, h))
        BY <3>3, <3>4, RunFacts DEF H
      <4>2. Cardinality(T) = Cardinality(Places(panel, Base(s)))
        BY <3>2, <3>3, RunFacts
      <4>3. Places(panel, h) = Places(panel, Base(s))
        BY <3>3, HalfDepthSamePlaces
      <4>4. QED BY <3>6, <4>1, <4>2, <4>3
    <3>13. Stat(H).total > 0
      <4>1. Stat(Run(panel, h)).fires >= MinFires
        BY <3>6, <3>8, <3>9, <3>10, <3>12 DEF H
      <4>2. QED BY <3>3, <3>4, <3>7, <4>1, DepthSwept DEF H
    <3> DEFINE rest == [fires |-> Stat(T).fires - Stat(P).fires,
                        total |-> Stat(T).total - Stat(P).total]
    <3>14. rest.fires > 0
      BY <3>6, <3>9
    <3>15. Better(Stat(P), rest)
      <4>1. Stat(P).total * Stat(T).fires > Stat(T).total * Stat(P).fires
        BY <3>7 DEF Better
      <4>2. Stat(P).total * (Stat(T).fires - Stat(P).fires)
              > (Stat(T).total - Stat(P).total) * Stat(P).fires
        BY <3>6, <4>1, PickedBeatsRest
      <4>3. QED BY <4>2 DEF Better
    <3> HIDE DEF rest
    <3>16. /\ Stat(P).fires >= MinFires /\ rest.fires > 0 /\ Better(Stat(P), rest)
           /\ Stat(T).total > 0 /\ Stat(H).fires = Stat(T).fires /\ Stat(H).total > 0
      BY <3>8, <3>11, <3>12, <3>13, <3>14, <3>15
    <3>17. QED BY <3>1, <3>3, <3>16 DEF P, H, h, rest
  <2> HIDE DEF Earned
  <2>2. report # NoReport =>
          \A s \in Signals : report.of[s].verdict = "unproven" => Earned(s)
    BY <2>1
  <2>3. QED BY <2>2 DEF UnprovenEarned, Earned
<1>2. QED BY <1>1, GateInvariant, PTL

\* The universe, the stored bars and the report have their types.
THEOREM TypesHold == Spec => []TypeOK
<1>1. ASSUME GateInv PROVE TypeOK
  <2>1. MidcapTypeOK
    <3>1. candidates \in Seq(InFdvBand \cap Mapped) /\ pos \in Nat \ {0}
      BY <1>1 DEF GateInv, FunnelInv
    <3>2. DOMAIN candidates = 1..Len(candidates)
      BY <3>1
    <3>3. IsInjective(candidates)
      BY <1>1, <3>2 DEF GateInv, FunnelInv, IsInjective
    <3>4. failed \subseteq ToSet(candidates)
      BY <1>1, <3>2 DEF GateInv, FunnelInv, ToSet
    <3>5. QED BY <1>1, <3>1, <3>3, <3>4 DEF GateInv, StoreInv, BarsInv, MidcapTypeOK
  <2>2. ASSUME report # NoReport
        PROVE  /\ {row.pool : row \in ToSet(report.panel)} \subseteq
                    (IF report.speculativeOnly THEN Pools \ Pegged ELSE Pools)
               /\ \A s \in Signals : report.of[s].verdict \in Verdicts
    <3>1. IsPanel(report.panel)
      BY <1>1, <2>2 DEF GateInv, ReportInv
    <3>2. \A row \in ToSet(report.panel) :
            row.pool \in (IF report.speculativeOnly THEN Pools \ Pegged ELSE Pools)
      BY <1>1, <2>2, <3>1 DEF IsPanel, ToSet, GateInv, ReportInv
    <3>3. \A panel, c, trades : VerdictOf(panel, c, trades) \in Verdicts
      BY DEF VerdictOf, Verdicts
    <3>4. QED BY <1>1, <2>2, <3>2, <3>3, ReportFacts
  <2>3. QED BY <2>1, <2>2 DEF TypeOK
<1>2. QED BY <1>1, GateInvariant, PTL

\* Whatever the listing, the band, the requests that fail and the writes that are
\* cut, a finished funnel holds the deepest pool of the first page of every
\* candidate whose own request did not fail (mcap_rank.py build_midcap_universe).
THEOREM OneBadToken == Spec => []OneBadTokenCostsItself
<1>1. Init => FunnelInv /\ SnapshotsInv
  BY UniverseInit DEF Init
<1>2. FunnelInv /\ SnapshotsInv /\ [Next]_vars => (FunnelInv /\ SnapshotsInv)'
  BY UniverseNext
<1>3. SnapshotsInv => OneBadTokenCostsItself
  BY DEF SnapshotsInv, Kept, OneBadTokenCostsItself
<1>4. QED BY <1>1, <1>2, <1>3, PTL DEF Spec
=============================================================================
