--------------------------- MODULE ProfilerProofs ---------------------------
(***************************************************************************)
(* What TLAPS proves of the launch store and of the profiler's walk: rows  *)
(* sort into a tape without loss, and a replay to an earlier time sees the *)
(* beginning of each tape (TapeReplayed); a stream loses nothing it has    *)
(* met; a pool never has two positions at once; what the walk decides and  *)
(* earns is what a replay to that time gives; filtering one walk by a      *)
(* threshold claims no fire too many; every figure is a number; and late   *)
(* rows do not rewrite what was known.                                     *)
(***************************************************************************)
EXTENDS Profiler, ExecutionLemmas, SequenceTheorems

-----------------------------------------------------------------------------
(* Tapes *)

\* A set of rows whose times and slots are numbers and order it.
Sortable(S) ==
  /\ IsFiniteSet(S)
  /\ \A x \in S : x.et \in Nat /\ x.slot \in Nat
  /\ \A x, y \in S : x.et = y.et /\ x.slot = y.slot => x = y

Rank(S) == [x \in S |-> Cardinality({y \in S : Earlier(y, x)})]

LEMMA EarlierOrders ==
  ASSUME NEW S, Sortable(S)
  PROVE  /\ \A x \in S : ~Earlier(x, x)
         /\ \A x, y, z \in S : Earlier(x, y) /\ Earlier(y, z) => Earlier(x, z)
         /\ \A x, y \in S : x = y \/ Earlier(x, y) \/ Earlier(y, x)
BY DEF Sortable, Earlier

\* The ranks of n rows are 0 to n - 1, each once, and grow with time.
LEMMA RankFacts ==
  ASSUME NEW S, Sortable(S)
  PROVE  /\ \A x \in S : Rank(S)[x] \in 0..(Cardinality(S) - 1)
         /\ \A x, y \in S : Earlier(x, y) <=> Rank(S)[x] < Rank(S)[y]
         /\ \A x, y \in S : Rank(S)[x] = Rank(S)[y] => x = y
         /\ \A k \in 0..(Cardinality(S) - 1) : \E x \in S : Rank(S)[x] = k
<1> DEFINE R == {e \in S \X S : Earlier(e[1], e[2])}
<1>1. TotalOrder(S, R)
  BY EarlierOrders DEF TotalOrder
<1>2. \A x \in S : Before(S, R, x) = {y \in S : Earlier(y, x)}
  BY DEF Before
<1>3. \A x \in S : Rank(S)[x] = Cardinality(Before(S, R, x))
  BY <1>2 DEF Rank
<1>4. \A x, y \in S : <<x, y>> \in R <=> Earlier(x, y)
  OBVIOUS
<1>5. IsFiniteSet(S)
  BY DEF Sortable
<1> HIDE DEF R
<1>6. /\ Cardinality(S) \in Nat
      /\ \A x \in S : Rank(S)[x] \in 0..(Cardinality(S) - 1)
      /\ \A x, y \in S : Earlier(x, y) <=> Rank(S)[x] < Rank(S)[y]
      /\ \A k \in 0..(Cardinality(S) - 1) : \E x \in S : Rank(S)[x] = k
  <2>1. /\ Cardinality(S) \in Nat
        /\ \A x \in S : Cardinality(Before(S, R, x)) \in 0..(Cardinality(S) - 1)
        /\ \A x, y \in S :
             <<x, y>> \in R <=> Cardinality(Before(S, R, x)) < Cardinality(Before(S, R, y))
        /\ \A k \in 0..(Cardinality(S) - 1) : \E x \in S : Cardinality(Before(S, R, x)) = k
    BY <1>1, <1>5, OrderRank
  <2> DEFINE r == Rank(S)
  <2>2. \A x \in S : r[x] = Cardinality(Before(S, R, x))
    BY <1>3
  <2> HIDE DEF r
  <2>3. /\ \A x \in S : r[x] \in 0..(Cardinality(S) - 1)
        /\ \A x, y \in S : Earlier(x, y) <=> r[x] < r[y]
        /\ \A k \in 0..(Cardinality(S) - 1) : \E x \in S : r[x] = k
    BY <1>4, <2>1, <2>2
  <2>4. QED BY <2>1, <2>3 DEF r
<1>7. ASSUME NEW x \in S, NEW y \in S, Rank(S)[x] = Rank(S)[y] PROVE x = y
  <2>1. ~(Rank(S)[x] < Rank(S)[y]) /\ ~(Rank(S)[y] < Rank(S)[x])
    BY <1>6, <1>7
  <2>2. QED BY <1>6, <2>1, EarlierOrders
<1>8. QED BY <1>6, <1>7

\* A tape holds the rows of its set, each once.
LEMMA TapeHolds ==
  ASSUME NEW S, Sortable(S)
  PROVE  /\ Cardinality(S) \in Nat
         /\ Tape(S) \in [1..Cardinality(S) -> S]
         /\ \A x \in S : \E k \in 1..Cardinality(S) : Tape(S)[k] = x
         /\ \A k \in 1..Cardinality(S) : Rank(S)[Tape(S)[k]] = k - 1
<1> DEFINE n == Cardinality(S)
           at(k) == CHOOSE x \in S : Cardinality({y \in S : Earlier(y, x)}) = k - 1
<1>1. n \in Nat
  BY FS_CardinalityType DEF Sortable
<1>2. Tape(S) = [k \in 1..n |-> at(k)]
  BY DEF Tape, Ordered
<1>3. ASSUME NEW k \in 1..n PROVE at(k) \in S /\ Rank(S)[at(k)] = k - 1
  <2>1. k - 1 \in 0..(n - 1)
    BY <1>1
  <2>2. PICK x \in S : Rank(S)[x] = k - 1
    BY <2>1, RankFacts
  <2>3. \E z \in S : Cardinality({y \in S : Earlier(y, z)}) = k - 1
    BY <2>2 DEF Rank
  <2>4. QED BY <2>3 DEF Rank
<1>4. ASSUME NEW x \in S PROVE \E k \in 1..n : Tape(S)[k] = x
  <2>1. Rank(S)[x] \in 0..(n - 1)
    BY RankFacts
  <2>2. PICK k \in 1..n : k = Rank(S)[x] + 1
    BY <1>1, <2>1
  <2>3. at(k) \in S /\ Rank(S)[at(k)] = k - 1
    BY <1>3
  <2>4. Rank(S)[at(k)] = Rank(S)[x]
    BY <2>1, <2>2, <2>3
  <2>5. at(k) = x
    BY <2>3, <2>4, RankFacts
  <2>6. QED BY <2>5, <1>2
<1>5. \A k \in 1..n : Rank(S)[Tape(S)[k]] = k - 1
  BY <1>2, <1>3
<1>6. QED BY <1>1, <1>2, <1>3, <1>4, <1>5

\* A tape is a sequence of its set, each row once, in time.
LEMMA TapeFacts ==
  ASSUME NEW S, Sortable(S)
  PROVE  /\ Len(Tape(S)) = Cardinality(S) /\ Len(Tape(S)) \in Nat
         /\ DOMAIN Tape(S) = 1..Len(Tape(S))
         /\ \A k \in 1..Len(Tape(S)) : Tape(S)[k] \in S
         /\ \A x \in S : \E k \in 1..Len(Tape(S)) : Tape(S)[k] = x
         /\ \A j, k \in 1..Len(Tape(S)) : j < k => Tape(S)[j].et <= Tape(S)[k].et
         /\ \A j, k \in 1..Len(Tape(S)) : Tape(S)[j] = Tape(S)[k] => j = k
<1> DEFINE n == Cardinality(S)
<1>1. n \in Nat /\ Tape(S) \in [1..n -> S]
  BY TapeHolds
<1>2. Len(Tape(S)) = n /\ DOMAIN Tape(S) = 1..n
  BY <1>1
<1>3. ASSUME NEW j \in 1..n, NEW k \in 1..n, j < k PROVE Tape(S)[j].et <= Tape(S)[k].et
  <2>1. Rank(S)[Tape(S)[j]] = j - 1 /\ Rank(S)[Tape(S)[k]] = k - 1
    BY TapeHolds
  <2>2. Earlier(Tape(S)[j], Tape(S)[k])
    <3>1. Rank(S)[Tape(S)[j]] < Rank(S)[Tape(S)[k]]
      BY <1>3, <2>1
    <3>2. Tape(S)[j] \in S /\ Tape(S)[k] \in S
      BY <1>1
    <3>3. QED BY <3>1, <3>2, RankFacts
  <2>3. QED BY <1>1, <2>2 DEF Earlier, Sortable
<1>4. ASSUME NEW j \in 1..n, NEW k \in 1..n, Tape(S)[j] = Tape(S)[k] PROVE j = k
  <2>1. Rank(S)[Tape(S)[j]] = j - 1 /\ Rank(S)[Tape(S)[k]] = k - 1
    BY TapeHolds
  <2>2. j - 1 = k - 1
    BY <1>4, <2>1
  <2>3. QED BY <2>2, <1>1
<1>5. \A k \in 1..n : Tape(S)[k] \in S
  BY <1>1
<1>6. \A x \in S : \E k \in 1..n : Tape(S)[k] = x
  BY TapeHolds
<1> HIDE DEF n
<1>7. QED BY <1>1, <1>2, <1>3, <1>4, <1>5, <1>6 DEF n

LEMMA SubsetSortable ==
  ASSUME NEW S, Sortable(S), NEW T, T \subseteq S
  PROVE  Sortable(T)
BY FS_Subset DEF Sortable

\* What a replay to time t sees of a tape: the beginning of it.
Replayed(early, tape, t) ==
  /\ Len(tape) \in Nat /\ DOMAIN tape = 1..Len(tape)
  /\ Len(early) \in 0..Len(tape) /\ DOMAIN early = 1..Len(early)
  /\ \A k \in 1..Len(early) : early[k] = tape[k]
  /\ \A k \in 1..Len(tape) : /\ tape[k].et \in Nat
                             /\ k <= Len(early) <=> KnowableAt(tape[k]) <= t
  /\ \A j, k \in 1..Len(tape) : j < k => tape[j].et <= tape[k].et

LEMMA TapeReplayed ==
  ASSUME NEW S, Sortable(S), NEW t \in Int
  PROVE  Replayed(Tape(Knowable(S, t)), Tape(S), t)
<1> DEFINE P == Knowable(S, t)
           n == Cardinality(S)
           m == Cardinality(P)
<1>1. P \subseteq S /\ Sortable(P)
  BY SubsetSortable DEF Knowable
<1>2. \A x \in S : x \in P <=> KnowableAt(x) <= t
  BY DEF Knowable
<1>3. ASSUME NEW x \in P PROVE Rank(P)[x] = Rank(S)[x]
  <2>1. {y \in P : Earlier(y, x)} = {y \in S : Earlier(y, x)}
    <3>1. ASSUME NEW y \in S, Earlier(y, x) PROVE y \in P
      <4>1. x \in S /\ KnowableAt(x) <= t
        BY <1>1, <1>2
      <4>2. x.et \in Nat /\ y.et \in Nat /\ y.et <= x.et
        BY <3>1, <4>1 DEF Earlier, Sortable
      <4>3. KnowableAt(y) <= t
        BY <4>1, <4>2, LaunchStoreAssumption DEF KnowableAt
      <4>4. QED BY <1>2, <4>3
    <3>2. QED BY <1>1, <3>1
  <2>2. QED BY <1>1, <2>1 DEF Rank
<1> HIDE DEF P
<1>4. /\ n \in Nat /\ Len(Tape(S)) = n /\ DOMAIN Tape(S) = 1..n
      /\ m \in Nat /\ Len(Tape(P)) = m /\ DOMAIN Tape(P) = 1..m
  BY <1>1, TapeFacts
<1>5. m <= n
  BY <1>1, FS_Subset DEF Sortable
<1>6. ASSUME NEW k \in 1..m PROVE Tape(P)[k] = Tape(S)[k] /\ k \in 1..n
  <2>1. Tape(P)[k] \in P /\ Rank(P)[Tape(P)[k]] = k - 1
    BY <1>1, TapeHolds
  <2>2. k \in 1..n
    BY <1>4, <1>5
  <2>3. Tape(S)[k] \in S /\ Rank(S)[Tape(S)[k]] = k - 1
    BY <2>2, TapeHolds
  <2>4. Tape(P)[k] \in S /\ Rank(S)[Tape(P)[k]] = Rank(S)[Tape(S)[k]]
    BY <1>1, <1>3, <2>1, <2>3
  <2>5. QED BY <2>2, <2>3, <2>4, RankFacts
<1>7. ASSUME NEW k \in 1..n PROVE k <= m <=> KnowableAt(Tape(S)[k]) <= t
  <2>1. Tape(S)[k] \in S /\ Rank(S)[Tape(S)[k]] = k - 1
    BY TapeHolds
  <2>2. ASSUME k <= m PROVE Tape(S)[k] \in P
    <3>1. k \in 1..m
      BY <1>4, <2>2
    <3>2. Tape(P)[k] \in P /\ Tape(P)[k] = Tape(S)[k]
      BY <1>1, <1>6, <3>1, TapeHolds
    <3>3. QED BY <3>2
  <2>3. ASSUME Tape(S)[k] \in P PROVE k <= m
    <3>1. Rank(P)[Tape(S)[k]] = k - 1 /\ Rank(P)[Tape(S)[k]] \in 0..(m - 1)
      BY <1>1, <1>3, <2>1, <2>3, RankFacts
    <3>2. QED BY <1>4, <3>1
  <2>4. QED BY <1>2, <2>1, <2>2, <2>3
<1>8. \A k \in 1..n : Tape(S)[k].et \in Nat
  <2>1. \A k \in 1..n : Tape(S)[k] \in S
    BY TapeHolds
  <2>2. QED BY <2>1 DEF Sortable
<1>9. \A j, k \in 1..n : j < k => Tape(S)[j].et <= Tape(S)[k].et
  BY <1>4, TapeFacts
<1> HIDE DEF n, m
<1>10. QED BY <1>4, <1>5, <1>6, <1>7, <1>8, <1>9 DEF Replayed, P

\* The first and the last of some places of a list.
LEMMA PlaceOrder ==
  ASSUME NEW n \in Nat, NEW S \in SUBSET 1..n, S # {}
  PROVE  /\ Min(S) \in S /\ \A x \in S : Min(S) <= x
         /\ Max(S) \in S /\ \A x \in S : x <= Max(S)
<1>1. IsFiniteSet(1..n)
  BY FS_Interval
<1>2. IsFiniteSet(S)
  BY <1>1, FS_Subset
<1>3. QED BY <1>2, IntOrder

-----------------------------------------------------------------------------
(* Books: what is resolved by a time was knowable then *)

LEMMA FirstBuysReplayed ==
  ASSUME NEW early, NEW tape, NEW t \in Int, Replayed(early, tape, t)
  PROVE  FirstBuys(early) = FirstBuys(tape) \cap 1..Len(early)
<1>1. \A k \in 1..Len(early) : k \in 1..Len(tape) /\ early[k] = tape[k]
  BY DEF Replayed
<1>2. \A k \in 1..Len(early) : \A j \in 1..(k - 1) : early[j] = tape[j]
  BY <1>1 DEF Replayed
<1>3. QED BY <1>1, <1>2 DEF FirstBuys, Replayed

\* A run-up trial resolved by t is one of the replay to t, and the other way round.
LEMMA RunupReplayed ==
  ASSUME NEW early, NEW tape, NEW t \in Int, Replayed(early, tape, t)
  PROVE  Resolved(RunupTrials(tape), t) = Resolved(RunupTrials(early), t)
<1> DEFINE n == Len(tape)
           m == Len(early)
           all(j) == Crossings(tape, j)
           known(j) == Crossings(early, j)
<1>1. /\ n \in Nat /\ m \in 0..n /\ DOMAIN tape = 1..n
      /\ \A k \in 1..m : early[k] = tape[k]
      /\ \A k \in 1..n : tape[k].et \in Nat /\ (k <= m <=> KnowableAt(tape[k]) <= t)
      /\ \A j, k \in 1..n : j < k => tape[j].et <= tape[k].et
  BY DEF Replayed
<1>2. Latency \in Nat /\ RunupWindow \in Nat
  BY LaunchStoreAssumption, WalletBookAssumption
<1>3. ASSUME NEW j \in 1..m
      PROVE  /\ j \in 1..n /\ early[j] = tape[j]
             /\ known(j) = all(j) \cap 1..m /\ all(j) \subseteq 1..n
             /\ all(j) # {} => Min(all(j)) \in all(j) /\ \A k \in all(j) : Min(all(j)) <= k
             /\ known(j) # {} => Min(known(j)) \in known(j) /\ \A k \in known(j) : Min(known(j)) <= k
  <2>1. j \in 1..n /\ early[j] = tape[j]
    BY <1>1
  <2>2. all(j) \subseteq 1..n
    BY <1>1 DEF Crossings
  <2>3. known(j) = all(j) \cap 1..m
    <3>1. \A k \in (j + 1)..m : k \in 1..m /\ k \in (j + 1)..n
      BY <1>1
    <3>2. \A k \in (j + 1)..n : k \in 1..m => k \in (j + 1)..m
      BY <1>1
    <3>3. QED BY <1>1, <2>1, <3>1, <3>2 DEF Crossings
  <2> HIDE DEF all, known
  <2>4. all(j) # {} => Min(all(j)) \in all(j) /\ \A k \in all(j) : Min(all(j)) <= k
    BY <1>1, <2>2, PlaceOrder
  <2>5. known(j) # {} => Min(known(j)) \in known(j) /\ \A k \in known(j) : Min(known(j)) <= k
    <3>1. known(j) \subseteq 1..n
      BY <2>2, <2>3
    <3>2. QED BY <1>1, <3>1, PlaceOrder
  <2>6. QED BY <2>1, <2>2, <2>3, <2>4, <2>5
<1>4. ASSUME NEW j \in 1..m,
             RunupTrial(tape, j).resolution <= t \/ RunupTrial(early, j).resolution <= t
      PROVE  RunupTrial(tape, j) = RunupTrial(early, j)
  <2>1. j \in 1..n /\ KnowableAt(tape[j]) \in Int /\ KnowableAt(tape[j]) = tape[j].et + Latency
    BY <1>1, <1>2 DEF KnowableAt
  <2>2. CASE known(j) # {}
    <3>1. all(j) # {} /\ Min(known(j)) \in all(j)
      BY <1>3, <2>2
    <3>2. Min(all(j)) <= Min(known(j)) /\ Min(known(j)) \in 1..m /\ Min(all(j)) \in 1..n
      BY <1>3, <2>2, <3>1
    <3>3. Min(all(j)) \in known(j)
      BY <1>1, <1>3, <3>1, <3>2
    <3>4. Min(known(j)) <= Min(all(j))
      BY <1>3, <2>2, <3>3
    <3>5. Min(known(j)) = Min(all(j))
      BY <1>1, <3>2, <3>4
    <3>6. early[Min(known(j))] = tape[Min(all(j))]
      BY <1>1, <3>2, <3>5
    <3> HIDE DEF all, known
    <3>7. QED BY <1>3, <2>2, <3>1, <3>6 DEF RunupTrial, all, known
  <2>3. CASE all(j) = {}
    BY <1>3, <2>3 DEF RunupTrial
  <2>4. CASE known(j) = {} /\ all(j) # {}
    <3> DEFINE hit == Min(all(j))
    <3>1. hit \in all(j) /\ hit \in 1..n /\ hit \notin 1..m
      BY <1>3, <2>4
    <3>2. ~(KnowableAt(tape[hit]) <= t)
      BY <1>1, <3>1
    <3>3. tape[hit].et <= tape[j].et + RunupWindow
      BY <3>1 DEF Crossings
    <3>4. RunupTrial(tape, j).resolution = KnowableAt(tape[hit])
      BY <2>4 DEF RunupTrial
    <3>5. RunupTrial(early, j).resolution = KnowableAt(tape[j]) + RunupWindow
      BY <1>3, <2>4 DEF RunupTrial
    <3> HIDE DEF hit
    <3>6. QED BY <1>1, <1>2, <1>4, <2>1, <3>1, <3>2, <3>3, <3>4, <3>5 DEF KnowableAt
  <2>5. QED BY <2>2, <2>3, <2>4
<1>5. ASSUME NEW j \in 1..n, RunupTrial(tape, j).resolution <= t PROVE j \in 1..m
  <2>1. KnowableAt(tape[j]) \in Int /\ KnowableAt(tape[j]) = tape[j].et + Latency
    BY <1>1, <1>2 DEF KnowableAt
  <2>2. CASE all(j) = {}
    <3>1. RunupTrial(tape, j).resolution = KnowableAt(tape[j]) + RunupWindow
      BY <2>2 DEF RunupTrial
    <3>2. QED BY <1>1, <1>2, <1>5, <2>1, <3>1
  <2>3. CASE all(j) # {}
    <3> DEFINE hit == Min(all(j))
    <3>1. all(j) \in SUBSET 1..n
      BY <1>1 DEF Crossings
    <3>2. hit \in all(j)
      <4> HIDE DEF all
      <4>1. QED BY <1>1, <2>3, <3>1, PlaceOrder
    <3>3. hit \in 1..n /\ j < hit
      BY <1>1, <3>1, <3>2 DEF Crossings
    <3>4. RunupTrial(tape, j).resolution = KnowableAt(tape[hit])
      BY <2>3 DEF RunupTrial
    <3> HIDE DEF hit
    <3>5. KnowableAt(tape[hit]) <= t /\ tape[j].et <= tape[hit].et
      BY <1>1, <1>5, <3>3, <3>4
    <3>6. KnowableAt(tape[j]) <= t
      BY <1>1, <1>2, <2>1, <3>3, <3>5 DEF KnowableAt
    <3>7. QED BY <1>1, <3>6
  <2>4. QED BY <2>2, <2>3
<1>6. FirstBuys(early) = FirstBuys(tape) \cap 1..m /\ FirstBuys(tape) \subseteq 1..n
  BY <1>1, FirstBuysReplayed DEF FirstBuys
<1> HIDE DEF n, m, all, known
<1>7. Resolved(RunupTrials(tape), t) \subseteq Resolved(RunupTrials(early), t)
  BY <1>4, <1>5, <1>6 DEF Resolved, RunupTrials
<1>8. Resolved(RunupTrials(early), t) \subseteq Resolved(RunupTrials(tape), t)
  BY <1>4, <1>6 DEF Resolved, RunupTrials
<1>9. QED BY <1>7, <1>8

\* A hold's outcome is known when it has ended.
LEMMA AccumulatorReplayed ==
  ASSUME NEW early, NEW tape, NEW t \in Int, Replayed(early, tape, t)
  PROVE  Resolved({AccumulatorTrial(tape, j) : j \in FirstBuys(tape)}, t)
           = Resolved({AccumulatorTrial(early, j) : j \in FirstBuys(early)}, t)
<1> DEFINE n == Len(tape)
           m == Len(early)
<1>1. /\ n \in Nat /\ m \in 0..n /\ DOMAIN tape = 1..n /\ DOMAIN early = 1..m
      /\ \A k \in 1..m : early[k] = tape[k]
      /\ \A k \in 1..n : tape[k].et \in Nat /\ (k <= m <=> KnowableAt(tape[k]) <= t)
  BY DEF Replayed
<1>2. Latency \in Nat /\ HoldWindow \in Nat
  BY LaunchStoreAssumption, WalletBookAssumption
<1>3. \A j \in 1..n : AccumulatorTrial(tape, j).resolution = KnowableAt(tape[j]) + HoldWindow
  BY DEF AccumulatorTrial
<1>4. \A j \in 1..n : AccumulatorTrial(tape, j).resolution <= t => j \in 1..m
  BY <1>1, <1>2, <1>3 DEF KnowableAt
<1>5. ASSUME NEW j \in 1..m, KnowableAt(tape[j]) + HoldWindow <= t
      PROVE  AccumulatorTrial(tape, j) = AccumulatorTrial(early, j)
  <2>1. j \in 1..n /\ early[j] = tape[j]
    BY <1>1
  <2>2. \A k \in 1..n : tape[k].et <= tape[j].et + HoldWindow => k \in 1..m
    BY <1>1, <1>2, <1>5, <2>1 DEF KnowableAt
  <2>3. Held(early, j) = Held(tape, j)
    BY <1>1, <2>1, <2>2 DEF Held
  <2>4. \A k \in Held(tape, j) : early[k] = tape[k]
    BY <1>1, <2>2 DEF Held
  <2> DEFINE won(arc) ==
        /\ \E k \in Held(arc, j) : Price(arc[k]) >= Price(arc[j]) * AppreciateTimes
        /\ ~\E k \in Held(arc, j) : Price(arc[k]) * FloorPart <= Price(arc[j])
        /\ \E k \in Held(arc, j) : 5 * (arc[k].et - arc[j].et) >= 4 * HoldWindow
  <2>5. won(early) <=> won(tape)
    BY <2>1, <2>3, <2>4
  <2>6. \A arc : AccumulatorTrial(arc, j) =
          [wallet |-> arc[j].signer, pool |-> arc[j].pool,
           resolution |-> KnowableAt(arc[j]) + HoldWindow, success |-> won(arc)]
    BY Zenon DEF AccumulatorTrial
  <2>7. won(early) = won(tape)
    <3> HIDE DEF won
    <3>1. won(early) \in BOOLEAN /\ won(tape) \in BOOLEAN
      BY DEF won
    <3>2. QED BY <2>5, <3>1
  <2> HIDE DEF won
  <2>8. QED BY <2>1, <2>6, <2>7
<1>6. FirstBuys(early) = FirstBuys(tape) \cap 1..m /\ FirstBuys(tape) \subseteq 1..n
  BY <1>1, FirstBuysReplayed DEF FirstBuys
<1>7. \A j \in 1..m : AccumulatorTrial(early, j).resolution = KnowableAt(tape[j]) + HoldWindow
  BY <1>1 DEF AccumulatorTrial
<1>8. \A j \in 1..m : j \in 1..n
  BY <1>1
<1> HIDE DEF n, m
<1>9. QED BY <1>3, <1>4, <1>5, <1>6, <1>7, <1>8 DEF Resolved

LEMMA HistorySortable == Sortable(Launches) /\ Sortable(Trades)
BY LaunchStoreAssumption, HistoryAssumption DEF Sortable

\* The tape of a pool.
OnPool(s, p) == {t \in Valued(s) : t.pool = p}

LEMMA PoolTapeFacts ==
  ASSUME NEW s \in SUBSET Trades, NEW p
  PROVE  /\ Sortable(OnPool(s, p)) /\ PoolTape(s, p) = Tape(OnPool(s, p))
         /\ OnPool(s, p) \subseteq Trades
<1>1. OnPool(s, p) \subseteq Trades
  BY DEF OnPool, Valued
<1>2. QED BY <1>1, HistorySortable, SubsetSortable DEF PoolTape, OnPool

LEMMA PoolTapeReplayed ==
  ASSUME NEW s \in SUBSET Trades, NEW p, NEW t \in Int
  PROVE  Replayed(PoolTape(Knowable(s, t), p), PoolTape(s, p), t)
<1>1. OnPool(Knowable(s, t), p) = Knowable(OnPool(s, p), t)
  BY DEF OnPool, Valued, Knowable
<1>2. Knowable(s, t) \in SUBSET Trades
  BY DEF Knowable
<1>3. PoolTape(Knowable(s, t), p) = Tape(Knowable(OnPool(s, p), t))
  BY <1>1, <1>2, PoolTapeFacts
<1>4. QED BY <1>3, PoolTapeFacts, TapeReplayed

\* The book is of the pools that were traded, whichever are known to be created.
LEMMA RunupPools ==
  ASSUME NEW s \in SUBSET Trades, NEW c
  PROVE  RunupBook(c, s)
           = UNION {RunupTrials(PoolTape(s, p)) : p \in {t.pool : t \in Valued(s)}}
<1> DEFINE pools == {t.pool : t \in Valued(s)}
<1>1. \A p : Len(PoolTape(s, p)) >= 1 <=> p \in pools
  <2>1. SUFFICES ASSUME NEW p PROVE Len(PoolTape(s, p)) >= 1 <=> p \in pools
    OBVIOUS
  <2>2. Sortable(OnPool(s, p)) /\ PoolTape(s, p) = Tape(OnPool(s, p))
    BY PoolTapeFacts
  <2>3. /\ Len(PoolTape(s, p)) \in Nat
        /\ \A k \in 1..Len(PoolTape(s, p)) : PoolTape(s, p)[k] \in OnPool(s, p)
        /\ \A x \in OnPool(s, p) : \E k \in 1..Len(PoolTape(s, p)) : PoolTape(s, p)[k] = x
    BY <2>2, TapeFacts
  <2>4. p \in pools <=> OnPool(s, p) # {}
    BY DEF OnPool
  <2>5. Len(PoolTape(s, p)) >= 1 <=> 1 \in 1..Len(PoolTape(s, p))
    BY <2>3
  <2>6. OnPool(s, p) # {} => Len(PoolTape(s, p)) >= 1
    BY <2>3
  <2>7. QED BY <2>3, <2>4, <2>5, <2>6
<1>2. pools \subseteq PoolsOf(c, s)
  BY DEF PoolsOf
<1>3. LoadPools(c, s, 1) = pools
  BY <1>1, <1>2 DEF LoadPools
<1>4. QED BY <1>3 DEF RunupBook

LEMMA RunupBookReplayed ==
  ASSUME NEW s \in SUBSET Trades, NEW t \in Int, NEW c, NEW d
  PROVE  Resolved(RunupBook(c, s), t) = Resolved(RunupBook(d, Knowable(s, t)), t)
<1> DEFINE u == Knowable(s, t)
           tape(p) == PoolTape(s, p)
           early(p) == PoolTape(u, p)
           pools(z) == {x.pool : x \in Valued(z)}
<1>1. u \in SUBSET Trades /\ u \subseteq s
  BY DEF Knowable
<1>2. \A p : Resolved(RunupTrials(tape(p)), t) = Resolved(RunupTrials(early(p)), t)
  BY PoolTapeReplayed, RunupReplayed
<1>3. \A p : RunupTrials(early(p)) # {} => p \in pools(u)
  <2>1. SUFFICES ASSUME NEW p, RunupTrials(early(p)) # {} PROVE p \in pools(u)
    OBVIOUS
  <2>2. Sortable(OnPool(u, p)) /\ early(p) = Tape(OnPool(u, p))
    BY <1>1, PoolTapeFacts
  <2>3. PICK j \in FirstBuys(early(p)) : TRUE
    BY <2>1 DEF RunupTrials
  <2>4. j \in 1..Len(early(p)) /\ early(p)[j] \in OnPool(u, p)
    BY <2>2, <2>3, TapeFacts DEF FirstBuys
  <2>5. QED BY <2>4 DEF OnPool
<1>4. pools(u) \subseteq pools(s)
  BY <1>1 DEF Valued
<1>5. /\ RunupBook(c, s) = UNION {RunupTrials(tape(p)) : p \in pools(s)}
      /\ RunupBook(d, u) = UNION {RunupTrials(early(p)) : p \in pools(u)}
  BY <1>1, RunupPools
<1> HIDE DEF tape, early, pools, u
<1>6. \A p, a : a \in RunupTrials(tape(p)) /\ a.resolution <= t <=>
                a \in RunupTrials(early(p)) /\ a.resolution <= t
  BY <1>2 DEF Resolved
<1>7. \A a : a \in Resolved(RunupBook(c, s), t) <=> a \in Resolved(RunupBook(d, u), t)
  BY <1>3, <1>4, <1>5, <1>6 DEF Resolved
<1>8. QED BY <1>7 DEF u

\* What a reversed tape lists is what its set holds.
LEMMA ReversedTape ==
  ASSUME NEW S, Sortable(S)
  PROVE  Reverse(Tape(S)) \in Seq(S) /\ ToSet(Reverse(Tape(S))) = S
<1> DEFINE n == Cardinality(S)
<1>1. n \in Nat /\ Tape(S) \in [1..n -> S]
  BY TapeHolds
<1>2. Len(Tape(S)) = n
  BY <1>1
<1>3. Reverse(Tape(S)) = [k \in 1..n |-> Tape(S)[(n - k) + 1]]
  BY <1>2 DEF Reverse
<1>4. \A k \in 1..n : (n - k) + 1 \in 1..n /\ (n - ((n - k) + 1)) + 1 = k
  BY <1>1
<1>5. Reverse(Tape(S)) \in [1..n -> S]
  BY <1>1, <1>3, <1>4
<1>6. ASSUME NEW x \in S PROVE x \in ToSet(Reverse(Tape(S)))
  <2>1. PICK k \in 1..n : Tape(S)[k] = x
    BY TapeHolds
  <2>2. Reverse(Tape(S))[(n - k) + 1] = x /\ (n - k) + 1 \in 1..n
    BY <2>1, <1>3, <1>4
  <2>3. QED BY <2>2, <1>3 DEF ToSet
<1> DEFINE r == Reverse(Tape(S))
<1> HIDE DEF r
<1>7. r \in Seq(S) /\ DOMAIN r = 1..n /\ \A k \in 1..n : r[k] \in S
  BY <1>1, <1>5 DEF r
<1>8. ToSet(r) \subseteq S
  BY <1>7 DEF ToSet
<1>9. QED BY <1>6, <1>7, <1>8 DEF r

\* A page holds rows of its set that have happened.
LEMMA NewestHappened ==
  ASSUME NEW S, Sortable(S), NEW n \in Nat
  PROVE  Newest(S, n) \in Seq({r \in S : r.et <= now})
<1> DEFINE T == {r \in S : r.et <= now}
           s == Reverse(Tape(T))
           m == IF n < Len(s) THEN n ELSE Len(s)
<1>1. s \in Seq(T)
  BY SubsetSortable, ReversedTape
<1> HIDE DEF s
<1>2. Len(s) \in Nat /\ \A k \in 1..Len(s) : s[k] \in T
  BY <1>1, ElementOfSeq, LenProperties
<1>3. m \in Nat /\ \A k \in 1..m : s[k] \in T
  BY <1>2
<1> HIDE DEF m
<1>4. SubSeq(s, 1, m) \in Seq(T)
  BY <1>3, SubSeqProperties
<1>5. QED BY <1>4 DEF Newest, s, m

-----------------------------------------------------------------------------
(* Ingestion *)

Happened(S) == {r \in S : r.et <= now}
PoolsCreated == {l.pool : l \in created}

\* Besides its type: what is stored has happened, every pool that is watched or
\* traded has its creation, and what the stream has met is stored.
StoreInv ==
  /\ LaunchTypeOK
  /\ created \subseteq Happened(Launches) /\ swaps \subseteq Happened(Trades)
  /\ {t.pool : t \in swaps} \subseteq PoolsCreated
  /\ \A k \in 1..Len(contexts) : contexts[k] \in PoolsCreated
  /\ seen \subseteq swaps \cap walletEvents

\* A batch is a sequence of mapped trades of the pool, not met before, and their
\* rows written to the end are its swaps and its wallet events.
LEMMA BatchRows ==
  ASSUME StoreInv, NEW p
  PROVE  /\ Batch(p) \in Seq({t \in Happened(Trades) : t.pool = p /\ t \notin Unmapped})
         /\ ToSet(Batch(p)) \subseteq Happened(Trades)
<1> DEFINE onPool == {t \in Trades : t.pool = p}
           fresh == ToSet(Page(p)) \ (Unmapped \cup seen)
<1>1. Sortable(onPool)
  BY HistorySortable, SubsetSortable
<1>2. Page(p) \in Seq({t \in onPool : t.et <= now})
  BY <1>1, NewestHappened, LaunchStoreAssumption DEF Page
<1>3. ToSet(Page(p)) \subseteq {t \in onPool : t.et <= now}
  BY <1>2 DEF ToSet
<1>4. /\ fresh \subseteq {t \in Happened(Trades) : t.pool = p /\ t \notin Unmapped}
      /\ Sortable(fresh)
  BY <1>1, <1>3, SubsetSortable DEF Happened
<1>5. Batch(p) \in Seq(fresh) /\ ToSet(Batch(p)) = fresh
  BY <1>4, ReversedTape DEF Batch
<1>6. QED BY <1>4, <1>5

LEMMA WholeBatch ==
  ASSUME NEW S, NEW b \in Seq(S)
  PROVE  /\ SwapsOf(b, 2 * Len(b)) = ToSet(b) /\ WalletsOf(b, 2 * Len(b)) = ToSet(b)
         /\ \A n : SwapsOf(b, n) \subseteq S /\ WalletsOf(b, n) \subseteq S
         /\ ToSet(b) \subseteq S
BY DEF SwapsOf, WalletsOf, ToSet

\* A page of launches holds launches that have happened and can be mapped.
Listable == {l \in Happened(Launches) : l \notin Unmapped}

LEMMA LaunchPage ==
  ASSUME NEW n \in Nat
  PROVE  /\ NewestLaunches(n) \in Seq(Listable)
         /\ ToSet(NewestLaunches(n)) \subseteq Listable
         /\ \A k \in 0..Len(NewestLaunches(n)) :
              ToSet(SubSeq(NewestLaunches(n), 1, k)) \subseteq Listable
<1> DEFINE s == NewestLaunches(n)
           mapped == ToSet(Newest(Launches, n)) \ Unmapped
<1>1. Newest(Launches, n) \in Seq(Happened(Launches))
  BY HistorySortable, NewestHappened DEF Happened
<1>2. mapped \subseteq Listable
  BY <1>1 DEF ToSet, Listable
<1>3. Sortable(mapped)
  BY <1>2, HistorySortable, SubsetSortable DEF Listable, Happened
<1> HIDE DEF mapped
<1>4. Newest(mapped, n) \in Seq({r \in mapped : r.et <= now})
  BY <1>3, NewestHappened
<1>5. s \in Seq(Listable)
  <2>1. Newest(mapped, n) \in Seq(Listable)
    BY <1>2, <1>4, ElementOfSeq, LenProperties, SeqDef
  <2>2. QED BY <2>1 DEF NewestLaunches, mapped
<1> HIDE DEF s
<1>6. ASSUME NEW k \in 0..Len(s)
      PROVE  ToSet(SubSeq(s, 1, k)) \subseteq Listable
  <2>1. SubSeq(s, 1, k) \in Seq(Listable)
    BY <1>5, SubSeqProperties, ElementOfSeq, LenProperties
  <2>2. QED BY <2>1 DEF ToSet
<1>7. ToSet(s) \subseteq Listable
  BY <1>5 DEF ToSet
<1>8. QED BY <1>5, <1>6, <1>7 DEF s

\* Whatever is added of what has happened, an empty memory loses nothing.
LEMMA CreationsAdded ==
  ASSUME StoreInv, NEW new \in SUBSET Listable, created' = created \cup new,
         UNCHANGED <<now, swaps, walletEvents>>,
         holder' \in {"none", "poll", "stream"}, sessions' \in 0..MaxSessions,
         \/ UNCHANGED streamVars
         \/ Close
  PROVE  StoreInv'
<1>1. created' \subseteq Happened(Launches)' /\ PoolsCreated \subseteq PoolsCreated'
  BY DEF StoreInv, Happened, PoolsCreated, Listable
<1>2. swaps' \subseteq Happened(Trades)' /\ {t.pool : t \in swaps'} \subseteq PoolsCreated'
  BY <1>1 DEF StoreInv, Happened
<1>3. created' \subseteq Launches \ Unmapped
  BY DEF StoreInv, LaunchTypeOK, Listable, Happened
<1>4. CASE UNCHANGED streamVars
  BY <1>1, <1>2, <1>3, <1>4 DEF StoreInv, LaunchTypeOK, streamVars
<1>5. CASE Close
  <2>1. contexts' \in Seq({l.pool : l \in Launches}) /\ Len(contexts') = 0
    BY <1>5, EmptySeq DEF Close
  <2>2. QED BY <1>1, <1>2, <1>3, <1>5, <2>1 DEF StoreInv, LaunchTypeOK, Close
<1>6. QED BY <1>4, <1>5

\* Rows of a batch added, up to one: what was met is met still, or forgotten.
LEMMA BatchAdded ==
  ASSUME StoreInv, NEW k \in 1..Len(contexts), NEW n, Write(Batch(contexts[k]), n),
         UNCHANGED <<now, created>>
  PROVE  /\ swaps' \subseteq Happened(Trades)' /\ swaps' \subseteq Trades \ Unmapped
         /\ walletEvents' \subseteq Trades \ Unmapped
         /\ {t.pool : t \in swaps'} \subseteq PoolsCreated'
         /\ swaps \subseteq swaps' /\ walletEvents \subseteq walletEvents'
<1> DEFINE p == contexts[k]
           rows == {t \in Happened(Trades) : t.pool = p /\ t \notin Unmapped}
<1>1. SwapsOf(Batch(p), n) \subseteq rows /\ WalletsOf(Batch(p), n) \subseteq rows
  <2>1. Batch(p) \in Seq(rows)
    BY BatchRows
  <2> HIDE DEF rows, p
  <2>2. QED BY <2>1, WholeBatch
<1>2. p \in PoolsCreated
  BY DEF StoreInv
<1>3. swaps' = swaps \cup SwapsOf(Batch(p), n)
      /\ walletEvents' = walletEvents \cup WalletsOf(Batch(p), n)
  BY DEF Write
<1>4. Happened(Trades)' = Happened(Trades) /\ PoolsCreated' = PoolsCreated
  BY DEF Happened, PoolsCreated
<1>5. rows \subseteq Trades \ Unmapped
  BY DEF Happened
<1> HIDE DEF p
<1>6. QED BY <1>1, <1>2, <1>3, <1>4, <1>5 DEF StoreInv, LaunchTypeOK

LEMMA IngestKeeps ==
  ASSUME StoreInv, Ingest
  PROVE  StoreInv'
<1> USE LaunchStoreAssumption
<1> DEFINE listed == NewestLaunches(Pages * PageLimit)
           watch == NewestLaunches(WatchCount)
<1>0. /\ Pages * PageLimit \in Nat /\ WatchCount \in Nat
      /\ listed \in Seq(Listable) /\ watch \in Seq(Listable)
      /\ ToSet(listed) \subseteq Listable /\ ToSet(watch) \subseteq Listable
  <2>1. Pages * PageLimit \in Nat /\ WatchCount \in Nat
    OBVIOUS
  <2>2. QED BY <2>1, LaunchPage
<1>1. CASE StartPoll
  <2>1. created' = created \cup {} /\ UNCHANGED <<now, swaps, walletEvents, streamVars>>
    BY <1>1 DEF StartPoll, storeVars
  <2>2. holder' = "poll" /\ sessions' \in 0..MaxSessions
    BY <1>1 DEF StartPoll, Open, StoreInv, LaunchTypeOK
  <2>3. PICK none \in SUBSET Listable : none = {}
    OBVIOUS
  <2>4. QED BY <2>1, <2>2, <2>3, CreationsAdded
<1>2. CASE PollTick
  <2>1. UNCHANGED <<now, swaps, walletEvents, streamVars>> /\ holder' = "poll"
        /\ sessions' \in 0..MaxSessions
    BY <1>2 DEF PollTick, StoreInv, LaunchTypeOK
  <2>2. QED BY <1>0, <1>2, <2>1, CreationsAdded DEF PollTick
<1>3. ASSUME NEW n \in 0..Cardinality(Launches), PollDies(n) PROVE StoreInv'
  <2>1. n \in 0..Len(listed)
    BY <1>0, <1>3, FS_CardinalityType DEF PollDies
  <2>2. ToSet(SubSeq(listed, 1, n)) \subseteq Listable
    BY <1>0, <2>1, LaunchPage
  <2>3. /\ created' = created \cup ToSet(SubSeq(listed, 1, n)) /\ Close
        /\ UNCHANGED <<now, swaps, walletEvents>>
        /\ holder' = "none" /\ sessions' \in 0..MaxSessions
    BY <1>3 DEF PollDies, Close, StoreInv, LaunchTypeOK
  <2>4. QED BY <2>2, <2>3, CreationsAdded
<1>4. ASSUME NEW n \in 0..Cardinality(Launches), StartDies(n) PROVE StoreInv'
  <2>1. n \in 0..Len(watch)
    BY <1>0, <1>4, FS_CardinalityType DEF StartDies
  <2>2. ToSet(SubSeq(watch, 1, n)) \subseteq Listable
    BY <1>0, <2>1, LaunchPage
  <2>3. /\ created' = created \cup ToSet(SubSeq(watch, 1, n))
        /\ UNCHANGED <<now, swaps, walletEvents, streamVars>>
        /\ holder' = "none" /\ sessions' \in 0..MaxSessions
    BY <1>4 DEF StartDies, StoreInv, LaunchTypeOK
  <2>4. QED BY <2>2, <2>3, CreationsAdded
<1>5. CASE StartStream
  <2>1. /\ contexts' = [k \in DOMAIN watch |-> watch[k].pool]
        /\ created' = created \cup ToSet(watch) /\ turn' = 1 /\ seen' = {}
        /\ UNCHANGED <<now, swaps, walletEvents>>
        /\ holder' = "stream" /\ sessions' \in 0..MaxSessions
    BY <1>5 DEF StartStream, Open, StoreInv, LaunchTypeOK
  <2> HIDE DEF watch
  <2>2. /\ Len(watch) \in Nat /\ DOMAIN watch = 1..Len(watch)
        /\ \A k \in 1..Len(watch) : watch[k] \in Launches /\ watch[k] \in ToSet(watch)
    BY <1>0 DEF ToSet, Listable, Happened
  <2>3. contexts' \in [1..Len(watch) -> {l.pool : l \in Launches}]
        /\ Len(contexts') = Len(watch)
    BY <2>1, <2>2
  <2>4. contexts' \in Seq({l.pool : l \in Launches})
    BY <2>2, <2>3
  <2>5. \A k \in 1..Len(contexts') : contexts'[k] \in PoolsCreated'
    BY <2>1, <2>2, <2>3 DEF PoolsCreated
  <2>6. created' \subseteq Happened(Launches)' /\ PoolsCreated \subseteq PoolsCreated'
    BY <1>0, <2>1 DEF StoreInv, Listable, Happened, PoolsCreated
  <2>7. swaps' \subseteq Happened(Trades)' /\ {t.pool : t \in swaps'} \subseteq PoolsCreated'
    BY <2>1, <2>6 DEF StoreInv, Happened
  <2>8. created' \subseteq Launches \ Unmapped
    BY <1>0, <2>1 DEF StoreInv, LaunchTypeOK, Listable, Happened
  <2>9. QED BY <2>1, <2>4, <2>5, <2>6, <2>7, <2>8 DEF StoreInv, LaunchTypeOK
<1>6. CASE TailPool
  <2> DEFINE b == Batch(contexts[turn])
  <2>1. turn \in 1..Len(contexts)
    BY <1>6 DEF TailPool, StoreInv, LaunchTypeOK
  <2>2. Write(b, 2 * Len(b)) /\ seen' = seen \cup ToSet(b) /\ turn' = turn + 1
        /\ UNCHANGED <<now, created, holder, contexts, sessions>>
    BY <1>6 DEF TailPool, Watched
  <2>3. swaps' = swaps \cup ToSet(b) /\ walletEvents' = walletEvents \cup ToSet(b)
    BY <2>2, BatchRows, WholeBatch DEF Write
  <2>4. ToSet(b) \subseteq Trades
    BY BatchRows DEF Happened
  <2> HIDE DEF b
  <2>5. seen' \subseteq swaps' \cap walletEvents' /\ seen' \subseteq Trades
    BY <2>2, <2>3, <2>4 DEF StoreInv, LaunchTypeOK
  <2>6. /\ swaps' \subseteq Happened(Trades)' /\ swaps' \subseteq Trades \ Unmapped
        /\ walletEvents' \subseteq Trades \ Unmapped
        /\ {t.pool : t \in swaps'} \subseteq PoolsCreated'
    BY <2>1, <2>2, BatchAdded DEF b
  <2>7. created' \subseteq Happened(Launches)' /\ PoolsCreated' = PoolsCreated
    BY <2>2 DEF StoreInv, Happened, PoolsCreated
  <2>8. QED BY <2>2, <2>5, <2>6, <2>7 DEF StoreInv, LaunchTypeOK
<1>7. ASSUME NEW n, TailDies(n) PROVE StoreInv'
  <2> DEFINE b == Batch(contexts[turn])
  <2>1. turn \in 1..Len(contexts)
    BY <1>7 DEF TailDies, StoreInv, LaunchTypeOK
  <2>2. Write(b, n) /\ Close /\ UNCHANGED <<now, created, sessions>>
    BY <1>7 DEF TailDies, Watched
  <2>3. /\ swaps' \subseteq Happened(Trades)' /\ swaps' \subseteq Trades \ Unmapped
        /\ walletEvents' \subseteq Trades \ Unmapped
        /\ {t.pool : t \in swaps'} \subseteq PoolsCreated'
    BY <2>1, <2>2, BatchAdded
  <2>4. contexts' \in Seq({l.pool : l \in Launches}) /\ Len(contexts') = 0
    BY <2>2, EmptySeq DEF Close
  <2>5. created' \subseteq Happened(Launches)' /\ seen' = {} /\ turn' = 1 /\ holder' = "none"
    BY <2>2 DEF StoreInv, Happened, Close
  <2>6. QED BY <2>2, <2>3, <2>4, <2>5 DEF StoreInv, LaunchTypeOK
<1>8. CASE NextRound
  <2>1. created' \subseteq Happened(Launches)' /\ swaps' \subseteq Happened(Trades)'
        /\ PoolsCreated' = PoolsCreated
    BY <1>8 DEF NextRound, StoreInv, Happened, PoolsCreated, storeVars
  <2>2. QED BY <1>8, <2>1 DEF NextRound, StoreInv, LaunchTypeOK, storeVars
<1>9. CASE Stop
  <2>1. /\ created' = created \cup {} /\ UNCHANGED <<now, swaps, walletEvents>>
        /\ Close /\ holder' = "none" /\ sessions' \in 0..MaxSessions
    BY <1>9 DEF Stop, Close, storeVars, StoreInv, LaunchTypeOK
  <2>2. PICK none \in SUBSET Listable : none = {}
    OBVIOUS
  <2>3. QED BY <2>1, <2>2, CreationsAdded
<1>10. QED BY <1>1, <1>2, <1>3, <1>4, <1>5, <1>6, <1>7, <1>8, <1>9 DEF Ingest

LEMMA StoreInvInit == LaunchInit => StoreInv
<1> SUFFICES ASSUME LaunchInit PROVE StoreInv
  OBVIOUS
<1>1. contexts \in Seq({l.pool : l \in Launches}) /\ Len(contexts) = 0
  BY EmptySeq DEF LaunchInit
<1>2. QED BY <1>1, LaunchStoreAssumption DEF LaunchInit, StoreInv, LaunchTypeOK

LEMMA StoreInvNext == StoreInv /\ [Next]_vars => StoreInv'
<1> SUFFICES ASSUME StoreInv, [Next]_vars PROVE StoreInv'
  OBVIOUS
<1>1. CASE UNCHANGED ingestVars
  BY <1>1 DEF StoreInv, LaunchTypeOK, Happened, PoolsCreated, ingestVars, storeVars, streamVars
<1>2. CASE Advance
  <2>1. now' = now + 1 /\ now' \in 0..MaxTime
        /\ UNCHANGED <<created, swaps, walletEvents, holder, streamVars, sessions>>
    BY <1>2, LaunchStoreAssumption DEF Advance, StoreInv, LaunchTypeOK
  <2>2. created' \subseteq Happened(Launches)' /\ swaps' \subseteq Happened(Trades)'
    BY <2>1, HistoryAssumption DEF StoreInv, LaunchTypeOK, Happened
  <2>3. PoolsCreated' = PoolsCreated
    BY <2>1 DEF PoolsCreated
  <2>4. QED BY <2>1, <2>2, <2>3 DEF StoreInv, LaunchTypeOK, streamVars
<1>3. CASE Ingest
  BY <1>3, IngestKeeps
<1>4. ASSUME holder' \in {"none", "profile"},
             UNCHANGED <<storeVars, streamVars, sessions>>
      PROVE  StoreInv'
  BY <1>4 DEF StoreInv, LaunchTypeOK, Happened, PoolsCreated, storeVars, streamVars
<1>5. QED
  BY <1>1, <1>2, <1>3, <1>4
     DEF Next, vars, StartProfile, BeginPool, Pass, Censor, Score, EndPool, Finish

\* The quality checks find nothing in a store the invariant holds of.
LEMMA NothingFound == StoreInv => QualityFindings(created, swaps) = {}
<1> SUFFICES ASSUME StoreInv PROVE QualityFindings(created, swaps) = {}
  OBVIOUS
<1>1. \A r \in created \cup swaps :
        /\ KnowableAt(r) >= r.et /\ r.et <= now /\ KnowableAt(r) <= now + Skew
        /\ r.et <= now + Skew /\ KnowableAt(r) - r.et <= LatencyLimit
  BY LaunchStoreAssumption, HistoryAssumption DEF StoreInv, LaunchTypeOK, Happened, KnowableAt
<1>2. \A x, y \in swaps : x.slot = y.slot => x = y
  BY HistoryAssumption DEF StoreInv, Happened
<1>3. \A t \in swaps : \E l \in created : l.pool = t.pool
  BY DEF StoreInv, PoolsCreated
<1>4. \A r \in created \cup swaps : KnowableAt(r) \in Nat /\ r.et \in Nat
  BY LaunchStoreAssumption, HistoryAssumption DEF StoreInv, Happened, KnowableAt
<1>5. now \in Nat
  BY LaunchStoreAssumption DEF StoreInv, LaunchTypeOK
<1> SUFFICES ASSUME NEW check \in QualityFindings(created, swaps) PROVE FALSE
  OBVIOUS
<1>6. CASE check = "lookahead_knowable_before_event"
  BY <1>1, <1>4, <1>6 DEF QualityFindings
<1>7. CASE check = "future_timestamps"
  BY <1>1, <1>4, <1>5, <1>7, LaunchStoreAssumption DEF QualityFindings
<1>8. CASE check = "logical_duplicates"
  BY <1>2, <1>8 DEF QualityFindings
<1>9. CASE check = "orphan_swaps"
  BY <1>3, <1>9 DEF QualityFindings
<1>10. CASE check = "negative_amount_usd"
  <2>1. PICK t \in swaps : t.usd < 0
    BY <1>10 DEF QualityFindings
  <2>2. t.usd \in Nat
    BY HistoryAssumption DEF StoreInv, Happened
  <2>3. QED BY <2>1, <2>2
<1>11. CASE check = "ingest_latency"
  BY <1>1, <1>4, <1>11, LaunchStoreAssumption DEF QualityFindings
<1>12. QED BY <1>6, <1>7, <1>8, <1>9, <1>10, <1>11 DEF QualityFindings

\* A running stream has stored all it has met, and the store passes the quality
\* checks whenever and wherever a poll or a stream stops (StreamLossless).
THEOREM NothingMetIsLost == Spec => []StreamLossless
<1>1. StoreInv => StreamLossless
  BY NothingFound DEF StoreInv, StreamLossless
<1>2. QED BY <1>1, StoreInvInit, StoreInvNext, PTL DEF Spec, Init

-----------------------------------------------------------------------------
(* The walk *)

\* The fires of the pool being walked end by nextAllowed, those of other pools
\* are of pools already walked, and only a profile command has any.
WalkInv ==
  /\ i \in Nat \ {0} /\ nextAllowed \in Nat
  /\ holder # "profile" => Fires = {} /\ pool = NoPool /\ todo = {}
  /\ pool \notin todo /\ NoPool \notin todo
  /\ \A x \in Fires : /\ x.ts \in Nat /\ x.pool # NoPool /\ x.pool \notin todo
                      /\ x.pool = pool => x.ts + Horizon <= nextAllowed
  /\ OnePositionPerPool

\* A pool's tape, in a store the invariant holds of.
LEMMA StoredTape ==
  ASSUME StoreInv, NEW p, NEW tape, tape = PoolTape(swaps, p)
  PROVE  /\ Len(tape) \in Nat /\ DOMAIN tape = 1..Len(tape)
         /\ \A k \in 1..Len(tape) :
              /\ tape[k] \in OnPool(swaps, p) /\ tape[k] \in Trades
              /\ tape[k].et \in Nat /\ KnowableAt(tape[k]) = tape[k].et + Latency
              /\ KnowableAt(tape[k]) \in Nat
         /\ \A j, k \in 1..Len(tape) : j < k => tape[j].et <= tape[k].et
<1>1. swaps \in SUBSET Trades
  BY DEF StoreInv, Happened
<1>2. Sortable(OnPool(swaps, p)) /\ tape = Tape(OnPool(swaps, p)) /\ OnPool(swaps, p) \subseteq Trades
  BY <1>1, PoolTapeFacts
<1>3. QED BY <1>2, TapeFacts, HistoryAssumption, LaunchStoreAssumption DEF KnowableAt

\* A fire where no position is open keeps the invariant.
LEMMA FireKeeps ==
  ASSUME StoreInv, WalkInv, Walking, Ts >= nextAllowed, NEW net,
         Fires' = Fires \cup {Trade(net)}, nextAllowed' = Ts + Horizon, i' = i + 1,
         UNCHANGED <<holder, todo, pool>>
  PROVE  WalkInv'
<1> DEFINE new == Trade(net)
<1>1. Ts \in Nat
  BY StoredTape DEF Walking, Ts, CurrentTape, WalkInv
<1>2. new.pool = pool /\ new.ts = Ts
  BY DEF Trade
<1> HIDE DEF new
<1>3. Horizon \in Nat /\ nextAllowed \in Nat
  BY ProfilerAssumption DEF WalkInv
<1>4. \A x \in Fires : x.pool = pool => x.ts + Horizon <= Ts
  BY <1>1, <1>3 DEF WalkInv
<1>5. \A x \in Fires' : /\ x.ts \in Nat /\ x.pool # NoPool /\ x.pool \notin todo'
                        /\ x.pool = pool' => x.ts + Horizon <= nextAllowed'
  BY <1>1, <1>2, <1>3, <1>4 DEF WalkInv, Walking, new
<1>6. OnePositionPerPool'
  BY <1>2, <1>4 DEF WalkInv, OnePositionPerPool, new
<1>7. QED BY <1>1, <1>3, <1>5, <1>6 DEF WalkInv, Walking

LEMMA WalkInvNext ==
  ASSUME StoreInv, WalkInv, [Next]_vars
  PROVE  WalkInv'
<1> USE DEF WalkInv
<1>1. ASSUME UNCHANGED walkVars, holder' = "profile" <=> holder = "profile" PROVE WalkInv'
  BY <1>1 DEF walkVars, Fires, OnePositionPerPool
<1>2. CASE UNCHANGED vars
  BY <1>1, <1>2 DEF vars, ingestVars
<1>3. CASE Advance /\ UNCHANGED walkVars
  BY <1>1, <1>3 DEF Advance
<1>4. CASE Ingest /\ UNCHANGED walkVars
  BY <1>1, <1>4
     DEF Ingest, StartPoll, PollTick, StartStream, TailPool, NextRound, Stop, PollDies, StartDies,
         TailDies, Open, Close
<1>5. ASSUME NEW f, StartProfile(f) PROVE WalkInv'
  <2>1. /\ Fires = {} /\ Fires' = {} /\ pool' = NoPool
        /\ holder' = "profile" /\ i' = i /\ nextAllowed' = nextAllowed
    BY <1>5 DEF StartProfile, Fires
  <2>2. NoPool \notin todo'
    <3>1. todo' \subseteq PoolsOf(created, swaps)
      BY <1>5 DEF StartProfile, LoadPools
    <3>2. PoolsOf(created, swaps) \subseteq {l.pool : l \in Launches} \cup {t.pool : t \in Trades}
      BY DEF StoreInv, Happened, PoolsOf, Valued
    <3>3. QED BY <3>1, <3>2, ProfilerAssumption
  <2>3. QED BY <2>1, <2>2 DEF OnePositionPerPool
<1>6. ASSUME NEW p \in todo, BeginPool(p) PROVE WalkInv'
  <2>1. /\ holder' = holder /\ holder = "profile" /\ pool = NoPool /\ todo' = todo \ {p}
        /\ Fires' = Fires
    BY <1>6 DEF BeginPool, ingestVars, Fires
  <2>2. CASE TooThin(PoolTape(swaps, p))
    BY <1>6, <2>1, <2>2 DEF BeginPool, OnePositionPerPool
  <2>3. CASE ~TooThin(PoolTape(swaps, p))
    <3>1. Len(PoolTape(swaps, p)) \in Nat
      <4>1. {t \in Valued(swaps) : t.pool = p} \subseteq Trades
        BY DEF StoreInv, Happened, Valued
      <4>2. QED BY <4>1, HistorySortable, SubsetSortable, TapeHolds DEF PoolTape
    <3>2. 1 \in 1..Len(PoolTape(swaps, p))
      BY <2>3, <3>1, ProfilerAssumption DEF TooThin
    <3>3. KnowableAt(PoolTape(swaps, p)[1]) + Warmup \in Nat
      BY <3>2, StoredTape, ProfilerAssumption
    <3>4. pool' = p /\ i' = 1 /\ nextAllowed' \in Nat
      BY <1>6, <2>3, <3>3 DEF BeginPool
    <3>5. QED BY <1>6, <2>1, <3>4 DEF OnePositionPerPool
  <2>4. QED BY <2>2, <2>3
<1>7. CASE Pass
  <2>1. UNCHANGED <<holder, todo, pool, nextAllowed>> /\ Fires' = Fires /\ i' = i + 1
    BY <1>7 DEF Pass, MoveOn, ingestVars, Fires
  <2>2. QED BY <2>1 DEF OnePositionPerPool
<1>8. CASE Censor
  <2>1. UNCHANGED <<holder, todo, pool>> /\ Fires' = Fires \cup {Trade(0)} /\ i' = i + 1
    BY <1>8 DEF Censor, MoveOn, ingestVars, Fires
  <2>2. QED BY <1>8, <2>1, FireKeeps DEF Censor
<1>9. CASE Score
  <2> DEFINE net == NetOf(CurrentTape, SizeQuote(CurrentTape), LastKnown(CurrentTape, Ts),
                          LastDated(CurrentTape, CurrentTape[i].et + Horizon))
  <2>1. scored' = scored \cup {Trade(net)} /\ UNCHANGED censored
    BY <1>9 DEF Score
  <2> HIDE DEF net
  <2>2. UNCHANGED <<holder, todo, pool>> /\ Fires' = Fires \cup {Trade(net)} /\ i' = i + 1
    BY <1>9, <2>1 DEF Score, MoveOn, ingestVars, Fires
  <2>3. QED BY <1>9, <2>2, FireKeeps DEF Score
<1>10. CASE EndPool
  <2>1. /\ UNCHANGED <<holder, todo, i, nextAllowed>> /\ Fires' = Fires /\ pool' = NoPool
        /\ holder = "profile"
    BY <1>10 DEF EndPool, ingestVars, Fires
  <2>2. NoPool \notin todo
    OBVIOUS
  <2>3. QED BY <2>1, <2>2 DEF OnePositionPerPool
<1>11. CASE Finish
  <2>1. Fires' = {} /\ pool' = NoPool /\ todo' = {} /\ i' = 1 /\ nextAllowed' = 0
    BY <1>11 DEF Finish, Walked, Fires
  <2>2. QED BY <2>1 DEF OnePositionPerPool
<1>12. QED BY <1>2, <1>3, <1>4, <1>5, <1>6, <1>7, <1>8, <1>9, <1>10, <1>11 DEF Next

\* Two fires of one pool are at least one horizon apart, for every history and
\* however commands follow each other (OnePositionPerPool).
THEOREM OnePosition == Spec => []OnePositionPerPool
<1>1. Init => StoreInv /\ WalkInv
  BY StoreInvInit DEF Init, WalkInit, LaunchInit, WalkInv, Fires, OnePositionPerPool
<1>2. StoreInv /\ WalkInv /\ [Next]_vars => (StoreInv /\ WalkInv)'
  BY StoreInvNext, WalkInvNext
<1>3. StoreInv /\ WalkInv => OnePositionPerPool
  BY DEF WalkInv
<1>4. QED BY <1>1, <1>2, <1>3, PTL DEF Spec

-----------------------------------------------------------------------------
(* Decisions: what a swap's verdict depends on *)

LEMMA DepthReplayed ==
  ASSUME NEW early, NEW tape, NEW t, Replayed(early, tape, t), NEW k \in 1..Len(early)
  PROVE  Depth(early, k) = Depth(tape, k)
<1> DEFINE telling(a) == {j \in 2..k : Telling(a[j - 1], a[j])}
           kept(a) == {j \in telling(a) : Cardinality({h \in telling(a) : h > j}) < 8 * MinPerHalf}
           sample(a) == [j \in kept(a) |-> ImpliedReserve(a[j - 1], a[j])]
<1>1. \A j \in 2..k : early[j] = tape[j] /\ early[j - 1] = tape[j - 1]
  BY DEF Replayed
<1>2. telling(early) = telling(tape)
  BY <1>1
<1>3. kept(early) = kept(tape)
  <2> HIDE DEF telling
  <2>1. QED BY <1>2
<1>4. \A j \in kept(tape) : j \in 2..k
  OBVIOUS
<1>5. sample(early) = sample(tape)
  <2> HIDE DEF kept
  <2>1. QED BY <1>1, <1>3, <1>4
<1>6. \A a : Depth(a, k) = IF kept(a) = {} THEN NoDepth ELSE Median(sample(a))
  BY DEF Depth, DepthAt
<1> HIDE DEF kept, sample
<1>7. QED BY <1>3, <1>5, <1>6

LEMMA LastKnownReplayed ==
  ASSUME NEW early, NEW tape, NEW t \in Int, Replayed(early, tape, t), NEW u \in Int, u <= t
  PROVE  LastKnown(early, u) = LastKnown(tape, u)
<1>1. {k \in DOMAIN early : KnowableAt(early[k]) <= u} = {k \in DOMAIN tape : KnowableAt(tape[k]) <= u}
  <2>1. \A k \in 1..Len(tape) : KnowableAt(tape[k]) \in Int
    BY LaunchStoreAssumption DEF Replayed, KnowableAt
  <2>2. \A k \in 1..Len(tape) : KnowableAt(tape[k]) <= u => k \in 1..Len(early)
    BY <2>1 DEF Replayed
  <2>3. \A k \in 1..Len(early) : k \in 1..Len(tape) /\ early[k] = tape[k]
    BY DEF Replayed
  <2>4. QED BY <2>2, <2>3 DEF Replayed
<1>2. QED BY <1>1 DEF LastKnown

\* A score is made of what is resolved, and so is the lift of a tail's buyers.
LEMMA AttributionOfResolved ==
  ASSUME NEW book, NEW other, NEW t, Resolved(book, t) = Resolved(other, t), NEW tail
  PROVE  Attribution(tail, t, book) = Attribution(tail, t, other)
<1>1. \A w : ScoreAt(book, w, t) = ScoreAt(other, w, t)
  BY DEF ScoreAt
<1> DEFINE bought == {s \in On(tail, "buy") : KnowableAt(s) >= t - AttrWindow /\ KnowableAt(s) <= t}
           spent(w) == Usd({s \in bought : s.signer = w})
           known(b) == {w \in Signers(bought) : ScoreAt(b, w, t).attempts >= MinAttempts}
           up(b) == [w \in known(b) |-> spent(w) * ScoreAt(b, w, t).lift]
           down(b) == [w \in known(b) |-> spent(w)]
<1>2. known(book) = known(other)
  BY <1>1
<1>3. up(book) = up(other) /\ down(book) = down(other)
  <2> HIDE DEF known, spent
  <2>1. QED BY <1>1, <1>2
<1>4. \A b : Attribution(tail, t, b) =
        IF known(b) = {} THEN Undefined
        ELSE [defined |-> TRUE, value |-> SumFunction(up(b)) \div SumFunction(down(b))]
  BY DEF Attribution
<1> HIDE DEF known, up, down
<1>5. QED BY <1>2, <1>3, <1>4

\* A decision replayed to its own time, with the book of that time, is the same.
LEMMA DecisionReplayed ==
  ASSUME NEW early, NEW tape, NEW t \in Int, Replayed(early, tape, t),
         NEW k \in 1..Len(early), t = KnowableAt(tape[k]),
         NEW book, NEW other, Resolved(book, t) = Resolved(other, t), NEW f
  PROVE  Decision(f, early, 1, k, other) = Decision(f, tape, 1, k, book)
<1>1. early[k] = tape[k] /\ KnowableAt(early[k]) = t /\ \A j \in 1..k : early[j] = tape[j]
  BY DEF Replayed
<1>2. {early[j] : j \in 1..k} = {tape[j] : j \in 1..k}
  BY <1>1
<1> DEFINE tail == {tape[j] : j \in 1..k}
<1>3. Signal(f, tail, t, book) = Signal(f, tail, t, other)
  BY AttributionOfResolved DEF Signal
<1>4. LastKnown(early, t) = LastKnown(tape, t)
  BY LastKnownReplayed
<1>5. LastKnown(early, t) \in 1..Len(early)
  <2> DEFINE S == {j \in DOMAIN early : KnowableAt(early[j]) <= t}
  <2>1. S \in SUBSET 1..Len(early) /\ Len(early) \in Nat
    BY DEF Replayed
  <2>2. k \in S
    BY <1>1 DEF Replayed
  <2>3. LastKnown(early, t) = Max(S)
    BY DEF LastKnown
  <2> HIDE DEF S
  <2>4. Max(S) \in S
    BY <2>1, <2>2, PlaceOrder
  <2>5. QED BY <2>1, <2>3, <2>4
<1>6. Depth(early, LastKnown(early, t)) = Depth(tape, LastKnown(tape, t))
  BY <1>4, <1>5, DepthReplayed
<1>7. Decision(f, early, 1, k, other) =
        [fires |-> Signal(f, tail, t, other).defined /\ Depth(early, LastKnown(early, t)) # NoDepth,
         value |-> Signal(f, tail, t, other).value, blocked |-> RugBlocked(tail, t, tape[k])]
  BY <1>1, <1>2 DEF Decision
<1>8. Decision(f, tape, 1, k, book) =
        [fires |-> Signal(f, tail, t, book).defined /\ Depth(tape, LastKnown(tape, t)) # NoDepth,
         value |-> Signal(f, tail, t, book).value, blocked |-> RugBlocked(tail, t, tape[k])]
  BY <1>1 DEF Decision
<1> HIDE DEF tail
<1>9. QED BY <1>3, <1>6, <1>7, <1>8

LEMMA WidestWindow ==
  /\ MaxWindow \in Nat /\ Lookback <= MaxWindow /\ RugLookback <= MaxWindow
  /\ AttrWindow <= MaxWindow
<1> DEFINE S == {Lookback, RugLookback, AttrWindow}
<1>1. S \in SUBSET Int /\ S # {} /\ S \subseteq Nat
  BY ProfilerAssumption
<1>2. IsFiniteSet(S)
  <2>1. S = ({Lookback} \cup {RugLookback}) \cup {AttrWindow}
    OBVIOUS
  <2>2. IsFiniteSet({Lookback}) /\ IsFiniteSet({RugLookback}) /\ IsFiniteSet({AttrWindow})
    BY FS_Singleton
  <2>3. IsFiniteSet({Lookback} \cup {RugLookback})
    BY <2>2, FS_Union
  <2>4. IsFiniteSet(({Lookback} \cup {RugLookback}) \cup {AttrWindow})
    BY <2>2, <2>3, FS_Union
  <2>5. QED BY <2>1, <2>4
<1> HIDE DEF S
<1>3. Max(S) \in S /\ \A x \in S : x <= Max(S)
  BY <1>1, <1>2, IntOrder
<1>4. QED BY <1>1, <1>3 DEF MaxWindow, S

\* Swaps older than the widest window make no difference to a verdict.
LEMMA StaleIgnored ==
  ASSUME NEW tail, NEW fresh \in SUBSET tail, NEW t \in Int, NEW book, NEW f, NEW last,
         \A s \in tail : /\ KnowableAt(s) \in Int
                         /\ s \in fresh \/ KnowableAt(s) < t - MaxWindow
  PROVE  /\ Signal(f, fresh, t, book) = Signal(f, tail, t, book)
         /\ RugBlocked(fresh, t, last) = RugBlocked(tail, t, last)
<1>1. \A n \in {Lookback, RugLookback, AttrWindow} : n \in Nat /\ n <= MaxWindow
  BY WidestWindow, ProfilerAssumption
<1>2. \A s \in tail : \A n \in {Lookback, RugLookback, AttrWindow} :
        KnowableAt(s) >= t - n => s \in fresh
  BY <1>1, WidestWindow
<1>3. \A s \in tail : 2 * KnowableAt(s) >= 2 * t - Lookback => s \in fresh
  BY <1>1, <1>2
<1>4. Derivative(fresh, t) = Derivative(tail, t)
  <2> DEFINE older(S) == {s \in S : KnowableAt(s) >= t - Lookback /\ 2 * KnowableAt(s) < 2 * t - Lookback}
             recent(S) == {s \in S : 2 * KnowableAt(s) >= 2 * t - Lookback /\ KnowableAt(s) <= t}
  <2>1. older(fresh) = older(tail) /\ recent(fresh) = recent(tail)
    BY <1>2, <1>3
  <2>2. \A S : Derivative(S, t) =
          IF Cardinality(older(S)) < MinPerHalf \/ Cardinality(recent(S)) < MinPerHalf THEN Undefined
          ELSE [defined |-> TRUE,
                value |-> BuyPressure(recent(S)) - BuyPressure(older(S))
                     + Growth(Cardinality(Signers(older(S))), Cardinality(Signers(recent(S))))
                     + Growth(Cardinality(older(S)), Cardinality(recent(S)))]
    BY DEF Derivative
  <2> HIDE DEF older, recent
  <2>3. QED BY <2>1, <2>2
<1>5. Attribution(fresh, t, book) = Attribution(tail, t, book)
  <2> DEFINE bought(S) == {s \in On(S, "buy") : KnowableAt(s) >= t - AttrWindow /\ KnowableAt(s) <= t}
             spent(B, w) == Usd({s \in B : s.signer = w})
             known(B) == {w \in Signers(B) : ScoreAt(book, w, t).attempts >= MinAttempts}
             lift(B) == IF known(B) = {} THEN Undefined
                        ELSE [defined |-> TRUE,
                              value |-> SumFunction([w \in known(B) |-> spent(B, w) * ScoreAt(book, w, t).lift])
                                        \div SumFunction([w \in known(B) |-> spent(B, w)])]
  <2>1. bought(fresh) = bought(tail)
    BY <1>2 DEF On
  <2>2. \A S : Attribution(S, t, book) = lift(bought(S))
    BY DEF Attribution
  <2> HIDE DEF bought, lift
  <2>3. QED BY <2>1, <2>2
<1>6. RugBlocked(fresh, t, last) = RugBlocked(tail, t, last)
  <2> DEFINE window(S) == {s \in S : KnowableAt(s) >= t - RugLookback}
             rug(V) ==
               /\ Cardinality(V) >= RugMinTrades
               /\ \/ \E w \in Signers(On(V, "buy")) :
                       100 * Usd({s \in On(V, "buy") : s.signer = w}) > MaxShare * Usd(On(V, "buy"))
                  \/ 100 * (Max({Price(s) : s \in V}) - Price(last)) > MaxDrawdown * Max({Price(s) : s \in V})
  <2>1. window(fresh) = window(tail)
    BY <1>2
  <2>2. \A S : RugBlocked(S, t, last) = rug(window(S))
    BY DEF RugBlocked
  <2> HIDE DEF window, rug
  <2>3. QED BY <2>1, <2>2
<1>7. QED BY <1>4, <1>5, <1>6 DEF Signal

-----------------------------------------------------------------------------
(* What the walk has recorded *)

\* The verdict of the whole tape at the swap where a fire was recorded.
Recorded(x) ==
  LET tape == PoolTape(swaps, x.pool)
      d == Decision(field, tape, 1, x.at, Book)
  IN /\ ~TooThin(tape) /\ x.at \in 1..Len(tape) /\ x.ts = KnowableAt(tape[x.at])
     /\ x.ts >= KnowableAt(tape[1]) + Warmup
     /\ d.fires /\ d.value = x.value /\ d.blocked = x.blocked

\* The return of a fire whose hold the tape outlasts.
Earned(x) ==
  LET tape == PoolTape(swaps, x.pool)
      out == tape[x.at].et + Horizon
  IN /\ out <= tape[Len(tape)].et
     /\ x.net = NetOf(tape, SizeQuote(tape), LastKnown(tape, x.ts), LastDated(tape, out))

\* What the walk dropped from its tail is too old for any swap to come.
FireInv ==
  /\ lo \in 1..i
  /\ pool # NoPool =>
       /\ ~TooThin(CurrentTape) /\ nextAllowed >= KnowableAt(CurrentTape[1]) + Warmup
       /\ \A j \in 1..(lo - 1), k \in i..Len(CurrentTape) :
            KnowableAt(CurrentTape[j]) < KnowableAt(CurrentTape[k]) - MaxWindow
  /\ \A x \in Fires : Recorded(x)
  /\ \A x \in scored : Earned(x)
  /\ \A x \in censored : x.net = 0

\* The tail the walk sees at its swap, and that it decides as the whole tape does.
LEMMA VisibleSuffices ==
  ASSUME StoreInv, WalkInv, FireInv, Walking
  PROVE  /\ Visible \in lo..i
         /\ \A j \in 1..(Visible - 1), k \in i..Len(CurrentTape) :
              KnowableAt(CurrentTape[j]) < KnowableAt(CurrentTape[k]) - MaxWindow
         /\ Verdict = Decision(field, CurrentTape, 1, i, Book)
<1> DEFINE tape == CurrentTape
           S == {k \in lo..Len(tape) : KnowableAt(tape[k]) >= Ts - MaxWindow}
           v == Visible
<1>1. /\ Len(tape) \in Nat
      /\ \A k \in 1..Len(tape) : tape[k].et \in Nat /\ KnowableAt(tape[k]) = tape[k].et + Latency
                                /\ KnowableAt(tape[k]) \in Nat
      /\ \A j, k \in 1..Len(tape) : j < k => tape[j].et <= tape[k].et
  BY StoredTape DEF CurrentTape
<1>2. lo \in 1..i /\ i \in 1..Len(tape) /\ Ts = KnowableAt(tape[i]) /\ MaxWindow \in Nat /\ Latency \in Nat
  BY WidestWindow, LaunchStoreAssumption DEF FireInv, WalkInv, Walking, Ts
<1>3. \A j \in 1..(lo - 1), k \in i..Len(tape) : KnowableAt(tape[j]) < KnowableAt(tape[k]) - MaxWindow
  BY DEF FireInv, Walking
<1>4. S \in SUBSET 1..Len(tape) /\ i \in S
  BY <1>1, <1>2
<1>5. v = Min(S)
  BY DEF Visible, TailStart
<1> HIDE DEF S
<1>6. v \in S /\ \A k \in S : v <= k
  BY <1>1, <1>4, <1>5, PlaceOrder
<1> HIDE DEF v
<1>7. v \in lo..i
  BY <1>2, <1>4, <1>6 DEF S
<1> HIDE DEF tape
<1>8. ASSUME NEW j \in 1..(v - 1), NEW k \in i..Len(tape)
      PROVE  KnowableAt(tape[j]) < KnowableAt(tape[k]) - MaxWindow
  <2>1. CASE j \in 1..(lo - 1)
    BY <1>3, <1>8, <2>1
  <2>2. CASE j >= lo
    <3>1. j \in lo..Len(tape) /\ j < v /\ j \in 1..Len(tape) /\ k \in 1..Len(tape)
      BY <1>1, <1>2, <1>7, <2>2
    <3>2. j \notin S
      BY <1>2, <1>6, <1>7, <3>1
    <3>3. KnowableAt(tape[j]) < Ts - MaxWindow
      BY <1>1, <1>2, <3>1, <3>2 DEF S
    <3>4. Ts <= KnowableAt(tape[k])
      <4>1. i = k \/ i < k
        BY <1>2
      <4>2. i < k => tape[i].et <= tape[k].et
        BY <1>1, <1>2, <3>1
      <4>3. QED BY <1>1, <1>2, <3>1, <4>1, <4>2
    <3>5. QED BY <1>1, <1>2, <3>1, <3>3, <3>4
  <2>3. QED BY <1>2, <1>7, <2>1, <2>2
<1>9. Verdict = Decision(field, tape, 1, i, Book)
  <2> DEFINE tail == {tape[j] : j \in 1..i}
             fresh == {tape[j] : j \in v..i}
  <2>1. fresh \in SUBSET tail
    BY <1>2, <1>7
  <2>2. \A s \in tail : KnowableAt(s) \in Int /\ (s \in fresh \/ KnowableAt(s) < Ts - MaxWindow)
    BY <1>1, <1>2, <1>7, <1>8
  <2>3. \A last : /\ Signal(field, fresh, Ts, Book) = Signal(field, tail, Ts, Book)
                  /\ RugBlocked(fresh, Ts, last) = RugBlocked(tail, Ts, last)
    <3> HIDE DEF fresh, tail
    <3>1. Ts \in Int
      BY <1>1, <1>2
    <3>2. QED BY <2>1, <2>2, <3>1, StaleIgnored
  <2>4. Verdict = Decision(field, tape, v, i, Book)
    BY DEF Verdict, tape, v
  <2>5. \A from : Decision(field, tape, from, i, Book) =
          [fires |-> Signal(field, {tape[j] : j \in from..i}, Ts, Book).defined
                     /\ Depth(tape, LastKnown(tape, Ts)) # NoDepth,
           value |-> Signal(field, {tape[j] : j \in from..i}, Ts, Book).value,
           blocked |-> RugBlocked({tape[j] : j \in from..i}, Ts, tape[i])]
    BY <1>2 DEF Decision
  <2>6. QED BY <2>3, <2>4, <2>5
<1>10. QED BY <1>7, <1>8, <1>9 DEF tape, v

LEMMA RecordedStays ==
  ASSUME UNCHANGED <<created, swaps, field>>, NEW x
  PROVE  (Recorded(x)' <=> Recorded(x)) /\ (Earned(x)' <=> Earned(x))
BY DEF Recorded, Earned, Book

LEMMA FireRecorded ==
  ASSUME StoreInv, WalkInv, FireInv, Walking, Ts >= nextAllowed, Verdict.fires, NEW net
  PROVE  Recorded(Trade(net))
<1>1. Trade(net).pool = pool /\ Trade(net).at = i /\ Trade(net).ts = Ts
      /\ Trade(net).value = Verdict.value /\ Trade(net).blocked = Verdict.blocked
  BY DEF Trade
<1>2. Verdict = Decision(field, CurrentTape, 1, i, Book)
  BY VisibleSuffices
<1>3. ~TooThin(CurrentTape) /\ i \in 1..Len(CurrentTape)
      /\ nextAllowed >= KnowableAt(CurrentTape[1]) + Warmup
  BY StoredTape DEF FireInv, Walking, WalkInv, CurrentTape
<1>4. Ts >= KnowableAt(CurrentTape[1]) + Warmup
  <2>1. 1 \in 1..Len(CurrentTape) /\ i \in 1..Len(CurrentTape)
    BY <1>3, StoredTape DEF CurrentTape
  <2>2. KnowableAt(CurrentTape[1]) \in Nat /\ Ts \in Nat
    BY <2>1, StoredTape DEF CurrentTape, Ts
  <2>3. QED BY <1>3, <2>2, ProfilerAssumption DEF WalkInv
<1> DEFINE x == Trade(net)
<1> HIDE DEF x
<1>5. x.pool = pool /\ x.at = i /\ x.ts = Ts /\ x.value = Verdict.value /\ x.blocked = Verdict.blocked
  BY <1>1 DEF x
<1>6. Recorded(x)
  BY <1>2, <1>3, <1>4, <1>5 DEF Recorded, CurrentTape, Ts
<1>7. QED BY <1>6 DEF x

\* A step along the tape keeps the invariant, if what it records is right.
LEMMA StepKeeps ==
  ASSUME StoreInv, WalkInv, FireInv, Walking, MoveOn, UNCHANGED <<created, swaps, field, pool>>,
         nextAllowed' \in Nat, nextAllowed' >= nextAllowed,
         \A x \in Fires' : Recorded(x), \A x \in scored' : Earned(x),
         \A x \in censored' : x.net = 0
  PROVE  FireInv'
<1>1. CurrentTape' = CurrentTape /\ pool # NoPool /\ i \in Nat \ {0}
  BY DEF CurrentTape, Walking, WalkInv
<1>2. /\ Visible \in lo..i
      /\ \A j \in 1..(Visible - 1), k \in i..Len(CurrentTape) :
           KnowableAt(CurrentTape[j]) < KnowableAt(CurrentTape[k]) - MaxWindow
  BY VisibleSuffices
<1>3. lo' = Visible /\ i' = i + 1
  BY DEF MoveOn
<1>4. lo \in 1..i /\ lo' \in 1..i'
  BY <1>1, <1>2, <1>3 DEF FireInv
<1>5. Len(CurrentTape) \in Nat /\ 1 \in 1..Len(CurrentTape)
  BY <1>1, StoredTape DEF CurrentTape, Walking
<1>6. KnowableAt(CurrentTape[1]) + Warmup \in Nat
  BY <1>5, StoredTape, ProfilerAssumption DEF CurrentTape
<1>7. ~TooThin(CurrentTape') /\ nextAllowed' >= KnowableAt(CurrentTape'[1]) + Warmup
  BY <1>1, <1>6 DEF FireInv, WalkInv
<1>8. \A j \in 1..(lo' - 1), k \in i'..Len(CurrentTape') :
        KnowableAt(CurrentTape'[j]) < KnowableAt(CurrentTape'[k]) - MaxWindow
  <2>1. \A k \in i'..Len(CurrentTape') : k \in i..Len(CurrentTape)
    BY <1>1, <1>3, <1>5
  <2>2. QED BY <1>1, <1>2, <1>3, <2>1
<1>9. (\A x \in Fires' : Recorded(x)') /\ \A x \in scored' : Earned(x)'
  BY RecordedStays
<1>10. QED BY <1>4, <1>7, <1>8, <1>9 DEF FireInv

LEMMA FireInvNext ==
  ASSUME StoreInv, WalkInv, FireInv, [Next]_vars
  PROVE  FireInv'
<1>1. ASSUME UNCHANGED <<created, swaps, walkVars>> PROVE FireInv'
  <2>1. \A x : (Recorded(x)' <=> Recorded(x)) /\ (Earned(x)' <=> Earned(x))
    BY <1>1, RecordedStays DEF walkVars
  <2>2. CurrentTape' = CurrentTape
    BY <1>1 DEF CurrentTape, walkVars
  <2>3. QED BY <1>1, <2>1, <2>2 DEF FireInv, walkVars, Fires
<1>2. CASE UNCHANGED vars
  BY <1>1, <1>2 DEF vars, ingestVars, storeVars
<1>3. CASE Advance /\ UNCHANGED walkVars
  BY <1>1, <1>3 DEF Advance
<1>4. CASE Ingest /\ UNCHANGED walkVars
  <2>1. holder # "profile"
    BY <1>4
       DEF Ingest, StartPoll, PollTick, StartStream, TailPool, NextRound, Stop, PollDies, StartDies,
           TailDies, Open
  <2>2. Fires = {} /\ pool = NoPool
    BY <2>1 DEF WalkInv
  <2>3. Fires' = {} /\ pool' = NoPool /\ lo' = lo /\ i' = i /\ scored' = {} /\ censored' = {}
    BY <1>4, <2>2 DEF walkVars, Fires
  <2>4. QED BY <2>3 DEF FireInv
<1>5. ASSUME NEW f, StartProfile(f) PROVE FireInv'
  <2>1. Fires = {} /\ pool = NoPool
    BY <1>5 DEF StartProfile, WalkInv
  <2>2. Fires' = {} /\ pool' = NoPool /\ lo' = lo /\ i' = i /\ scored' = {} /\ censored' = {}
    BY <1>5, <2>1 DEF StartProfile, Fires
  <2>3. QED BY <2>2 DEF FireInv
<1>6. ASSUME NEW p \in todo, BeginPool(p) PROVE FireInv'
  <2>1. UNCHANGED <<created, swaps, field, scored, censored>> /\ pool = NoPool
    BY <1>6 DEF BeginPool, ingestVars, storeVars
  <2>2. \A x : (Recorded(x)' <=> Recorded(x)) /\ (Earned(x)' <=> Earned(x))
    BY <2>1, RecordedStays
  <2>3. (\A x \in Fires' : Recorded(x)') /\ \A x \in scored' : Earned(x)'
    BY <2>1, <2>2 DEF FireInv, Fires
  <2>4. CASE TooThin(PoolTape(swaps, p))
    <3>1. pool' = NoPool /\ lo' = lo /\ i' = i
      BY <1>6, <2>1, <2>4 DEF BeginPool
    <3>2. QED BY <2>1, <2>3, <3>1 DEF FireInv
  <2>5. CASE ~TooThin(PoolTape(swaps, p))
    <3>1. /\ pool' = p /\ i' = 1 /\ lo' = 1
          /\ nextAllowed' = KnowableAt(PoolTape(swaps, p)[1]) + Warmup
      BY <1>6, <2>5 DEF BeginPool
    <3>2. CurrentTape' = PoolTape(swaps, p)
      BY <2>1, <3>1 DEF CurrentTape
    <3>3. 1 \in 1..Len(PoolTape(swaps, p))
      BY <2>5, StoredTape, ProfilerAssumption DEF TooThin
    <3>4. nextAllowed' \in Nat
      BY <3>1, <3>3, StoredTape, ProfilerAssumption
    <3>5. ~TooThin(CurrentTape') /\ nextAllowed' >= KnowableAt(CurrentTape'[1]) + Warmup
      BY <2>5, <3>1, <3>2, <3>4
    <3>6. QED BY <2>1, <2>3, <3>1, <3>5 DEF FireInv
  <2>6. QED BY <2>4, <2>5
<1>7. ASSUME Pass \/ Censor \/ Score PROVE FireInv'
  <2>1. Walking /\ MoveOn /\ UNCHANGED <<created, swaps, field, pool>>
    BY <1>7 DEF Pass, Censor, Score, ingestVars, storeVars
  <2>2. Ts \in Nat /\ nextAllowed \in Nat /\ Horizon \in Nat
    BY <2>1, StoredTape, ProfilerAssumption DEF Walking, Ts, CurrentTape, WalkInv
  <2>3. \A net : Ts >= nextAllowed /\ Verdict.fires => Recorded(Trade(net))
    BY <2>1, FireRecorded
  <2>4. CASE Pass
    <3>1. UNCHANGED <<nextAllowed, scored, censored>>
      BY <2>4 DEF Pass
    <3>2. (\A x \in Fires' : Recorded(x)) /\ (\A x \in scored' : Earned(x))
          /\ \A x \in censored' : x.net = 0
      BY <3>1 DEF FireInv, Fires
    <3>3. QED BY <2>1, <2>2, <3>1, <3>2, StepKeeps
  <2>5. CASE Censor
    <3>1. /\ censored' = censored \cup {Trade(0)} /\ scored' = scored
          /\ nextAllowed' = Ts + Horizon /\ Ts >= nextAllowed /\ Verdict.fires
      BY <2>5 DEF Censor
    <3>2. Trade(0).net = 0
      BY DEF Trade
    <3>3. (\A x \in Fires' : Recorded(x)) /\ (\A x \in scored' : Earned(x))
          /\ \A x \in censored' : x.net = 0
      BY <2>3, <3>1, <3>2 DEF FireInv, Fires
    <3>4. nextAllowed' \in Nat /\ nextAllowed' >= nextAllowed
      BY <2>2, <3>1
    <3>5. QED BY <2>1, <3>3, <3>4, StepKeeps
  <2>6. CASE Score
    <3> DEFINE net == NetOf(CurrentTape, SizeQuote(CurrentTape), LastKnown(CurrentTape, Ts),
                            LastDated(CurrentTape, CurrentTape[i].et + Horizon))
               x == Trade(net)
    <3>1. /\ scored' = scored \cup {x} /\ censored' = censored
          /\ nextAllowed' = Ts + Horizon /\ Ts >= nextAllowed /\ Verdict.fires
          /\ CurrentTape[i].et + Horizon <= CurrentTape[Len(CurrentTape)].et
      BY <2>6 DEF Score
    <3>2. x.pool = pool /\ x.at = i /\ x.ts = Ts /\ x.net = net /\ Recorded(x)
      BY <2>3, <3>1 DEF Trade
    <3> HIDE DEF x
    <3>3. Earned(x)
      BY <3>1, <3>2 DEF Earned, CurrentTape
    <3> HIDE DEF net
    <3>4. (\A y \in Fires' : Recorded(y)) /\ (\A y \in scored' : Earned(y))
          /\ \A y \in censored' : y.net = 0
      BY <3>1, <3>2, <3>3 DEF FireInv, Fires
    <3>5. nextAllowed' \in Nat /\ nextAllowed' >= nextAllowed
      BY <2>2, <3>1
    <3>6. QED BY <2>1, <3>4, <3>5, StepKeeps
  <2>7. QED BY <1>7, <2>4, <2>5, <2>6
<1>8. CASE EndPool
  <2>1. UNCHANGED <<created, swaps, field, scored, censored, lo, i>> /\ pool' = NoPool
    BY <1>8 DEF EndPool, ingestVars, storeVars
  <2>2. \A x : (Recorded(x)' <=> Recorded(x)) /\ (Earned(x)' <=> Earned(x))
    BY <2>1, RecordedStays
  <2>3. QED BY <2>1, <2>2 DEF FireInv, Fires
<1>9. CASE Finish
  <2>1. Fires' = {} /\ pool' = NoPool /\ lo' = 1 /\ i' = 1 /\ scored' = {} /\ censored' = {}
    BY <1>9 DEF Finish, Walked, Fires
  <2>2. QED BY <2>1 DEF FireInv
<1>10. QED BY <1>2, <1>3, <1>4, <1>5, <1>6, <1>7, <1>8, <1>9 DEF Next

\* A replay to a later time ends at the last point dated by then.
LEMMA OutcomeReplayed ==
  ASSUME StoreInv, NEW x, Recorded(x), Earned(x), x.ts \in Nat
  PROVE  x.net = OutcomeAfresh(x)
<1> DEFINE tape == PoolTape(swaps, x.pool)
           until == x.ts + Horizon
           early == PoolTape(Knowable(swaps, until), x.pool)
           entry == LastKnown(tape, x.ts)
           out == tape[x.at].et + Horizon
           S == {k \in DOMAIN tape : KnowableAt(tape[k]) <= x.ts}
           T == {k \in DOMAIN tape : tape[k].et <= out}
<1>1. /\ Len(tape) \in Nat /\ DOMAIN tape = 1..Len(tape)
      /\ \A k \in 1..Len(tape) : tape[k].et \in Nat /\ KnowableAt(tape[k]) = tape[k].et + Latency
  BY StoredTape
<1>2. /\ x.at \in 1..Len(tape) /\ x.ts = KnowableAt(tape[x.at])
      /\ x.net = NetOf(tape, SizeQuote(tape), entry, LastDated(tape, out))
  BY DEF Recorded, Earned
<1>3. Horizon \in Nat /\ Latency \in Nat /\ until \in Int
  BY ProfilerAssumption, LaunchStoreAssumption
<1>4. swaps \in SUBSET Trades
  BY DEF StoreInv, Happened
<1>5. Replayed(early, tape, until)
  BY <1>3, <1>4, PoolTapeReplayed
<1>6. x.at \in S /\ S \in SUBSET 1..Len(tape)
  BY <1>1, <1>2, <1>3
<1>7. x.at \in T /\ T \in SUBSET 1..Len(tape)
  BY <1>1, <1>2, <1>3
<1> HIDE DEF tape, early
<1>8. /\ Len(early) \in 0..Len(tape) /\ \A k \in 1..Len(early) : early[k] = tape[k]
      /\ \A k \in 1..Len(tape) : k <= Len(early) <=> KnowableAt(tape[k]) <= until
  BY <1>5 DEF Replayed
<1>9. entry \in 1..Len(early)
  <2>1. entry = Max(S)
    BY DEF LastKnown
  <2> HIDE DEF S, entry
  <2>2. entry \in S
    BY <1>1, <1>6, <2>1, PlaceOrder
  <2>3. KnowableAt(tape[entry]) <= until /\ entry \in 1..Len(tape)
    BY <1>1, <1>2, <1>3, <2>2, <1>6 DEF S
  <2>4. QED BY <1>1, <1>8, <2>3
<1>10. LastKnown(early, x.ts) = entry
  BY <1>3, <1>5, LastKnownReplayed
<1>11. LastDated(tape, out) = Len(early) /\ Len(early) \in 1..Len(early)
  <2>1. LastDated(tape, out) = Max(T)
    BY DEF LastDated
  <2>2. \A k \in 1..Len(tape) : k \in T <=> k <= Len(early)
    <3>1. out = tape[x.at].et + Horizon /\ until = tape[x.at].et + Latency + Horizon
          /\ tape[x.at].et \in Nat
      BY <1>1, <1>2, <1>3
    <3> HIDE DEF out, until
    <3>2. \A k \in 1..Len(tape) : tape[k].et <= out <=> KnowableAt(tape[k]) <= until
      BY <1>1, <1>3, <3>1
    <3>3. \A k \in 1..Len(tape) : k \in T <=> tape[k].et <= out
      BY <1>1
    <3>4. QED BY <1>8, <3>2, <3>3
  <2> HIDE DEF T
  <2>3. Max(T) \in T /\ \A k \in T : k <= Max(T)
    BY <1>1, <1>7, PlaceOrder
  <2>4. Len(early) \in 1..Len(tape)
    BY <1>1, <1>8, <1>7, <2>2
  <2>5. Max(T) \in 1..Len(tape) /\ Max(T) <= Len(early) /\ Len(early) <= Max(T)
    <3>1. Max(T) \in 1..Len(tape)
      BY <1>7, <2>3
    <3>2. Len(early) \in T
      BY <2>2, <2>4
    <3>3. QED BY <2>2, <2>3, <3>1, <3>2
  <2>6. QED BY <2>1, <2>4, <2>5
<1>12. /\ Depth(early, entry) = Depth(tape, entry)
       /\ Depth(early, Len(early)) = Depth(tape, Len(early))
       /\ early[entry] = tape[entry] /\ early[Len(early)] = tape[Len(early)]
  BY <1>5, <1>8, <1>9, <1>11, DepthReplayed
<1>13. OutcomeAfresh(x) = NetOf(early, SizeQuote(tape), LastKnown(early, x.ts), Len(early))
  BY DEF OutcomeAfresh, tape, early
<1> HIDE DEF entry, out, until
<1>14. NetOf(early, SizeQuote(tape), entry, Len(early))
         = NetOf(tape, SizeQuote(tape), entry, Len(early))
  BY <1>12 DEF NetOf
<1>15. QED BY <1>2, <1>10, <1>11, <1>13, <1>14

LEMMA VerdictReplayed ==
  ASSUME StoreInv, NEW x, Recorded(x), x.ts \in Nat
  PROVE  Afresh(x).fires /\ Afresh(x).value = x.value /\ Afresh(x).blocked = x.blocked
<1> DEFINE tape == PoolTape(swaps, x.pool)
           s == Knowable(swaps, x.ts)
           early == PoolTape(s, x.pool)
           book == IF field = "attr_score" THEN RunupBook(Knowable(created, x.ts), s) ELSE {}
<1>1. swaps \in SUBSET Trades /\ x.ts \in Int
  BY DEF StoreInv, Happened
<1>2. Replayed(early, tape, x.ts)
  BY <1>1, PoolTapeReplayed
<1>3. Resolved(Book, x.ts) = Resolved(book, x.ts)
  BY <1>1, RunupBookReplayed DEF Book
<1>4. x.at \in 1..Len(early) /\ x.ts = KnowableAt(tape[x.at])
  BY <1>1, <1>2 DEF Recorded, Replayed
<1>5. Afresh(x) = Decision(field, early, 1, x.at, book)
  BY DEF Afresh
<1> HIDE DEF book, early, tape
<1>6. Decision(field, early, 1, x.at, book) = Decision(field, tape, 1, x.at, Book)
  BY <1>1, <1>2, <1>3, <1>4, DecisionReplayed
<1>7. QED BY <1>5, <1>6 DEF Recorded, tape

LEMMA WalkInvHolds == Spec => [](StoreInv /\ WalkInv /\ FireInv)
<1>1. Init => StoreInv /\ WalkInv /\ FireInv
  BY StoreInvInit DEF Init, WalkInit, LaunchInit, WalkInv, FireInv, Fires, OnePositionPerPool
<1>2. StoreInv /\ WalkInv /\ FireInv /\ [Next]_vars => (StoreInv /\ WalkInv /\ FireInv)'
  BY StoreInvNext, WalkInvNext, FireInvNext
<1>3. QED BY <1>1, <1>2, PTL DEF Spec

\* What the walk decided at a swap, and what it earned, is what a replay to that
\* swap's own time and to one horizon later gives (DecisionsPointInTime).
THEOREM NoLookAhead == Spec => []DecisionsPointInTime
<1>1. StoreInv /\ WalkInv /\ FireInv => DecisionsPointInTime
  <2> SUFFICES ASSUME StoreInv, WalkInv, FireInv PROVE DecisionsPointInTime
    OBVIOUS
  <2>1. ASSUME NEW x \in Fires
        PROVE  Afresh(x).fires /\ Afresh(x).value = x.value /\ Afresh(x).blocked = x.blocked
    BY VerdictReplayed DEF WalkInv, FireInv
  <2>2. ASSUME NEW x \in scored PROVE x.net = OutcomeAfresh(x)
    BY OutcomeReplayed DEF WalkInv, FireInv, Fires
  <2>3. QED BY <2>1, <2>2 DEF DecisionsPointInTime
<1>2. QED BY <1>1, WalkInvHolds, PTL

-----------------------------------------------------------------------------
(* Filtering one walk, and walking again *)

\* Of the wanted places, in order, those that no chosen one before holds up.
Greedy(fired, W, ts) ==
  \A k \in W : k \in fired <=> \A j \in fired : j < k => ts[j] + Horizon <= ts[k]

LEMMA GreedyExists ==
  ASSUME NEW n \in Nat, NEW W \in SUBSET 1..n, NEW ts
  PROVE  \E fired \in SUBSET W : Greedy(fired, W, ts)
<1> DEFINE upto(m) == {k \in W : k <= m}
           ok(m) == \E fired \in SUBSET upto(m) : Greedy(fired, upto(m), ts)
           bad == {m \in 0..n : ~ok(m)}
<1>0. \A k \in W : k \in Nat /\ 1 <= k /\ k <= n
  OBVIOUS
<1>1. W = upto(n)
  BY <1>0
<1>2. CASE bad = {}
  <2>1. ok(n)
    BY <1>2
  <2>2. QED BY <1>1, <2>1
<1>3. CASE bad # {}
  <2>1. bad \in SUBSET Int /\ IsFiniteSet(bad)
    <3>1. IsFiniteSet(0..n) /\ bad \in SUBSET 0..n /\ 0..n \subseteq Int
      BY FS_Interval
    <3> HIDE DEF bad
    <3>2. QED BY <3>1, FS_Subset
  <2>2. PICK m \in bad : \A x \in bad : m <= x
    <3> HIDE DEF bad
    <3>1. QED BY <1>3, <2>1, IntOrder
  <2>3. m \in 0..n /\ ~ok(m)
    OBVIOUS
  <2>4. upto(0) = {}
    <3>1. \A k \in W : ~(k <= 0)
      BY <1>0
    <3>2. QED BY <3>1
  <2>5. ok(0)
    BY <2>4 DEF Greedy
  <2>6. m - 1 \in 0..n /\ m \in Nat \ {0}
    <3> HIDE DEF ok
    <3>1. m # 0
      BY <2>3, <2>5
    <3>2. QED BY <2>3, <3>1
  <2>7. ok(m - 1)
    <3> HIDE DEF ok
    <3>1. m - 1 \notin bad
      <4> HIDE DEF bad
      <4>1. QED BY <2>2, <2>6
    <3>2. QED BY <2>6, <3>1
  <2>8. PICK fired \in SUBSET upto(m - 1) : Greedy(fired, upto(m - 1), ts)
    BY <2>7
  <2> DEFINE free == \A j \in fired : j < m => ts[j] + Horizon <= ts[m]
             more == IF m \in W /\ free THEN fired \cup {m} ELSE fired
  <2>9. \A k \in W : k <= m <=> k = m \/ k <= m - 1
    BY <2>6
  <2>10. \A k \in upto(m - 1) : k \in Int /\ k < m
    BY <2>6
  <2>11. more \in SUBSET upto(m)
    BY <2>6, <2>9
  <2>12. \A j \in more : j \in fired \/ j = m
    OBVIOUS
  <2>13. ASSUME NEW k \in upto(m)
         PROVE  k \in more <=> \A j \in more : j < k => ts[j] + Horizon <= ts[k]
    <3>1. CASE k = m
      <4>1. m \in W /\ m \notin fired
        BY <2>8, <2>10, <3>1
      <4>2. m \in more <=> free
        BY <4>1
      <4>3. (\A j \in more : j < m => ts[j] + Horizon <= ts[m]) <=> free
        BY <2>6, <2>12
      <4>4. QED BY <3>1, <4>2, <4>3
    <3>2. CASE k \in upto(m - 1)
      <4>1. k \in Int /\ k < m /\ ~(m < k)
        BY <2>6, <2>10, <3>2
      <4>2. k \in more <=> k \in fired
        BY <4>1
      <4>3. (\A j \in more : j < k => ts[j] + Horizon <= ts[k])
              <=> \A j \in fired : j < k => ts[j] + Horizon <= ts[k]
        BY <2>12, <4>1
      <4>4. QED BY <2>8, <3>2, <4>2, <4>3 DEF Greedy
    <3>3. QED BY <2>9, <3>1, <3>2
  <2>14. QED BY <2>3, <2>11, <2>13 DEF Greedy
<1>4. QED BY <1>2, <1>3

\* No choice of places a horizon apart is larger than the greedy one.
LEMMA GreedyIsMost ==
  ASSUME NEW n \in Nat, NEW W \in SUBSET 1..n, NEW ts,
         \A k \in 1..n : ts[k] \in Nat,
         \A j, k \in 1..n : j < k => ts[j] <= ts[k],
         NEW fired \in SUBSET W, Greedy(fired, W, ts),
         NEW A, NEW at \in [A -> W],
         \A x, y \in A : x # y => \/ ts[at[x]] + Horizon <= ts[at[y]]
                                  \/ ts[at[y]] + Horizon <= ts[at[x]]
  PROVE  IsFiniteSet(A) /\ Cardinality(A) <= Cardinality(fired)
<1> DEFINE holds(j, k) == j = k \/ (j < k /\ ~(ts[j] + Horizon <= ts[k]))
           f == [x \in A |-> CHOOSE j \in fired : holds(j, at[x])]
<1>1. Horizon \in Nat /\ Horizon > 0
  BY ProfilerAssumption
<1>2. IsFiniteSet(fired)
  <2>1. IsFiniteSet(1..n) /\ fired \in SUBSET 1..n
    BY FS_Interval
  <2>2. QED BY <2>1, FS_Subset
<1>3. ASSUME NEW x \in A PROVE \E j \in fired : holds(j, at[x])
  <2>1. at[x] \in W
    OBVIOUS
  <2>2. CASE at[x] \in fired
    BY <2>2
  <2>3. CASE at[x] \notin fired
    BY <2>1, <2>3 DEF Greedy
  <2>4. QED BY <2>2, <2>3
<1>4. ASSUME NEW x \in A PROVE f[x] \in fired /\ holds(f[x], at[x])
  <2> HIDE DEF holds
  <2>1. QED BY <1>3
<1>5. ASSUME NEW j \in 1..n, NEW k \in 1..n, holds(j, k)
      PROVE  ts[j] <= ts[k] /\ ts[k] < ts[j] + Horizon
  BY <1>1, <1>5
<1>6. ASSUME NEW x \in A, NEW y \in A, f[x] = f[y], x # y PROVE FALSE
  <2> DEFINE j == f[x]
             g == at[x]
             h == at[y]
  <2>1. j \in 1..n /\ g \in 1..n /\ h \in 1..n /\ holds(j, g) /\ holds(j, h)
    BY <1>4, <1>6
  <2> HIDE DEF j, f, holds
  <2>2. ts[j] <= ts[g] /\ ts[g] < ts[j] + Horizon /\ ts[j] <= ts[h] /\ ts[h] < ts[j] + Horizon
    BY <1>5, <2>1
  <2>3. ts[g] + Horizon <= ts[h] \/ ts[h] + Horizon <= ts[g]
    BY <1>6
  <2> HIDE DEF g, h
  <2>4. ts[j] \in Nat /\ ts[g] \in Nat /\ ts[h] \in Nat
    BY <2>1
  <2>5. QED BY <1>1, <2>2, <2>3, <2>4
<1>7. f \in [A -> fired]
  BY <1>4
<1> HIDE DEF f
<1>8. QED BY <1>2, <1>6, <1>7, CountWithin

\* The fires of a pool are of places that are wanted, a horizon apart.
LEMMA NotOverstated ==
  ASSUME StoreInv, WalkInv, FireInv, NEW p, NEW thr
  PROVE  Cardinality({x \in Above(Fires, thr) : x.pool = p}) <= Cardinality(Resimulated(p, thr))
<1> DEFINE tape == PoolTape(swaps, p)
           n == Len(tape)
           ts == [k \in 1..n |-> KnowableAt(tape[k])]
           decided(k) == Decision(field, tape, 1, k, Book)
           W == {k \in DOMAIN tape : /\ KnowableAt(tape[k]) >= KnowableAt(tape[1]) + Warmup
                                     /\ decided(k).fires /\ decided(k).value >= thr}
           A == {x \in Above(Fires, thr) : x.pool = p}
           at == [x \in A |-> x.at]
           fired == Resimulated(p, thr)
<1>1. /\ n \in Nat /\ DOMAIN tape = 1..n
      /\ \A k \in 1..n : KnowableAt(tape[k]) \in Nat /\ tape[k].et \in Nat
                         /\ KnowableAt(tape[k]) = tape[k].et + Latency
      /\ \A j, k \in 1..n : j < k => tape[j].et <= tape[k].et
  BY StoredTape
<1>2. (\A k \in 1..n : ts[k] \in Nat) /\ \A j, k \in 1..n : j < k => ts[j] <= ts[k]
  <2> HIDE DEF tape, n
  <2>1. \A j, k \in 1..n : j < k => KnowableAt(tape[j]) <= KnowableAt(tape[k])
    <3>1. SUFFICES ASSUME NEW j \in 1..n, NEW k \in 1..n, j < k
                   PROVE  KnowableAt(tape[j]) <= KnowableAt(tape[k])
      OBVIOUS
    <3>2. Latency \in Nat /\ tape[j].et \in Nat /\ tape[k].et \in Nat /\ tape[j].et <= tape[k].et
      BY <1>1, <3>1, LaunchStoreAssumption
    <3>3. QED BY <1>1, <3>2
  <2>2. QED BY <1>1, <2>1
<1>3. W \in SUBSET 1..n
  BY <1>1
<1>4. ASSUME NEW x \in A
      PROVE  x.at \in W /\ x.ts = ts[x.at] /\ x \in Fires /\ x.pool = p
  <2>1. x \in Fires /\ x.value >= thr /\ x.pool = p
    BY DEF Above
  <2>2. Recorded(x)
    BY <2>1 DEF FireInv
  <2>3. QED BY <1>1, <2>1, <2>2 DEF Recorded
<1>5. fired \in SUBSET W /\ Greedy(fired, W, ts)
  <2>1. fired = CHOOSE F \in SUBSET W :
          \A k \in W : k \in F <=>
            \A j \in F : j < k => KnowableAt(tape[j]) + Horizon <= KnowableAt(tape[k])
    BY DEF Resimulated
  <2> HIDE DEF W, fired, tape, n, ts
  <2>2. \A F \in SUBSET W : Greedy(F, W, ts) <=>
          \A k \in W : k \in F <=>
            \A j \in F : j < k => KnowableAt(tape[j]) + Horizon <= KnowableAt(tape[k])
    BY <1>3 DEF Greedy, ts
  <2>3. \E F \in SUBSET W : Greedy(F, W, ts)
    BY <1>1, <1>3, GreedyExists
  <2>4. QED BY <2>1, <2>2, <2>3
<1>6. \A x, y \in A : x # y => ts[at[x]] + Horizon <= ts[at[y]] \/ ts[at[y]] + Horizon <= ts[at[x]]
  <2>1. SUFFICES ASSUME NEW x \in A, NEW y \in A, x # y
                 PROVE  ts[at[x]] + Horizon <= ts[at[y]] \/ ts[at[y]] + Horizon <= ts[at[x]]
    OBVIOUS
  <2>2. ts[at[x]] = x.ts /\ ts[at[y]] = y.ts
    <3>1. at[x] = x.at /\ at[y] = y.at
      OBVIOUS
    <3>2. QED BY <1>4, <3>1
  <2> HIDE DEF A, at, ts
  <2>3. x \in Fires /\ y \in Fires /\ x.pool = y.pool
    BY <1>4
  <2>4. QED BY <2>1, <2>2, <2>3 DEF WalkInv, OnePositionPerPool
<1>7. at \in [A -> W]
  BY <1>4
<1> HIDE DEF tape, n, ts, W, A, at, fired
<1>8. Cardinality(A) <= Cardinality(fired)
  BY <1>1, <1>2, <1>3, <1>5, <1>6, <1>7, GreedyIsMost
<1>9. QED BY <1>8 DEF A, fired

\* A threshold applied to the fires of one walk never counts more of a pool than
\* a walk with that threshold makes (FiresNotOverstated).
THEOREM CurveUnderstates == Spec => []FiresNotOverstated
<1>1. StoreInv /\ WalkInv /\ FireInv => FiresNotOverstated
  BY NotOverstated DEF FiresNotOverstated
<1>2. QED BY <1>1, WalkInvHolds, PTL

-----------------------------------------------------------------------------
(* Every figure is a number: nothing is divided by zero *)

\* Swaps that can be used: each has a price and a value.
Usable(S) ==
  /\ IsFiniteSet(S)
  /\ \A s \in S : s.usd \in Nat \ {0} /\ s.root \in Nat \ {0} /\ s.quote \in Nat

LEMMA UsdOfSome ==
  ASSUME NEW S, Usable(S)
  PROVE  Usd(S) \in Nat /\ (S # {} => Usd(S) \in Nat \ {0})
<1> DEFINE f == [s \in S |-> s.usd]
<1>1. DOMAIN f = S /\ \A s \in S : f[s] \in Nat \ {0}
  BY DEF Usable
<1>2. IsFiniteSet(S)
  BY DEF Usable
<1> HIDE DEF f
<1>3. SumFunction(f) \in Nat /\ (S # {} => SumFunction(f) > 0)
  BY <1>1, <1>2, SumIsPositive
<1>4. QED BY <1>3 DEF Usd, f

LEMMA UsableSubset ==
  ASSUME NEW S, Usable(S), NEW T \in SUBSET S
  PROVE  Usable(T) /\ Cardinality(T) \in Nat
BY FS_Subset, FS_CardinalityType DEF Usable

LEMMA PressureIsInt ==
  ASSUME NEW S, Usable(S), S # {}
  PROVE  BuyPressure(S) \in Int
<1>1. Usable(On(S, "buy")) /\ Usable(On(S, "sell"))
  BY UsableSubset DEF On
<1>2. Usd(On(S, "buy")) \in Nat /\ Usd(On(S, "sell")) \in Nat /\ Usd(S) \in Nat \ {0}
  BY <1>1, UsdOfSome
<1>3. Scale * (Usd(On(S, "buy")) - Usd(On(S, "sell"))) \in Int
  BY <1>2, ExecutionAssumption
<1>4. QED BY <1>2, <1>3, Quotient DEF BuyPressure

LEMMA GrowthIsInt ==
  ASSUME NEW a \in Nat, NEW b \in Nat
  PROVE  Growth(a, b) \in Int
<1>1. Scale * (b - a) \in Int
  BY ExecutionAssumption
<1>2. a # 0 => (Scale * (b - a)) \div a \in Int
  BY <1>1, Quotient
<1>3. QED BY <1>2 DEF Growth

LEMMA DerivativeIsInt ==
  ASSUME NEW tail, Usable(tail), NEW t
  PROVE  Derivative(tail, t).value \in Int
<1> DEFINE older == {s \in tail : /\ KnowableAt(s) >= t - Lookback
                                  /\ 2 * KnowableAt(s) < 2 * t - Lookback}
           recent == {s \in tail : 2 * KnowableAt(s) >= 2 * t - Lookback /\ KnowableAt(s) <= t}
           few == Cardinality(older) < MinPerHalf \/ Cardinality(recent) < MinPerHalf
           value == BuyPressure(recent) - BuyPressure(older)
                    + Growth(Cardinality(Signers(older)), Cardinality(Signers(recent)))
                    + Growth(Cardinality(older), Cardinality(recent))
<1>1. Derivative(tail, t) = IF few THEN Undefined ELSE [defined |-> TRUE, value |-> value]
  BY DEF Derivative
<1>2. /\ Usable(older) /\ Cardinality(older) \in Nat
      /\ Usable(recent) /\ Cardinality(recent) \in Nat
  BY UsableSubset
<1> HIDE DEF older, recent
<1>3. ASSUME ~few PROVE value \in Int
  <2>1. older # {} /\ recent # {}
    BY <1>2, <1>3, FS_EmptySet, ProfilerAssumption
  <2>2. BuyPressure(older) \in Int /\ BuyPressure(recent) \in Int
    BY <1>2, <2>1, PressureIsInt
  <2>3. ASSUME NEW S, Usable(S) PROVE Cardinality(Signers(S)) \in Nat
    <3> DEFINE f == [s \in S |-> s.signer]
    <3>1. IsFiniteSet({f[s] : s \in S})
      BY <2>3, FiniteImage DEF Usable
    <3>2. {f[s] : s \in S} = Signers(S)
      BY DEF Signers
    <3>3. QED BY <3>1, <3>2, FS_CardinalityType
  <2>4. /\ Growth(Cardinality(Signers(older)), Cardinality(Signers(recent))) \in Int
        /\ Growth(Cardinality(older), Cardinality(recent)) \in Int
    BY <1>2, <2>3, GrowthIsInt
  <2>5. QED BY <2>2, <2>4
<1> HIDE DEF few, value
<1>4. QED BY <1>1, <1>3 DEF Undefined

\* The base rate is of at least the wallet's own trials.
LEMMA LiftIsInt ==
  ASSUME NEW book, IsFiniteSet(book), NEW w, NEW t
  PROVE  ScoreAt(book, w, t).lift \in Int
<1> DEFINE all == Resolved(book, t)
           own == {a \in all : a.wallet = w}
           n == Cardinality(all)
           k == Cardinality(own)
           edge == Cardinality(Leads(own)) * n - Cardinality(Leads(all)) * k
<1>1. ScoreAt(book, w, t).lift =
        IF k = 0 THEN 0 ELSE (Scale * edge) \div (n * (k + PriorStrength))
  BY DEF ScoreAt
<1>2. IsFiniteSet(all)
  BY FS_Subset DEF Resolved
<1> HIDE DEF all
<1>3. IsFiniteSet(own) /\ own \subseteq all
  BY <1>2, FS_Subset
<1>4. n \in Nat /\ k \in Nat /\ k <= n
  BY <1>2, <1>3, FS_CardinalityType, FS_Subset
<1>5. Cardinality(Leads(own)) \in Nat /\ Cardinality(Leads(all)) \in Nat
  BY <1>2, <1>3, FS_CardinalityType, FS_Subset DEF Leads
<1> HIDE DEF own
<1>6. edge \in Int
  BY <1>4, <1>5
<1> HIDE DEF edge, n, k
<1>7. Scale * edge \in Int
  BY <1>6, ExecutionAssumption
<1>8. ASSUME k # 0 PROVE n * (k + PriorStrength) \in Nat \ {0}
  <2>1. n \in Nat \ {0} /\ k + PriorStrength \in Nat \ {0}
    BY <1>4, <1>8, WalletBookAssumption
  <2>2. QED BY <2>1
<1>9. QED BY <1>1, <1>7, <1>8, Quotient

LEMMA AttributionIsInt ==
  ASSUME NEW tail, Usable(tail), NEW t, NEW book, IsFiniteSet(book)
  PROVE  Attribution(tail, t, book).value \in Int
<1> DEFINE bought == {s \in On(tail, "buy") : KnowableAt(s) >= t - AttrWindow /\ KnowableAt(s) <= t}
           by(w) == {s \in bought : s.signer = w}
           known == {w \in Signers(bought) : ScoreAt(book, w, t).attempts >= MinAttempts}
           up == [w \in known |-> Usd(by(w)) * ScoreAt(book, w, t).lift]
           down == [w \in known |-> Usd(by(w))]
<1>1. Attribution(tail, t, book) =
        IF known = {} THEN Undefined
        ELSE [defined |-> TRUE, value |-> SumFunction(up) \div SumFunction(down)]
  BY DEF Attribution
<1>2. Usable(bought)
  BY UsableSubset DEF On
<1> HIDE DEF bought
<1>3. IsFiniteSet(Signers(bought))
  <2> DEFINE f == [s \in bought |-> s.signer]
  <2>1. IsFiniteSet({f[s] : s \in bought})
    BY <1>2, FiniteImage DEF Usable
  <2>2. {f[s] : s \in bought} = Signers(bought)
    BY DEF Signers
  <2>3. QED BY <2>1, <2>2
<1>4. IsFiniteSet(known)
  BY <1>3, FS_Subset
<1>5. ASSUME NEW w \in known
      PROVE  Usd(by(w)) \in Nat \ {0} /\ ScoreAt(book, w, t).lift \in Int
  <2>1. by(w) # {} /\ Usable(by(w))
    BY <1>2, UsableSubset DEF Signers
  <2>2. QED BY <2>1, UsdOfSome, LiftIsInt
<1> HIDE DEF known, by
<1>6. DOMAIN up = known /\ \A w \in known : up[w] \in Int
  BY <1>5
<1>7. DOMAIN down = known /\ \A w \in known : down[w] \in Nat \ {0}
  BY <1>5
<1> HIDE DEF up, down
<1>8. SumFunction(up) \in Int
  BY <1>4, <1>6, SumIsInt
<1>9. SumFunction(down) \in Nat /\ (known # {} => SumFunction(down) > 0)
  BY <1>4, <1>7, SumIsPositive
<1>10. known # {} => SumFunction(up) \div SumFunction(down) \in Int
  BY <1>8, <1>9, Quotient
<1>11. QED BY <1>1, <1>10 DEF Undefined

\* A run-up book has finitely many trials.
LEMMA BookFinite ==
  ASSUME NEW s \in SUBSET Trades, NEW c
  PROVE  IsFiniteSet(RunupBook(c, s))
<1> DEFINE pools == {x.pool : x \in Valued(s)}
           trials == [p \in pools |-> RunupTrials(PoolTape(s, p))]
<1>1. IsFiniteSet(pools)
  <2> DEFINE f == [x \in Valued(s) |-> x.pool]
  <2>1. IsFiniteSet(Valued(s))
    BY LaunchStoreAssumption, FS_Subset DEF Valued
  <2>2. IsFiniteSet({f[x] : x \in Valued(s)})
    BY <2>1, FiniteImage
  <2>3. {f[x] : x \in Valued(s)} = pools
    OBVIOUS
  <2>4. QED BY <2>2, <2>3
<1>2. ASSUME NEW p \in pools PROVE IsFiniteSet(trials[p])
  <2> DEFINE tape == PoolTape(s, p)
             f == [j \in FirstBuys(tape) |-> RunupTrial(tape, j)]
  <2>1. Len(tape) \in Nat /\ DOMAIN tape = 1..Len(tape)
    BY PoolTapeFacts, TapeFacts
  <2>2. IsFiniteSet(FirstBuys(tape))
    <3>1. IsFiniteSet(1..Len(tape))
      BY <2>1, FS_Interval
    <3>2. FirstBuys(tape) \in SUBSET 1..Len(tape)
      BY <2>1 DEF FirstBuys
    <3>3. QED BY <3>1, <3>2, FS_Subset
  <2>3. IsFiniteSet({f[j] : j \in FirstBuys(tape)})
    BY <2>2, FiniteImage
  <2>4. {f[j] : j \in FirstBuys(tape)} = trials[p]
    BY DEF RunupTrials
  <2>5. QED BY <2>3, <2>4
<1>3. RunupBook(c, s) = UNION {trials[p] : p \in pools}
  BY RunupPools
<1>4. DOMAIN trials = pools
  OBVIOUS
<1> HIDE DEF trials, pools
<1>5. IsFiniteSet({trials[p] : p \in pools})
  BY <1>1, <1>4, FiniteImage
<1>6. \A T \in {trials[p] : p \in pools} : IsFiniteSet(T)
  BY <1>2
<1>7. QED BY <1>3, <1>5, <1>6, FS_UNION

\* The estimate of a tape's depth.
LEMMA DepthIsNat ==
  ASSUME NEW tape, NEW n \in Nat, NEW k \in 1..n,
         \A j \in 1..n : tape[j].quote \in Nat /\ tape[j].root \in Nat
  PROVE  Depth(tape, k) \in Nat
<1> DEFINE telling == {j \in 2..k : Telling(tape[j - 1], tape[j])}
           kept == {j \in telling : Cardinality({h \in telling : h > j}) < 8 * MinPerHalf}
           sample == [j \in kept |-> ImpliedReserve(tape[j - 1], tape[j])]
<1>1. Depth(tape, k) = IF kept = {} THEN NoDepth ELSE Median(sample)
  BY DEF Depth, DepthAt
<1>2. ASSUME NEW j \in kept PROVE ImpliedReserve(tape[j - 1], tape[j]) \in Nat
  <2>1. j \in 1..n /\ j - 1 \in 1..n /\ Telling(tape[j - 1], tape[j])
    OBVIOUS
  <2> DEFINE q == tape[j].quote
             r == tape[j].root
             r0 == tape[j - 1].root
  <2>2. q \in Nat /\ r \in Nat /\ r0 \in Nat
    BY <2>1
  <2>3. (tape[j].side = "buy" /\ r > r0) \/ (tape[j].side = "sell" /\ r < r0)
    BY <2>1 DEF Telling
  <2>4. ImpliedReserve(tape[j - 1], tape[j]) =
          IF tape[j].side = "buy" THEN (Scale * q * r0) \div (r - r0)
                                  ELSE (Scale * q * r) \div (r0 - r)
    BY DEF ImpliedReserve
  <2> HIDE DEF q, r, r0
  <2>5. Scale * q * r0 \in Nat /\ Scale * q * r \in Nat
    BY <2>2, ExecutionAssumption
  <2>6. CASE tape[j].side = "buy"
    <3>1. r - r0 \in Nat \ {0}
      BY <2>2, <2>3, <2>6
    <3>2. QED BY <2>4, <2>5, <2>6, <3>1, Quotient
  <2>7. CASE tape[j].side # "buy"
    <3>1. r0 - r \in Nat \ {0}
      BY <2>2, <2>3, <2>7
    <3>2. QED BY <2>4, <2>5, <2>7, <3>1, Quotient
  <2>8. QED BY <2>6, <2>7
<1>3. IsFiniteSet(kept)
  <2>1. IsFiniteSet(2..k)
    BY FS_Interval
  <2>2. kept \in SUBSET (2..k)
    OBVIOUS
  <2> HIDE DEF kept
  <2>3. QED BY <2>1, <2>2, FS_Subset
<1> HIDE DEF kept
<1>4. DOMAIN sample = kept /\ \A j \in kept : sample[j] \in Nat
  BY <1>2
<1> HIDE DEF sample
<1>5. kept # {} => Median(sample) \in Nat
  BY <1>3, <1>4, MedianIsNat
<1>6. QED BY <1>1, <1>5 DEF NoDepth

LEMMA StoredUsable ==
  ASSUME StoreInv, NEW p, NEW k \in 1..Len(PoolTape(swaps, p))
  PROVE  /\ PoolTape(swaps, p)[k].usd \in Nat \ {0} /\ PoolTape(swaps, p)[k].root \in Nat \ {0}
         /\ PoolTape(swaps, p)[k].quote \in Nat /\ PoolTape(swaps, p)[k].pool = p
         /\ p \in PoolsOf(Launches, Trades)
<1> DEFINE x == PoolTape(swaps, p)[k]
<1>1. x \in OnPool(swaps, p) /\ x \in Trades
  BY StoredTape
<1> HIDE DEF x
<1>2. {x.root, x.usd, x.quote} \subseteq Nat /\ x.root > 0 /\ x.usd > 0 /\ x.pool = p
  BY <1>1, HistoryAssumption DEF OnPool, Valued
<1>3. x \in Valued(Trades)
  BY <1>1, <1>2 DEF Valued
<1>4. p \in PoolsOf(Launches, Trades)
  BY <1>2, <1>3 DEF PoolsOf
<1>5. QED BY <1>2, <1>4 DEF x

LEMMA DecisionTyped ==
  ASSUME StoreInv, NEW p, NEW k \in 1..Len(PoolTape(swaps, p)), NEW f
  PROVE  /\ Decision(f, PoolTape(swaps, p), 1, k, Book).value \in Int
         /\ Decision(f, PoolTape(swaps, p), 1, k, Book).blocked \in BOOLEAN
<1> DEFINE tape == PoolTape(swaps, p)
           tail == {tape[j] : j \in 1..k}
           t == KnowableAt(tape[k])
           d == Decision(f, tape, 1, k, Book)
<1>1. Usable(tail)
  <2>1. Len(tape) \in Nat
    BY StoredTape
  <2>2. IsFiniteSet(tail)
    <3> DEFINE g == [j \in 1..k |-> tape[j]]
    <3>1. IsFiniteSet(1..k)
      BY <2>1, FS_Interval
    <3>2. IsFiniteSet({g[j] : j \in 1..k})
      BY <3>1, FiniteImage
    <3>3. {g[j] : j \in 1..k} = tail
      OBVIOUS
    <3>4. QED BY <3>2, <3>3
  <2>3. \A j \in 1..k : j \in 1..Len(tape)
    BY <2>1
  <2>4. QED BY <2>2, <2>3, StoredUsable DEF Usable
<1>2. IsFiniteSet(Book)
  <2>1. swaps \in SUBSET Trades
    BY DEF StoreInv, Happened
  <2>2. QED BY <2>1, BookFinite, FS_EmptySet DEF Book
<1> HIDE DEF tail
<1>3. Signal(f, tail, t, Book).value \in Int
  BY <1>1, <1>2, DerivativeIsInt, AttributionIsInt DEF Signal
<1>4. RugBlocked(tail, t, tape[k]) \in BOOLEAN
  BY DEF RugBlocked
<1>5. d.value = Signal(f, tail, t, Book).value /\ d.blocked = RugBlocked(tail, t, tape[k])
  BY DEF Decision, tail
<1>6. QED BY <1>3, <1>4, <1>5

LEMMA EarnedIsInt ==
  ASSUME StoreInv, NEW x, Recorded(x), Earned(x)
  PROVE  x.net \in Int
<1> DEFINE tape == PoolTape(swaps, x.pool)
           n == Len(tape)
           entry == LastKnown(tape, x.ts)
           out == tape[x.at].et + Horizon
           exit == LastDated(tape, out)
           S == {k \in DOMAIN tape : KnowableAt(tape[k]) <= x.ts}
           T == {k \in DOMAIN tape : tape[k].et <= out}
           paid == {k \in DOMAIN tape : tape[k].quote > 0}
           rates == [k \in paid |-> tape[k].usd \div tape[k].quote]
<1>1. /\ n \in Nat /\ DOMAIN tape = 1..n
      /\ \A k \in 1..n : tape[k].et \in Nat /\ KnowableAt(tape[k]) \in Nat
  BY StoredTape
<1>2. \A k \in 1..n : /\ tape[k].usd \in Nat \ {0} /\ tape[k].root \in Nat \ {0}
                      /\ tape[k].quote \in Nat
  BY StoredUsable
<1>3. /\ ~TooThin(tape) /\ x.at \in 1..n /\ x.ts = KnowableAt(tape[x.at])
      /\ x.net = NetOf(tape, SizeQuote(tape), entry, exit)
  BY DEF Recorded, Earned
<1>4. entry \in 1..n
  <2>1. entry = Max(S) /\ S \in SUBSET 1..n /\ x.at \in S
    BY <1>1, <1>3 DEF LastKnown
  <2> HIDE DEF entry, S, tape, n
  <2>2. QED BY <1>1, <2>1, PlaceOrder
<1>5. exit \in 1..n
  <2>1. exit = Max(T) /\ T \in SUBSET 1..n
    BY <1>1 DEF LastDated
  <2>2. x.at \in T
    BY <1>1, <1>3, ProfilerAssumption
  <2> HIDE DEF exit, T, tape, n
  <2>3. QED BY <1>1, <2>1, <2>2, PlaceOrder
<1>6. SolUsd(tape) \in Nat \ {0}
  <2>1. SolUsd(tape) = IF paid = {} THEN 0 ELSE Median(rates)
    BY DEF SolUsd
  <2>2. IsFiniteSet(paid)
    <3>1. IsFiniteSet(1..n) /\ paid \in SUBSET 1..n
      BY <1>1, FS_Interval
    <3> HIDE DEF paid, n
    <3>2. QED BY <3>1, FS_Subset
  <2>3. ASSUME NEW k \in paid PROVE tape[k].usd \div tape[k].quote \in Nat
    <3>1. tape[k].usd \in Nat /\ tape[k].quote \in Nat \ {0}
      BY <1>1, <1>2
    <3> DEFINE a == tape[k].usd
               b == tape[k].quote
    <3> HIDE DEF a, b
    <3>2. a \in Nat /\ b \in Nat \ {0} => a \div b \in Nat
      BY Quotient
    <3>3. QED BY <3>1, <3>2 DEF a, b
  <2> HIDE DEF paid
  <2>4. DOMAIN rates = paid /\ \A k \in paid : rates[k] \in Nat
    BY <2>3
  <2> HIDE DEF rates
  <2>5. paid # {} => Median(rates) \in Nat
    BY <2>2, <2>4, MedianIsNat
  <2>6. SolUsd(tape) \in Nat
    BY <2>1, <2>5
  <2>7. ~(SolUsd(tape) <= 0)
    BY <1>3 DEF TooThin
  <2>8. QED BY <2>6, <2>7
<1>7. SizeQuote(tape) \in Nat
  <2>1. Scale * PositionUsd \in Nat
    BY ExecutionAssumption, ProfilerAssumption
  <2>2. QED BY <1>6, <2>1, Quotient DEF SizeQuote
<1>8. Depth(tape, entry) \in Nat /\ Depth(tape, exit) \in Nat
  BY <1>1, <1>2, <1>4, <1>5, DepthIsNat
<1>9. Price(tape[entry]) \in Nat \ {0} /\ Price(tape[exit]) \in Nat \ {0}
  <2>1. \A r \in Nat \ {0} : r * r \in Nat \ {0}
    OBVIOUS
  <2>2. QED BY <1>2, <1>4, <1>5, <2>1 DEF Price, Square
<1> HIDE DEF tape, entry, exit
<1>10. NetOf(tape, SizeQuote(tape), entry, exit) \in Int
  BY <1>7, <1>8, <1>9, NetReturnIsInt DEF NetOf
<1>11. QED BY <1>3, <1>10

\* The pools of the walk are the store's, and its mode one of two.
PoolInv ==
  /\ field \in {"score", "attr_score"}
  /\ todo \subseteq PoolsOf(Launches, Trades)
  /\ pool \in PoolsOf(Launches, Trades) \cup {NoPool}

LEMMA PoolInvNext ==
  ASSUME StoreInv, PoolInv, [Next]_vars
  PROVE  PoolInv'
<1> USE DEF PoolInv
<1>1. ASSUME UNCHANGED walkVars PROVE PoolInv'
  BY <1>1 DEF walkVars
<1>2. ASSUME NEW f \in {"score", "attr_score"}, StartProfile(f) PROVE PoolInv'
  <2>1. todo' \subseteq PoolsOf(created, swaps) /\ field' = f /\ pool' = pool
    BY <1>2 DEF StartProfile, LoadPools
  <2>2. PoolsOf(created, swaps) \subseteq PoolsOf(Launches, Trades)
    BY DEF StoreInv, Happened, PoolsOf, Valued
  <2>3. QED BY <2>1, <2>2
<1>3. ASSUME NEW p \in todo, BeginPool(p) PROVE PoolInv'
  BY <1>3 DEF BeginPool
<1>4. CASE Pass \/ Censor \/ Score \/ EndPool
  BY <1>4 DEF Pass, Censor, Score, EndPool
<1>5. CASE Finish
  BY <1>5 DEF Finish
<1>6. QED BY <1>1, <1>2, <1>3, <1>4, <1>5 DEF Next, vars

\* The profiler's state is what it should be: in particular every signal and
\* every return is a number, whatever the history (TypeOK).
THEOREM ProfileTypes == Spec => []TypeOK
<1>1. StoreInv /\ WalkInv /\ FireInv /\ PoolInv => TypeOK
  <2> SUFFICES ASSUME StoreInv, WalkInv, FireInv, PoolInv PROVE TypeOK
    OBVIOUS
  <2>1. ASSUME NEW x \in Fires
        PROVE  /\ x.pool \in PoolsOf(Launches, Trades) /\ x.at \in Nat \ {0}
               /\ x.ts \in Nat /\ x.value \in Int /\ x.blocked \in BOOLEAN
    <3>1. Recorded(x) /\ x.ts \in Nat
      BY DEF FireInv, WalkInv
    <3>2. x.at \in 1..Len(PoolTape(swaps, x.pool)) /\ x.at \in Nat \ {0}
      BY <3>1, StoredTape DEF Recorded
    <3>3. QED BY <3>1, <3>2, StoredUsable, DecisionTyped DEF Recorded
  <2>2. ASSUME NEW x \in Fires PROVE x.net \in Int
    BY EarnedIsInt DEF FireInv, Fires
  <2>3. LaunchTypeOK /\ i \in Nat \ {0} /\ lo \in Nat \ {0} /\ nextAllowed \in Nat
    BY DEF StoreInv, WalkInv, FireInv
  <2>4. QED BY <2>1, <2>2, <2>3 DEF TypeOK, PoolInv
<1>2. Init => PoolInv
  BY DEF Init, WalkInit, PoolInv
<1>3. StoreInv /\ PoolInv /\ [Next]_vars => PoolInv'
  BY PoolInvNext
<1>4. QED BY <1>1, <1>2, <1>3, WalkInvHolds, PTL DEF Spec

-----------------------------------------------------------------------------
(* Late rows: graduations and the cohort *)

\* The line of a mint, and that it has graduated.
OfMint(c, mint) == {l \in c : l.mint = mint}
Graduated(line) == Curves(line) # {} /\ Graduates(line) # {}
Mints == {l.mint : l \in Launches}

LEMMA LineFacts ==
  ASSUME NEW c \in SUBSET Launches, NEW mint
  PROVE  Sortable(OfMint(c, mint)) /\ CreationsOf(c, mint) = Tape(OfMint(c, mint))
<1>1. OfMint(c, mint) \subseteq Launches
  BY DEF OfMint
<1>2. QED BY <1>1, HistorySortable, SubsetSortable DEF CreationsOf, OfMint

\* A line with a curve pool is of a mint that was launched.
LEMMA LinesOfMints ==
  ASSUME NEW c \in SUBSET Launches
  PROVE  /\ {l \in {CreationsOf(c, m) : m \in {x.mint : x \in c}} : Curves(l) # {}}
              = {l \in {CreationsOf(c, m) : m \in Mints} : Curves(l) # {}}
         /\ \A g : g \in Graduations(c) <=>
              \E m \in Mints : Graduated(CreationsOf(c, m)) /\ g = GraduationOf(CreationsOf(c, m))
<1>1. {x.mint : x \in c} \subseteq Mints
  BY DEF Mints
<1>2. ASSUME NEW m \in Mints, Curves(CreationsOf(c, m)) # {} PROVE m \in {x.mint : x \in c}
  <2>1. PICK k \in DOMAIN CreationsOf(c, m) : TRUE
    BY <1>2 DEF Curves
  <2>2. CreationsOf(c, m)[k] \in OfMint(c, m)
    BY <2>1, LineFacts, TapeFacts
  <2>3. QED BY <2>2 DEF OfMint
<1>3. QED BY <1>1, <1>2 DEF Graduations, Graduated

LEMMA LineReplayed ==
  ASSUME NEW c \in SUBSET Launches, NEW mint, NEW t \in Int
  PROVE  Replayed(CreationsOf(Knowable(c, t), mint), CreationsOf(c, mint), t)
<1>1. OfMint(Knowable(c, t), mint) = Knowable(OfMint(c, mint), t)
  BY DEF OfMint, Knowable
<1>2. Knowable(c, t) \in SUBSET Launches
  BY DEF Knowable
<1>3. CreationsOf(Knowable(c, t), mint) = Tape(Knowable(OfMint(c, mint), t))
  BY <1>1, <1>2, LineFacts
<1>4. QED BY <1>3, LineFacts, TapeReplayed

\* A mint's graduation is known when its first AMM pool is.
LEMMA GraduationReplayed ==
  ASSUME NEW early, NEW line, NEW t \in Int, Replayed(early, line, t)
  PROVE  /\ Curves(early) = Curves(line) \cap 1..Len(early)
         /\ Graduated(early) <=> Graduated(line) /\ GraduationOf(line).knowable <= t
         /\ Graduated(early) => GraduationOf(early) = GraduationOf(line)
<1> DEFINE n == Len(line)
           m == Len(early)
           bc == Min(Curves(line))
           amm == Min(Graduates(line))
<1>1. /\ n \in Nat /\ m \in 0..n /\ DOMAIN line = 1..n /\ DOMAIN early = 1..m
      /\ \A k \in 1..m : early[k] = line[k] /\ k \in 1..n
      /\ \A k \in 1..n : line[k].et \in Nat /\ (k <= m <=> KnowableAt(line[k]) <= t)
      /\ \A k \in 1..n : KnowableAt(line[k]) = line[k].et + Latency
      /\ Latency \in Nat
  <2>1. /\ n \in Nat /\ m \in 0..n /\ DOMAIN line = 1..n /\ DOMAIN early = 1..m
        /\ \A k \in 1..m : early[k] = line[k]
        /\ \A k \in 1..n : line[k].et \in Nat /\ (k <= m <=> KnowableAt(line[k]) <= t)
    BY DEF Replayed
  <2> HIDE DEF m, n
  <2>2. \A k \in 1..m : k \in 1..n
    BY <2>1
  <2>3. Latency \in Nat /\ \A k \in 1..n : KnowableAt(line[k]) = line[k].et + Latency
    BY LaunchStoreAssumption DEF KnowableAt
  <2>4. QED BY <2>1, <2>2, <2>3
<1>2. Curves(early) = Curves(line) \cap 1..m /\ Curves(line) \subseteq 1..n
  BY <1>1 DEF Curves
<1>3. Graduates(line) \subseteq 1..n
  BY <1>1 DEF Graduates
<1>4. ASSUME Curves(line) # {} PROVE bc \in Curves(line) /\ \A k \in Curves(line) : bc <= k
  <2> HIDE DEF bc, n
  <2>1. QED BY <1>1, <1>2, <1>4, PlaceOrder DEF bc
<1>5. ASSUME Graduates(line) # {} PROVE amm \in Graduates(line) /\ \A k \in Graduates(line) : amm <= k
  <2> HIDE DEF amm, n
  <2>1. QED BY <1>1, <1>3, <1>5, PlaceOrder DEF amm
<1>6. ASSUME Curves(early) # {}
      PROVE  /\ Min(Curves(early)) = bc /\ bc \in 1..m /\ Curves(line) # {}
             /\ Graduates(early) = Graduates(line) \cap 1..m
  <2>1. Curves(early) \in SUBSET 1..n
    BY <1>2
  <2>2. Min(Curves(early)) \in Curves(early) /\ \A k \in Curves(early) : Min(Curves(early)) <= k
    <3> HIDE DEF n
    <3>1. QED BY <1>1, <1>6, <2>1, PlaceOrder
  <2>3. Curves(line) # {} /\ bc \in 1..n /\ bc <= Min(Curves(early)) /\ Min(Curves(early)) \in 1..m
    BY <1>2, <1>4, <1>6, <2>2
  <2> HIDE DEF bc
  <2>4. bc \in 1..m
    BY <1>1, <2>3
  <2>5. bc \in Curves(early)
    BY <1>2, <1>4, <2>3, <2>4 DEF bc
  <2>6. Min(Curves(early)) = bc
    BY <1>1, <2>2, <2>3, <2>5
  <2>7. early[bc] = line[bc]
    BY <1>1, <2>4
  <2>8. Graduates(early) = Graduates(line) \cap 1..m
    BY <1>1, <2>6, <2>7 DEF Graduates, bc
  <2>9. QED BY <2>3, <2>4, <2>6, <2>8
<1>7. ASSUME Graduated(early)
      PROVE  /\ Graduated(line) /\ GraduationOf(line).knowable <= t
             /\ GraduationOf(early) = GraduationOf(line)
  <2>1. /\ Min(Curves(early)) = bc /\ bc \in 1..m /\ Curves(line) # {}
        /\ Graduates(early) = Graduates(line) \cap 1..m /\ Graduates(early) # {}
    BY <1>6, <1>7 DEF Graduated
  <2>2. Graduates(early) \in SUBSET 1..n /\ Graduates(line) # {}
    BY <1>3, <2>1
  <2>3. Min(Graduates(early)) \in Graduates(early)
        /\ \A k \in Graduates(early) : Min(Graduates(early)) <= k
    <3> HIDE DEF n
    <3>1. QED BY <1>1, <2>1, <2>2, PlaceOrder
  <2>4. amm \in Graduates(line) /\ \A k \in Graduates(line) : amm <= k
    BY <1>5, <2>2
  <2> HIDE DEF amm, bc
  <2>5. amm \in 1..n /\ amm <= Min(Graduates(early)) /\ Min(Graduates(early)) \in 1..m
    BY <1>3, <2>1, <2>3, <2>4
  <2>6. amm \in 1..m
    BY <1>1, <2>5
  <2>7. amm \in Graduates(early)
    BY <2>1, <2>4, <2>6
  <2>8. Min(Graduates(early)) = amm
    BY <1>1, <2>3, <2>5, <2>7
  <2>9. early[bc] = line[bc] /\ early[amm] = line[amm]
    BY <1>1, <2>1, <2>6
  <2>10. KnowableAt(line[amm]) <= t
    BY <1>1, <2>6
  <2>11. GraduationOf(early) = GraduationOf(line)
    BY <2>1, <2>8, <2>9 DEF GraduationOf, amm, bc
  <2>12. GraduationOf(line).knowable = KnowableAt(line[amm])
    BY DEF GraduationOf, amm
  <2>13. QED BY <2>1, <2>2, <2>10, <2>11, <2>12 DEF Graduated
<1>8. ASSUME Graduated(line), GraduationOf(line).knowable <= t PROVE Graduated(early)
  <2>1. bc \in Curves(line) /\ amm \in Graduates(line)
    BY <1>4, <1>5, <1>8 DEF Graduated
  <2>2. GraduationOf(line).knowable = KnowableAt(line[amm])
    BY DEF GraduationOf
  <2>3. line[amm].et >= line[bc].et
    BY <2>1 DEF Graduates
  <2> HIDE DEF amm, bc
  <2>4. amm \in 1..n /\ bc \in 1..n /\ KnowableAt(line[amm]) <= t
    BY <1>2, <1>3, <1>8, <2>1, <2>2
  <2>5. KnowableAt(line[bc]) <= t
    BY <1>1, <2>3, <2>4
  <2>6. amm \in 1..m /\ bc \in 1..m
    BY <1>1, <2>4, <2>5
  <2>7. Curves(early) # {}
    BY <1>2, <2>1, <2>6
  <2>8. QED BY <1>6, <2>1, <2>6, <2>7 DEF Graduated
<1>9. QED BY <1>2, <1>7, <1>8

LEMMA GraduationsReplayed ==
  ASSUME NEW c \in SUBSET Launches, NEW t \in Int
  PROVE  Graduations(Knowable(c, t)) = {g \in Graduations(c) : g.knowable <= t}
<1> DEFINE e == Knowable(c, t)
<1>1. e \in SUBSET Launches
  BY DEF Knowable
<1>2. \A m : Replayed(CreationsOf(e, m), CreationsOf(c, m), t)
  BY LineReplayed
<1>3. \A m : /\ Graduated(CreationsOf(e, m)) <=>
                  Graduated(CreationsOf(c, m)) /\ GraduationOf(CreationsOf(c, m)).knowable <= t
             /\ Graduated(CreationsOf(e, m)) =>
                  GraduationOf(CreationsOf(e, m)) = GraduationOf(CreationsOf(c, m))
  BY <1>2, GraduationReplayed
<1> HIDE DEF e
<1>4. \A g : g \in Graduations(e) <=>
        \E m \in Mints : Graduated(CreationsOf(e, m)) /\ g = GraduationOf(CreationsOf(e, m))
  BY <1>1, LinesOfMints
<1>5. \A g : g \in Graduations(c) <=>
        \E m \in Mints : Graduated(CreationsOf(c, m)) /\ g = GraduationOf(CreationsOf(c, m))
  BY LinesOfMints
<1>6. \A g : g \in Graduations(e) <=> g \in Graduations(c) /\ g.knowable <= t
  BY <1>3, <1>4, <1>5
<1>7. QED BY <1>6 DEF e

\* What is traded of a graduation from its own time on, and the trials in it.
Post(s, g) == Valued(PostGradSwaps(s, g))
ArcOf(s, g) == Tape(Post(s, g))
Trials(arc) == {AccumulatorTrial(arc, j) : j \in FirstBuys(arc)}
Genuine(c) == {g \in Graduations(c) : ~g.colaunch}

LEMMA ArcFacts ==
  ASSUME NEW s \in SUBSET Trades, NEW g
  PROVE  Sortable(Post(s, g)) /\ Post(s, g) \subseteq s
<1>1. Post(s, g) \subseteq s
  BY DEF Post, Valued, PostGradSwaps
<1>2. QED BY <1>1, HistorySortable, SubsetSortable

LEMMA ArcReplayed ==
  ASSUME NEW s \in SUBSET Trades, NEW g, NEW t \in Int
  PROVE  /\ Post(Knowable(s, t), g) = Knowable(Post(s, g), t)
         /\ Replayed(ArcOf(Knowable(s, t), g), ArcOf(s, g), t)
<1>1. Post(Knowable(s, t), g) = Knowable(Post(s, g), t)
  BY DEF Post, Valued, PostGradSwaps, Knowable
<1>2. QED BY <1>1, ArcFacts, TapeReplayed DEF ArcOf

\* A graduation is known at a number.
LEMMA GraduationTime ==
  ASSUME NEW c \in SUBSET Launches, NEW g \in Graduations(c)
  PROVE  g.knowable \in Nat /\ \E l \in c : g.pool = l.pool /\ g.knowable = KnowableAt(l)
<1>1. PICK m \in Mints : /\ Graduated(CreationsOf(c, m))
                          /\ g = GraduationOf(CreationsOf(c, m))
  BY LinesOfMints
<1> DEFINE line == CreationsOf(c, m)
           S == Graduates(line)
<1>2. /\ Len(line) \in Nat /\ DOMAIN line = 1..Len(line)
      /\ \A k \in 1..Len(line) : line[k] \in OfMint(c, m)
  BY LineFacts, TapeFacts
<1>3. S \in SUBSET 1..Len(line) /\ S # {}
  BY <1>1, <1>2 DEF Graduates, Graduated
<1>4. g.pool = line[Min(S)].pool /\ g.knowable = KnowableAt(line[Min(S)])
  BY <1>1 DEF GraduationOf
<1> HIDE DEF S, line
<1>5. Min(S) \in 1..Len(line)
  BY <1>2, <1>3, PlaceOrder
<1>6. line[Min(S)] \in c /\ line[Min(S)] \in Launches
  BY <1>2, <1>5 DEF OfMint
<1>7. KnowableAt(line[Min(S)]) \in Nat
  BY <1>6, HistoryAssumption, LaunchStoreAssumption DEF KnowableAt
<1>8. QED BY <1>4, <1>6, <1>7

\* A trial is of some genuine graduation's arc, when one swap makes a cohort.
LEMMA AccumulatorTrials ==
  ASSUME NEW c \in SUBSET Launches, NEW s \in SUBSET Trades
  PROVE  /\ \A a \in AccumulatorBook(c, s) : \E g \in Genuine(c) : a \in Trials(ArcOf(s, g))
         /\ MinPostGradSwaps <= 1 =>
              \A g \in Genuine(c) : Trials(ArcOf(s, g)) \subseteq AccumulatorBook(c, s)
<1>1. Cohort(c, s) = {arc \in {ArcOf(s, g) : g \in Genuine(c)} :
                        Len(arc) >= MinPostGradSwaps /\ arc # <<>>}
  BY DEF Cohort, ArcOf, Post, Genuine
<1>2. AccumulatorBook(c, s) = UNION {Trials(arc) : arc \in Cohort(c, s)}
  BY DEF AccumulatorBook, Trials
<1>3. \A a \in AccumulatorBook(c, s) : \E g \in Genuine(c) : a \in Trials(ArcOf(s, g))
  BY <1>1, <1>2
<1>4. ASSUME MinPostGradSwaps <= 1, NEW g \in Genuine(c), NEW a \in Trials(ArcOf(s, g))
      PROVE  a \in AccumulatorBook(c, s)
  <2> DEFINE arc == ArcOf(s, g)
  <2>1. Len(arc) \in Nat /\ DOMAIN arc = 1..Len(arc)
    BY ArcFacts, TapeFacts DEF ArcOf
  <2>2. PICK j \in FirstBuys(arc) : TRUE
    BY <1>4 DEF Trials
  <2>3. j \in 1..Len(arc)
    BY <2>1, <2>2 DEF FirstBuys
  <2>4. Len(arc) >= MinPostGradSwaps /\ Len(arc) # 0
    BY <1>4, <2>1, <2>3, WalletBookAssumption
  <2>5. arc # <<>>
    BY <2>4
  <2> HIDE DEF arc
  <2>6. arc \in Cohort(c, s)
    BY <1>1, <2>4, <2>5 DEF arc
  <2>7. QED BY <1>2, <1>4, <2>6 DEF arc
<1>5. QED BY <1>3, <1>4

LEMMA AccumulatorBookReplayed ==
  ASSUME NEW c \in SUBSET Launches, NEW s \in SUBSET Trades, NEW t \in Int,
         MinPostGradSwaps <= 1
  PROVE  Resolved(AccumulatorBook(c, s), t)
           = Resolved(AccumulatorBook(Knowable(c, t), Knowable(s, t)), t)
<1> DEFINE e == Knowable(c, t)
           u == Knowable(s, t)
<1>1. e \in SUBSET Launches /\ u \in SUBSET Trades
  BY DEF Knowable
<1>2. \A g : Resolved(Trials(ArcOf(s, g)), t) = Resolved(Trials(ArcOf(u, g)), t)
  BY ArcReplayed, AccumulatorReplayed DEF Trials
<1>3. \A g : g \in Genuine(e) <=> g \in Genuine(c) /\ g.knowable <= t
  BY GraduationsReplayed DEF Genuine
<1>4. ASSUME NEW g \in Genuine(c), NEW a \in Trials(ArcOf(u, g)) PROVE g.knowable <= t
  <2>1. PICK j \in FirstBuys(ArcOf(u, g)) : TRUE
    BY <1>4 DEF Trials
  <2>2. ArcOf(u, g)[j] \in Post(u, g)
    BY <1>1, <2>1, ArcFacts, TapeFacts DEF ArcOf, FirstBuys
  <2> DEFINE x == ArcOf(u, g)[j]
  <2> HIDE DEF x
  <2>3. x \in Trades /\ KnowableAt(x) >= g.knowable /\ KnowableAt(x) <= t
    BY <1>1, <2>2 DEF Post, Valued, PostGradSwaps, Knowable, x
  <2>4. KnowableAt(x) \in Nat
    BY <2>3, HistoryAssumption, LaunchStoreAssumption DEF KnowableAt
  <2>5. g.knowable \in Nat
    BY GraduationTime DEF Genuine
  <2>6. QED BY <2>3, <2>4, <2>5
<1> HIDE DEF e, u
<1>5. \A a : a \in AccumulatorBook(c, s) <=> \E g \in Genuine(c) : a \in Trials(ArcOf(s, g))
  BY AccumulatorTrials
<1>6. \A a : a \in AccumulatorBook(e, u) <=> \E g \in Genuine(e) : a \in Trials(ArcOf(u, g))
  BY <1>1, AccumulatorTrials
<1>7. \A g, a : a \in Trials(ArcOf(s, g)) /\ a.resolution <= t
                  <=> a \in Trials(ArcOf(u, g)) /\ a.resolution <= t
  BY <1>2 DEF Resolved
<1>8. \A a : a \in Resolved(AccumulatorBook(c, s), t) <=> a \in Resolved(AccumulatorBook(e, u), t)
  BY <1>3, <1>4, <1>5, <1>6, <1>7 DEF Resolved
<1>9. QED BY <1>8 DEF e, u

-----------------------------------------------------------------------------
(* Rows in order: the cohort ripens *)

LEMMA LatestFacts ==
  ASSUME NEW c \in SUBSET Launches, NEW s \in SUBSET Trades
  PROVE  /\ LatestKnowable(c, s) \in Nat
         /\ \A r \in c \cup s : KnowableAt(r) <= LatestKnowable(c, s)
         /\ \A n \in Nat : (\A r \in c \cup s : KnowableAt(r) <= n) => LatestKnowable(c, s) <= n
<1> DEFINE R == c \cup s
           f == [r \in R |-> KnowableAt(r)]
           T == {KnowableAt(r) : r \in R} \cup {0}
<1>1. \A r \in R : KnowableAt(r) \in Nat
  BY HistoryAssumption, LaunchStoreAssumption DEF KnowableAt
<1>2. IsFiniteSet(c) /\ IsFiniteSet(s)
  BY LaunchStoreAssumption, FS_Subset
<1>3. IsFiniteSet(R)
  BY <1>2, FS_Union
<1>4. IsFiniteSet({f[r] : r \in R})
  BY <1>3, FiniteImage
<1>5. {f[r] : r \in R} = {KnowableAt(r) : r \in R}
  OBVIOUS
<1>6. IsFiniteSet(T)
  BY <1>4, <1>5, FS_AddElement
<1>7. T \in SUBSET Nat /\ T # {} /\ \A r \in R : KnowableAt(r) \in T
  BY <1>1
<1>8. \A n \in Nat : (\A r \in R : KnowableAt(r) <= n) => \A x \in T : x <= n
  OBVIOUS
<1> HIDE DEF T
<1>9. Max(T) \in T /\ \A x \in T : x <= Max(T)
  BY <1>6, <1>7, IntOrder
<1>10. Max(T) = LatestKnowable(c, s)
  BY DEF LatestKnowable, T
<1>11. QED BY <1>7, <1>8, <1>9, <1>10

LEMMA GraduationsFinite ==
  ASSUME NEW c \in SUBSET Launches
  PROVE  IsFiniteSet(Graduations(c))
<1> DEFINE f == [l \in Launches |-> l.mint]
           g == [m \in Mints |-> GraduationOf(CreationsOf(c, m))]
<1>1. {f[l] : l \in Launches} = Mints
  BY DEF Mints
<1>2. IsFiniteSet(Mints)
  BY <1>1, FiniteImage, LaunchStoreAssumption
<1>3. IsFiniteSet({g[m] : m \in Mints})
  BY <1>2, FiniteImage
<1>4. Graduations(c) \subseteq {g[m] : m \in Mints}
  BY LinesOfMints
<1>5. QED BY <1>3, <1>4, FS_Subset

LEMMA CohortFinite ==
  ASSUME NEW c \in SUBSET Launches, NEW s \in SUBSET Trades
  PROVE  IsFiniteSet(Cohort(c, s)) /\ IsFiniteSet(AccumulatorBook(c, s))
<1> DEFINE f == [g \in Genuine(c) |-> ArcOf(s, g)]
           h == [arc \in Cohort(c, s) |-> Trials(arc)]
<1>1. IsFiniteSet(Genuine(c))
  BY GraduationsFinite, FS_Subset DEF Genuine
<1>2. IsFiniteSet({f[g] : g \in Genuine(c)})
  BY <1>1, FiniteImage
<1>3. Cohort(c, s) \subseteq {f[g] : g \in Genuine(c)}
  BY DEF Cohort, ArcOf, Post, Genuine
<1>4. IsFiniteSet(Cohort(c, s))
  BY <1>2, <1>3, FS_Subset
<1>5. ASSUME NEW arc \in Cohort(c, s) PROVE IsFiniteSet(Trials(arc))
  <2>1. PICK g \in Genuine(c) : arc = ArcOf(s, g)
    BY <1>3
  <2>2. Len(arc) \in Nat /\ DOMAIN arc = 1..Len(arc)
    BY <2>1, ArcFacts, TapeFacts DEF ArcOf
  <2>3. IsFiniteSet(1..Len(arc)) /\ FirstBuys(arc) \in SUBSET 1..Len(arc)
    <3>1. IsFiniteSet(1..Len(arc))
      BY <2>2, FS_Interval
    <3>2. QED BY <2>2, <3>1 DEF FirstBuys
  <2>4. IsFiniteSet(FirstBuys(arc))
    BY <2>3, FS_Subset
  <2> DEFINE e == [j \in FirstBuys(arc) |-> AccumulatorTrial(arc, j)]
  <2>5. IsFiniteSet({e[j] : j \in FirstBuys(arc)})
    BY <2>4, FiniteImage
  <2>6. {e[j] : j \in FirstBuys(arc)} = Trials(arc)
    BY DEF Trials
  <2>7. QED BY <2>5, <2>6
<1>6. IsFiniteSet({h[arc] : arc \in Cohort(c, s)})
  BY <1>4, FiniteImage
<1>7. \A T \in {h[arc] : arc \in Cohort(c, s)} : IsFiniteSet(T)
  BY <1>5
<1>8. AccumulatorBook(c, s) = UNION {h[arc] : arc \in Cohort(c, s)}
  BY DEF AccumulatorBook, Trials
<1> HIDE DEF h
<1>9. QED BY <1>4, <1>6, <1>7, <1>8, FS_UNION

\* A store, and what it was before rows arrived that were knowable later.
Older(c, s, d, u, t) ==
  /\ d \in SUBSET Launches /\ u \in SUBSET Trades /\ t \in Nat
  /\ c = Knowable(d, t) /\ s = Knowable(u, t)

LEMMA CurvesStay ==
  ASSUME NEW c, NEW s, NEW d, NEW u, NEW t, Older(c, s, d, u, t)
  PROVE  Census(c, s).bcOrigin <= Census(d, u).bcOrigin
<1> DEFINE origin(e) == {l \in {CreationsOf(e, m) : m \in Mints} : Curves(l) # {}}
           f == [l \in origin(c) |-> CreationsOf(d, l[1].mint)]
<1>1. c \in SUBSET Launches /\ d \in SUBSET Launches /\ t \in Int
  BY DEF Older, Knowable
<1>2. \A e \in SUBSET Launches : \A x : Census(e, x).bcOrigin = Cardinality(origin(e))
  <2>1. SUFFICES ASSUME NEW e \in SUBSET Launches, NEW x
                 PROVE  Census(e, x).bcOrigin = Cardinality(origin(e))
    OBVIOUS
  <2>2. origin(e) = {l \in {CreationsOf(e, m) : m \in {y.mint : y \in e}} : Curves(l) # {}}
    BY LinesOfMints
  <2> HIDE DEF origin
  <2>3. QED BY <2>2 DEF Census
<1>3. ASSUME NEW l \in origin(c)
      PROVE  l[1].mint \in Mints /\ l = CreationsOf(c, l[1].mint)
             /\ f[l] \in origin(d) /\ f[l][1].mint = l[1].mint
  <2>1. PICK m \in Mints : l = CreationsOf(c, m) /\ Curves(l) # {}
    OBVIOUS
  <2> DEFINE line == CreationsOf(d, m)
  <2>2. Replayed(l, line, t)
    BY <1>1, <2>1, LineReplayed DEF Older
  <2>3. Curves(l) = Curves(line) \cap 1..Len(l)
    BY <1>1, <2>2, GraduationReplayed
  <2>4. 1 \in 1..Len(l) /\ 1 \in 1..Len(line) /\ Curves(line) # {}
    BY <2>1, <2>2, <2>3 DEF Replayed
  <2>5. \A e \in SUBSET Launches : \A k \in 1..Len(CreationsOf(e, m)) : CreationsOf(e, m)[k].mint = m
    <3>1. SUFFICES ASSUME NEW e \in SUBSET Launches, NEW k \in 1..Len(CreationsOf(e, m))
                   PROVE  CreationsOf(e, m)[k].mint = m
      OBVIOUS
    <3>2. CreationsOf(e, m)[k] \in OfMint(e, m)
      BY LineFacts, TapeFacts
    <3>3. QED BY <3>2 DEF OfMint
  <2>6. l[1].mint = m /\ line[1].mint = m
    BY <1>1, <2>1, <2>4, <2>5
  <2>7. f[l] = line
    BY <2>6
  <2>8. line \in origin(d)
    BY <2>4
  <2>9. QED BY <2>1, <2>6, <2>7, <2>8
<1>4. \A l, o \in origin(c) : f[l] = f[o] => l = o
  <2>1. SUFFICES ASSUME NEW l \in origin(c), NEW o \in origin(c), f[l] = f[o] PROVE l = o
    OBVIOUS
  <2>2. f[l][1].mint = l[1].mint /\ f[o][1].mint = o[1].mint
    BY <1>3
  <2>3. l = CreationsOf(c, l[1].mint) /\ o = CreationsOf(c, o[1].mint)
    BY <1>3
  <2> HIDE DEF origin, f
  <2>4. QED BY <2>1, <2>2, <2>3
<1>5. f \in [origin(c) -> origin(d)]
  BY <1>3
<1>6. IsFiniteSet(origin(d))
  <2> DEFINE h == [m \in Mints |-> CreationsOf(d, m)]
             g == [l \in Launches |-> l.mint]
  <2>1. {g[l] : l \in Launches} = Mints
    BY DEF Mints
  <2>2. IsFiniteSet(Mints)
    BY <2>1, FiniteImage, LaunchStoreAssumption
  <2>3. IsFiniteSet({h[m] : m \in Mints})
    BY <2>2, FiniteImage
  <2>4. origin(d) \subseteq {h[m] : m \in Mints}
    OBVIOUS
  <2> HIDE DEF origin, h
  <2>5. QED BY <2>3, <2>4, FS_Subset
<1> HIDE DEF origin, f
<1>7. Cardinality(origin(c)) <= Cardinality(origin(d))
  BY <1>4, <1>5, <1>6, CountWithin
<1>8. QED BY <1>1, <1>2, <1>7

LEMMA GraduationsStay ==
  ASSUME NEW c, NEW s, NEW d, NEW u, NEW t, Older(c, s, d, u, t)
  PROVE  /\ Genuine(c) \subseteq Genuine(d)
         /\ \A stage \in {"graduated", "genuine", "covered"} :
              Census(c, s)[stage] <= Census(d, u)[stage]
<1> DEFINE covered(e, x) == {g \in Genuine(e) : PostGradSwaps(x, g) # {}}
<1>1. c \in SUBSET Launches /\ d \in SUBSET Launches /\ t \in Int /\ c = Knowable(d, t) /\ s \subseteq u
  BY DEF Older, Knowable
<1>2. Graduations(c) \subseteq Graduations(d)
  BY <1>1, GraduationsReplayed
<1>3. Genuine(c) \subseteq Genuine(d)
  BY <1>2 DEF Genuine
<1>4. covered(c, s) \subseteq covered(d, u)
  BY <1>1, <1>3 DEF PostGradSwaps
<1>5. IsFiniteSet(Graduations(d)) /\ IsFiniteSet(Genuine(d)) /\ IsFiniteSet(covered(d, u))
  BY <1>1, GraduationsFinite, FS_Subset DEF Genuine
<1>6. \A e, x : /\ Census(e, x).graduated = Cardinality(Graduations(e))
                /\ Census(e, x).genuine = Cardinality(Genuine(e))
                /\ Census(e, x).covered = Cardinality(covered(e, x))
  BY DEF Census, Genuine
<1> HIDE DEF covered
<1>7. /\ Cardinality(Graduations(c)) <= Cardinality(Graduations(d))
      /\ Cardinality(Genuine(c)) <= Cardinality(Genuine(d))
      /\ Cardinality(covered(c, s)) <= Cardinality(covered(d, u))
  BY <1>2, <1>3, <1>4, <1>5, FS_Subset
<1>8. /\ Census(c, s).graduated <= Census(d, u).graduated
      /\ Census(c, s).genuine <= Census(d, u).genuine
      /\ Census(c, s).covered <= Census(d, u).covered
  BY <1>6, <1>7
<1>9. QED BY <1>3, <1>8

\* An arc only gets longer, and two that differ go on differing.
LEMMA ArcsStay ==
  ASSUME NEW c, NEW s, NEW d, NEW u, NEW t, Older(c, s, d, u, t)
  PROVE  Cardinality(Cohort(c, s)) <= Cardinality(Cohort(d, u))
<1> DEFINE of(arc) == CHOOSE g \in Genuine(c) : arc = ArcOf(s, g)
           f == [arc \in Cohort(c, s) |-> ArcOf(u, of(arc))]
<1>1. /\ c \in SUBSET Launches /\ d \in SUBSET Launches /\ t \in Int
      /\ s \in SUBSET Trades /\ u \in SUBSET Trades /\ s = Knowable(u, t)
  BY DEF Older, Knowable
<1>2. \A e, x : Cohort(e, x) = {arc \in {ArcOf(x, g) : g \in Genuine(e)} :
                                 Len(arc) >= MinPostGradSwaps /\ arc # <<>>}
  BY DEF Cohort, ArcOf, Post, Genuine
<1>3. ASSUME NEW arc \in Cohort(c, s)
      PROVE  of(arc) \in Genuine(c) /\ arc = ArcOf(s, of(arc)) /\ f[arc] \in Cohort(d, u)
  <2>1. \E g \in Genuine(c) : arc = ArcOf(s, g)
    BY <1>2
  <2>2. of(arc) \in Genuine(c) /\ arc = ArcOf(s, of(arc))
    BY <2>1
  <2>3. f[arc] = ArcOf(u, of(arc))
    OBVIOUS
  <2> DEFINE g == of(arc)
             big == ArcOf(u, g)
  <2> HIDE DEF g, of, f
  <2>4. Replayed(arc, big, t)
    BY <1>1, <2>2, ArcReplayed DEF g
  <2>5. Len(arc) \in Nat /\ Len(big) \in Nat /\ Len(arc) <= Len(big) /\ DOMAIN arc = 1..Len(arc)
    BY <2>4 DEF Replayed
  <2>6. Len(arc) >= MinPostGradSwaps /\ arc # <<>>
    BY <1>2
  <2>7. Len(arc) # 0
    <3>1. arc \in Seq(Trades)
      <4>1. arc = Tape(Post(s, g)) /\ Sortable(Post(s, g)) /\ Post(s, g) \subseteq Trades
        BY <1>1, <2>2, ArcFacts DEF ArcOf, g
      <4>2. Tape(Post(s, g)) \in [1..Cardinality(Post(s, g)) -> Post(s, g)]
            /\ Cardinality(Post(s, g)) \in Nat
        BY <4>1, TapeHolds
      <4>3. QED BY <4>1, <4>2
    <3>2. QED BY <2>6, <3>1, EmptySeq
  <2>8. Len(big) >= MinPostGradSwaps /\ Len(big) # 0
    BY <2>5, <2>6, <2>7, WalletBookAssumption
  <2>9. big # <<>>
    BY <2>8
  <2>10. g \in Genuine(d)
    BY <2>2, GraduationsStay DEF g
  <2> HIDE DEF big
  <2>11. big \in Cohort(d, u)
    BY <1>2, <2>8, <2>9, <2>10 DEF big
  <2>12. QED BY <2>2, <2>3, <2>11 DEF big, g
<1> HIDE DEF of
<1>4. ASSUME NEW a \in Cohort(c, s), NEW b \in Cohort(c, s), f[a] = f[b] PROVE a = b
  <2> DEFINE g == of(a)
             h == of(b)
  <2>1. ArcOf(u, g) = ArcOf(u, h)
    BY <1>4
  <2>2. \A x : Sortable(Post(u, x)) /\ ArcOf(u, x) = Tape(Post(u, x))
    BY <1>1, ArcFacts DEF ArcOf
  <2>3. \A x : Post(u, x) = {ArcOf(u, x)[k] : k \in 1..Len(ArcOf(u, x))}
    BY <2>2, TapeFacts
  <2>4. Post(u, g) = Post(u, h)
    <3> HIDE DEF g, h
    <3>1. QED BY <2>1, <2>3
  <2>5. Post(s, g) = Post(s, h)
    BY <1>1, <2>4, ArcReplayed
  <2>6. QED BY <1>3, <2>5 DEF ArcOf
<1>5. f \in [Cohort(c, s) -> Cohort(d, u)]
  BY <1>3
<1>6. IsFiniteSet(Cohort(d, u))
  BY <1>1, CohortFinite
<1> HIDE DEF f
<1>7. QED BY <1>4, <1>5, <1>6, CountWithin

LEMMA WalletsStay ==
  ASSUME NEW c, NEW s, NEW d, NEW u, NEW t, Older(c, s, d, u, t), MinPostGradSwaps <= 1
  PROVE  {a.wallet : a \in AccumulatorBook(c, s)} \subseteq {a.wallet : a \in AccumulatorBook(d, u)}
<1>1. /\ c \in SUBSET Launches /\ d \in SUBSET Launches /\ t \in Int
      /\ s \in SUBSET Trades /\ u \in SUBSET Trades /\ s = Knowable(u, t)
  BY DEF Older, Knowable
<1>2. SUFFICES ASSUME NEW a \in AccumulatorBook(c, s)
               PROVE  \E b \in AccumulatorBook(d, u) : b.wallet = a.wallet
  OBVIOUS
<1>3. PICK g \in Genuine(c) : a \in Trials(ArcOf(s, g))
  BY <1>1, AccumulatorTrials
<1> DEFINE arc == ArcOf(s, g)
           big == ArcOf(u, g)
<1>4. PICK j \in FirstBuys(arc) : a = AccumulatorTrial(arc, j)
  BY <1>3 DEF Trials
<1>5. Replayed(arc, big, t)
  BY <1>1, ArcReplayed
<1>6. j \in FirstBuys(big) /\ arc[j] = big[j]
  <2>1. j \in FirstBuys(big) /\ j \in 1..Len(arc)
    BY <1>1, <1>4, <1>5, FirstBuysReplayed
  <2>2. QED BY <1>5, <2>1 DEF Replayed
<1>7. g \in Genuine(d)
  BY GraduationsStay
<1>8. AccumulatorTrial(big, j) \in AccumulatorBook(d, u)
  BY <1>1, <1>6, <1>7, AccumulatorTrials DEF Trials
<1>9. AccumulatorTrial(big, j).wallet = a.wallet
  BY <1>4, <1>6 DEF AccumulatorTrial
<1>10. QED BY <1>8, <1>9

LEMMA StatsRipen ==
  ASSUME NEW c, NEW s, NEW d, NEW u, Older(c, s, d, u, LatestKnowable(c, s)), MinPostGradSwaps <= 1
  PROVE  /\ BookStats(c, s).scorable \subseteq BookStats(d, u).scorable
         /\ BookStats(c, s).cohort <= BookStats(d, u).cohort
         /\ BookStats(c, s).resolved <= BookStats(d, u).resolved
         /\ BookStats(c, s).successes <= BookStats(d, u).successes
<1> DEFINE t == LatestKnowable(c, s)
           v == LatestKnowable(d, u)
           due(e, x) == Resolved(AccumulatorBook(e, x), LatestKnowable(e, x))
           wallets(e, x) == {a.wallet : a \in AccumulatorBook(e, x)}
           own(D, w) == {a \in D : a.wallet = w}
<1>1. /\ c \in SUBSET Launches /\ d \in SUBSET Launches /\ c \subseteq d /\ c = Knowable(d, t)
      /\ s \in SUBSET Trades /\ u \in SUBSET Trades /\ s \subseteq u /\ s = Knowable(u, t)
  BY DEF Older, Knowable
<1>2. t \in Nat /\ v \in Nat /\ t <= v
  <2>1. t \in Nat /\ v \in Nat /\ \A r \in d \cup u : KnowableAt(r) <= v
    BY <1>1, LatestFacts
  <2>2. \A r \in c \cup s : KnowableAt(r) <= v
    BY <1>1, <2>1
  <2> HIDE DEF t, v
  <2>3. t <= v
    BY <1>1, <2>1, <2>2, LatestFacts DEF t
  <2>4. QED BY <2>1, <2>3
<1>3. due(c, s) \subseteq due(d, u)
  <2>1. due(c, s) = Resolved(AccumulatorBook(d, u), t)
    BY <1>1, <1>2, AccumulatorBookReplayed
  <2>2. \A a \in AccumulatorBook(d, u) : a.resolution \in Int
    <3>1. SUFFICES ASSUME NEW a \in AccumulatorBook(d, u) PROVE a.resolution \in Int
      OBVIOUS
    <3>2. PICK g \in Genuine(d) : a \in Trials(ArcOf(u, g))
      BY <1>1, AccumulatorTrials
    <3>3. PICK j \in FirstBuys(ArcOf(u, g)) : a = AccumulatorTrial(ArcOf(u, g), j)
      BY <3>2 DEF Trials
    <3>4. ArcOf(u, g)[j] \in Trades
      <4>1. Sortable(Post(u, g)) /\ Post(u, g) \subseteq Trades
        BY <1>1, ArcFacts
      <4>2. j \in DOMAIN Tape(Post(u, g))
        BY <3>3 DEF FirstBuys, ArcOf
      <4>3. QED BY <4>1, <4>2, TapeFacts DEF ArcOf
    <3>5. a.resolution = KnowableAt(ArcOf(u, g)[j]) + HoldWindow
      BY <3>3 DEF AccumulatorTrial
    <3>6. QED BY <3>4, <3>5, HistoryAssumption, LaunchStoreAssumption, WalletBookAssumption DEF KnowableAt
  <2> HIDE DEF t, v
  <2>3. Resolved(AccumulatorBook(d, u), t) \subseteq Resolved(AccumulatorBook(d, u), v)
    BY <1>2, <2>2 DEF Resolved
  <2>4. QED BY <2>1, <2>3 DEF v
<1>4. \A e \in SUBSET Launches, x \in SUBSET Trades : IsFiniteSet(due(e, x))
  BY CohortFinite, FS_Subset DEF Resolved
<1>5. \A e, x :
        /\ BookStats(e, x).cohort = Cardinality(Cohort(e, x))
        /\ BookStats(e, x).resolved = Cardinality(due(e, x))
        /\ BookStats(e, x).successes = Cardinality(Leads(due(e, x)))
        /\ BookStats(e, x).scorable
             = {w \in wallets(e, x) : Cardinality(own(due(e, x), w)) >= MinAttempts}
  BY DEF BookStats, ScoreAt
<1>6. wallets(c, s) \subseteq wallets(d, u)
  BY <1>2, WalletsStay
<1>7. Cardinality(Cohort(c, s)) <= Cardinality(Cohort(d, u))
  BY ArcsStay
<1> DEFINE D == due(c, s)
           E == due(d, u)
<1>8. IsFiniteSet(D) /\ IsFiniteSet(E) /\ D \subseteq E
  BY <1>1, <1>3, <1>4
<1> HIDE DEF due, wallets
<1>9. Cardinality(D) <= Cardinality(E)
  BY <1>8, FS_Subset
<1>10. Cardinality(Leads(D)) <= Cardinality(Leads(E))
  <2>1. Leads(D) \subseteq Leads(E) /\ Leads(E) \subseteq E
    BY <1>8 DEF Leads
  <2>2. QED BY <1>8, <2>1, FS_Subset
<1>11. \A w : Cardinality(own(D, w)) >= MinAttempts => Cardinality(own(E, w)) >= MinAttempts
  <2>1. SUFFICES ASSUME NEW w PROVE Cardinality(own(D, w)) >= MinAttempts => Cardinality(own(E, w)) >= MinAttempts
    OBVIOUS
  <2>2. own(D, w) \subseteq own(E, w) /\ own(E, w) \subseteq E /\ own(D, w) \subseteq D
    BY <1>8
  <2>3. IsFiniteSet(own(D, w)) /\ IsFiniteSet(own(E, w))
    BY <1>8, <2>2, FS_Subset
  <2> HIDE DEF own
  <2>4. /\ Cardinality(own(D, w)) \in Nat /\ Cardinality(own(E, w)) \in Nat
        /\ Cardinality(own(D, w)) <= Cardinality(own(E, w))
    BY <2>2, <2>3, FS_Subset, FS_CardinalityType
  <2>5. QED BY <2>4, WalletBookAssumption
<1>12. BookStats(c, s).scorable \subseteq BookStats(d, u).scorable
  <2> HIDE DEF own
  <2>1. QED BY <1>5, <1>6, <1>11
<1>13. QED BY <1>5, <1>7, <1>9, <1>10, <1>12

\* No step takes a row back.
LEMMA StoreGrows ==
  ASSUME StoreInv, [Next]_vars
  PROVE  created \subseteq created' /\ swaps \subseteq swaps'
<1>1. CASE Ingest
  <2>1. ASSUME NEW n, TailDies(n) PROVE created' = created /\ swaps \subseteq swaps'
    BY <2>1 DEF TailDies, Write
  <2>2. CASE TailPool
    BY <2>2 DEF TailPool, Write
  <2>3. CASE StartPoll \/ PollTick \/ StartStream \/ NextRound \/ Stop
    BY <2>3 DEF StartPoll, PollTick, StartStream, NextRound, Stop, storeVars
  <2>4. ASSUME NEW n, PollDies(n) \/ StartDies(n) PROVE created \subseteq created' /\ swaps' = swaps
    BY <2>4 DEF PollDies, StartDies
  <2>5. QED BY <1>1, <2>1, <2>2, <2>3, <2>4 DEF Ingest
<1>2. CASE UNCHANGED vars \/ Advance
  BY <1>2 DEF vars, ingestVars, storeVars, Advance
<1>3. ASSUME NEW f, StartProfile(f) PROVE UNCHANGED <<created, swaps>>
  BY <1>3 DEF StartProfile, storeVars
<1>4. ASSUME NEW p, BeginPool(p) PROVE UNCHANGED <<created, swaps>>
  BY <1>4 DEF BeginPool, ingestVars, storeVars
<1>5. CASE Pass \/ Censor \/ Score \/ EndPool \/ Finish
  BY <1>5 DEF Pass, Censor, Score, EndPool, Finish, ingestVars, storeVars
<1>6. QED BY <1>1, <1>2, <1>3, <1>4, <1>5 DEF Next

\* The past of a store that grew.
LEMMA PastStays ==
  ASSUME NEW c \in SUBSET Launches, NEW d \in SUBSET Launches, c \subseteq d,
         NEW s \in SUBSET Trades, NEW u \in SUBSET Trades, s \subseteq u, NEW k \in Nat,
         \A r \in (d \ c) \cup (u \ s) : KnowableAt(r) >= k, MinPostGradSwaps <= 1
  PROVE  /\ Resolved(RunupBook(c, s), k - 1) = Resolved(RunupBook(d, u), k - 1)
         /\ Resolved(AccumulatorBook(c, s), k - 1) = Resolved(AccumulatorBook(d, u), k - 1)
         /\ {g \in Graduations(c) : g.knowable < k} = {g \in Graduations(d) : g.knowable < k}
<1>1. k - 1 \in Int
  OBVIOUS
<1>2. \A r \in Launches \cup Trades : KnowableAt(r) \in Nat
  BY HistoryAssumption, LaunchStoreAssumption DEF KnowableAt
<1>3. Knowable(c, k - 1) = Knowable(d, k - 1) /\ Knowable(s, k - 1) = Knowable(u, k - 1)
  BY <1>2 DEF Knowable
<1>4. Resolved(RunupBook(c, s), k - 1) = Resolved(RunupBook(d, u), k - 1)
  <2>1. /\ Resolved(RunupBook(c, s), k - 1) = Resolved(RunupBook(c, Knowable(s, k - 1)), k - 1)
        /\ Resolved(RunupBook(d, u), k - 1) = Resolved(RunupBook(c, Knowable(u, k - 1)), k - 1)
    BY <1>1, RunupBookReplayed
  <2>2. QED BY <1>3, <2>1
<1>5. Resolved(AccumulatorBook(c, s), k - 1) = Resolved(AccumulatorBook(d, u), k - 1)
  BY <1>1, <1>3, AccumulatorBookReplayed
<1>6. {g \in Graduations(c) : g.knowable < k} = {g \in Graduations(d) : g.knowable < k}
  <2>1. {g \in Graduations(c) : g.knowable <= k - 1} = {g \in Graduations(d) : g.knowable <= k - 1}
    BY <1>1, <1>3, GraduationsReplayed
  <2>2. \A g \in Graduations(c) \cup Graduations(d) : g.knowable \in Nat
    BY GraduationTime
  <2>3. \A g \in Graduations(c) \cup Graduations(d) : g.knowable < k <=> g.knowable <= k - 1
    BY <2>2
  <2>4. QED BY <2>1, <2>3
<1>7. QED BY <1>4, <1>5, <1>6

\* When one swap after the graduation is enough for the cohort, as it is wherever
\* the code is called, rows that arrive late rewrite no known history and rows
\* that arrive in order only ripen it (HistoryStable).
THEOREM HistoryIsStable ==
  ASSUME MinPostGradSwaps <= 1
  PROVE  Spec => HistoryStable
<1> DEFINE k == Min({KnowableAt(r) : r \in Arrived})
           stays == /\ Resolved(RunupBook(created, swaps), k - 1)
                         = Resolved(RunupBook(created', swaps'), k - 1)
                    /\ Resolved(AccumulatorBook(created, swaps), k - 1)
                         = Resolved(AccumulatorBook(created', swaps'), k - 1)
                    /\ {g \in Graduations(created) : g.knowable < k}
                         = {g \in Graduations(created') : g.knowable < k}
           ripens == LET old == BookStats(created, swaps)
                         new == BookStats(created', swaps')
                         census == Census(created, swaps)
                         later == Census(created', swaps')
                     IN /\ old.scorable \subseteq new.scorable /\ old.cohort <= new.cohort
                        /\ old.resolved <= new.resolved /\ old.successes <= new.successes
                        /\ \A stage \in {"bcOrigin", "graduated", "genuine", "covered"} :
                             census[stage] <= later[stage]
           stable == Arrived # {} => stays /\ (k > LatestKnowable(created, swaps) => ripens)
<1>1. ASSUME StoreInv, StoreInv', [Next]_vars PROVE stable
  <2> SUFFICES ASSUME Arrived # {} PROVE stays /\ (k > LatestKnowable(created, swaps) => ripens)
    OBVIOUS
  <2>1. /\ created \subseteq created' /\ swaps \subseteq swaps'
        /\ created \in SUBSET Launches /\ created' \in SUBSET Launches
        /\ swaps \in SUBSET Trades /\ swaps' \in SUBSET Trades
    BY <1>1, StoreGrows DEF StoreInv, Happened
  <2>2. \A r \in Launches \cup Trades : KnowableAt(r) \in Nat
    BY HistoryAssumption, LaunchStoreAssumption DEF KnowableAt
  <2>3. k \in Nat /\ \A r \in Arrived : k <= KnowableAt(r)
    <3> DEFINE T == {KnowableAt(r) : r \in Arrived}
               f == [r \in Arrived |-> KnowableAt(r)]
    <3>1. Arrived \subseteq created' \cup swaps' /\ IsFiniteSet(created' \cup swaps')
      <4>1. IsFiniteSet(created') /\ IsFiniteSet(swaps')
        BY <2>1, LaunchStoreAssumption, FS_Subset
      <4>2. QED BY <4>1, FS_Union DEF Arrived
    <3>2. IsFiniteSet(Arrived)
      BY <3>1, FS_Subset
    <3>3. IsFiniteSet({f[r] : r \in Arrived}) /\ {f[r] : r \in Arrived} = T
      BY <3>2, FiniteImage
    <3>4. T \in SUBSET Nat /\ T # {} /\ \A r \in Arrived : KnowableAt(r) \in T
      BY <2>1, <2>2, <3>1
    <3> HIDE DEF T
    <3>5. Min(T) \in T /\ \A x \in T : Min(T) <= x
      BY <3>3, <3>4, IntOrder
    <3>6. k = Min(T)
      BY DEF T
    <3>7. QED BY <3>4, <3>5, <3>6
  <2> HIDE DEF k
  <2>4. stays
    <3>1. \A r \in (created' \ created) \cup (swaps' \ swaps) : KnowableAt(r) >= k
      BY <2>1, <2>2, <2>3 DEF Arrived
    <3>2. QED BY <2>1, <2>3, <3>1, PastStays
  <2>5. ASSUME k > LatestKnowable(created, swaps) PROVE ripens
    <3> DEFINE t == LatestKnowable(created, swaps)
    <3>1. t \in Nat /\ \A r \in created \cup swaps : KnowableAt(r) <= t
      BY <2>1, LatestFacts
    <3>2. t < k
      BY <2>3, <2>5, <3>1
    <3> HIDE DEF t
    <3>3. created = Knowable(created', t) /\ swaps = Knowable(swaps', t)
      BY <2>1, <2>2, <2>3, <3>1, <3>2 DEF Knowable, Arrived
    <3>4. Older(created, swaps, created', swaps', t)
      BY <2>1, <3>1, <3>3 DEF Older
    <3>5. /\ BookStats(created, swaps).scorable \subseteq BookStats(created', swaps').scorable
          /\ BookStats(created, swaps).cohort <= BookStats(created', swaps').cohort
          /\ BookStats(created, swaps).resolved <= BookStats(created', swaps').resolved
          /\ BookStats(created, swaps).successes <= BookStats(created', swaps').successes
      BY <3>4, StatsRipen DEF t
    <3>6. Census(created, swaps).bcOrigin <= Census(created', swaps').bcOrigin
      BY <3>4, CurvesStay
    <3>7. \A stage \in {"graduated", "genuine", "covered"} :
            Census(created, swaps)[stage] <= Census(created', swaps')[stage]
      BY <3>4, GraduationsStay
    <3>8. QED BY <3>5, <3>6, <3>7
  <2>6. QED BY <2>4, <2>5
<1>2. StoreInv /\ StoreInv' /\ [Next]_vars => [stable]_<<created, swaps>>
  BY <1>1
<1>3. QED BY <1>2, WalkInvHolds, PTL DEF Spec, HistoryStable
=============================================================================
