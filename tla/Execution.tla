----------------------------- MODULE Execution ------------------------------
(***************************************************************************)
(* The arithmetic the profiler, the kill gate and the cost report share:   *)
(* order statistics of a sample, the depth implied by a run of trades, and *)
(* the constant-product round trip.  Floats are integers here: fractions   *)
(* and depths count units of 1/Scale, and every division rounds down.      *)
(* A price is the square of a root, so that square roots are exact.        *)
(***************************************************************************)
EXTENDS Integers, Sequences, FiniteSets, SequencesExt

CONSTANTS
  Scale,        \* units in one: a return of 5% is Scale \div 20
  FeePercent,   \* fee of one leg, of 100
  FixedCost     \* fixed cost of one leg, in units of quote

ASSUME ExecutionAssumption ==
  Scale \in Nat \ {0} /\ FeePercent \in 0..100 /\ FixedCost \in Nat

Square(r) == r * r

\* A sample is a function, a sequence or any other, with its values.
\* The k-th smallest value of a sample, from 0.
Ranked(s, k) ==
  CHOOSE v \in ToSet(s) :
    /\ Cardinality({i \in DOMAIN s : s[i] < v}) <= k
    /\ k < Cardinality({i \in DOMAIN s : s[i] <= v})

Median(s) ==
  LET n == Cardinality(DOMAIN s)
      h == n \div 2
  IN IF n % 2 = 1 THEN Ranked(s, h) ELSE (Ranked(s, h - 1) + Ranked(s, h)) \div 2

\* The a/b quantile, interpolated between its two neighbours and rounded up: it
\* exceeds exactly the values of the sample that the unrounded one exceeds.
Quantile(s, a, b) ==
  LET n == Cardinality(DOMAIN s)
      pos == a * (n - 1)
      lo == pos \div b
      hi == IF lo + 1 < n THEN lo + 1 ELSE lo
      weighted == Ranked(s, lo) * (b - (pos % b)) + Ranked(s, hi) * (pos % b)
  IN -((-weighted) \div b)

-----------------------------------------------------------------------------
(* LiquidityEstimator *)

\* A buy must raise the price and a sell must lower it, or the move is noise.
Telling(prev, s) ==
  /\ s.quote > 0
  /\ \/ s.side = "buy" /\ s.root > prev.root
     \/ s.side = "sell" /\ s.root < prev.root

ImpliedReserve(prev, s) ==
  IF s.side = "buy" THEN (Scale * s.quote * prev.root) \div (s.root - prev.root)
                    ELSE (Scale * s.quote * s.root) \div (prev.root - s.root)

NoDepth == 0   \* quote_reserve() is None

\* The median of the reserves that the first i trades of a tape imply, of the
\* last so many.
DepthAt(tape, i, window) ==
  LET telling == {k \in 2..i : Telling(tape[k - 1], tape[k])}
      kept == {k \in telling : Cardinality({j \in telling : j > k}) < window}
  IN IF kept = {} THEN NoDepth
     ELSE Median([k \in kept |-> ImpliedReserve(tape[k - 1], tape[k])])

-----------------------------------------------------------------------------
(* ExecutionModel.round_trip *)

Degenerate(size, p0, q0, p1, q1) == \E x \in {size, p0, q0, p1, q1} : x <= 0

\* What selling everything bought brings, before the fee of the way out.
GrossOut(size, p0, q0, p1, q1) ==
  LET dq == (size * (100 - FeePercent)) \div 100
      n == q0 * p1 * dq
      d == p0 * q1 * (q0 + dq)
  IN (q1 * n) \div (d + n)

\* size and depths in the same units of quote.
NetReturn(size, p0, q0, p1, q1) ==
  IF Degenerate(size, p0, q0, p1, q1) THEN -Scale
  ELSE LET out == (GrossOut(size, p0, q0, p1, q1) * (100 - FeePercent)) \div 100
       IN (Scale * (out - size - 2 * FixedCost)) \div size
=============================================================================
