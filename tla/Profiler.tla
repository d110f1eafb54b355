------------------------------ MODULE Profiler ------------------------------
(***************************************************************************)
(* The `profile` command over the launch store (profiler/profiler.py,      *)
(* report.py, signals.py, rugfilter.py and attribution/signal.py): with    *)
(* the store open read-only it walks the tape of every pool swap by swap,  *)
(* fires whenever its signal is defined and no position of the pool is     *)
(* open, and keeps each fire as scored, or as censored when the tape ends  *)
(* before the hold does.  Thresholds are applied afterwards, by filtering. *)
(*                                                                         *)
(* Time stands still during the walk, which reads rows only.  Pools are    *)
(* walked in any order: the code's is that of a dict.                      *)
(***************************************************************************)
EXTENDS WalletBook

CONSTANTS
  Lookback,      \* SignalConfig.lookback_s: two halves
  MinPerHalf,    \* min_trades_per_half
  RugLookback, RugMinTrades,
  MaxShare,      \* of 100: max_single_wallet_buy_share
  MaxDrawdown,   \* of 100: max_drawdown_from_peak
  AttrWindow,    \* attr_window_s
  Warmup, Horizon, PositionUsd, MinSwaps,
  NoPool         \* no pool is being walked

ASSUME ProfilerAssumption ==
  /\ {Lookback, MinPerHalf, RugLookback, RugMinTrades, MaxShare, MaxDrawdown,
      AttrWindow, Warmup, Horizon, PositionUsd, MinSwaps} \subseteq Nat
  /\ Horizon > 0 /\ MinPerHalf > 0
  /\ NoPool \notin {l.pool : l \in Launches} \cup {t.pool : t \in Trades}

VARIABLES
  field,        \* signal_field: "score" or "attr_score"
  todo,         \* pools the walk has not begun
  pool,         \* the pool it is in, or NoPool
  i, lo,        \* the swap it looks at, and the first of the tail it keeps
  nextAllowed,  \* next_allowed_ts
  scored, censored   \* trades: [pool, at, ts, value, net, blocked]

walkVars == <<field, todo, pool, i, lo, nextAllowed, scored, censored>>
vars == <<ingestVars, walkVars>>

-----------------------------------------------------------------------------
(* compute_signal, compute_attribution, rug_check: of the swaps in the     *)
(* tail that has been seen by time t                                       *)

Usd(S) == SumFunction([s \in S |-> s.usd])
On(S, side) == {s \in S : s.side = side}
Signers(S) == {s.signer : s \in S}

BuyPressure(S) == (Scale * (Usd(On(S, "buy")) - Usd(On(S, "sell")))) \div Usd(S)

Growth(before, after) == IF before = 0 THEN 0 ELSE (Scale * (after - before)) \div before

Undefined == [defined |-> FALSE, value |-> 0]

\* Times are doubled: half of the lookback need not be whole.
Derivative(tail, t) ==
  LET older == {s \in tail : /\ KnowableAt(s) >= t - Lookback
                             /\ 2 * KnowableAt(s) < 2 * t - Lookback}
      recent == {s \in tail : 2 * KnowableAt(s) >= 2 * t - Lookback /\ KnowableAt(s) <= t}
  IN IF Cardinality(older) < MinPerHalf \/ Cardinality(recent) < MinPerHalf THEN Undefined
     ELSE [defined |-> TRUE,
           value |-> BuyPressure(recent) - BuyPressure(older)
                     + Growth(Cardinality(Signers(older)), Cardinality(Signers(recent)))
                     + Growth(Cardinality(older), Cardinality(recent))]

\* The lift of the recent buyers with enough resolved trials, weighted by what they spent.
Attribution(tail, t, book) ==
  LET bought == {s \in On(tail, "buy") : KnowableAt(s) >= t - AttrWindow /\ KnowableAt(s) <= t}
      spent(w) == Usd({s \in bought : s.signer = w})
      known == {w \in Signers(bought) : ScoreAt(book, w, t).attempts >= MinAttempts}
  IN IF known = {} THEN Undefined
     ELSE [defined |-> TRUE,
           value |-> SumFunction([w \in known |-> spent(w) * ScoreAt(book, w, t).lift])
                     \div SumFunction([w \in known |-> spent(w)])]

Signal(f, tail, t, book) ==
  IF f = "attr_score" THEN Attribution(tail, t, book) ELSE Derivative(tail, t)

RugBlocked(tail, t, last) ==
  LET window == {s \in tail : KnowableAt(s) >= t - RugLookback}
      buys == On(window, "buy")
      dominant(w) == 100 * Usd({s \in buys : s.signer = w}) > MaxShare * Usd(buys)
      peak == Max({Price(s) : s \in window})
  IN /\ Cardinality(window) >= RugMinTrades
     /\ \/ \E w \in Signers(buys) : dominant(w)
        \/ 100 * (peak - Price(last)) > MaxDrawdown * peak

-----------------------------------------------------------------------------
(* run_pool *)

\* _sol_usd: the median over the whole tape, however late in it a fire is.
SolUsd(tape) ==
  LET paid == {k \in DOMAIN tape : tape[k].quote > 0}
  IN IF paid = {} THEN 0 ELSE Median([k \in paid |-> tape[k].usd \div tape[k].quote])

SizeQuote(tape) == (Scale * PositionUsd) \div SolUsd(tape)

TooThin(tape) == Len(tape) < 2 * MinPerHalf \/ SolUsd(tape) <= 0

MaxWindowMutant == Max({Lookback, AttrWindow})
MaxWindow == Max({Lookback, RugLookback, AttrWindow})

\* The first swap not older than the widest window before t.
TailStart(tape, from, t) == Min({k \in from..Len(tape) : KnowableAt(tape[k]) >= t - MaxWindow})

\* The last point known, or dated, at or before t.
LastKnown(tape, t) == Max({k \in DOMAIN tape : KnowableAt(tape[k]) <= t})
LastDated(tape, t) == Max({k \in DOMAIN tape : tape[k].et <= t})

Depth(tape, k) == DepthAt(tape, k, 8 * MinPerHalf)

NetOf(tape, size, entry, exit) ==
  NetReturn(size, Price(tape[entry]), Depth(tape, entry), Price(tape[exit]), Depth(tape, exit))

\* What the profiler makes of the k-th swap of a tape, seeing it from some swap on.
Decision(f, tape, from, k, book) ==
  LET t == KnowableAt(tape[k])
      tail == {tape[j] : j \in from..k}
      sig == Signal(f, tail, t, book)
  IN [fires |-> sig.defined /\ Depth(tape, LastKnown(tape, t)) # NoDepth,
      value |-> sig.value, blocked |-> RugBlocked(tail, t, tape[k])]

-----------------------------------------------------------------------------
WalkInit ==
  /\ field = "score" /\ todo = {} /\ pool = NoPool /\ i = 1 /\ lo = 1 /\ nextAllowed = 0
  /\ scored = {} /\ censored = {}

\* The command opens the store read-only and loads the universe.
StartProfile(f) ==
  /\ holder = "none" /\ swaps # {}
  /\ holder' = "profile" /\ field' = f
  /\ todo' = LoadPools(created, swaps, MinSwaps)
  /\ UNCHANGED <<storeVars, streamVars, sessions, pool, i, lo, nextAllowed, scored, censored>>

CurrentTape == PoolTape(swaps, pool)

\* The book exists in attribution mode only, over every pool with a swap.
Book == IF field = "attr_score" THEN RunupBook(created, swaps) ELSE {}

Walking == holder = "profile" /\ pool # NoPool /\ i <= Len(CurrentTape)

BeginPool(p) ==
  /\ holder = "profile" /\ pool = NoPool /\ p \in todo
  /\ todo' = todo \ {p}
  /\ IF TooThin(PoolTape(swaps, p))
       THEN UNCHANGED <<pool, i, lo, nextAllowed>>
       ELSE /\ pool' = p /\ i' = 1 /\ lo' = 1
            /\ nextAllowed' = KnowableAt(PoolTape(swaps, p)[1]) + Warmup
  /\ UNCHANGED <<ingestVars, field, scored, censored>>

Ts == KnowableAt(CurrentTape[i])
Visible == TailStart(CurrentTape, lo, Ts)   \* the tail is seen from here to i
Verdict == Decision(field, CurrentTape, Visible, i, Book)

Trade(net) == [pool |-> pool, at |-> i, ts |-> Ts, value |-> Verdict.value, net |-> net,
               blocked |-> Verdict.blocked]

MoveOn == i' = i + 1 /\ lo' = Visible

\* A position is open, or the signal or the depth is undefined.
Pass ==
  /\ Walking
  /\ Ts < nextAllowed \/ ~Verdict.fires
  /\ MoveOn
  /\ UNCHANGED <<ingestVars, field, todo, pool, nextAllowed, scored, censored>>

CensorMutant ==   \* the cooldown is forgotten after a censored fire
  /\ Walking /\ Ts >= nextAllowed /\ Verdict.fires
  /\ CurrentTape[i].et + Horizon > CurrentTape[Len(CurrentTape)].et
  /\ censored' = censored \cup {Trade(0)}
  /\ MoveOn
  /\ UNCHANGED <<ingestVars, field, todo, pool, nextAllowed, scored>>

\* The tape ends before the hold: recorded, not scored.
Censor ==
  /\ Walking /\ Ts >= nextAllowed /\ Verdict.fires
  /\ CurrentTape[i].et + Horizon > CurrentTape[Len(CurrentTape)].et
  /\ censored' = censored \cup {Trade(0)}
  /\ nextAllowed' = Ts + Horizon
  /\ MoveOn
  /\ UNCHANGED <<ingestVars, field, todo, pool, scored>>

ScoreMutant ==   \* the cooldown is forgotten after a scored fire
  /\ Walking /\ Ts >= nextAllowed /\ Verdict.fires
  /\ CurrentTape[i].et + Horizon <= CurrentTape[Len(CurrentTape)].et
  /\ scored' = scored \cup
       {Trade(NetOf(CurrentTape, SizeQuote(CurrentTape), LastKnown(CurrentTape, Ts),
                    LastDated(CurrentTape, CurrentTape[i].et + Horizon)))}
  /\ MoveOn
  /\ UNCHANGED <<ingestVars, field, todo, pool, nextAllowed, censored>>

\* Enter at the price known now, leave at the price in force one horizon later.
\* The exit has a depth because the entry has: no estimate is ever withdrawn.
Score ==
  /\ Walking /\ Ts >= nextAllowed /\ Verdict.fires
  /\ CurrentTape[i].et + Horizon <= CurrentTape[Len(CurrentTape)].et
  /\ scored' = scored \cup
       {Trade(NetOf(CurrentTape, SizeQuote(CurrentTape), LastKnown(CurrentTape, Ts),
                    LastDated(CurrentTape, CurrentTape[i].et + Horizon)))}
  /\ nextAllowed' = Ts + Horizon
  /\ MoveOn
  /\ UNCHANGED <<ingestVars, field, todo, pool, censored>>

EndPool ==
  /\ holder = "profile" /\ pool # NoPool /\ i > Len(CurrentTape)
  /\ pool' = NoPool
  /\ UNCHANGED <<ingestVars, field, todo, i, lo, nextAllowed, scored, censored>>

Walked == holder = "profile" /\ pool = NoPool /\ todo = {}

\* The report is written and the store closed.
Finish ==
  /\ Walked
  /\ holder' = "none" /\ field' = "score" /\ scored' = {} /\ censored' = {}
  /\ i' = 1 /\ lo' = 1 /\ nextAllowed' = 0
  /\ UNCHANGED <<storeVars, streamVars, sessions, todo, pool>>

-----------------------------------------------------------------------------
(* summarize_threshold and build_report *)

Above(trades, thr) == {x \in trades : x.value >= thr}

Summarize(thr) ==
  LET passed == {x \in Above(scored, thr) : ~x.blocked}
      n == Cardinality(passed)
  IN [fires |-> n,
      rugBlocked |-> Cardinality(Above(scored, thr) \ passed),
      censored |-> Cardinality(Above(censored, thr)),
      pools |-> Cardinality({x.pool : x \in passed}),
      expectancy |-> IF n = 0 THEN 0 ELSE SumFunction([x \in passed |-> x.net]) \div n]

\* _quantiles_from: the thresholds of the curve are quantiles of the signal.
Thresholds ==
  IF scored = {} THEN {}
  ELSE {Quantile([x \in scored |-> x.value], q, 100) : q \in {0, 25, 50, 75, 90, 95, 99}}

Curve == [thr \in Thresholds |-> Summarize(thr)]

-----------------------------------------------------------------------------
Init == LaunchInit /\ WalkInit

Next ==
  \/ Advance /\ holder # "profile" /\ UNCHANGED walkVars
  \/ Ingest /\ UNCHANGED walkVars
  \/ \E f \in {"score", "attr_score"} : StartProfile(f)
  \/ \E p \in todo : BeginPool(p)
  \/ Pass \/ Censor \/ Score \/ EndPool \/ Finish

Spec == Init /\ [][Next]_vars

-----------------------------------------------------------------------------
Fires == scored \cup censored

TypeOK ==
  /\ LaunchTypeOK
  /\ field \in {"score", "attr_score"}
  /\ todo \subseteq PoolsOf(Launches, Trades)
  /\ pool \in PoolsOf(Launches, Trades) \cup {NoPool}
  /\ i \in Nat \ {0} /\ lo \in Nat \ {0} /\ nextAllowed \in Nat
  /\ \A x \in Fires : /\ x.pool \in PoolsOf(Launches, Trades) /\ x.at \in Nat \ {0}
                      /\ x.ts \in Nat /\ x.value \in Int /\ x.net \in Int
                      /\ x.blocked \in BOOLEAN

\* A pool never has two positions at once: two fires of one pool, scored or
\* censored, are at least one horizon apart (the cooldown of run_pool).
OnePositionPerPool ==
  \A x, y \in Fires : x.pool = y.pool /\ x # y => x.ts + Horizon <= y.ts \/ y.ts + Horizon <= x.ts

\* The decision at a swap, made afresh from its whole history up to it and from
\* a book of nothing but what was knowable then.
Afresh(x) ==
  LET s == Knowable(swaps, x.ts)
      tape == PoolTape(s, x.pool)
      book == IF field = "attr_score" THEN RunupBook(Knowable(created, x.ts), s) ELSE {}
  IN Decision(field, tape, 1, x.at, book)

\* Its outcome, from what is knowable one horizon later.
OutcomeAfresh(x) ==
  LET tape == PoolTape(Knowable(swaps, x.ts + Horizon), x.pool)
  IN NetOf(tape, SizeQuote(PoolTape(swaps, x.pool)), LastKnown(tape, x.ts), Len(tape))

\* No look-ahead, whatever the store holds by the time it is profiled: each
\* fire's signal and rug verdict are those of a replay to its own instant, its
\* return that of a replay to one horizon later.  The bounded tail the walk
\* passes to the signals is therefore exactly as good as the whole history.
DecisionsPointInTime ==
  Walked => /\ \A x \in Fires : LET d == Afresh(x) IN
                 d.fires /\ d.value = x.value /\ d.blocked = x.blocked
            /\ \A x \in scored : x.net = OutcomeAfresh(x)

\* The swaps of one pool that would fire if the walk were made again with a
\* threshold: each that is wanted, unless an earlier one that fired still holds.
Resimulated(p, thr) ==
  LET tape == PoolTape(swaps, p)
      ts(k) == KnowableAt(tape[k])
      decided(k) == Decision(field, tape, 1, k, Book)
      wanted == {k \in DOMAIN tape : /\ ts(k) >= ts(1) + Warmup
                                     /\ decided(k).fires /\ decided(k).value >= thr}
  IN CHOOSE fired \in SUBSET wanted :
       \A k \in wanted : k \in fired <=> \A j \in fired : j < k => ts(j) + Horizon <= ts(k)

\* Filtering one walk by a threshold never claims more fires of a pool than a
\* strategy with that threshold would have had: the curve understates
\* frequency, because the fires it drops have kept later ones from happening.
FiresNotOverstated ==
  Walked => \A thr \in DOMAIN Curve, p \in {x.pool : x \in Fires} :
              Cardinality({x \in Above(Fires, thr) : x.pool = p})
                <= Cardinality(Resimulated(p, thr))

\* A row that arrives, however late, changes nothing that was known before it
\* was knowable: no resolved trial of either book, hence no score and no base
\* rate, and no graduation.  Rows that arrive in order only ripen the cohort:
\* no graduation, resolved trial, success or scorable wallet is taken back.
Arrived == (created' \ created) \cup (swaps' \ swaps)

HistoryStable ==
  [][LET k == Min({KnowableAt(r) : r \in Arrived}) IN
     Arrived # {} =>
       /\ Resolved(RunupBook(created, swaps), k - 1)
            = Resolved(RunupBook(created', swaps'), k - 1)
       /\ Resolved(AccumulatorBook(created, swaps), k - 1)
            = Resolved(AccumulatorBook(created', swaps'), k - 1)
       /\ {g \in Graduations(created) : g.knowable < k}
            = {g \in Graduations(created') : g.knowable < k}
       /\ k > LatestKnowable(created, swaps) =>
            LET old == BookStats(created, swaps)
                new == BookStats(created', swaps')
                census == Census(created, swaps)
                later == Census(created', swaps')
            IN /\ old.scorable \subseteq new.scorable /\ old.cohort <= new.cohort
               /\ old.resolved <= new.resolved /\ old.successes <= new.successes
               /\ \A stage \in {"bcOrigin", "graduated", "genuine", "covered"} :
                    census[stage] <= later[stage]]_<<created, swaps>>
=============================================================================
