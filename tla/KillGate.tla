------------------------------ MODULE KillGate ------------------------------
(***************************************************************************)
(* The kill gate of src/autocrypt/midcap (bars.py, barsignals.py,          *)
(* killgate.py): the midcap-killgate command over the store that Midcap    *)
(* fills.  A panel is the in-band pools with their daily bars; a signal    *)
(* gives bars values, every valued bar outside a hold is a trade, and the  *)
(* verdict is drawn from the trades, their thresholds and the sweeps.      *)
(*                                                                         *)
(* Bars are counted from 1.  Means are compared as exact fractions, the    *)
(* z-score by its signed square, and the permutation test counts every     *)
(* subset instead of sampling them.                                        *)
(***************************************************************************)
EXTENDS Midcap, Execution

CONSTANTS
  Pegged,                \* pools with two pegged legs
  Warmup, Horizon, Lookback, Horizons, Lookbacks,   \* in bars
  CapacityPart,          \* a position is 1/CapacityPart of the reserve (0.4%),
  MaxNotional,           \* and at most MaxNotional
  MinFires, MinSample,   \* of a verdict, of a permutation test
  AlphaPart              \* significance 1/AlphaPart

ASSUME KillGateAssumption ==
  /\ {Warmup, Horizon, Lookback, CapacityPart, MaxNotional, MinFires, MinSample, AlphaPart}
       \subseteq Nat \ {0}
  /\ Horizons \cup Lookbacks \subseteq Nat \ {0} /\ MinReserve > 0 /\ CapacityPart >= 4

VARIABLE report   \* what the last midcap-killgate printed
vars == <<midcapVars, report>>

Signals == {"ts_mom", "xs_mom", "mean_rev", "breakout"}
NoReport == [panel |-> <<>>]

-----------------------------------------------------------------------------
\* _load_bars_for: an unpriceable bar is dropped, a missing high is the close.
\* It takes the bars of every interval the store holds, here those of 1d.
Series(p) ==
  LET own == {b[2] : b \in {x \in bars : x[1] = p /\ x[2].close > 0}}
      nth(k) == CHOOSE b \in own : Cardinality({o \in own : o.day < b.day}) = k - 1
  IN [k \in 1..Cardinality(own) |->
        [nth(k) EXCEPT !.high = IF @ > 0 THEN @ ELSE nth(k).close]]

LoadPoolBars(source, speculativeOnly) ==
  LET all == LoadInBand(source)
      kept == At(all, {k \in DOMAIN all : /\ speculativeOnly => all[k].pool \notin Pegged
                                          /\ Len(Series(all[k].pool)) >= Warmup + Horizon + 1})
  IN [k \in DOMAIN kept |-> [pool |-> kept[k].pool, reserve |-> kept[k].reserve,
                             bars |-> Series(kept[k].pool)]]

-----------------------------------------------------------------------------
(* Signals: functions from the bars of a series that have a value *)

Momentum(s, lookback) ==
  [i \in (lookback + 1)..Len(s) |-> (Scale * s[i].close) \div s[i - lookback].close - Scale]

\* Undefined when the window before the bar is flat.
MeanReversion(s, lookback) ==
  LET closes(i) == [k \in (i - lookback)..(i - 1) |-> s[k].close]
      total(i) == SumFunction(closes(i))
      spread(i) == lookback * SumFunction([k \in DOMAIN closes(i) |-> Square(closes(i)[k])])
                     - Square(total(i))
      gap(i) == lookback * s[i].close - total(i)
      z2(i) == (Scale * Square(gap(i))) \div spread(i)
  IN [i \in {k \in (lookback + 1)..Len(s) : spread(k) > 0} |->
        IF gap(i) < 0 THEN z2(i) ELSE -z2(i)]

\* A break on less than the average volume is -inf, which never fires.
Breakout(s, lookback) ==
  LET window(i) == (i - lookback)..(i - 1)
      confirmed(i) == lookback * s[i].volume >= SumFunction([k \in window(i) |-> s[k].volume])
  IN [i \in {k \in (lookback + 1)..Len(s) : confirmed(k)} |->
        (Scale * s[i].close) \div Max({s[k].high : k \in window(i)}) - Scale]

\* The rank of a momentum among those of the same day, if there are three.
XsValuesMutant(panel, lookback) ==   \* ranked by bar number, not by day
  LET raw == [k \in DOMAIN panel |-> Momentum(panel[k].bars, lookback)]
      peers(i) == {k \in DOMAIN panel : i \in DOMAIN raw[k]}
  IN [k \in DOMAIN panel |->
        [i \in {n \in DOMAIN raw[k] : Cardinality(peers(n)) >= 3} |->
           (Scale * Cardinality({p \in peers(i) : raw[p][i] < raw[k][i]}))
             \div (Cardinality(peers(i)) - 1)]]
XsValues(panel, lookback) ==
  LET raw == [k \in DOMAIN panel |-> Momentum(panel[k].bars, lookback)]
      peers(day) == {e \in UNION {{k} \X DOMAIN raw[k] : k \in DOMAIN panel} :
                       panel[e[1]].bars[e[2]].day = day}
      weaker(e, k, i) == \/ raw[e[1]][e[2]] < raw[k][i]
                         \/ raw[e[1]][e[2]] = raw[k][i] /\ e[1] < k
      sameDay(k, i) == peers(panel[k].bars[i].day)
  IN [k \in DOMAIN panel |->
        [i \in {n \in DOMAIN raw[k] : Cardinality(sameDay(k, n)) >= 3} |->
           (Scale * Cardinality({e \in sameDay(k, i) : weaker(e, k, i)}))
             \div (Cardinality(sameDay(k, i)) - 1)]]

SignalValues(panel, c) ==
  IF c.signal = "xs_mom" THEN XsValues(panel, c.lookback)
  ELSE [k \in DOMAIN panel |->
          CASE c.signal = "ts_mom" -> Momentum(panel[k].bars, c.lookback)
            [] c.signal = "mean_rev" -> MeanReversion(panel[k].bars, c.lookback)
            [] c.signal = "breakout" -> Breakout(panel[k].bars, c.lookback)]

-----------------------------------------------------------------------------
(* _run *)

Position(reserve) == Min({MaxNotional, reserve \div CapacityPart})
DepthQuote(reserve, c) == (reserve * c.quarters) \div 4   \* depth_frac * depth_mult

\* Every valued bar fires, unless an earlier one's hold covers it.
Fired(valued, horizon, n) ==
  FoldLeft(LAMBDA fired, i : IF i \in valued /\ \A j \in fired : j + horizon <= i
                               THEN fired \cup {i} ELSE fired,
           {}, [i \in 1..n |-> i])

\* The trades of the k-th pool.  A hold that outlasts the series is censored, and
\* still covers what is left.
PoolTrades(k, row, values, c) ==
  LET s == row.bars
      depth == DepthQuote(row.reserve, c)
      size == Position(row.reserve)
      fired == IF depth <= 0 \/ size <= 0 THEN {}
               ELSE Fired({i \in DOMAIN values : i > Warmup}, c.horizon, Len(s))
  IN {[row |-> k, at |-> s[i].day, exit |-> s[i + c.horizon].day, value |-> values[i],
       net |-> NetReturn(size, s[i].close, depth, s[i + c.horizon].close, depth)] :
        i \in {n \in fired : n + c.horizon <= Len(s)}}

Run(panel, c) ==
  LET values == SignalValues(panel, c) IN
  UNION {PoolTrades(k, panel[k], values[k], c) : k \in DOMAIN panel}

-----------------------------------------------------------------------------
(* profile_signal *)

Stat(trades) ==
  [fires |-> Cardinality(trades), total |-> SumFunction([t \in trades |-> t.net])]
Better(a, b) == a.total * b.fires > b.total * a.fires   \* of two that fired

Passed(trades, thr) == {t \in trades : t.value >= thr}

Thresholds(trades) ==
  {Quantile([t \in trades |-> t.value], q[1], q[2]) :
     q \in {r \in {<<0, 1>>, <<1, 4>>, <<1, 2>>, <<3, 4>>, <<9, 10>>, <<19, 20>>} : trades # {}}}

\* The thresholds worth a permutation test.
Tested(trades) ==
  {thr \in Thresholds(trades) :
     LET k == Cardinality(Passed(trades, thr)) IN k >= MinSample /\ k < Cardinality(trades)}

\* p is the share of the subsets of that size that did at least as well.
BeatsRandom(trades) ==
  \E thr \in Tested(trades) :
    LET stat == Stat(Passed(trades, thr))
        drawn == kSubset(stat.fires, trades)
        hits == {d \in drawn : Stat(d).total >= stat.total}
    IN AlphaPart * Cardinality(hits) * Cardinality(Tested(trades)) < Cardinality(drawn)

Eligibles(trades) == {thr \in Thresholds(trades) : Cardinality(Passed(trades, thr)) >= MinFires}

\* The first of the best.
BestThreshold(trades) ==
  LET stat(thr) == Stat(Passed(trades, thr)) IN
  CHOOSE thr \in Eligibles(trades) : \A o \in Eligibles(trades) :
    /\ ~Better(stat(o), stat(thr))
    /\ o < thr => Better(stat(thr), stat(o))

Base(signal) == [signal |-> signal, lookback |-> Lookback, horizon |-> Horizon, quarters |-> 2]

\* Half, once and twice the depth.
DepthSweep(panel, c) == {Stat(Run(panel, [c EXCEPT !.quarters = q])) : q \in {1, 2, 4}}

Halves(trades) ==
  LET mid == Median([t \in trades |-> t.at])
      early == {t \in trades : t.at <= mid}
  IN IF trades = {} THEN {} ELSE {Stat(early), Stat(trades \ early)}

Sweeps(panel, c, trades) ==
  {Stat(Run(panel, [c EXCEPT !.horizon = h])) : h \in Horizons}
    \cup DepthSweep(panel, c)
    \cup {Stat(Run(panel, [c EXCEPT !.lookback = l])) : l \in Lookbacks}
    \cup Halves(trades)

\* A sweep of few fires is not judged.
FragileMutant(sweeps) ==   \* any() for all()
  \A s \in sweeps : s.fires >= MinFires => s.total <= 0
Fragile(sweeps) == \E s \in sweeps : s.fires >= MinFires /\ s.total <= 0

\* A blind loss below 2% is forgiven.
VerdictOf(panel, c, trades) ==
  LET blind == Stat(trades)
      best == Stat(Passed(trades, BestThreshold(trades)))
  IN IF Eligibles(trades) = {} THEN "too few fires"
     ELSE IF ~(best.total > 0 /\ 50 * blind.total > -Scale * blind.fires) THEN "not profitable"
     ELSE IF ~Better(best, blind) THEN "does not beat blind"
     ELSE IF ~BeatsRandom(trades) THEN "not better than random"
     ELSE IF Fragile(Sweeps(panel, c, trades)) THEN "fragile"
     ELSE "unproven"

ProfileSignal(panel, signal) ==
  LET trades == Run(panel, Base(signal)) IN
  [trades |-> trades, verdict |-> VerdictOf(panel, Base(signal), trades)]

-----------------------------------------------------------------------------
\* midcap-killgate: reads the store, runs the battery, prints.
RunKillGate(source, speculativeOnly) ==
  /\ Begin("none")
  /\ report' = LET panel == LoadPoolBars(source, speculativeOnly) IN
       [speculativeOnly |-> speculativeOnly, panel |-> panel,
        of |-> [s \in Signals |-> ProfileSignal(panel, s)]]
  /\ UNCHANGED <<today, snapshots, bars, funnelVars, queue>>

Init == MidcapInit /\ report = NoReport
Next ==
  \/ Ingestion /\ UNCHANGED report
  \/ \E source \in {Funnel, TopList}, speculativeOnly \in BOOLEAN :
       RunKillGate(source, speculativeOnly)
Spec == Init /\ [][Next]_vars

-----------------------------------------------------------------------------
Verdicts == {"too few fires", "not profitable", "does not beat blind",
             "not better than random", "fragile", "unproven"}

\* Type invariant of the universe, the bars and the last report.
TypeOK ==
  /\ MidcapTypeOK
  /\ report # NoReport =>
       /\ {row.pool : row \in ToSet(report.panel)} \subseteq
            (IF report.speculativeOnly THEN Pools \ Pegged ELSE Pools)
       /\ \A s \in Signals : report.of[s].verdict \in Verdicts

Cut(panel, day) ==
  [k \in DOMAIN panel |->
     [panel[k] EXCEPT !.bars =
        SubSeq(@, 1, Cardinality({i \in DOMAIN @ : panel[k].bars[i].day <= day}))]]

\* The value of a trade is its signal's at the last bar closed by the day of the decision.
DecidedThen(panel, t, c) ==
  LET then == Cut(panel, t.at)
      values == SignalValues(then, c)[t.row]
      last == Len(then[t.row].bars)
  IN last \in DOMAIN values /\ values[last] = t.value

\* The kill gate replays history: each decision uses what was closed that day,
\* and given only the bars closed by an earlier day the gate makes exactly the
\* trades it had closed by then, with the same returns (killgate.py
\* signal_values and _run; barsignals.py "cannot look ahead").
GatePointInTime ==
  report # NoReport =>
    \A s \in Signals : LET trades == report.of[s].trades IN
      /\ \A t \in trades : DecidedThen(report.panel, t, Base(s))
      /\ \A day \in 1..MaxDay :
           Run(Cut(report.panel, day), Base(s)) = {t \in trades : t.exit <= day}

\* UNPROVEN is the ceiling and must be earned: the signal has picked some of the
\* blind trades and they did better than the rest, and buying blind made money
\* both at the depth assumed and at half of it, whatever _verdict forgives.
UnprovenEarned ==
  report # NoReport =>
    \A s \in Signals : report.of[s].verdict = "unproven" =>
      LET trades == report.of[s].trades
          best == Stat(Passed(trades, BestThreshold(trades)))
          half == Stat(Run(report.panel, [Base(s) EXCEPT !.quarters = 1]))
          rest == [fires |-> Stat(trades).fires - best.fires,
                   total |-> Stat(trades).total - best.total]
      IN /\ best.fires >= MinFires /\ rest.fires > 0 /\ Better(best, rest)
         /\ Stat(trades).total > 0
         /\ half.fires = Stat(trades).fires /\ half.total > 0
=============================================================================
