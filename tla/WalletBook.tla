----------------------------- MODULE WalletBook -----------------------------
(***************************************************************************)
(* Track records of wallets: the run-up trials of the attribution model    *)
(* (attribution/wallet_book.py), the graduation census that picks a cohort *)
(* of launches (grad/graduation.py), the survive-and-appreciate trials of  *)
(* that cohort (grad/accumulator_label.py, grad/wallet_book.py), and the   *)
(* score both kinds of trial feed.  A trial is a record [wallet, pool,     *)
(* resolution, success]; a book is a set of trials, of which a query at    *)
(* time t counts those resolved by t, as the bisection over sorted         *)
(* resolution times does.                                                  *)
(***************************************************************************)
EXTENDS LaunchStore, Execution, FiniteSetsExt

CONSTANTS
  RunupTimes, RunupWindow,   \* a run-up: price * RunupTimes within RunupWindow
  MinAttempts, PriorStrength,
  MinLag,                    \* a shorter BC-to-AMM lag is a co-launch
  HoldWindow, AppreciateTimes, FloorPart,  \* AccumulatorLabel; floor: price / FloorPart
  MinPostGradSwaps

ASSUME WalletBookAssumption ==
  /\ {RunupTimes, RunupWindow, MinAttempts, MinLag, HoldWindow, AppreciateTimes,
      MinPostGradSwaps} \subseteq Nat
  /\ {PriorStrength, FloorPart} \subseteq Nat \ {0}

Price(trade) == Square(trade.root)

\* Where each wallet of a tape buys first.
FirstBuys(tape) ==
  {i \in DOMAIN tape : tape[i].side = "buy" /\
     \A j \in 1..(i - 1) : tape[j].side = "buy" => tape[j].signer # tape[i].signer}

-----------------------------------------------------------------------------
(* _pool_attempts: the run-up trial *)

Crossings(tape, i) ==
  {k \in (i + 1)..Len(tape) : /\ tape[k].et <= tape[i].et + RunupWindow
                              /\ Price(tape[k]) >= Price(tape[i]) * RunupTimes}

RunupTrialMutant(tape, i) ==   \* a failure counts as known at the entry
  LET hits == Crossings(tape, i) IN
  [wallet |-> tape[i].signer, pool |-> tape[i].pool, success |-> hits # {},
   resolution |-> IF hits # {} THEN KnowableAt(tape[Min(hits)]) ELSE KnowableAt(tape[i])]

RunupTrial(tape, i) ==
  LET hits == Crossings(tape, i) IN
  [wallet |-> tape[i].signer, pool |-> tape[i].pool, success |-> hits # {},
   resolution |-> IF hits # {} THEN KnowableAt(tape[Min(hits)])
                               ELSE KnowableAt(tape[i]) + RunupWindow]

RunupTrials(tape) == {RunupTrial(tape, i) : i \in FirstBuys(tape)}

\* WalletScoreBook.build over load_pools(store, 1).
RunupBook(c, s) == UNION {RunupTrials(PoolTape(s, p)) : p \in LoadPools(c, s, 1)}

-----------------------------------------------------------------------------
(* WalletScoreBook *)

Resolved(book, t) == {a \in book : a.resolution <= t}
Leads(trials) == {a \in trials : a.success}

\* posterior - base rate, over one denominator; 0 for a wallet without trials.
ScoreAt(book, w, t) ==
  LET all == Resolved(book, t)
      own == {a \in all : a.wallet = w}
      n == Cardinality(all)
      k == Cardinality(own)
      edge == Cardinality(Leads(own)) * n - Cardinality(Leads(all)) * k
  IN [attempts |-> k,
      lift |-> IF k = 0 THEN 0 ELSE (Scale * edge) \div (n * (k + PriorStrength))]

-----------------------------------------------------------------------------
(* detect_graduations *)

BONDING_CURVE_VENUES == {"pumpfun", "meteora_dbc"}
AMM_VENUES == {"pumpswap", "raydium", "raydium_clmm", "orca", "meteora",
               "meteora_daam_v2", "manifest"}

VenuePhase(dex) ==
  IF dex \in BONDING_CURVE_VENUES THEN "BC"
  ELSE IF dex \in AMM_VENUES THEN "AMM" ELSE "OTHER"

\* A mint's creations by event time; the order of those of one time is left to
\* DuckDB, and is the slot's here.
CreationsOf(c, mint) == Tape({l \in c : l.mint = mint})

Curves(line) == {i \in DOMAIN line : VenuePhase(line[i].dex) = "BC"}

\* AMM pools at or after the first bonding-curve pool.
Graduates(line) ==
  {i \in DOMAIN line : /\ VenuePhase(line[i].dex) = "AMM"
                       /\ line[i].et >= line[Min(Curves(line))].et}

GraduationOf(line) ==
  LET bc == line[Min(Curves(line))]
      amm == line[Min(Graduates(line))]
  IN [mint |-> amm.mint, pool |-> amm.pool, knowable |-> KnowableAt(amm),
      transition |-> <<bc.dex, amm.dex>>, colaunch |-> amm.et - bc.et < MinLag]

Graduations(c) ==
  {GraduationOf(line) : line \in
     {l \in {CreationsOf(c, m) : m \in {x.mint : x \in c}} :
        Curves(l) # {} /\ Graduates(l) # {}}}

PostGradSwaps(s, g) == {t \in s : t.pool = g.pool /\ KnowableAt(t) >= g.knowable}

Census(c, s) ==
  LET lines == {CreationsOf(c, m) : m \in {x.mint : x \in c}}
      origin == {l \in lines : Curves(l) # {}}
      genuine == {g \in Graduations(c) : ~g.colaunch}
  IN [mints |-> Cardinality(lines), bcOrigin |-> Cardinality(origin),
      graduated |-> Cardinality(Graduations(c)), genuine |-> Cardinality(genuine),
      never |-> Cardinality({l \in origin : Graduates(l) = {}}),
      directAmm |-> Cardinality({l \in lines \ origin : \E i \in DOMAIN l :
                                   VenuePhase(l[i].dex) = "AMM"}),
      covered |-> Cardinality({g \in genuine : PostGradSwaps(s, g) # {}})]

-----------------------------------------------------------------------------
(* load_graduated_cohort, label_accumulator_entry, build_accumulator_book *)

\* The post-graduation tapes of genuine graduations that have one.
Cohort(c, s) ==
  {arc \in {Tape(Valued(PostGradSwaps(s, g))) : g \in {x \in Graduations(c) : ~x.colaunch}} :
     Len(arc) >= MinPostGradSwaps /\ arc # <<>>}

\* The observations of an arc that a hold from its i-th trade lives through.
Held(arc, i) ==
  {k \in DOMAIN arc : arc[i].et < arc[k].et /\ arc[k].et <= arc[i].et + HoldWindow}

AccumulatorTrial(arc, i) ==
  [wallet |-> arc[i].signer, pool |-> arc[i].pool,
   resolution |-> KnowableAt(arc[i]) + HoldWindow,
   success |->
     /\ \E k \in Held(arc, i) : Price(arc[k]) >= Price(arc[i]) * AppreciateTimes
     /\ ~\E k \in Held(arc, i) : Price(arc[k]) * FloorPart <= Price(arc[i])
     /\ \E k \in Held(arc, i) : 5 * (arc[k].et - arc[i].et) >= 4 * HoldWindow]

AccumulatorBook(c, s) ==
  UNION {{AccumulatorTrial(arc, i) : i \in FirstBuys(arc)} : arc \in Cohort(c, s)}

\* The latest knowable_at in the store: the time the book is read at.
LatestKnowable(c, s) == Max({KnowableAt(r) : r \in c \cup s} \cup {0})

\* AccumulatorBookStats, and top_accumulator_wallets without its order.
BookStats(c, s) ==
  LET book == AccumulatorBook(c, s)
      due == Resolved(book, LatestKnowable(c, s))
  IN [cohort |-> Cardinality(Cohort(c, s)), attempts |-> Cardinality(book),
      resolved |-> Cardinality(due), successes |-> Cardinality(Leads(due)),
      scorable |-> {w \in {a.wallet : a \in book} :
                      ScoreAt(book, w, LatestKnowable(c, s)).attempts >= MinAttempts}]
=============================================================================
