---------------------------- MODULE DuneBackfill ----------------------------
(***************************************************************************)
(* The historical backfill from Dune (src/autocrypt/ingestion/             *)
(* dune_backfill.py over providers/dune.py).  An operator runs it window   *)
(* after window: it executes the saved query, polls until the execution is *)
(* over, pages through its result and upserts a PoolCreated creation proxy *)
(* per market and a Swap and WalletEvent per trade, in batches.  A run may *)
(* raise (failed execution, 429 or 5xx, which _post and _get do not retry, *)
(* connection error) or be killed at any step; its unwritten batch is lost *)
(* then, what it wrote stays.                                              *)
(*                                                                         *)
(* The archive is history: it does not change while it is read.  Trades    *)
(* without a leg in SOL or USDC, which DEX_TRADES_SQL leaves out and       *)
(* to_swap would skip, are not part of it.                                 *)
(***************************************************************************)
EXTENDS Integers, Sequences, FiniteSets, Functions

CONSTANTS
  Archive,     \* the trades of dex_solana.trades
  Markets,     \* surrogate keys (_pool_key): project, base and quote mint
  Mints,       \* base mints
  MintOf,      \* [Markets -> Mints]
  Txs,         \* transaction signatures; each has one trader
  Windows,     \* the windows <<since, till>> an operator may ask for
  Lookback, Track,  \* the query's buffer before a window, and its tail
  PageSize,    \* page_size
  MaxRows,     \* max_rows
  WriteBatch,  \* write_batch
  MaxPolls,    \* max_polls of wait_for_execution
  MaxRuns      \* bound of the model, not of the code

(* n tells trades apart; signed is false when tx_id or trader_id is null,  *)
(* and to_swap then skips the row.                                         *)
Trades == [n : Nat, tx : Txs, market : Markets, side : {"buy", "sell"},
           time : Nat, signed : BOOLEAN]

ASSUME ConstantsAssumption ==
  /\ IsFiniteSet(Archive) /\ Archive \subseteq Trades
  /\ \A t, u \in Archive : t.tx = u.tx => t.time = u.time
  /\ MintOf \in [Markets -> Mints]
  /\ Windows \subseteq Nat \X Nat
  /\ {Lookback, Track} \subseteq Nat
  /\ {PageSize, MaxRows, WriteBatch, MaxPolls, MaxRuns} \subseteq Nat \ {0}

VARIABLES
  pc,        \* where the run is; "idle" between two runs
  run,       \* number of the run under way, or of the last (ingest_run_id)
  outcome,   \* how the last run ended
  result,    \* rows of the query's execution, as Dune holds them
  polls,     \* polls of its status so far
  yielded,   \* rows consumed so far; also the offset of the next page
  pageEnd,   \* rows fetched so far
  seenMarkets, batch, hitMax, hitCredit,  \* run_dune_backfill's locals
  rows       \* the event store

progress == <<polls, yielded, pageEnd>>
locals == <<seenMarkets, batch, hitMax, hitCredit>>
vars == <<pc, run, outcome, result, progress, locals, rows>>

(* A row of the store has an identity, its event_id, and content.  A       *)
(* trade's instruction_index is None, which event_id takes for 0.          *)
Keys == Markets \cup Txs \cup (Txs \X {"buy", "sell"})
Rows == [kind : {"pool_created", "swap", "wallet_event"}, key : Keys,
         of : Archive, run : 1..MaxRuns]

PoolRow(t) == [kind |-> "pool_created", key |-> t.market, of |-> t, run |-> run]
SwapRow(t) == [kind |-> "swap", key |-> t.tx, of |-> t, run |-> run]
WalletRow(t) ==
  [kind |-> "wallet_event", key |-> <<t.tx, t.side>>, of |-> t, run |-> run]

Least(a, b) == IF a < b THEN a ELSE b

SameId(r, s) == r.kind = s.kind /\ r.key = s.key

(* INSERT OR REPLACE.                                                      *)
Upsert(S, r) == {s \in S : ~SameId(s, r)} \cup {r}

TypeOK ==
  /\ pc \in {"idle", "poll", "page", "consume", "flush", "finish"}
  /\ run \in 0..MaxRuns
  /\ outcome \in {"none", "reported", "raised"}
  /\ result \in Seq(Archive)
  /\ polls \in 0..MaxPolls
  /\ yielded \in 0..Len(result) /\ pageEnd \in 0..Len(result)
  /\ yielded <= pageEnd /\ yielded <= MaxRows
  /\ seenMarkets \subseteq Markets
  /\ batch \in Seq(Rows)
  /\ hitMax \in BOOLEAN /\ hitCredit \in BOOLEAN
  /\ rows \subseteq Rows

Init ==
  /\ pc = "idle" /\ run = 0 /\ outcome = "none" /\ result = <<>>
  /\ polls = 0 /\ yielded = 0 /\ pageEnd = 0
  /\ seenMarkets = {} /\ batch = <<>> /\ hitMax = FALSE /\ hitCredit = FALSE
  /\ rows = {}

----------------------------------------------------------------------------
(* DEX_TRADES_SQL.                                                         *)

Mint(t) == MintOf[t.market]

(* The trades of the scanned range; the time a mint is first seen there.   *)
Scan(w) == {t \in Archive : w[1] <= t.time + Lookback /\ t.time < w[2] + Track}

FirstSeenIn(w, t) == \A u \in Scan(w) : Mint(u) = Mint(t) => t.time <= u.time

(* The first Track hours of every mint first seen in the window.           *)
Cohort(w) ==
  {t \in Scan(w) : \E f \in Scan(w) :
     /\ Mint(f) = Mint(t) /\ FirstSeenIn(w, f)
     /\ w[1] <= f.time /\ f.time < w[2]
     /\ t.time < f.time + Track}

(* ORDER BY block_time ASC; trades of equal times come in any order.       *)
\* the saved query has lost its ORDER BY
QueryResultsMutant(w) == Injection(1..Cardinality(Cohort(w)), Cohort(w))

QueryResults(w) ==
  {s \in Injection(1..Cardinality(Cohort(w)), Cohort(w)) :
     \A i, j \in DOMAIN s : i < j => s[i].time <= s[j].time}

----------------------------------------------------------------------------
(* execute_query, on behalf of a new run.  A run whose POST fails changes  *)
(* nothing.                                                                *)
Execute(w) ==
  /\ pc = "idle" /\ run < MaxRuns
  /\ run' = run + 1 /\ outcome' = "none"
  /\ result' \in QueryResults(w)
  /\ polls' = 0 /\ yielded' = 0 /\ pageEnd' = 0
  /\ seenMarkets' = {} /\ batch' = <<>> /\ hitMax' = FALSE /\ hitCredit' = FALSE
  /\ pc' = "poll"
  /\ UNCHANGED rows

(* wait_for_execution: still executing, for the last time it asks or not;  *)
(* or completed.                                                           *)
\* the count of polls starts over instead of running out
StillExecutingMutant ==
  /\ pc = "poll"
  /\ polls' = (polls + 1) % MaxPolls
  /\ UNCHANGED <<pc, run, outcome, result, yielded, pageEnd, locals, rows>>

StillExecuting ==
  /\ pc = "poll"
  /\ polls' = polls + 1
  /\ IF polls' = MaxPolls THEN pc' = "idle" /\ outcome' = "raised"
     ELSE UNCHANGED <<pc, outcome>>
  /\ UNCHANGED <<run, result, yielded, pageEnd, locals, rows>>

Completed ==
  /\ pc = "poll"
  /\ pc' = "page"
  /\ UNCHANGED <<run, outcome, result, progress, locals, rows>>

(* iter_trade_rows: one page; an empty page is the end ...                 *)
FetchPage ==
  /\ pc = "page"
  /\ IF yielded = Len(result)
       THEN pc' = "finish" /\ UNCHANGED pageEnd
       ELSE pc' = "consume" /\ pageEnd' = Least(yielded + PageSize, Len(result))
  /\ UNCHANGED <<run, outcome, result, polls, yielded, locals, rows>>

(* ... and 402, the free credits used up, ends the run early.              *)
CreditCap ==
  /\ pc = "page"
  /\ hitCredit' = TRUE
  /\ pc' = "finish"
  /\ UNCHANGED <<run, outcome, result, progress, seenMarkets, batch, hitMax, rows>>

(* After n rows: the result is over, max_rows reached, the page is over,   *)
(* or there is a next row.                                                 *)
\* the ceiling lets one row more through
AfterRowMutant(n) ==
  IF n > MaxRows \/ n = Len(result) THEN "finish"
  ELSE IF n = pageEnd THEN "page" ELSE "consume"

AfterRow(n) ==
  IF n = MaxRows \/ n = Len(result) THEN "finish"
  ELSE IF n = pageEnd THEN "page" ELSE "consume"

(* The events of a row, in the order they are appended.                    *)
\* the swap goes ahead of its pool; every trade renews the proxy
SwapFirstMutant(t) ==
  IF ~t.signed THEN <<>>
  ELSE IF t.market \in seenMarkets THEN <<SwapRow(t), WalletRow(t)>>
  ELSE <<SwapRow(t), WalletRow(t), PoolRow(t)>>
LatestProxyMutant(t) ==
  IF ~t.signed THEN <<>> ELSE <<PoolRow(t), SwapRow(t), WalletRow(t)>>

Events(t) ==
  IF ~t.signed THEN <<>>
  ELSE IF t.market \in seenMarkets THEN <<SwapRow(t), WalletRow(t)>>
  ELSE <<PoolRow(t), SwapRow(t), WalletRow(t)>>

(* Reaching the ceiling is noted as its last row arrives.                  *)
\* noted a row too late
ReachesMaxMutant(n) == n > MaxRows
ReachesMax(n) == n >= MaxRows

ConsumeRow ==
  /\ pc = "consume"
  /\ LET t == result[yielded + 1]
     IN  /\ batch' = batch \o Events(t)
         /\ seenMarkets' = IF t.signed THEN seenMarkets \cup {t.market} ELSE seenMarkets
         /\ pc' = IF t.signed /\ Len(batch') >= WriteBatch THEN "flush"
                  ELSE AfterRow(yielded + 1)
  /\ yielded' = yielded + 1
  /\ hitMax' = (hitMax \/ ReachesMax(yielded'))
  /\ UNCHANGED <<run, outcome, result, polls, pageEnd, hitCredit, rows>>

(* write_events: the batch is written row by row ...                       *)
WriteRow ==
  /\ pc \in {"flush", "finish"} /\ batch # <<>>
  /\ rows' = Upsert(rows, Head(batch)) /\ batch' = Tail(batch)
  /\ UNCHANGED <<pc, run, outcome, result, progress, seenMarkets, hitMax, hitCredit>>

(* ... and then the stream goes on; or the run, whose last batch it was,   *)
(* is reported.                                                            *)
Flushed ==
  /\ pc = "flush" /\ batch = <<>>
  /\ pc' = AfterRow(yielded)
  /\ UNCHANGED <<run, outcome, result, progress, locals, rows>>

Report ==
  /\ pc = "finish" /\ batch = <<>>
  /\ outcome' = "reported" /\ pc' = "idle"
  /\ UNCHANGED <<run, result, progress, locals, rows>>

(* The run raises or is killed, be it with a batch half written.           *)
Die ==
  /\ pc # "idle"
  /\ outcome' = "raised" /\ pc' = "idle"
  /\ seenMarkets' = {} /\ batch' = <<>>
  /\ UNCHANGED <<run, result, progress, hitMax, hitCredit, rows>>

Advance ==
  \/ StillExecuting \/ Completed \/ FetchPage \/ CreditCap
  \/ ConsumeRow \/ WriteRow \/ Flushed \/ Report

Next == (\E w \in Windows : Execute(w)) \/ Advance \/ Die

Spec == Init /\ [][Next]_vars

(* A run under way is run on by the event loop: its requests have timeouts.*)
FairSpec == Spec /\ WF_vars(Advance)

----------------------------------------------------------------------------
(* No swap or wallet event is in the store without the PoolCreated row of  *)
(* its market, also when a batch is cut short, a run dies between two      *)
(* batches or a later run replaces rows (orphan_swaps of quality/checks).  *)
OrphanFree ==
  \A r \in rows : \E p \in rows : p.kind = "pool_created" /\ p.key = r.of.market

(* A run that reports no cap has stored the whole cohort of its window;    *)
(* "hitting it means a free-tier cap to report honestly" (iter_trade_rows  *)
(* 338-340).  Trades are told apart by their event_id only.                *)
Fetched(t) == \E r \in rows : r.kind = "swap" /\ r.key = t.tx /\ r.run = run

CompleteUnlessReported ==
  pc = "idle" /\ outcome = "reported" /\ ~hitMax /\ ~hitCredit
    => \A t \in Range(result) : t.signed => Fetched(t)

(* What a run leaves behind, reported or dead, is the cohort up to some    *)
(* moment: "the latter part of the window is missing" (269-270), never     *)
(* something in between.                                                   *)
TimeTruncated ==
  pc = "idle" => \A t, u \in Range(result) :
    t.signed /\ u.signed /\ t.time < u.time /\ Fetched(u) => Fetched(t)

(* Within what one run wrote, no trade of a market precedes its creation   *)
(* proxy (run_dune_backfill 218-220).                                      *)
CreationProxy ==
  \A p, s \in rows :
    p.kind = "pool_created" /\ s.kind = "swap" /\ p.key = s.of.market /\ p.run = s.run
      => p.of.time <= s.of.time

(* "a Swap + WalletEvent per trade" (12-13): after a run that reports no   *)
(* cap, every trade of the cohort has a swap row.                          *)
EveryTradeStored ==
  pc = "idle" /\ outcome = "reported" /\ ~hitMax /\ ~hitCredit
    => \A t \in Range(result) :
         t.signed => \E r \in rows : r.kind = "swap" /\ r.of = t

(* Under fairness every run ends, however long the execution stays pending *)
(* and whatever the sizes of pages and batches.                            *)
RunEnds == pc # "idle" ~> pc = "idle"
=============================================================================
