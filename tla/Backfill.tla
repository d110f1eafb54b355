------------------------------ MODULE Backfill ------------------------------
(***************************************************************************)
(* The historical backfill of src/autocrypt/ingestion/backfill.py: walk    *)
(* the listing of new pools back to the start of a window, sample them     *)
(* under a cap per day and a cap in all, then write pool by pool its       *)
(* creation, its swaps and, optionally, its price bars, through one buffer *)
(* that is flushed when it is full and after every pool.  Chain and        *)
(* indexers move on meanwhile, requests and writes fail, and the process   *)
(* may die.                                                                *)
(*                                                                         *)
(* per_day, capped and the effective window of the report are functions of *)
(* the universe the enumeration has gathered, and are kept as operators.   *)
(***************************************************************************)
EXTENDS Integers, Sequences, FiniteSets, Functions

CONSTANTS
  Pools,        \* pool addresses the chain may ever list
  Undated,      \* pools the indexer lists without created_at
  Unsplit,      \* pools listed with fewer than two tokens
  Unreadable,   \* <<pool, n>>: transactions without id, sender or time
  Flaky,        \* pools whose requests fail, or whose answers break the mappers
  StoreFails,   \* may a write fail?
  Window,       \* window_days
  MaxPools,     \* max_pools
  EnumPages,    \* max_enum_pages
  PageLimit,    \* pools per page of the listing
  DayLength,    \* a calendar day
  DayCap,       \* per_day_cap
  MinTxs,       \* min_transactions
  TxPages,      \* tx_pages_per_pool
  TxPageLimit,  \* transactions per page of one pool's history
  WithBars,     \* with_ohlcv
  BarLength,    \* ohlcv_interval
  BatchSize,    \* batch_size
  MaxTime, MaxRuns,   \* bounds of the model, not of the code ...
  MaxTrades           \* ... and another, per pool

ASSUME ConstantsAssumption ==
  /\ IsFiniteSet(Pools) /\ Undated \cup Unsplit \cup Flaky \subseteq Pools
  /\ {StoreFails, WithBars} \subseteq BOOLEAN
  /\ {Window, DayCap, MinTxs, MaxTime, MaxRuns} \subseteq Nat
  /\ MaxTrades \in [Pools -> Nat]
  /\ {MaxPools, EnumPages, PageLimit, DayLength, TxPages, TxPageLimit, BarLength, BatchSize}
       \subseteq Nat \ {0}

VARIABLES
  \* the world
  now,        \* wall clock
  chain,      \* pools in creation order, oldest first
  createdAt,  \* creation time of each pool in chain
  trades,     \* per pool, the times of its swaps, oldest first
  \* the process; what it knew when it ended is kept until the next run
  pc,         \* where run_backfill is
  began,      \* the argument now: the end of the window
  page,       \* next page of the listing, or of a pool's history
  listing,    \* what is left to examine of the page fetched last
  universe,   \* pools to backfill, as sampled
  at,         \* index of the pool being backfilled
  txs,        \* what is left to consume of a page of transactions
  cutoff,     \* bars that close later are still forming
  bars,       \* what is left to consume of an answer with bars
  buffer,     \* events not yet written
  failed,     \* pools counted in pools_tx_errors
  runs,       \* runs begun (bounds the model)
  \* the event store
  rows

world == <<now, chain, createdAt, trades>>
reading == <<page, txs, cutoff, bars>>
vars == <<world, pc, began, listing, universe, at, reading, buffer, failed, runs, rows>>

Phases == {"idle", "enumerate", "pools", "swaps", "bars", "asked", "answered", "flush", "done",
           "dead"}
Running == pc \notin {"idle", "done", "dead"}

(* A row is its identity (type, pool, n) and, of what else it says, what a *)
(* bar says of its period: how many swaps it summarises.                   *)
Row(type, p, n, body) == [type |-> type, pool |-> p, n |-> n, body |-> body]
PoolRow(p)     == Row("pool_created", p, 0, 0)
SwapRow(p, n)  == Row("swap", p, n, 0)
WalletRow(p, n) == Row("wallet_event", p, n, 0)
RowTypes == {"pool_created", "swap", "wallet_event", "ohlcv_bar"}
Rows == [type : RowTypes, pool : Pools, n : Nat, body : Nat]
SameId(r, s) == r.type = s.type /\ r.pool = s.pool /\ r.n = s.n

Least(a, b) == IF a < b THEN a ELSE b

NewestPage(k) ==
  LET last == Len(chain) - (k - 1) * PageLimit
  IN  [i \in 1..Least(PageLimit, last) |->
         [pool |-> chain[last - i + 1], txs |-> Len(trades[chain[last - i + 1]])]]

(* A page of a pool's history, newest swap first.                          *)
TxPage(p, k) ==
  LET last == Len(trades[p]) - (k - 1) * TxPageLimit
  IN  [i \in 1..Least(TxPageLimit, last) |-> last - i + 1]

(* The swaps a bar of period k summarises at this moment.                  *)
Opens(k) == k * BarLength
Closes(k) == Opens(k) + BarLength
InBar(p, k) ==
  Cardinality({n \in DOMAIN trades[p] : Opens(k) <= trades[p][n] /\ trades[p][n] < Closes(k)})
BarRow(p, k) == Row("ohlcv_bar", p, k, InBar(p, k))

Init ==
  /\ now = 0 /\ chain = <<>>
  /\ createdAt = [p \in Pools |-> 0] /\ trades = [p \in Pools |-> <<>>]
  /\ pc = "idle" /\ began = 0 /\ page = 1 /\ listing = <<>> /\ universe = <<>> /\ at = 1
  /\ txs = <<>> /\ cutoff = 0 /\ bars = {} /\ buffer = <<>> /\ failed = {} /\ runs = 0
  /\ rows = {}

----------------------------------------------------------------------------
(* The world moves between any two steps of the process that could notice: *)
(* not while a page at hand is being examined, which awaits nothing.       *)
process == <<pc, began, listing, universe, at, reading, buffer, failed, runs, rows>>
Awaiting == listing = <<>> /\ txs = <<>>

Tick ==
  /\ Awaiting /\ now < MaxTime
  /\ now' = now + 1
  /\ UNCHANGED <<chain, createdAt, trades, process>>

CreatePool(p) ==
  /\ Awaiting /\ p \notin Range(chain)
  /\ chain' = Append(chain, p)
  /\ createdAt' = [createdAt EXCEPT ![p] = now]
  /\ UNCHANGED <<now, trades, process>>

Trade(p) ==
  /\ Awaiting /\ p \in Range(chain) /\ Len(trades[p]) < MaxTrades[p]
  /\ trades' = [trades EXCEPT ![p] = Append(@, now)]
  /\ UNCHANGED <<now, chain, createdAt, process>>

----------------------------------------------------------------------------
(* Enumeration.  An error here is not caught: see Die.                     *)

\* the universe is indexed from zero
BeginMutant ==
  /\ ~Running /\ runs < MaxRuns
  /\ pc' = "enumerate" /\ began' = now /\ runs' = runs + 1
  /\ page' = 1 /\ universe' = <<>> /\ at' = 0 /\ failed' = {}
  /\ UNCHANGED <<world, listing, txs, cutoff, bars, buffer, rows>>
Begin ==
  /\ ~Running /\ runs < MaxRuns
  /\ pc' = "enumerate" /\ began' = now /\ runs' = runs + 1
  /\ page' = 1 /\ universe' = <<>> /\ at' = 1 /\ failed' = {}
  /\ UNCHANGED <<world, listing, txs, cutoff, bars, buffer, rows>>

Start == began - Window
Day(t) == t \div DayLength
OfDay(d) == {i \in DOMAIN universe : Day(createdAt[universe[i]]) = d}
DayFull(p) == Cardinality(OfDay(Day(createdAt[p]))) >= DayCap

(* One awaited page; an empty page or the last one ends the enumeration.   *)
\* the page number stays
FetchListingMutant ==
  /\ pc = "enumerate" /\ listing = <<>>
  /\ LET got == IF page <= EnumPages THEN NewestPage(page) ELSE <<>>
     IN  IF got = <<>> THEN pc' = "pools" /\ page' = 1 /\ UNCHANGED listing
         ELSE listing' = got /\ UNCHANGED <<page, pc>>
  /\ UNCHANGED <<world, began, universe, at, txs, cutoff, bars, buffer, failed, runs, rows>>
FetchListing ==
  /\ pc = "enumerate" /\ listing = <<>>
  /\ LET got == IF page <= EnumPages THEN NewestPage(page) ELSE <<>>
     IN  IF got = <<>> THEN pc' = "pools" /\ page' = 1 /\ UNCHANGED listing
         ELSE listing' = got /\ page' = page + 1 /\ UNCHANGED pc
  /\ UNCHANGED <<world, began, universe, at, txs, cutoff, bars, buffer, failed, runs, rows>>

TooOld(e) == e.pool \notin Undated /\ createdAt[e.pool] < Start
\* a pool with exactly min_transactions is dust
SkippedMutant(e) ==
  \/ e.pool \in Undated
  \/ createdAt[e.pool] > began
  \/ DayFull(e.pool)
  \/ e.txs <= MinTxs
Skipped(e) ==
  \/ e.pool \in Undated
  \/ createdAt[e.pool] > began
  \/ DayFull(e.pool)
  \/ e.txs < MinTxs

Walked == pc' = "pools" /\ listing' = <<>> /\ page' = 1

(* One pool of the page: past the window, which ends the walk, or skipped, *)
(* or taken, which ends it when it was the last one wanted.                *)
Examine ==
  /\ pc = "enumerate" /\ listing # <<>>
  /\ LET e == Head(listing)
     IN  \/ TooOld(e) /\ Walked /\ UNCHANGED universe
         \/ /\ ~TooOld(e) /\ Skipped(e)
            /\ listing' = Tail(listing) /\ UNCHANGED <<pc, page, universe>>
         \/ /\ ~TooOld(e) /\ ~Skipped(e)
            /\ universe' = Append(universe, e.pool)
            /\ IF Len(universe') >= MaxPools THEN Walked
               ELSE listing' = Tail(listing) /\ UNCHANGED <<pc, page>>
  /\ UNCHANGED <<world, began, at, txs, cutoff, bars, buffer, failed, runs, rows>>

Capped == Len(universe) >= MaxPools
(* report.coverage_complete(): the oldest pool included lies at the start  *)
(* of the window.                                                          *)
CoverageComplete ==
  /\ ~Capped
  /\ \E i \in DOMAIN universe : createdAt[universe[i]] <= Start

----------------------------------------------------------------------------
(* Pool by pool.  flush() upserts the buffer row by row, so that of rows   *)
(* with one identity the last stays, and empties it.                       *)

Upsert(store, events) ==
  {r \in store : \A i \in DOMAIN events : ~SameId(r, events[i])}
  \cup {events[i] : i \in {j \in DOMAIN events :
                             \A k \in DOMAIN events :
                               k > j /\ SameId(events[k], events[j]) => events[k] = events[j]}}

Flush(events) == rows' = Upsert(rows, events) /\ buffer' = <<>>

(* Events are appended, and the buffer is flushed when that has filled it. *)
(* A flush that fails has written some rows and leaves the buffer alone.   *)
Overflows(events) == events # <<>> /\ Len(buffer \o events) >= BatchSize
Receive(events) ==
  IF Overflows(events) THEN Flush(buffer \o events)
  ELSE buffer' = buffer \o events /\ UNCHANGED rows

FlushFails(events) ==
  /\ Overflows(events) /\ StoreFails
  /\ \E k \in 0..Len(buffer \o events) : rows' = Upsert(rows, SubSeq(buffer \o events, 1, k))
  /\ buffer' = buffer \o events

Current == universe[at]

StartPool ==
  /\ pc = "pools" /\ at <= Len(universe)
  /\ IF Current \in Unsplit
       THEN at' = at + 1 /\ UNCHANGED <<pc, page, buffer>>
       ELSE /\ buffer' = Append(buffer, PoolRow(Current))
            /\ pc' = "swaps" /\ page' = 1 /\ UNCHANGED at
  /\ UNCHANGED <<world, began, listing, universe, txs, cutoff, bars, failed, runs, rows>>

(* One awaited page of the pool's history; page ends up past TxPages when  *)
(* the answer says that it was the last one.                               *)
FetchTxs ==
  /\ pc = "swaps" /\ txs = <<>> /\ page <= TxPages
  /\ txs' = TxPage(Current, page)
  /\ page' = IF page * TxPageLimit >= Len(trades[Current]) THEN TxPages + 1 ELSE page + 1
  /\ UNCHANGED <<world, pc, began, listing, universe, at, cutoff, bars, buffer, failed, runs, rows>>

\* the wallet event goes before its swap
TxEventsMutant(p, n) ==
  IF <<p, n>> \in Unreadable THEN <<>> ELSE <<WalletRow(p, n), SwapRow(p, n)>>
TxEvents(p, n) ==
  IF <<p, n>> \in Unreadable THEN <<>> ELSE <<SwapRow(p, n), WalletRow(p, n)>>

ConsumeTx ==
  /\ pc = "swaps" /\ txs # <<>>
  /\ Receive(TxEvents(Current, Head(txs)))
  /\ txs' = Tail(txs)
  /\ UNCHANGED <<world, pc, began, listing, universe, at, page, cutoff, bars, failed, runs>>

AfterSwaps == IF WithBars THEN "bars" ELSE "flush"
EndSwaps ==
  /\ pc = "swaps" /\ txs = <<>> /\ page > TxPages
  /\ pc' = AfterSwaps /\ page' = 1
  /\ UNCHANGED <<world, began, listing, universe, at, txs, cutoff, bars, buffer, failed, runs, rows>>

(* A request that fails for good, an answer that breaks a mapper, or a     *)
(* flush that fails: the rest of the pool's swaps is skipped, and counted. *)
\* not counted
SkipSwapsMutant ==
  /\ pc = "swaps"
  /\ txs # <<>> \/ page <= TxPages
  /\ \/ Current \in Flaky /\ UNCHANGED <<rows, buffer>>
     \/ txs # <<>> /\ FlushFails(TxEvents(Current, Head(txs)))
  /\ pc' = AfterSwaps /\ page' = 1 /\ txs' = <<>>
  /\ UNCHANGED <<world, began, listing, universe, at, cutoff, bars, failed, runs>>
SkipSwaps ==
  /\ pc = "swaps"
  /\ txs # <<>> \/ page <= TxPages
  /\ \/ Current \in Flaky /\ UNCHANGED <<rows, buffer>>
     \/ txs # <<>> /\ FlushFails(TxEvents(Current, Head(txs)))
  /\ pc' = AfterSwaps /\ page' = 1 /\ txs' = <<>> /\ failed' = failed \cup {Current}
  /\ UNCHANGED <<world, began, listing, universe, at, cutoff, bars, runs>>

(* Bars.  The cutoff is read before the request leaves; what the indexer   *)
(* answers is read there at some moment after that, and arrives later yet. *)
AskBars ==
  /\ pc = "bars" /\ pc' = "asked"
  /\ cutoff' = now
  /\ UNCHANGED <<world, began, listing, universe, at, page, txs, bars, buffer, failed, runs, rows>>

AnswerBars ==
  /\ pc = "asked" /\ pc' = "answered"
  /\ bars' = {BarRow(Current, k) : k \in {j \in 0..now : InBar(Current, j) > 0}}
  /\ UNCHANGED <<world, began, listing, universe, at, page, txs, cutoff, buffer, failed, runs, rows>>

\* the clock is read when the answer is there
FormingMutant(bar) == Closes(bar.n) > now
Forming(bar) == Closes(bar.n) > cutoff
BarEvents(bar) == IF Forming(bar) THEN <<>> ELSE <<bar>>

ConsumeBar(bar) ==
  /\ pc = "answered" /\ bar \in bars
  /\ Receive(BarEvents(bar))
  /\ bars' = bars \ {bar}
  /\ UNCHANGED <<world, pc, began, listing, universe, at, page, txs, cutoff, failed, runs>>

EndBars ==
  /\ pc = "answered" /\ bars = {}
  /\ pc' = "flush" /\ cutoff' = 0
  /\ UNCHANGED <<world, began, listing, universe, at, page, txs, bars, buffer, failed, runs, rows>>

SkipBars ==
  /\ pc = "asked" \/ (pc = "answered" /\ bars # {})
  /\ \/ Current \in Flaky /\ UNCHANGED <<rows, buffer>>
     \/ \E bar \in bars : FlushFails(BarEvents(bar))
  /\ pc' = "flush" /\ cutoff' = 0 /\ bars' = {}
  /\ UNCHANGED <<world, began, listing, universe, at, page, txs, failed, runs>>

FlushPool ==
  /\ pc = "flush"
  /\ Flush(buffer)
  /\ at' = at + 1 /\ pc' = "pools"
  /\ UNCHANGED <<world, began, listing, universe, reading, failed, runs>>

Finish ==
  /\ pc = "pools" /\ at > Len(universe)
  /\ Flush(buffer)
  /\ pc' = "done"
  /\ UNCHANGED <<world, began, listing, universe, at, reading, failed, runs>>

(* The process is killed, or an error outside the try blocks ends the run: *)
(* a page of the listing that cannot be had, a pool's own flush.  A write  *)
(* under way has inserted some of its rows.                                *)
Arriving ==
  (IF pc = "swaps" /\ txs # <<>> THEN {TxEvents(Current, Head(txs))} ELSE {})
  \cup {BarEvents(bar) : bar \in bars}
UnderWay ==
  (IF pc = "flush" THEN {buffer} ELSE {<<>>})
  \cup {buffer \o events : events \in {e \in Arriving : Overflows(e)}}

Die ==
  /\ Running
  /\ \E events \in UnderWay : \E k \in 0..Len(events) : rows' = Upsert(rows, SubSeq(events, 1, k))
  /\ pc' = "dead" /\ listing' = <<>> /\ page' = 1 /\ txs' = <<>> /\ cutoff' = 0 /\ bars' = {}
  /\ buffer' = <<>>
  /\ UNCHANGED <<world, began, universe, at, failed, runs>>

----------------------------------------------------------------------------
World == Tick \/ (\E p \in Pools : CreatePool(p) \/ Trade(p))

Step ==
  \/ FetchListing \/ Examine
  \/ StartPool \/ FetchTxs \/ ConsumeTx \/ EndSwaps \/ SkipSwaps
  \/ AskBars \/ AnswerBars \/ (\E bar \in bars : ConsumeBar(bar)) \/ EndBars \/ SkipBars
  \/ FlushPool \/ Finish

Next == World \/ Begin \/ Step \/ Die

Spec == Init /\ [][Next]_vars

(* The event loop runs a run that was begun on; requests time out.         *)
FairSpec == Spec /\ WF_vars(Step)

----------------------------------------------------------------------------
TypeOK ==
  /\ now \in Nat /\ chain \in Seq(Pools) /\ createdAt \in [Pools -> Nat]
  /\ trades \in [Pools -> Seq(Nat)]
  /\ pc \in Phases /\ began \in Nat /\ page \in Nat \ {0}
  /\ listing \in Seq([pool : Pools, txs : Nat])
  /\ universe \in Seq(Pools) /\ at \in Nat \ {0}
  /\ txs \in Seq(Nat) /\ cutoff \in Nat /\ bars \subseteq Rows
  /\ buffer \in Seq(Rows) /\ failed \subseteq Pools /\ runs \in Nat
  /\ rows \subseteq Rows

(* Whatever flush failed or was cut short, a swap, wallet event or bar in  *)
(* the store has its pool there, and a wallet event its swap: the buffer   *)
(* is written in order (backfill.py 141, 155-156, 183; quality/checks.py   *)
(* counts what is not as an orphan).                                       *)
Linked ==
  \A r \in rows :
    /\ PoolRow(r.pool) \in rows
    /\ r.type = "wallet_event" => SwapRow(r.pool, r.n) \in rows

(* A run is durable pool by pool, also one that dies (backfill.py 187): a  *)
(* pool it is past is in the store with every readable swap it had when    *)
(* the run began, unless the report counts it among the tx errors or its   *)
(* history is longer than the pages asked for.                             *)
Backfilled(p) ==
  /\ PoolRow(p) \in rows
  /\ p \in failed \/ Len(trades[p]) > TxPages * TxPageLimit
     \/ \A n \in DOMAIN trades[p] :
          trades[p][n] < began /\ <<p, n>> \notin Unreadable => SwapRow(p, n) \in rows
DurablePerPool ==
  \A i \in DOMAIN universe : i < at /\ universe[i] \notin Unsplit => Backfilled(universe[i])

(* A report that claims complete coverage has sampled every pool that was  *)
(* created inside the window before the run began, was dated, had traded   *)
(* enough by then and fell on a day whose cap was not reached, although    *)
(* the listing moved while it was read (backfill.py 55-61).                *)
CoverageHonest ==
  pc \notin {"idle", "enumerate", "dead"} /\ CoverageComplete =>
    \A p \in Range(chain) \ Undated :
      /\ Start < createdAt[p] /\ createdAt[p] < began
      /\ Cardinality({n \in DOMAIN trades[p] : trades[p][n] < began}) >= MinTxs
      => p \in Range(universe) \/ DayFull(p)

(* A bar that reaches the store has all the swaps of its period: no later  *)
(* swap can make it wrong (geckoterminal.py 98-112).                       *)
BarsAreFinal ==
  \A r \in rows : r.type = "ohlcv_bar" => r.body = InBar(r.pool, r.n)

(* Every run that is begun ends, however the listing and the histories     *)
(* grow while they are read.                                               *)
RunEnds == Running ~> ~Running
=============================================================================
