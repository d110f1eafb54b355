# Verification of AutoCrypt: what is collected and what is concluded from it

AutoCrypt collects the on-chain record of new Solana tokens (pools, swaps,
wallet activity), keeps it in a DuckDB event store and asks, offline, whether
anything in it predicts returns. Everything downstream (profiler, kill gate,
wallet book) trusts the store: that no dead token is missing from it, that
nothing is labelled with knowledge from the future, that what was fetched is
there and what is missing is reported; and a verdict is worth something only if
it was reached with what was knowable at the time. This directory states those
promises for the code that fills the store and for the profiler and the kill
gate that read it, checks them with TLC on small instances and proves all but
the liveness with TLAPS for every value of the parameters.

Paths below are relative to the repository. Run, in this directory:

    tlc -config MCCollectorAdmission.cfg MCCollector.tla
    tlapm CollectorProofs.tla

## 1. The system

### Components, their state, and what makes them correct

**Forward collector** (`src/autocrypt/ingestion/collect.py`, kept alive by
`scripts/g0_collect.sh`). One asyncio process, tick after tick: retire pools
past their window, enumerate the newest pools page by page, write a
`PoolCreated` row for each, admit some to a bounded watchlist, tail the swaps of
every watched pool, write them, checkpoint, sleep. State: the watchlist with a
tier per pool (`discovery` or pinned `graduation`), `bc_mints`, `retired`, the
in-process `seen` set; on disk the JSON checkpoint and the event store. Hard:
it dies at any await and in mid-write, restarts from an old checkpoint, reads
listings that move under it, and survives failures of single requests. Correct
when: the universe is recorded before anything is watched (survivorship); a
graduation is recognised by what was seen earlier, never by look-ahead; pins
survive restarts and leave only by age; slot limits hold; a failing pool costs
no other pool its swaps; no suppressed id is lost; slots are given back. The
mapper makes nothing of a pool without a date or with fewer than two tokens, nor
of a swap without a time, an id or a sender: these are skipped in silence.

**HTTP provider base** (`src/autocrypt/providers/base.py`). `RateLimiter`
(`_next_at` and an `asyncio.Lock`) and `get_json` with tenacity's retries.
Shared by all coroutines of one adapter. Hard: callers queue on a lock whose
holder sleeps, sleeps end late, retries compete with first attempts. Correct
when the request rate stays under the provider's ceiling.

**DexPaprika adapter** (`src/autocrypt/providers/dexpaprika.py`). Paginated
iterators over new pools and over one pool's transactions, and conversions to
canonical events. Stateless; its pagination races with the chain.

**Dune adapter and backfill** (`src/autocrypt/providers/dune.py`,
`src/autocrypt/ingestion/dune_backfill.py`). An operator runs a saved query for
a window; the run polls the execution, pages through the result and writes a
creation proxy per market and a swap and wallet event per trade, in batches.
State: `seen_markets`, the batch, the two cap flags; the store. Hard: paging
against three limits (page, row ceiling, write batch), unretried errors in the
middle, runs over overlapping windows, event identities. Correct when what is
stored is linked, is a prefix in time of the cohort, and is all of it unless a
cap is reported.

**DexPaprika historical backfill** (`src/autocrypt/ingestion/backfill.py`).
One run walks the listing back to the start of a window, samples pools under a
cap per day and a cap in all, then takes pool after pool: its creation, its
paged swaps, optionally its bars, through one buffer that is flushed when full
and after every pool. State: the universe, the buffer, the report's counters;
the store. Hard: listing and histories shift while they are paged; a request, a
mapper or a flush fails and the run goes on, or the run dies; the report must
say what is missing. Correct when the store is linked and, pool by pool, whole
or counted as failed, stored bars are final, and a claim of complete coverage is
true.

**Live polling, streaming** (`src/autocrypt/ingestion/poll.py`, `stream.py`).
Short-lived commands over the same store: `poll` writes the newest pools tick
after tick, `stream` writes the creations of N new pools and then tails their
swaps round after round. State: the pools it watches, the in-process `seen`, the
database lock. Hard: an id enters `seen` before its rows are written, and the
process may die between two rows. Correct when nothing that was met is lost and
no swap is stored without its pool.

**Events and store** (`src/autocrypt/schema/events.py`,
`src/autocrypt/storage/store.py`). `event_id` is a row's identity;
`write_events` is `INSERT OR REPLACE`, row by row. Shared by every writer.

**Quality checks** (`src/autocrypt/quality/checks.py`). Queries for orphan
swaps, duplicates, look-ahead and survivorship over the store. Stateless.
Correct when they accept what the writers leave, wherever those stopped.

**Wallet attribution, graduation census and labels**
(`src/autocrypt/attribution/`, `src/autocrypt/grad/`). Batch readers. State: books
of trials, each a wallet, a pool, a success and the time its outcome was known; a query at
*t* counts the trials resolved by *t*. Hard: a book is built from the whole store
and asked about the past. Correct when a row that arrives later changes nothing
that was known before it.

**Profiler** (`src/autocrypt/profiler/`). Walks each pool's tape swap by swap:
a signal over a bounded tail of it, a rug gate, an entry, a hold, a cooldown, a
censored fire when the tape ends first; then a curve of thresholds over the one
walk. Correct when each decision is the one a replay to its instant would make,
and a pool never holds two positions.

**Mid-cap universe and kill gate** (`src/autocrypt/midcap/`). A funnel from
CoinGecko's ranks to each token's deepest pool, snapshots of the universe, daily
bars of the pools in the band, four bar signals and a verdict per signal. State:
the funnel's candidates and rows; snapshots and bars in the store. Hard: hundreds
of requests per run, any of which may fail; bars are still forming when fetched;
series start late and miss days; the verdict compares sweeps of the same trades.
Correct when one bad token costs only itself, no decision looks ahead, and
UNPROVEN, the best verdict there is, has been earned. The first of these holds of
a run that finishes and not of every run (finding 5).

**Other adapters** (`flipside`, `bitquery`, `geckoterminal`, `coingecko`),
**command line, configuration, logging, shell loops**: conversions, argument
parsing, process start-up.

### Interactions

The collector calls the DexPaprika adapter, whose every page goes through
`get_json` and the limiter; exhausted retries surface as `RetryableHTTPError`,
which the collector absorbs per page or per pool, while any other exception
kills the process. Collector and backfills write the same store and meet only
through `event_id`. DuckDB admits one writer, so commands that open the store
exclude one another. Profiler, books and kill gate read what the writers left,
whenever they happened to stop.

## 2. Modules

| module | models | runs | proofs |
|---|---|---|---|
| `Collector` | forward collector with the adapter's pagination and the store's writes | 4 | `CollectorProofs` |
| `PinnedCohort` | what the collector promises its readers, abstractly | | |
| `CollectorCohort` | `Collector` seen as a `PinnedCohort` (the refinement mapping) | in `collector_admission` | `CollectorCohortProofs` |
| `HTTPProvider` | rate limiter and retries | 2 | `HTTPProviderProofs` |
| `DuneBackfill` | Dune query, paging, batching, upserts | 2 | `DuneBackfillProofs` |
| `Backfill` | DexPaprika historical backfill: enumeration, sampling, histories, bars, flushes | 1 | `BackfillProofs` |
| `LaunchStore` | `poll`, `stream`, the store they write, its replay and its quality checks | | |
| `Execution` | fixed-point arithmetic of a trade: constant-product fills, medians, quantiles | | |
| `WalletBook` | run-up trials, graduation census, accumulator labels, books and scores | | |
| `Profiler` | the profiler's walk over what `LaunchStore` holds, its curve | 1 | `ProfilerProofs` |
| `Midcap` | the mid-cap commands: funnel, snapshots, bars | | |
| `KillGate` | panel, signals, trades and verdict over what `Midcap` holds | 2 | `KillGateProofs` |
| `ExecutionLemmas` | nothing: lemmas on finite sets, folds, order statistics and trades that the last two proofs share | | |
| `MC...` | instances for TLC | | |

`WalletBook` extends `LaunchStore` and `Execution`, `Profiler` extends
`WalletBook`, `KillGate` extends `Midcap` and `Execution`: the readers are
composed with the writers of the rows they read.

Definitions ending in `Mutant` are deliberate bugs: nothing uses them, they
are swapped for the definition that follows them to see that each property
notices. `PROJECT.json` lists which belongs to which property, and the source
lines of every definition.

### Collector

One action per stretch of code between two awaits: `Restart` (`_load_state`),
`AgeOut`, `FetchPage` and `TruncateEnumeration` (`_enumerate_new_pools`, one
page at a time, an error ends it early), `WritePoolsAndAdmit` (the synchronous
write of the universe and `_admit_candidates`), `TailPage` and `SkipPool`
(`_tail_watchlist`), `WriteSwaps`, `Checkpoint` and `CheckpointFails`
(`_save_state`). `FatalTail` is an error other than `RetryableHTTPError` while a
pool is tailed (a 404, a read timeout, a body that is not JSON), which nothing in
the code catches: it ends the process before the tick's swaps are written, and
may come again after every restart. `Crash` is a death with any other cause, an
uncaught error of the listing included. The world moves in between: `Tick`, `CreatePool`,
`Trade`; a page shows the listing, or a history, as it is at that moment, so
pages overlap and skip as they do in reality.

- `mem` is the watchlist as two sets of pools (an entry's other fields are
  functions of the pool), `bc_mints` and `retired`; `disk` is the checkpoint.
- `Admissions` is the set of memories `_admit_candidates` may leave: which
  candidates are pinned, who is evicted for them, who fills the discovery
  share. Candidates come in listing order; ties of age are broken either way.
- `rows` holds `PoolCreated`, `Swap` and `WalletEvent` rows by identity.
  `PartialWrites` are the prefixes of a write that a crash may leave behind.
- `seen` starts empty in every process, as in the code.
- `Unmapped` are the pools `to_pool_created` returns None for. They take their
  place on a page and are then passed over: no row, no mint, no candidate.
  `Unreadable` are the swaps `to_swap` returns None for; they are passed over
  without entering `seen`.

The order in which `watchlist.keys()` is tailed is left open. The collector
sleeps between two ticks at the boundary between `Checkpoint` and `AgeOut`.

### PinnedCohort and CollectorCohort

`PinnedCohort` knows a recorded universe, a cohort within two limits, and the
cohort as it was saved last; its steps are `Age`, `Retire`, `Admit`, `Collect`,
`Save`, `Lose` and `Resume`. Evidence for a pin is a relation between pools
(`Precedes`) and not a set of mints remembered on the side. `CollectorCohort`
reads a collector's state as such a state: a pool is recorded when its
`PoolCreated` row is in the store, the cohort is the watchlist by tiers,
`saved` is the checkpoint's, `bc_mints`, pages and batches disappear. Under that
reading `AgeOut` is a `Retire`, `WritePoolsAndAdmit` an `Admit`, `WriteSwaps` a
`Collect`, `Checkpoint` a `Save`, `Crash` and `FatalTail` a `Lose`, `Restart` a `Resume`, `Tick`
an `Age`, and every other step a stutter.

### HTTPProvider

`Request`, `Enqueue`, `TakeSlot` or `Sleep` and `Wake` (the two paths through
`acquire`), `Return`, `TransientError`, `Retry`. The lock is a FIFO queue whose
head may sleep while holding it. `readAt` is the local `now` of `acquire`, read
before the sleep and used after it. `sends` is history: when each request left.
The clock may pass any amount between two steps, so a sleeper may wake late.

### DuneBackfill

`Cohort` and `QueryResults` are what `DEX_TRADES_SQL` selects and every order it
may return ties in. `Execute` starts a run on any window; `StillExecuting` and
`Completed` are the polling loop; `FetchPage`, `CreditCap`, `ConsumeRow` are the
generator and its consumer in lockstep; `WriteRow` upserts one row of a batch,
so that `Die` may strike in mid-batch; `Flushed` and `Report` end a batch and a
run. A row is its identity (`kind`, `key`), the trade it came from and the run
that wrote it. `Upsert` replaces by identity.

### Backfill

One action per await or per item consumed from a page. `Begin` is the call with
`now` (`began`); `FetchListing` and `Examine` are the enumeration, whose three
outcomes per pool are `TooOld` (the break at the horizon), `Skipped` (undated,
newer than the window, day full, dust) and taken; `StartPool`, `FetchTxs`,
`ConsumeTx`, `EndSwaps`, `SkipSwaps` are the first try block of the loop over
pools; `AskBars`, `AnswerBars`, `ConsumeBar`, `EndBars`, `SkipBars` the second;
`FlushPool` and `Finish` end a pool and the run; `Die` is the process killed or
an error outside the try blocks, with any prefix of a write under way stored.

- `universe` is what the enumeration gathered. `per_day`, `capped` and the
  effective window of the report are functions of it and are operators
  (`OfDay`, `Capped`, `CoverageComplete`); `failed` is `pools_tx_errors`.
- `buffer` is kept after a flush that failed inside a try block
  (`FlushFails`), with some of its rows already written, as in the code.
- `AskBars`, `AnswerBars` and the first `ConsumeBar` are apart: the cutoff is
  read before the request leaves, the indexer computes its bars later, and they
  arrive later still. A bar's `body` is the number of swaps it summarises.
- `Tick`, `CreatePool` and `Trade` move the world between any two awaits, not
  while a page at hand is being examined.

Three things the code does that no property is about: a pool listed twice is
backfilled twice and counts twice against `max_pools` and its day
(`backfill.py:128-132`); the day cap leaves no trace in `capped`, so
`coverage_complete` may hold although pools were dropped by it
(`backfill.py:50-56`, and `CoverageHonest` says so by exempting them); and a run
that did walk past the start of its window reports complete coverage only if
some pool was created at that very instant, since older ones are not included.

### LaunchStore

The history (`Launches`, `Trades`) is a constant that `now` uncovers, so that a
page is a function of the time it is read. `holder` is the command that has the
database. `StartPoll`, `PollTick` are `run_poll` and `poll_new_pools_once`;
`StartStream` writes the creations, `TailPool` is one pool's page through
`seen`, mapping and write, `NextRound` another round; `PollDies`, `StartDies`,
`TailDies` end the process after any prefix of the write at hand and `Stop` ends
it between writes. `seen` grows in the same step as the rows are written because
nothing is awaited between, and a write that fails ends the session. `Knowable`
is `EventStore.replay`, `LoadPools` is `dataset.load_pools`, `QualityFindings`
the checks that these rows could fail. A launch that cannot be mapped takes one
of the places a poll or a stream asks for (`NewestLaunches`), so that fewer pools
are stored or watched than were asked for. The `slot` of a launch is no field of
the code: it fixes one order among pools of one instant, for which the code takes
the order of the listing and of DuckDB.

### WalletBook and Execution

`RunupTrials` is `_pool_attempts`, `GraduationOf` and `Census` are
`detect_graduations` and the graduation census, `AccumulatorBook` the trials of
`grad/wallet_book.py`, `ScoreAt` the wallet score both feed. The bisection over
sorted resolution times is the set `Resolved`. `Execution` has the constant
product and fees in integers of `1/Scale`; prices are squares (`root`), so that
the square roots of the depth estimate are exact. A sample is any function on a
finite set, and its median and quantiles are values that enough of it lies below
(`Ranked`): no sorting.

### Profiler

`StartProfile` opens the store read-only and loads the universe; `BeginPool`
takes a pool; `Pass`, `Censor`, `Score` are the outcomes of one swap in the loop
of `run_pool`; `EndPool` and `Finish` end a pool and the command. `i`, `lo` and
`nextAllowed` are the locals of the same names, `lo` the lower end of the
bounded tail (`TailStart`). A signal is a function of the set of swaps in that tail, since
each of them counts, sums or compares and none depends on the order:
`Decision(f, tape, from, k, book)` is the signal and the rug gate at the `k`-th swap
when the tail begins at `from`. The walk calls it with its own tail, the properties
with the whole tape. `Resimulated` is the set of places at which a walk with a
threshold of its own would fire. `Summarize` and `Thresholds` are
`summarize_threshold` and `_quantiles_from`. Time stands still during a walk,
since the reader sees one state of the database.

What the code does that a reader of its comments may not expect, none of it a
property here:

- the docstring of the curve (`profiler.py:118-121`) calls the filtered walk
  exact. A fire dropped by a threshold still started a cooldown, so the curve may
  claim fewer fires than a walk with that threshold; it never claims more
  (`FiresNotOverstated`).
- the SOL price (`_sol_usd`), the minimum of swaps and the minimum length are
  taken over the whole tape, also for a decision early in it. These three are the
  only look-ahead, and `DecisionsPointInTime` holds with them fixed.
- the branch for a missing exit (`profiler.py:233`) cannot be reached with a
  constant latency: an estimate of depth is never withdrawn.

### Midcap and KillGate

`StartFunnel`, `MarketsPage`, `EndPages`, `Resolve` or `SkipToken`, and
`WriteSnapshot` are `midcap-enumerate`; `TopSnapshot` is `midcap-snapshot` and,
with its bars, `midcap-control`; `StartControl` is `midcap-control-snapshot`;
`IngestBars` one pool's request and write; `Break` any error nobody catches.
Rows are inserted one by one: `WriteSnapshotDies`, `TopSnapshotDies` and
`IngestBarsDies` leave the first of them, and a snapshot cut short is the latest
one all the same. A token's deepest pool is that of the first page of its pools,
the only one asked for (`FirstPage`); the top list keeps the first row of an
address (`FirstPerPool`), the table the last (`LastPerPool`).
`NextDay` happens between commands. `snapshots[n].asked`,
`.failed` and `.whole` are what the run's log says; the table keeps `rows` alone.
`RunKillGate` is the `midcap-killgate` command, with and without
`--speculative-only`: `LoadPoolBars`, `SignalValues`, `Run` (`_run`),
`VerdictOf` (`_verdict` and the conditions before it). The trades of a run are a
set: a pool enters at most once on a day, and fires, sums and thresholds do not ask
for an order. The permutation test
counts every subset where the code samples; z-scores are compared by their
signed squares.

What the code does that no property is about: a funnel whose pages gave up still
becomes the latest snapshot; one without a row writes none, since `executemany`
refuses an empty list; two coins with the same deepest pool make one row, whose
bars are ingested twice; horizons count bars while the docs say days, so a gap
in a series lengthens a hold; `min_bars` is asked of the whole series; the
permutation test may be passed at another threshold than the best one; sweeps
and halves with few fires are not judged.

## 3. Runs

| run | instance | shows |
|---|---|---|
| `collector_admission` | two tokens with a bonding-curve and an AMM pool each, two slots of which one reserved, two listing pages of one, one crash, listing failures, both bonding-curve pools with errors that end the process | slot limits, retirement, pins without look-ahead, durable pins, no lock-out, recognition before the first crash; `Collector` implements `PinnedCohort` |
| `collector_tail` | one token with three and two trades of which the first cannot be read, a pool that cannot be mapped, two history pages of one, a pool whose requests fail and may end the process, unreadable checkpoints, one crash; fairness | survivorship and linkage through partial writes, no suppressed swap lost, a healthy pool's swaps are collected although its neighbour fails, aged pools free their slots, every mappable pool that stays within reach of the enumeration is recorded |
| `collector_forgets` | as admission, three slots | finding 1, below |
| `collector_unlisted` | the pools of tail, nothing trades | finding 4 |
| `http_pacing` | two callers, interval 2, two attempts, seven ticks | the request count never runs ahead of the ceiling; late wake-ups bunch two requests at most |
| `http_spaced` | the same | finding 2 |
| `dune_backfill` | six trades of two tokens on three markets, overlapping windows, page 2, batch 3, ceiling 5, two runs | linkage, prefix in time, completeness or a reported cap, creation proxies, termination |
| `dune_trades` | the same | finding 3 |
| `backfill` | three pools (one undated, one that fails, one with an unreadable swap), two listing pages of two, day cap 2, two history pages of one, batches of four with one bar per tick, two ticks, failing writes, one run | linkage through failed flushes and deaths, durability pool by pool, true claims of coverage, final bars, termination |
| `profiler` | a curve pool, the AMM pool it graduates to, another mint's and one that cannot be mapped, fourteen trades of which one is unmapped and one without a price, eight ticks, two ingestion sessions, then any profile | nothing a session met is lost, one position per pool, decisions and outcomes as in a replay to their instant, the curve never overstates fires, late rows change no earlier knowledge |
| `midcap` | six coins, two listing pages, seven pools; a shared deepest pool, a missing reserve, a coin without a mint, one whose deepest pool is on the second page, a pool listed twice, a series that starts late and one that misses a day; requests of c4 and pC may fail, c3's answer may not be JSON, writes may be cut after one row or after six; three commands over two days | a failed token thins no funnel that finishes, the gate's trades are those of an earlier day's gate, UNPROVEN is earned |
| `midcap_aborts` | the same | finding 5 |

**Why these bounds.** What goes wrong here needs few actors. In admission an
eviction needs a full watchlist (two slots), a pin and a victim; recognition
needs the two pools of a token on different pages; the tiers must be exchanged
once (a second token); a stale checkpoint needs one crash after one failed
save. In tailing, the interesting swap is the one that shifts a page (two pages
of one, three trades) next to a pool that fails; the swap of the healthy pool
that must be stored is its second, since its first cannot be read, and the
unmappable pool pushes others off the two listed places. For Dune the ceiling (5) is
not a multiple of the page (2), a batch (3) is not a multiple of the events of
a row (2 or 3), the first window's cohort exceeds the ceiling, and a second run
over another window upserts into the first. Two callers are enough for the
limiter because the lock serialises them. For the backfill, a page shift needs
two pages and a pool or swap that arrives between them, a failed flush needs a
batch that two pools share, and the window (2) is as long as the run's world,
so that coverage is claimed in some runs and not in others.

For the profiler, the AMM pool's tape is long enough for a scored fire, a
censored one and a decision refused by the cooldown, its windows (2, 2 and 6)
differ so that the bounded tail matters, and two sessions let late rows arrive
below rows already stored. For the mid-cap run, three commands are a funnel, its
bars and a verdict, with one of them free to break; momentum reaches `fragile`
with the whole universe and UNPROVEN when flaky c4 is lost, so that the verdict
does depend on what failed, and nearly every verdict is reached for every signal.
None of the safety results rests on the
bounds: each invariant and each action property of these runs is also proved
(section 4).

`MaxTime`, `MaxTrades`, `MaxCrashes`, `MaxClock`, `MaxRuns`, `MaxSessions`,
`MaxDay` and `MaxCommands` bound the model and stand for nothing in the code.
Deadlock is checked where the system runs for ever (Collector); `HTTPProvider`
stops with its clock, `DuneBackfill` and `Backfill` with their last run,
`Profiler` and `KillGate` with the last command the operator starts.

**Fairness.** `Collector!FairSpec` has weak fairness of `Process`, the process
taken as a whole: the event loop runs it on, its requests time out (30 s), and
launchd's KeepAlive restarts it when it has died. Nothing is assumed of the
world, of which pool is served first, or of a request succeeding: failures are
steps of the process too. `MaxCrashes` makes the deaths finite that have no cause
in a pool (`Crash`, errors of the listing among them), which is what "eventually"
needs. `FatalTail` is not bounded: a pool that answers 404 ends tick after tick,
and then no swap of any pool is written, since those of a tick are written
together at its end (`collect.py:330`). `HealthyPoolCollected` therefore assumes,
as a premise in the formula, that these errors come to an end; `SlotsFreed` and
`UniverseRecorded` hold without it, because a tick ages out and writes the universe
before it tails. `DuneBackfill!FairSpec` has weak fairness of a run's own
steps; runs need not be started. `Backfill!FairSpec` is the same: weak fairness
of `Step`, which the event loop and the request timeouts give, and none of the
world, of `Begin` or of `Die`. No fairness is assumed of `HTTPProvider`, `Profiler` and
`KillGate`: what they promise is safety.

### Findings

1. `GraduationRecognised` (violation): `bc_mints` is saved only at the end of a
   tick (`collect.py:432`) while the rows it was learned from are written in
   mid-tick (`collect.py:206`). A crash in between forgets the mints; if the
   bonding-curve pool has left the listed pages by then, the token's AMM pool
   is admitted as discovery. `collect.py:164-165` says `bc_mints` "accumulates
   every mint ever seen". `RecognisedUntilCrash` is the part that holds.
2. `Spaced` (violation): `acquire` computes the next slot from the time read
   before its sleep (`base.py:46`), so after a late wake-up two requests may be
   closer than the interval `base.py:29-30` promises. `NeverAhead` and
   `NearlySpaced` are what holds, and are proved.
3. `EveryTradeStored` (violation, a bug): `to_swap` leaves `instruction_index`
   None (`dune.py:458`), so all trades of a transaction share an `event_id` and
   replace one another. A routed transaction over two markets loses a swap in a
   run that reports no cap.
4. `EveryListedRecorded` (violation): a listed pool `to_pool_created` returns None
   for (no `created_at`, or fewer than two token ids, `dexpaprika.py:134-140`) is
   passed over (`collect.py:193-194`) and never gets its row. `collect.py:163-164`
   says "PoolCreated is always written for every enumerated pool", line 176 the
   same. What holds is `UniverseRecorded`, of pools that can be mapped.
5. `NoTokenAbortsTheRun` (violation): `mcap_rank.py:165` catches
   `RetryableHTTPError` and `httpx.HTTPError`; an answer for one token that is not
   JSON raises a `JSONDecodeError` (`base.py:99`), which is neither, and ends the
   run before its snapshot is written. The comment at `mcap_rank.py:166` says "never
   let one bad token abort a long run". What holds is `OneBadTokenCostsItself`, of
   runs that finish.

## 4. Proofs

All theorems are of the form `Spec => []P` (or an action property), assume only
the named assumptions on the constants (`ConstantsAssumption`, or the one named
after the module), and hold without the bounds' values mattering; one,
`HistoryIsStable`, has a hypothesis more, explained below. TLC evaluates the
assumptions on every run. Each safety invariant and each action property that a
passing run checks is stated by a theorem.

**CollectorProofs.** The inductive invariant `IInv` joins: `ScratchInv` (the
tick's scratch variables are empty outside the phase that fills them, a dead
process has no memory), `OnChain` (what is listed or stored exists, so its
creation time is final), `Sound(mem, rows)` and `Sound(disk, rows)` (tiers
disjoint and within their budgets, watched and retired pools recorded, pins
backed by a stored bonding-curve pool), `RetiredKnown`, `RowsRecorded`,
`BatchRecorded`, `MintsJustified` (a learned mint has its bonding-curve pool in
the store or in what is about to be written: this is why writing the universe
before admitting matters) and the properties themselves. The heart is the lemma
that every member of `Admissions` is sound, which is arithmetic of
cardinalities over `Leading`: the pins fit in the free slots plus the evicted,
and discovery never exceeds its share. `SlotBudget` alone is not inductive: it
needs the tiers to be disjoint and the candidates to be new to the watchlist,
and `PinsJustified` needs `MintsJustified` on disk as well, since a restart
makes the disk's memory the process's. From `IInv` follow `TypeCorrect`,
`BudgetKept`, `RetiredNeverReturns`, `Survivorship`, `NoLookAheadPin`,
`PinsSurviveRestarts`, `NothingLost` and the action property `PinsAreKept`.
`NobodyLockedOut` needs more of an admission than that it is sound: a recognised
graduation that got no slot was short of one, so the pins number what the limit
allows, everybody in discovery was evicted for them, and nobody new was let in.
`RecognisedWhileUp` needs `Remembers`, which is inductive together with `IInv`:
until the first crash the mint of every bonding-curve pool that is stored or on
the page at hand is among those remembered. A process that has not started yet
remembers nothing, and the store is empty then.

**CollectorCohortProofs.** `CohortImplemented` is the refinement: every initial
state maps to one, and every step of `Next` to the abstract step named above or
to a stutter; one lemma per abstract step, `StuttersOtherwise` for the rest. It
uses `IInv` of `CollectorProofs` for the limits and for the evidence of pins,
and strengthens it with `BatchWatched` (the swaps waiting to be written belong
to watched pools), without which `WriteSwaps` and a crash in mid-write might
collect swaps of pools that are not members.

**HTTPProviderProofs.** The argument is about `Due`, the slot the next request
will be given: `nextAt` while somebody sleeps for it, else the later of `nextAt`
and the clock. `SlotInv`: `Due` lies at least `n - k` intervals after the
`k`-th of `n` requests, and `nextAt` at least `n` intervals after the first. A
late sleeper sends after its slot, which moves no other slot; that is
`CeilingKept`, and why `BurstsBounded` loses exactly one interval.

**DuneBackfillProofs.** The reasoning is about `Written`, the rows in the store
and in the batch together. Every step either starts a run, appends a row's
events, moves the batch's first row to the store over the row with its
identity, or is quiet (`StepKinds`). `RowsInv`: rows carry the identity of
their trade and rows of this run come from its stream and from markets it has
seen. On it rest `OrphanInv` (a row that needs a `PoolCreated` finds it in the
store or earlier in the batch, and replacing one leaves one: `NoOrphans`),
`ProxyInv` (the stream is sorted and a market's first row is the proxy:
`ProxyIsFirst`), `StreamInv` (what was consumed is written, and a stream that
ended early has raised a flag: `CompleteOrReported`) and `PrefixInv` (before
every swap of the run come those of all earlier trades, in the store or ahead
in the batch: `TruncatedInTime`).

**BackfillProofs.** Every step leaves store and buffer alone, pushes events, or
loses the buffer in a death after writing a prefix (`Effects`, with `Pushed` and
`Lost`); the lemmas before it say what an `Upsert` of a prefix keeps. `StoreInv`
says that each row's backing (its pool, a wallet event's swap) is in the store
(`Closed`) or earlier in the buffer (`Ordered`), which any prefix written
preserves: `NoOrphans`. `ScratchInv` ties the phase to what is pending, and holds
that the current pool's creation is stored or buffered. `BarInv`: a bar that is
not forming at the cutoff has closed by now, and later swaps fall into later
periods (`ClosedBarIsFinal`): `StoredBarsAreFinal`. `SwapInv` carries durability
through the paging: of the readable swaps the current pool had when the run
began, each is stored or buffered, or on the page at hand, or on a page to come
(`ToCome`), or the history is deeper than the pages (`Deep`). New swaps move old
ones to later pages only, so that a shift repeats swaps and never skips one
(`SwapsLeftStep`); when a pool is through, its flush stores what was kept
(`PoolIsThrough`), and what is stored stays: `PoolsAreDurable`. `DurablePerPool`
alone is not inductive: it says nothing of the pool at hand. `CoverageIsHonest` is
the same argument for the listing: new pools are put before those shown, so that
the pools of the run's beginning which are still to be shown are the first `Ahead`
of the chain, and every qualifying pool after them is in the universe or
was dropped by its full day (`WalkInv`, from `ChainInv`: the chain is in order of
creation). A walk that ends at a pool older than the window has settled every
younger one, and that is what a claim of complete coverage says.

**ExecutionLemmas.** `SumFunction` is a fold, which is by definition a `CHOOSE` of a
function on the subsets of a set that satisfies a recursion. The module states
that recursion without an operator as parameter (`Computes`), shows that such a
function exists and has one value (`ComputesSome`, `ComputesOnce`; both by the
smallest subset that would be a counterexample, since the library's induction
theorems cannot be instantiated), and concludes that a sum of integers is one and that
positive summands have a positive sum. It also has the least element of a set
of integers, a set listed in an order, the existence of the `k`-th smallest value of a
sample (`OrderStatistic`), hence typed medians and quantiles, and the type of a
trade's return (`NetReturnIsInt`), whose divisors are never zero.

**ProfilerProofs.** `NothingMetIsLost` rests on `StoreInv`: what the session has
met is stored together with its wallet event, what it watches has been created,
stored rows are the history's. Tapes are enumerations of finite sets by rank, so
the module first proves that `Earlier` is a strict order under
`HistoryAssumption` (`EarlierOrders`, `RankFacts`), that a tape holds exactly its
set in that order (`TapeFacts`), and the fact that everything below uses: a replay
to a time sees the beginning of each tape (`TapeReplayed`). `OnePosition` rests on
`WalkInv`: `nextAllowed` is at least one horizon past every fire of the current
pool, and fires belong to pools taken out of `todo`, so that no pool is walked
twice. `OnePositionPerPool` alone is not inductive, since it knows nothing of the
cooldown.

- `NoLookAhead` (`DecisionsPointInTime`) has two halves. A decision of the whole
  tape at a swap is one of the tape's beginning (`DecisionReplayed`), because what
  is resolved by *t* in the book built from everything is what is resolved in the
  book of a replay to *t* (`RunupBookReplayed`), and a depth estimate needs earlier
  swaps alone. And the walk's verdict, from a bounded tail, is that of the whole
  tape (`VisibleSuffices`): what the tail has dropped is older than the widest
  window of any later swap, so that no signal asks for it (`StaleIgnored`).
  `FireInv` carries both: each recorded fire has the verdict of the whole tape at its
  place (`Recorded`) and each scored one its return (`Earned`).
- `CurveUnderstates` (`FiresNotOverstated`): the set of places that `Resimulated`
  chooses exists (`GreedyExists`: among the sets that agree with the rule up to a
  place, no first place can fail) and no set of places a horizon apart is larger
  (`GreedyIsMost`: mapping a place to the last greedy one at or before it
  is injective). The fires above a threshold are such a set.
- `ProfileTypes` (`TypeOK`): every figure is a number and no division is by zero,
  from `PoolInv` (the pool at hand has a price and is long enough) and the lemmas
  above; a lift is only computed of a wallet with a resolved trial, so that its
  denominator counts at least that one.
- `HistoryIsStable` (`HistoryStable`): a row arriving late is knowable no earlier
  than `k`, so that both stores have the same replay to `k - 1`, and resolved trials,
  scores and graduations known by then are those of the replay (`PastStays`,
  `AccumulatorBookReplayed`, `GraduationsReplayed`). If rows arrive in order the old
  store is itself a replay of the new one (`Older`), and every count of the census
  and of the book's statistics grows because its members map injectively into the new
  one's (`CurvesStay`, `GraduationsStay`, `StatsRipen`).

`HistoryIsStable` assumes `MinPostGradSwaps <= 1`, the default of
`load_graduated_cohort` (`grad/wallet_book.py:77`) that no caller overrides. The
proof attempt showed that the hypothesis is needed: the cohort drops a pool while
it has fewer post-graduation swaps than that in the whole store
(`wallet_book.py:104`). With 3, TLC finds `HistoryStable` violated: the third swap
admits a pool whose first trials had been resolved before, so that a score
at an earlier instant changes with a row that was not knowable then.

**KillGateProofs.** `OneBadToken` rests on `FunnelInv`: below `pos` each candidate
has failed, has no sized pool, or has its row, and no row belongs to anyone else;
`SnapshotsInv` carries this into the table (`SnapshotKeeps`), of a write cut short
the part that does not ask for completeness (`CutKeeps`), where a later row of a pool
replaces an earlier one (`LastRow`) and two coins with one deepest pool agree on
it. `DeepestIsSized` shows, from finiteness and `IntOrder`, that the `CHOOSE` in
`Deepest` has something to choose; `EligibleCoins` that a page adds coins with a
mint in the FDV band, each once. `BarsInv` says that stored bars are the market's and
closed when they were asked for, `ReportInv` that a report is what
the gate makes of a well-formed panel (`PanelFacts`); together they are `GateInv`,
the inductive invariant (`GateInvariant`).

- `GateReplaysHistory` (`GatePointInTime`): cutting a panel at a day leaves
  the first bars of each series (`CutFacts`, `AtFacts`), each of the four signals looks
  back only (`SignalsLookBack`), and the bars at which a walk fires are, up to the day,
  those of the walk over the cut series (`FiredPrefix`), by the smallest place where
  they would differ. So the trades of the cut panel are those closed by the day
  (`RunOfThePast`).
- `UnprovenIsEarned` (`UnprovenEarned`): a best threshold exists, since thresholds
  are order statistics of a finite sample (`ThresholdsFacts`, `BestIsEligible`),
  halving the depth moves no fire (`HalfDepthSamePlaces`), and the code's comparison of the picked with
  all trades implies the one of picked with rest (`PickedBeatsRest`), which
  is cross-multiplication of fractions (`FractionsOrdered`).
- `TypesHold` (`TypeOK`) types every signal, return and statistic.

Of the constants, `CapacityPart >= 4` is used where the depth is halved: in integers
a pool whose position is not zero must keep a depth when a quarter of its reserve is
assumed. The code's `capacity_frac` of 0.4% is a `CapacityPart` of 250. Of
`Midcap`'s constants the proofs use that rows and bars are well-formed and that a
market lists its bars by day, one a day; the code reads its bars in that order
(`bars.py:79`), whatever order they arrived in.

**Only model-checked.** Liveness (`HealthyPoolCollected`, `SlotsFreed`,
`UniverseRecorded`, and `RunEnds` of both backfills), which the prover does not
reach. That a property can fail at all is shown by its mutant.

## 5. What is not modelled

- Conversions of fields, prices and amounts: floating-point and formatting.
  Where a conversion decides identity or makes nothing of its input (`signed`,
  `venue_phase`, `event_id`, the mappers that return None) it is modelled.
- `seen`, `retired` and `bc_mints` growing without bound: memory is not a state
  a bounded model runs out of.
- In `Backfill`, an indexer that revises a bar after its period has closed: that
  a closed bar's swaps are complete is assumed of it. Pools with fewer than two
  tokens (`Unsplit`) are modelled and proved about, and absent from the instance.
- Which exception other than `RetryableHTTPError` a request raised: in `Collector`
  it is `FatalTail` for a pool being tailed and a `Crash` elsewhere, in `Midcap` a
  `Break`.
- Of the profiler: its permutation test, the sweeps of horizon, depth and rug
  settings in its report, and the rendering. Of the mid-cap commands:
  `midcap-costs`, a report of friction over an instant's reserves, and the
  rendering of the kill gate's.
- In which order the listing and DuckDB return pools of one instant: one order is
  fixed (`slot`), also where the code orders by `event_time` alone
  (`graduation.py:149`). No property depends on which. Nor whether
  the database is opened while another command holds it (it fails at start).
- A pool's reserve is assumed the same for all coins of one funnel run, and
  a bar is not revised after its day, as in `Backfill`.
- Bars of several intervals in one store. The control commands take an interval
  (`cli.py:584,618,676`), and `_load_bars_for` takes what it finds
  (`bars.py:76-80`): an operator who ingests hourly and daily bars of one pool gets
  both in one series. The model's bars are the default's, one a day.
- What is left out of the components that `PROJECT.json` lists as `partly`: each
  says so in its note. The other adapters are modelled only as far as their callers
  depend on them; no component is left out whole.

## 6. Plan

1. `Collector`, `HTTPProvider`, `DuneBackfill`, with their proofs: done.
2. `PinnedCohort` and the refinement `Collector => PinnedCohort`: done.
3. `Backfill` (`ingestion/backfill.py`) with its proofs: done.
4. `LaunchStore` (polling, streaming, quality checks), `WalletBook` (attribution,
   graduation census, labels) and `Profiler` over them, with proofs of every
   property of their run: done.
5. `Midcap` and `KillGate`, with proofs of every property of their run: done.
6. Left: what liveness needs and can be proved without it (a measure that every
   step of a backfill run decreases, for `RunEnds`); bounds of a wallet's score and
   lift for every book; the profiler's sweeps and `midcap-costs`.
