---------------------------- MODULE LaunchStore -----------------------------
(***************************************************************************)
(* The event store of launches as the short-lived commands use it: `poll`  *)
(* records the newest pools (ingestion/poll.py), `stream` records the N    *)
(* newest pools and then tails their swaps round after round               *)
(* (ingestion/stream.py), and readers replay what was knowable at a time.  *)
(* A command holds the store from start to end: one writer excludes every  *)
(* other command.  A command may die anywhere, also between two rows of    *)
(* one write.                                                              *)
(*                                                                         *)
(* The chain's history is a constant; `now` uncovers it.  Rows are the     *)
(* history's own records: a launch, a trade, and the wallet event of a     *)
(* trade.  Trades carry distinct slots; in what order DuckDB returns trades *)
(* of one slot is left out.  A launch's slot is not the chain's: it stands *)
(* for the order that the listing, and DuckDB's ORDER BY event_time, give  *)
(* launches of one time, taken to be the same at every read.               *)
(***************************************************************************)
EXTENDS Integers, Sequences, FiniteSets, SequencesExt

CONSTANTS
  Launches,    \* [pool, mint, dex, et, slot]: every pool creation of the history
  Trades,      \* [pool, et, slot, side, signer, root, usd, quote]
  Unmapped,    \* rows the adapter cannot map: a trade without id, sender or
               \* time, a pool without a date or with fewer than two tokens
  Latency,     \* knowable_at - event_time
  Pages,       \* pages of newest pools one poll reads ...
  PageLimit,   \* ... and pools on a page
  TxLimit,     \* transactions on the one page a tail reads
  WatchCount,  \* pools a stream watches
  Skew, LatencyLimit,   \* what the quality checks tolerate
  MaxTime, MaxSessions   \* bounds of the model

ASSUME LaunchStoreAssumption ==
  /\ IsFiniteSet(Launches) /\ IsFiniteSet(Trades) /\ Unmapped \subseteq Launches \cup Trades
  /\ {Latency, Pages, PageLimit, TxLimit, WatchCount, Skew, LatencyLimit, MaxTime,
      MaxSessions} \subseteq Nat
  /\ Latency <= Skew /\ Latency <= LatencyLimit

\* The rows of the history: numbers, in a total order of time and slot.
ASSUME HistoryAssumption ==
  /\ \A r \in Launches \cup Trades : r.et \in Nat /\ r.slot \in Nat
  /\ \A x, y \in Launches : x.et = y.et /\ x.slot = y.slot => x = y
  /\ \A x, y \in Trades : x.slot = y.slot => x = y
  /\ \A t \in Trades : {t.root, t.usd, t.quote} \subseteq Nat

VARIABLES
  now,       \* the chain has reached this time
  created,   \* PoolCreated rows
  swaps,     \* Swap rows
  walletEvents,  \* WalletEvent rows, by the trade they are linked to
  holder,    \* the command that has the store open, or "none"
  contexts,  \* the pools a stream watches, in its order
  turn,      \* the position in contexts it tails next
  seen,      \* trades the running stream has met
  sessions   \* ingestion commands started (bound)

storeVars == <<now, created, swaps, walletEvents>>
streamVars == <<contexts, turn, seen>>
ingestVars == <<storeVars, holder, streamVars, sessions>>

KnowableAt(row) == row.et + Latency

\* A finite set in the order of a total order on it.
Ordered(S, Before(_, _)) ==
  [i \in 1..Cardinality(S) |->
     CHOOSE x \in S : Cardinality({y \in S : Before(y, x)}) = i - 1]

Earlier(a, b) == a.et < b.et \/ (a.et = b.et /\ a.slot < b.slot)
Tape(S) == Ordered(S, Earlier)

\* The first n of what has happened among the rows S, newest first.
Newest(S, n) ==
  LET s == Reverse(Tape({r \in S : r.et <= now}))
  IN SubSeq(s, 1, IF n < Len(s) THEN n ELSE Len(s))

\* A pool that cannot be mapped takes one of the n places listed.
NewestLaunches(n) == Newest(ToSet(Newest(Launches, n)) \ Unmapped, n)
Page(p) == Newest({t \in Trades : t.pool = p}, TxLimit)

-----------------------------------------------------------------------------
LaunchInit ==
  /\ now = 0 /\ created = {} /\ swaps = {} /\ walletEvents = {}
  /\ holder = "none" /\ contexts = <<>> /\ turn = 1 /\ seen = {} /\ sessions = 0

\* The chain moves on, whoever holds the store.
Advance ==
  /\ now < MaxTime
  /\ now' = now + 1
  /\ UNCHANGED <<created, swaps, walletEvents, holder, streamVars, sessions>>

Open(command) ==
  /\ holder = "none" /\ sessions < MaxSessions
  /\ holder' = command /\ sessions' = sessions + 1

\* The command ends, or dies: what it held in memory is gone.
Close == holder' = "none" /\ contexts' = <<>> /\ turn' = 1 /\ seen' = {}

StartPoll == Open("poll") /\ UNCHANGED <<storeVars, streamVars>>

\* One tick: the newest pages are read whole and written in one call.
PollTick ==
  /\ holder = "poll"
  /\ created' = created \cup ToSet(NewestLaunches(Pages * PageLimit))
  /\ UNCHANGED <<now, swaps, walletEvents, holder, streamVars, sessions>>

\* The write dies after n rows.
PollDies(n) ==
  /\ holder = "poll"
  /\ n < Len(NewestLaunches(Pages * PageLimit))
  /\ created' = created \cup ToSet(SubSeq(NewestLaunches(Pages * PageLimit), 1, n))
  /\ Close
  /\ UNCHANGED <<now, swaps, walletEvents, sessions>>

\* The stream command writes the creation of each pool it will watch, one by one.
StartStream ==
  /\ Open("stream")
  /\ created' = created \cup ToSet(NewestLaunches(WatchCount))
  /\ contexts' = [i \in DOMAIN NewestLaunches(WatchCount) |-> NewestLaunches(WatchCount)[i].pool]
  /\ turn' = 1 /\ seen' = {}
  /\ UNCHANGED <<now, swaps, walletEvents>>

\* ... and may die after n of them.
StartDies(n) ==
  /\ holder = "none" /\ sessions < MaxSessions
  /\ n < Len(NewestLaunches(WatchCount))
  /\ created' = created \cup ToSet(SubSeq(NewestLaunches(WatchCount), 1, n))
  /\ sessions' = sessions + 1
  /\ UNCHANGED <<now, swaps, walletEvents, holder, streamVars>>

BatchMutant(p) == Reverse(Tape(ToSet(Page(p)) \ seen))   \* unmapped trades too
\* The trades of a page that this session has not met, in the order of the page.
Batch(p) == Reverse(Tape(ToSet(Page(p)) \ (Unmapped \cup seen)))

\* The rows n of a batch's 2 * Len(b) rows leave: a swap, then its wallet event.
SwapsOf(b, n) == {b[i] : i \in {j \in DOMAIN b : 2 * j - 1 <= n}}
WalletsOf(b, n) == {b[i] : i \in {j \in DOMAIN b : 2 * j <= n}}

Write(b, n) ==
  /\ swaps' = swaps \cup SwapsOf(b, n)
  /\ walletEvents' = walletEvents \cup WalletsOf(b, n)

Watched == contexts[turn]

TailPool ==
  /\ holder = "stream" /\ turn <= Len(contexts)
  /\ LET b == Batch(Watched) IN Write(b, 2 * Len(b)) /\ seen' = seen \cup ToSet(b)
  /\ turn' = turn + 1
  /\ UNCHANGED <<now, created, holder, contexts, sessions>>

TailDiesMutant(n) ==   \* the loop goes on to the next pool instead
  /\ holder = "stream" /\ turn <= Len(contexts)
  /\ n < 2 * Len(Batch(Watched))
  /\ Write(Batch(Watched), n)
  /\ seen' = seen \cup ToSet(Batch(Watched)) /\ turn' = turn + 1
  /\ UNCHANGED <<now, created, holder, contexts, sessions>>

\* The ids are in `seen` before the write; a write that fails ends the session.
TailDies(n) ==
  /\ holder = "stream" /\ turn <= Len(contexts)
  /\ n < 2 * Len(Batch(Watched))
  /\ Write(Batch(Watched), n)
  /\ Close
  /\ UNCHANGED <<now, created, sessions>>

\* Every pool was tailed: another round, after a pause, until the time is up.
NextRound ==
  /\ holder = "stream" /\ turn > Len(contexts)
  /\ turn' = 1
  /\ UNCHANGED <<storeVars, holder, contexts, seen, sessions>>

\* The command reaches its end, a request fails, or it is killed between writes.
Stop ==
  /\ holder \in {"poll", "stream"}
  /\ Close
  /\ UNCHANGED <<storeVars, sessions>>

Ingest ==
  \/ StartPoll \/ PollTick \/ StartStream \/ TailPool \/ NextRound \/ Stop
  \/ \E n \in 0..Cardinality(Launches) : PollDies(n) \/ StartDies(n)
  \/ \E n \in 0..(2 * TxLimit) : TailDies(n)

-----------------------------------------------------------------------------
(* EventStore.replay and dataset.load_pools: what readers see *)

Knowable(S, t) == {r \in S : KnowableAt(r) <= t}

\* A swap without a price, or without a value, cannot be used.
Valued(S) == {t \in S : t.root > 0 /\ t.usd > 0}

\* Pools that were created, and pools that only traded.
PoolsOf(c, s) == {l.pool : l \in c} \cup {t.pool : t \in Valued(s)}

PoolTape(s, p) == Tape({t \in Valued(s) : t.pool = p})

\* load_pools(store, min_swaps)
LoadPools(c, s, minSwaps) == {p \in PoolsOf(c, s) : Len(PoolTape(s, p)) >= minSwaps}

-----------------------------------------------------------------------------
(* run_quality_checks: the checks a store of launches and swaps can fail. A *)
(* missing key cannot be written; bars are not written here.               *)

QualityFindings(c, s) ==
  {check \in {"lookahead_knowable_before_event", "future_timestamps", "logical_duplicates",
              "orphan_swaps", "negative_amount_usd", "ingest_latency"} :
     CASE check = "lookahead_knowable_before_event" -> \E r \in c \cup s : KnowableAt(r) < r.et
       [] check = "future_timestamps" ->
            \E r \in c \cup s : r.et > now + Skew \/ KnowableAt(r) > now + Skew
       [] check = "logical_duplicates" -> \E x, y \in s : x # y /\ x.slot = y.slot
       [] check = "orphan_swaps" -> \E t \in s : \A l \in c : l.pool # t.pool
       [] check = "negative_amount_usd" -> \E t \in s : t.usd < 0
       [] check = "ingest_latency" -> \E r \in c \cup s : KnowableAt(r) - r.et > LatencyLimit}

-----------------------------------------------------------------------------
LaunchTypeOK ==
  /\ now \in 0..MaxTime /\ sessions \in 0..MaxSessions
  /\ created \subseteq Launches \ Unmapped
  /\ swaps \subseteq Trades \ Unmapped /\ walletEvents \subseteq Trades \ Unmapped
  /\ holder \in {"none", "poll", "stream", "profile"}
  /\ contexts \in Seq({l.pool : l \in Launches}) /\ turn \in Nat \ {0}
  /\ seen \subseteq Trades

\* What the running stream will not look at again is stored with its wallet
\* event: an id enters `seen` before its rows are written, so a write that
\* failed and was survived would lose them.  And wherever a poll or a stream
\* stops, the quality checks find nothing wrong with what it leaves: the
\* creation of every pool is there before the first of its swaps.
StreamLossless ==
  /\ seen \subseteq swaps /\ seen \subseteq walletEvents
  /\ QualityFindings(created, swaps) = {}
=============================================================================
