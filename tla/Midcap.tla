------------------------------- MODULE Midcap -------------------------------
(***************************************************************************)
(* The mid-cap universe of src/autocrypt/midcap: the funnel from CoinGecko *)
(* ranks to each token's deepest pool (mcap_rank.py), the snapshot of      *)
(* GeckoTerminal's top pools, the snapshots table and the daily bars of    *)
(* the pools in the band (universe.py), as the midcap commands run them,   *)
(* one at a time over one store.                                           *)
(*                                                                         *)
(* A request is answered, gives up after its retries (RetryableHTTPError), *)
(* or breaks: a status, a connection or a body nobody retries.  Rows are   *)
(* inserted one by one, so a command may die in the middle of a write.     *)
(* What each failure costs is the subject.  Pools are rows [pool, reserve]; *)
(* FDV is whether a token is in the band.  Bars are those of interval 1d.  *)
(***************************************************************************)
EXTENDS Integers, Sequences, FiniteSets, SequencesExt, FiniteSetsExt

CONSTANTS
  Coins, Pools,
  Mapped,       \* coins with a Solana mint in /coins/list
  InFdvBand,    \* coins whose FDV is in the band
  Pages,        \* the pages of /coins/markets, each a sequence of coins
  TokenPools,   \* [coin -> its pools in the order served]; none answers 404
  TokenPage,    \* how many of them a page holds; only the first is asked for
  TopPools,     \* the pools of all pages of /pools, with the test of their own FDV
  Flaky,        \* coins and pools whose request may fail
  Malformed,    \* coins whose answer may be a body that is not JSON
  NoReserve,    \* reserve_in_usd is missing
  MinReserve,
  Markets,      \* [pool -> the sequence of its daily bars], by closing day
  OhlcvLimit,
  StartDay, MaxDay, MaxCommands,  \* bounds of the model
  CutAt         \* after how many rows a write may be cut short (a bound too)

Funnel == "coingecko_mcap_ranked"
TopList == "geckoterminal"

ASSUME MidcapAssumption ==
  /\ {Mapped, InFdvBand, Malformed} \subseteq SUBSET Coins
  /\ Pages \in Seq(Seq(Coins))
  /\ \A c \in Coins : TokenPools[c] \in Seq([pool : Pools, reserve : Nat \cup {NoReserve}])
  /\ \A c, d \in Coins : \A r \in ToSet(TokenPools[c]), o \in ToSet(TokenPools[d]) :
       r.pool = o.pool => r = o
  /\ TopPools \in Seq([pool : Pools, reserve : Nat \cup {NoReserve}, fdvOk : BOOLEAN])
  /\ NoReserve \notin Nat /\ TopPools # <<>>
  /\ \A p \in Pools : Markets[p] \in Seq([day : Nat, close : Nat, high : Nat, volume : Nat])
  /\ \A p \in Pools : \A j, k \in DOMAIN Markets[p] : j < k => Markets[p][j].day < Markets[p][k].day
  /\ {MinReserve, OhlcvLimit, StartDay, MaxDay, MaxCommands} \subseteq Nat /\ StartDay <= MaxDay
  /\ TokenPage \in Nat \ {0} /\ CutAt \subseteq Nat \ {0}

VARIABLES
  today,
  snapshots,   \* universe_snapshots: [source, rows] with what the log tells of each:
               \* the candidates asked for, those that failed, whether it is whole
  bars,        \* stored bars: <<pool, bar>>
  command,     \* "none" or the step the running command is at
  control,     \* is the command to ingest bars after its snapshot?
  page,        \* of /coins/markets
  candidates,  \* the funnel's candidates
  rows,        \* the PoolRows of the candidates resolved so far
  failed,      \* candidates whose own request failed
  pos,         \* the candidate to resolve next
  queue,       \* pools whose bars are still to be ingested
  commands     \* commands started (bound)

funnelVars == <<control, page, candidates, rows, failed, pos>>
midcapVars == <<today, snapshots, bars, command, funnelVars, queue, commands>>

-----------------------------------------------------------------------------
\* UniverseBand.contains, given the FDV test's outcome.
InBand(reserve, fdvOk) == reserve # NoReserve /\ reserve >= MinReserve /\ fdvOk

\* The elements of a list at some of its places, in their order.
At(list, places) ==
  [n \in 1..Cardinality(places) |->
     list[CHOOSE k \in places : Cardinality({j \in places : j < k}) = n - 1]]

\* write_snapshot keeps one row a pool: a later row of the same pool replaces it.
Row(r, fdvOk, coin) ==
  [pool |-> r.pool, reserve |-> r.reserve, coin |-> coin, inBand |-> InBand(r.reserve, fdvOk)]

\* enumerate_pools keeps the first row of an address.
FirstPerPool(list) ==
  At(list, {k \in DOMAIN list : \A j \in 1..(k - 1) : list[j].pool # list[k].pool})

LastPerPool(list) ==
  {list[k] : k \in {j \in DOMAIN list : \A l \in (j + 1)..Len(list) : list[l].pool # list[j].pool}}

OfSource(source) == {n \in DOMAIN snapshots : snapshots[n].source = source}

\* ORDER BY reserve DESC.
DeepestFirst(rowSet) ==
  CHOOSE list \in [1..Cardinality(rowSet) -> rowSet] :
    /\ IsInjective(list)
    /\ \A j, k \in DOMAIN list : j < k => list[j].reserve >= list[k].reserve

\* The in-band rows of the latest snapshot of a source, deepest first.
LoadInBand(source) ==
  IF OfSource(source) = {} THEN <<>>
  ELSE DeepestFirst({r \in snapshots[Max(OfSource(source))].rows : r.inBand})

-----------------------------------------------------------------------------
MidcapInit ==
  /\ today = StartDay /\ snapshots = <<>> /\ bars = {} /\ command = "none" /\ queue = <<>>
  /\ commands = 0
  /\ control = FALSE /\ page = 1 /\ candidates = <<>> /\ rows = <<>> /\ failed = {} /\ pos = 1

Forget == control' = FALSE /\ page' = 1 /\ candidates' = <<>> /\ rows' = <<>> /\ failed' = {}
          /\ pos' = 1

NextDay ==
  /\ command = "none" /\ today < MaxDay
  /\ today' = today + 1
  /\ UNCHANGED <<snapshots, bars, command, funnelVars, queue, commands>>

Begin(step) ==
  /\ command = "none" /\ commands < MaxCommands
  /\ command' = step /\ commands' = commands + 1

\* midcap-enumerate: the mint map is one request; without it nothing begins.
StartFunnel(withControl) ==
  /\ Begin("pages")
  /\ control' = withControl
  /\ UNCHANGED <<today, snapshots, bars, page, candidates, rows, failed, pos, queue>>

\* Coins of a page that are new, in the FDV band, and have a mint.
Eligible(list) ==
  LET fresh(k) == \A j \in 1..(k - 1) : list[j] # list[k]
      keep == {k \in DOMAIN list : /\ fresh(k) /\ list[k] \in InFdvBand \cap Mapped
                                   /\ list[k] \notin ToSet(candidates)}
  IN At(list, keep)

MarketsPage ==
  /\ command = "pages" /\ page <= Len(Pages)
  /\ candidates' = candidates \o Eligible(Pages[page])
  /\ page' = page + 1
  /\ UNCHANGED <<today, snapshots, bars, command, control, rows, failed, pos, queue, commands>>

\* The list is exhausted, or a page gave up: go on with what there is.
EndPages ==
  /\ command = "pages"
  /\ command' = "resolve"
  /\ UNCHANGED <<today, snapshots, bars, funnelVars, queue, commands>>

Candidate == candidates[pos]

\* resolve_deepest_pool: none for a 404 and for pools without a reserve.
FirstPage(c) == {TokenPools[c][k] : k \in {j \in DOMAIN TokenPools[c] : j <= TokenPage}}
Sized(c) == {r \in FirstPage(c) : r.reserve # NoReserve}
Deepest(c) == CHOOSE r \in Sized(c) : \A o \in Sized(c) : o.reserve <= r.reserve

Resolving == command = "resolve" /\ pos <= Len(candidates)

Resolve ==
  /\ Resolving
  /\ rows' = IF Sized(Candidate) = {} THEN rows
             ELSE Append(rows, Row(Deepest(Candidate), Candidate \in InFdvBand, Candidate))
  /\ pos' = pos + 1
  /\ UNCHANGED <<today, snapshots, bars, command, control, page, candidates, failed, queue,
                 commands>>

\* RetryableHTTPError or httpx.HTTPError: the token is skipped.
SkipTokenMutant ==   \* the loop is left instead
  /\ Resolving /\ Candidate \in Flaky
  /\ failed' = failed \cup {Candidate}
  /\ pos' = Len(candidates) + 1
  /\ UNCHANGED <<today, snapshots, bars, command, control, page, candidates, rows, queue,
                 commands>>
SkipToken ==
  /\ Resolving /\ Candidate \in Flaky
  /\ failed' = failed \cup {Candidate}
  /\ pos' = pos + 1
  /\ UNCHANGED <<today, snapshots, bars, command, control, page, candidates, rows, queue,
                 commands>>

InBandOf(list) == At(list, {k \in DOMAIN list : list[k].inBand})

\* A death after n of the rows leaves those as the latest snapshot.
Snapshot(source, list, asked, lost, whole) ==
  [source |-> source, rows |-> LastPerPool(list), asked |-> asked, failed |-> lost,
   whole |-> whole]
CutRows(list) == {SubSeq(list, 1, n) : n \in CutAt \cap (1..Len(list))}

\* The snapshot, then the bars if asked for: rows of one pool are ingested twice.
\* Without a row there is no snapshot, and executemany() refuses the empty list.
WriteSnapshot ==
  /\ command = "resolve" /\ pos > Len(candidates)
  /\ snapshots' = IF rows = <<>> THEN snapshots
                  ELSE Append(snapshots,
                              Snapshot(Funnel, rows, ToSet(candidates), failed, TRUE))
  /\ IF control /\ InBandOf(rows) # <<>>
       THEN command' = "bars" /\ queue' = [k \in DOMAIN InBandOf(rows) |-> InBandOf(rows)[k].pool]
       ELSE command' = "none" /\ queue' = <<>>
  /\ Forget
  /\ UNCHANGED <<today, bars, commands>>

WriteSnapshotDies ==
  /\ command = "resolve" /\ pos > Len(candidates)
  /\ \E part \in CutRows(rows) :
       snapshots' = Append(snapshots, Snapshot(Funnel, part, ToSet(candidates), failed, FALSE))
  /\ command' = "none"
  /\ Forget
  /\ UNCHANGED <<today, bars, queue, commands>>

\* midcap-snapshot, and midcap-control when the bars follow: every page must answer.
TopRows == FirstPerPool([k \in DOMAIN TopPools |->
                           Row(TopPools[k], TopPools[k].fdvOk, "none")])
TopSnapshot(withControl) ==
  LET inBand == InBandOf(TopRows)
  IN /\ Begin(IF withControl /\ inBand # <<>> THEN "bars" ELSE "none")
     /\ snapshots' = Append(snapshots, Snapshot(TopList, TopRows, {}, {}, TRUE))
     /\ queue' = IF withControl THEN [k \in DOMAIN inBand |-> inBand[k].pool] ELSE <<>>
     /\ UNCHANGED <<today, bars, funnelVars>>

TopSnapshotDies ==
  /\ Begin("none")
  /\ \E part \in CutRows(TopRows) :
       snapshots' = Append(snapshots, Snapshot(TopList, part, {}, {}, FALSE))
  /\ UNCHANGED <<today, bars, funnelVars, queue>>

\* midcap-control-snapshot: the bars of the latest snapshot's pools.
StartControl(source) ==
  /\ LoadInBand(source) # <<>>
  /\ Begin("bars")
  /\ queue' = [k \in DOMAIN LoadInBand(source) |-> LoadInBand(source)[k].pool]
  /\ UNCHANGED <<today, snapshots, bars, funnelVars>>

\* The indexer lists the latest bars, the one still forming included.
Listed(p) ==
  LET begun == {k \in DOMAIN Markets[p] : Markets[p][k].day <= today + 1}
  IN {Markets[p][k] : k \in {j \in begun : Cardinality({l \in begun : l > j}) < OhlcvLimit}}
ClosedMutant(p) == Listed(p)   \* the forming bar is kept
Closed(p) == {b \in Listed(p) : b.day <= today}

\* One pool: its bars are fetched, then written as the indexer lists them, the
\* latest first.
IngestBars ==
  /\ command = "bars" /\ queue # <<>>
  /\ bars' = bars \cup ({Head(queue)} \X Closed(Head(queue)))
  /\ queue' = Tail(queue)
  /\ UNCHANGED <<today, snapshots, command, funnelVars, commands>>

IngestBarsDies ==
  /\ command = "bars" /\ queue # <<>>
  /\ \E n \in CutAt :
       bars' = bars \cup ({Head(queue)} \X {b \in Closed(Head(queue)) :
                 Cardinality({l \in Closed(Head(queue)) : l.day > b.day}) < n})
  /\ command' = "none" /\ queue' = <<>>
  /\ UNCHANGED <<today, snapshots, funnelVars, commands>>

EndBars ==
  /\ command = "bars" /\ queue = <<>>
  /\ command' = "none"
  /\ UNCHANGED <<today, snapshots, bars, funnelVars, queue, commands>>

\* An error nobody catches ends the command: any request of the lists, an answer
\* for a token that is not JSON, and any failure of one pool's bars.
CanBreak ==
  \/ command = "pages"
  \/ Resolving /\ Candidate \in Malformed
  \/ command = "bars" /\ queue # <<>> /\ Head(queue) \in Flaky

Break ==
  /\ CanBreak
  /\ command' = "none" /\ queue' = <<>>
  /\ Forget
  /\ UNCHANGED <<today, snapshots, bars, commands>>

Ingestion ==
  \/ NextDay
  \/ \E withControl \in BOOLEAN : StartFunnel(withControl) \/ TopSnapshot(withControl)
  \/ MarketsPage \/ EndPages \/ Resolve \/ SkipToken
  \/ WriteSnapshot \/ WriteSnapshotDies \/ TopSnapshotDies
  \/ \E source \in {Funnel, TopList} : StartControl(source)
  \/ IngestBars \/ IngestBarsDies \/ EndBars \/ Break

-----------------------------------------------------------------------------
MidcapTypeOK ==
  /\ today \in StartDay..MaxDay /\ commands \in 0..MaxCommands
  /\ command \in {"none", "pages", "resolve", "bars"}
  /\ control \in BOOLEAN /\ page \in 1..(Len(Pages) + 1) /\ pos \in Nat \ {0}
  /\ candidates \in Seq(InFdvBand \cap Mapped) /\ IsInjective(candidates)
  /\ failed \subseteq ToSet(candidates) /\ queue \in Seq(Pools)
  /\ \A b \in bars : b[1] \in Pools /\ b[2] \in ToSet(Markets[b[1]]) /\ b[2].day <= today

\* A failed token thins no funnel that finishes: such a funnel holds, for every
\* candidate it asked for whose own request did not fail, the deepest pool of
\* the first page of the token's pools, flagged by depth alone; and neither it
\* nor one cut short while writing holds a row nobody asked for
\* (build_midcap_universe, resolve_deepest_pool).
OneBadTokenCostsItself ==
  \A n \in DOMAIN snapshots : LET s == snapshots[n] IN
    s.source = Funnel =>
      /\ s.failed \subseteq Flaky
      /\ s.whole => \A c \in s.asked \ s.failed : Sized(c) # {} =>
           \E r \in s.rows : /\ r.pool = Deepest(c).pool
                             /\ r.inBand <=> Deepest(c).reserve >= MinReserve
      /\ \A r \in s.rows : r.coin \in s.asked \ s.failed /\ r.pool = Deepest(r.coin).pool

\* "never let one bad token abort a long run -- skip it, keep what we have"
\* (mcap_rank.py:166): no funnel ends while it has a candidate to resolve.
NoTokenAbortsTheRun == [][Resolving => command' = "resolve"]_midcapVars
=============================================================================
