----------------------------- MODULE Collector -----------------------------
(***************************************************************************)
(* The forward collector of src/autocrypt/ingestion/collect.py: one        *)
(* asyncio process that, tick after tick, retires old pools, enumerates    *)
(* the newest pools, admits some of them to a bounded watchlist, tails the *)
(* swaps of every watched pool into the event store and checkpoints its    *)
(* memory to disk.  The process may die at any step (laptop sleep, reboot, *)
(* an exception other than RetryableHTTPError) and is restarted by launchd *)
(* from the last checkpoint.                                               *)
(*                                                                         *)
(* A watchlist entry of the code is {ctx, created_at, phase, tier}.  ctx,  *)
(* created_at and phase are functions of the pool, so the watchlist is     *)
(* kept here as two sets of pools, one per tier.                           *)
(*                                                                         *)
(* A definition whose name ends in Mutant is the definition after it with  *)
(* a plausible bug.  Nothing uses it: the checks swap it in to see that    *)
(* the properties notice.                                                  *)
(***************************************************************************)
EXTENDS Integers, Sequences, FiniteSets, Functions

CONSTANTS
  Pools,         \* pool addresses the chain may ever list
  Mints,         \* base mints
  MintOf,        \* [Pools -> Mints], PoolCreated.base_mint
  PhaseOf,       \* [Pools -> Phases], venue_phase(PoolCreated.dex)
  WatchMax,      \* watch_max
  GradReserved,  \* grad_reserved
  MaxPoolAge,    \* max_pool_age_s, the window of a graduation pool
  DiscoveryAge,  \* discovery_age_s, the window of every other pool
  EnumPages,     \* enum_pages
  PageLimit,     \* pools per page of the listing
  TxPages,       \* tx_pages
  TxPageLimit,   \* transactions per page of one pool's history
  Unmapped,      \* pools to_pool_created makes nothing of (undated, one token)
  Unreadable,    \* swaps to_swap makes nothing of (no time, id or sender)
  Flaky,         \* pools whose requests may run out of retries
  Broken,        \* pools whose requests may fail in a way nothing catches
  ListingFails,  \* may a request for a page of the listing run out of retries?
  MayDiscard,    \* may the state file be unreadable or of another version?
  \* bounds of the model, not of the code
  MaxTime, MaxTrades, MaxCrashes,
  TradeBound     \* [Pools -> 0..MaxTrades], how often a pool may trade

Phases == {"BC", "AMM", "OTHER"}

ASSUME ConstantsAssumption ==
  /\ IsFiniteSet(Pools)
  /\ MintOf \in [Pools -> Mints]
  /\ PhaseOf \in [Pools -> Phases]
  /\ {WatchMax, GradReserved, MaxPoolAge, DiscoveryAge} \subseteq Nat
  /\ {EnumPages, PageLimit, TxPages, TxPageLimit} \subseteq Nat \ {0}
  /\ {Unmapped, Flaky, Broken} \subseteq SUBSET Pools
  /\ Unreadable \subseteq Pools \X Nat
  /\ {ListingFails, MayDiscard} \subseteq BOOLEAN
  /\ {MaxTime, MaxTrades, MaxCrashes} \subseteq Nat
  /\ TradeBound \in [Pools -> 0..MaxTrades]

VARIABLES
  \* the world outside: wall clock, and what the chain and its indexer hold
  now,        \* wall clock
  chain,      \* pools in creation order, oldest first
  createdAt,  \* creation time of each pool in chain
  trades,     \* number of swaps each pool has seen
  \* the process
  pc,         \* where run_collect is
  mem,        \* watchlist (by tier), bc_mints, retired
  page,       \* next page of the listing, or of the pool being tailed
  listed,     \* pools listed this tick, in the order they arrived
  todo,       \* watched pools not yet tailed this tick
  tailing,    \* the pool in todo with some pages read already, if any
  batch,      \* swaps fetched this tick and not yet written
  seen,       \* event ids met since the process started
  \* what survives the process
  disk,       \* the checkpoint file
  rows,       \* the event store: rows keyed by event_id
  crashes     \* how often the process has died (bounds the model)

world == <<now, chain, createdAt, trades>>
scratch == <<page, listed, todo, tailing, batch>>
vars == <<world, pc, mem, scratch, seen, disk, rows, crashes>>

Steps == {"age_out", "enumerate", "write_pools", "tail", "checkpoint", "down"}

SwapIds == Pools \X (1..MaxTrades)

RowTypes == {"pool_created", "swap", "wallet_event"}
Rows == [type : RowTypes, pool : Pools, n : 0..MaxTrades]
PoolRow(p)   == [type |-> "pool_created", pool |-> p, n |-> 0]
SwapRow(s)   == [type |-> "swap", pool |-> s[1], n |-> s[2]]
WalletRow(s) == [type |-> "wallet_event", pool |-> s[1], n |-> s[2]]
PoolRows(P)  == {PoolRow(p) : p \in P}
TradeRows(S) == {SwapRow(s) : s \in S} \cup {WalletRow(s) : s \in S}

Memory == [disc : SUBSET Pools, grad : SUBSET Pools,
           bcMints : SUBSET Mints, retired : SUBSET Pools]
FreshMutant == [disc |-> {}, grad |-> {}, bcMints |-> {}]
Fresh == [disc |-> {}, grad |-> {}, bcMints |-> {}, retired |-> {}]
Watched(m) == m.disc \cup m.grad

Least(a, b) == IF a < b THEN a ELSE b
Excess(a, b) == IF a > b THEN a - b ELSE 0

TypeOK ==
  /\ now \in Nat
  /\ chain \in Seq(Pools)
  /\ createdAt \in [Pools -> Nat]
  /\ trades \in [Pools -> 0..MaxTrades]
  /\ pc \in Steps
  /\ mem \in Memory /\ disk \in Memory
  /\ page \in Nat \ {0}
  /\ listed \in Seq(Pools)
  /\ todo \subseteq Pools /\ tailing \subseteq Pools
  /\ batch \subseteq SwapIds /\ seen \subseteq SwapIds
  /\ rows \subseteq Rows
  /\ crashes \in Nat

Init ==
  /\ now = 0 /\ chain = <<>>
  /\ createdAt = [p \in Pools |-> 0] /\ trades = [p \in Pools |-> 0]
  /\ pc = "down" /\ mem = Fresh /\ disk = Fresh
  /\ page = 1 /\ listed = <<>> /\ todo = {} /\ tailing = {} /\ batch = {} /\ seen = {}
  /\ rows = {} /\ crashes = 0

----------------------------------------------------------------------------
(* The world: time passes, pools are created, pools trade.                 *)

Tick ==
  /\ now < MaxTime
  /\ now' = now + 1
  /\ UNCHANGED <<chain, createdAt, trades, pc, mem, scratch, seen, disk, rows, crashes>>

CreatePool(p) ==
  /\ p \notin Range(chain)
  /\ chain' = Append(chain, p)
  /\ createdAt' = [createdAt EXCEPT ![p] = now]
  /\ UNCHANGED <<now, trades, pc, mem, scratch, seen, disk, rows, crashes>>

Trade(p) ==
  /\ p \in Range(chain)
  /\ trades[p] < TradeBound[p]
  /\ trades' = [trades EXCEPT ![p] = @ + 1]
  /\ UNCHANGED <<now, chain, createdAt, pc, mem, scratch, seen, disk, rows, crashes>>

----------------------------------------------------------------------------
(* Start-up.  _load_state returns the checkpoint, or empty memory when the *)
(* file is missing (disk is then Fresh), unreadable or of another version. *)

\* the state is not reloaded: every process starts without pins
RestartMutant ==
  /\ pc = "down"
  /\ mem' = Fresh
  /\ pc' = "age_out"
  /\ UNCHANGED <<world, scratch, seen, disk, rows, crashes>>

Restart ==
  /\ pc = "down"
  /\ mem' \in {disk} \cup (IF MayDiscard THEN {Fresh} ELSE {})
  /\ pc' = "age_out"
  /\ UNCHANGED <<world, scratch, seen, disk, rows, crashes>>

(* _age_out: retire, by age only, every pool whose tier's window elapsed.  *)
Expired(p, window) == now - createdAt[p] > window
\* one window for both tiers; pins never age
OneWindowMutant(m) == {p \in Watched(m) : Expired(p, DiscoveryAge)}
AgelessPinsMutant(m) == {p \in m.disc : Expired(p, DiscoveryAge)}
Stale(m) == {p \in m.grad : Expired(p, MaxPoolAge)}
            \cup {p \in m.disc : Expired(p, DiscoveryAge)}

\* bc_mints is pruned together with the pools it was learned from
AgeOutMutant ==
  /\ pc = "age_out"
  /\ mem' = [mem EXCEPT !.disc = @ \ Stale(mem),
                        !.grad = @ \ Stale(mem),
                        !.retired = @ \cup Stale(mem),
                        !.bcMints = @ \ {MintOf[p] : p \in Stale(mem)}]
  /\ pc' = "enumerate"
  /\ UNCHANGED <<world, scratch, seen, disk, rows, crashes>>

AgeOut ==
  /\ pc = "age_out"
  /\ mem' = [mem EXCEPT !.disc = @ \ Stale(mem),
                        !.grad = @ \ Stale(mem),
                        !.retired = @ \cup Stale(mem)]
  /\ pc' = "enumerate"
  /\ UNCHANGED <<world, scratch, seen, disk, rows, crashes>>

----------------------------------------------------------------------------
(* _enumerate_new_pools.  One action per awaited page: the listing moves   *)
(* under the enumeration, so a page may repeat pools of the one before.    *)
(* A pool to_pool_created returns None for takes its place on a page and   *)
(* is then passed over.                                                    *)

\* pages counted from zero
NewestPageMutant(k) ==
  LET last == Len(chain) - k * PageLimit
  IN  [i \in 1..Least(PageLimit, last) |-> chain[last - i + 1]]

NewestPage(k) ==
  LET last == Len(chain) - (k - 1) * PageLimit
  IN  [i \in 1..Least(PageLimit, last) |-> chain[last - i + 1]]

FetchPage ==
  /\ pc = "enumerate"
  /\ LET got == NewestPage(page)
     IN  /\ listed' = listed \o got
         /\ mem' = [mem EXCEPT !.bcMints =
                      @ \cup {MintOf[p] : p \in {q \in Range(got) \ Unmapped : PhaseOf[q] = "BC"}}]
         /\ IF got = <<>> \/ page = EnumPages
              THEN pc' = "write_pools" /\ UNCHANGED page
              ELSE page' = page + 1 /\ UNCHANGED pc
  /\ UNCHANGED <<world, todo, tailing, batch, seen, disk, rows, crashes>>

(* RetryableHTTPError in mid-enumeration: go on with the pages at hand.    *)
TruncateEnumeration ==
  /\ pc = "enumerate" /\ ListingFails
  /\ pc' = "write_pools"
  /\ UNCHANGED <<world, mem, scratch, seen, disk, rows, crashes>>

(* The k members of S with the least key, or all of S when it has fewer;   *)
(* members with equal keys may be taken in any order.                      *)
Leading(S, k, key) ==
  {T \in SUBSET S : /\ Cardinality(T) = Least(Cardinality(S), k)
                    /\ \A t \in T, u \in S \ T : key[t] <= key[u]}

(* A candidate's place in the order the listing delivered it.              *)
Arrival == [p \in Range(listed) |->
              CHOOSE i \in DOMAIN listed :
                listed[i] = p /\ \A j \in DOMAIN listed : listed[j] = p => i <= j]

Enumerated == Range(listed) \ Unmapped

\* any AMM pool counts; a retired pool is admitted again
IsGraduationMutant(p) == PhaseOf[p] = "AMM"
IsGraduation(p) == PhaseOf[p] = "AMM" /\ MintOf[p] \in mem.bcMints

CandidatesMutant == Enumerated \ Watched(mem)
Candidates == Enumerated \ (Watched(mem) \cup mem.retired)

DiscCap == Excess(WatchMax, GradReserved)

(* Graduations go first: as many as there are free slots and discovery     *)
(* pools to evict, the oldest first, once the watchlist is full.           *)
\* full means full: no eviction; one eviction too few
PinnedMutant(free) == Leading({p \in Candidates : IsGraduation(p)}, free, Arrival)
Pinned(free) ==
  Leading({p \in Candidates : IsGraduation(p)}, free + Cardinality(mem.disc), Arrival)

EvictedMutant(in, free) == Leading(mem.disc, Excess(Cardinality(in), free + 1), createdAt)
Evicted(in, free) == Leading(mem.disc, Excess(Cardinality(in), free), createdAt)

(* The memory _admit_candidates leaves, for each way its ties may fall:    *)
(* the pins, then discovery pools into what is left of their own share.    *)
Admissions ==
  LET free   == Excess(WatchMax, Cardinality(Watched(mem)))
      others == {p \in Candidates : ~IsGraduation(p)}
  IN  UNION {UNION {
        LET disc == mem.disc \ out
            room == Least(Excess(WatchMax, Cardinality(disc \cup mem.grad \cup in)),
                          Excess(DiscCap, Cardinality(disc)))
        IN  {[mem EXCEPT !.grad = @ \cup in, !.disc = disc \cup new, !.retired = @ \cup out] :
               new \in Leading(others, room, Arrival)} :
        out \in Evicted(in, free)} :
        in \in Pinned(free)}

(* The universe: PoolCreated for every pool enumerated, admitted or not.   *)
\* a graduation is taken to be known already
UniverseMutant == PoolRows({p \in Enumerated : ~IsGraduation(p)})
Universe == PoolRows(Enumerated)

(* The synchronous end of the enumeration: the universe is written, then   *)
(* the candidates are admitted.                                            *)
WritePoolsAndAdmit ==
  /\ pc = "write_pools"
  /\ rows' = rows \cup Universe
  /\ mem' \in Admissions
  /\ pc' = "tail" /\ todo' = Watched(mem') /\ page' = 1 /\ listed' = <<>>
  /\ UNCHANGED <<world, tailing, batch, seen, disk, crashes>>

----------------------------------------------------------------------------
(* _tail_watchlist.  One action per awaited page of one pool's history,    *)
(* newest swaps first; a swap that lands between two pages shifts the      *)
(* second.  The history ends at an empty page, at the last page it         *)
(* announces or after TxPages pages.  A swap to_swap returns None for is   *)
(* passed over and not remembered as seen.                                 *)

TxPage(p, k) == {n \in 1..trades[p] : (trades[p] - n) \div TxPageLimit = k - 1}

TailPage(p) ==
  /\ pc = "tail"
  /\ p \in todo /\ tailing \subseteq {p}
  /\ LET got == ({p} \X TxPage(p, page)) \ (Unreadable \cup seen)
     IN  batch' = batch \cup got /\ seen' = seen \cup got
  /\ IF page = TxPages \/ page * TxPageLimit >= trades[p]
       THEN todo' = todo \ {p} /\ tailing' = {} /\ page' = 1
       ELSE tailing' = {p} /\ page' = page + 1 /\ UNCHANGED todo
  /\ UNCHANGED <<world, pc, mem, listed, disk, rows, crashes>>

(* RetryableHTTPError: on to the next pool.  What was fetched before the   *)
(* failure is kept, and the pool stays watched.                            *)
\* what was fetched of the pool is dropped; the pools after it are skipped
SkipPoolMutant(p) ==
  /\ pc = "tail"
  /\ p \in todo \cap Flaky /\ tailing \subseteq {p}
  /\ todo' = todo \ {p} /\ tailing' = {} /\ page' = 1
  /\ batch' = {s \in batch : s[1] # p}
  /\ UNCHANGED <<world, pc, mem, listed, seen, disk, rows, crashes>>
SkipRestMutant(p) ==
  /\ pc = "tail"
  /\ p \in todo \cap Flaky /\ tailing \subseteq {p}
  /\ todo' = {} /\ tailing' = {} /\ page' = 1
  /\ UNCHANGED <<world, pc, mem, listed, batch, seen, disk, rows, crashes>>

SkipPool(p) ==
  /\ pc = "tail"
  /\ p \in todo \cap Flaky /\ tailing \subseteq {p}
  /\ todo' = todo \ {p} /\ tailing' = {} /\ page' = 1
  /\ UNCHANGED <<world, pc, mem, listed, batch, seen, disk, rows, crashes>>

WriteSwaps ==
  /\ pc = "tail"
  /\ todo = {}
  /\ rows' = rows \cup TradeRows(batch)
  /\ batch' = {}
  /\ pc' = "checkpoint"
  /\ UNCHANGED <<world, mem, page, listed, todo, tailing, seen, disk, crashes>>

(* _save_state: a temporary file, then os.replace.  An OSError is logged   *)
(* and leaves the previous file in place.                                  *)
\* the file leaves out what was retired
CheckpointMutant ==
  /\ pc = "checkpoint"
  /\ disk' = [mem EXCEPT !.retired = {}]
  /\ pc' = "age_out"
  /\ UNCHANGED <<world, mem, scratch, seen, rows, crashes>>

Checkpoint ==
  /\ pc = "checkpoint"
  /\ disk' = mem
  /\ pc' = "age_out"
  /\ UNCHANGED <<world, mem, scratch, seen, rows, crashes>>

CheckpointFails ==
  /\ pc = "checkpoint"
  /\ pc' = "age_out"
  /\ UNCHANGED <<world, mem, scratch, seen, disk, rows, crashes>>

----------------------------------------------------------------------------
(* The process dies.  Rows are inserted one by one, pools in the order     *)
(* they were listed and each swap followed by its wallet event, so a write *)
(* under way may have left some of its rows.                               *)

\* the wallet event goes before its swap
PartialWritesMutant ==
  IF pc = "tail" /\ todo = {}
    THEN {TradeRows(done) \cup {WalletRow(s)} : done \in SUBSET batch, s \in batch}
  ELSE {{}}

PartialWrites ==
  IF pc = "write_pools" THEN {PoolRows(Range(SubSeq(listed, 1, i)) \ Unmapped) : i \in 0..Len(listed)}
  ELSE IF pc = "tail" /\ todo = {}
    THEN {TradeRows(done) : done \in SUBSET batch}
         \cup {TradeRows(done) \cup {SwapRow(s)} : done \in SUBSET batch, s \in batch}
  ELSE {{}}

(* Deaths are counted up to one more than MaxCrashes.                      *)
Perish ==
  /\ \E part \in PartialWrites : rows' = rows \cup part
  /\ pc' = "down" /\ mem' = Fresh /\ seen' = {}
  /\ page' = 1 /\ listed' = <<>> /\ todo' = {} /\ tailing' = {} /\ batch' = {}
  /\ crashes' = Least(crashes + 1, MaxCrashes + 1)
  /\ UNCHANGED <<world, disk>>

(* A death with no cause in the program: reboot, laptop sleep, kill.       *)
Crash ==
  /\ pc # "down"
  /\ crashes < MaxCrashes
  /\ Perish

(* Any other error than RetryableHTTPError while p is tailed (a 404, a     *)
(* read timeout) ends run_collect: the tick's swaps are never written.     *)
(* Nothing bounds how often, the pool is still in the checkpoint.          *)
FatalTail(p) ==
  /\ pc = "tail"
  /\ p \in todo \cap Broken /\ tailing \subseteq {p}
  /\ Perish

----------------------------------------------------------------------------
World == Tick \/ (\E p \in Pools : CreatePool(p) \/ Trade(p))

Process ==
  \/ Restart \/ AgeOut
  \/ FetchPage \/ TruncateEnumeration \/ WritePoolsAndAdmit
  \/ (\E p \in Pools : TailPage(p) \/ SkipPool(p) \/ FatalTail(p))
  \/ WriteSwaps
  \/ Checkpoint \/ CheckpointFails

Next == World \/ Process \/ Crash

Spec == Init /\ [][Next]_vars

(* The event loop keeps running the process, and launchd (KeepAlive)       *)
(* restarts it when it has died; nothing is owed by the world.             *)
FairSpec == Spec /\ WF_vars(Process)

----------------------------------------------------------------------------
(* What the store and the memory of the collector must agree on.           *)

(* The discovery tier keeps to its own share, so that GradReserved slots   *)
(* are open to graduations, and the watchlist never outgrows WatchMax,     *)
(* across evictions, crashes and reloads (_admit_candidates 225-230).      *)
SlotBudget ==
  \A m \in {mem, disk} :
    /\ Cardinality(Watched(m)) <= WatchMax
    /\ Cardinality(m.disc) <= DiscCap

(* A pool once retired is never watched again, also after a restart from a *)
(* checkpoint older than the memory that died: what the file calls retired *)
(* the running process does not watch (_age_out 349).                      *)
RetiredStaysOut ==
  /\ \A m \in {mem, disk} : Watched(m) \cap m.retired = {}
  /\ ~MayDiscard => Watched(mem) \cap disk.retired = {}

(* Survivorship: no pool is watched, retired or has a swap stored unless   *)
(* its PoolCreated row is in the store, whatever write a crash cut short   *)
(* (161-164; the orphan check of quality/checks.py).                       *)
SurvivorshipSafe ==
  /\ \A m \in {mem, disk} : PoolRows(Watched(m) \cup m.retired) \subseteq rows
  /\ \A r \in rows : PoolRow(r.pool) \in rows

(* Every pin, in memory or in the checkpoint, is an AMM pool for whose     *)
(* mint a bonding-curve pool is already in the store: the label uses no    *)
(* look-ahead (_is_graduation 137-140).                                    *)
PinsJustified ==
  \A m \in {mem, disk} : \A p \in m.grad :
    /\ PhaseOf[p] = "AMM"
    /\ \E q \in Pools : PhaseOf[q] = "BC" /\ MintOf[q] = MintOf[p] /\ PoolRow(q) \in rows

(* A pin the checkpoint holds is tailed by every later process until its   *)
(* window has elapsed: "pinned graduations keep being tailed across        *)
(* process restarts" (_load_state 48-49).                                  *)
DurablePins ==
  pc # "down" /\ ~MayDiscard => \A p \in disk.grad \ mem.grad : Expired(p, MaxPoolAge)

(* A running process lets go of a pin only because the pin is too old: no  *)
(* admission, failed request or failed checkpoint drops one.               *)
PinKept ==
  [][\A p \in mem.grad : p \in mem'.grad \/ Expired(p, MaxPoolAge) \/ pc' = "down"]_vars

(* An event id the process will not fetch again is in the store or in the  *)
(* batch it is about to write: skipping a pool loses nothing (302-321).    *)
NoSwapLost == \A s \in seen \ batch : {SwapRow(s), WalletRow(s)} \subseteq rows

(* A wallet event in the store is linked to a swap in the store, also      *)
(* after a write cut short (WalletEvent.linked_event_id).                  *)
WalletLinked ==
  \A r \in rows : r.type = "wallet_event" => [r EXCEPT !.type = "swap"] \in rows

(* No admission locks a recognised graduation out while a discovery pool   *)
(* holds a slot (_admit_candidates 226-228).                               *)
NeverLockedOut ==
  [][pc = "write_pools" /\ pc' = "tail" =>
       \A p \in Candidates : IsGraduation(p) =>
         p \in mem'.grad \/ (mem'.disc = {} /\ Cardinality(mem'.grad) >= WatchMax)]_vars

(* "bc_mints accumulates every mint ever seen on a bonding-curve venue"    *)
(* (164-166): an AMM pool for a mint whose bonding-curve pool the store    *)
(* holds is never admitted as a mere discovery pool.                       *)
Unrecognised(p) ==
  PhaseOf[p] = "AMM" /\ \E q \in Pools :
    PhaseOf[q] = "BC" /\ MintOf[p] = MintOf[q] /\ PoolRow(q) \in rows'
AdmittedToDiscovery == IF pc = "write_pools" /\ pc' = "tail" THEN mem'.disc \ mem.disc ELSE {}

GraduationRecognised == [][\A p \in AdmittedToDiscovery : ~Unrecognised(p)]_vars

(* The same of a collector that has never died (_is_graduation 137-140).   *)
RecognisedUntilCrash ==
  [][crashes = 0 => \A p \in AdmittedToDiscovery : ~Unrecognised(p)]_vars

(* "PoolCreated is always written for every enumerated pool" (163): by the *)
(* end of an enumeration every pool it was shown has its row.              *)
EveryListedRecorded ==
  [][pc = "write_pools" /\ pc' = "tail" => PoolRows(Range(listed)) \subseteq rows']_vars

(* Under fairness: a readable swap of a watched pool whose own requests do *)
(* not fail is stored, also when other pools exhaust their retries tick    *)
(* after tick (293-299), provided the errors nothing catches, each of      *)
(* which ends the tick for every pool, come to an end.  Excused are a pool *)
(* that stops being watched and a swap that later ones push off the pages  *)
(* a tick reads.                                                           *)
InWindow(s) == trades[s[1]] >= s[2] /\ trades[s[1]] - s[2] < TxPages * TxPageLimit

HealthyPoolCollected ==
  <>[][\A p \in Broken : ~FatalTail(p)]_vars =>
    \A s \in ((Pools \ (Flaky \cup Broken)) \X (1..MaxTrades)) \ Unreadable :
      (s[1] \in Watched(mem) /\ InWindow(s))
        ~> \/ SwapRow(s) \in rows
           \/ pc # "down" /\ s[1] \notin Watched(mem)
           \/ ~InWindow(s)

(* Under fairness: a pool past its window gives its slot back in a process *)
(* that runs, "so the watchlist never freezes" (run_collect 386-387).      *)
PastWindow(p) == \/ p \in mem.grad /\ Expired(p, MaxPoolAge)
                 \/ p \in mem.disc /\ Expired(p, DiscoveryAge)

SlotsFreed == \A p \in Pools : PastWindow(p) ~> (pc # "down" /\ p \notin Watched(mem))

(* Under fairness: a pool the listing shows within EnumPages pages, and    *)
(* that can be mapped, gets its PoolCreated row, although the listing      *)
(* shifts from page to page and other pools' errors end the process,       *)
(* unless newer pools push it off those pages first (161-162).             *)
OnListing(p) ==
  p \in {chain[i] : i \in {j \in DOMAIN chain : Len(chain) - j < EnumPages * PageLimit}}

UniverseRecorded ==
  ~ListingFails => \A p \in Pools \ Unmapped : OnListing(p) ~> (PoolRow(p) \in rows \/ ~OnListing(p))
=============================================================================
