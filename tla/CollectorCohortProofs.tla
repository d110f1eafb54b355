----------------------- MODULE CollectorCohortProofs ------------------------
(***************************************************************************)
(* Proof that Collector implements PinnedCohort, step by step, from the    *)
(* inductive invariant of CollectorProofs.                                 *)
(***************************************************************************)
EXTENDS CollectorCohort, CollectorProofs

(* Only swaps of watched pools are about to be written.                    *)
BatchWatched == \A s \in batch : s[1] \in Watched(mem)

LEMMA WatchedInit == Init => BatchWatched
BY DEF Init, BatchWatched

LEMMA WatchedStep == IInv /\ BatchWatched /\ [Next]_vars => BatchWatched'
<1> SUFFICES ASSUME IInv, BatchWatched, [Next]_vars PROVE BatchWatched'
  OBVIOUS
<1> USE DEF world, scratch
<1>1. pc # "tail" => batch = {}
  BY DEF IInv, ScratchInv
<1>2. ASSUME NEW p \in Pools, TailPage(p) PROVE BatchWatched'
  <2>1. p \in Watched(mem) /\ mem' = mem
    BY <1>2 DEF TailPage, IInv, ScratchInv
  <2>2. \A s \in batch' : s \in batch \/ s[1] = p
    BY <1>2 DEF TailPage
  <2> QED BY <2>1, <2>2 DEF BatchWatched
<1>3. ASSUME pc # "tail", batch' = batch PROVE BatchWatched'
  BY <1>1, <1>3 DEF BatchWatched
<1>4. ASSUME mem' = mem, batch' \in {batch, {}} PROVE BatchWatched'
  BY <1>4 DEF BatchWatched
<1>5. CASE Restart \/ AgeOut \/ FetchPage \/ WritePoolsAndAdmit
  BY <1>3, <1>5 DEF Restart, AgeOut, FetchPage, WritePoolsAndAdmit
<1>6. CASE World \/ TruncateEnumeration \/ (\E p \in Pools : SkipPool(p)) \/ WriteSwaps
           \/ Checkpoint \/ CheckpointFails \/ UNCHANGED vars
  BY <1>4, <1>6 DEF World, Tick, CreatePool, Trade, TruncateEnumeration, SkipPool, WriteSwaps,
                    Checkpoint, CheckpointFails, vars
<1>7. CASE Crash \/ \E p \in Pools : FatalTail(p)
  BY <1>7 DEF Crash, FatalTail, Perish, BatchWatched
<1> QED BY <1>2, <1>5, <1>6, <1>7 DEF Next, Process

----------------------------------------------------------------------------
(* Rows of different kinds, or of different pools and trades, differ.      *)

LEMMA PoolRowsOnly ==
  ASSUME NEW P
  PROVE  /\ \A p : PoolRow(p) \in PoolRows(P) <=> p \in P
         /\ \A s : SwapRow(s) \notin PoolRows(P)
<1>1. \A p, q : PoolRow(p) = PoolRow(q) => p = q
  BY DEF PoolRow
<1>2. \A p, s : PoolRow(p) # SwapRow(s)
  BY DEF PoolRow, SwapRow
<1> QED BY <1>1, <1>2 DEF PoolRows

LEMMA TradeRowsOnly ==
  ASSUME NEW S \in SUBSET SwapIds, NEW D \in SUBSET S
  PROVE  /\ \A p : PoolRow(p) \notin TradeRows(D)
         /\ \A s \in SwapIds : SwapRow(s) \in TradeRows(D) => s \in S
         /\ \A s \in SwapIds, u \in S : SwapRow(s) = SwapRow(u) => s \in S
         /\ \A p, s : PoolRow(p) # SwapRow(s)
<1>1. \A p, s : PoolRow(p) # SwapRow(s) /\ PoolRow(p) # WalletRow(s)
  BY DEF PoolRow, SwapRow, WalletRow
<1>2. \A s, u : SwapRow(s) # WalletRow(u)
  BY DEF SwapRow, WalletRow
<1>3. \A s, u \in SwapIds : SwapRow(s) = SwapRow(u) => s = u
  <2> SUFFICES ASSUME NEW s \in SwapIds, NEW u \in SwapIds, SwapRow(s) = SwapRow(u) PROVE s = u
    OBVIOUS
  <2>1. s[1] = u[1] /\ s[2] = u[2]
    BY DEF SwapRow
  <2> QED BY <2>1 DEF SwapIds
<1> QED BY <1>1, <1>2, <1>3 DEF TradeRows

(* The swaps a step that writes the rows of some of its batch adds.        *)
LEMMA CollectsBatch ==
  ASSUME IInv, BatchWatched, rows \subseteq rows',
         \A s \in SwapIds : SwapRow(s) \in rows' => SwapRow(s) \in rows \/ s \in batch
  PROVE  Cohort!CollectsOfMembers
<1>1. Collected \subseteq Collected'
  BY DEF Collected, SwapIds
<1>2. \A s \in Collected' \ Collected : s \in batch
  BY DEF Collected, SwapIds
<1>3. Watched(mem) = Cohort!Members(CohortOf(mem))
  BY DEF Watched, Cohort!Members, CohortOf
<1> QED BY <1>1, <1>2, <1>3 DEF BatchWatched, Cohort!CollectsOfMembers

----------------------------------------------------------------------------
(* One lemma for each step of the cohort.                                  *)

LEMMA OldGrows ==
  ASSUME IInv, TypeOK', now' >= now, Range(chain) \subseteq Range(chain'),
         \A p \in Range(chain) : createdAt'[p] = createdAt[p]
  PROVE  Old \subseteq Old'
<1> SUFFICES ASSUME NEW p \in Range(chain), Expired(p, MaxPoolAge) PROVE Expired(p, MaxPoolAge)'
  BY DEF Old
<1>1. p \in Pools
  BY RangeType DEF IInv, TypeOK
<1>2. createdAt[p] \in Nat /\ now \in Nat /\ now' \in Nat /\ MaxPoolAge \in Nat
  BY <1>1, ConstantsAssumption DEF IInv, TypeOK
<1> QED BY <1>2 DEF Expired

LEMMA AgeImplemented ==
  ASSUME IInv, TypeOK', Tick \/ \E p \in Pools : CreatePool(p)
  PROVE  Cohort!Age
<1>1. UNCHANGED <<pc, mem, disk, rows>>
  BY DEF Tick, CreatePool
<1>2. Old \subseteq Old'
  <2>1. CASE Tick
    BY <2>1, OldGrows DEF Tick, IInv, TypeOK
  <2>2. ASSUME NEW p \in Pools, CreatePool(p) PROVE Old \subseteq Old'
    <3>1. Range(chain') = Range(chain) \cup {p} /\ p \notin Range(chain)
      BY <2>2, RangeAppend DEF CreatePool, IInv, TypeOK
    <3>2. \A q \in Range(chain) : createdAt'[q] = createdAt[q]
      BY <2>2, <3>1, RangeType DEF CreatePool, IInv, TypeOK
    <3>3. now' >= now
      BY <2>2 DEF CreatePool, IInv, TypeOK
    <3> QED BY <3>1, <3>2, <3>3, OldGrows
  <2> QED BY <2>1, <2>2
<1> QED BY <1>1, <1>2 DEF Cohort!Age, Recorded, Collected

LEMMA ResumeImplemented ==
  ASSUME Restart
  PROVE  Cohort!Resume
<1> USE DEF world, scratch
<1>1. CohortOf(Fresh) = Cohort!Nobody
  BY DEF CohortOf, Fresh, Cohort!Nobody
<1>2. mem' = disk \/ (MayDiscard /\ mem' = Fresh)
  BY DEF Restart
<1>3. Old' = Old /\ Recorded' = Recorded /\ Collected' = Collected
  BY DEF Restart, Old, Expired, Recorded, Collected
<1> QED BY <1>1, <1>2, <1>3 DEF Restart, Cohort!Resume

LEMMA RetireImplemented ==
  ASSUME IInv, AgeOut
  PROVE  Cohort!Retire
<1> USE DEF world, scratch
<1> DEFINE out == Stale(mem)
<1>1. out \in SUBSET Cohort!Members(CohortOf(mem))
  BY DEF Stale, Cohort!Members, CohortOf
<1>2. out \cap mem.grad \subseteq Old
  <2>1. \A p \in out \cap mem.grad : Expired(p, MaxPoolAge)
    BY DEF Stale, IInv, Sound
  <2> QED BY <2>1, KnownOnChain DEF Old, Watched
<1>3. CohortOf(mem)' = [rest |-> mem.disc \ out, pins |-> mem.grad \ out, gone |-> mem.retired \cup out]
  BY DEF AgeOut, CohortOf, IInv, TypeOK, Memory
<1>4. pc # "down" /\ pc' # "down" /\ Old' = Old /\ Recorded' = Recorded
      /\ Collected' = Collected /\ CohortOf(disk)' = CohortOf(disk)
  BY DEF AgeOut, Old, Expired, Recorded, Collected, CohortOf
<1> HIDE DEF out
<1> QED BY <1>1, <1>2, <1>3, <1>4 DEF Cohort!Retire, CohortOf

LEMMA AdmitImplemented ==
  ASSUME IInv, IInv', WritePoolsAndAdmit
  PROVE  Cohort!Admit
<1> USE DEF world, scratch
<1>1. PICK in, out, new : Admits(mem', in, out, new)
  BY AdmissionFacts DEF IInv, WritePoolsAndAdmit
<1>2. /\ in \subseteq Candidates /\ out \subseteq mem.disc /\ new \subseteq Candidates \ in
      /\ mem'.grad = mem.grad \cup in /\ mem'.disc = (mem.disc \ out) \cup new
      /\ mem'.retired = mem.retired \cup out
  BY <1>1 DEF Admits, IInv, TypeOK, Memory
<1>3. rows' = rows \cup PoolRows(Enumerated) /\ pc # "down" /\ pc' # "down"
      /\ UNCHANGED <<now, chain, createdAt, disk>>
  BY DEF WritePoolsAndAdmit, Universe
<1>4. Recorded \subseteq Recorded' /\ Enumerated \subseteq Recorded'
      /\ Collected' = Collected /\ Old' = Old
  <2>1. Enumerated \subseteq Pools
    BY RangeType DEF IInv, TypeOK, Enumerated
  <2> QED BY <1>3, <2>1, PoolRowsOnly DEF Recorded, Collected, Old, Expired, SwapIds
<1>5. in \subseteq Cohort!Newcomers /\ new \subseteq Cohort!Newcomers
  <2>1. Candidates = Enumerated \ (mem.disc \cup mem.grad \cup mem.retired)
    BY DEF Candidates, Watched
  <2> QED BY <1>2, <1>4, <2>1 DEF Cohort!Newcomers, Cohort!Members, CohortOf
<1>6. \A p \in in : \E q \in Recorded' : <<q, p>> \in Graduations
  <2> SUFFICES ASSUME NEW p \in in PROVE \E q \in Recorded' : <<q, p>> \in Graduations
    OBVIOUS
  <2>1. Backed(p, rows')
    BY <1>2 DEF IInv, Sound
  <2>2. p \in Pools
    BY <1>2, CandidateType DEF IInv
  <2> QED BY <2>1, <2>2 DEF Backed, Recorded, Graduations
<1>7. Cohort!Cardinality(Cohort!Members(CohortOf(mem)')) <= WatchMax
      /\ Cohort!Cardinality(CohortOf(mem)'.rest) <= DiscCap
  <2>1. Cardinality(Watched(mem')) <= WatchMax /\ Cardinality(mem'.disc) <= DiscCap
    BY DEF IInv, Sound, DiscCap
  <2>2. Cohort!Members(CohortOf(mem)') = Watched(mem') /\ CohortOf(mem)'.rest = mem'.disc
    BY DEF Cohort!Members, CohortOf, Watched
  <2>3. \A S : Cohort!Cardinality(S) = Cardinality(S)  \* one operator, two names
    BY Zenon DEF Cohort!Cardinality, Cardinality
  <2> QED BY <2>1, <2>2, <2>3
<1>8. /\ CohortOf(mem)' = [rest |-> (mem.disc \ out) \cup new, pins |-> mem.grad \cup in,
                           gone |-> mem.retired \cup out]
      /\ CohortOf(disk)' = CohortOf(disk)
      /\ CohortOf(mem).rest = mem.disc /\ CohortOf(mem).pins = mem.grad
      /\ CohortOf(mem).gone = mem.retired
  BY <1>2, <1>3 DEF CohortOf
<1>9. in \cap new = {}
  BY <1>2
<1>10. \E i, n \in SUBSET Cohort!Newcomers, o \in SUBSET CohortOf(mem).rest :
          /\ i \cap n = {}
          /\ \A p \in i : \E q \in Recorded' : <<q, p>> \in Graduations
          /\ CohortOf(mem)' = [rest |-> (CohortOf(mem).rest \ o) \cup n,
                               pins |-> CohortOf(mem).pins \cup i,
                               gone |-> CohortOf(mem).gone \cup o]
  <2>1. in \in SUBSET Cohort!Newcomers /\ new \in SUBSET Cohort!Newcomers
        /\ out \in SUBSET CohortOf(mem).rest
    BY <1>2, <1>5, <1>8
  <2>2. CohortOf(mem)' = [rest |-> (CohortOf(mem).rest \ out) \cup new,
                          pins |-> CohortOf(mem).pins \cup in,
                          gone |-> CohortOf(mem).gone \cup out]
    BY <1>8
  <2> QED BY <1>6, <1>9, <2>1, <2>2, Zenon
<1>11. UNCHANGED <<Collected, CohortOf(disk), Old, pc # "down">>
  BY <1>3, <1>4, <1>8
<1> QED BY <1>3, <1>4, <1>7, <1>10, <1>11, Zenon DEF Cohort!Admit

LEMMA CollectImplemented ==
  ASSUME IInv, BatchWatched, WriteSwaps
  PROVE  Cohort!Collect
<1> USE DEF world, scratch
<1>1. rows' = rows \cup TradeRows(batch) /\ pc # "down" /\ pc' # "down"
      /\ UNCHANGED <<now, chain, createdAt, mem, disk>>
  BY DEF WriteSwaps
<1>2. batch \in SUBSET SwapIds
  BY DEF IInv, TypeOK
<1>3. Cohort!CollectsOfMembers
  BY <1>1, <1>2, CollectsBatch, TradeRowsOnly
<1>4. Recorded' = Recorded
  BY <1>1, <1>2, TradeRowsOnly DEF Recorded
<1> QED BY <1>1, <1>3, <1>4 DEF Cohort!Collect, Old, Expired, CohortOf

LEMMA SaveImplemented ==
  ASSUME Checkpoint
  PROVE  Cohort!Save
BY DEF Checkpoint, world, scratch, Cohort!Save, Old, Expired, Recorded, Collected, CohortOf

LEMMA LoseImplemented ==
  ASSUME IInv, BatchWatched, pc # "down", Perish
  PROVE  Cohort!Lose
<1> USE DEF world, scratch
<1>1. PICK part \in PartialWrites : rows' = rows \cup part
  BY DEF Perish
<1>2. \A s \in SwapIds : SwapRow(s) \in part => s \in batch
  <2>1. CASE pc = "write_pools"
    <3>1. PartialWrites = {PoolRows(Range(SubSeq(listed, 1, i)) \ Unmapped) : i \in 0..Len(listed)}
      BY <2>1, SMTT(30) DEF PartialWrites
    <3>2. PICK i \in 0..Len(listed) : part = PoolRows(Range(SubSeq(listed, 1, i)) \ Unmapped)
      BY <1>1, <3>1, Zenon
    <3> QED BY <3>2, PoolRowsOnly
  <2>2. CASE pc = "tail" /\ todo = {}
    <3>1. PICK D \in SUBSET batch :
            part = TradeRows(D) \/ \E s \in batch : part = TradeRows(D) \cup {SwapRow(s)}
      BY <2>2 DEF PartialWrites
    <3>2. batch \in SUBSET SwapIds
      BY DEF IInv, TypeOK
    <3>3. /\ \A s \in SwapIds : SwapRow(s) \in TradeRows(D) => s \in batch
          /\ \A s \in SwapIds, u \in batch : SwapRow(s) = SwapRow(u) => s \in batch
      BY <3>1, <3>2, TradeRowsOnly
    <3> QED BY <3>1, <3>3
  <2>3. CASE pc # "write_pools" /\ ~(pc = "tail" /\ todo = {})
    BY <2>3 DEF PartialWrites
  <2> QED BY <2>1, <2>2, <2>3
<1>3. Cohort!CollectsOfMembers
  BY <1>1, <1>2, CollectsBatch
<1>4. CohortOf(mem)' = Cohort!Nobody
  BY DEF Perish, CohortOf, Fresh, Cohort!Nobody
<1>5. Recorded \subseteq Recorded'
  BY <1>1 DEF Recorded
<1> QED BY <1>3, <1>4, <1>5 DEF Perish, Cohort!Lose, Old, Expired, CohortOf

LEMMA StuttersOtherwise ==
  ASSUME IInv,
         \/ (\E p \in Pools : Trade(p) \/ TailPage(p) \/ SkipPool(p))
         \/ FetchPage \/ TruncateEnumeration \/ CheckpointFails \/ UNCHANGED vars
  PROVE  UNCHANGED Cohort!vars
<1> USE DEF world, scratch
<1>1. rows' = rows /\ disk' = disk /\ UNCHANGED <<now, chain, createdAt>>
      /\ (pc = "down" <=> pc' = "down")
  BY DEF Trade, TailPage, SkipPool, FetchPage, TruncateEnumeration, CheckpointFails, vars
<1>2. CohortOf(mem)' = CohortOf(mem)
  <2>1. CASE FetchPage
    BY <2>1 DEF FetchPage, CohortOf, IInv, TypeOK, Memory
  <2>2. CASE mem' = mem
    BY <2>2 DEF CohortOf
  <2> QED
    BY <2>1, <2>2 DEF Trade, TailPage, SkipPool, TruncateEnumeration, CheckpointFails, vars
<1> QED BY <1>1, <1>2 DEF Cohort!vars, Old, Expired, Recorded, Collected, CohortOf

----------------------------------------------------------------------------
LEMMA InitImplemented == Init => Cohort!Init
<1> SUFFICES ASSUME Init PROVE Cohort!Init
  OBVIOUS
<1>1. Range(chain) = {}
  BY DEF Init, Range
<1> QED BY <1>1 DEF Init, Cohort!Init, Cohort!Nobody, Recorded, Collected, Old, CohortOf, Fresh

LEMMA StepImplemented ==
  IInv /\ IInv' /\ BatchWatched /\ [Next]_vars => [Cohort!Next]_(Cohort!vars)
<1> SUFFICES ASSUME IInv, IInv', BatchWatched, [Next]_vars
             PROVE  Cohort!Next \/ UNCHANGED Cohort!vars
  OBVIOUS
<1>1. TypeOK'
  BY DEF IInv
<1>2. Crash \/ (\E p \in Pools : FatalTail(p)) => Perish /\ pc # "down"
  BY DEF Crash, FatalTail
<1> QED
  BY <1>1, <1>2, AgeImplemented, ResumeImplemented, RetireImplemented, AdmitImplemented,
     CollectImplemented, SaveImplemented, LoseImplemented, StuttersOtherwise
     DEF Next, World, Process, Cohort!Next

(* Every behaviour of the collector is, in what its store and its two      *)
(* cohorts hold, a behaviour of PinnedCohort, for every value of the       *)
(* constants (ImplementsCohort).                                           *)
THEOREM CohortImplemented == Spec => ImplementsCohort
<1>1. IInv /\ BatchWatched /\ [Next]_vars => BatchWatched'
  BY WatchedStep
<1>2. Init => IInv /\ BatchWatched
  BY IInit, WatchedInit
<1>3. IInv /\ [Next]_vars => IInv'
  BY IStep
<1> QED
  BY <1>1, <1>2, <1>3, InitImplemented, StepImplemented, PTL
     DEF Spec, ImplementsCohort, Cohort!Spec
=============================================================================
