------------------------- MODULE DuneBackfillProofs -------------------------
(***************************************************************************)
(* Proofs about DuneBackfill: for every archive, window, page, batch and   *)
(* row limit, any number of runs and any way they may die.                 *)
(***************************************************************************)
EXTENDS DuneBackfill, FiniteSetTheorems, TLAPS

(* What a run's place in its stream says of its counters.                  *)
PcInv ==
  /\ pc # "idle" => run >= 1
  /\ pc = "poll" => polls < MaxPolls /\ yielded = 0
  /\ pc \in {"page", "consume"} => yielded < MaxRows
  /\ pc = "consume" => yielded < pageEnd

----------------------------------------------------------------------------
(* Types.                                                                  *)

LEMMA Constants ==
  /\ {PageSize, MaxRows, WriteBatch, MaxPolls, MaxRuns} \subseteq Nat \ {0}
  /\ Archive \subseteq Trades
BY ConstantsAssumption

LEMMA RowTypes ==
  ASSUME TypeOK, run >= 1, NEW t \in Archive
  PROVE  PoolRow(t) \in Rows /\ SwapRow(t) \in Rows /\ WalletRow(t) \in Rows
<1>1. t.market \in Markets /\ t.tx \in Txs /\ <<t.tx, t.side>> \in Txs \X {"buy", "sell"}
  BY Constants DEF Trades
<1>2. run \in 1..MaxRuns
  BY Constants DEF TypeOK
<1> QED BY <1>1, <1>2 DEF PoolRow, SwapRow, WalletRow, Rows, Keys

(* The row consumed, and what is appended to the batch for it.             *)
LEMMA Consumed ==
  ASSUME TypeOK, PcInv, ConsumeRow
  PROVE  /\ yielded \in Nat /\ yielded + 1 \in 1..Len(result)
         /\ result[yielded + 1] \in Archive
         /\ yielded + 1 <= pageEnd /\ yielded + 1 <= MaxRows
<1>1. yielded \in Nat /\ pageEnd \in Nat /\ Len(result) \in Nat /\ yielded < pageEnd
      /\ pageEnd <= Len(result) /\ yielded < MaxRows /\ MaxRows \in Nat
  BY Constants DEF TypeOK, PcInv, ConsumeRow
<1>2. yielded + 1 \in 1..Len(result)
  BY <1>1
<1> QED BY <1>1, <1>2 DEF TypeOK

LEMMA Appended ==
  ASSUME TypeOK, PcInv, ConsumeRow, NEW t, t = result[yielded + 1]
  PROVE  /\ batch' \in Seq(Rows) /\ Len(batch') \in Nat /\ Len(batch) \in Nat
         /\ Len(batch') >= Len(batch)
         /\ \A i \in 1..Len(batch) : batch'[i] = batch[i]
         /\ \/ ~t.signed /\ batch' = batch /\ seenMarkets' = seenMarkets
            \/ /\ t.signed /\ t.market \in seenMarkets /\ seenMarkets' = seenMarkets
               /\ Len(batch') = Len(batch) + 2
               /\ batch'[Len(batch) + 1] = SwapRow(t) /\ batch'[Len(batch) + 2] = WalletRow(t)
            \/ /\ t.signed /\ t.market \notin seenMarkets
               /\ seenMarkets' = seenMarkets \cup {t.market}
               /\ Len(batch') = Len(batch) + 3
               /\ batch'[Len(batch) + 1] = PoolRow(t)
               /\ batch'[Len(batch) + 2] = SwapRow(t) /\ batch'[Len(batch) + 3] = WalletRow(t)
<1>1. t \in Archive /\ run >= 1
  BY Consumed DEF ConsumeRow, PcInv
<1>2. PoolRow(t) \in Rows /\ SwapRow(t) \in Rows /\ WalletRow(t) \in Rows
  BY <1>1, RowTypes
<1>3. batch' = batch \o Events(t) /\ batch \in Seq(Rows)
      /\ seenMarkets' = IF t.signed THEN seenMarkets \cup {t.market} ELSE seenMarkets
  BY DEF ConsumeRow, TypeOK
<1>4. CASE ~t.signed
  BY <1>3, <1>4 DEF Events
<1>5. CASE t.signed /\ t.market \in seenMarkets
  <2>1. Events(t) = <<SwapRow(t), WalletRow(t)>>
    BY <1>5 DEF Events
  <2> HIDE DEF Events
  <2> QED BY <1>2, <1>3, <1>5, <2>1
<1>6. CASE t.signed /\ t.market \notin seenMarkets
  <2>1. Events(t) = <<PoolRow(t), SwapRow(t), WalletRow(t)>>
    BY <1>6 DEF Events
  <2> QED BY <1>2, <1>3, <1>6, <2>1
<1> QED BY <1>4, <1>5, <1>6

LEMMA TypeStep == TypeOK /\ PcInv /\ [Next]_vars => (TypeOK /\ PcInv)'
<1> SUFFICES ASSUME TypeOK, PcInv, [Next]_vars PROVE (TypeOK /\ PcInv)'
  OBVIOUS
<1> USE Constants
<1>1. ASSUME NEW w \in Windows, Execute(w) PROVE (TypeOK /\ PcInv)'
  <2>1. result' \in Seq(Archive)
    <3>1. PICK n \in Nat : result' \in [1..n -> Archive]
      <4>1. Cohort(w) \subseteq Archive
        BY DEF Cohort, Scan
      <4>2. IsFiniteSet(Cohort(w))
        BY <4>1, ConstantsAssumption, FS_Subset
      <4>3. Cardinality(Cohort(w)) \in Nat
        BY <4>2, FS_CardinalityType
      <4> QED BY <1>1, <4>1, <4>3 DEF Execute, QueryResults, Injection
    <3> QED BY <3>1
  <2>2. Len(result') \in Nat /\ run' \in 1..MaxRuns
    BY <1>1, <2>1 DEF Execute, TypeOK
  <2>3. TypeOK'
    <3>1. batch' \in Seq(Rows)
      BY <1>1 DEF Execute
    <3>2. hitMax' \in BOOLEAN /\ hitCredit' \in BOOLEAN
      BY <1>1 DEF Execute
    <3> QED BY <1>1, <2>1, <2>2, <3>1, <3>2 DEF Execute, TypeOK
  <2>4. PcInv'
    BY <1>1, <2>2 DEF Execute, PcInv
  <2> QED BY <2>3, <2>4
<1>2. CASE StillExecuting
  BY <1>2 DEF StillExecuting, locals, TypeOK, PcInv
<1>3. CASE Completed
  BY <1>3 DEF Completed, progress, locals, TypeOK, PcInv
<1>4. CASE FetchPage
  BY <1>4 DEF FetchPage, Least, locals, TypeOK, PcInv
<1>5. CASE CreditCap
  BY <1>5 DEF CreditCap, progress, TypeOK, PcInv
<1>6. CASE ConsumeRow
  <2>1. seenMarkets' \subseteq Markets
    BY <1>6, Consumed DEF ConsumeRow, TypeOK, Trades
  <2>2. pc' \in {"flush", AfterRow(yielded + 1)}
    BY <1>6 DEF ConsumeRow
  <2>3. yielded' = yielded + 1 /\ hitMax' \in BOOLEAN
    BY <1>6 DEF ConsumeRow, TypeOK, ReachesMax
  <2>4. TypeOK'
    BY <1>6, <2>1, <2>2, <2>3, Consumed, Appended DEF ConsumeRow, AfterRow, TypeOK
  <2>5. PcInv'
    BY <1>6, <2>2, <2>3, Consumed DEF ConsumeRow, AfterRow, PcInv, TypeOK
  <2> QED BY <2>4, <2>5
<1>7. CASE WriteRow
  <2>1. Head(batch) \in Rows /\ Tail(batch) \in Seq(Rows)
    BY <1>7 DEF WriteRow, TypeOK
  <2>2. rows' \subseteq Rows
    BY <1>7, <2>1 DEF WriteRow, Upsert, TypeOK
  <2> QED BY <1>7, <2>1, <2>2 DEF WriteRow, progress, TypeOK, PcInv
<1>8. CASE Flushed
  BY <1>8 DEF Flushed, AfterRow, progress, locals, TypeOK, PcInv
<1>9. CASE Report
  BY <1>9 DEF Report, progress, locals, TypeOK, PcInv
<1>10. CASE Die
  BY <1>10 DEF Die, progress, TypeOK, PcInv
<1>11. CASE UNCHANGED vars
  BY <1>11 DEF vars, progress, locals, TypeOK, PcInv
<1> QED
  BY <1>1, <1>2, <1>3, <1>4, <1>5, <1>6, <1>7, <1>8, <1>9, <1>10, <1>11 DEF Next, Advance

LEMMA TypeInit == Init => TypeOK /\ PcInv
<1> SUFFICES ASSUME Init PROVE TypeOK /\ PcInv
  OBVIOUS
<1>1. result \in Seq(Archive) /\ batch \in Seq(Rows) /\ Len(result) = 0
  BY DEF Init
<1>2. hitMax \in BOOLEAN /\ hitCredit \in BOOLEAN
  BY DEF Init
<1> QED BY <1>1, <1>2, Constants DEF Init, TypeOK, PcInv

(* Every reachable state is well-typed; in particular no run consumes more *)
(* than max_rows rows or polls more than max_polls times.                  *)
THEOREM TypeCorrect == Spec => []TypeOK
<1>1. TypeOK /\ PcInv => TypeOK
  OBVIOUS
<1> QED BY <1>1, TypeInit, TypeStep, PTL DEF Spec

----------------------------------------------------------------------------
(* What happens to the rows written and about to be written.               *)

InBatch == {batch[i] : i \in 1..Len(batch)}
Written == rows \cup InBatch

(* Steps that neither consume nor write a row: they may drop the batch.    *)
Quiet ==
  /\ rows' = rows /\ run' = run /\ result' = result /\ yielded' = yielded
  /\ batch' = batch \/ batch' = <<>>
  /\ pc' # "idle" => pc # "idle" /\ seenMarkets' = seenMarkets /\ batch' = batch

LEMMA StepKinds ==
  ASSUME [Next]_vars
  PROVE  (\E w \in Windows : Execute(w)) \/ ConsumeRow \/ WriteRow \/ Quiet
<1>1. CASE StillExecuting
  BY <1>1 DEF StillExecuting, locals, Quiet
<1>2. CASE Completed
  BY <1>2 DEF Completed, progress, locals, Quiet
<1>3. CASE FetchPage
  BY <1>3 DEF FetchPage, locals, Quiet
<1>4. CASE CreditCap
  BY <1>4 DEF CreditCap, progress, Quiet
<1>5. CASE Flushed
  BY <1>5 DEF Flushed, progress, locals, Quiet
<1>6. CASE Report
  BY <1>6 DEF Report, progress, locals, Quiet
<1>7. CASE Die
  BY <1>7 DEF Die, progress, Quiet
<1>8. CASE UNCHANGED vars
  BY <1>8 DEF vars, progress, locals, Quiet
<1> QED BY <1>1, <1>2, <1>3, <1>4, <1>5, <1>6, <1>7, <1>8 DEF Next, Advance

LEMMA WrittenQuietly ==
  ASSUME TypeOK, Quiet
  PROVE  Written' \subseteq Written /\ InBatch' \subseteq InBatch
BY DEF Quiet, Written, InBatch

LEMMA WrittenConsuming ==
  ASSUME TypeOK, PcInv, ConsumeRow, NEW t, t = result[yielded + 1]
  PROVE  /\ rows' = rows /\ InBatch \subseteq InBatch'
         /\ Written' \subseteq Written \cup {PoolRow(t), SwapRow(t), WalletRow(t)}
         /\ t.signed => {SwapRow(t), WalletRow(t)} \subseteq InBatch'
         /\ ~t.signed => Written' = Written
         /\ t.market \in seenMarkets => Written' \subseteq Written \cup {SwapRow(t), WalletRow(t)}
         /\ t.signed /\ t.market \notin seenMarkets => PoolRow(t) \in InBatch'
<1>1. rows' = rows
  BY DEF ConsumeRow
<1>2. CASE ~t.signed /\ batch' = batch
  BY <1>1, <1>2, Appended DEF Written, InBatch
<1>3. CASE /\ t.signed /\ t.market \in seenMarkets
           /\ Len(batch') = Len(batch) + 2
           /\ batch'[Len(batch) + 1] = SwapRow(t) /\ batch'[Len(batch) + 2] = WalletRow(t)
  <2>1. \A i \in 1..Len(batch') : i \in 1..Len(batch) \/ i = Len(batch) + 1 \/ i = Len(batch) + 2
    BY <1>3, Appended
  <2>2. InBatch' \subseteq InBatch \cup {SwapRow(t), WalletRow(t)}
    BY <1>3, <2>1, Appended DEF InBatch
  <2>3. Len(batch) + 1 \in 1..Len(batch') /\ Len(batch) + 2 \in 1..Len(batch')
        /\ \A i \in 1..Len(batch) : i \in 1..Len(batch')
    BY <1>3, Appended
  <2>4. InBatch \cup {SwapRow(t), WalletRow(t)} \subseteq InBatch'
    BY <1>3, <2>3, Appended DEF InBatch
  <2> QED BY <1>1, <1>3, <2>2, <2>4 DEF Written
<1>4. CASE /\ t.signed /\ t.market \notin seenMarkets
           /\ Len(batch') = Len(batch) + 3
           /\ batch'[Len(batch) + 1] = PoolRow(t)
           /\ batch'[Len(batch) + 2] = SwapRow(t) /\ batch'[Len(batch) + 3] = WalletRow(t)
  <2>1. \A i \in 1..Len(batch') :
          i \in 1..Len(batch) \/ i = Len(batch) + 1 \/ i = Len(batch) + 2 \/ i = Len(batch) + 3
    BY <1>4, Appended
  <2>2. InBatch' \subseteq InBatch \cup {PoolRow(t), SwapRow(t), WalletRow(t)}
    BY <1>4, <2>1, Appended DEF InBatch
  <2>3. Len(batch) + 1 \in 1..Len(batch') /\ Len(batch) + 2 \in 1..Len(batch')
        /\ Len(batch) + 3 \in 1..Len(batch')
        /\ \A i \in 1..Len(batch) : i \in 1..Len(batch')
    BY <1>4, Appended
  <2>4. InBatch \cup {PoolRow(t), SwapRow(t), WalletRow(t)} \subseteq InBatch'
    BY <1>4, <2>3, Appended DEF InBatch
  <2> QED BY <1>1, <1>4, <2>2, <2>4 DEF Written
<1> QED BY <1>2, <1>3, <1>4, Appended

(* Writing moves the batch's first row to the store, over any row with its *)
(* identity.                                                               *)
LEMMA WrittenWriting ==
  ASSUME TypeOK, WriteRow
  PROVE  /\ Len(batch) \in Nat \ {0} /\ Len(batch') = Len(batch) - 1
         /\ \A i \in 1..Len(batch') : i + 1 \in 1..Len(batch) /\ batch'[i] = batch[i + 1]
         /\ \A i \in 2..Len(batch) : i - 1 \in 1..Len(batch') /\ batch[i] = batch'[i - 1]
         /\ batch[1] \in rows' /\ 1 \in 1..Len(batch)
         /\ rows' = {s \in rows : ~SameId(s, batch[1])} \cup {batch[1]}
         /\ Written' \subseteq Written /\ InBatch' \subseteq InBatch
         /\ UNCHANGED <<pc, run, outcome, result, yielded, seenMarkets, hitMax, hitCredit>>
<1>1. batch \in Seq(Rows) /\ batch # <<>> /\ batch' = Tail(batch)
      /\ rows' = Upsert(rows, Head(batch))
  BY DEF WriteRow, TypeOK
<1>2. Len(batch) \in Nat \ {0} /\ Head(batch) = batch[1] /\ Len(batch') = Len(batch) - 1
      /\ \A i \in 1..Len(batch') : batch'[i] = batch[i + 1]
  BY <1>1
<1>3. \A i \in 1..Len(batch') : i + 1 \in 1..Len(batch) /\ batch'[i] = batch[i + 1]
  BY <1>2
<1>4. \A i \in 2..Len(batch) : i - 1 \in 1..Len(batch') /\ batch[i] = batch'[i - 1]
  BY <1>2
<1>5. 1 \in 1..Len(batch)
  BY <1>2
<1>6. rows' = {s \in rows : ~SameId(s, batch[1])} \cup {batch[1]}
  BY <1>1, <1>2 DEF Upsert
<1>7. InBatch' \subseteq InBatch /\ batch[1] \in InBatch
  BY <1>3, <1>5 DEF InBatch
<1>8. Written' \subseteq Written
  BY <1>6, <1>7 DEF Written
<1> QED BY <1>2, <1>3, <1>4, <1>5, <1>6, <1>7, <1>8 DEF WriteRow, progress

LEMMA Executed ==
  ASSUME TypeOK, NEW w \in Windows, Execute(w)
  PROVE  /\ rows' = rows /\ run' = run + 1 /\ yielded' = 0 /\ seenMarkets' = {}
         /\ Len(batch') = 0 /\ InBatch' = {} /\ Written' \subseteq Written /\ pc' = "poll"
         /\ run \in Nat
<1>1. batch' = <<>> /\ rows' = rows
  BY DEF Execute
<1>2. Len(batch') = 0 /\ InBatch' = {}
  BY <1>1 DEF InBatch
<1> QED BY <1>1, <1>2, Constants DEF Execute, TypeOK, Written

----------------------------------------------------------------------------
(* Every row names its trade; the rows of this run come from its stream.   *)
RowsInv ==
  /\ \A r \in Written : /\ r.kind = "pool_created" => r.key = r.of.market
                        /\ r.kind = "swap" => r.key = r.of.tx
                        /\ r.run <= run /\ r.run \in Nat /\ r.of \in Archive
  /\ \A r \in InBatch : r.run = run
  /\ \A r \in Written : r.run = run => \E i \in 1..yielded : r.of = result[i]
  /\ pc # "idle" => \A r \in Written : r.run = run => r.of.market \in seenMarkets

LEMMA RowsStep == TypeOK /\ PcInv /\ RowsInv /\ [Next]_vars => RowsInv'
<1> SUFFICES ASSUME TypeOK, PcInv, RowsInv, [Next]_vars PROVE RowsInv'
  OBVIOUS
<1>1. ASSUME NEW w \in Windows, Execute(w) PROVE RowsInv'
  <2>1. \A r \in Written' : r \in Written /\ r.run # run'
    BY <1>1, Executed DEF RowsInv
  <2> QED BY <1>1, <2>1, Executed DEF RowsInv
<1>2. CASE ConsumeRow
  <2> DEFINE t == result[yielded + 1]
  <2>1. t \in Archive /\ yielded \in Nat /\ run \in Nat
    BY <1>2, Consumed, Constants DEF TypeOK
  <2>2. run' = run /\ result' = result /\ yielded' = yielded + 1 /\ pc # "idle"
        /\ seenMarkets' = IF t.signed THEN seenMarkets \cup {t.market} ELSE seenMarkets
    BY <1>2 DEF ConsumeRow
  <2>3. Written' \subseteq Written \cup {PoolRow(t), SwapRow(t), WalletRow(t)}
        /\ (~t.signed => Written' = Written)
    BY <1>2, WrittenConsuming
  <2>4. InBatch' \subseteq InBatch \cup {PoolRow(t), SwapRow(t), WalletRow(t)}
    <3> SUFFICES ASSUME NEW i \in 1..Len(batch')
                 PROVE  batch'[i] \in InBatch \cup {PoolRow(t), SwapRow(t), WalletRow(t)}
      BY DEF InBatch
    <3>1. i \in 1..Len(batch) => batch'[i] \in InBatch
      BY <1>2, Appended DEF InBatch
    <3> QED BY <1>2, <3>1, Appended
  <2>5. \A r \in {PoolRow(t), SwapRow(t), WalletRow(t)} :
          /\ r.of = t /\ r.run = run
          /\ r.kind = "pool_created" => r.key = t.market
          /\ r.kind = "swap" => r.key = t.tx
    BY DEF PoolRow, SwapRow, WalletRow
  <2>6. yielded + 1 \in 1..(yielded + 1) /\ \A i \in 1..yielded : i \in 1..(yielded + 1)
    BY <2>1
  <2> HIDE DEF t
  <2>7. \A r \in Written' : /\ r.kind = "pool_created" => r.key = r.of.market
                            /\ r.kind = "swap" => r.key = r.of.tx
                            /\ r.run <= run /\ r.run \in Nat /\ r.of \in Archive
    BY <2>1, <2>3, <2>5 DEF RowsInv
  <2>8. \A r \in InBatch' : r.run = run
    BY <2>4, <2>5 DEF RowsInv
  <2>9. \A r \in Written' : r.run = run => \E i \in 1..(yielded + 1) : r.of = result[i]
    BY <2>3, <2>5, <2>6 DEF RowsInv, t
  <2>10. \A r \in Written' : r.run = run => r.of.market \in seenMarkets'
    BY <2>2, <2>3, <2>5 DEF RowsInv
  <2> QED BY <2>2, <2>7, <2>8, <2>9, <2>10 DEF RowsInv
<1>3. CASE WriteRow
  BY <1>3, WrittenWriting DEF RowsInv
<1>4. CASE Quiet
  BY <1>4, WrittenQuietly DEF RowsInv, Quiet
<1> QED BY <1>1, <1>2, <1>3, <1>4, StepKinds

LEMMA RowsInit == Init => RowsInv
<1> SUFFICES ASSUME Init PROVE RowsInv
  OBVIOUS
<1>1. Len(batch) = 0 /\ rows = {}
  BY DEF Init
<1>2. Written = {} /\ InBatch = {}
  BY <1>1 DEF Written, InBatch
<1> QED BY <1>2, Zenon DEF RowsInv, Init

----------------------------------------------------------------------------
(* No orphan swap.  A market the run has seen has its PoolCreated row in   *)
(* the store or in the batch, ahead of every row that needs it; writing    *)
(* over such a row leaves another in its place.                            *)

IsPool(p, m) == p.kind = "pool_created" /\ p.key = m

Linked(i) ==
  \/ \E p \in rows : IsPool(p, batch[i].of.market)
  \/ \E j \in 1..i : IsPool(batch[j], batch[i].of.market)

OrphanInv ==
  /\ OrphanFree
  /\ \A i \in 1..Len(batch) : Linked(i)
  /\ pc # "idle" => \A m \in seenMarkets : \E p \in Written : IsPool(p, m)

LEMMA OrphanConsuming ==
  ASSUME TypeOK, PcInv, RowsInv, OrphanInv, ConsumeRow PROVE OrphanInv'
<1> DEFINE t == result[yielded + 1]
<1>1. rows' = rows /\ pc # "idle" /\ InBatch \subseteq InBatch' /\ Written \subseteq Written'
  BY WrittenConsuming DEF ConsumeRow, Written
<1>2. Len(batch) \in Nat /\ Len(batch') \in Nat /\ Len(batch) <= Len(batch')
      /\ \A i \in 1..Len(batch) : batch'[i] = batch[i]
  BY Appended
<1>3. OrphanFree'
  BY <1>1 DEF OrphanInv, OrphanFree
<1>4. ASSUME NEW i \in 1..Len(batch) PROVE Linked(i)'
  <2>1. batch'[i] = batch[i] /\ \A j \in 1..i : batch'[j] = batch[j]
    BY <1>2
  <2> QED BY <1>1, <2>1 DEF OrphanInv, Linked
<1>5. ASSUME NEW i \in 1..Len(batch'), i > Len(batch) PROVE Linked(i)'
  <2>1. PoolRow(t).of = t /\ SwapRow(t).of = t /\ WalletRow(t).of = t
        /\ PoolRow(t).kind = "pool_created" /\ PoolRow(t).key = t.market
    BY DEF PoolRow, SwapRow, WalletRow
  <2>2. CASE /\ t.signed /\ t.market \in seenMarkets
             /\ Len(batch') = Len(batch) + 2
             /\ batch'[Len(batch) + 1] = SwapRow(t) /\ batch'[Len(batch) + 2] = WalletRow(t)
    <3>1. batch'[i].of = t
      BY <1>2, <1>5, <2>1, <2>2
    <3>2. PICK p \in Written : IsPool(p, t.market)
      BY <1>1, <2>2 DEF OrphanInv
    <3>3. CASE p \in rows
      BY <1>1, <3>1, <3>2, <3>3 DEF Linked
    <3>4. CASE p \in InBatch
      <4>1. PICK j \in 1..Len(batch) : p = batch[j]
        BY <3>4 DEF InBatch
      <4>2. j \in 1..i /\ batch'[j] = p
        BY <1>2, <1>5, <4>1
      <4> QED BY <3>1, <3>2, <4>2 DEF Linked
    <3> QED BY <3>3, <3>4 DEF Written
  <2>3. CASE /\ t.signed /\ t.market \notin seenMarkets
             /\ Len(batch') = Len(batch) + 3
             /\ batch'[Len(batch) + 1] = PoolRow(t)
             /\ batch'[Len(batch) + 2] = SwapRow(t) /\ batch'[Len(batch) + 3] = WalletRow(t)
    <3>1. batch'[i].of = t
      BY <1>2, <1>5, <2>1, <2>3
    <3>2. Len(batch) + 1 \in 1..i
      BY <1>2, <1>5
    <3>3. IsPool(batch'[Len(batch) + 1], batch'[i].of.market)
      BY <2>1, <2>3, <3>1 DEF IsPool
    <3> QED BY <3>2, <3>3 DEF Linked
  <2>4. CASE batch' = batch
    BY <1>2, <1>5, <2>4
  <2> QED BY <2>2, <2>3, <2>4, Appended
<1>6. \A i \in 1..Len(batch') : Linked(i)'
  BY <1>2, <1>4, <1>5
<1>7. ASSUME NEW m \in seenMarkets' PROVE \E p \in Written' : IsPool(p, m)
  <2>1. CASE m \in seenMarkets
    BY <1>1, <2>1 DEF OrphanInv
  <2>2. CASE m \notin seenMarkets
    <3>1. t.signed /\ t.market = m
      BY <1>7, <2>2, Appended
    <3>2. PoolRow(t) \in Written'
      BY <2>2, <3>1, WrittenConsuming DEF Written
    <3> QED BY <3>1, <3>2 DEF PoolRow, IsPool
  <2> QED BY <2>1, <2>2
<1> QED BY <1>3, <1>6, <1>7 DEF OrphanInv

LEMMA OrphanWriting ==
  ASSUME TypeOK, OrphanInv, WriteRow PROVE OrphanInv'
<1>1. /\ Len(batch) \in Nat \ {0} /\ Len(batch') = Len(batch) - 1
      /\ \A i \in 1..Len(batch') : i + 1 \in 1..Len(batch) /\ batch'[i] = batch[i + 1]
      /\ \A i \in 2..Len(batch) : i - 1 \in 1..Len(batch') /\ batch[i] = batch'[i - 1]
      /\ batch[1] \in rows' /\ 1 \in 1..Len(batch)
      /\ rows' = {s \in rows : ~SameId(s, batch[1])} \cup {batch[1]}
      /\ pc' = pc /\ seenMarkets' = seenMarkets
  BY WrittenWriting
<1>2. ASSUME NEW m, NEW p \in rows, IsPool(p, m) PROVE \E q \in rows' : IsPool(q, m)
  <2>1. CASE SameId(p, batch[1])
    BY <1>1, <1>2, <2>1 DEF SameId, IsPool
  <2>2. CASE ~SameId(p, batch[1])
    BY <1>1, <1>2, <2>2
  <2> QED BY <2>1, <2>2
<1>3. OrphanFree'
  <2> SUFFICES ASSUME NEW r \in rows' PROVE \E p \in rows' : IsPool(p, r.of.market)
    BY DEF OrphanFree, IsPool
  <2>1. CASE r \in rows
    BY <1>2, <2>1 DEF OrphanInv, OrphanFree, IsPool
  <2>2. CASE r = batch[1]
    <3>1. Linked(1)
      BY <1>1 DEF OrphanInv
    <3>2. CASE \E p \in rows : IsPool(p, batch[1].of.market)
      BY <1>2, <2>2, <3>2
    <3>3. CASE \E j \in 1..1 : IsPool(batch[j], batch[1].of.market)
      BY <1>1, <2>2, <3>3
    <3> QED BY <3>1, <3>2, <3>3 DEF Linked
  <2> QED BY <1>1, <2>1, <2>2
<1>4. ASSUME NEW i \in 1..Len(batch') PROVE Linked(i)'
  <2>1. batch'[i] = batch[i + 1] /\ Linked(i + 1)
    BY <1>1 DEF OrphanInv
  <2>2. CASE \E p \in rows : IsPool(p, batch[i + 1].of.market)
    BY <1>2, <2>1, <2>2 DEF Linked
  <2>3. ASSUME NEW j \in 1..(i + 1), IsPool(batch[j], batch[i + 1].of.market) PROVE Linked(i)'
    <3>1. CASE j = 1
      BY <1>1, <2>1, <2>3, <3>1 DEF Linked
    <3>2. CASE j # 1
      <4>1. j \in 2..Len(batch) /\ j - 1 \in 1..i
        BY <1>1, <3>2
      <4> QED BY <1>1, <2>1, <2>3, <4>1 DEF Linked
    <3> QED BY <3>1, <3>2
  <2> QED BY <2>1, <2>2, <2>3 DEF Linked
<1>5. ASSUME NEW m, NEW p \in Written, IsPool(p, m) PROVE \E q \in Written' : IsPool(q, m)
  <2>1. CASE p \in rows
    BY <1>2, <1>5, <2>1 DEF Written
  <2>2. CASE p \in InBatch
    <3>1. PICK j \in 1..Len(batch) : p = batch[j]
      BY <2>2 DEF InBatch
    <3>2. CASE j = 1
      BY <1>1, <1>5, <3>1, <3>2 DEF Written
    <3>3. CASE j # 1
      <4>1. j \in 2..Len(batch)
        BY <1>1, <3>3
      <4>2. batch'[j - 1] \in Written' /\ batch'[j - 1] = p
        BY <1>1, <3>1, <4>1 DEF Written, InBatch
      <4> QED BY <1>5, <4>2
    <3> QED BY <3>2, <3>3
  <2> QED BY <2>1, <2>2 DEF Written
<1> QED BY <1>1, <1>3, <1>4, <1>5 DEF OrphanInv

LEMMA OrphanStep ==
  TypeOK /\ PcInv /\ RowsInv /\ OrphanInv /\ [Next]_vars => OrphanInv'
<1> SUFFICES ASSUME TypeOK, PcInv, RowsInv, OrphanInv, [Next]_vars PROVE OrphanInv'
  OBVIOUS
<1>1. ASSUME NEW w \in Windows, Execute(w) PROVE OrphanInv'
  <2>1. rows' = rows /\ seenMarkets' = {} /\ Len(batch') = 0
    BY <1>1, Executed
  <2> QED BY <2>1 DEF OrphanInv, OrphanFree
<1>2. CASE Quiet
  <2>1. CASE batch' = batch
    <3>1. Written' = Written
      BY <1>2, <2>1 DEF Quiet, Written, InBatch
    <3> QED BY <1>2, <2>1, <3>1 DEF Quiet, OrphanInv, OrphanFree, Linked
  <2>2. CASE batch' = <<>>
    <3>1. Len(batch') = 0
      BY <2>2
    <3>2. pc' # "idle" => Written' = Written
      BY <1>2 DEF Quiet, Written, InBatch
    <3> QED BY <1>2, <3>1, <3>2 DEF Quiet, OrphanInv, OrphanFree
  <2> QED BY <1>2, <2>1, <2>2 DEF Quiet
<1> QED BY <1>1, <1>2, OrphanConsuming, OrphanWriting, StepKinds

(* No row of the store is without the PoolCreated row of its market, for   *)
(* every archive, batch size, sequence of runs and death of a run.         *)
THEOREM NoOrphans == Spec => []OrphanFree
<1> DEFINE Inv == TypeOK /\ PcInv /\ RowsInv /\ OrphanInv
<1>1. Init => Inv
  <2>1. Init => Len(batch) = 0 /\ rows = {} /\ pc = "idle"
    BY DEF Init
  <2>2. Init => OrphanInv
    BY <2>1 DEF OrphanInv, OrphanFree
  <2> QED BY <2>2, TypeInit, RowsInit
<1>2. Inv /\ [Next]_vars => Inv'
  BY TypeStep, RowsStep, OrphanStep
<1>3. Inv => OrphanFree
  BY DEF OrphanInv
<1> HIDE DEF Inv
<1> QED BY <1>1, <1>2, <1>3, PTL DEF Spec

----------------------------------------------------------------------------
(* The creation proxy.  Rows arrive in time order and a market's PoolCreated*)
(* is emitted once per run, with its first row.                            *)

SortedInv ==
  \A i, j \in 1..Len(result) : i < j => result[i].time <= result[j].time

NoLaterProxy(p, s) ==
  p.kind = "pool_created" /\ s.kind = "swap" /\ p.key = s.of.market /\ p.run = s.run
    => p.of.time <= s.of.time

ProxyInv == SortedInv /\ \A p, s \in Written : NoLaterProxy(p, s)

LEMMA SortedResult ==
  ASSUME NEW w \in Windows, Execute(w) PROVE SortedInv'
<1>1. PICK n : n \in Nat /\ result' \in [1..n -> Cohort(w)]
               /\ \A i, j \in DOMAIN result' : i < j => result'[i].time <= result'[j].time
  <2>1. Cohort(w) \subseteq Archive
    BY DEF Cohort, Scan
  <2>2. Cardinality(Cohort(w)) \in Nat
    BY <2>1, ConstantsAssumption, FS_Subset, FS_CardinalityType
  <2> QED BY <2>2 DEF Execute, QueryResults, Injection
<1>2. Len(result') = n /\ DOMAIN result' = 1..n
  BY <1>1
<1> QED BY <1>1, <1>2 DEF SortedInv

LEMMA ProxyStep ==
  TypeOK /\ PcInv /\ RowsInv /\ ProxyInv /\ [Next]_vars => ProxyInv'
<1> SUFFICES ASSUME TypeOK, PcInv, RowsInv, ProxyInv, [Next]_vars PROVE ProxyInv'
  OBVIOUS
<1>1. ASSUME NEW w \in Windows, Execute(w) PROVE ProxyInv'
  BY <1>1, Executed, SortedResult DEF ProxyInv
<1>2. CASE ConsumeRow
  <2> DEFINE t == result[yielded + 1]
  <2>1. result' = result /\ pc # "idle"
    BY <1>2 DEF ConsumeRow
  <2>2. SortedInv'
    BY <2>1 DEF ProxyInv, SortedInv
  <2>3. \A i \in 1..yielded : result[i].time <= t.time
    BY <1>2, Consumed DEF ProxyInv, SortedInv
  <2>4. t.time \in Nat
    BY <1>2, Consumed, Constants DEF Trades
  <2>5. PoolRow(t).of = t /\ PoolRow(t).key = t.market /\ PoolRow(t).run = run
        /\ PoolRow(t).kind = "pool_created" /\ SwapRow(t).of = t /\ SwapRow(t).run = run
        /\ SwapRow(t).kind = "swap" /\ WalletRow(t).kind = "wallet_event"
    BY DEF PoolRow, SwapRow, WalletRow
  <2>6. Written' \subseteq Written \cup {PoolRow(t), SwapRow(t), WalletRow(t)}
        /\ (t.market \in seenMarkets => Written' \subseteq Written \cup {SwapRow(t), WalletRow(t)})
    BY <1>2, WrittenConsuming
  <2> HIDE DEF t
  <2>7. ASSUME NEW p \in Written PROVE NoLaterProxy(p, SwapRow(t))
    BY <2>3, <2>5, <2>7 DEF RowsInv, NoLaterProxy
  <2>8. ASSUME NEW s \in Written, t.market \notin seenMarkets PROVE NoLaterProxy(PoolRow(t), s)
    BY <2>1, <2>5, <2>8 DEF RowsInv, NoLaterProxy
  <2>9. NoLaterProxy(PoolRow(t), SwapRow(t))
    BY <2>4, <2>5 DEF NoLaterProxy
  <2>10. ASSUME NEW p \in Written', NEW s \in Written' PROVE NoLaterProxy(p, s)
    <3> USE DEF NoLaterProxy
    <3>1. CASE p \in Written /\ s \in Written
      BY <3>1 DEF ProxyInv
    <3>2. CASE p \in Written /\ s \notin Written
      BY <2>5, <2>6, <2>7, <3>2
    <3>3. CASE p \notin Written /\ s \in Written
      BY <2>5, <2>6, <2>8, <3>3
    <3>4. CASE p \notin Written /\ s \notin Written
      BY <2>5, <2>6, <2>9, <3>4
    <3> QED BY <3>1, <3>2, <3>3, <3>4
  <2> QED BY <2>2, <2>10 DEF ProxyInv
<1>3. CASE WriteRow
  <2>1. result' = result
    BY <1>3 DEF WriteRow
  <2> QED BY <1>3, <2>1, WrittenWriting DEF ProxyInv, SortedInv
<1>4. CASE Quiet
  BY <1>4, WrittenQuietly DEF ProxyInv, SortedInv, Quiet
<1> QED BY <1>1, <1>2, <1>3, <1>4, StepKinds

LEMMA ProxyInit == Init => ProxyInv
<1> SUFFICES ASSUME Init PROVE ProxyInv
  OBVIOUS
<1>1. Len(batch) = 0 /\ rows = {} /\ Len(result) = 0
  BY DEF Init
<1>2. Written = {}
  BY <1>1 DEF Written, InBatch
<1> QED BY <1>1, <1>2 DEF ProxyInv, SortedInv

(* Within what one run wrote, no trade of a market precedes the market's   *)
(* creation proxy, for every archive, paging and batching.                 *)
THEOREM ProxyIsFirst == Spec => []CreationProxy
<1> DEFINE Inv == TypeOK /\ PcInv /\ RowsInv /\ ProxyInv
<1>1. Init => Inv
  BY TypeInit, RowsInit, ProxyInit
<1>2. Inv /\ [Next]_vars => Inv'
  BY TypeStep, RowsStep, ProxyStep
<1>3. Inv => CreationProxy
  BY DEF ProxyInv, CreationProxy, Written, NoLaterProxy
<1> HIDE DEF Inv
<1> QED BY <1>1, <1>2, <1>3, PTL DEF Spec

----------------------------------------------------------------------------
(* Complete unless reported.  What was consumed is written or in the batch;*)
(* a stream that ended short of the result has noted why.                  *)

SwapOf(r, t) == r.kind = "swap" /\ r.key = t.tx /\ r.run = run

StreamInv ==
  /\ pc # "idle" \/ outcome = "reported" =>
       \A i \in 1..yielded : result[i].signed => \E r \in Written : SwapOf(r, result[i])
  /\ outcome = "reported" => pc = "idle" /\ Len(batch) = 0
  /\ yielded >= MaxRows => hitMax
  /\ (pc = "finish" \/ outcome = "reported") /\ ~hitMax /\ ~hitCredit
       => yielded = Len(result)

(* Writing keeps every swap of this run that was written or in the batch,  *)
(* those of the store in the store.                                        *)
LEMMA SwapsKept ==
  ASSUME TypeOK, RowsInv, WriteRow, NEW t
  PROVE  /\ (\E r \in rows : SwapOf(r, t)) => \E r \in rows' : SwapOf(r, t)
         /\ (\E r \in Written : SwapOf(r, t)) => \E r \in Written' : SwapOf(r, t)
<1>1. /\ rows' = {s \in rows : ~SameId(s, batch[1])} \cup {batch[1]}
      /\ \A i \in 2..Len(batch) : i - 1 \in 1..Len(batch') /\ batch[i] = batch'[i - 1]
      /\ 1 \in 1..Len(batch) /\ Len(batch) \in Nat
  BY WrittenWriting
<1>2. batch[1].run = run /\ batch[1] \in rows' /\ rows' \subseteq Written'
  BY <1>1 DEF RowsInv, InBatch, Written
<1>3. ASSUME NEW r \in rows, SwapOf(r, t) PROVE \E s \in rows' : SwapOf(s, t)
  <2>1. CASE SameId(r, batch[1])
    BY <1>2, <1>3, <2>1 DEF SameId, SwapOf
  <2>2. CASE ~SameId(r, batch[1])
    BY <1>1, <1>3, <2>2
  <2> QED BY <2>1, <2>2
<1>4. ASSUME NEW r \in InBatch, SwapOf(r, t) PROVE \E s \in Written' : SwapOf(s, t)
  <2>1. PICK j \in 1..Len(batch) : r = batch[j]
    BY DEF InBatch
  <2>2. CASE j = 1
    BY <1>2, <1>4, <2>1, <2>2
  <2>3. CASE j # 1
    <3>1. j \in 2..Len(batch)
      BY <1>1, <2>3
    <3>2. batch'[j - 1] \in Written' /\ batch'[j - 1] = r
      BY <1>1, <2>1, <3>1 DEF Written, InBatch
    <3> QED BY <1>4, <3>2
  <2> QED BY <2>2, <2>3
<1> QED BY <1>2, <1>3, <1>4 DEF Written

LEMMA StreamConsuming ==
  ASSUME TypeOK, PcInv, RowsInv, StreamInv, ConsumeRow PROVE StreamInv'
<1> DEFINE t == result[yielded + 1]
<1>1. run' = run /\ result' = result /\ yielded' = yielded + 1 /\ outcome' = outcome
      /\ hitCredit' = hitCredit /\ pc = "consume" /\ hitMax' = (hitMax \/ ReachesMax(yielded'))
      /\ pc' \in {"flush", AfterRow(yielded + 1)}
  BY DEF ConsumeRow
<1>2. yielded \in Nat /\ Len(result) \in Nat /\ MaxRows \in Nat /\ outcome # "reported"
  BY <1>1, Consumed, Constants DEF StreamInv
<1>3. ASSUME NEW i \in 1..(yielded + 1), result[i].signed
      PROVE  \E r \in Written' : SwapOf(r, result[i])
  <2>1. CASE i \in 1..yielded
    <3>1. Written \subseteq Written'
      BY WrittenConsuming DEF Written
    <3> QED BY <1>1, <1>3, <2>1, <3>1 DEF StreamInv
  <2>2. CASE i = yielded + 1
    <3>1. SwapRow(t) \in Written'
      BY <1>3, <2>2, WrittenConsuming DEF Written
    <3>2. SwapOf(SwapRow(t), t)
      BY DEF SwapRow, SwapOf
    <3> QED BY <2>2, <3>1, <3>2
  <2> QED BY <1>2, <2>1, <2>2
<1>4. yielded' >= MaxRows => hitMax'
  BY <1>1, <1>2 DEF ReachesMax
<1>5. pc' = "finish" /\ ~hitMax' => yielded' = Len(result)
  <2> SUFFICES ASSUME pc' = "finish", ~hitMax' PROVE yielded + 1 = Len(result)
    BY <1>1
  <2>1. ~(yielded + 1 >= MaxRows)
    BY <1>1 DEF ReachesMax
  <2>2. yielded + 1 # MaxRows
    BY <1>2, <2>1
  <2> QED BY <1>1, <2>2 DEF AfterRow
<1> QED BY <1>1, <1>2, <1>3, <1>4, <1>5 DEF StreamInv, SwapOf

LEMMA StreamStep ==
  TypeOK /\ PcInv /\ RowsInv /\ StreamInv /\ [Next]_vars => StreamInv'
<1> SUFFICES ASSUME TypeOK, PcInv, RowsInv, StreamInv, [Next]_vars PROVE StreamInv'
  OBVIOUS
<1> USE DEF StreamInv
<1>1. ASSUME NEW w \in Windows, Execute(w) PROVE StreamInv'
  <2>1. yielded' = 0 /\ outcome' = "none" /\ pc' = "poll" /\ ~(yielded' >= MaxRows)
    BY <1>1, Constants DEF Execute
  <2> QED BY <2>1
<1>2. ASSUME pc # "idle", Written' = Written, UNCHANGED <<run, result, yielded, hitMax>>,
             outcome' \notin {"reported"},
             pc' = "finish" /\ ~hitMax' /\ ~hitCredit' => yielded = Len(result)
      PROVE  StreamInv'
  BY <1>2 DEF SwapOf
<1>3. CASE StillExecuting
  <2>1. Written' = Written /\ pc' # "finish" /\ outcome' # "reported"
    BY <1>3 DEF StillExecuting, locals, Written, InBatch
  <2> QED BY <1>2, <1>3, <2>1 DEF StillExecuting, locals
<1>4. CASE Completed
  <2>1. Written' = Written
    BY <1>4 DEF Completed, locals, Written, InBatch
  <2> QED BY <1>2, <1>4, <2>1 DEF Completed, locals, progress
<1>5. CASE FetchPage
  <2>1. Written' = Written
    BY <1>5 DEF FetchPage, locals, Written, InBatch
  <2> QED BY <1>2, <1>5, <2>1 DEF FetchPage, locals
<1>6. CASE CreditCap
  <2>1. Written' = Written
    BY <1>6 DEF CreditCap, Written, InBatch
  <2> QED BY <1>2, <1>6, <2>1 DEF CreditCap, progress
<1>7. CASE ConsumeRow
  BY <1>7, StreamConsuming
<1>8. CASE WriteRow
  <2>1. /\ UNCHANGED <<pc, run, outcome, result, yielded, hitMax, hitCredit>>
        /\ pc # "idle"
    BY <1>8 DEF WriteRow, progress
  <2>2. \A t : (\E r \in Written : SwapOf(r, t)) => \E r \in Written' : SwapOf(r, t)
    BY <1>8, SwapsKept
  <2> QED BY <2>1, <2>2 DEF SwapOf
<1>9. CASE Flushed
  <2>1. Written' = Written
    BY <1>9 DEF Flushed, locals, Written, InBatch
  <2>2. pc' = "finish" /\ ~hitMax => yielded = Len(result)
    BY <1>9, Constants DEF Flushed, AfterRow, TypeOK
  <2> QED BY <1>2, <1>9, <2>1, <2>2 DEF Flushed, locals, progress
<1>10. CASE Report
  <2>1. Written' = Written /\ Len(batch') = 0 /\ pc = "finish"
    BY <1>10 DEF Report, locals, Written, InBatch
  <2> QED BY <1>10, <2>1 DEF Report, locals, progress, SwapOf
<1>11. CASE Die
  BY <1>11 DEF Die, progress
<1>12. CASE UNCHANGED vars
  <2>1. Written' = Written
    BY <1>12 DEF vars, locals, Written, InBatch
  <2> QED BY <1>12, <2>1 DEF vars, locals, progress, SwapOf
<1> QED
  BY <1>1, <1>3, <1>4, <1>5, <1>6, <1>7, <1>8, <1>9, <1>10, <1>11, <1>12 DEF Next, Advance

LEMMA StreamInit == Init => StreamInv
<1> SUFFICES ASSUME Init PROVE StreamInv
  OBVIOUS
<1>1. yielded = 0 /\ outcome = "none" /\ pc = "idle" /\ ~(yielded >= MaxRows)
  BY Constants DEF Init
<1> QED BY <1>1 DEF StreamInv

(* A run that reports neither the row ceiling nor the credit cap has a row *)
(* for every signed trade of its window's cohort.                          *)
THEOREM CompleteOrReported == Spec => []CompleteUnlessReported
<1> DEFINE Inv == TypeOK /\ PcInv /\ RowsInv /\ StreamInv
<1>1. Init => Inv
  BY TypeInit, RowsInit, StreamInit
<1>2. Inv /\ [Next]_vars => Inv'
  BY TypeStep, RowsStep, StreamStep
<1>3. Inv => CompleteUnlessReported
  <2> SUFFICES ASSUME Inv, outcome = "reported", ~hitMax, ~hitCredit,
                      NEW t \in Range(result), t.signed
               PROVE  Fetched(t)
    BY DEF CompleteUnlessReported
  <2>1. yielded = Len(result) /\ Len(batch) = 0
    BY DEF StreamInv
  <2>2. PICK i \in 1..Len(result) : t = result[i]
    BY DEF Range, TypeOK
  <2>3. PICK r \in Written : SwapOf(r, t)
    BY <2>1, <2>2 DEF StreamInv
  <2>4. r \in rows
    BY <2>1 DEF Written, InBatch
  <2> QED BY <2>3, <2>4 DEF SwapOf, Fetched
<1> HIDE DEF Inv
<1> QED BY <1>1, <1>2, <1>3, PTL DEF Spec

----------------------------------------------------------------------------
(* Truncation in time.  Before a swap of this run, in the store or in the  *)
(* batch, come the swaps of all earlier trades of the result.              *)

Ahead(q, t) == \E k \in 1..(q - 1) : SwapOf(batch[k], t)

PrefixInv ==
  \A i \in 1..Len(result) : result[i].signed =>
    /\ \A r \in rows : r.kind = "swap" /\ r.run = run /\ result[i].time < r.of.time
                         => Fetched(result[i])
    /\ \A q \in 1..Len(batch) : batch[q].kind = "swap" /\ result[i].time < batch[q].of.time
                         => Fetched(result[i]) \/ Ahead(q, result[i])

LEMMA PrefixConsuming ==
  ASSUME TypeOK, PcInv, RowsInv, SortedInv, StreamInv, PrefixInv, ConsumeRow
  PROVE  PrefixInv'
<1> DEFINE t == result[yielded + 1]
<1>1. rows' = rows /\ run' = run /\ result' = result /\ pc # "idle"
  BY DEF ConsumeRow
<1>2. Len(batch) \in Nat /\ Len(batch') \in Nat /\ yielded \in Nat /\ Len(result) \in Nat
      /\ Len(batch) <= Len(batch') /\ \A k \in 1..Len(batch) : batch'[k] = batch[k]
  BY Appended, Consumed DEF TypeOK
<1> SUFFICES ASSUME NEW i \in 1..Len(result), result[i].signed
             PROVE  /\ \A r \in rows : r.kind = "swap" /\ r.run = run
                                         /\ result[i].time < r.of.time => Fetched(result[i])
                    /\ \A q \in 1..Len(batch') :
                         batch'[q].kind = "swap" /\ result[i].time < batch'[q].of.time
                         => Fetched(result[i]) \/ Ahead(q, result[i])'
  BY <1>1 DEF PrefixInv, Fetched
<1>3. ASSUME NEW q \in 1..Len(batch'), batch'[q].kind = "swap",
             result[i].time < batch'[q].of.time
      PROVE  Fetched(result[i]) \/ Ahead(q, result[i])'
  <2>1. CASE q <= Len(batch)
    <3>1. batch'[q] = batch[q] /\ \A k \in 1..(q - 1) : batch'[k] = batch[k]
      BY <1>2, <2>1
    <3>2. Fetched(result[i]) \/ Ahead(q, result[i])
      BY <1>2, <1>3, <2>1, <3>1 DEF PrefixInv
    <3> QED BY <1>1, <3>1, <3>2 DEF Ahead, SwapOf
  <2>2. CASE q > Len(batch)
    <3>1. batch'[q].of = t
      <4>1. PoolRow(t).of = t /\ SwapRow(t).of = t /\ WalletRow(t).of = t
        BY DEF PoolRow, SwapRow, WalletRow
      <4>2. CASE batch' = batch
        BY <1>2, <2>2, <4>2
      <4>3. CASE /\ Len(batch') = Len(batch) + 2
                 /\ batch'[Len(batch) + 1] = SwapRow(t)
                 /\ batch'[Len(batch) + 2] = WalletRow(t)
        BY <1>2, <2>2, <4>1, <4>3
      <4>4. CASE /\ Len(batch') = Len(batch) + 3
                 /\ batch'[Len(batch) + 1] = PoolRow(t)
                 /\ batch'[Len(batch) + 2] = SwapRow(t)
                 /\ batch'[Len(batch) + 3] = WalletRow(t)
        BY <1>2, <2>2, <4>1, <4>4
      <4> QED BY <4>2, <4>3, <4>4, Appended
    <3>2. result[i].time \in Nat /\ t.time \in Nat /\ yielded + 1 \in 1..Len(result)
      <4>1. result[i] \in Archive /\ t \in Archive
        BY Consumed DEF TypeOK
      <4> QED BY <4>1, Consumed, Constants DEF Trades
    <3>3. i \in 1..yielded
      BY <1>2, <1>3, <3>1, <3>2 DEF SortedInv
    <3>4. PICK r \in Written : SwapOf(r, result[i])
      BY <1>1, <3>3 DEF StreamInv
    <3>5. CASE r \in rows
      BY <3>4, <3>5 DEF Fetched, SwapOf
    <3>6. CASE r \in InBatch
      <4>1. PICK k \in 1..Len(batch) : r = batch[k]
        BY <3>6 DEF InBatch
      <4>2. k \in 1..(q - 1) /\ batch'[k] = r
        BY <1>2, <2>2, <4>1
      <4> QED BY <1>1, <3>4, <4>2 DEF Ahead, SwapOf
    <3> QED BY <3>5, <3>6 DEF Written
  <2> QED BY <1>2, <2>1, <2>2
<1> QED BY <1>3 DEF PrefixInv

LEMMA PrefixWriting ==
  ASSUME TypeOK, RowsInv, PrefixInv, WriteRow PROVE PrefixInv'
<1>1. /\ UNCHANGED <<run, result>>
      /\ Len(batch) \in Nat \ {0} /\ Len(batch') = Len(batch) - 1
      /\ \A i \in 1..Len(batch') : i + 1 \in 1..Len(batch) /\ batch'[i] = batch[i + 1]
      /\ \A i \in 2..Len(batch) : i - 1 \in 1..Len(batch') /\ batch[i] = batch'[i - 1]
      /\ batch[1] \in rows' /\ 1 \in 1..Len(batch)
      /\ rows' = {s \in rows : ~SameId(s, batch[1])} \cup {batch[1]}
  BY WrittenWriting
<1> SUFFICES ASSUME NEW i \in 1..Len(result), result[i].signed
             PROVE  /\ \A r \in rows' : r.kind = "swap" /\ r.run = run
                                          /\ result[i].time < r.of.time => Fetched(result[i])'
                    /\ \A q \in 1..Len(batch') :
                         batch'[q].kind = "swap" /\ result[i].time < batch'[q].of.time
                         => Fetched(result[i])' \/ Ahead(q, result[i])'
  BY <1>1 DEF PrefixInv, Fetched, Ahead, SwapOf
<1>2. Fetched(result[i]) => Fetched(result[i])'
  BY <1>1, SwapsKept DEF Fetched, SwapOf
<1>3. ASSUME NEW r \in rows', r.kind = "swap", r.run = run, result[i].time < r.of.time
      PROVE  Fetched(result[i])'
  <2>1. CASE r \in rows
    BY <1>2, <1>3, <2>1 DEF PrefixInv
  <2>2. CASE r = batch[1]
    <3>1. Fetched(result[i]) \/ Ahead(1, result[i])
      BY <1>1, <1>3, <2>2 DEF PrefixInv
    <3> QED BY <1>2, <3>1 DEF Ahead
  <2> QED BY <1>1, <2>1, <2>2
<1>4. ASSUME NEW q \in 1..Len(batch'), batch'[q].kind = "swap",
             result[i].time < batch'[q].of.time
      PROVE  Fetched(result[i])' \/ Ahead(q, result[i])'
  <2>1. Fetched(result[i]) \/ Ahead(q + 1, result[i])
    BY <1>1, <1>4 DEF PrefixInv
  <2>2. ASSUME NEW k \in 1..q, SwapOf(batch[k], result[i])
        PROVE  Fetched(result[i])' \/ Ahead(q, result[i])'
    <3>1. CASE k = 1
      BY <1>1, <2>2, <3>1 DEF Fetched, SwapOf
    <3>2. CASE k # 1
      <4>1. k \in 2..Len(batch) /\ k - 1 \in 1..(q - 1)
        BY <1>1, <3>2
      <4>2. batch'[k - 1] = batch[k]
        BY <1>1, <4>1
      <4> QED BY <1>1, <2>2, <4>1, <4>2 DEF Ahead, SwapOf
    <3> QED BY <3>1, <3>2
  <2>3. \A k \in 1..((q + 1) - 1) : k \in 1..q
    OBVIOUS
  <2> QED BY <1>2, <2>1, <2>2, <2>3 DEF Ahead
<1> QED BY <1>3, <1>4

LEMMA PrefixStep ==
  TypeOK /\ PcInv /\ RowsInv /\ SortedInv /\ StreamInv /\ PrefixInv /\ [Next]_vars => PrefixInv'
<1> SUFFICES ASSUME TypeOK, PcInv, RowsInv, SortedInv, StreamInv, PrefixInv, [Next]_vars
             PROVE  PrefixInv'
  OBVIOUS
<1>1. ASSUME NEW w \in Windows, Execute(w) PROVE PrefixInv'
  <2>1. \A r \in rows' : r.run # run'
    BY <1>1, Executed DEF RowsInv, Written
  <2>2. Len(batch') = 0
    BY <1>1, Executed
  <2> QED BY <2>1, <2>2 DEF PrefixInv
<1>2. CASE Quiet
  <2>1. CASE batch' = batch
    BY <1>2, <2>1 DEF Quiet, PrefixInv, Fetched, Ahead, SwapOf
  <2>2. CASE batch' = <<>>
    <3>1. Len(batch') = 0
      BY <2>2
    <3> QED BY <1>2, <3>1 DEF Quiet, PrefixInv, Fetched
  <2> QED BY <1>2, <2>1, <2>2 DEF Quiet
<1> QED BY <1>1, <1>2, PrefixConsuming, PrefixWriting, StepKinds

(* Whatever a run left behind when it ended, by a cap, an error or a kill  *)
(* in mid-batch, is its cohort up to some moment.                          *)
THEOREM TruncatedInTime == Spec => []TimeTruncated
<1> DEFINE Inv == TypeOK /\ PcInv /\ RowsInv /\ ProxyInv /\ StreamInv /\ PrefixInv
<1>1. Init => Inv
  <2>1. Init => Len(result) = 0
    BY DEF Init
  <2>2. Init => PrefixInv
    BY <2>1 DEF PrefixInv
  <2> QED BY <2>2, TypeInit, RowsInit, ProxyInit, StreamInit
<1>2. Inv /\ [Next]_vars => Inv'
  BY TypeStep, RowsStep, ProxyStep, StreamStep, PrefixStep DEF ProxyInv
<1>3. Inv => TimeTruncated
  <2> SUFFICES ASSUME Inv, NEW t \in Range(result), NEW u \in Range(result),
                      t.signed, t.time < u.time, Fetched(u)
               PROVE  Fetched(t)
    BY DEF TimeTruncated
  <2>1. PICK i \in 1..Len(result) : t = result[i]
    BY DEF Range, TypeOK
  <2>2. PICK r \in rows : SwapOf(r, u)
    BY DEF Fetched, SwapOf
  <2>3. r.of \in Archive /\ r.of.tx = u.tx
    BY <2>2 DEF RowsInv, Written, SwapOf
  <2>4. u \in Archive
    BY DEF Range, TypeOK
  <2>5. r.of.time = u.time
    BY <2>3, <2>4, ConstantsAssumption
  <2> QED BY <2>1, <2>2, <2>5 DEF PrefixInv, SwapOf
<1> HIDE DEF Inv
<1> QED BY <1>1, <1>2, <1>3, PTL DEF Spec
=============================================================================
