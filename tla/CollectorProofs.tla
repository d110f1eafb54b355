-------------------------- MODULE CollectorProofs --------------------------
(***************************************************************************)
(* Proofs about Collector, for every set of pools and every value of the   *)
(* other constants.                                                        *)
(***************************************************************************)
EXTENDS Collector, FiniteSetTheorems, TLAPS

(* The inductive invariant.  Each part is what one of the properties needs *)
(* besides itself to survive every step.                                   *)

(* The process's scratch variables are empty outside the phase that fills  *)
(* them, a dead process has no memory and only watched pools are tailed.   *)
ScratchInv ==
  /\ pc \notin {"enumerate", "write_pools"} => listed = <<>>
  /\ pc # "tail" => todo = {} /\ batch = {}
  /\ pc = "down" => mem = Fresh
  /\ todo \subseteq Watched(mem)

(* What is listed or stored exists on the chain; the createdAt of a pool   *)
(* that is listed or stored is therefore final.                            *)
OnChain ==
  /\ Range(listed) \subseteq Range(chain)
  /\ \A r \in rows : r.pool \in Range(chain)

(* A memory m that the store, holding the rows R, bears out: its tiers do  *)
(* not overlap and keep their budgets, and whatever it watches, retired or *)
(* pinned has the rows that justify it.                                    *)
Backed(p, R) ==
  PhaseOf[p] = "AMM" /\ \E q \in Pools :
    PhaseOf[q] = "BC" /\ MintOf[q] = MintOf[p] /\ PoolRow(q) \in R
Sound(m, R) ==
  /\ m.disc \cap m.grad = {}
  /\ Cardinality(Watched(m)) <= WatchMax /\ Cardinality(m.disc) <= DiscCap
  /\ Watched(m) \cap m.retired = {}
  /\ PoolRows(Watched(m) \cup m.retired) \subseteq R
  /\ \A p \in m.grad : Backed(p, R)

(* The running process knows every pool the checkpoint calls retired.      *)
RetiredKnown == pc # "down" /\ ~MayDiscard => disk.retired \subseteq mem.retired

(* Every row, and every fetched swap, is of a pool whose PoolCreated row   *)
(* is stored.                                                              *)
RowsRecorded  == \A r \in rows : PoolRow(r.pool) \in rows
BatchRecorded == \A s \in batch : PoolRow(s[1]) \in rows

(* A learned mint has a bonding-curve pool in the store or about to be.    *)
BcPoolOf(mint) == {q \in Pools : PhaseOf[q] = "BC" /\ MintOf[q] = mint}
MintsJustified ==
  /\ \A mint \in mem.bcMints : \E q \in BcPoolOf(mint) :
       PoolRow(q) \in rows \/ q \in Range(listed) \ Unmapped
  /\ \A mint \in disk.bcMints : \E q \in BcPoolOf(mint) : PoolRow(q) \in rows

IInv ==
  /\ TypeOK /\ ScratchInv /\ OnChain
  /\ Sound(mem, rows) /\ Sound(disk, rows) /\ RetiredKnown
  /\ RowsRecorded /\ BatchRecorded /\ MintsJustified
  /\ DurablePins
  /\ NoSwapLost /\ WalletLinked

----------------------------------------------------------------------------
(* Lemmas about the operators of Collector.                                *)

(* A page of the listing is a sequence of pools of the chain.              *)
LEMMA NewestPageType ==
  ASSUME chain \in Seq(Pools), NEW k \in Nat \ {0}
  PROVE  /\ NewestPage(k) \in Seq(Pools)
         /\ Range(NewestPage(k)) \subseteq Range(chain)
<1> DEFINE last == Len(chain) - (k - 1) * PageLimit
           n == Least(PageLimit, last)
<1>1. PageLimit \in Nat /\ last \in Int /\ last <= Len(chain) /\ n \in Int /\ n <= last
  <2>1. PageLimit \in Nat /\ Len(chain) \in Nat
    BY ConstantsAssumption
  <2>2. (k - 1) * PageLimit \in Nat
    <3>1. k - 1 \in Nat
      OBVIOUS
    <3>2. \A x, y \in Nat : x * y \in Nat
      OBVIOUS
    <3> QED BY <2>1, <3>1, <3>2
  <2>3. \A x, y \in Nat : x - y \in Int /\ x - y <= x
    OBVIOUS
  <2>4. last \in Int /\ last <= Len(chain)
    BY <2>1, <2>2, <2>3
  <2> HIDE DEF last
  <2> QED BY <2>1, <2>4 DEF Least
<1>2. \A i \in 1..n : last - i + 1 \in DOMAIN chain
  BY <1>1
<1>3. NewestPage(k) = [i \in 1..n |-> chain[last - i + 1]]
  BY DEF NewestPage
<1>4. \A i \in 1..n : chain[last - i + 1] \in Pools
  BY <1>2
<1> HIDE DEF last, n
<1>5. NewestPage(k) \in Seq(Pools)
  <2>1. CASE n >= 0
    BY <1>1, <1>3, <1>4, <2>1
  <2>2. CASE n < 0
    BY <1>1, <1>3, <2>2
  <2> QED BY <1>1, <2>1, <2>2
<1>6. Range(NewestPage(k)) \subseteq Range(chain)
  BY <1>2, <1>3 DEF Range
<1> QED BY <1>5, <1>6

LEMMA RangeConcat ==
  ASSUME NEW S, NEW s \in Seq(S), NEW t \in Seq(S)
  PROVE  Range(s \o t) = Range(s) \cup Range(t)
<1>1. Len(s \o t) = Len(s) + Len(t)
  OBVIOUS
<1>2. \A i \in 1..Len(s) : (s \o t)[i] = s[i]
  OBVIOUS
<1>3. \A i \in 1..Len(t) : (s \o t)[Len(s) + i] = t[i]
  OBVIOUS
<1>4. \A i \in DOMAIN (s \o t) : (s \o t)[i] \in Range(s) \cup Range(t)
  <2> TAKE i \in DOMAIN (s \o t)
  <2>1. CASE i <= Len(s)
    BY <2>1, <1>1, <1>2 DEF Range
  <2>2. CASE i > Len(s)
    <3>1. i - Len(s) \in 1..Len(t) /\ i = Len(s) + (i - Len(s))
      BY <2>2, <1>1
    <3> QED BY <3>1, <1>3 DEF Range
  <2> QED BY <2>1, <2>2
<1>5. Range(s) \cup Range(t) \subseteq Range(s \o t)
  <2>1. \A i \in DOMAIN s : i \in DOMAIN (s \o t) /\ (s \o t)[i] = s[i]
    BY <1>1, <1>2
  <2>2. \A i \in DOMAIN t : Len(s) + i \in DOMAIN (s \o t) /\ (s \o t)[Len(s) + i] = t[i]
    BY <1>1, <1>3
  <2> QED BY <2>1, <2>2 DEF Range
<1> QED BY <1>4, <1>5 DEF Range

LEMMA RangeAppend ==
  ASSUME NEW S, NEW s \in Seq(S), NEW e \in S
  PROVE  Range(Append(s, e)) = Range(s) \cup {e}
<1>1. Len(Append(s, e)) = Len(s) + 1 /\ Append(s, e)[Len(s) + 1] = e
  OBVIOUS
<1>2. \A i \in 1..Len(s) : Append(s, e)[i] = s[i]
  OBVIOUS
<1>3. DOMAIN Append(s, e) = 1..(Len(s) + 1) /\ DOMAIN s = 1..Len(s)
  OBVIOUS
<1>4. \A i \in 1..(Len(s) + 1) : i \in 1..Len(s) \/ i = Len(s) + 1
  OBVIOUS
<1> QED BY <1>1, <1>2, <1>3, <1>4 DEF Range

LEMMA RangeType ==
  ASSUME NEW S, NEW s \in Seq(S)
  PROVE  Range(s) \subseteq S
BY DEF Range

LEMMA RangePrefix ==
  ASSUME NEW S, NEW s \in Seq(S), NEW i \in 0..Len(s)
  PROVE  Range(SubSeq(s, 1, i)) \subseteq Range(s)
BY DEF Range

(* What Leading returns is a part of the set it is given, of the right size. *)
LEMMA LeadingFacts ==
  ASSUME NEW S, NEW k, NEW key, NEW T \in Leading(S, k, key)
  PROVE  T \subseteq S /\ Cardinality(T) = Least(Cardinality(S), k)
BY DEF Leading

(* Sets of pools are finite.                                               *)
LEMMA PoolSets ==
  ASSUME NEW S, S \subseteq Pools
  PROVE  IsFiniteSet(S) /\ Cardinality(S) \in Nat
BY ConstantsAssumption, FS_Subset, FS_CardinalityType

LEMMA CandidateType ==
  ASSUME TypeOK
  PROVE  Candidates \subseteq Pools
BY RangeType DEF Candidates, Enumerated, TypeOK

LEMMA DisjointUnion ==
  ASSUME NEW S, NEW T, IsFiniteSet(S), IsFiniteSet(T), S \cap T = {}
  PROVE  Cardinality(S \cup T) = Cardinality(S) + Cardinality(T)
<1>1. Cardinality(S \cup T) = Cardinality(S) + Cardinality(T) - Cardinality(S \cap T)
  BY FS_Union
<1>2. Cardinality(S \cap T) = 0
  BY FS_EmptySet
<1>3. Cardinality(S) \in Nat /\ Cardinality(T) \in Nat
  BY FS_CardinalityType
<1> QED BY <1>1, <1>2, <1>3

(* Excess and Least are what they say.                                     *)
LEMMA Bounds ==
  ASSUME NEW a \in Int, NEW b \in Int
  PROVE  /\ Excess(a, b) \in Nat /\ (a >= b => Excess(a, b) = a - b) /\ (a <= b => Excess(a, b) = 0)
         /\ Least(a, b) \in Int /\ Least(a, b) <= a /\ Least(a, b) <= b
         /\ (a \in Nat /\ b \in Nat => Least(a, b) \in Nat)
BY DEF Excess, Least

(* What an admission does: it pins some candidates, evicts some discovery  *)
(* pools for them and fills what is left with other candidates.            *)
Admits(m, in, out, new) ==
  /\ in \subseteq Candidates /\ \A p \in in : IsGraduation(p)
  /\ out \subseteq mem.disc
  /\ new \subseteq Candidates \ in /\ \A p \in new : ~IsGraduation(p)
  /\ m = [mem EXCEPT !.grad = @ \cup in, !.disc = (mem.disc \ out) \cup new,
                     !.retired = @ \cup out]
  /\ LET free == Excess(WatchMax, Cardinality(Watched(mem)))
     IN  /\ Cardinality(in) <= free + Cardinality(mem.disc)
         /\ \/ \A p \in Candidates : IsGraduation(p) => p \in in
            \/ Cardinality(in) = free + Cardinality(mem.disc)
         /\ Cardinality(out) = Least(Cardinality(mem.disc), Excess(Cardinality(in), free))
  /\ Cardinality(new) <= Excess(WatchMax, Cardinality((mem.disc \ out) \cup mem.grad \cup in))
  /\ Cardinality(new) <= Excess(DiscCap, Cardinality(mem.disc \ out))

LEMMA AdmissionFacts ==
  ASSUME TypeOK, NEW m \in Admissions
  PROVE  \E in, out, new : Admits(m, in, out, new)
<1> DEFINE free == Excess(WatchMax, Cardinality(Watched(mem)))
           grads == {p \in Candidates : IsGraduation(p)}
           others == {p \in Candidates : ~IsGraduation(p)}
           kept(out) == mem.disc \ out
           room(in, out) == Least(Excess(WatchMax, Cardinality(kept(out) \cup mem.grad \cup in)),
                                  Excess(DiscCap, Cardinality(kept(out))))
           after(in, out, new) == [mem EXCEPT !.grad = @ \cup in, !.disc = kept(out) \cup new,
                                              !.retired = @ \cup out]
<1>1. PICK in \in Pinned(free) :
        m \in UNION {{after(in, out, new) : new \in Leading(others, room(in, out), Arrival)} :
                       out \in Evicted(in, free)}
  BY Zenon DEF Admissions
<1>2. PICK out \in Evicted(in, free) :
        m \in {after(in, out, new) : new \in Leading(others, room(in, out), Arrival)}
  BY <1>1, Zenon
<1>3. PICK new \in Leading(others, room(in, out), Arrival) : m = after(in, out, new)
  BY <1>2, Zenon
<1> HIDE DEF free, others, room
<1>4. /\ in \subseteq grads
      /\ Cardinality(in) = Least(Cardinality(grads), free + Cardinality(mem.disc))
  BY LeadingFacts, Zenon DEF Pinned
<1>5. /\ out \subseteq mem.disc
      /\ Cardinality(out) = Least(Cardinality(mem.disc), Excess(Cardinality(in), free))
  BY LeadingFacts, Zenon DEF Evicted
<1>6. new \subseteq others /\ Cardinality(new) = Least(Cardinality(others), room(in, out))
  BY LeadingFacts, Zenon
<1>7. in \subseteq Candidates /\ (\A p \in in : IsGraduation(p))
  BY <1>4
<1>8. new \subseteq Candidates \ in
  BY <1>4, <1>6 DEF others
<1>9. /\ Cardinality(grads) \in Nat /\ Cardinality(others) \in Nat
      /\ Cardinality(mem.disc) \in Nat /\ Cardinality(kept(out)) \in Nat
      /\ Cardinality(Watched(mem)) \in Nat
      /\ Cardinality(kept(out) \cup mem.grad \cup in) \in Nat
  <2>1. Candidates \subseteq Pools /\ mem.disc \subseteq Pools /\ mem.grad \subseteq Pools
    BY CandidateType DEF TypeOK, Memory
  <2> QED BY <2>1, <1>4, PoolSets DEF others, Watched
<1>10. WatchMax \in Nat /\ DiscCap \in Nat /\ free \in Nat
  BY <1>9, ConstantsAssumption, Bounds DEF DiscCap, free
<1>11. Cardinality(in) <= free + Cardinality(mem.disc)
  BY <1>4, <1>9, <1>10, Bounds
<1>12. /\ room(in, out) \in Nat
       /\ room(in, out) <= Excess(WatchMax, Cardinality(kept(out) \cup mem.grad \cup in))
       /\ room(in, out) <= Excess(DiscCap, Cardinality(kept(out)))
       /\ Excess(WatchMax, Cardinality(kept(out) \cup mem.grad \cup in)) \in Nat
       /\ Excess(DiscCap, Cardinality(kept(out))) \in Nat
  <2> DEFINE x == Excess(WatchMax, Cardinality(kept(out) \cup mem.grad \cup in))
             y == Excess(DiscCap, Cardinality(kept(out)))
  <2>1. x \in Nat /\ y \in Nat
    <3>1. \A a, b \in Nat : Excess(a, b) \in Nat
      BY Bounds
    <3> QED BY <1>9, <1>10, <3>1
  <2>2. room(in, out) = Least(x, y)
    BY DEF room
  <2> HIDE DEF x, y
  <2>3. room(in, out) \in Nat /\ room(in, out) <= x /\ room(in, out) <= y
    BY <2>1, <2>2, Bounds
  <2> QED BY <2>1, <2>3 DEF x, y
<1>13. Cardinality(new) \in Nat /\ Cardinality(new) <= room(in, out)
  BY <1>6, <1>9, <1>12, Bounds
<1>14. /\ Cardinality(new) <= Excess(WatchMax, Cardinality(kept(out) \cup mem.grad \cup in))
       /\ Cardinality(new) <= Excess(DiscCap, Cardinality(kept(out)))
  BY <1>12, <1>13
<1>15. \A p \in new : ~IsGraduation(p)
  BY <1>6 DEF others
<1>16. \/ \A p \in Candidates : IsGraduation(p) => p \in in
       \/ Cardinality(in) = free + Cardinality(mem.disc)
  <2>1. CASE in = grads
    BY <2>1
  <2>2. CASE in # grads
    <3>1. IsFiniteSet(grads)
      BY CandidateType, PoolSets
    <3>2. Cardinality(in) # Cardinality(grads)
      BY <3>1, <2>2, <1>4, FS_Subset
    <3> QED BY <3>2, <1>4 DEF Least
  <2> QED BY <2>1, <2>2
<1>17. Admits(m, in, out, new)
  BY <1>3, <1>5, <1>7, <1>8, <1>11, <1>14, <1>15, <1>16 DEF free, Admits
<1> QED BY <1>17, Zenon

LEMMA AdmissionType ==
  ASSUME TypeOK, NEW m \in Admissions
  PROVE  m \in Memory
<1>1. PICK in, out, new : Admits(m, in, out, new)
  BY AdmissionFacts
<1>2. mem \in Memory /\ Candidates \subseteq Pools
  BY CandidateType DEF TypeOK
<1> QED BY <1>1, <1>2 DEF Memory, Admits

(* The rows a write under way may leave are rows.                          *)
LEMMA PartialWriteType ==
  ASSUME TypeOK, NEW part \in PartialWrites
  PROVE  part \subseteq Rows
<1>1. \A P \in SUBSET Pools : PoolRows(P) \subseteq Rows
  BY ConstantsAssumption DEF PoolRows, PoolRow, Rows, RowTypes
<1>2. \A s \in SwapIds : SwapRow(s) \in Rows /\ WalletRow(s) \in Rows
  BY ConstantsAssumption DEF SwapIds, SwapRow, WalletRow, Rows, RowTypes
<1>3. \A S \in SUBSET SwapIds : TradeRows(S) \subseteq Rows
  BY <1>2 DEF TradeRows
<1>4. CASE pc = "write_pools"
  <2>1. PICK i \in 0..Len(listed) : part = PoolRows(Range(SubSeq(listed, 1, i)) \ Unmapped)
    BY <1>4 DEF PartialWrites
  <2>2. Range(SubSeq(listed, 1, i)) \subseteq Pools
    BY RangePrefix, RangeType DEF TypeOK
  <2> QED BY <1>1, <2>1, <2>2
<1>5. CASE pc = "tail" /\ todo = {}
  <2>1. batch \subseteq SwapIds
    BY DEF TypeOK
  <2>2. PartialWrites = {TradeRows(done) : done \in SUBSET batch}
                        \cup {TradeRows(done) \cup {SwapRow(s)} : done \in SUBSET batch, s \in batch}
    BY <1>5 DEF PartialWrites
  <2>3. CASE part \in {TradeRows(done) : done \in SUBSET batch}
    BY <1>3, <2>1, <2>3
  <2>4. CASE part \in {TradeRows(done) \cup {SwapRow(s)} : done \in SUBSET batch, s \in batch}
    BY <1>2, <1>3, <2>1, <2>4
  <2> QED BY <2>2, <2>3, <2>4
<1>6. CASE pc # "write_pools" /\ ~(pc = "tail" /\ todo = {})
  BY <1>6 DEF PartialWrites
<1> QED BY <1>4, <1>5, <1>6

----------------------------------------------------------------------------
(* Every variable keeps its type.                                          *)

LEMMA TypeInit == Init => TypeOK
BY ConstantsAssumption DEF Init, TypeOK, Memory, Fresh, Steps

LEMMA TypeStep == TypeOK /\ [Next]_vars => TypeOK'
<1> SUFFICES ASSUME TypeOK, [Next]_vars PROVE TypeOK'
  OBVIOUS
<1> USE DEF world, scratch
<1>1. CASE Tick
  BY <1>1 DEF Tick, TypeOK
<1>2. ASSUME NEW p \in Pools, CreatePool(p) PROVE TypeOK'
  BY <1>2 DEF CreatePool, TypeOK
<1>3. ASSUME NEW p \in Pools, Trade(p) PROVE TypeOK'
  <2>1. /\ trades[p] < TradeBound[p] /\ trades' = [trades EXCEPT ![p] = @ + 1]
        /\ UNCHANGED <<now, chain, createdAt, pc, mem, scratch, seen, disk, rows, crashes>>
    BY <1>3 DEF Trade
  <2>2. trades[p] \in Nat /\ TradeBound[p] \in Nat /\ TradeBound[p] <= MaxTrades /\ MaxTrades \in Nat
    BY ConstantsAssumption DEF TypeOK
  <2>3. trades' \in [Pools -> 0..MaxTrades]
    BY <2>1, <2>2 DEF TypeOK
  <2> QED BY <2>1, <2>3 DEF TypeOK
<1>4. CASE Restart
  BY <1>4 DEF Restart, TypeOK, Steps, Memory, Fresh
<1>5. CASE AgeOut
  BY <1>5 DEF AgeOut, TypeOK, Steps, Memory, Stale
<1>6. CASE FetchPage
  <2> DEFINE got == NewestPage(page)
             met == {MintOf[p] : p \in {q \in Range(got) \ Unmapped : PhaseOf[q] = "BC"}}
  <2>1. got \in Seq(Pools)
    BY NewestPageType DEF TypeOK
  <2>2. met \subseteq Mints
    BY <2>1, RangeType, ConstantsAssumption
  <2>3. /\ listed' = listed \o got
        /\ mem' = [mem EXCEPT !.bcMints = @ \cup met]
        /\ (pc' = "write_pools" /\ UNCHANGED page) \/ (page' = page + 1 /\ UNCHANGED pc)
        /\ UNCHANGED <<world, todo, tailing, batch, seen, disk, rows, crashes>>
    BY <1>6 DEF FetchPage
  <2> HIDE DEF got, met
  <2>4. listed' \in Seq(Pools)
    BY <2>1, <2>3 DEF TypeOK
  <2>5. mem' \in Memory
    BY <2>2, <2>3 DEF TypeOK, Memory
  <2>6. page' \in Nat \ {0} /\ pc' \in Steps
    BY <2>3 DEF TypeOK, Steps
  <2> QED BY <2>3, <2>4, <2>5, <2>6 DEF TypeOK
<1>7. CASE TruncateEnumeration
  BY <1>7 DEF TruncateEnumeration, TypeOK, Steps
<1>8. CASE WritePoolsAndAdmit
  <2>1. PoolRows(Enumerated) \subseteq Rows
    BY RangeType, ConstantsAssumption
       DEF Enumerated, PoolRows, PoolRow, Rows, RowTypes, TypeOK
  <2>2. mem' \in Memory
    BY <1>8, AdmissionType DEF WritePoolsAndAdmit
  <2> QED BY <1>8, <2>1, <2>2 DEF WritePoolsAndAdmit, Universe, TypeOK, Steps, Memory, Watched
<1>9. ASSUME NEW p \in Pools, TailPage(p) PROVE TypeOK'
  <2>1. {p} \X TxPage(p, page) \subseteq SwapIds
    BY ConstantsAssumption DEF TxPage, SwapIds, TypeOK
  <2> QED BY <1>9, <2>1 DEF TailPage, TypeOK
<1>10. ASSUME NEW p \in Pools, SkipPool(p) PROVE TypeOK'
  BY <1>10 DEF SkipPool, TypeOK
<1>11. CASE WriteSwaps
  <2>1. TradeRows(batch) \subseteq Rows
    BY ConstantsAssumption
       DEF TypeOK, TradeRows, SwapIds, SwapRow, WalletRow, Rows, RowTypes
  <2> QED BY <1>11, <2>1 DEF WriteSwaps, TypeOK, Steps
<1>12. CASE Checkpoint
  BY <1>12 DEF Checkpoint, TypeOK, Steps
<1>13. CASE CheckpointFails
  BY <1>13 DEF CheckpointFails, TypeOK, Steps
<1>14. CASE Crash \/ \E p \in Pools : FatalTail(p)
  <2>1. Perish
    BY <1>14 DEF Crash, FatalTail
  <2>2. PICK part \in PartialWrites : rows' = rows \cup part
    BY <2>1 DEF Perish
  <2>3. part \subseteq Rows
    BY PartialWriteType
  <2>4. crashes' \in Nat
    BY <2>1, ConstantsAssumption DEF Perish, Least, TypeOK
  <2> QED BY <2>1, <2>2, <2>3, <2>4 DEF Perish, TypeOK, Steps, Memory, Fresh
<1>15. CASE UNCHANGED vars
  BY <1>15 DEF vars, TypeOK
<1> QED
  BY <1>1, <1>2, <1>3, <1>4, <1>5, <1>6, <1>7, <1>8, <1>9, <1>10, <1>11, <1>12, <1>13,
     <1>14, <1>15 DEF Next, World, Process

(* Every state the collector reaches is well-typed (Collector!TypeOK).     *)
THEOREM TypeCorrect == Spec => []TypeOK
BY TypeInit, TypeStep, PTL DEF Spec

----------------------------------------------------------------------------
(* The budget of slots survives an admission: evictions pay for the pins   *)
(* that exceed the free slots, and discovery pools take what is left.      *)
LEMMA AdmissionBudget ==
  ASSUME TypeOK, mem.disc \cap mem.grad = {},
         Cardinality(Watched(mem)) <= WatchMax, Cardinality(mem.disc) <= DiscCap,
         NEW m, NEW in, NEW out, NEW new, Admits(m, in, out, new)
  PROVE  Cardinality(Watched(m)) <= WatchMax /\ Cardinality(m.disc) <= DiscCap
<1> DEFINE kept == mem.disc \ out
           base == kept \cup mem.grad \cup in
           free == Excess(WatchMax, Cardinality(Watched(mem)))
<1>1. /\ mem \in Memory /\ in \subseteq Pools /\ new \subseteq Pools /\ out \subseteq mem.disc
      /\ mem.disc \subseteq Pools /\ mem.grad \subseteq Pools
  BY CandidateType DEF Admits, TypeOK, Memory
<1>2. m.disc = kept \cup new /\ Watched(m) = base \cup new
  BY <1>1 DEF Admits, Memory, Watched
<1>3. /\ Cardinality(in) <= free + Cardinality(mem.disc)
      /\ Cardinality(out) = Least(Cardinality(mem.disc), Excess(Cardinality(in), free))
      /\ Cardinality(new) <= Excess(WatchMax, Cardinality(base))
      /\ Cardinality(new) <= Excess(DiscCap, Cardinality(kept))
  BY DEF Admits
<1>4. /\ IsFiniteSet(in) /\ IsFiniteSet(out) /\ IsFiniteSet(new) /\ IsFiniteSet(mem.disc)
      /\ IsFiniteSet(mem.grad) /\ IsFiniteSet(kept) /\ IsFiniteSet(base)
      /\ IsFiniteSet(kept \cup mem.grad)
  BY <1>1, PoolSets
<1>5. /\ Cardinality(in) \in Nat /\ Cardinality(out) \in Nat /\ Cardinality(new) \in Nat
      /\ Cardinality(mem.disc) \in Nat /\ Cardinality(mem.grad) \in Nat
      /\ Cardinality(kept) \in Nat /\ Cardinality(base) \in Nat
      /\ Cardinality(kept \cup mem.grad) \in Nat /\ Cardinality(Watched(mem)) \in Nat
  BY <1>1, PoolSets DEF Watched
<1>6. WatchMax \in Nat /\ DiscCap \in Nat
  BY ConstantsAssumption, Bounds DEF DiscCap
<1>7. Cardinality(kept) = Cardinality(mem.disc) - Cardinality(out)
  <2>1. mem.disc \cap out = out
    BY <1>1
  <2> QED BY <2>1, <1>4, FS_Difference
<1>8. Cardinality(Watched(mem)) = Cardinality(mem.disc) + Cardinality(mem.grad)
  BY <1>4, DisjointUnion DEF Watched
<1>9. Cardinality(kept \cup mem.grad) = Cardinality(kept) + Cardinality(mem.grad)
  <2>1. kept \cap mem.grad = {}
    OBVIOUS
  <2> QED BY <2>1, <1>4, DisjointUnion
<1>10. Cardinality(base) <= Cardinality(kept \cup mem.grad) + Cardinality(in)
  <2>1. Cardinality((kept \cup mem.grad) \cap in) \in Nat
    BY <1>1, PoolSets
  <2>2. Cardinality(base) = Cardinality(kept \cup mem.grad) + Cardinality(in)
                              - Cardinality((kept \cup mem.grad) \cap in)
    BY <1>4, FS_Union
  <2> QED BY <1>5, <2>1, <2>2
<1>11. Cardinality(base \cup new) <= Cardinality(base) + Cardinality(new)
  <2>1. Cardinality(base \cap new) \in Nat
    BY <1>1, PoolSets
  <2>2. Cardinality(base \cup new) = Cardinality(base) + Cardinality(new) - Cardinality(base \cap new)
    BY <1>4, FS_Union
  <2> QED BY <1>5, <2>1, <2>2
<1>12. Cardinality(kept \cup new) <= Cardinality(kept) + Cardinality(new)
  <2>1. Cardinality(kept \cap new) \in Nat
    BY <1>1, PoolSets
  <2>2. Cardinality(kept \cup new) = Cardinality(kept) + Cardinality(new) - Cardinality(kept \cap new)
    BY <1>4, FS_Union
  <2> QED BY <1>5, <2>1, <2>2
<1>13. Cardinality(base \cup new) \in Nat /\ Cardinality(kept \cup new) \in Nat
  BY <1>1, PoolSets
<1>14. Cardinality(Watched(m)) = Cardinality(base \cup new)
       /\ Cardinality(m.disc) = Cardinality(kept \cup new)
  BY <1>2
<1>15. free = WatchMax - Cardinality(Watched(mem))
  BY <1>5, <1>6, Bounds
<1>16. /\ Cardinality(base) <= WatchMax => Excess(WatchMax, Cardinality(base)) = WatchMax - Cardinality(base)
       /\ Cardinality(kept) <= DiscCap => Excess(DiscCap, Cardinality(kept)) = DiscCap - Cardinality(kept)
  BY <1>5, <1>6 DEF Excess
<1> HIDE DEF kept, base, free
<1>17. Cardinality(out) >= Cardinality(in) - free
  <2>1. free \in Nat
    BY <1>15, <1>5, <1>6
  <2> QED BY <1>3, <1>5, <2>1 DEF Least, Excess
<1>18. Cardinality(base) <= WatchMax
  BY <1>5, <1>6, <1>7, <1>8, <1>9, <1>10, <1>15, <1>17
<1>19. Cardinality(kept) <= DiscCap
  BY <1>5, <1>6, <1>7
<1>20. Cardinality(base \cup new) <= WatchMax
  BY <1>3, <1>5, <1>6, <1>11, <1>13, <1>16, <1>18
<1>21. Cardinality(kept \cup new) <= DiscCap
  BY <1>3, <1>5, <1>6, <1>12, <1>13, <1>16, <1>19
<1> QED BY <1>14, <1>20, <1>21
(* A memory the store bears out stays so while the store grows.            *)
LEMMA SoundMonotone ==
  ASSUME NEW m, NEW R, NEW Q, Sound(m, R), R \subseteq Q
  PROVE  Sound(m, Q)
BY DEF Sound, Backed

LEMMA FreshSound ==
  ASSUME NEW R
  PROVE  Sound(Fresh, R)
<1>1. DiscCap \in Nat /\ WatchMax \in Nat
  BY ConstantsAssumption, Bounds DEF DiscCap
<1>2. Cardinality({}) = 0
  BY FS_EmptySet
<1>3. Watched(Fresh) = {} /\ Fresh.disc = {} /\ Fresh.grad = {} /\ Fresh.retired = {}
  BY DEF Watched, Fresh
<1> QED BY <1>1, <1>2, <1>3 DEF Sound, PoolRows

(* Retiring watched pools from a sound memory leaves it sound.             *)
LEMMA SoundRetire ==
  ASSUME NEW m \in Memory, NEW R, Sound(m, R), NEW S, S \subseteq Watched(m),
         NEW n, n = [m EXCEPT !.disc = @ \ S, !.grad = @ \ S, !.retired = @ \cup S]
  PROVE  Sound(n, R)
<1>1. n.disc = m.disc \ S /\ n.grad = m.grad \ S /\ n.retired = m.retired \cup S
  BY DEF Memory
<1>2. Watched(n) = Watched(m) \ S
  BY <1>1 DEF Watched
<1>3. Cardinality(Watched(n)) <= Cardinality(Watched(m)) /\ Cardinality(n.disc) <= Cardinality(m.disc)
  BY <1>1, <1>2, PoolSets, FS_Subset DEF Memory, Watched
<1>4. /\ Cardinality(Watched(n)) \in Nat /\ Cardinality(Watched(m)) \in Nat
      /\ Cardinality(n.disc) \in Nat /\ Cardinality(m.disc) \in Nat
      /\ WatchMax \in Nat /\ DiscCap \in Nat
  <2>1. /\ Watched(n) \subseteq Pools /\ Watched(m) \subseteq Pools
        /\ n.disc \subseteq Pools /\ m.disc \subseteq Pools
    BY <1>1, <1>2 DEF Memory, Watched
  <2>2. WatchMax \in Nat /\ DiscCap \in Nat
    BY ConstantsAssumption, Bounds DEF DiscCap
  <2> QED BY <2>1, <2>2, PoolSets
<1>5. Cardinality(Watched(n)) <= WatchMax /\ Cardinality(n.disc) <= DiscCap
  BY <1>3, <1>4 DEF Sound
<1>6. Watched(n) \cup n.retired = Watched(m) \cup m.retired
  BY <1>1, <1>2
<1> QED BY <1>1, <1>2, <1>5, <1>6 DEF Sound

LEMMA IInit == Init => IInv
<1> SUFFICES ASSUME Init PROVE IInv
  OBVIOUS
<1>1. TypeOK
  BY TypeInit
<1>2. ScratchInv /\ OnChain /\ RetiredKnown /\ RowsRecorded /\ BatchRecorded
  BY DEF Init, ScratchInv, OnChain, RetiredKnown, RowsRecorded, BatchRecorded, Range
<1>3. Sound(mem, rows) /\ Sound(disk, rows)
  BY FreshSound DEF Init
<1>4. MintsJustified /\ DurablePins /\ NoSwapLost /\ WalletLinked
  BY DEF Init, MintsJustified, DurablePins, NoSwapLost, WalletLinked, Fresh
<1> QED BY <1>1, <1>2, <1>3, <1>4 DEF IInv

(* Pins in the checkpoint outlive any step that keeps the two memories and *)
(* lets time pass: a pool of the chain never gets younger.                 *)
LEMMA AgeMonotone ==
  ASSUME IInv, NEW p \in disk.grad \cup mem.grad, NEW w \in Nat, Expired(p, w),
         now' \in Nat /\ now' >= now, createdAt'[p] = createdAt[p]
  PROVE  Expired(p, w)'
<1>1. p \in Pools /\ createdAt[p] \in Nat /\ now \in Nat
  BY DEF IInv, TypeOK, Memory
<1> QED BY <1>1 DEF Expired

(* What is watched or retired is on the chain.                             *)
LEMMA KnownOnChain ==
  ASSUME IInv, NEW m, m = mem \/ m = disk
  PROVE  Watched(m) \cup m.retired \subseteq Range(chain)
<1>1. \A p \in Watched(m) \cup m.retired : PoolRow(p) \in rows
  BY DEF IInv, Sound, PoolRows
<1>2. \A p : PoolRow(p).pool = p
  BY DEF PoolRow
<1> QED BY <1>1, <1>2 DEF IInv, OnChain

LEMMA StepTick ==
  ASSUME IInv, TypeOK', Tick
  PROVE  IInv'
<1> USE DEF world, scratch
<1>1. DurablePins'
  <2>1. ASSUME NEW p \in disk.grad, p \notin mem.grad, pc # "down", ~MayDiscard
        PROVE  Expired(p, MaxPoolAge)'
    BY <2>1, AgeMonotone, ConstantsAssumption DEF IInv, DurablePins, Tick, TypeOK
  <2> QED BY <2>1 DEF DurablePins, Tick
<1>2. Sound(mem, rows)' /\ Sound(disk, rows)'
  BY DEF IInv, Tick
<1>3. ScratchInv' /\ OnChain' /\ RetiredKnown' /\ RowsRecorded' /\ BatchRecorded'
  BY DEF Tick, IInv, ScratchInv, OnChain, RetiredKnown, RowsRecorded, BatchRecorded
<1>4. MintsJustified' /\ NoSwapLost' /\ WalletLinked'
  BY DEF Tick, IInv, MintsJustified, NoSwapLost, WalletLinked
<1> QED BY <1>1, <1>2, <1>3, <1>4 DEF IInv

LEMMA StepCreatePool ==
  ASSUME IInv, TypeOK', NEW c \in Pools, CreatePool(c)
  PROVE  IInv'
<1> USE DEF world, scratch
<1>1. Range(chain') = Range(chain) \cup {c}
  BY RangeAppend DEF CreatePool, IInv, TypeOK
<1>2. OnChain'
  BY <1>1 DEF OnChain, CreatePool, IInv
<1>3. DurablePins'
  <2>1. \A p \in disk.grad : p # c
    BY KnownOnChain DEF CreatePool, Watched
  <2>2. ASSUME NEW p \in disk.grad, p \notin mem.grad, pc # "down", ~MayDiscard
        PROVE  Expired(p, MaxPoolAge)'
    <3>1. createdAt'[p] = createdAt[p] /\ now' = now
      BY <2>1, <2>2 DEF CreatePool, IInv, TypeOK, Memory
    <3>2. Expired(p, MaxPoolAge)
      BY <2>2 DEF IInv, DurablePins
    <3> QED BY <3>1, <3>2 DEF Expired
  <2> QED BY <2>2 DEF DurablePins, CreatePool
<1>4. Sound(mem, rows)' /\ Sound(disk, rows)'
  BY DEF IInv, CreatePool
<1>5. ScratchInv' /\ RetiredKnown' /\ RowsRecorded' /\ BatchRecorded'
  BY DEF CreatePool, IInv, ScratchInv, RetiredKnown, RowsRecorded, BatchRecorded
<1>6. MintsJustified' /\ NoSwapLost' /\ WalletLinked'
  BY DEF CreatePool, IInv, MintsJustified, NoSwapLost, WalletLinked
<1> QED BY <1>2, <1>3, <1>4, <1>5, <1>6 DEF IInv

LEMMA StepRestart ==
  ASSUME IInv, TypeOK', Restart
  PROVE  IInv'
<1> USE DEF world, scratch
<1>1. mem' = disk \/ (MayDiscard /\ mem' = Fresh)
  BY DEF Restart
<1>2. /\ pc = "down" /\ pc' = "age_out" /\ listed = <<>> /\ todo = {} /\ batch = {}
      /\ UNCHANGED <<world, scratch, seen, disk, rows, crashes>>
  BY DEF Restart, IInv, ScratchInv
<1>3. Sound(mem, rows)' /\ Sound(disk, rows)'
  BY <1>1, <1>2, FreshSound DEF IInv
<1>4. RetiredKnown' /\ DurablePins'
  BY <1>1, <1>2 DEF RetiredKnown, DurablePins
<1>5. MintsJustified'
  BY <1>1, <1>2 DEF IInv, MintsJustified, Fresh
<1>6. ScratchInv' /\ OnChain' /\ RowsRecorded' /\ BatchRecorded' /\ NoSwapLost' /\ WalletLinked'
  BY <1>2 DEF IInv, ScratchInv, OnChain, RowsRecorded, BatchRecorded, NoSwapLost, WalletLinked
<1> QED BY <1>3, <1>4, <1>5, <1>6 DEF IInv

LEMMA StepAgeOut ==
  ASSUME IInv, TypeOK', AgeOut
  PROVE  IInv'
<1> USE DEF world, scratch
<1>1. /\ pc = "age_out" /\ pc' = "enumerate" /\ listed = <<>> /\ todo = {} /\ batch = {}
      /\ UNCHANGED <<world, scratch, seen, disk, rows, crashes>>
  BY DEF AgeOut, IInv, ScratchInv
<1>2. Stale(mem) \subseteq Watched(mem) /\ mem \in Memory
  BY DEF Stale, Watched, IInv, TypeOK
<1>3. mem' = [mem EXCEPT !.disc = @ \ Stale(mem), !.grad = @ \ Stale(mem),
                         !.retired = @ \cup Stale(mem)]
  BY DEF AgeOut
<1>4. /\ mem'.disc = mem.disc \ Stale(mem) /\ mem'.grad = mem.grad \ Stale(mem)
      /\ mem'.retired = mem.retired \cup Stale(mem) /\ mem'.bcMints = mem.bcMints
  BY <1>2, <1>3 DEF Memory
<1>5. Sound(mem, rows)' /\ Sound(disk, rows)'
  <2>1. Sound(mem, rows) /\ Sound(disk, rows)
    BY DEF IInv
  <2>2. Sound(mem', rows)
    BY <1>2, <1>3, <2>1, SoundRetire
  <2> QED BY <1>1, <2>1, <2>2
<1>6. RetiredKnown'
  BY <1>1, <1>4 DEF IInv, RetiredKnown
<1>7. DurablePins'
  <2>1. mem.disc \cap mem.grad = {}
    BY DEF IInv, Sound
  <2>2. \A p \in mem.grad \ mem'.grad : Expired(p, MaxPoolAge)
    BY <1>4, <2>1 DEF Stale
  <2> QED BY <1>1, <2>2 DEF IInv, DurablePins, Expired
<1>8. MintsJustified'
  BY <1>1, <1>4 DEF IInv, MintsJustified
<1>9. ScratchInv' /\ OnChain' /\ RowsRecorded' /\ BatchRecorded' /\ NoSwapLost' /\ WalletLinked'
  BY <1>1 DEF IInv, ScratchInv, OnChain, RowsRecorded, BatchRecorded, NoSwapLost, WalletLinked
<1> QED BY <1>5, <1>6, <1>7, <1>8, <1>9 DEF IInv

LEMMA StepFetchPage ==
  ASSUME IInv, TypeOK', FetchPage
  PROVE  IInv'
<1> USE DEF world, scratch
<1> DEFINE got == NewestPage(page)
           met == {MintOf[p] : p \in {q \in Range(got) \ Unmapped : PhaseOf[q] = "BC"}}
<1>1. got \in Seq(Pools) /\ Range(got) \subseteq Range(chain) /\ Range(got) \subseteq Pools
  BY NewestPageType, RangeType DEF IInv, TypeOK
<1>2. /\ pc = "enumerate" /\ pc' \in {"enumerate", "write_pools"}
      /\ listed' = listed \o got
      /\ mem' = [mem EXCEPT !.bcMints = @ \cup met]
      /\ UNCHANGED <<world, todo, tailing, batch, seen, disk, rows, crashes>>
  BY DEF FetchPage
<1>3. \A mint \in met : \E q \in BcPoolOf(mint) : q \in Range(got) \ Unmapped
  BY <1>1 DEF BcPoolOf
<1> HIDE DEF got, met
<1>4. Range(listed') = Range(listed) \cup Range(got)
  BY <1>1, <1>2, RangeConcat DEF IInv, TypeOK
<1>5. /\ mem'.disc = mem.disc /\ mem'.grad = mem.grad /\ mem'.retired = mem.retired
      /\ mem'.bcMints = mem.bcMints \cup met /\ Watched(mem') = Watched(mem)
  BY <1>2 DEF IInv, TypeOK, Memory, Watched
<1>6. ScratchInv' /\ OnChain'
  BY <1>1, <1>2, <1>4, <1>5 DEF IInv, ScratchInv, OnChain
<1>7. Sound(mem, rows)' /\ Sound(disk, rows)'
  BY <1>2, <1>5 DEF IInv, Sound
<1>8. RetiredKnown' /\ DurablePins'
  BY <1>2, <1>5 DEF IInv, RetiredKnown, DurablePins, Expired
<1>9. MintsJustified'
  BY <1>2, <1>3, <1>4, <1>5 DEF IInv, MintsJustified
<1>10. RowsRecorded' /\ BatchRecorded' /\ NoSwapLost' /\ WalletLinked'
  BY <1>2 DEF IInv, RowsRecorded, BatchRecorded, NoSwapLost, WalletLinked
<1> QED BY <1>6, <1>7, <1>8, <1>9, <1>10 DEF IInv

LEMMA StepWritePoolsAndAdmit ==
  ASSUME IInv, TypeOK', WritePoolsAndAdmit
  PROVE  IInv'
<1> USE DEF world, scratch
<1>1. /\ pc = "write_pools" /\ pc' = "tail" /\ todo' = Watched(mem') /\ listed' = <<>>
      /\ rows' = rows \cup PoolRows(Enumerated) /\ batch = {}
      /\ UNCHANGED <<world, tailing, batch, seen, disk, crashes>>
  BY DEF WritePoolsAndAdmit, Universe, IInv, ScratchInv
<1>2. PICK in, out, new : Admits(mem', in, out, new)
  BY AdmissionFacts DEF IInv, WritePoolsAndAdmit
<1>3. /\ in \subseteq Candidates /\ (\A p \in in : IsGraduation(p))
      /\ out \subseteq mem.disc /\ new \subseteq Candidates \ in
      /\ mem'.grad = mem.grad \cup in /\ mem'.disc = (mem.disc \ out) \cup new
      /\ mem'.retired = mem.retired \cup out /\ mem'.bcMints = mem.bcMints
  BY <1>2 DEF Admits, IInv, TypeOK, Memory
<1>4. Candidates \subseteq Enumerated /\ Candidates \cap (Watched(mem) \cup mem.retired) = {}
  BY DEF Candidates
<1>5. Enumerated = Range(listed) \ Unmapped
  BY DEF Enumerated
<1>6. Sound(mem, rows)' /\ Sound(disk, rows)'
  <2>1. Sound(mem, rows) /\ Sound(disk, rows)
    BY DEF IInv
  <2>2. Sound(disk, rows')
    BY <1>1, <2>1, SoundMonotone
  <2>3. mem'.disc \cap mem'.grad = {}
    BY <1>3, <1>4, <2>1 DEF Sound, Watched
  <2>4. Cardinality(Watched(mem')) <= WatchMax /\ Cardinality(mem'.disc) <= DiscCap
    BY <1>2, <2>1, AdmissionBudget DEF Sound, IInv
  <2>5. Watched(mem') \cap mem'.retired = {}
    BY <1>3, <1>4, <2>1 DEF Sound, Watched
  <2>6. PoolRows(Watched(mem') \cup mem'.retired) \subseteq rows'
    <3>1. Watched(mem') \cup mem'.retired \subseteq Watched(mem) \cup mem.retired \cup Enumerated
      BY <1>3, <1>4 DEF Watched
    <3>2. PoolRows(Watched(mem) \cup mem.retired) \subseteq rows
      BY <2>1 DEF Sound
    <3> QED BY <1>1, <3>1, <3>2 DEF PoolRows
  <2>7. \A p \in mem'.grad : Backed(p, rows')
    <3>1. \A p \in mem.grad : Backed(p, rows')
      BY <1>1, <2>1 DEF Sound, Backed
    <3>2. ASSUME NEW p \in in PROVE Backed(p, rows')
      <4>1. PhaseOf[p] = "AMM" /\ MintOf[p] \in mem.bcMints
        BY <1>3 DEF IsGraduation
      <4>2. PICK q \in BcPoolOf(MintOf[p]) : PoolRow(q) \in rows \/ q \in Range(listed) \ Unmapped
        BY <4>1 DEF IInv, MintsJustified
      <4>3. PoolRow(q) \in rows'
        BY <1>1, <1>5, <4>2 DEF PoolRows
      <4> QED BY <4>1, <4>2, <4>3 DEF Backed, BcPoolOf
    <3> QED BY <1>3, <3>1, <3>2
  <2>8. Sound(mem', rows')
    BY <2>3, <2>4, <2>5, <2>6, <2>7 DEF Sound
  <2> QED BY <1>1, <2>2, <2>8
<1>7. OnChain'
  <2>1. \A r \in PoolRows(Enumerated) : r.pool \in Range(chain)
    BY <1>5 DEF PoolRows, PoolRow, IInv, OnChain
  <2>2. Range(<<>>) = {}
    BY DEF Range
  <2> QED BY <1>1, <2>1, <2>2 DEF IInv, OnChain
<1>8. RowsRecorded' /\ BatchRecorded'
  BY <1>1 DEF IInv, RowsRecorded, BatchRecorded, PoolRows, PoolRow
<1>9. MintsJustified'
  BY <1>1, <1>3, <1>5 DEF IInv, MintsJustified, PoolRows
<1>10. ScratchInv' /\ RetiredKnown' /\ DurablePins'
  BY <1>1, <1>3 DEF IInv, ScratchInv, RetiredKnown, DurablePins, Expired
<1>11. NoSwapLost' /\ WalletLinked'
  BY <1>1 DEF IInv, NoSwapLost, WalletLinked, PoolRows, PoolRow
<1> QED BY <1>6, <1>7, <1>8, <1>9, <1>10, <1>11 DEF IInv

(* Reading a page of a pool's history touches the batch only.              *)
LEMMA StepTail ==
  ASSUME IInv, TypeOK', NEW p \in Pools, TailPage(p) \/ SkipPool(p)
  PROVE  IInv'
<1> USE DEF world, scratch
<1>1. /\ pc = "tail" /\ p \in todo /\ todo' \subseteq todo
      /\ UNCHANGED <<world, pc, mem, listed, disk, rows, crashes>>
  BY DEF TailPage, SkipPool
<1>2. seen' \ batch' \subseteq seen \ batch /\ \A s \in batch' \ batch : s[1] = p
  BY DEF TailPage, SkipPool
<1>3. PoolRow(p) \in rows
  BY <1>1 DEF IInv, ScratchInv, Sound, PoolRows
<1>4. BatchRecorded'
  BY <1>1, <1>2, <1>3 DEF IInv, BatchRecorded
<1>5. NoSwapLost'
  BY <1>1, <1>2 DEF IInv, NoSwapLost
<1>6. ScratchInv' /\ OnChain' /\ RetiredKnown' /\ RowsRecorded' /\ MintsJustified'
  BY <1>1 DEF IInv, ScratchInv, OnChain, RetiredKnown, RowsRecorded, MintsJustified
<1>7. Sound(mem, rows)' /\ Sound(disk, rows)' /\ DurablePins' /\ WalletLinked'
  BY <1>1 DEF IInv, DurablePins, Expired, WalletLinked
<1> QED BY <1>4, <1>5, <1>6, <1>7 DEF IInv

(* A write, whole or cut short, of fetched swaps with their wallet events: *)
(* the rows it adds are of recorded pools, and a wallet event never comes  *)
(* without its swap.                                                       *)
LEMMA TradeRowFacts ==
  ASSUME IInv, NEW D \in SUBSET batch
  PROVE  /\ \A r \in TradeRows(D) : \E s \in D : r = SwapRow(s) \/ r = WalletRow(s)
         /\ \A s \in D : SwapRow(s) \in TradeRows(D) /\ WalletRow(s) \in TradeRows(D)
         /\ \A s \in batch : /\ SwapRow(s).pool = s[1] /\ WalletRow(s).pool = s[1]
                             /\ SwapRow(s).type # "wallet_event"
                             /\ [WalletRow(s) EXCEPT !.type = "swap"] = SwapRow(s)
<1>1. /\ \A r \in TradeRows(D) : \E s \in D : r = SwapRow(s) \/ r = WalletRow(s)
      /\ \A s \in D : SwapRow(s) \in TradeRows(D) /\ WalletRow(s) \in TradeRows(D)
  BY DEF TradeRows
<1>2. \A s \in batch : /\ SwapRow(s).pool = s[1] /\ WalletRow(s).pool = s[1]
                       /\ SwapRow(s).type # "wallet_event"
  BY DEF SwapRow, WalletRow
<1>3. \A s \in batch : [WalletRow(s) EXCEPT !.type = "swap"] = SwapRow(s)
  BY DEF SwapRow, WalletRow
<1> QED BY <1>1, <1>2, <1>3

LEMMA RecordedOnChain ==
  ASSUME IInv, NEW p, PoolRow(p) \in rows
  PROVE  p \in Range(chain)
<1>1. PoolRow(p).pool = p
  BY DEF PoolRow
<1> QED BY <1>1 DEF IInv, OnChain

LEMMA StepWriteSwaps ==
  ASSUME IInv, TypeOK', WriteSwaps
  PROVE  IInv'
<1> USE DEF world, scratch
<1>1. /\ pc = "tail" /\ pc' = "checkpoint" /\ todo = {} /\ todo' = {} /\ batch' = {}
      /\ rows' = rows \cup TradeRows(batch)
      /\ UNCHANGED <<world, mem, page, listed, tailing, seen, disk, crashes>>
  BY DEF WriteSwaps
<1>2. /\ \A r \in TradeRows(batch) : \E s \in batch : r = SwapRow(s) \/ r = WalletRow(s)
      /\ \A s \in batch : SwapRow(s) \in TradeRows(batch) /\ WalletRow(s) \in TradeRows(batch)
      /\ \A s \in batch : /\ SwapRow(s).pool = s[1] /\ WalletRow(s).pool = s[1]
                          /\ SwapRow(s).type # "wallet_event"
                          /\ [WalletRow(s) EXCEPT !.type = "swap"] = SwapRow(s)
  BY TradeRowFacts
<1>3. \A s \in batch : PoolRow(s[1]) \in rows /\ s[1] \in Range(chain)
  BY RecordedOnChain DEF IInv, BatchRecorded
<1>4. Sound(mem, rows)' /\ Sound(disk, rows)'
  BY <1>1, SoundMonotone DEF IInv
<1>5. OnChain' /\ RowsRecorded'
  BY <1>1, <1>2, <1>3 DEF IInv, OnChain, RowsRecorded
<1>6. NoSwapLost'
  BY <1>1, <1>2 DEF IInv, NoSwapLost
<1>7. WalletLinked'
  BY <1>1, <1>2 DEF IInv, WalletLinked
<1>8. ScratchInv' /\ BatchRecorded' /\ RetiredKnown' /\ DurablePins' /\ MintsJustified'
  BY <1>1 DEF IInv, ScratchInv, BatchRecorded, RetiredKnown, DurablePins, Expired, MintsJustified
<1> QED BY <1>4, <1>5, <1>6, <1>7, <1>8 DEF IInv

LEMMA StepCheckpoint ==
  ASSUME IInv, TypeOK', Checkpoint
  PROVE  IInv'
<1> USE DEF world, scratch
<1>1. /\ pc = "checkpoint" /\ pc' = "age_out" /\ disk' = mem /\ listed = <<>>
      /\ UNCHANGED <<world, mem, scratch, seen, rows, crashes>>
  BY DEF Checkpoint, IInv, ScratchInv
<1>2. MintsJustified'
  <2>1. Range(<<>>) = {}
    BY DEF Range
  <2> QED BY <1>1, <2>1 DEF IInv, MintsJustified
<1>3. Sound(mem, rows)' /\ Sound(disk, rows)' /\ RetiredKnown' /\ DurablePins'
  BY <1>1 DEF IInv, RetiredKnown, DurablePins
<1>4. ScratchInv' /\ OnChain' /\ RowsRecorded' /\ BatchRecorded' /\ NoSwapLost' /\ WalletLinked'
  BY <1>1 DEF IInv, ScratchInv, OnChain, RowsRecorded, BatchRecorded, NoSwapLost, WalletLinked
<1> QED BY <1>2, <1>3, <1>4 DEF IInv

(* The rows a death leaves of a write under way.                           *)
LEMMA PartialWriteFacts ==
  ASSUME IInv, NEW part \in PartialWrites
  PROVE  /\ \A r \in part : r.pool \in Range(chain) /\ PoolRow(r.pool) \in rows \cup part
         /\ \A r \in part : r.type = "wallet_event" => [r EXCEPT !.type = "swap"] \in part
<1>1. CASE pc = "write_pools"
  <2>1. PICK i \in 0..Len(listed) : part = PoolRows(Range(SubSeq(listed, 1, i)) \ Unmapped)
    BY <1>1 DEF PartialWrites
  <2>2. Range(SubSeq(listed, 1, i)) \subseteq Range(chain)
    BY RangePrefix DEF IInv, TypeOK, OnChain
  <2> QED BY <2>1, <2>2 DEF PoolRows, PoolRow
<1>2. CASE pc = "tail" /\ todo = {}
  <2>1. PICK D \in SUBSET batch :
          part = TradeRows(D) \/ \E s \in batch : part = TradeRows(D) \cup {SwapRow(s)}
    BY <1>2 DEF PartialWrites
  <2>2. /\ \A r \in TradeRows(D) : \E s \in D : r = SwapRow(s) \/ r = WalletRow(s)
        /\ \A s \in D : SwapRow(s) \in TradeRows(D) /\ WalletRow(s) \in TradeRows(D)
        /\ \A s \in batch : /\ SwapRow(s).pool = s[1] /\ WalletRow(s).pool = s[1]
                            /\ SwapRow(s).type # "wallet_event"
                            /\ [WalletRow(s) EXCEPT !.type = "swap"] = SwapRow(s)
    BY TradeRowFacts
  <2>3. \A s \in batch : PoolRow(s[1]) \in rows /\ s[1] \in Range(chain)
    BY RecordedOnChain DEF IInv, BatchRecorded
  <2> QED BY <2>1, <2>2, <2>3
<1>3. CASE pc # "write_pools" /\ ~(pc = "tail" /\ todo = {})
  BY <1>3 DEF PartialWrites
<1> QED BY <1>1, <1>2, <1>3

LEMMA StepPerish ==
  ASSUME IInv, TypeOK', Perish
  PROVE  IInv'
<1> USE DEF world, scratch
<1>1. PICK part \in PartialWrites : rows' = rows \cup part
  BY DEF Perish
<1>2. /\ pc' = "down" /\ mem' = Fresh /\ seen' = {} /\ listed' = <<>> /\ todo' = {} /\ batch' = {}
      /\ UNCHANGED <<world, disk>>
  BY DEF Perish
<1>3. /\ \A r \in part : r.pool \in Range(chain) /\ PoolRow(r.pool) \in rows \cup part
      /\ \A r \in part : r.type = "wallet_event" => [r EXCEPT !.type = "swap"] \in part
  BY PartialWriteFacts
<1>4. Sound(mem, rows)' /\ Sound(disk, rows)'
  BY <1>1, <1>2, FreshSound, SoundMonotone DEF IInv
<1>5. OnChain' /\ RowsRecorded'
  BY <1>1, <1>2, <1>3 DEF IInv, OnChain, RowsRecorded, Range
<1>6. WalletLinked'
  BY <1>1, <1>3 DEF IInv, WalletLinked
<1>7. MintsJustified'
  BY <1>1, <1>2 DEF IInv, MintsJustified, Fresh
<1>8. ScratchInv' /\ BatchRecorded' /\ NoSwapLost' /\ RetiredKnown' /\ DurablePins'
  BY <1>2 DEF ScratchInv, BatchRecorded, NoSwapLost, RetiredKnown, DurablePins
<1> QED BY <1>4, <1>5, <1>6, <1>7, <1>8 DEF IInv

(* Steps that leave everything the invariant is about as it is.            *)
LEMMA StepElse ==
  ASSUME IInv, TypeOK',
         \/ TruncateEnumeration \/ CheckpointFails \/ UNCHANGED vars
         \/ \E p \in Pools : Trade(p)
  PROVE  IInv'
<1> USE DEF world, scratch
<1>1. /\ pc' = pc \/ (pc = "enumerate" /\ pc' = "write_pools")
                  \/ (pc = "checkpoint" /\ pc' = "age_out")
      /\ UNCHANGED <<now, chain, createdAt, mem, scratch, seen, disk, rows>>
  BY DEF TruncateEnumeration, CheckpointFails, Trade, vars
<1>2. Sound(mem, rows)' /\ Sound(disk, rows)' /\ OnChain' /\ ScratchInv'
  BY <1>1 DEF IInv, OnChain, ScratchInv
<1>3. RetiredKnown' /\ RowsRecorded' /\ BatchRecorded' /\ MintsJustified' /\ DurablePins'
  BY <1>1 DEF IInv, RetiredKnown, RowsRecorded, BatchRecorded, MintsJustified, DurablePins, Expired
<1>4. NoSwapLost' /\ WalletLinked'
  BY <1>1 DEF IInv, NoSwapLost, WalletLinked
<1> QED BY <1>2, <1>3, <1>4 DEF IInv

LEMMA IStep == IInv /\ [Next]_vars => IInv'
<1> SUFFICES ASSUME IInv, [Next]_vars PROVE IInv'
  OBVIOUS
<1>1. TypeOK'
  BY TypeStep DEF IInv
<1> QED
  BY <1>1, StepTick, StepCreatePool, StepRestart, StepAgeOut, StepFetchPage,
     StepWritePoolsAndAdmit, StepTail, StepWriteSwaps, StepCheckpoint, StepPerish, StepElse
     DEF Next, World, Process, Crash, FatalTail

LEMMA Invariance == Spec => []IInv
BY IInit, IStep, PTL DEF Spec

----------------------------------------------------------------------------
(* The safety properties of Collector, each a consequence of IInv.         *)

(* The two tiers keep their shares of the watchlist, whatever crashes and  *)
(* reloads come between the admissions (SlotBudget).                       *)
THEOREM BudgetKept == Spec => []SlotBudget
<1>1. IInv => SlotBudget
  BY DEF IInv, Sound, SlotBudget
<1> QED BY <1>1, Invariance, PTL

(* A retired pool is never watched again, in this process or a later one   *)
(* (RetiredStaysOut).                                                      *)
THEOREM RetiredNeverReturns == Spec => []RetiredStaysOut
<1>1. IInv => RetiredStaysOut
  <2> SUFFICES ASSUME IInv PROVE RetiredStaysOut
    OBVIOUS
  <2>1. \A m \in {mem, disk} : Watched(m) \cap m.retired = {}
    BY DEF IInv, Sound
  <2>2. CASE pc = "down"
    BY <2>1, <2>2 DEF IInv, ScratchInv, RetiredStaysOut, Watched, Fresh
  <2>3. CASE pc # "down"
    BY <2>1, <2>3 DEF IInv, RetiredKnown, RetiredStaysOut
  <2> QED BY <2>2, <2>3
<1> QED BY <1>1, Invariance, PTL

(* The store's universe covers everything watched, retired or traded       *)
(* (SurvivorshipSafe).                                                     *)
THEOREM Survivorship == Spec => []SurvivorshipSafe
<1>1. IInv => SurvivorshipSafe
  BY DEF IInv, Sound, RowsRecorded, SurvivorshipSafe
<1> QED BY <1>1, Invariance, PTL

(* Every pin is an AMM pool of a mint whose bonding-curve pool the store   *)
(* already holds (PinsJustified).                                          *)
THEOREM NoLookAheadPin == Spec => []PinsJustified
<1>1. IInv => PinsJustified
  BY DEF IInv, Sound, Backed, PinsJustified
<1> QED BY <1>1, Invariance, PTL

(* A checkpointed pin is in every later process's watchlist until its      *)
(* window has elapsed (DurablePins).                                       *)
THEOREM PinsSurviveRestarts == Spec => []DurablePins
<1>1. IInv => DurablePins
  BY DEF IInv
<1> QED BY <1>1, Invariance, PTL

(* A swap the process will not fetch again is stored or about to be        *)
(* (NoSwapLost).                                                           *)
THEOREM NothingLost == Spec => []NoSwapLost
<1>1. IInv => NoSwapLost
  BY DEF IInv
<1> QED BY <1>1, Invariance, PTL

(* A stored wallet event is linked to a stored swap, wherever a write was  *)
(* cut off (WalletLinked).                                                 *)
THEOREM WalletEventsLinked == Spec => []WalletLinked
<1>1. IInv => WalletLinked
  BY DEF IInv
<1> QED BY <1>1, Invariance, PTL

(* A running process lets go of a pin only when it is too old (PinKept).   *)
THEOREM PinsAreKept == Spec => PinKept
<1> DEFINE Kept == \A p \in mem.grad : p \in mem'.grad \/ Expired(p, MaxPoolAge) \/ pc' = "down"
<1>1. IInv /\ [Next]_vars => [Kept]_vars
  <2> SUFFICES ASSUME IInv, Next PROVE Kept
    OBVIOUS
  <2> USE DEF world, scratch
  <2>1. CASE AgeOut
    <3>1. mem'.grad = mem.grad \ Stale(mem)
      BY <2>1 DEF AgeOut, IInv, TypeOK, Memory
    <3>2. \A p \in mem.grad \cap Stale(mem) : Expired(p, MaxPoolAge)
      BY DEF Stale, IInv, Sound
    <3> QED BY <3>1, <3>2
  <2>2. CASE WritePoolsAndAdmit
    <3>1. PICK in, out, new : Admits(mem', in, out, new)
      BY <2>2, AdmissionFacts DEF IInv, WritePoolsAndAdmit
    <3>2. mem'.grad = mem.grad \cup in
      BY <3>1 DEF Admits, IInv, TypeOK, Memory
    <3> QED BY <3>2
  <2>3. CASE FetchPage
    <3>1. mem'.grad = mem.grad
      BY <2>3 DEF FetchPage, IInv, TypeOK, Memory
    <3> QED BY <3>1
  <2>4. CASE Restart
    <3>1. mem.grad = {}
      BY <2>4 DEF Restart, IInv, ScratchInv, Fresh
    <3> QED BY <3>1
  <2>5. CASE World \/ TruncateEnumeration \/ (\E p \in Pools : TailPage(p) \/ SkipPool(p))
               \/ WriteSwaps \/ Checkpoint \/ CheckpointFails
    BY <2>5 DEF World, Tick, CreatePool, Trade, TruncateEnumeration, TailPage, SkipPool,
                WriteSwaps, Checkpoint, CheckpointFails
  <2>6. CASE Crash \/ \E p \in Pools : FatalTail(p)
    BY <2>6 DEF Crash, FatalTail, Perish
  <2> QED BY <2>1, <2>2, <2>3, <2>4, <2>5, <2>6 DEF Next, Process
<1> QED BY <1>1, Invariance, PTL DEF Spec, PinKept

(* No admission locks a recognised graduation out: it is pinned, or there  *)
(* were more of them than slots and they have taken every slot a discovery *)
(* pool held (NeverLockedOut).                                             *)
THEOREM NobodyLockedOut == Spec => NeverLockedOut
<1> DEFINE Seated ==
      pc = "write_pools" /\ pc' = "tail" =>
        \A p \in Candidates : IsGraduation(p) =>
          p \in mem'.grad \/ (mem'.disc = {} /\ Cardinality(mem'.grad) >= WatchMax)
<1>1. IInv /\ [Next]_vars => [Seated]_vars
  <2> SUFFICES ASSUME IInv, Next, pc = "write_pools", pc' = "tail",
                      NEW p \in Candidates, IsGraduation(p)
               PROVE  p \in mem'.grad \/ (mem'.disc = {} /\ Cardinality(mem'.grad) >= WatchMax)
    OBVIOUS
  <2>1. WritePoolsAndAdmit
    BY DEF Next, World, Process, Tick, CreatePool, Trade, Restart, AgeOut, FetchPage,
           TruncateEnumeration, TailPage, SkipPool, WriteSwaps, Checkpoint, CheckpointFails,
           Crash, FatalTail, Perish, world, scratch
  <2>2. PICK in, out, new : Admits(mem', in, out, new)
    BY <2>1, AdmissionFacts DEF IInv, WritePoolsAndAdmit
  <2> DEFINE free == Excess(WatchMax, Cardinality(Watched(mem)))
             kept == mem.disc \ out
  <2>3. /\ mem'.grad = mem.grad \cup in /\ mem'.disc = kept \cup new
        /\ in \subseteq Candidates /\ out \subseteq mem.disc /\ new \subseteq Candidates
    BY <2>2 DEF Admits, IInv, TypeOK, Memory
  <2>4. CASE p \in in
    BY <2>3, <2>4
  <2>5. CASE p \notin in
    <3>1. /\ Cardinality(in) = free + Cardinality(mem.disc)
          /\ Cardinality(out) = Least(Cardinality(mem.disc), Excess(Cardinality(in), free))
          /\ Cardinality(new) <= Excess(WatchMax, Cardinality(kept \cup mem.grad \cup in))
      BY <2>2, <2>5 DEF Admits
    <3>2. /\ mem.disc \subseteq Pools /\ mem.grad \subseteq Pools
          /\ in \subseteq Pools /\ out \subseteq Pools /\ new \subseteq Pools
      BY <2>3, CandidateType DEF IInv, TypeOK, Memory
    <3>3. /\ Cardinality(mem.disc) \in Nat /\ Cardinality(mem.grad) \in Nat
          /\ Cardinality(in) \in Nat /\ Cardinality(out) \in Nat /\ Cardinality(new) \in Nat
          /\ Cardinality(Watched(mem)) \in Nat /\ WatchMax \in Nat
      BY <3>2, PoolSets, ConstantsAssumption DEF Watched
    <3>4. Cardinality(Watched(mem)) = Cardinality(mem.disc) + Cardinality(mem.grad)
      BY <3>2, PoolSets, DisjointUnion DEF Watched, IInv, Sound
    <3>5. free \in Nat /\ free >= WatchMax - Cardinality(Watched(mem))
      BY <3>3 DEF Excess
    <3> HIDE DEF free
    <3>6. out = mem.disc
      <4>1. Cardinality(out) = Cardinality(mem.disc)
        BY <3>1, <3>3, <3>5 DEF Least, Excess
      <4> QED BY <4>1, <2>3, <3>2, PoolSets, FS_Subset
    <3>7. mem.grad \cap in = {}
      BY <2>3 DEF Candidates, Watched
    <3>8. Cardinality(mem.grad \cup in) = Cardinality(mem.grad) + Cardinality(in)
      BY <3>2, <3>7, PoolSets, DisjointUnion
    <3>9. Cardinality(mem.grad \cup in) >= WatchMax
      BY <3>1, <3>3, <3>4, <3>5, <3>8
    <3>10. kept \cup mem.grad \cup in = mem.grad \cup in
      BY <3>6
    <3>11. Cardinality(new) = 0
      <4>1. Cardinality(mem.grad \cup in) \in Nat
        BY <3>3, <3>8
      <4>2. Excess(WatchMax, Cardinality(mem.grad \cup in)) = 0
        BY <3>3, <3>9, <4>1, Bounds
      <4> QED BY <3>1, <3>3, <3>10, <4>2
    <3>12. new = {}
      BY <3>2, <3>11, PoolSets, FS_EmptySet
    <3> QED BY <2>3, <3>6, <3>9, <3>12
  <2> QED BY <2>4, <2>5
<1> QED BY <1>1, Invariance, PTL DEF Spec, NeverLockedOut

(* Until the first death the process remembers the mint of every bonding-  *)
(* curve pool it has listed, which are all the store holds.                *)
Remembers ==
  crashes = 0 =>
    /\ pc = "down" => rows = {}
    /\ pc # "down" =>
         \A q \in Pools : PhaseOf[q] = "BC" /\ (PoolRow(q) \in rows \/ q \in Range(listed) \ Unmapped)
                            => MintOf[q] \in mem.bcMints

LEMMA PoolRowOnly ==
  ASSUME NEW q \in Pools
  PROVE  /\ \A P \in SUBSET Pools : PoolRow(q) \in PoolRows(P) => q \in P
         /\ \A S \in SUBSET SwapIds : PoolRow(q) \notin TradeRows(S)
<1>1. \A p \in Pools : PoolRow(q) = PoolRow(p) => q = p
  <2> SUFFICES ASSUME NEW p \in Pools, PoolRow(q) = PoolRow(p) PROVE q = p
    OBVIOUS
  <2>1. PoolRow(q).pool = q /\ PoolRow(p).pool = p
    BY DEF PoolRow
  <2> QED BY <2>1
<1>2. \A s : PoolRow(q).type # SwapRow(s).type /\ PoolRow(q).type # WalletRow(s).type
  BY DEF PoolRow, SwapRow, WalletRow
<1>3. \A s : PoolRow(q) # SwapRow(s) /\ PoolRow(q) # WalletRow(s)
  BY <1>2
<1> QED BY <1>1, <1>3 DEF PoolRows, TradeRows

LEMMA RemembersInit == Init => Remembers
BY DEF Init, Remembers

LEMMA RemembersStep == IInv /\ Remembers /\ [Next]_vars => Remembers'
<1> SUFFICES ASSUME IInv, Remembers, [Next]_vars, crashes' = 0
             PROVE  Remembers'
  BY DEF Remembers
<1> USE DEF world, scratch
<1>1. CASE World \/ TruncateEnumeration \/ (\E p \in Pools : TailPage(p) \/ SkipPool(p))
           \/ Checkpoint \/ CheckpointFails \/ UNCHANGED vars
  <2>1. /\ UNCHANGED <<mem, listed, rows, crashes>>
        /\ pc' = "down" <=> pc = "down"
    BY <1>1 DEF World, Tick, CreatePool, Trade, TruncateEnumeration, TailPage, SkipPool,
                Checkpoint, CheckpointFails, vars
  <2> QED BY <2>1 DEF Remembers
<1>2. CASE Restart
  <2>1. pc = "down" /\ crashes = 0 /\ rows = {} /\ rows' = {} /\ listed' = <<>>
    BY <1>2 DEF Restart, Remembers, IInv, ScratchInv
  <2>2. pc' # "down" /\ Range(listed') = {}
    BY <1>2, <2>1 DEF Restart, Range
  <2> QED BY <2>1, <2>2 DEF Remembers
<1>3. CASE AgeOut
  <2>1. mem'.bcMints = mem.bcMints /\ UNCHANGED <<listed, rows, crashes>>
    BY <1>3 DEF AgeOut, IInv, TypeOK, Memory
  <2> QED BY <1>3, <2>1 DEF AgeOut, Remembers
<1>4. CASE FetchPage
  <2> DEFINE got == NewestPage(page)
             met == {MintOf[p] : p \in {q \in Range(got) \ Unmapped : PhaseOf[q] = "BC"}}
  <2>1. got \in Seq(Pools)
    BY NewestPageType DEF IInv, TypeOK
  <2>2. /\ pc = "enumerate" /\ pc' # "down" /\ listed' = listed \o got
        /\ mem' = [mem EXCEPT !.bcMints = @ \cup met]
        /\ UNCHANGED <<rows, crashes>>
    BY <1>4 DEF FetchPage
  <2>3. \A q \in Range(got) \ Unmapped : PhaseOf[q] = "BC" => MintOf[q] \in met
    OBVIOUS
  <2> HIDE DEF got, met
  <2>4. Range(listed') = Range(listed) \cup Range(got)
    BY <2>1, <2>2, RangeConcat DEF IInv, TypeOK
  <2>5. mem'.bcMints = mem.bcMints \cup met
    BY <2>2 DEF IInv, TypeOK, Memory
  <2> QED BY <2>2, <2>3, <2>4, <2>5 DEF Remembers
<1>5. CASE WritePoolsAndAdmit
  <2>1. PICK in, out, new : Admits(mem', in, out, new)
    BY <1>5, AdmissionFacts DEF IInv, WritePoolsAndAdmit
  <2>2. mem'.bcMints = mem.bcMints
    BY <2>1 DEF Admits, IInv, TypeOK, Memory
  <2>3. /\ pc = "write_pools" /\ pc' # "down" /\ listed' = <<>> /\ crashes' = crashes
        /\ rows' = rows \cup PoolRows(Enumerated)
    BY <1>5 DEF WritePoolsAndAdmit, Universe
  <2>4. Enumerated \subseteq Pools /\ Range(listed') = {} /\ Enumerated = Range(listed) \ Unmapped
    BY <2>3, RangeType DEF IInv, TypeOK, Range, Enumerated
  <2>5. \A q \in Pools : PoolRow(q) \in rows' => PoolRow(q) \in rows \/ q \in Range(listed) \ Unmapped
    BY <2>3, <2>4, PoolRowOnly
  <2> QED BY <2>2, <2>3, <2>4, <2>5 DEF Remembers
<1>6. CASE WriteSwaps
  <2>1. /\ pc = "tail" /\ pc' # "down" /\ rows' = rows \cup TradeRows(batch)
        /\ UNCHANGED <<mem, listed, crashes>>
    BY <1>6 DEF WriteSwaps
  <2>2. \A q \in Pools : PoolRow(q) \in rows' => PoolRow(q) \in rows
    BY <2>1, PoolRowOnly DEF IInv, TypeOK
  <2> QED BY <2>1, <2>2 DEF Remembers
<1>7. CASE Crash \/ \E p \in Pools : FatalTail(p)
  <2>1. crashes' # 0
    BY <1>7, ConstantsAssumption DEF Crash, FatalTail, Perish, Least, IInv, TypeOK
  <2> QED BY <2>1
<1> QED BY <1>1, <1>2, <1>3, <1>4, <1>5, <1>6, <1>7 DEF Next, Process

(* A collector that has never died takes no AMM pool for a mere discovery  *)
(* pool while the store holds a bonding-curve pool of its mint             *)
(* (RecognisedUntilCrash); MCCollectorForgets shows a crash ends that.     *)
THEOREM RecognisedWhileUp == Spec => RecognisedUntilCrash
<1> DEFINE Knows == crashes = 0 => \A p \in AdmittedToDiscovery : ~Unrecognised(p)
<1>1. IInv /\ Remembers /\ [Next]_vars => [Knows]_vars
  <2> SUFFICES ASSUME IInv, Remembers, Next, crashes = 0, pc = "write_pools", pc' = "tail",
                      NEW p \in mem'.disc \ mem.disc
               PROVE  ~Unrecognised(p)
    BY DEF AdmittedToDiscovery
  <2>1. WritePoolsAndAdmit
    BY DEF Next, World, Process, Tick, CreatePool, Trade, Restart, AgeOut, FetchPage,
           TruncateEnumeration, TailPage, SkipPool, WriteSwaps, Checkpoint, CheckpointFails,
           Crash, FatalTail, Perish, world, scratch
  <2>2. PICK in, out, new : Admits(mem', in, out, new)
    BY <2>1, AdmissionFacts DEF IInv, WritePoolsAndAdmit
  <2>3. mem'.disc = (mem.disc \ out) \cup new /\ \A q \in new : ~IsGraduation(q)
    BY <2>2 DEF Admits, IInv, TypeOK, Memory
  <2>4. PhaseOf[p] = "AMM" => MintOf[p] \notin mem.bcMints
    BY <2>3 DEF IsGraduation
  <2>5. rows' = rows \cup PoolRows(Enumerated) /\ Enumerated \subseteq Pools
    BY <2>1, RangeType DEF WritePoolsAndAdmit, Universe, Enumerated, IInv, TypeOK
  <2>6. \A q \in Pools : PoolRow(q) \in rows' => PoolRow(q) \in rows \/ q \in Range(listed) \ Unmapped
    BY <2>5, PoolRowOnly DEF Enumerated
  <2> QED BY <2>4, <2>6 DEF Unrecognised, Remembers
<1>2. Spec => []Remembers
  BY RemembersInit, RemembersStep, Invariance, PTL DEF Spec
<1> QED BY <1>1, <1>2, Invariance, PTL DEF Spec, RecognisedUntilCrash

=============================================================================
