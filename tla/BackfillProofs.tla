--------------------------- MODULE BackfillProofs ---------------------------
(***************************************************************************)
(* Proofs about Backfill.  Every step leaves the store and the buffer      *)
(* alone, appends events to the buffer, or writes a prefix of the buffer   *)
(* and of what was just appended; the first lemmas are about that.         *)
(***************************************************************************)
EXTENDS Backfill, FiniteSetTheorems, TLAPS

ContentsOf(b) == {b[i] : i \in DOMAIN b}

(* Of rows that are not bars, the identity is all there is to them.        *)
Shape(r) ==
  /\ r \in Rows
  /\ r.type = "pool_created" => r.n = 0
  /\ r.type # "ohlcv_bar" => r.body = 0

Backing(r) == {PoolRow(r.pool)} \cup (IF r.type = "wallet_event" THEN {SwapRow(r.pool, r.n)} ELSE {})

(* Every row's backing is in the store, or before it in the buffer.        *)
Closed(S) == \A r \in S : Shape(r) /\ Backing(r) \subseteq S
Ordered(S, b) ==
  \A i \in DOMAIN b : /\ Shape(b[i])
                      /\ \A r \in Backing(b[i]) : r \in S \/ \E j \in 1..i : b[j] = r

LEMMA RowsAreShaped ==
  ASSUME NEW p \in Pools, NEW n \in Nat
  PROVE  /\ Shape(PoolRow(p)) /\ Shape(SwapRow(p, n)) /\ Shape(WalletRow(p, n))
         /\ PoolRow(p).type = "pool_created" /\ SwapRow(p, n).type = "swap"
         /\ WalletRow(p, n).type = "wallet_event"
         /\ PoolRow(p).pool = p /\ SwapRow(p, n).pool = p /\ WalletRow(p, n).pool = p
         /\ SwapRow(p, n).n = n /\ WalletRow(p, n).n = n
BY DEF PoolRow, SwapRow, WalletRow, Row, Rows, RowTypes, Shape

LEMMA BackingIsShaped ==
  ASSUME NEW r, Shape(r), NEW x \in Backing(r)
  PROVE  Shape(x) /\ x.type # "ohlcv_bar"
<1>1. r.pool \in Pools /\ r.n \in Nat
  BY DEF Shape, Rows
<1>2. x = PoolRow(r.pool) \/ x = SwapRow(r.pool, r.n)
  BY DEF Backing
<1> QED BY <1>1, <1>2, RowsAreShaped

LEMMA SameRow ==
  ASSUME NEW r, NEW s, Shape(r), Shape(s), SameId(r, s), r.type # "ohlcv_bar"
  PROVE  r = s
<1>1. r \in Rows /\ s \in Rows /\ r.body = 0 /\ s.body = 0
  BY DEF Shape, SameId
<1>2. r = [type |-> r.type, pool |-> r.pool, n |-> r.n, body |-> r.body]
  BY <1>1 DEF Rows
<1>3. s = [type |-> s.type, pool |-> s.pool, n |-> s.n, body |-> s.body]
  BY <1>1 DEF Rows
<1> QED BY <1>1, <1>2, <1>3 DEF SameId

LEMMA UpsertWithin ==
  ASSUME NEW S, NEW b
  PROVE  \A r \in Upsert(S, b) : r \in S \/ r \in ContentsOf(b)
BY DEF Upsert, ContentsOf

LEMMA UpsertKeeps ==
  ASSUME NEW S, NEW b, \A i \in DOMAIN b : Shape(b[i]),
         NEW r \in S, Shape(r), r.type # "ohlcv_bar"
  PROVE  r \in Upsert(S, b)
<1>1. CASE \A i \in DOMAIN b : ~SameId(r, b[i])
  BY <1>1 DEF Upsert
<1>2. CASE \E i \in DOMAIN b : SameId(r, b[i])
  <2>1. PICK i \in DOMAIN b : SameId(r, b[i])
    BY <1>2
  <2>2. b[i] = r
    BY <2>1, SameRow
  <2>3. \A k \in DOMAIN b : SameId(b[k], b[i]) => b[k] = b[i]
    <3> SUFFICES ASSUME NEW k \in DOMAIN b, SameId(b[k], b[i]) PROVE b[k] = b[i]
      OBVIOUS
    <3>1. SameId(r, b[k])
      BY <2>2 DEF SameId
    <3> QED BY <3>1, <2>2, SameRow
  <2> QED BY <2>2, <2>3 DEF Upsert
<1> QED BY <1>1, <1>2

LEMMA UpsertTakes ==
  ASSUME NEW S, NEW b, \A i \in DOMAIN b : Shape(b[i]),
         NEW i \in DOMAIN b, b[i].type # "ohlcv_bar"
  PROVE  b[i] \in Upsert(S, b)
<1>1. \A k \in DOMAIN b : SameId(b[k], b[i]) => b[k] = b[i]
  <2> SUFFICES ASSUME NEW k \in DOMAIN b, SameId(b[k], b[i]) PROVE b[k] = b[i]
    OBVIOUS
  <2>1. SameId(b[i], b[k])
    BY DEF SameId
  <2> QED BY <2>1, SameRow
<1> QED BY <1>1 DEF Upsert

(* Writing a prefix of an ordered buffer leaves a closed store, against    *)
(* which the buffer is still ordered.                                      *)
Prefix(b, k) == SubSeq(b, 1, k)

LEMMA PrefixIs ==
  ASSUME NEW b \in Seq(Rows), NEW k \in 0..Len(b)
  PROVE  /\ Prefix(b, k) \in Seq(Rows) /\ DOMAIN Prefix(b, k) = 1..k
         /\ \A i \in 1..k : i \in DOMAIN b /\ Prefix(b, k)[i] = b[i]
         /\ Prefix(b, Len(b)) = b
         /\ ContentsOf(Prefix(b, k)) \subseteq ContentsOf(b)
<1>1. Prefix(b, k) = [i \in 1..k |-> b[i]] /\ DOMAIN b = 1..Len(b)
  BY DEF Prefix
<1>2. \A i \in 1..k : i \in DOMAIN b /\ b[i] \in Rows
  BY <1>1
<1>3. Prefix(b, k) \in Seq(Rows) /\ DOMAIN Prefix(b, k) = 1..k
  BY <1>1, <1>2
<1>4. Prefix(b, Len(b)) = b
  BY DEF Prefix
<1> QED BY <1>1, <1>2, <1>3, <1>4 DEF ContentsOf

LEMMA WriteIsClosed ==
  ASSUME NEW S, NEW b \in Seq(Rows), Closed(S), Ordered(S, b), NEW k \in 0..Len(b)
  PROVE  /\ Closed(Upsert(S, Prefix(b, k)))
         /\ Ordered(Upsert(S, Prefix(b, k)), b)
         /\ \A r \in S : r.type # "ohlcv_bar" => r \in Upsert(S, Prefix(b, k))
<1> DEFINE c == Prefix(b, k)  T == Upsert(S, c)
<1>1. DOMAIN c = 1..k /\ \A i \in 1..k : i \in DOMAIN b /\ c[i] = b[i]
  BY PrefixIs
<1>2. \A i \in DOMAIN c : Shape(c[i])
  BY <1>1 DEF Ordered
<1>3. \A r \in S : r.type # "ohlcv_bar" => r \in T
  BY <1>2, UpsertKeeps DEF Closed
<1>4. \A i \in DOMAIN c : c[i].type # "ohlcv_bar" => c[i] \in T
  BY <1>2, UpsertTakes
<1>5. ASSUME NEW r \in T PROVE Shape(r) /\ Backing(r) \subseteq T
  <2>1. CASE r \in S
    <3>1. Shape(r) /\ Backing(r) \subseteq S
      BY <2>1 DEF Closed
    <3> QED BY <3>1, <1>3, BackingIsShaped
  <2>2. CASE r \in ContentsOf(c)
    <3>1. PICK i \in DOMAIN c : r = c[i]
      BY <2>2 DEF ContentsOf
    <3>2. i \in 1..k /\ i \in DOMAIN b /\ r = b[i] /\ Shape(r)
      BY <3>1, <1>1, <1>2
    <3>3. ASSUME NEW x \in Backing(r) PROVE x \in T
      <4>1. x.type # "ohlcv_bar"
        BY <3>2, BackingIsShaped
      <4>2. x \in S \/ \E j \in 1..i : b[j] = x
        BY <3>2 DEF Ordered
      <4>3. CASE x \in S
        BY <4>1, <4>3, <1>3
      <4>4. CASE \E j \in 1..i : b[j] = x
        <5>1. PICK j \in 1..i : b[j] = x
          BY <4>4
        <5>2. j \in DOMAIN c /\ c[j] = x
          BY <5>1, <3>2, <1>1
        <5> QED BY <5>2, <4>1, <1>4
      <4> QED BY <4>2, <4>3, <4>4
    <3> QED BY <3>2, <3>3
  <2> QED BY <2>1, <2>2, UpsertWithin
<1>6. Closed(T)
  BY <1>5 DEF Closed
<1>7. Ordered(T, b)
  <2> SUFFICES ASSUME NEW i \in DOMAIN b, NEW x \in Backing(b[i])
               PROVE  x \in T \/ \E j \in 1..i : b[j] = x
    BY DEF Ordered
  <2>1. Shape(b[i])
    BY DEF Ordered
  <2>2. x.type # "ohlcv_bar"
    BY <2>1, BackingIsShaped
  <2> QED BY <2>2, <1>3 DEF Ordered
<1> QED BY <1>3, <1>6, <1>7

----------------------------------------------------------------------------
(* What a step does to the store and the buffer: the buffer takes events,  *)
(* and a prefix of it, or all of it, is written.                           *)

Kept(r) == r \in rows \/ r \in ContentsOf(buffer)

Supported(ev) ==
  /\ ev \in Seq(Rows)
  /\ \A i \in DOMAIN ev :
       /\ Shape(ev[i])
       /\ \A r \in Backing(ev[i]) : Kept(r) \/ \E j \in 1..i : ev[j] = r
       /\ ev[i].type = "ohlcv_bar" => ev[i] \in bars /\ ~Forming(ev[i])

Wrote(b, k) == k \in 0..Len(b) /\ rows' = Upsert(rows, Prefix(b, k))
Pushed(ev) ==
  \E k : /\ Wrote(buffer \o ev, k)
         /\ buffer' = buffer \o ev \/ (buffer' = <<>> /\ k = Len(buffer \o ev))
Lost(ev) == buffer' = <<>> /\ \E k : Wrote(buffer \o ev, k)

LEMMA JoinedBuffer ==
  ASSUME buffer \in Seq(Rows), Ordered(rows, buffer), NEW ev, Supported(ev)
  PROVE  /\ buffer \o ev \in Seq(Rows) /\ Ordered(rows, buffer \o ev)
         /\ \A r : r \in ContentsOf(buffer \o ev) <=> r \in ContentsOf(buffer) \/ r \in ContentsOf(ev)
<1> DEFINE b == buffer \o ev  m == Len(buffer)
<1>1. ev \in Seq(Rows) /\ b \in Seq(Rows) /\ Len(b) = m + Len(ev)
  BY DEF Supported
<1>2. \A i \in 1..m : b[i] = buffer[i]
  BY <1>1
<1>3. \A i \in DOMAIN ev : m + i \in DOMAIN b /\ b[m + i] = ev[i]
  BY <1>1
<1>4. \A i \in DOMAIN b : i \in DOMAIN buffer \/ i - m \in DOMAIN ev
  BY <1>1
<1>5. DOMAIN buffer = 1..m /\ DOMAIN buffer \subseteq DOMAIN b
  BY <1>1
<1>6. ASSUME NEW i \in DOMAIN b
      PROVE  Shape(b[i]) /\ \A r \in Backing(b[i]) : r \in rows \/ \E j \in 1..i : b[j] = r
  <2>1. CASE i \in DOMAIN buffer
    <3>1. b[i] = buffer[i] /\ i \in 1..m
      BY <2>1, <1>2, <1>5
    <3>2. \A j \in 1..i : b[j] = buffer[j]
      BY <3>1, <1>2
    <3> QED BY <3>1, <3>2, <2>1 DEF Ordered
  <2>2. CASE i - m \in DOMAIN ev
    <3> DEFINE e == i - m
    <3>1. b[i] = ev[e] /\ e \in DOMAIN ev /\ i \in Nat /\ m \in Nat /\ i = m + e /\ e >= 1
      BY <2>2, <1>1, <1>3
    <3>2. ASSUME NEW r \in Backing(b[i]) PROVE r \in rows \/ \E j \in 1..i : b[j] = r
      <4>1. Kept(r) \/ \E j \in 1..e : ev[j] = r
        BY <3>1 DEF Supported
      <4>2. CASE r \in ContentsOf(buffer)
        <5>1. PICK j \in DOMAIN buffer : r = buffer[j]
          BY <4>2 DEF ContentsOf
        <5>2. j \in 1..i /\ b[j] = r
          BY <5>1, <3>1, <1>2, <1>5
        <5> QED BY <5>2
      <4>3. CASE \E j \in 1..e : ev[j] = r
        <5>1. PICK j \in 1..e : ev[j] = r
          BY <4>3
        <5>2. j \in DOMAIN ev /\ m + j \in 1..i /\ b[m + j] = r
          BY <5>1, <3>1, <1>1, <1>3
        <5> QED BY <5>2
      <4> QED BY <4>1, <4>2, <4>3 DEF Kept
    <3> QED BY <3>1, <3>2 DEF Supported
  <2> QED BY <2>1, <2>2, <1>4
<1>7. \A r : r \in ContentsOf(b) <=> r \in ContentsOf(buffer) \/ r \in ContentsOf(ev)
  <2>1. ASSUME NEW r \in ContentsOf(b) PROVE r \in ContentsOf(buffer) \/ r \in ContentsOf(ev)
    <3>1. PICK i \in DOMAIN b : r = b[i]
      BY DEF ContentsOf
    <3>2. CASE i \in DOMAIN buffer
      BY <3>1, <3>2, <1>2, <1>5 DEF ContentsOf
    <3>3. CASE i - m \in DOMAIN ev
      <4>1. i = m + (i - m)
        BY <1>1
      <4>2. b[i] = ev[i - m]
        BY <4>1, <3>3, <1>3
      <4> QED BY <3>1, <3>3, <4>2 DEF ContentsOf
    <3> QED BY <3>1, <3>2, <3>3, <1>4
  <2>2. \A r \in ContentsOf(buffer) : r \in ContentsOf(b)
    BY <1>2, <1>5 DEF ContentsOf
  <2>3. \A r \in ContentsOf(ev) : r \in ContentsOf(b)
    BY <1>3 DEF ContentsOf
  <2> QED BY <2>1, <2>2, <2>3
<1> QED BY <1>1, <1>6, <1>7 DEF Ordered

LEMMA WroteIs ==
  ASSUME buffer \in Seq(Rows), Closed(rows), Ordered(rows, buffer),
         NEW ev, Supported(ev), NEW k, Wrote(buffer \o ev, k)
  PROVE  /\ Closed(rows') /\ Ordered(rows', buffer \o ev)
         /\ \A r \in rows : r.type # "ohlcv_bar" => r \in rows'
         /\ \A r \in rows' : Kept(r) \/ r \in ContentsOf(ev)
         /\ k = Len(buffer \o ev) =>
              \A r \in ContentsOf(buffer \o ev) : r.type # "ohlcv_bar" => r \in rows'
<1> DEFINE b == buffer \o ev  T == Upsert(rows, Prefix(b, k))
<1>1. b \in Seq(Rows) /\ Ordered(rows, b) /\ k \in 0..Len(b) /\ rows' = T
  BY JoinedBuffer DEF Wrote
<1>2. Closed(T) /\ Ordered(T, b) /\ \A r \in rows : r.type # "ohlcv_bar" => r \in T
  BY <1>1, WriteIsClosed
<1>3. \A r \in T : r \in rows \/ r \in ContentsOf(b)
  BY <1>1, PrefixIs, UpsertWithin
<1>4. ASSUME k = Len(b), NEW r \in ContentsOf(b), r.type # "ohlcv_bar" PROVE r \in T
  <2>1. PICK i \in DOMAIN b : r = b[i]
    BY DEF ContentsOf
  <2>2. Prefix(b, k) = b /\ \A j \in DOMAIN b : Shape(b[j])
    BY <1>1, <1>4, PrefixIs DEF Ordered
  <2> QED BY <2>1, <2>2, <1>4, UpsertTakes
<1> QED BY <1>1, <1>2, <1>3, <1>4, JoinedBuffer DEF Kept

LEMMA PushedIs ==
  ASSUME buffer \in Seq(Rows), Closed(rows), Ordered(rows, buffer),
         NEW ev, Supported(ev), Pushed(ev)
  PROVE  /\ buffer' \in Seq(Rows) /\ Closed(rows') /\ Ordered(rows', buffer')
         /\ \A r \in rows : r.type # "ohlcv_bar" => r \in rows'
         /\ \A r : (Kept(r) \/ r \in ContentsOf(ev)) /\ r.type # "ohlcv_bar" => Kept(r)'
         /\ \A r : Kept(r)' => Kept(r) \/ r \in ContentsOf(ev)
<1>1. PICK k : /\ Wrote(buffer \o ev, k)
               /\ buffer' = buffer \o ev \/ (buffer' = <<>> /\ k = Len(buffer \o ev))
  BY DEF Pushed
<1>2. /\ Closed(rows') /\ Ordered(rows', buffer \o ev)
      /\ \A r \in rows : r.type # "ohlcv_bar" => r \in rows'
      /\ \A r \in rows' : Kept(r) \/ r \in ContentsOf(ev)
      /\ k = Len(buffer \o ev) =>
           \A r \in ContentsOf(buffer \o ev) : r.type # "ohlcv_bar" => r \in rows'
  BY <1>1, WroteIs
<1>3. /\ buffer \o ev \in Seq(Rows)
      /\ \A r : r \in ContentsOf(buffer \o ev) <=> r \in ContentsOf(buffer) \/ r \in ContentsOf(ev)
  BY JoinedBuffer
<1>4. Ordered(rows', <<>>) /\ ContentsOf(<<>>) = {} /\ <<>> \in Seq(Rows)
  BY DEF Ordered, ContentsOf
<1>5. CASE buffer' = buffer \o ev
  BY <1>2, <1>3, <1>5 DEF Kept
<1>6. CASE buffer' = <<>> /\ k = Len(buffer \o ev)
  BY <1>2, <1>3, <1>4, <1>6 DEF Kept
<1> QED BY <1>1, <1>5, <1>6

LEMMA LostIs ==
  ASSUME buffer \in Seq(Rows), Closed(rows), Ordered(rows, buffer),
         NEW ev, Supported(ev), Lost(ev)
  PROVE  /\ buffer' \in Seq(Rows) /\ Closed(rows') /\ Ordered(rows', buffer')
         /\ \A r \in rows : r.type # "ohlcv_bar" => r \in rows'
         /\ \A r : Kept(r)' => Kept(r) \/ r \in ContentsOf(ev)
<1>1. PICK k : Wrote(buffer \o ev, k)
  BY DEF Lost
<1>2. Ordered(rows', <<>>) /\ ContentsOf(<<>>) = {} /\ <<>> \in Seq(Rows)
  BY DEF Ordered, ContentsOf
<1>3. buffer' = <<>>
  BY DEF Lost
<1> QED BY <1>1, <1>2, <1>3, WroteIs DEF Kept

(* The ways a step may push.                                               *)
LEMMA KeepsPush ==
  ASSUME buffer \in Seq(Rows)
  PROVE  /\ \A ev \in Seq(Rows) : buffer' = buffer \o ev /\ rows' = rows => Pushed(ev)
         /\ \A ev \in Seq(Rows) : Receive(ev) => Pushed(ev)
         /\ \A ev \in Seq(Rows) : FlushFails(ev) => Pushed(ev)
         /\ buffer' = buffer /\ rows' = rows => Pushed(<<>>)
         /\ Flush(buffer) => Pushed(<<>>)
         /\ Supported(<<>>) /\ buffer \o <<>> = buffer
<1>1. buffer \o <<>> = buffer /\ <<>> \in Seq(Rows)
  OBVIOUS
<1>2. \A ev \in Seq(Rows) : buffer \o ev \in Seq(Rows) /\ Len(buffer \o ev) \in Nat
  OBVIOUS
<1>3. \A b \in Seq(Rows) : Upsert(rows, Prefix(b, 0)) = rows /\ Prefix(b, Len(b)) = b
  <2> SUFFICES ASSUME NEW b \in Seq(Rows)
               PROVE  Upsert(rows, Prefix(b, 0)) = rows /\ Prefix(b, Len(b)) = b
    OBVIOUS
  <2>1. 0 \in 0..Len(b)
    OBVIOUS
  <2>2. DOMAIN Prefix(b, 0) = {} /\ Prefix(b, Len(b)) = b
    BY <2>1, PrefixIs
  <2> QED BY <2>2 DEF Upsert
<1>4. ASSUME NEW ev \in Seq(Rows), buffer' = buffer \o ev, rows' = rows PROVE Pushed(ev)
  <2>1. 0 \in 0..Len(buffer \o ev)
    BY <1>2
  <2>2. rows' = Upsert(rows, Prefix(buffer \o ev, 0))
    BY <1>2, <1>3, <1>4, Zenon
  <2> QED BY <2>1, <2>2, <1>4 DEF Pushed, Wrote
<1>5. ASSUME NEW ev \in Seq(Rows), Flush(buffer \o ev) PROVE Pushed(ev)
  <2> DEFINE k == Len(buffer \o ev)
  <2>1. k \in 0..Len(buffer \o ev)
    BY <1>2
  <2>2. rows' = Upsert(rows, Prefix(buffer \o ev, k))
    BY <1>2, <1>3, <1>5, Zenon DEF Flush
  <2> QED BY <2>1, <2>2, <1>5 DEF Pushed, Wrote, Flush
<1>6. ASSUME NEW ev \in Seq(Rows), Receive(ev) PROVE Pushed(ev)
  BY <1>4, <1>5, <1>6 DEF Receive
<1>7. ASSUME NEW ev \in Seq(Rows), FlushFails(ev) PROVE Pushed(ev)
  BY <1>7 DEF Pushed, Wrote, FlushFails, Prefix
<1>8. Supported(<<>>)
  BY <1>1 DEF Supported
<1> QED BY <1>1, <1>4, <1>5, <1>6, <1>7, <1>8

----------------------------------------------------------------------------
(* What is pending when, and that time only moves on.                      *)

AtPool == pc \in {"swaps", "bars", "asked", "answered", "flush"}

ScratchInv ==
  /\ listing # <<>> => pc = "enumerate"
  /\ txs # <<>> => pc = "swaps"
  /\ bars # {} => pc = "answered"
  /\ buffer # <<>> => AtPool
  /\ pc \in {"idle", "enumerate"} => at = 1
  /\ AtPool => at \in DOMAIN universe /\ Current \notin Unsplit /\ Kept(PoolRow(Current))
  /\ \A r \in bars : r.type = "ohlcv_bar" /\ r.pool = Current
  /\ began <= now /\ cutoff <= now

StoreInv == Closed(rows) /\ Ordered(rows, buffer)

LEMMA CurrentPool ==
  ASSUME TypeOK, ScratchInv, AtPool
  PROVE  Current \in Pools /\ at \in DOMAIN universe
BY DEF TypeOK, ScratchInv, Current

LEMMA PoolSupported ==
  ASSUME NEW p \in Pools
  PROVE  Supported(<<PoolRow(p)>>)
<1> DEFINE ev == <<PoolRow(p)>>
<1>1. Shape(PoolRow(p)) /\ PoolRow(p).type = "pool_created" /\ PoolRow(p).pool = p
  BY RowsAreShaped
<1>2. Backing(PoolRow(p)) = {PoolRow(p)}
  BY <1>1 DEF Backing
<1>3. ev \in Seq(Rows) /\ DOMAIN ev = {1} /\ ev[1] = PoolRow(p)
  BY <1>1 DEF Shape
<1> QED BY <1>1, <1>2, <1>3 DEF Supported

LEMMA TxSupported ==
  ASSUME TypeOK, ScratchInv, pc = "swaps", txs # <<>>
  PROVE  /\ Supported(TxEvents(Current, Head(txs)))
         /\ <<Current, Head(txs)>> \notin Unreadable =>
              SwapRow(Current, Head(txs)) \in ContentsOf(TxEvents(Current, Head(txs)))
<1> DEFINE p == Current  n == Head(txs)  ev == <<SwapRow(p, n), WalletRow(p, n)>>
<1>1. p \in Pools /\ n \in Nat /\ Kept(PoolRow(p))
  <2>1. p \in Pools /\ Kept(PoolRow(p))
    BY CurrentPool DEF AtPool, ScratchInv
  <2>2. txs \in Seq(Nat)
    BY DEF TypeOK
  <2>3. n \in Nat
    BY <2>2
  <2> QED BY <2>1, <2>3
<1>2. /\ Shape(SwapRow(p, n)) /\ Shape(WalletRow(p, n))
      /\ SwapRow(p, n).type = "swap" /\ WalletRow(p, n).type = "wallet_event"
      /\ SwapRow(p, n).pool = p /\ WalletRow(p, n).pool = p /\ WalletRow(p, n).n = n
  BY <1>1, RowsAreShaped
<1>3. Backing(SwapRow(p, n)) = {PoolRow(p)} /\ Backing(WalletRow(p, n)) = {PoolRow(p), SwapRow(p, n)}
  BY <1>2 DEF Backing
<1>4. ev \in Seq(Rows) /\ DOMAIN ev = {1, 2} /\ ev[1] = SwapRow(p, n) /\ ev[2] = WalletRow(p, n)
  BY <1>2 DEF Shape
<1>5. Supported(ev)
  BY <1>1, <1>2, <1>3, <1>4 DEF Supported
<1>6. Supported(<<>>)
  BY DEF Supported
<1> HIDE DEF p, n
<1>7. SwapRow(p, n) \in ContentsOf(ev)
  BY <1>4 DEF ContentsOf
<1> QED BY <1>5, <1>6, <1>7 DEF TxEvents, p, n

LEMMA BarSupported ==
  ASSUME TypeOK, ScratchInv, NEW bar \in bars
  PROVE  Supported(BarEvents(bar))
<1>1. bar \in Rows /\ bar.type = "ohlcv_bar" /\ bar.pool = Current /\ pc = "answered"
  BY DEF TypeOK, ScratchInv
<1>2. Shape(bar) /\ Backing(bar) = {PoolRow(Current)} /\ Kept(PoolRow(Current))
  BY <1>1 DEF Shape, Backing, ScratchInv, AtPool
<1>3. <<bar>> \in Seq(Rows) /\ DOMAIN <<bar>> = {1} /\ <<bar>>[1] = bar
  BY <1>1
<1>4. ~Forming(bar) => Supported(<<bar>>)
  BY <1>1, <1>2, <1>3 DEF Supported
<1>5. Supported(<<>>)
  BY DEF Supported
<1> QED BY <1>4, <1>5 DEF BarEvents

LEMMA Effects ==
  ASSUME TypeOK, ScratchInv, [Next]_vars
  PROVE  \E ev : Supported(ev) /\ (Pushed(ev) \/ (pc' = "dead" /\ Lost(ev)))
<1> USE DEF world, process, reading
<1>1. buffer \in Seq(Rows)
  BY DEF TypeOK
<1>2. CASE UNCHANGED <<buffer, rows>> \/ Flush(buffer)
  BY <1>1, <1>2, KeepsPush
<1>3. CASE StartPool
  <2>1. CASE Current \in Unsplit
    BY <1>2, <1>3, <2>1 DEF StartPool
  <2>2. CASE Current \notin Unsplit
    <3>1. at \in DOMAIN universe /\ universe \in Seq(Pools)
      BY <1>3 DEF StartPool, TypeOK
    <3>2. Current \in Pools
      BY <3>1 DEF Current
    <3>3. Supported(<<PoolRow(Current)>>) /\ <<PoolRow(Current)>> \in Seq(Rows)
      BY <3>2, PoolSupported DEF Supported
    <3>4. buffer' = buffer \o <<PoolRow(Current)>> /\ rows' = rows
      <4>1. PoolRow(Current) \in Rows
        BY <3>2, RowsAreShaped DEF Shape
      <4>2. \A b \in Seq(Rows), r \in Rows : Append(b, r) = b \o <<r>>
        OBVIOUS
      <4>3. buffer' = Append(buffer, PoolRow(Current)) /\ rows' = rows
        BY <1>3, <2>2 DEF StartPool
      <4> QED BY <1>1, <4>1, <4>2, <4>3
    <3> QED BY <1>1, <3>3, <3>4, KeepsPush
  <2> QED BY <2>1, <2>2
<1>4. CASE ConsumeTx
  <2>1. Receive(TxEvents(Current, Head(txs))) /\ Supported(TxEvents(Current, Head(txs)))
    BY <1>4, TxSupported DEF ConsumeTx
  <2> QED BY <1>1, <2>1, KeepsPush DEF Supported
<1>5. CASE SkipSwaps
  <2>1. CASE txs # <<>> /\ FlushFails(TxEvents(Current, Head(txs)))
    <3>1. Supported(TxEvents(Current, Head(txs)))
      BY <1>5, <2>1, TxSupported DEF SkipSwaps
    <3> QED BY <1>1, <2>1, <3>1, KeepsPush DEF Supported
  <2> QED BY <1>2, <1>5, <2>1 DEF SkipSwaps
<1>6. ASSUME NEW bar \in bars, ConsumeBar(bar) PROVE \E ev : Supported(ev) /\ Pushed(ev)
  <2>1. Receive(BarEvents(bar)) /\ Supported(BarEvents(bar))
    BY <1>6, BarSupported DEF ConsumeBar
  <2> QED BY <1>1, <2>1, KeepsPush DEF Supported
<1>7. CASE SkipBars
  <2>1. ASSUME NEW bar \in bars, FlushFails(BarEvents(bar)) PROVE \E ev : Supported(ev) /\ Pushed(ev)
    <3>1. Supported(BarEvents(bar))
      BY BarSupported
    <3> QED BY <1>1, <2>1, <3>1, KeepsPush DEF Supported
  <2> QED BY <1>2, <1>7, <2>1 DEF SkipBars
<1>8. CASE Die
  <2>0. PICK events \in UnderWay :
          \E k \in 0..Len(events) : rows' = Upsert(rows, SubSeq(events, 1, k))
    BY <1>8 DEF Die
  <2>1. PICK k \in 0..Len(events) : rows' = Upsert(rows, SubSeq(events, 1, k))
    BY <2>0
  <2>2. buffer' = <<>> /\ pc' = "dead"
    BY <1>8 DEF Die
  <2>3. ASSUME NEW ev, Supported(ev), events = buffer \o ev PROVE Lost(ev)
    BY <2>1, <2>2, <2>3 DEF Lost, Wrote, Prefix
  <2>4. CASE events = buffer
    <3>1. Supported(<<>>) /\ events = buffer \o <<>>
      BY <1>1, <2>4, KeepsPush
    <3> QED BY <2>2, <2>3, <3>1
  <2>5. CASE events = <<>>
    <3>1. k = 0 /\ SubSeq(events, 1, k) = <<>> /\ buffer \o <<>> \in Seq(Rows)
      BY <1>1, <2>1, <2>5
    <3>2. Prefix(buffer \o <<>>, 0) = <<>> /\ 0 \in 0..Len(buffer \o <<>>)
      BY <3>1 DEF Prefix
    <3>3. Lost(<<>>) /\ Supported(<<>>)
      BY <1>1, <2>1, <2>2, <3>1, <3>2, KeepsPush DEF Lost, Wrote
    <3> QED BY <2>2, <3>3
  <2>6. ASSUME NEW ev \in Arriving, events = buffer \o ev PROVE Supported(ev)
    <3>1. CASE pc = "swaps" /\ txs # <<>> /\ ev = TxEvents(Current, Head(txs))
      BY <3>1, TxSupported
    <3>2. CASE \E bar \in bars : ev = BarEvents(bar)
      BY <3>2, BarSupported
    <3> QED BY <2>6, <3>1, <3>2 DEF Arriving
  <2>7. events = buffer \/ events = <<>> \/ \E ev \in Arriving : events = buffer \o ev
    BY <2>0 DEF UnderWay
  <2> QED BY <2>2, <2>3, <2>4, <2>5, <2>6, <2>7
<1>9. CASE World \/ Begin \/ FetchListing \/ Examine \/ FetchTxs \/ EndSwaps \/ AskBars
           \/ AnswerBars \/ EndBars \/ FlushPool \/ Finish \/ UNCHANGED vars
  BY <1>2, <1>9 DEF World, Tick, CreatePool, Trade, Begin, FetchListing, Examine, FetchTxs,
     EndSwaps, AskBars, AnswerBars, EndBars, FlushPool, Finish, vars
<1> QED BY <1>3, <1>4, <1>5, <1>6, <1>7, <1>8, <1>9 DEF Next, Step

LEMMA StoreStep ==
  ASSUME TypeOK, ScratchInv, StoreInv, [Next]_vars
  PROVE  StoreInv' /\ rows' \subseteq Rows /\ buffer' \in Seq(Rows)
<1>1. PICK ev : Supported(ev) /\ (Pushed(ev) \/ Lost(ev))
  BY Effects
<1>2. buffer' \in Seq(Rows) /\ Closed(rows') /\ Ordered(rows', buffer')
  BY <1>1, PushedIs, LostIs DEF TypeOK, StoreInv
<1>3. Closed(rows') => rows' \subseteq Rows
  BY DEF Closed, Shape
<1>4. Closed(rows)' <=> Closed(rows')
  BY DEF Closed, Backing
<1>5. Ordered(rows, buffer)' <=> Ordered(rows', buffer')
  BY DEF Ordered, Backing
<1> QED BY <1>2, <1>3, <1>4, <1>5 DEF StoreInv

----------------------------------------------------------------------------
LEMMA Rectangle ==
  ASSUME NEW k \in Nat \ {0}, NEW m \in Nat
  PROVE  (k - 1) * m \in Nat /\ k * m \in Nat /\ k * m = (k - 1) * m + m
<1>1. k - 1 \in Nat
  OBVIOUS
<1>2. \A a \in Nat, b \in Nat : a * b \in Nat
  OBVIOUS
<1>3. k * m = (k - 1) * m + m
  OBVIOUS
<1> QED BY <1>1, <1>2, <1>3

LEMMA MoreIsLeft ==
  ASSUME NEW i \in Int, NEW x \in Int, NEW a \in Int, NEW b \in Int, b >= a, i <= a - x
  PROVE  i <= b - x
OBVIOUS

LEMMA FullPage ==
  ASSUME NEW i \in Nat \ {0}, NEW x \in Int, NEW y \in Int, NEW m \in Int, NEW a \in Int,
         y = x + m, i <= (a - x) - m
  PROVE  y < a /\ i <= a - y
OBVIOUS

LEMMA LeastRange ==
  ASSUME NEW l \in Int, NEW m \in Nat
  PROVE  \E n \in Nat : 1..Least(m, l) = 1..n /\ n <= m /\ \A i \in 1..n : i <= l
<1>1. CASE Least(m, l) >= 0
  <2> DEFINE n == Least(m, l)
  <2>1. n \in Nat /\ n <= m /\ \A i \in 1..n : i <= l
    BY <1>1 DEF Least
  <2> HIDE DEF n
  <2>2. \E x \in Nat : 1..n = 1..x /\ x <= m /\ \A i \in 1..x : i <= l
    BY <2>1
  <2> QED BY <2>2 DEF n
<1>2. CASE Least(m, l) < 0
  <2>1. 1..Least(m, l) = 1..0 /\ 0 \in Nat /\ 0 <= m /\ \A i \in 1..0 : i <= l
    BY <1>2 DEF Least
  <2> QED BY <2>1, Zenon
<1> QED BY <1>1, <1>2 DEF Least

LEMMA PageType ==
  ASSUME TypeOK, NEW k \in Nat \ {0}
  PROVE  /\ NewestPage(k) \in Seq([pool : Pools, txs : Nat])
         /\ \A p \in Pools : TxPage(p, k) \in Seq(Nat)
<1>1. PageLimit \in Nat /\ TxPageLimit \in Nat
  BY ConstantsAssumption
<1>2. NewestPage(k) \in Seq([pool : Pools, txs : Nat])
  <2> DEFINE last == Len(chain) - (k - 1) * PageLimit
             entry(i) == [pool |-> chain[last - i + 1], txs |-> Len(trades[chain[last - i + 1]])]
  <2>1. chain \in Seq(Pools) /\ trades \in [Pools -> Seq(Nat)] /\ Len(chain) \in Nat
    BY DEF TypeOK
  <2>2. last \in Int /\ last <= Len(chain)
    <3>1. (k - 1) * PageLimit \in Nat
      BY <1>1, Rectangle
    <3> QED BY <2>1, <3>1
  <2>3. PICK n \in Nat : 1..Least(PageLimit, last) = 1..n /\ \A i \in 1..n : i <= last
    BY <1>1, <2>2, LeastRange
  <2> HIDE DEF last
  <2>4. ASSUME NEW i \in 1..n PROVE entry(i) \in [pool : Pools, txs : Nat]
    <3>1. last - i + 1 \in 1..Len(chain)
      <4>1. i \in Nat /\ i >= 1 /\ i <= last
        BY <2>3
      <4>2. Len(chain) \in Nat
        BY <2>1
      <4> QED BY <2>2, <4>1, <4>2
    <3>2. chain[last - i + 1] \in Pools
      BY <2>1, <3>1
    <3>3. Len(trades[chain[last - i + 1]]) \in Nat
      BY <2>1, <3>2
    <3> QED BY <3>2, <3>3
  <2>5. [i \in 1..n |-> entry(i)] \in Seq([pool : Pools, txs : Nat])
    <3> HIDE DEF entry
    <3> QED BY <2>4
  <2>6. NewestPage(k) = [i \in 1..n |-> entry(i)]
    BY <2>3 DEF NewestPage, last
  <2> QED BY <2>5, <2>6
<1>3. ASSUME NEW p \in Pools PROVE TxPage(p, k) \in Seq(Nat)
  <2> DEFINE last == Len(trades[p]) - (k - 1) * TxPageLimit
  <2>1. Len(trades[p]) \in Nat
    BY DEF TypeOK
  <2>2. last \in Int
    BY <1>1, <2>1, Rectangle
  <2>3. PICK n \in Nat : 1..Least(TxPageLimit, last) = 1..n /\ \A i \in 1..n : i <= last
    BY <1>1, <2>2, LeastRange
  <2> HIDE DEF last
  <2>4. \A i \in 1..n : last - i + 1 \in Nat
    BY <2>2, <2>3
  <2>5. [i \in 1..n |-> last - i + 1] \in Seq(Nat)
    BY <2>4
  <2> QED BY <2>3, <2>5 DEF TxPage, last
<1> QED BY <1>2, <1>3

LEMMA BarType ==
  ASSUME TypeOK, NEW p \in Pools, NEW k \in Nat
  PROVE  BarRow(p, k) \in Rows
<1>1. {n \in DOMAIN trades[p] : Opens(k) <= trades[p][n] /\ trades[p][n] < Closes(k)}
        \subseteq 1..Len(trades[p])
  BY DEF TypeOK
<1>2. IsFiniteSet(1..Len(trades[p]))
  BY FS_Interval DEF TypeOK
<1>3. InBar(p, k) \in Nat
  BY <1>1, <1>2, FS_Subset, FS_CardinalityType DEF InBar
<1> QED BY <1>3 DEF BarRow, Row, Rows, RowTypes

LEMMA TypeInit == Init => TypeOK
BY DEF Init, TypeOK, Phases

LEMMA TypeStep ==
  ASSUME TypeOK, ScratchInv, StoreInv, [Next]_vars
  PROVE  TypeOK'
<1> USE DEF world, process, reading
<1>1. rows' \subseteq Rows /\ buffer' \in Seq(Rows)
  BY StoreStep
<1>2. /\ now' \in Nat /\ chain' \in Seq(Pools) /\ createdAt' \in [Pools -> Nat]
      /\ trades' \in [Pools -> Seq(Nat)]
  <2>1. ASSUME NEW p \in Pools, Trade(p) PROVE trades' \in [Pools -> Seq(Nat)]
    <3>1. Append(trades[p], now) \in Seq(Nat)
      BY DEF TypeOK
    <3> QED BY <2>1, <3>1 DEF Trade, TypeOK
  <2>2. ASSUME NEW p \in Pools, CreatePool(p) PROVE chain' \in Seq(Pools) /\ createdAt' \in [Pools -> Nat]
    <3>1. Append(chain, p) \in Seq(Pools)
      BY DEF TypeOK
    <3> QED BY <2>2, <3>1 DEF CreatePool, TypeOK
  <2>3. CASE World
    <3>1. CASE Tick
      BY <3>1 DEF Tick, TypeOK
    <3>2. ASSUME NEW p \in Pools, CreatePool(p) \/ Trade(p)
          PROVE  /\ now' \in Nat /\ chain' \in Seq(Pools) /\ createdAt' \in [Pools -> Nat]
                 /\ trades' \in [Pools -> Seq(Nat)]
      <4>1. CASE CreatePool(p)
        BY <4>1, <2>2 DEF CreatePool, TypeOK
      <4>2. CASE Trade(p)
        BY <4>2, <2>1 DEF Trade, TypeOK
      <4> QED BY <3>2, <4>1, <4>2
    <3> QED BY <2>3, <3>1, <3>2 DEF World
  <2>4. CASE ~World
    BY <2>4 DEF Next, Step, Begin, FetchListing, Examine, StartPool, FetchTxs, ConsumeTx, EndSwaps,
       SkipSwaps, AskBars, AnswerBars, ConsumeBar, EndBars, SkipBars, FlushPool, Finish, Die, vars,
       TypeOK
  <2> QED BY <2>3, <2>4
<1>3. listing' \in Seq([pool : Pools, txs : Nat]) /\ universe' \in Seq(Pools)
  <2>1. CASE FetchListing
    <3>1. NewestPage(page) \in Seq([pool : Pools, txs : Nat])
      BY PageType DEF TypeOK
    <3> QED BY <2>1, <3>1 DEF FetchListing, TypeOK
  <2>2. CASE Examine
    <3>1. listing # <<>> /\ listing \in Seq([pool : Pools, txs : Nat]) /\ universe \in Seq(Pools)
      BY <2>2 DEF Examine, TypeOK
    <3>2. Tail(listing) \in Seq([pool : Pools, txs : Nat]) /\ Head(listing).pool \in Pools
      <4>1. Head(listing) \in [pool : Pools, txs : Nat]
        <5>1. \A S : \A q \in Seq(S) : q # <<>> => Head(q) \in S
          OBVIOUS
        <5> QED BY <3>1, <5>1
      <4>2. Tail(listing) \in Seq([pool : Pools, txs : Nat])
        BY <3>1
      <4> QED BY <4>1, <4>2
    <3>3. Append(universe, Head(listing).pool) \in Seq(Pools)
      BY <3>1, <3>2
    <3>4. <<>> \in Seq([pool : Pools, txs : Nat])
      OBVIOUS
    <3>5. listing' \in {listing, Tail(listing), <<>>}
      BY <2>2 DEF Examine, Walked
    <3>6. universe' \in {universe, Append(universe, Head(listing).pool)}
      BY <2>2 DEF Examine
    <3> QED BY <3>1, <3>2, <3>3, <3>4, <3>5, <3>6
  <2>3. CASE ~FetchListing /\ ~Examine
    <3>1. listing' = listing \/ listing' = <<>>
      BY <2>3 DEF Next, World, Tick, CreatePool, Trade, Step, Begin, StartPool, FetchTxs, ConsumeTx,
         EndSwaps, SkipSwaps, AskBars, AnswerBars, ConsumeBar, EndBars, SkipBars, FlushPool, Finish,
         Die, vars
    <3>2. universe' = universe \/ universe' = <<>>
      BY <2>3 DEF Next, World, Tick, CreatePool, Trade, Step, Begin, StartPool, FetchTxs, ConsumeTx,
         EndSwaps, SkipSwaps, AskBars, AnswerBars, ConsumeBar, EndBars, SkipBars, FlushPool, Finish,
         Die, vars
    <3>3. <<>> \in Seq([pool : Pools, txs : Nat]) /\ <<>> \in Seq(Pools)
      OBVIOUS
    <3> QED BY <3>1, <3>2, <3>3 DEF TypeOK
  <2> QED BY <2>1, <2>2, <2>3
<1>4. txs' \in Seq(Nat)
  <2>1. CASE FetchTxs
    <3>1. Current \in Pools
      BY <2>1, CurrentPool DEF FetchTxs, AtPool
    <3> QED BY <2>1, <3>1, PageType DEF FetchTxs, TypeOK
  <2>2. CASE ConsumeTx
    BY <2>2 DEF ConsumeTx, TypeOK
  <2>3. CASE ~FetchTxs /\ ~ConsumeTx
    <3>1. txs' = txs \/ txs' = <<>>
      BY <2>3 DEF Next, World, Tick, CreatePool, Trade, Step, Begin, FetchListing, Examine,
         StartPool, EndSwaps, SkipSwaps, AskBars, AnswerBars, ConsumeBar, EndBars, SkipBars,
         FlushPool, Finish, Die, vars
    <3>2. <<>> \in Seq(Nat)
      OBVIOUS
    <3> QED BY <3>1, <3>2 DEF TypeOK
  <2> QED BY <2>1, <2>2, <2>3
<1>5. bars' \subseteq Rows
  <2>1. CASE AnswerBars
    <3>1. Current \in Pools
      BY <2>1, CurrentPool DEF AnswerBars, AtPool
    <3>2. \A k \in 0..now : BarRow(Current, k) \in Rows
      BY <3>1, BarType DEF TypeOK
    <3> QED BY <2>1, <3>2 DEF AnswerBars
  <2>2. CASE ~AnswerBars
    BY <2>2 DEF Next, World, Tick, CreatePool, Trade, Step, Begin, FetchListing, Examine, StartPool,
       FetchTxs, ConsumeTx, EndSwaps, SkipSwaps, AskBars, ConsumeBar, EndBars, SkipBars, FlushPool,
       Finish, Die, vars, TypeOK
  <2> QED BY <2>1, <2>2
<1>6. failed' \subseteq Pools
  <2>1. CASE SkipSwaps
    <3>1. Current \in Pools
      BY <2>1, CurrentPool DEF SkipSwaps, AtPool
    <3> QED BY <2>1, <3>1 DEF SkipSwaps, TypeOK
  <2>2. CASE ~SkipSwaps
    BY <2>2 DEF Next, World, Tick, CreatePool, Trade, Step, Begin, FetchListing, Examine, StartPool,
       FetchTxs, ConsumeTx, EndSwaps, AskBars, AnswerBars, ConsumeBar, EndBars, SkipBars, FlushPool,
       Finish, Die, vars, TypeOK
  <2> QED BY <2>1, <2>2
<1>7. /\ pc' \in Phases /\ began' \in Nat /\ page' \in Nat \ {0} /\ at' \in Nat \ {0}
      /\ cutoff' \in Nat /\ runs' \in Nat
  <2>1. TxPages \in Nat
    BY ConstantsAssumption
  <2>2. CASE World \/ UNCHANGED vars
    BY <2>2 DEF World, Tick, CreatePool, Trade, vars, TypeOK
  <2>7. CASE Begin
    BY <2>7 DEF Begin, TypeOK, Phases
  <2>8. CASE StartPool
    <3>1. pc' \in {pc, "swaps"} /\ at' \in {at, at + 1} /\ page' \in {page, 1}
      BY <2>8 DEF StartPool
    <3>2. UNCHANGED <<began, cutoff, runs>>
      BY <2>8 DEF StartPool
    <3> QED BY <3>1, <3>2 DEF TypeOK, Phases
  <2>5. CASE FetchListing
    BY <2>5 DEF FetchListing, TypeOK, Phases
  <2>6. CASE Examine
    <3>1. pc' \in {pc, "pools"} /\ page' \in {page, 1}
      BY <2>6 DEF Examine, Walked
    <3>2. UNCHANGED <<began, at, cutoff, runs>>
      BY <2>6 DEF Examine
    <3> QED BY <3>1, <3>2 DEF TypeOK, Phases
  <2>3. CASE FetchTxs \/ ConsumeTx \/ EndSwaps \/ SkipSwaps \/ AskBars \/ AnswerBars
    <3>1. pc' \in {pc, "bars", "flush", "asked", "answered"} /\ page' \in {page, page + 1, TxPages + 1, 1}
      BY <2>3 DEF FetchTxs, ConsumeTx, EndSwaps, SkipSwaps, AskBars, AnswerBars, AfterSwaps
    <3>2. cutoff' \in {cutoff, now} /\ UNCHANGED <<began, at, runs>>
      BY <2>3 DEF FetchTxs, ConsumeTx, EndSwaps, SkipSwaps, AskBars, AnswerBars
    <3> QED BY <2>1, <3>1, <3>2 DEF TypeOK, Phases
  <2>4. CASE (\E bar \in bars : ConsumeBar(bar)) \/ EndBars \/ SkipBars \/ FlushPool \/ Finish \/ Die
    <3>1. pc' \in {pc, "flush", "pools", "done", "dead"} /\ page' \in {page, 1}
      BY <2>4 DEF ConsumeBar, EndBars, SkipBars, FlushPool, Finish, Die
    <3>2. cutoff' \in {cutoff, 0} /\ at' \in {at, at + 1} /\ UNCHANGED <<began, runs>>
      BY <2>4 DEF ConsumeBar, EndBars, SkipBars, FlushPool, Finish, Die
    <3> QED BY <3>1, <3>2 DEF TypeOK, Phases
  <2> QED BY <2>2, <2>3, <2>4, <2>5, <2>6, <2>7, <2>8 DEF Next, Step
<1> QED BY <1>1, <1>2, <1>3, <1>4, <1>5, <1>6, <1>7 DEF TypeOK

----------------------------------------------------------------------------
LEMMA ScratchInit == Init => ScratchInv
BY DEF Init, ScratchInv, AtPool

(* While a pool is worked on, its creation is kept.                        *)
LEMMA CreationKept ==
  ASSUME TypeOK, ScratchInv, StoreInv, [Next]_vars, AtPool, pc' # "dead",
         UNCHANGED <<at, universe>>
  PROVE  Kept(PoolRow(Current))' /\ Current' = Current /\ at' \in DOMAIN universe'
         /\ Current \notin Unsplit
<1>1. PICK ev : Supported(ev) /\ Pushed(ev)
  BY Effects
<1>2. Kept(PoolRow(Current)) /\ Current \in Pools /\ at \in DOMAIN universe /\ Current \notin Unsplit
  BY CurrentPool DEF ScratchInv
<1>3. PoolRow(Current).type # "ohlcv_bar"
  BY <1>2, RowsAreShaped
<1>4. Kept(PoolRow(Current))' <=> (PoolRow(Current) \in rows' \/ PoolRow(Current) \in ContentsOf(buffer'))
  BY DEF Kept, ContentsOf, Current, PoolRow, Row
<1>5. \A r : (Kept(r) \/ r \in ContentsOf(ev)) /\ r.type # "ohlcv_bar" => Kept(r)'
  BY <1>1, PushedIs DEF StoreInv, TypeOK
<1>6. Kept(PoolRow(Current))'
  BY <1>2, <1>3, <1>4, <1>5 DEF Kept, ContentsOf
<1>7. Current' = Current
  BY DEF Current
<1> QED BY <1>2, <1>6, <1>7

LEMMA ScratchStep ==
  ASSUME TypeOK, ScratchInv, StoreInv, [Next]_vars
  PROVE  ScratchInv'
<1> USE DEF world, process, reading
<1>1. began' <= now' /\ cutoff' <= now'
  <2>1. now \in Nat /\ began <= now /\ cutoff <= now /\ 0 <= now
    BY DEF TypeOK, ScratchInv
  <2>2. now' = now \/ (now' = now + 1 /\ UNCHANGED <<began, cutoff>>)
    BY DEF Next, World, Tick, CreatePool, Trade, Step, Begin, FetchListing, Examine,
     StartPool, FetchTxs, ConsumeTx, EndSwaps, SkipSwaps, AskBars, AnswerBars, ConsumeBar, EndBars,
     SkipBars, FlushPool, Finish, Die, vars
  <2>3. began' \in {began, now} /\ cutoff' \in {cutoff, now, 0}
    BY DEF Next, World, Tick, CreatePool, Trade, Step, Begin, FetchListing, Examine,
     StartPool, FetchTxs, ConsumeTx, EndSwaps, SkipSwaps, AskBars, AnswerBars, ConsumeBar, EndBars,
     SkipBars, FlushPool, Finish, Die, vars
  <2>4. began \in Nat /\ cutoff \in Nat
    BY DEF TypeOK
  <2> QED BY <2>1, <2>2, <2>3, <2>4
<1>2. CASE World \/ UNCHANGED vars
  <2>1. UNCHANGED <<pc, began, listing, universe, at, page, txs, cutoff, bars, buffer, failed, rows>>
    BY <1>2 DEF World, Tick, CreatePool, Trade, vars
  <2> QED BY <1>1, <2>1 DEF ScratchInv, AtPool, Current, Kept, ContentsOf, PoolRow, Row
<1>3. CASE Begin \/ FetchListing \/ Examine \/ Finish \/ Die
  <2>1. /\ pc' \in {"enumerate", "pools", "done", "dead"} /\ txs' = <<>> /\ bars' = {} /\ buffer' = <<>>
        /\ listing' # <<>> => pc' = "enumerate"
        /\ pc' = "enumerate" => at' = 1
    BY <1>3 DEF Begin, FetchListing, Examine, Walked, Finish, Die, Flush, ScratchInv, AtPool, Running
  <2> QED BY <1>1, <2>1 DEF ScratchInv, AtPool
<1>4. CASE StartPool
  <2>1. CASE Current \in Unsplit
    BY <1>1, <1>4, <2>1 DEF StartPool, ScratchInv, AtPool
  <2>2. CASE Current \notin Unsplit
    <3>1. at \in DOMAIN universe
      BY <1>4 DEF StartPool, TypeOK
    <3>2. buffer' = Append(buffer, PoolRow(Current)) /\ UNCHANGED <<at, universe>>
      BY <1>4, <2>2 DEF StartPool
    <3>3. PoolRow(Current) \in ContentsOf(buffer')
      <4>1. buffer \in Seq(Rows)
        BY DEF TypeOK
      <4>2. Len(buffer) + 1 \in DOMAIN buffer' /\ buffer'[Len(buffer) + 1] = PoolRow(Current)
        BY <3>2, <4>1
      <4> QED BY <4>2 DEF ContentsOf
    <3>4. Kept(PoolRow(Current))' /\ Current' = Current
      BY <3>2, <3>3 DEF Kept, Current, ContentsOf, PoolRow, Row
    <3>5. pc' = "swaps" /\ txs' = <<>> /\ bars' = {} /\ listing' = <<>>
      BY <1>4, <2>2 DEF StartPool, ScratchInv
    <3> QED BY <1>1, <2>2, <3>1, <3>2, <3>4, <3>5 DEF ScratchInv, AtPool
  <2> QED BY <2>1, <2>2
<1>5. CASE FetchTxs \/ ConsumeTx \/ EndSwaps \/ SkipSwaps \/ AskBars \/ AnswerBars
           \/ (\E bar \in bars : ConsumeBar(bar)) \/ EndBars \/ SkipBars
  <2>1. AtPool /\ AtPool' /\ pc' # "dead" /\ UNCHANGED <<at, universe, listing>>
    BY <1>5 DEF FetchTxs, ConsumeTx, EndSwaps, SkipSwaps, AskBars, AnswerBars, ConsumeBar, EndBars,
       SkipBars, AtPool, AfterSwaps, ScratchInv
  <2>2. Kept(PoolRow(Current))' /\ Current' = Current /\ at' \in DOMAIN universe' /\ Current \notin Unsplit
    BY <2>1, CreationKept
  <2>3. txs' # <<>> => pc' = "swaps"
    BY <1>5 DEF FetchTxs, ConsumeTx, EndSwaps, SkipSwaps, AskBars, AnswerBars, ConsumeBar, EndBars,
       SkipBars, AtPool, AfterSwaps, ScratchInv
  <2>4. bars' # {} => pc' = "answered"
    BY <1>5 DEF FetchTxs, ConsumeTx, EndSwaps, SkipSwaps, AskBars, AnswerBars, ConsumeBar, EndBars,
       SkipBars, AtPool, AfterSwaps, ScratchInv
  <2>5. \A r \in bars' : r.type = "ohlcv_bar" /\ r.pool = Current
    <3>1. CASE AnswerBars
      BY <3>1 DEF AnswerBars, BarRow, Row
    <3>2. CASE ~AnswerBars
      <4>1. bars' \subseteq bars
        BY <1>5, <3>2 DEF FetchTxs, ConsumeTx, EndSwaps, SkipSwaps, AskBars, ConsumeBar, EndBars, SkipBars
      <4> QED BY <4>1 DEF ScratchInv
    <3> QED BY <3>1, <3>2
  <2>6. listing' # <<>> => pc' = "enumerate"
    BY <2>1 DEF ScratchInv, AtPool
  <2> QED BY <1>1, <2>1, <2>2, <2>3, <2>4, <2>5, <2>6 DEF ScratchInv, AtPool
<1>6. CASE FlushPool
  <2>1. pc' = "pools" /\ txs' = <<>> /\ bars' = {} /\ buffer' = <<>> /\ listing' = <<>>
    BY <1>6 DEF FlushPool, Flush, ScratchInv
  <2> QED BY <1>1, <2>1 DEF ScratchInv, AtPool
<1> QED BY <1>2, <1>3, <1>4, <1>5, <1>6 DEF Next, Step

----------------------------------------------------------------------------
(* Bars.  A bar that is not forming at the cutoff has closed by now, and   *)
(* whatever trades from now on falls into a later period.                  *)

Final(r) == Closes(r.n) <= now /\ r.body = InBar(r.pool, r.n)

BarInv ==
  /\ \A r \in rows \cup ContentsOf(buffer) : r.type = "ohlcv_bar" => Final(r)
  /\ \A r \in bars : ~Forming(r) => r.body = InBar(r.pool, r.n)

LEMMA ClosedBarIsFinal ==
  ASSUME TypeOK, [Next]_vars, NEW p \in Pools, NEW k \in Nat, Closes(k) <= now
  PROVE  InBar(p, k)' = InBar(p, k) /\ Closes(k) <= now'
<1> USE DEF world, process, reading
<1>1. Opens(k) \in Int /\ Closes(k) \in Int
  BY ConstantsAssumption DEF Opens, Closes
<1>2. CASE UNCHANGED trades
  <2>1. now' = now \/ now' = now + 1
    BY DEF Next, World, Tick, CreatePool, Trade, Step, Begin, FetchListing, Examine,
     StartPool, FetchTxs, ConsumeTx, EndSwaps, SkipSwaps, AskBars, AnswerBars, ConsumeBar, EndBars,
     SkipBars, FlushPool, Finish, Die, vars
  <2>2. InBar(p, k)' = InBar(p, k)
    BY <1>2 DEF InBar, Opens, Closes
  <2>3. now \in Nat
    BY DEF TypeOK
  <2>4. Closes(k) <= now'
    BY <1>1, <2>1, <2>3
  <2> QED BY <2>2, <2>4
<1>3. ASSUME NEW q \in Pools, Trade(q) PROVE InBar(p, k)' = InBar(p, k) /\ now' = now
  <2> DEFINE In(t) == Opens(k) <= t /\ t < Closes(k)
  <2>0. trades \in [Pools -> Seq(Nat)] /\ now \in Nat
    BY DEF TypeOK
  <2>1. trades \in [Pools -> Seq(Nat)] /\ now \in Nat /\ ~In(now)
    BY <1>1, <2>0
  <2>2. \A n \in DOMAIN trades[p] : n \in DOMAIN trades'[p] /\ trades'[p][n] = trades[p][n]
    BY <1>3, <2>1 DEF Trade
  <2>3. \A n \in DOMAIN trades'[p] : n \in DOMAIN trades[p] \/ trades'[p][n] = now
    BY <1>3, <2>1 DEF Trade
  <2> HIDE DEF In
  <2>4. {n \in DOMAIN trades'[p] : In(trades'[p][n])} = {n \in DOMAIN trades[p] : In(trades[p][n])}
    BY <2>1, <2>2, <2>3
  <2>5. InBar(p, k)' = Cardinality({n \in DOMAIN trades'[p] : In(trades'[p][n])})
    BY DEF InBar, In, Opens, Closes
  <2>6. InBar(p, k) = Cardinality({n \in DOMAIN trades[p] : In(trades[p][n])})
    BY DEF InBar, In
  <2> QED BY <1>3, <2>4, <2>5, <2>6 DEF Trade
<1>4. UNCHANGED trades \/ \E q \in Pools : Trade(q)
  BY DEF Next, World, Tick, CreatePool, Step, Begin, FetchListing, Examine,
     StartPool, FetchTxs, ConsumeTx, EndSwaps, SkipSwaps, AskBars, AnswerBars, ConsumeBar, EndBars,
     SkipBars, FlushPool, Finish, Die, vars
<1> QED BY <1>2, <1>3, <1>4

LEMMA BarStep ==
  ASSUME TypeOK, ScratchInv, StoreInv, BarInv, [Next]_vars
  PROVE  BarInv'
<1> USE DEF world, process, reading
<1>1. /\ now \in Nat /\ cutoff \in Nat /\ cutoff <= now
      /\ \A k \in Nat : Closes(k) \in Int
      /\ \A r \in rows \cup ContentsOf(buffer) \cup bars : r \in Rows
  <2>1. now \in Nat /\ cutoff \in Nat /\ cutoff <= now
    BY DEF TypeOK, ScratchInv
  <2>2. \A k \in Nat : Closes(k) \in Int
    <3>1. BarLength \in Nat /\ \A a \in Nat, b \in Nat : a * b \in Nat
      BY ConstantsAssumption
    <3> QED BY <3>1 DEF Closes, Opens
  <2>3. \A r \in rows \cup ContentsOf(buffer) \cup bars : r \in Rows
    <3>1. rows \subseteq Rows /\ bars \subseteq Rows /\ buffer \in Seq(Rows)
      BY DEF TypeOK
    <3>2. ContentsOf(buffer) \subseteq Rows
      BY <3>1 DEF ContentsOf
    <3> QED BY <3>1, <3>2
  <2> QED BY <2>1, <2>2, <2>3
<1>2. PICK ev : Supported(ev) /\ (Pushed(ev) \/ Lost(ev))
  BY Effects
<1>3. \A r : Kept(r)' => Kept(r) \/ r \in ContentsOf(ev)
  BY <1>2, PushedIs, LostIs DEF StoreInv, TypeOK
<1>4. ASSUME NEW r \in rows' \cup ContentsOf(buffer'), r.type = "ohlcv_bar" PROVE Final(r)'
  <2>1. r \in Rows /\ Final(r)
    <3>1. CASE r \in rows \cup ContentsOf(buffer)
      BY <1>1, <1>4, <3>1 DEF BarInv
    <3>2. CASE r \in ContentsOf(ev)
      <4>1. r \in bars /\ ~Forming(r)
        BY <1>2, <1>4, <3>2 DEF Supported, ContentsOf
      <4> QED BY <1>1, <4>1 DEF BarInv, Forming, Final, Rows
    <3>3. Kept(r)'
      BY <1>4 DEF Kept, ContentsOf
    <3> QED BY <1>3, <3>1, <3>2, <3>3 DEF Kept
  <2>2. r.pool \in Pools /\ r.n \in Nat
    BY <2>1 DEF Rows
  <2>3. InBar(r.pool, r.n)' = InBar(r.pool, r.n) /\ Closes(r.n) <= now'
    BY <2>1, <2>2, ClosedBarIsFinal DEF Final
  <2> QED BY <2>1, <2>3 DEF Final, Closes, Opens, InBar
<1>5. ASSUME NEW r \in bars', ~Forming(r)' PROVE (r.body = InBar(r.pool, r.n))'
  <2>1. CASE AnswerBars
    <3>1. PICK k \in 0..now : r = BarRow(Current, k)
      BY <1>5, <2>1 DEF AnswerBars
    <3>2. trades' = trades /\ r.body = InBar(r.pool, r.n)
      BY <2>1, <3>1 DEF AnswerBars, BarRow, Row
    <3> QED BY <3>2 DEF InBar, Opens, Closes
  <2>2. CASE ~AnswerBars
    <3>1. r \in bars /\ cutoff' = cutoff
      BY <1>5, <2>2 DEF ScratchInv, Next, World, Tick, CreatePool, Trade, Step, Begin, FetchListing,
         Examine, StartPool, FetchTxs, ConsumeTx, EndSwaps, SkipSwaps, AskBars, ConsumeBar, EndBars,
         SkipBars, FlushPool, Finish, Die, vars
    <3>2. Closes(r.n) <= now /\ r.body = InBar(r.pool, r.n) /\ r.pool \in Pools /\ r.n \in Nat
      BY <1>1, <1>5, <3>1 DEF BarInv, Forming, Rows, Closes, Opens
    <3>3. InBar(r.pool, r.n)' = InBar(r.pool, r.n)
      BY <3>2, ClosedBarIsFinal
    <3> QED BY <3>2, <3>3 DEF InBar, Closes, Opens
  <2> QED BY <2>1, <2>2
<1>6. ContentsOf(buffer)' = ContentsOf(buffer')
  BY DEF ContentsOf
<1> QED BY <1>4, <1>5, <1>6 DEF BarInv

----------------------------------------------------------------------------
(* Swaps.  Of the readable swaps a pool had when the run began, each is in *)
(* the store or the buffer, or on the page at hand, or on a page to come.  *)
(* New swaps push old ones to later pages, never to earlier ones.          *)

OldSwaps(p) == {n \in DOMAIN trades[p] : trades[p][n] < began /\ <<p, n>> \notin Unreadable}
Deep(p) == Len(trades[p]) > TxPages * TxPageLimit
ToCome(p, n) ==
  \/ n \in ContentsOf(txs)
  \/ page <= TxPages /\ n <= Len(trades[p]) - (page - 1) * TxPageLimit
SwapsLeft(p) == Deep(p) \/ \A n \in OldSwaps(p) : Kept(SwapRow(p, n)) \/ ToCome(p, n)
SwapsDone(p) == p \in failed \/ Deep(p) \/ \A n \in OldSwaps(p) : Kept(SwapRow(p, n))
PastSwaps == pc \in {"bars", "asked", "answered", "flush"}

SwapInv ==
  \A p \in Pools :
    /\ p \notin Unsplit => \A i \in DOMAIN universe : i < at /\ universe[i] = p => Backfilled(p)
    /\ pc = "swaps" /\ p = Current => SwapsLeft(p)
    /\ PastSwaps /\ p = Current => SwapsDone(p)

LEMMA OldSwapsStay ==
  ASSUME TypeOK, ScratchInv, [Next]_vars, began' = began, NEW p \in Pools
  PROVE  /\ OldSwaps(p)' = OldSwaps(p) /\ Len(trades'[p]) >= Len(trades[p]) /\ (Deep(p) => Deep(p)')
         /\ OldSwaps(p) \subseteq Nat \ {0} /\ Len(trades[p]) \in Nat
<1> USE DEF world, process, reading
<1>1. trades \in [Pools -> Seq(Nat)] /\ now \in Nat /\ began \in Nat /\ began <= now
  BY DEF TypeOK, ScratchInv
<1>2. TxPages * TxPageLimit \in Nat
  BY ConstantsAssumption, Rectangle
<1>3. UNCHANGED trades \/ \E q \in Pools : Trade(q)
  BY DEF Next, World, Tick, CreatePool, Step, Begin, FetchListing, Examine,
     StartPool, FetchTxs, ConsumeTx, EndSwaps, SkipSwaps, AskBars, AnswerBars, ConsumeBar, EndBars,
     SkipBars, FlushPool, Finish, Die, vars
<1>4. OldSwaps(p) \subseteq Nat \ {0} /\ Len(trades[p]) \in Nat
  BY <1>1 DEF OldSwaps
<1>5. CASE UNCHANGED trades
  BY <1>4, <1>5 DEF OldSwaps, Deep
<1>6. ASSUME NEW q \in Pools, Trade(q)
      PROVE  OldSwaps(p)' = OldSwaps(p) /\ Len(trades'[p]) >= Len(trades[p]) /\ (Deep(p) => Deep(p)')
  <2>1. \A n \in DOMAIN trades[p] : n \in DOMAIN trades'[p] /\ trades'[p][n] = trades[p][n]
    BY <1>1, <1>6 DEF Trade
  <2>2. \A n \in DOMAIN trades'[p] : n \in DOMAIN trades[p] \/ trades'[p][n] = now
    BY <1>1, <1>6 DEF Trade
  <2>3. ~(now < began)
    BY <1>1
  <2>4. OldSwaps(p)' = OldSwaps(p)
    BY <2>1, <2>2, <2>3 DEF OldSwaps
  <2>5. Len(trades'[p]) >= Len(trades[p]) /\ Len(trades'[p]) \in Nat
    BY <1>1, <1>6 DEF Trade
  <2> HIDE DEF world
  <2>6. Deep(p) => Deep(p)'
    BY <1>2, <1>4, <2>5 DEF Deep
  <2> QED BY <2>4, <2>5, <2>6
<1> QED BY <1>3, <1>4, <1>5, <1>6

(* What is stored stays, and so does what is kept, unless the run dies.    *)
LEMMA RowsStay ==
  ASSUME TypeOK, ScratchInv, StoreInv, [Next]_vars, NEW p \in Pools
  PROVE  /\ PoolRow(p) \in rows => PoolRow(p) \in rows'
         /\ \A n \in Nat : SwapRow(p, n) \in rows => SwapRow(p, n) \in rows'
         /\ pc' # "dead" => \A n \in Nat : Kept(SwapRow(p, n)) => Kept(SwapRow(p, n))'
<1>1. PoolRow(p).type # "ohlcv_bar" /\ \A n \in Nat : SwapRow(p, n).type # "ohlcv_bar"
  BY RowsAreShaped
<1>2. PICK ev : Supported(ev) /\ (Pushed(ev) \/ (pc' = "dead" /\ Lost(ev)))
  BY Effects
<1>3. \A r \in rows : r.type # "ohlcv_bar" => r \in rows'
  BY <1>2, PushedIs, LostIs DEF StoreInv, TypeOK
<1>4. ASSUME pc' # "dead", NEW n \in Nat, Kept(SwapRow(p, n)) PROVE Kept(SwapRow(p, n))'
  <2>1. \A r : Kept(r) /\ r.type # "ohlcv_bar" => Kept(r)'
    BY <1>2, <1>4, PushedIs DEF StoreInv, TypeOK
  <2> HIDE DEF Kept
  <2>2. Kept(SwapRow(p, n))' <=> SwapRow(p, n) \in rows' \/ SwapRow(p, n) \in ContentsOf(buffer')
    BY DEF Kept, ContentsOf, SwapRow, Row
  <2> QED BY <1>1, <1>4, <2>1, <2>2 DEF Kept, ContentsOf
<1> QED BY <1>1, <1>3, <1>4

LEMMA BackfilledIs ==
  ASSUME NEW p
  PROVE  Backfilled(p) <=> /\ PoolRow(p) \in rows
                           /\ \/ p \in failed \/ Deep(p)
                              \/ \A n \in OldSwaps(p) : SwapRow(p, n) \in rows
BY DEF Backfilled, OldSwaps, Deep

LEMMA BackfilledStays ==
  ASSUME TypeOK, ScratchInv, StoreInv, [Next]_vars, began' = began, failed \subseteq failed',
         NEW p \in Pools, Backfilled(p)
  PROVE  Backfilled(p)'
<1>1. PoolRow(p) \in rows' /\ \A n \in Nat : SwapRow(p, n) \in rows => SwapRow(p, n) \in rows'
  BY RowsStay DEF Backfilled
<1>2. OldSwaps(p)' = OldSwaps(p) /\ OldSwaps(p) \subseteq Nat \ {0} /\ (Deep(p) => Deep(p)')
  BY OldSwapsStay
<1>3. p \in failed \/ Deep(p) \/ \A n \in OldSwaps(p) : SwapRow(p, n) \in rows
  BY BackfilledIs
<1>4. p \in failed' \/ Deep(p)' \/ \A n \in OldSwaps(p)' : SwapRow(p, n) \in rows'
  BY <1>1, <1>2, <1>3
<1>5. Backfilled(p)' <=> /\ PoolRow(p) \in rows'
                         /\ \/ p \in failed' \/ Deep(p)'
                            \/ \A n \in OldSwaps(p)' : SwapRow(p, n) \in rows'
  BY DEF Backfilled, OldSwaps, Deep, SwapRow, PoolRow, Row
<1> QED BY <1>1, <1>4, <1>5

(* A pool is through: what was kept of it is now stored.                   *)
LEMMA PoolIsThrough ==
  ASSUME TypeOK, ScratchInv, StoreInv, SwapInv, FlushPool, NEW p \in Pools, p = Current
  PROVE  Backfilled(p)'
<1>1. buffer' = <<>> /\ Pushed(<<>>) /\ Supported(<<>>)
  BY KeepsPush DEF FlushPool, Flush, TypeOK
<1>2. \A r : Kept(r) /\ r.type # "ohlcv_bar" => Kept(r)'
  BY <1>1, PushedIs DEF StoreInv, TypeOK
<1>3. \A r : Kept(r)' => r \in rows'
  BY <1>1 DEF Kept, ContentsOf
<1>4. \A r : Kept(r) /\ r.type # "ohlcv_bar" => r \in rows'
  BY <1>2, <1>3
<1>5. PoolRow(p).type # "ohlcv_bar" /\ \A n \in Nat : SwapRow(p, n).type # "ohlcv_bar"
  BY RowsAreShaped
<1>6. Kept(PoolRow(p)) /\ SwapsDone(p)
  BY DEF FlushPool, ScratchInv, AtPool, SwapInv, PastSwaps
<1>7. OldSwaps(p) \subseteq Nat
  BY DEF OldSwaps, TypeOK
<1> HIDE DEF Kept
<1>8. PoolRow(p) \in rows' /\ (p \in failed \/ Deep(p) \/ \A n \in OldSwaps(p) : SwapRow(p, n) \in rows')
  BY <1>4, <1>5, <1>6, <1>7 DEF SwapsDone
<1>9. UNCHANGED <<trades, began, failed>>
  BY DEF FlushPool, world
<1> QED BY <1>8, <1>9 DEF Backfilled, OldSwaps, Deep, SwapRow, PoolRow, Row

LEMMA DurableStep ==
  ASSUME TypeOK, ScratchInv, StoreInv, SwapInv, [Next]_vars,
         NEW p \in Pools, p \notin Unsplit, NEW i \in DOMAIN universe', i < at', universe'[i] = p
  PROVE  Backfilled(p)'
<1> USE DEF world, process, reading
<1>1. at' \in Nat /\ at' # 1 /\ i # 0 /\ i \in Nat
  <2>1. universe' \in Seq(Pools) /\ at' \in Nat \ {0}
    BY TypeStep DEF TypeOK
  <2> QED BY <2>1
<1>2. ~Begin /\ ~FetchListing /\ ~Examine
  BY <1>1 DEF Begin, FetchListing, Examine, ScratchInv
<1>3. universe' = universe /\ began' = began /\ failed \subseteq failed'
  BY <1>2 DEF Next, World, Tick, CreatePool, Trade, Step, StartPool, FetchTxs, ConsumeTx, EndSwaps,
     SkipSwaps, AskBars, AnswerBars, ConsumeBar, EndBars, SkipBars, FlushPool, Finish, Die, vars
<1>4. CASE i < at
  BY <1>3, <1>4, BackfilledStays DEF SwapInv
<1>5. CASE ~(i < at)
  <2>1. StartPool \/ FlushPool
    BY <1>2, <1>5 DEF Next, World, Tick, CreatePool, Trade, Step, FetchTxs, ConsumeTx, EndSwaps,
       SkipSwaps, AskBars, AnswerBars, ConsumeBar, EndBars, SkipBars, Finish, Die, vars
  <2>2. at \in Nat /\ at' \in {at, at + 1}
    BY <2>1 DEF StartPool, FlushPool, TypeOK
  <2>3. i = at /\ at' = at + 1 /\ p = Current
    BY <1>1, <1>3, <1>5, <2>2 DEF Current
  <2>4. FlushPool
    BY <2>1, <2>2, <2>3 DEF StartPool
  <2> QED BY <2>3, <2>4, PoolIsThrough
<1> QED BY <1>4, <1>5

(* What is left of a pool's history while it is read.                      *)
LEMMA SwapsLeftStep ==
  ASSUME TypeOK, ScratchInv, StoreInv, SwapInv, [Next]_vars,
         pc' = "swaps", NEW p \in Pools, p = Current'
  PROVE  SwapsLeft(p)'
<1> USE DEF world, process, reading
<1> DEFINE L == TxPageLimit
<1>1. \/ World \/ UNCHANGED vars
      \/ StartPool /\ Current \notin Unsplit
      \/ FetchTxs \/ ConsumeTx
  BY DEF Next, Step, Begin, FetchListing, Examine, Walked, StartPool, EndSwaps, SkipSwaps, AfterSwaps,
     AskBars, AnswerBars, ConsumeBar, EndBars, SkipBars, FlushPool, Finish, Die, ScratchInv
<1>2. p = Current /\ began' = began /\ L \in Nat \ {0} /\ TxPages \in Nat \ {0}
  BY <1>1, ConstantsAssumption
     DEF World, Tick, CreatePool, Trade, StartPool, FetchTxs, ConsumeTx, Current, vars
<1>3. /\ OldSwaps(p)' = OldSwaps(p) /\ OldSwaps(p) \subseteq Nat \ {0}
      /\ (Deep(p) => Deep(p)')
  BY <1>2, OldSwapsStay
<1>4. Len(trades'[p]) >= Len(trades[p]) /\ Len(trades[p]) \in Nat
  BY <1>2, OldSwapsStay
<1>5. \A n \in Nat : Kept(SwapRow(p, n)) => Kept(SwapRow(p, n))'
  BY RowsStay
<1>6. SwapsLeft(p)' <=> Deep(p)' \/ \A n \in OldSwaps(p)' : Kept(SwapRow(p, n))' \/ ToCome(p, n)'
  BY DEF SwapsLeft, Kept, ContentsOf, SwapRow, Row, ToCome
<1>7. ASSUME ~Deep(p), NEW n \in OldSwaps(p), SwapsLeft(p) \/ StartPool
      PROVE  Kept(SwapRow(p, n))' \/ ToCome(p, n)'
  <2>1. page \in Nat \ {0} /\ page' \in Nat \ {0} /\ n \in Nat \ {0} /\ n <= Len(trades[p])
    BY <1>3, TypeStep DEF TypeOK, OldSwaps
  <2>2. /\ (page - 1) * L \in Nat /\ page * L \in Nat /\ page * L = (page - 1) * L + L
        /\ (page' - 1) * L \in Nat
    BY <1>2, <2>1, Rectangle
  <2>3. ToCome(p, n)' <=>
          \/ n \in ContentsOf(txs')
          \/ page' <= TxPages /\ n <= Len(trades'[p]) - (page' - 1) * L
    BY DEF ToCome, ContentsOf
  <2>4. Kept(SwapRow(p, n)) => Kept(SwapRow(p, n))'
    BY <1>5, <2>1
  <2>5. CASE World \/ UNCHANGED vars
    <3>1. UNCHANGED <<page, txs>> /\ SwapsLeft(p)
      BY <1>7, <2>5 DEF World, Tick, CreatePool, Trade, vars, StartPool, SwapInv
    <3>2. Kept(SwapRow(p, n)) \/ ToCome(p, n)
      BY <1>7, <3>1 DEF SwapsLeft
    <3>3. ToCome(p, n) => ToCome(p, n)'
      <4> SUFFICES ASSUME ToCome(p, n) PROVE ToCome(p, n)'
        OBVIOUS
      <4>1. n <= Len(trades[p]) - (page - 1) * L => n <= Len(trades'[p]) - (page - 1) * L
        <5>1. Len(trades'[p]) \in Nat
          BY TypeStep DEF TypeOK
        <5>2. /\ n \in Int /\ (page - 1) * L \in Int /\ Len(trades[p]) \in Int
              /\ Len(trades'[p]) \in Int
          BY <1>4, <2>1, <2>2, <5>1
        <5> HIDE DEF L
        <5> QED BY <1>4, <5>2, MoreIsLeft
      <4> QED BY <2>3, <3>1, <4>1 DEF ToCome
    <3> QED BY <2>4, <3>2, <3>3
  <2>6. CASE StartPool /\ Current \notin Unsplit
    <3>1. page' = 1 /\ trades' = trades
      BY <2>6 DEF StartPool
    <3>2. (page' - 1) * L = 0
      BY <1>2, <3>1
    <3>3. n <= Len(trades'[p]) - (page' - 1) * L
      BY <1>4, <2>1, <3>1, <3>2
    <3>4. page' <= TxPages
      BY <1>2, <3>1
    <3> QED BY <2>3, <3>3, <3>4
  <2>7. CASE FetchTxs
    <3> DEFINE last == Len(trades[p]) - (page - 1) * L
    <3>0. last \in Int /\ L \in Nat
      BY <1>2, <1>4, <2>2
    <3>1. /\ pc = "swaps" /\ txs = <<>> /\ page <= TxPages /\ trades' = trades
          /\ txs' = TxPage(p, page)
          /\ page' = IF page * L >= Len(trades[p]) THEN TxPages + 1 ELSE page + 1
      BY <1>2, <2>7 DEF FetchTxs
    <3>2. Kept(SwapRow(p, n)) \/ n <= last
      BY <1>2, <1>7, <3>1 DEF SwapInv, SwapsLeft, ToCome, ContentsOf
    <3>3. ASSUME n <= last, n > last - L PROVE n \in ContentsOf(txs')
      <4> DEFINE j == last - n + 1
      <4>1. txs' = [i \in 1..Least(L, last) |-> last - i + 1]
        BY <3>1 DEF TxPage
      <4> HIDE DEF last, L
      <4>2. j \in 1..Least(L, last) /\ last - j + 1 = n
        BY <2>1, <3>0, <3>3 DEF Least
      <4>3. txs'[j] = n /\ j \in DOMAIN txs'
        BY <4>1, <4>2
      <4> QED BY <4>3 DEF ContentsOf
    <3>4. ASSUME n <= last - L PROVE page' <= TxPages /\ n <= Len(trades'[p]) - (page' - 1) * L
      <4>1. page * L < Len(trades[p]) /\ n <= Len(trades[p]) - page * L
        BY <1>4, <2>1, <2>2, <3>0, <3>4, FullPage
      <4>2. page' = page + 1
        BY <3>1, <4>1, <1>4, <2>2
      <4>3. page # TxPages
        BY <1>7, <1>4, <2>2, <4>1 DEF Deep
      <4>4. page + 1 <= TxPages /\ (page + 1) - 1 = page
        BY <1>2, <2>1, <3>1, <4>3
      <4> QED BY <3>1, <4>1, <4>2, <4>4
    <3>5. n <= last => n > last - L \/ n <= last - L
      <4> HIDE DEF last, L
      <4> QED BY <2>1, <3>0
    <3> QED BY <2>3, <2>4, <3>2, <3>3, <3>4, <3>5
  <2>8. CASE ConsumeTx
    <3> DEFINE m == Head(txs)  ev == TxEvents(Current, m)
    <3>1. pc = "swaps" /\ txs # <<>> /\ txs' = Tail(txs) /\ Receive(ev) /\ UNCHANGED <<trades, page>>
      BY <2>8 DEF ConsumeTx
    <3>2. Kept(SwapRow(p, n)) \/ ToCome(p, n)
      BY <1>2, <1>7, <3>1 DEF SwapInv, SwapsLeft
    <3>3. n \in ContentsOf(txs) => n = m \/ n \in ContentsOf(txs')
      <4> SUFFICES ASSUME n \in ContentsOf(txs) PROVE n = m \/ n \in ContentsOf(txs')
        OBVIOUS
      <4>1. txs \in Seq(Nat)
        BY DEF TypeOK
      <4>2. PICK j \in DOMAIN txs : n = txs[j]
        BY DEF ContentsOf
      <4>3. j = 1 \/ (j - 1 \in DOMAIN txs' /\ txs'[j - 1] = txs[j])
        <5>1. \A q \in Seq(Nat) : q # <<>> =>
                \A i \in DOMAIN q : i = 1 \/ (i - 1 \in DOMAIN Tail(q) /\ Tail(q)[i - 1] = q[i])
          OBVIOUS
        <5> QED BY <3>1, <4>1, <5>1
      <4>4. j = 1 => n = m
        BY <4>1, <4>2
      <4> QED BY <4>2, <4>3, <4>4 DEF ContentsOf
    <3>4. n = m => Kept(SwapRow(p, n))'
      <4> SUFFICES ASSUME n = m PROVE Kept(SwapRow(p, n))'
        OBVIOUS
      <4>1. <<p, n>> \notin Unreadable
        BY DEF OldSwaps
      <4>2. Supported(ev) /\ SwapRow(p, n) \in ContentsOf(ev)
        BY <1>2, <3>1, <4>1, TxSupported
      <4>3. Pushed(ev)
        BY <3>1, <4>2, KeepsPush DEF Supported, TypeOK
      <4>4. \A r : r \in ContentsOf(ev) /\ r.type # "ohlcv_bar" => Kept(r)'
        BY <4>2, <4>3, PushedIs DEF StoreInv, TypeOK
      <4>5. SwapRow(p, n).type # "ohlcv_bar"
        BY <2>1, RowsAreShaped
      <4>6. Kept(SwapRow(p, n))' <=> SwapRow(p, n) \in rows' \/ SwapRow(p, n) \in ContentsOf(buffer')
        BY DEF Kept, ContentsOf, SwapRow, Row
      <4>7. Kept(SwapRow(p, n))' <=> SwapRow(p, n) \in rows' \/ SwapRow(p, n) \in ContentsOf(buffer)'
        BY <4>6 DEF ContentsOf
      <4> HIDE DEF ev, m
      <4> QED BY <4>2, <4>4, <4>5, <4>7 DEF Kept
    <3> QED BY <2>3, <2>4, <3>1, <3>2, <3>3, <3>4 DEF ToCome
  <2> QED BY <1>1, <2>5, <2>6, <2>7, <2>8
<1>8. ~StartPool => SwapsLeft(p)
  BY <1>1, <1>2 DEF World, Tick, CreatePool, Trade, FetchTxs, ConsumeTx, SwapInv, vars
<1> QED BY <1>3, <1>6, <1>7, <1>8

(* What is left of it when the swaps are done with.                        *)
LEMMA SwapsDoneStep ==
  ASSUME TypeOK, ScratchInv, StoreInv, SwapInv, [Next]_vars,
         PastSwaps', NEW p \in Pools, p = Current'
  PROVE  SwapsDone(p)'
<1> USE DEF world, process, reading
<1>1. \/ EndSwaps \/ SkipSwaps
      \/ PastSwaps /\ UNCHANGED <<universe, at, began, failed>>
  BY DEF PastSwaps, Next, World, Tick, CreatePool, Trade, Step, Begin, FetchListing, Examine, Walked,
     StartPool, FetchTxs, ConsumeTx, AskBars, AnswerBars, ConsumeBar, EndBars, SkipBars, FlushPool,
     Finish, Die, Running, vars
<1>2. p = Current /\ began' = began /\ failed \subseteq failed' /\ pc' # "dead"
  BY <1>1 DEF EndSwaps, SkipSwaps, Current, PastSwaps
<1>3. /\ OldSwaps(p)' = OldSwaps(p) /\ OldSwaps(p) \subseteq Nat \ {0}
      /\ (Deep(p) => Deep(p)')
  BY <1>2, OldSwapsStay
<1>4. \A n \in Nat : Kept(SwapRow(p, n)) => Kept(SwapRow(p, n))'
  BY <1>2, RowsStay
<1>5. SwapsDone(p) => SwapsDone(p)'
  <2>1. SwapsDone(p)' <=> p \in failed' \/ Deep(p)' \/ \A n \in OldSwaps(p)' : Kept(SwapRow(p, n))'
    BY DEF SwapsDone, Kept, ContentsOf, SwapRow, Row
  <2> HIDE DEF Kept
  <2> QED BY <1>2, <1>3, <1>4, <2>1 DEF SwapsDone
<1>6. CASE EndSwaps
  <2>1. TxPages \in Nat /\ page \in Nat /\ ~(page <= TxPages) /\ ContentsOf(txs) = {}
    BY <1>6, ConstantsAssumption DEF EndSwaps, ContentsOf, TypeOK
  <2>2. SwapsLeft(p)
    BY <1>2, <1>6 DEF EndSwaps, SwapInv
  <2>3. SwapsDone(p)
    BY <2>1, <2>2 DEF SwapsLeft, SwapsDone, ToCome
  <2> QED BY <1>5, <2>3
<1>7. CASE SkipSwaps
  BY <1>2, <1>7 DEF SkipSwaps, SwapsDone
<1>8. CASE PastSwaps /\ UNCHANGED <<universe, at, began, failed>>
  BY <1>2, <1>5, <1>8 DEF SwapInv
<1> QED BY <1>1, <1>6, <1>7, <1>8

LEMMA SwapStep ==
  ASSUME TypeOK, ScratchInv, StoreInv, SwapInv, [Next]_vars
  PROVE  SwapInv'
<1>1. ASSUME NEW p \in Pools, p \notin Unsplit, NEW i \in DOMAIN universe', i < at', universe'[i] = p
      PROVE  Backfilled(p)'
  BY <1>1, DurableStep
<1>2. ASSUME NEW p \in Pools, pc' = "swaps", p = Current' PROVE SwapsLeft(p)'
  BY <1>2, SwapsLeftStep
<1>3. ASSUME NEW p \in Pools, PastSwaps', p = Current' PROVE SwapsDone(p)'
  BY <1>3, SwapsDoneStep
<1> QED BY <1>1, <1>2, <1>3 DEF SwapInv

----------------------------------------------------------------------------
(* The walk.  The listing shows the chain backwards, and new pools push    *)
(* what it has not shown yet to later pages, never to earlier ones: of the *)
(* pools that were there when the run began, those past Ahead are settled. *)

Untouched == Len(chain) - (page - 1) * PageLimit
Ahead == (IF Untouched > 0 THEN Untouched ELSE 0) + Len(listing)
Entry(j) == [pool |-> chain[j], txs |-> Len(trades[chain[j]])]

Early(p) == {n \in DOMAIN trades[p] : trades[p][n] < began}
Qualifies(p) == p \notin Undated /\ createdAt[p] < began /\ Cardinality(Early(p)) >= MinTxs
Handled(p) == p \in Range(universe) \/ DayFull(p)
Settled(k) == \A j \in DOMAIN chain : j > k /\ Qualifies(chain[j]) => Handled(chain[j])

ChainInv ==
  /\ \A j, k \in DOMAIN chain : chain[j] = chain[k] => j = k
  /\ \A j, k \in DOMAIN chain : j <= k => createdAt[chain[j]] <= createdAt[chain[k]]
  /\ \A j \in DOMAIN chain : createdAt[chain[j]] <= now

WalkInv ==
  /\ \A i \in DOMAIN universe : \E k \in DOMAIN chain : universe[i] = chain[k] /\ Settled(k)
  /\ pc = "enumerate" => /\ Ahead \in 0..Len(chain) /\ Settled(Ahead)
                         /\ \A i \in DOMAIN listing : listing[i] = Entry(Ahead - i + 1)

LEMMA ChainStep ==
  ASSUME TypeOK, ChainInv, [Next]_vars
  PROVE  ChainInv'
<1>1. CASE UNCHANGED <<chain, createdAt>>
  <2>1. now' \in {now, now + 1} /\ now \in Nat
    BY DEF Next, World, Tick, CreatePool, Trade, Step, Begin, FetchListing, Examine, StartPool,
           FetchTxs, ConsumeTx, EndSwaps, SkipSwaps, AskBars, AnswerBars, ConsumeBar, EndBars,
           SkipBars, FlushPool, Finish, Die, vars, world, process, reading, TypeOK
  <2>2. \A j \in DOMAIN chain : createdAt[chain[j]] \in Nat
    BY DEF TypeOK
  <2> QED BY <1>1, <2>1, <2>2 DEF ChainInv
<1>2. ASSUME NEW p \in Pools, CreatePool(p) PROVE ChainInv'
  <2>1. /\ p \notin Range(chain) /\ chain' = Append(chain, p) /\ now' = now
        /\ createdAt' = [createdAt EXCEPT ![p] = now]
    BY <1>2 DEF CreatePool
  <2> DEFINE m == Len(chain)
  <2>2. /\ m \in Nat /\ now \in Nat /\ DOMAIN chain = 1..m /\ DOMAIN chain' = 1..(m + 1)
        /\ chain'[m + 1] = p /\ \A j \in 1..m : chain'[j] = chain[j] /\ chain[j] \in Pools
    BY <2>1 DEF TypeOK
  <2>3. \A j \in 1..m : chain[j] # p
    BY <2>1, <2>2 DEF Range
  <2>4. \A j \in 1..m : createdAt'[chain'[j]] = createdAt[chain[j]] /\ createdAt[chain[j]] \in Nat
    BY <2>1, <2>2, <2>3 DEF TypeOK
  <2>5. createdAt'[p] = now
    BY <2>1 DEF TypeOK
  <2>6. \A j \in DOMAIN chain' : j \in 1..m \/ j = m + 1
    BY <2>2
  <2> HIDE DEF m
  <2>7. \A j \in DOMAIN chain' : createdAt'[chain'[j]] <= now'
    BY <2>1, <2>2, <2>4, <2>5, <2>6 DEF ChainInv
  <2>8. \A j, k \in DOMAIN chain' : chain'[j] = chain'[k] => j = k
    BY <2>2, <2>3, <2>6 DEF ChainInv
  <2>9. \A j, k \in DOMAIN chain' : j <= k => createdAt'[chain'[j]] <= createdAt'[chain'[k]]
    <3> SUFFICES ASSUME NEW j \in DOMAIN chain', NEW k \in DOMAIN chain', j <= k
                 PROVE  createdAt'[chain'[j]] <= createdAt'[chain'[k]]
      OBVIOUS
    <3>1. CASE k = m + 1
      BY <2>1, <2>2, <2>5, <2>7, <3>1
    <3>2. CASE k # m + 1
      <4>1. k \in 1..m /\ j \in 1..m
        BY <2>2, <2>6, <3>2
      <4> QED BY <2>2, <2>4, <4>1 DEF ChainInv
    <3> QED BY <3>1, <3>2
  <2> QED BY <2>7, <2>8, <2>9 DEF ChainInv
<1>3. UNCHANGED <<chain, createdAt>> \/ \E p \in Pools : CreatePool(p)
  BY DEF Next, World, Tick, Trade, Step, Begin, FetchListing, Examine, StartPool,
         FetchTxs, ConsumeTx, EndSwaps, SkipSwaps, AskBars, AnswerBars, ConsumeBar, EndBars,
         SkipBars, FlushPool, Finish, Die, vars, world, process, reading
<1> QED BY <1>1, <1>2, <1>3

(* A universe that grows keeps what it holds, and its days only fill up.   *)
LEMMA UniverseGrows ==
  ASSUME TypeOK, TypeOK', NEW q, q \in Seq(Pools), universe' = universe \o q,
         \A i \in DOMAIN universe : createdAt'[universe[i]] = createdAt[universe[i]],
         NEW p, createdAt'[p] = createdAt[p], Handled(p)
  PROVE  Handled(p)'
<1>1. /\ universe \in Seq(Pools) /\ universe' \in Seq(Pools)
      /\ DOMAIN universe \subseteq DOMAIN universe'
      /\ \A i \in DOMAIN universe : universe'[i] = universe[i]
  <2>1. universe \in Seq(Pools) /\ universe' \in Seq(Pools)
    BY DEF TypeOK
  <2> QED BY <2>1
<1>2. p \in Range(universe) => p \in Range(universe')
  BY <1>1 DEF Range
<1>3. DayFull(p) => DayFull(p)'
  <2> DEFINE d == Day(createdAt[p])
             old == {i \in DOMAIN universe : Day(createdAt[universe[i]]) = d}
             new == {i \in DOMAIN universe' : Day(createdAt'[universe'[i]]) = d}
  <2>1. old \subseteq new
    BY <1>1
  <2>2. IsFiniteSet(new)
    <3>1. DOMAIN universe' = 1..Len(universe') /\ Len(universe') \in Nat
      BY <1>1
    <3>2. IsFiniteSet(1..Len(universe')) /\ new \subseteq 1..Len(universe')
      BY <3>1, FS_Interval
    <3> HIDE DEF new
    <3> QED BY <3>2, FS_Subset
  <2>3. Cardinality(old) <= Cardinality(new) /\ Cardinality(old) \in Nat /\ Cardinality(new) \in Nat
    BY <2>1, <2>2, FS_Subset, FS_CardinalityType
  <2>4. DayFull(p) <=> Cardinality(old) >= DayCap
    BY DEF DayFull, OfDay
  <2>5. DayFull(p)' <=> Cardinality(new) >= DayCap
    BY DEF DayFull, OfDay, Day
  <2>6. DayCap \in Nat
    BY ConstantsAssumption
  <2> HIDE DEF old, new
  <2> QED BY <2>3, <2>4, <2>5, <2>6
<1> QED BY <1>2, <1>3 DEF Handled

(* A pool of the chain that does not qualify never will in this run.       *)
LEMMA QualifiesBefore ==
  ASSUME TypeOK, ScratchInv, [Next]_vars, began' = began,
         NEW p \in Pools, createdAt'[p] = createdAt[p], Qualifies(p)'
  PROVE  Qualifies(p)
<1>1. Early(p)' = Early(p)
  <2>1. trades \in [Pools -> Seq(Nat)] /\ now \in Nat /\ began \in Nat /\ began <= now
    BY DEF TypeOK, ScratchInv
  <2>2. CASE UNCHANGED trades
    BY <2>2 DEF Early
  <2>3. ASSUME NEW q \in Pools, Trade(q) PROVE Early(p)' = Early(p)
    <3>1. \A n \in DOMAIN trades[p] : n \in DOMAIN trades'[p] /\ trades'[p][n] = trades[p][n]
      BY <2>1, <2>3 DEF Trade
    <3>2. \A n \in DOMAIN trades'[p] : n \in DOMAIN trades[p] \/ trades'[p][n] = now
      BY <2>1, <2>3 DEF Trade
    <3>3. ~(now < began)
      BY <2>1
    <3> QED BY <3>1, <3>2, <3>3 DEF Early
  <2>4. UNCHANGED trades \/ \E q \in Pools : Trade(q)
    BY DEF Next, World, Tick, CreatePool, Step, Begin, FetchListing, Examine, StartPool,
           FetchTxs, ConsumeTx, EndSwaps, SkipSwaps, AskBars, AnswerBars, ConsumeBar, EndBars,
           SkipBars, FlushPool, Finish, Die, vars, world, process, reading
  <2> QED BY <2>2, <2>3, <2>4
<1> QED BY <1>1 DEF Qualifies

(* What is settled stays settled: a pool created since does not qualify.   *)
LEMMA SettledStays ==
  ASSUME TypeOK, TypeOK', ScratchInv, ChainInv, [Next]_vars, ~Begin,
         \A i \in DOMAIN universe : universe[i] \in Range(chain),
         NEW k \in Int, Settled(k)
  PROVE  Settled(k)'
<1>1. began' = began
  BY DEF Next, World, Tick, CreatePool, Trade, Step, FetchListing, Examine, StartPool,
         FetchTxs, ConsumeTx, EndSwaps, SkipSwaps, AskBars, AnswerBars, ConsumeBar, EndBars,
         SkipBars, FlushPool, Finish, Die, vars, world, process, reading
<1>2. \E q \in Seq(Pools) : universe' = universe \o q
  <2>1. universe \in Seq(Pools)
    BY DEF TypeOK
  <2>2. CASE Examine /\ universe' # universe
    <3>1. universe' = Append(universe, Head(listing).pool) /\ Head(listing).pool \in Pools
      <4>1. universe' = Append(universe, Head(listing).pool) /\ listing # <<>>
        BY <2>2 DEF Examine
      <4>2. listing \in Seq([pool : Pools, txs : Nat])
        BY DEF TypeOK
      <4>3. Head(listing) \in [pool : Pools, txs : Nat]
        <5> DEFINE X == [pool : Pools, txs : Nat]
        <5>1. \A q \in Seq(X) : q # <<>> => Head(q) \in X
          <6> HIDE DEF X
          <6> QED OBVIOUS
        <5> QED BY <5>1, <4>1, <4>2
      <4> QED BY <4>1, <4>3
    <3>2. universe' = universe \o <<Head(listing).pool>> /\ <<Head(listing).pool>> \in Seq(Pools)
      BY <2>1, <3>1
    <3> QED BY <3>2
  <2>3. CASE universe' = universe
    <3>1. universe' = universe \o <<>> /\ <<>> \in Seq(Pools)
      BY <2>1, <2>3
    <3> QED BY <3>1
  <2>4. universe' = universe \/ Examine
    BY DEF Next, World, Tick, CreatePool, Trade, Step, FetchListing, StartPool,
           FetchTxs, ConsumeTx, EndSwaps, SkipSwaps, AskBars, AnswerBars, ConsumeBar, EndBars,
           SkipBars, FlushPool, Finish, Die, vars, world, process, reading
  <2> QED BY <2>2, <2>3, <2>4
<1>3. /\ \A p \in Range(chain) : createdAt'[p] = createdAt[p]
      /\ \A j \in DOMAIN chain' : \/ j \in DOMAIN chain /\ chain'[j] = chain[j]
                                  \/ createdAt'[chain'[j]] = now /\ chain'[j] \in Pools
  <2>1. CASE UNCHANGED <<chain, createdAt>>
    BY <2>1
  <2>2. ASSUME NEW p \in Pools, CreatePool(p)
        PROVE  /\ \A q \in Range(chain) : createdAt'[q] = createdAt[q]
               /\ \A j \in DOMAIN chain' : \/ j \in DOMAIN chain /\ chain'[j] = chain[j]
                                           \/ createdAt'[chain'[j]] = now /\ chain'[j] \in Pools
    <3>1. chain \in Seq(Pools) /\ createdAt \in [Pools -> Nat]
      BY DEF TypeOK
    <3> QED BY <2>2, <3>1 DEF CreatePool
  <2>3. UNCHANGED <<chain, createdAt>> \/ \E p \in Pools : CreatePool(p)
    BY DEF Next, World, Tick, Trade, Step, Begin, FetchListing, Examine, StartPool,
           FetchTxs, ConsumeTx, EndSwaps, SkipSwaps, AskBars, AnswerBars, ConsumeBar, EndBars,
           SkipBars, FlushPool, Finish, Die, vars, world, process, reading
  <2> QED BY <2>1, <2>2, <2>3
<1> SUFFICES ASSUME NEW j \in DOMAIN chain', NEW p, p = chain'[j], j > k, Qualifies(p)'
             PROVE  Handled(p)'
  BY DEF Settled, Qualifies, Early, Handled, DayFull, OfDay, Day
<1>4. CASE createdAt'[p] = now
  <2>1. ~(now < began) /\ now \in Nat /\ began \in Nat
    BY DEF TypeOK, ScratchInv
  <2> QED BY <1>1, <1>4, <2>1 DEF Qualifies
<1>5. CASE j \in DOMAIN chain /\ chain[j] = p
  <2>1. p \in Range(chain) /\ p \in Pools
    BY <1>5 DEF Range, TypeOK
  <2>2. Qualifies(p)
    BY <1>1, <1>3, <2>1, QualifiesBefore
  <2>3. Handled(p)
    BY <1>5, <2>2 DEF Settled
  <2>4. \A i \in DOMAIN universe : createdAt'[universe[i]] = createdAt[universe[i]]
    BY <1>3
  <2> QED BY <1>2, <1>3, <2>1, <2>3, <2>4, UniverseGrows
<1> QED BY <1>3, <1>4, <1>5

(* A page of the listing shows the pools just below those shown before.    *)
LEMMA PageShows ==
  ASSUME TypeOK, Len(listing) = 0, NewestPage(page) # <<>>, listing' = NewestPage(page),
         page' = page + 1, UNCHANGED <<chain, trades>>
  PROVE  /\ Ahead' = Ahead
         /\ \A i \in DOMAIN listing' : listing'[i] = Entry(Ahead - i + 1)
<1> DEFINE got == NewestPage(page)  L == PageLimit
<1>1. L \in Nat \ {0} /\ page \in Nat \ {0} /\ Len(chain) \in Nat
  BY ConstantsAssumption DEF TypeOK
<1>2. /\ (page - 1) * L \in Nat /\ page * L = (page - 1) * L + L /\ page * L \in Nat
      /\ (page + 1) - 1 = page
  BY <1>1, Rectangle
<1> DEFINE last == Untouched  n == Least(L, last)
<1>3. last \in Int
  BY <1>1, <1>2 DEF Untouched
<1>4. got = [i \in 1..n |-> Entry(last - i + 1)]
  BY DEF NewestPage, Untouched, Entry
<1>5. Untouched' = last - L
  <2>1. Untouched' = Len(chain) - (page' - 1) * L
    BY DEF Untouched
  <2>2. page' - 1 = page
    BY <1>2
  <2>3. Untouched' = Len(chain) - page * L
    BY <2>1, <2>2
  <2> QED BY <1>1, <1>2, <2>3 DEF Untouched
<1> HIDE DEF last
<1>6. n \in Int /\ n >= 1
  <2>1. n < 1 => got = <<>>
    <3>1. n \in Int
      BY <1>1, <1>3 DEF Least
    <3> HIDE DEF n, got
    <3>2. n < 1 => 1..n = {}
      BY <3>1
    <3> QED BY <1>4, <3>2
  <2> QED BY <1>1, <1>3, <2>1 DEF Least
<1>7. Len(got) = n /\ DOMAIN got = 1..n
  BY <1>4, <1>6
<1>8. (IF last - L > 0 THEN last - L ELSE 0) + n = last /\ last > 0
  BY <1>1, <1>3, <1>6 DEF Least
<1>9. Ahead = last
  BY <1>3, <1>8 DEF Ahead, last
<1>10. Ahead' = (IF last - L > 0 THEN last - L ELSE 0) + n
  BY <1>5, <1>7 DEF Ahead
<1> QED BY <1>4, <1>7, <1>8, <1>9, <1>10

(* A pool that qualifies is listed with enough transactions.               *)
LEMMA EarlyIsListed ==
  ASSUME TypeOK, NEW p \in Pools
  PROVE  Cardinality(Early(p)) \in Nat /\ Cardinality(Early(p)) <= Len(trades[p])
<1>1. trades[p] \in Seq(Nat) /\ Len(trades[p]) \in Nat
  BY DEF TypeOK
<1>2. Early(p) \subseteq 1..Len(trades[p])
  BY <1>1 DEF Early
<1>3. IsFiniteSet(1..Len(trades[p])) /\ Cardinality(1..Len(trades[p])) = Len(trades[p])
  BY <1>1, FS_Interval
<1> QED BY <1>2, <1>3, FS_Subset, FS_CardinalityType

LEMMA WalkStep ==
  ASSUME TypeOK, TypeOK', ScratchInv, ChainInv, WalkInv, [Next]_vars
  PROVE  WalkInv'
<1> USE DEF world, process, reading
<1>1. \A i \in DOMAIN universe : universe[i] \in Range(chain)
  BY DEF WalkInv, Range
<1>2. \A k \in Int : Settled(k) /\ ~Begin => Settled(k)'
  BY <1>1, SettledStays
<1>3. \A k \in DOMAIN chain : k \in DOMAIN chain' /\ chain'[k] = chain[k]
  <2>1. ASSUME NEW p \in Pools, CreatePool(p)
        PROVE  \A k \in DOMAIN chain : k \in DOMAIN chain' /\ chain'[k] = chain[k]
    <3>1. chain \in Seq(Pools)
      BY DEF TypeOK
    <3> QED BY <2>1, <3>1 DEF CreatePool
  <2>2. UNCHANGED chain \/ \E p \in Pools : CreatePool(p)
    BY DEF Next, World, Tick, Trade, Step, Begin, FetchListing, Examine, StartPool,
           FetchTxs, ConsumeTx, EndSwaps, SkipSwaps, AskBars, AnswerBars, ConsumeBar, EndBars,
           SkipBars, FlushPool, Finish, Die, vars
  <2> QED BY <2>1, <2>2
<1>4. /\ Len(chain) \in Nat /\ DOMAIN chain = 1..Len(chain)
      /\ Len(chain') \in Nat /\ DOMAIN chain' = 1..Len(chain')
  BY DEF TypeOK
<1>5. ASSUME ~Begin, NEW i \in DOMAIN universe
      PROVE  \E k \in DOMAIN chain' : universe[i] = chain'[k] /\ Settled(k)'
  <2>1. PICK k \in DOMAIN chain : universe[i] = chain[k] /\ Settled(k)
    BY DEF WalkInv
  <2>2. k \in Int
    BY <1>4
  <2> QED BY <1>2, <1>3, <1>5, <2>1, <2>2
<1>6. ASSUME ~Begin, UNCHANGED universe
      PROVE  \A i \in DOMAIN universe' : \E k \in DOMAIN chain' : universe'[i] = chain'[k] /\ Settled(k)'
  BY <1>5, <1>6
<1>7. CASE Begin
  <2>1. universe' = <<>> /\ listing' = <<>> /\ page' = 1 /\ chain' = chain
    BY <1>7 DEF Begin, ScratchInv, Running
  <2>2. Untouched' = Len(chain')
    <3>1. (page' - 1) * PageLimit = 0
      BY <2>1, ConstantsAssumption
    <3> QED BY <1>4, <3>1 DEF Untouched
  <2>3. Ahead' = Len(chain')
    BY <1>4, <2>1, <2>2 DEF Ahead
  <2>4. \A k : k = Len(chain') => Settled(k)'
    BY <1>4 DEF Settled
  <2>5. Settled(Ahead)'
    BY <2>3, <2>4 DEF Settled
  <2> QED BY <1>4, <2>1, <2>3, <2>5 DEF WalkInv
<1>8. CASE World \/ UNCHANGED vars
  <2>1. UNCHANGED <<pc, page, listing, universe>> /\ ~Begin
    <3>1. UNCHANGED <<pc, page, listing, universe, runs>>
      BY <1>8 DEF World, Tick, CreatePool, Trade, vars
    <3>2. runs + 1 # runs
      BY DEF TypeOK
    <3> QED BY <3>1, <3>2 DEF Begin
  <2>2. ASSUME pc = "enumerate"
        PROVE  (Ahead \in 0..Len(chain))' /\ Settled(Ahead)'
               /\ \A i \in DOMAIN listing' : listing'[i] = Entry(Ahead - i + 1)'
    <3>1. CASE UNCHANGED <<chain, trades>>
      <4>1. Ahead' = Ahead
        BY <2>1, <3>1 DEF Ahead, Untouched
      <4>2. Settled(Ahead)' <=> (\A k : k = Ahead => Settled(k)')
        BY <4>1 DEF Settled
      <4>3. Ahead \in Int /\ Settled(Ahead)
        BY <1>4, <2>2 DEF WalkInv
      <4>4. Settled(Ahead)'
        BY <1>2, <2>1, <4>2, <4>3
      <4> QED BY <2>1, <2>2, <3>1, <4>1, <4>4 DEF WalkInv, Entry
    <3>2. CASE ~UNCHANGED <<chain, trades>>
      <4>1. listing = <<>> /\ Len(chain') >= Len(chain)
        <5>1. UNCHANGED chain \/ \E p \in Pools : chain' = Append(chain, p)
          BY <1>8 DEF World, Tick, CreatePool, Trade, vars
        <5>2. \A p \in Pools : Len(Append(chain, p)) = Len(chain) + 1
          BY DEF TypeOK
        <5>3. Len(chain) + 1 >= Len(chain) /\ Len(chain) >= Len(chain)
          BY <1>4
        <5>4. Len(chain') >= Len(chain)
          <6>1. CASE UNCHANGED chain
            BY <5>3, <6>1
          <6>2. CASE \E p \in Pools : chain' = Append(chain, p)
            BY <5>2, <5>3, <6>2
          <6> QED BY <5>1, <6>1, <6>2
        <5> QED BY <1>8, <3>2, <5>4 DEF World, Tick, CreatePool, Trade, Awaiting, vars
      <4>2. (page - 1) * PageLimit \in Nat
        BY ConstantsAssumption, Rectangle DEF TypeOK
      <4>3. /\ Ahead \in Int /\ Ahead' \in 0..Len(chain') /\ Ahead' >= Ahead
        <5>1. Untouched \in Int /\ Untouched' \in Int /\ Untouched' >= Untouched /\ Untouched' <= Len(chain')
          BY <1>4, <2>1, <4>1, <4>2 DEF Untouched
        <5>2. Ahead = IF Untouched > 0 THEN Untouched ELSE 0
          BY <4>1, <5>1 DEF Ahead
        <5>3. Ahead' = IF Untouched' > 0 THEN Untouched' ELSE 0
          <6>1. Len(listing') = 0
            BY <2>1, <4>1
          <6>2. Ahead' = (IF Untouched' > 0 THEN Untouched' ELSE 0) + Len(listing')
            BY DEF Ahead
          <6>3. \A u, l \in Int : l = 0 => (IF u > 0 THEN u ELSE 0) + l = IF u > 0 THEN u ELSE 0
            OBVIOUS
          <6>4. 0 \in Int
            OBVIOUS
          <6> QED BY <5>1, <6>1, <6>2, <6>3, <6>4, Zenon
        <5> QED BY <1>4, <5>1, <5>2, <5>3
      <4>4. \A k : k = Ahead => Settled(k)'
        BY <1>2, <2>1, <2>2, <4>3 DEF WalkInv
      <4>5. Settled(Ahead)'
        BY <1>4, <4>3, <4>4 DEF Settled
      <4> QED BY <2>1, <4>1, <4>3, <4>5
    <3> QED BY <3>1, <3>2
  <2>3. \A i \in DOMAIN universe' : \E k \in DOMAIN chain' : universe'[i] = chain'[k] /\ Settled(k)'
    BY <1>6, <2>1
  <2> QED BY <2>1, <2>2, <2>3 DEF WalkInv
<1>9. CASE FetchListing
  <2>1. pc = "enumerate" /\ listing = <<>> /\ UNCHANGED <<chain, trades, universe>> /\ ~Begin
    BY <1>9 DEF FetchListing, Begin, Running
  <2>2. \A i \in DOMAIN universe' : \E k \in DOMAIN chain' : universe'[i] = chain'[k] /\ Settled(k)'
    BY <1>6, <2>1
  <2>3. CASE pc' = "enumerate"
    <3>1. NewestPage(page) # <<>> /\ listing' = NewestPage(page) /\ page' = page + 1
      BY <1>9, <2>3 DEF FetchListing
    <3>2. Ahead' = Ahead /\ \A i \in DOMAIN listing' : listing'[i] = Entry(Ahead - i + 1)
      BY <2>1, <3>1, PageShows
    <3>3. Ahead \in 0..Len(chain) /\ Settled(Ahead)
      BY <2>1 DEF WalkInv
    <3>4. \A k : k = Ahead => Settled(k)'
      BY <1>2, <1>4, <2>1, <3>3
    <3>5. Settled(Ahead)'
      BY <3>2, <3>4 DEF Settled
    <3> QED BY <2>1, <2>2, <3>2, <3>3, <3>5 DEF WalkInv, Entry
  <2> QED BY <2>2, <2>3 DEF WalkInv
<1>10. CASE Examine
  <2> DEFINE e == Head(listing)
  <2>1. /\ pc = "enumerate" /\ listing # <<>> /\ ~Begin
        /\ UNCHANGED <<chain, createdAt, trades, began>>
    BY <1>10 DEF Examine, Begin, Running
  <2>2. /\ listing \in Seq([pool : Pools, txs : Nat]) /\ Len(listing) \in Nat \ {0}
        /\ 1 \in DOMAIN listing /\ Tail(listing) \in Seq([pool : Pools, txs : Nat])
        /\ Len(Tail(listing)) = Len(listing) - 1 /\ e = listing[1]
        /\ \A i \in DOMAIN Tail(listing) : Tail(listing)[i] = listing[i + 1] /\ i + 1 \in DOMAIN listing
    <3> DEFINE X == [pool : Pools, txs : Nat]
    <3>1. listing \in Seq(X)
      BY DEF TypeOK
    <3> HIDE DEF X
    <3>2. /\ Len(listing) \in Nat \ {0} /\ 1 \in DOMAIN listing /\ Tail(listing) \in Seq(X)
          /\ Len(Tail(listing)) = Len(listing) - 1 /\ e = listing[1]
          /\ \A i \in DOMAIN Tail(listing) : Tail(listing)[i] = listing[i + 1] /\ i + 1 \in DOMAIN listing
      BY <2>1, <3>1
    <3> QED BY <3>1, <3>2 DEF X
  <2>3. /\ Ahead \in 0..Len(chain) /\ Settled(Ahead)
        /\ \A i \in DOMAIN listing : listing[i] = Entry(Ahead - i + 1)
    BY <2>1 DEF WalkInv
  <2>4. Ahead >= Len(listing) /\ Ahead \in DOMAIN chain
    <3>1. (page - 1) * PageLimit \in Nat
      BY ConstantsAssumption, Rectangle DEF TypeOK
    <3>2. Untouched \in Int
      BY <1>4, <3>1 DEF Untouched
    <3>3. Ahead >= Len(listing)
      BY <2>2, <3>2 DEF Ahead
    <3> QED BY <1>4, <2>2, <2>3, <3>3
  <2>5. PICK k : k = Ahead
    OBVIOUS
  <2>6. k \in DOMAIN chain /\ k \in Nat \ {0} /\ Settled(k) /\ Settled(k)'
    BY <1>2, <1>4, <2>1, <2>3, <2>4, <2>5
  <2> DEFINE p == chain[k]
  <2>7. p \in Pools /\ e.pool = p /\ e.txs = Len(trades[p])
    <3>1. k - 1 + 1 = k
      BY <2>6
    <3>2. e = Entry(k)
      BY <2>2, <2>3, <2>5, <3>1
    <3>3. p \in Pools
      BY <2>6 DEF TypeOK
    <3> QED BY <3>2, <3>3 DEF Entry
  <2>9. (Settled(k - 1) \/ p \in Range(universe')) => Settled(k - 1)'
    <3>1. Settled(k - 1) => Settled(k - 1)'
      <4>1. k - 1 \in Int
        BY <2>6
      <4> QED BY <1>2, <2>1, <4>1
    <3>2. ASSUME p \in Range(universe') PROVE Settled(k - 1)'
      <4>1. \A j \in DOMAIN chain' : j > k - 1 => j = k \/ j > k
        BY <1>4, <2>6
      <4>2. Handled(p)'
        BY <2>1, <3>2 DEF Handled
      <4> QED BY <2>1, <2>6, <3>2, <4>1 DEF Settled, Handled
    <3> QED BY <3>1, <3>2
  <2>10. ASSUME listing' = Tail(listing), UNCHANGED page, Settled(k - 1)'
         PROVE  /\ (Ahead \in 0..Len(chain))' /\ Settled(Ahead)'
                /\ \A i \in DOMAIN listing' : listing'[i] = Entry(Ahead - i + 1)'
    <3>1. Ahead' = k - 1
      <4>1. Untouched' = Untouched /\ Untouched \in Int
        <5>1. (page - 1) * PageLimit \in Nat
          BY ConstantsAssumption, Rectangle DEF TypeOK
        <5> QED BY <1>4, <2>1, <2>10, <5>1 DEF Untouched
      <4>2. Len(listing') = Len(listing) - 1
        BY <2>2, <2>10
      <4> QED BY <2>2, <2>5, <4>1, <4>2 DEF Ahead
    <3>2. Settled(Ahead)'
      <4>1. \A m : m = k - 1 => Settled(m)'
        BY <2>10
      <4> QED BY <3>1, <4>1 DEF Settled
    <3>3. \A i \in DOMAIN listing' : listing'[i] = Entry((k - 1) - i + 1)
      <4> SUFFICES ASSUME NEW i \in DOMAIN Tail(listing)
                   PROVE  Tail(listing)[i] = Entry((k - 1) - i + 1)
        BY <2>10
      <4>1. i \in Nat /\ Tail(listing)[i] = listing[i + 1] /\ i + 1 \in DOMAIN listing
        BY <2>2
      <4>2. listing[i + 1] = Entry(k - (i + 1) + 1)
        BY <2>3, <2>5, <4>1
      <4>3. k - (i + 1) + 1 = (k - 1) - i + 1
        BY <2>6, <4>1
      <4> QED BY <4>1, <4>2, <4>3
    <3> QED BY <1>4, <2>1, <2>6, <3>1, <3>2, <3>3 DEF Entry
  <2>11. CASE TooOld(e)
    <3>1. UNCHANGED universe /\ pc' # "enumerate"
      BY <1>10, <2>11 DEF Examine, Walked
    <3> QED BY <1>6, <2>1, <3>1 DEF WalkInv
  <2>12. CASE ~TooOld(e) /\ Skipped(e)
    <3>1. UNCHANGED <<pc, page, universe>> /\ listing' = Tail(listing)
      BY <1>10, <2>12 DEF Examine
    <3>2. Qualifies(p) => Handled(p)
      <4>1. MinTxs \in Nat /\ createdAt[p] \in Nat /\ began \in Nat /\ Len(trades[p]) \in Nat
        <5> HIDE DEF p
        <5>1. trades[p] \in Seq(Nat) /\ createdAt[p] \in Nat
          BY <2>7 DEF TypeOK
        <5>2. MinTxs \in Nat /\ began \in Nat
          BY ConstantsAssumption DEF TypeOK
        <5>3. Len(trades[p]) \in Nat
          BY <5>1
        <5> QED BY <5>1, <5>2, <5>3
      <4>2. Cardinality(Early(p)) \in Nat /\ Cardinality(Early(p)) <= Len(trades[p])
        BY <2>7, EarlyIsListed
      <4>3. Qualifies(p) => DayFull(p)
        BY <2>7, <2>12, <4>1, <4>2 DEF Skipped, Qualifies
      <4> QED BY <4>3 DEF Handled
    <3>3. Settled(k - 1)
      <4>1. \A j \in DOMAIN chain : j > k - 1 => j = k \/ j > k
        BY <1>4, <2>6
      <4> QED BY <2>6, <3>2, <4>1 DEF Settled
    <3> QED BY <1>6, <2>1, <2>9, <2>10, <3>1, <3>3 DEF WalkInv
  <2>13. CASE ~TooOld(e) /\ ~Skipped(e)
    <3>1. /\ universe' = Append(universe, p)
          /\ \/ pc' = "pools"
             \/ listing' = Tail(listing) /\ UNCHANGED <<pc, page>>
      BY <1>10, <2>7, <2>13 DEF Examine, Walked
    <3>2. /\ universe \in Seq(Pools) /\ Len(universe) \in Nat
          /\ DOMAIN universe' = 1..(Len(universe) + 1) /\ universe'[Len(universe) + 1] = p
          /\ \A i \in DOMAIN universe' : i = Len(universe) + 1 \/
               (i \in DOMAIN universe /\ universe'[i] = universe[i])
      <4>1. universe \in Seq(Pools)
        BY DEF TypeOK
      <4> HIDE DEF p
      <4> QED BY <2>7, <3>1, <4>1
    <3>3. \A i \in DOMAIN universe' : \E m \in DOMAIN chain' : universe'[i] = chain'[m] /\ Settled(m)'
      <4> SUFFICES ASSUME NEW i \in DOMAIN universe'
                   PROVE  \E m \in DOMAIN chain' : universe'[i] = chain'[m] /\ Settled(m)'
        OBVIOUS
      <4>1. CASE i = Len(universe) + 1
        BY <2>1, <2>6, <3>2, <4>1
      <4>2. CASE i \in DOMAIN universe /\ universe'[i] = universe[i]
        BY <1>5, <2>1, <4>2
      <4> QED BY <3>2, <4>1, <4>2
    <3>4. Settled(k - 1)'
      <4>1. p \in Range(universe')
        BY <3>2 DEF Range
      <4> QED BY <2>9, <4>1
    <3> QED BY <2>1, <2>10, <3>1, <3>3, <3>4 DEF WalkInv
  <2> QED BY <2>11, <2>12, <2>13
<1>11. CASE StartPool \/ FetchTxs \/ ConsumeTx \/ EndSwaps \/ SkipSwaps \/ AskBars \/ AnswerBars
            \/ (\E bar \in bars : ConsumeBar(bar)) \/ EndBars \/ SkipBars \/ FlushPool \/ Finish \/ Die
  <2>1. pc' # "enumerate" /\ UNCHANGED universe /\ ~Begin
    BY <1>11 DEF StartPool, FetchTxs, ConsumeTx, EndSwaps, SkipSwaps, AskBars, AnswerBars, ConsumeBar,
                 EndBars, SkipBars, FlushPool, Finish, Die, AfterSwaps, Begin, Running
  <2> QED BY <1>6, <2>1 DEF WalkInv
<1> QED BY <1>7, <1>8, <1>9, <1>10, <1>11 DEF Next, Step


----------------------------------------------------------------------------
IInv == TypeOK /\ ScratchInv /\ StoreInv /\ BarInv /\ SwapInv /\ ChainInv /\ WalkInv

LEMMA IInvInit == Init => IInv
<1> SUFFICES ASSUME Init PROVE IInv
  OBVIOUS
<1>1. StoreInv /\ BarInv
  BY DEF Init, StoreInv, BarInv, Closed, Ordered, ContentsOf
<1>2. SwapInv
  BY DEF Init, SwapInv, PastSwaps
<1>3. ChainInv /\ WalkInv
  BY DEF Init, ChainInv, WalkInv
<1> QED BY <1>1, <1>2, <1>3, TypeInit, ScratchInit DEF IInv

LEMMA IInvStep == IInv /\ [Next]_vars => IInv'
BY TypeStep, ScratchStep, StoreStep, BarStep, SwapStep, ChainStep, WalkStep DEF IInv

LEMMA Inductive == Spec => []IInv
<1> QED BY IInvInit, IInvStep, PTL DEF Spec

(* The backfill keeps its variables in their types (backfill.py).          *)
THEOREM TypeCorrect == Spec => []TypeOK
<1>1. IInv => TypeOK
  BY DEF IInv
<1> QED BY <1>1, Inductive, PTL

(* No row is an orphan, wherever a flush fails or the process dies: what   *)
(* is written is a prefix of an ordered buffer (backfill.py 141-183).      *)
THEOREM NoOrphans == Spec => []Linked
<1>1. IInv => Linked
  <2> SUFFICES ASSUME IInv, NEW r \in rows
               PROVE  /\ PoolRow(r.pool) \in rows
                      /\ r.type = "wallet_event" => SwapRow(r.pool, r.n) \in rows
    BY DEF Linked
  <2>1. Backing(r) \subseteq rows
    BY DEF IInv, StoreInv, Closed
  <2> QED BY <2>1 DEF Backing
<1> QED BY <1>1, Inductive, PTL

(* The pools a run is past are in the store with the swaps they had when   *)
(* it began, but for those it counts as failed and those with a history    *)
(* longer than the pages it reads, however many swaps come in while the    *)
(* pages are read, and also when the run dies (backfill.py 150-187).       *)
THEOREM PoolsAreDurable == Spec => []DurablePerPool
<1>1. IInv => DurablePerPool
  <2> SUFFICES ASSUME IInv, NEW i \in DOMAIN universe, i < at, universe[i] \notin Unsplit
               PROVE  Backfilled(universe[i])
    BY DEF DurablePerPool
  <2>1. universe[i] \in Pools
    BY DEF IInv, TypeOK
  <2> QED BY <2>1 DEF IInv, SwapInv
<1> QED BY <1>1, Inductive, PTL

(* A stored bar summarises all the swaps its period will ever have: it was *)
(* closed before the request left (geckoterminal.py 98-112).               *)
THEOREM StoredBarsAreFinal == Spec => []BarsAreFinal
<1>1. IInv => BarsAreFinal
  BY DEF IInv, BarInv, Final, BarsAreFinal
<1> QED BY <1>1, Inductive, PTL

(* A report that claims complete coverage has sampled, up to the cap of    *)
(* its day, every pool that was there and traded enough when the run began,*)
(* although new pools move the listing while it is read: what is newer     *)
(* than the oldest pool sampled has been examined (backfill.py 55-61).     *)
THEOREM CoverageIsHonest == Spec => []CoverageHonest
<1>1. IInv => CoverageHonest
  <2> SUFFICES ASSUME IInv, NEW i \in DOMAIN universe, createdAt[universe[i]] <= Start,
                      NEW p \in Range(chain) \ Undated,
                      Start < createdAt[p], createdAt[p] < began,
                      Cardinality(Early(p)) >= MinTxs
               PROVE  p \in Range(universe) \/ DayFull(p)
    BY DEF CoverageHonest, CoverageComplete, Early
  <2>1. PICK k \in DOMAIN chain : universe[i] = chain[k] /\ Settled(k)
    BY DEF IInv, WalkInv
  <2>2. PICK j \in DOMAIN chain : p = chain[j]
    BY DEF Range
  <2>3. /\ createdAt[chain[k]] \in Nat /\ createdAt[p] \in Nat
        /\ Start \in Int /\ j \in Int /\ k \in Int
    <3>1. chain \in Seq(Pools) /\ createdAt \in [Pools -> Nat] /\ began \in Nat /\ Window \in Nat
      BY ConstantsAssumption DEF IInv, TypeOK
    <3>2. chain[k] \in Pools /\ chain[j] \in Pools /\ j \in Int /\ k \in Int
      BY <3>1
    <3> QED BY <2>2, <3>1, <3>2 DEF Start
  <2>4. ~(createdAt[p] <= createdAt[chain[k]])
    BY <2>1, <2>3
  <2>5. ~(j <= k)
    BY <2>2, <2>4 DEF IInv, ChainInv
  <2>6. Qualifies(p)
    BY DEF Qualifies
  <2> QED BY <2>1, <2>2, <2>3, <2>5, <2>6 DEF Settled, Handled
<1> QED BY <1>1, Inductive, PTL
=============================================================================
