------------------------- MODULE HTTPProviderProofs -------------------------
(***************************************************************************)
(* Proofs about HTTPProvider, for any number of callers, any interval and  *)
(* any lateness of the sleepers.                                           *)
(***************************************************************************)
EXTENDS HTTPProvider, TLAPS

(* A call under way has made an attempt, and one that waits has one left.  *)
AttemptInv ==
  \A c \in Callers : /\ pc[c] # "idle" => attempt[c] >= 1
                     /\ pc[c] = "backoff" => attempt[c] < StopAfter

(* A sleeper holds the lock and had read a time before its slot.           *)
SleepInv == \A c \in Callers : pc[c] = "sleep" => Holds(c) /\ readAt < nextAt

Asleep == \E c \in Callers : pc[c] = "sleep"

(* The slot the next request will be given: the one on offer, or a later   *)
(* time if nobody sleeps for it.                                           *)
Due == IF Asleep THEN nextAt ELSE Larger(clock, nextAt)

(* The slots past the k-th request have been given one interval apart.     *)
SlotInv ==
  /\ \A k \in 1..Len(sends) : sends[k] <= clock
  /\ \A k \in 1..Len(sends) : Due >= sends[k] + (Len(sends) - k) * Interval
  /\ IF sends = <<>> THEN nextAt = 0 ELSE nextAt >= sends[1] + Len(sends) * Interval

IInv == TypeOK /\ AttemptInv /\ SleepInv /\ SlotInv /\ NeverAhead /\ NearlySpaced

----------------------------------------------------------------------------
(* Types.                                                                  *)

LEMMA TypeInit == Init => TypeOK /\ AttemptInv
BY ConstantsAssumption DEF Init, TypeOK, AttemptInv, Steps

LEMMA TypeStep == TypeOK /\ AttemptInv /\ [Next]_vars => (TypeOK /\ AttemptInv)'
<1> SUFFICES ASSUME TypeOK, AttemptInv, [Next]_vars PROVE (TypeOK /\ AttemptInv)'
  OBVIOUS
<1> USE ConstantsAssumption
<1>1. CASE Tick
  BY <1>1 DEF Tick, TypeOK, AttemptInv
<1>2. ASSUME NEW c \in Callers, Request(c) PROVE (TypeOK /\ AttemptInv)'
  BY <1>2 DEF Request, Go, TypeOK, AttemptInv, Steps
<1>3. ASSUME NEW c \in Callers, Retry(c) PROVE (TypeOK /\ AttemptInv)'
  BY <1>3 DEF Retry, Go, TypeOK, AttemptInv, Steps
<1>4. ASSUME NEW c \in Callers, Enqueue(c) PROVE (TypeOK /\ AttemptInv)'
  BY <1>4 DEF Enqueue, Go, TypeOK, AttemptInv, Steps
<1>5. ASSUME NEW c \in Callers, TakeSlot(c) PROVE (TypeOK /\ AttemptInv)'
  BY <1>5 DEF TakeSlot, Holds, Send, Go, Larger, TypeOK, AttemptInv, Steps
<1>6. ASSUME NEW c \in Callers, Sleep(c) PROVE (TypeOK /\ AttemptInv)'
  BY <1>6 DEF Sleep, Go, TypeOK, AttemptInv, Steps
<1>7. ASSUME NEW c \in Callers, Wake(c) PROVE (TypeOK /\ AttemptInv)'
  <2>1. CASE queue # <<>>
    BY <1>7, <2>1 DEF Wake, SlotAfter, Send, Go, Larger, TypeOK, AttemptInv, Steps
  <2>2. CASE queue = <<>>
    BY <1>7, <2>2 DEF Wake, SlotAfter, Send, Go, Larger, TypeOK, AttemptInv, Steps
  <2> QED BY <2>1, <2>2
<1>8. ASSUME NEW c \in Callers, Return(c) PROVE (TypeOK /\ AttemptInv)'
  BY <1>8 DEF Return, Go, TypeOK, AttemptInv, Steps
<1>9. ASSUME NEW c \in Callers, TransientError(c) PROVE (TypeOK /\ AttemptInv)'
  <2>1. CASE attempt[c] < StopAfter
    <3>1. attempt[c] \in 1..StopAfter /\ Backoff[attempt[c]] \in Nat
      BY <1>9 DEF TransientError, TypeOK, AttemptInv
    <3> DEFINE until == clock + Backoff[attempt[c]]
    <3>2. until \in Nat
      BY <3>1 DEF TypeOK
    <3>3. /\ pc[c] = "sent" /\ pc' = [pc EXCEPT ![c] = "backoff"]
          /\ wakeAt' = [wakeAt EXCEPT ![c] = until]
          /\ UNCHANGED <<clock, nextAt, queue, readAt, attempt, sends>>
      BY <1>9, <2>1 DEF TransientError, Go
    <3> HIDE DEF until
    <3>4. TypeOK'
      BY <3>2, <3>3 DEF TypeOK, Steps
    <3>5. AttemptInv'
      BY <3>3, <2>1 DEF AttemptInv, TypeOK
    <3> QED BY <3>4, <3>5
  <2>2. CASE ~(attempt[c] < StopAfter)
    BY <1>9, <2>2 DEF TransientError, Go, TypeOK, AttemptInv, Steps
  <2> QED BY <2>1, <2>2
<1>10. CASE UNCHANGED vars
  BY <1>10 DEF vars, TypeOK, AttemptInv
<1> QED
  BY <1>1, <1>2, <1>3, <1>4, <1>5, <1>6, <1>7, <1>8, <1>9, <1>10 DEF Next, Call

(* Every state of the client is well-typed; no call makes more than        *)
(* StopAfter attempts (TypeOK).                                            *)
THEOREM TypeCorrect == Spec => []TypeOK
<1>1. TypeOK /\ AttemptInv => TypeOK
  OBVIOUS
<1> QED BY <1>1, TypeInit, TypeStep, PTL DEF Spec

----------------------------------------------------------------------------
(* Pacing.                                                                 *)

(* Only the lock's holder can be asleep.                                   *)
LEMMA OneSleeper ==
  ASSUME SleepInv, NEW c \in Callers, NEW d \in Callers, Holds(c), pc[d] = "sleep"
  PROVE  d = c
BY DEF SleepInv, Holds

(* Arithmetic on multiples of the interval.                                *)
LEMMA Spans ==
  /\ Interval \in Nat
  /\ \A k \in Int : k * Interval \in Int /\ (k + 1) * Interval = k * Interval + Interval
  /\ 1 * Interval = Interval /\ 0 * Interval = 0
<1>1. Interval \in Nat
  BY ConstantsAssumption
<1>2. \A k \in Int, i \in Nat : k * i \in Int /\ (k + 1) * i = k * i + i /\ 1 * i = i /\ 0 * i = 0
  OBVIOUS
<1> QED BY <1>1, <1>2

(* A request that leaves at its slot or later, after which the next slot   *)
(* is an interval past this one, keeps the pace: Interval is abstracted to *)
(* the function at of the multiples.                                       *)
LEMMA SendKeepsPace ==
  ASSUME TypeOK, SlotInv, NeverAhead, NearlySpaced,
         clock' = clock, sends' = Append(sends, clock),
         clock >= nextAt, Due <= clock, nextAt' \in Nat,
         nextAt' >= Due + Interval, nextAt' >= nextAt + Interval,
         sends = <<>> => nextAt' >= clock + Interval,
         Due' = Larger(clock, nextAt')
  PROVE  SlotInv' /\ NeverAhead' /\ NearlySpaced'
<1> DEFINE n == Len(sends)
<1>1. /\ n \in Nat /\ clock \in Nat /\ nextAt \in Nat /\ Interval \in Nat
      /\ Len(sends') = n + 1 /\ sends'[n + 1] = clock
      /\ \A k \in 1..n : sends'[k] = sends[k] /\ sends[k] \in Nat
  BY ConstantsAssumption DEF TypeOK
<1>2. \A k \in 1..(n + 1) : k \in 1..n \/ k = n + 1
  BY <1>1
<1>3. \A k \in 1..(n + 1) : sends'[k] <= clock
  BY <1>1, <1>2 DEF SlotInv
<1>4. /\ \A k \in 1..n : (n - k) * Interval \in Int
      /\ \A k \in 1..n : (n + 1 - k) * Interval = (n - k) * Interval + Interval
      /\ n * Interval \in Int /\ (n + 1) * Interval = n * Interval + Interval
      /\ 0 * Interval = 0
  <2>1. \A k \in 1..n : n - k \in Int /\ n + 1 - k = (n - k) + 1
    BY <1>1
  <2> QED BY <1>1, <2>1, Spans
<1>5. \A k \in 1..n : clock >= sends[k] + (n - k) * Interval
                      /\ nextAt' >= sends[k] + (n + 1 - k) * Interval
  <2> TAKE k \in 1..n
  <2> DEFINE x == (n - k) * Interval
  <2>1. x \in Int /\ (n + 1 - k) * Interval = x + Interval
    BY <1>4
  <2>2. Due >= sends[k] + x
    BY DEF SlotInv
  <2>3. Due \in Nat
    BY <1>1 DEF Due, Larger
  <2> HIDE DEF x
  <2>4. clock >= sends[k] + x /\ nextAt' >= sends[k] + (x + Interval)
    BY <1>1, <2>1, <2>2, <2>3
  <2> QED BY <2>1, <2>4 DEF x
<1>6. \A k \in 1..(n + 1) : Due' >= sends'[k] + (n + 1 - k) * Interval
  <2>1. Due' >= clock /\ Due' >= nextAt' /\ Due' \in Nat
    BY <1>1 DEF Larger
  <2>2. \A k \in 1..n : Due' >= sends[k] + (n + 1 - k) * Interval
    <3> TAKE k \in 1..n
    <3> DEFINE y == (n + 1 - k) * Interval
    <3>1. y \in Int /\ nextAt' >= sends[k] + y /\ sends[k] \in Nat
      BY <1>1, <1>4, <1>5
    <3> HIDE DEF y
    <3>2. Due' >= sends[k] + y
      BY <2>1, <3>1
    <3> QED BY <3>2 DEF y
  <2>3. n + 1 - (n + 1) = 0
    BY <1>1
  <2>4. Due' >= sends'[n + 1] + (n + 1 - (n + 1)) * Interval
    BY <1>1, <1>4, <2>1, <2>3
  <2> QED BY <1>1, <1>2, <2>2, <2>4
<1>7. sends' # <<>> /\ nextAt' >= sends'[1] + (n + 1) * Interval
  <2> DEFINE z == n * Interval
  <2>1. z \in Int /\ (n + 1) * Interval = z + Interval
    BY <1>4
  <2>2. CASE n = 0
    <3>1. sends = <<>> /\ sends'[1] = clock /\ z = 0
      BY <1>1, <1>4, <2>2 DEF TypeOK
    <3> QED BY <1>1, <2>1, <3>1
  <2>3. CASE n > 0
    <3>1. sends # <<>> /\ sends'[1] = sends[1] /\ sends[1] \in Nat
      BY <1>1, <2>3
    <3>2. nextAt >= sends[1] + z
      BY <3>1 DEF SlotInv
    <3> HIDE DEF z
    <3>3. nextAt' >= sends[1] + (z + Interval)
      BY <1>1, <2>1, <3>1, <3>2
    <3> QED BY <1>1, <2>1, <3>1, <3>3
  <2> QED BY <1>1, <2>2, <2>3
<1>8. SlotInv'
  BY <1>1, <1>3, <1>6, <1>7 DEF SlotInv
<1>9. NeverAhead'
  <2>1. \A j \in 1..n : sends'[j] >= sends'[1] + (j - 1) * Interval
    BY <1>1 DEF NeverAhead
  <2>2. sends'[n + 1] >= sends'[1] + (n + 1 - 1) * Interval
    <3>1. n + 1 - 1 = n
      BY <1>1
    <3>2. CASE n = 0
      BY <1>1, <1>4, <3>1, <3>2
    <3>3. CASE n > 0
      <4> DEFINE z == n * Interval
      <4>1. sends # <<>> /\ sends'[1] = sends[1] /\ sends[1] \in Nat /\ z \in Int
        BY <1>1, <1>4, <3>3
      <4>2. nextAt >= sends[1] + z
        BY <4>1 DEF SlotInv
      <4> HIDE DEF z
      <4>3. clock >= sends[1] + z
        BY <1>1, <4>1, <4>2
      <4> QED BY <1>1, <3>1, <4>1, <4>3 DEF z
    <3> QED BY <1>1, <3>2, <3>3
  <2>3. \A j \in 1..(n + 1) : sends'[j] >= sends'[1] + (j - 1) * Interval
    BY <1>2, <2>1, <2>2
  <2> HIDE DEF n
  <2> QED BY <1>1, <2>3 DEF NeverAhead
<1>10. NearlySpaced'
  <2>1. \A i, j \in 1..n : i < j => sends'[j] - sends'[i] >= (j - i - 1) * Interval
    BY <1>1 DEF NearlySpaced
  <2>2. ASSUME NEW i \in 1..n
        PROVE  sends'[n + 1] - sends'[i] >= (n + 1 - i - 1) * Interval
    <3> DEFINE x == (n - i) * Interval
    <3>1. n + 1 - i - 1 = n - i /\ x \in Int /\ sends'[i] = sends[i] /\ sends[i] \in Nat
      BY <1>1, <1>4
    <3>2. clock >= sends[i] + x
      BY <1>5
    <3> HIDE DEF x
    <3>3. clock - sends[i] >= x
      BY <1>1, <3>1, <3>2
    <3> QED BY <1>1, <3>1, <3>3 DEF x
  <2>3. ASSUME NEW i \in 1..(n + 1), NEW j \in 1..(n + 1), i < j
        PROVE  sends'[j] - sends'[i] >= (j - i - 1) * Interval
    <3>1. i \in 1..n /\ (j \in 1..n \/ j = n + 1)
      BY <1>1, <2>3
    <3>2. CASE j \in 1..n
      BY <2>1, <2>3, <3>1, <3>2
    <3>3. CASE j = n + 1
      BY <2>2, <3>1, <3>3
    <3> QED BY <3>1, <3>2, <3>3
  <2> HIDE DEF n
  <2> QED BY <1>1, <2>3 DEF NearlySpaced
<1> QED BY <1>8, <1>9, <1>10

(* A step that sends nothing and brings no slot forward keeps the pace.    *)
LEMMA NoSendKeepsPace ==
  ASSUME TypeOK, SlotInv, NeverAhead, NearlySpaced,
         sends' = sends, nextAt' = nextAt, clock' \in Nat, clock' >= clock,
         Due' \in Nat, Due' >= Due
  PROVE  SlotInv' /\ NeverAhead' /\ NearlySpaced'
<1>1. \A k \in 1..Len(sends) : sends[k] \in Nat /\ (Len(sends) - k) * Interval \in Int
  <2> SUFFICES ASSUME NEW k \in 1..Len(sends)
               PROVE  sends[k] \in Nat /\ (Len(sends) - k) * Interval \in Int
    OBVIOUS
  <2>1. Len(sends) - k \in Int /\ sends[k] \in Nat
    BY DEF TypeOK
  <2> QED BY <2>1, Spans
<1>2. \A k \in 1..Len(sends) : sends[k] <= clock'
  BY <1>1 DEF SlotInv, TypeOK
<1>3. \A k \in 1..Len(sends) : Due' >= sends[k] + (Len(sends) - k) * Interval
  <2> SUFFICES ASSUME NEW k \in 1..Len(sends)
               PROVE  Due' >= sends[k] + (Len(sends) - k) * Interval
    OBVIOUS
  <2> DEFINE x == (Len(sends) - k) * Interval
  <2>1. x \in Int /\ sends[k] \in Nat
    BY <1>1
  <2>2. Due >= sends[k] + x
    BY DEF SlotInv
  <2>3. Due \in Nat
    BY DEF Due, Larger, TypeOK
  <2> HIDE DEF x
  <2>4. Due' >= sends[k] + x
    BY <2>1, <2>2, <2>3
  <2> QED BY <2>4 DEF x
<1>4. SlotInv'
  BY <1>2, <1>3 DEF SlotInv
<1>5. NeverAhead' /\ NearlySpaced'
  BY DEF NeverAhead, NearlySpaced
<1> QED BY <1>4, <1>5

(* While the caller is not, and does not go, to sleep, the slot on offer   *)
(* stays where it is.                                                      *)
LEMMA DueKept ==
  ASSUME TypeOK, NEW c \in Callers, NEW step \in Steps \ {"sleep"},
         pc[c] # "sleep", Go(c, step), clock' = clock, nextAt' = nextAt
  PROVE  Due' = Due /\ Due \in Nat
<1>1. \A d \in Callers : pc'[d] = "sleep" <=> pc[d] = "sleep"
  BY DEF Go, TypeOK
<1>2. Asleep' <=> Asleep
  BY <1>1 DEF Asleep
<1>3. Due \in Nat
  BY DEF Due, Larger, TypeOK
<1> QED BY <1>2, <1>3 DEF Due, Larger

LEMMA StepKeepsPace ==
  IInv /\ [Next]_vars => (SleepInv /\ SlotInv /\ NeverAhead /\ NearlySpaced)'
<1> SUFFICES ASSUME TypeOK, AttemptInv, SleepInv, SlotInv, NeverAhead, NearlySpaced,
                    [Next]_vars
             PROVE  (SleepInv /\ SlotInv /\ NeverAhead /\ NearlySpaced)'
  BY DEF IInv
<1> DEFINE Goal == (SleepInv /\ SlotInv /\ NeverAhead /\ NearlySpaced)'
<1>0. /\ clock \in Nat /\ nextAt \in Nat /\ readAt \in Nat /\ Interval \in Nat
      /\ Due \in Nat
  BY ConstantsAssumption DEF TypeOK, Due, Larger
<1>1. CASE Tick
  <2>1. SleepInv'
    BY <1>1 DEF Tick, SleepInv, Holds
  <2>2. Due' \in Nat /\ Due' >= Due /\ clock' \in Nat /\ clock' >= clock
    BY <1>0, <1>1 DEF Tick, Due, Asleep, Larger
  <2>3. sends' = sends /\ nextAt' = nextAt
    BY <1>1 DEF Tick
  <2> QED BY <2>1, <2>2, <2>3, NoSendKeepsPace
<1>2. ASSUME NEW c \in Callers, NEW step \in Steps \ {"sleep"},
             pc[c] # "sleep", Go(c, step),
             UNCHANGED <<clock, nextAt, readAt, sends>>,
             queue' = queue \/ queue' = Append(queue, c)
      PROVE  Goal
  <2>1. SleepInv'
    <3> SUFFICES ASSUME NEW d \in Callers, pc'[d] = "sleep"
                 PROVE  (Holds(d) /\ readAt < nextAt)'
      BY DEF SleepInv
    <3>1. pc[d] = "sleep"
      BY <1>2 DEF Go, TypeOK
    <3>2. Holds(d) /\ readAt < nextAt
      BY <3>1 DEF SleepInv
    <3>3. Holds(d)'
      <4>1. queue \in Seq(Callers) /\ queue # <<>> /\ Head(queue) = d
        BY <3>2 DEF Holds, TypeOK
      <4>2. Append(queue, c) # <<>> /\ Head(Append(queue, c)) = d
        BY <4>1
      <4> QED BY <1>2, <4>1, <4>2 DEF Holds
    <3> QED BY <1>2, <3>2, <3>3
  <2>2. Due' = Due /\ Due \in Nat
    BY <1>2, DueKept
  <2>3. Due' >= Due /\ clock' = clock /\ clock >= clock
    BY <1>0, <1>2, <2>2
  <2> QED BY <1>0, <1>2, <2>1, <2>2, <2>3, NoSendKeepsPace
<1>3. ASSUME NEW c \in Callers, TakeSlot(c) PROVE Goal
  <2>1. ~Asleep
    BY <1>3, OneSleeper DEF TakeSlot, Asleep
  <2>2. \A d \in Callers : pc'[d] # "sleep"
    BY <1>3, <2>1 DEF TakeSlot, Send, Go, Asleep, TypeOK
  <2>3. SleepInv' /\ ~Asleep'
    BY <2>2 DEF SleepInv, Asleep
  <2>4. Due = clock /\ nextAt' = clock + Interval
    BY <1>0, <1>3, <2>1 DEF TakeSlot, Due, Larger
  <2>5. /\ clock' = clock /\ sends' = Append(sends, clock) /\ nextAt <= clock
    BY <1>3 DEF TakeSlot, Send
  <2>6. Due' = Larger(clock, nextAt')
    BY <2>3, <2>5 DEF Due, Larger
  <2>7. /\ clock >= nextAt /\ Due <= clock /\ nextAt' \in Nat
        /\ nextAt' >= Due + Interval /\ nextAt' >= nextAt + Interval
        /\ nextAt' >= clock + Interval
    BY <1>0, <2>4, <2>5
  <2> QED BY <2>3, <2>5, <2>6, <2>7, SendKeepsPace
<1>4. ASSUME NEW c \in Callers, Sleep(c) PROVE Goal
  <2>1. SleepInv'
    <3> SUFFICES ASSUME NEW d \in Callers, pc'[d] = "sleep"
                 PROVE  (Holds(d) /\ readAt < nextAt)'
      BY DEF SleepInv
    <3>1. d = c
      <4>1. CASE pc[d] = "sleep"
        BY <1>4, <4>1, OneSleeper DEF Sleep
      <4>2. CASE pc[d] # "sleep"
        BY <1>4, <4>2 DEF Sleep, Go, TypeOK
      <4> QED BY <4>1, <4>2
    <3> QED BY <1>0, <1>4, <3>1 DEF Sleep, Holds
  <2>2. Asleep'
    BY <1>4 DEF Sleep, Go, Asleep, TypeOK
  <2>3. Due' = Due
    BY <1>0, <1>4, <2>2 DEF Sleep, Due, Larger
  <2>4. sends' = sends /\ nextAt' = nextAt /\ clock' = clock /\ clock >= clock /\ Due >= Due
    BY <1>0, <1>4 DEF Sleep
  <2> QED BY <1>0, <2>1, <2>3, <2>4, NoSendKeepsPace
<1>5. ASSUME NEW c \in Callers, Wake(c) PROVE Goal
  <2>1. Holds(c) /\ readAt < nextAt /\ Asleep
    BY <1>5 DEF Wake, SleepInv, Asleep
  <2>2. \A d \in Callers : pc'[d] # "sleep"
    BY <1>5, <2>1, OneSleeper DEF Wake, Send, Go, TypeOK
  <2>3. SleepInv' /\ ~Asleep'
    BY <2>2 DEF SleepInv, Asleep
  <2>4. Due = nextAt /\ nextAt' = nextAt + Interval
    BY <1>0, <1>5, <2>1 DEF Wake, SlotAfter, Due, Larger
  <2>5. clock' = clock /\ sends' = Append(sends, clock) /\ clock >= nextAt
    BY <1>5 DEF Wake, Send
  <2>6. Due' = Larger(clock, nextAt')
    BY <2>3, <2>5 DEF Due, Larger
  <2>7. sends # <<>>
    BY <1>0, <2>1 DEF SlotInv
  <2>8. /\ Due <= clock /\ nextAt' \in Nat
        /\ nextAt' >= Due + Interval /\ nextAt' >= nextAt + Interval
    BY <1>0, <2>4, <2>5
  <2> QED BY <2>3, <2>5, <2>6, <2>7, <2>8, SendKeepsPace
<1>6. CASE UNCHANGED vars
  <2>1. SleepInv' /\ Due' = Due
    BY <1>6 DEF vars, SleepInv, Holds, Due, Asleep, Larger
  <2> QED BY <1>0, <1>6, <2>1, NoSendKeepsPace DEF vars
<1>7. ASSUME NEW c \in Callers, Request(c) PROVE Goal
  BY <1>2, <1>7 DEF Request, Steps
<1>8. ASSUME NEW c \in Callers, Retry(c) PROVE Goal
  BY <1>2, <1>8 DEF Retry, Steps
<1>9. ASSUME NEW c \in Callers, Enqueue(c) PROVE Goal
  BY <1>2, <1>9 DEF Enqueue, Steps
<1>10. ASSUME NEW c \in Callers, Return(c) PROVE Goal
  BY <1>2, <1>10 DEF Return, Steps
<1>11. ASSUME NEW c \in Callers, TransientError(c) PROVE Goal
  BY <1>2, <1>11 DEF TransientError, Steps
<1> QED
  BY <1>1, <1>3, <1>4, <1>5, <1>6, <1>7, <1>8, <1>9, <1>10, <1>11 DEF Next, Call

LEMMA InvInit == Init => IInv
<1> SUFFICES ASSUME Init PROVE IInv
  OBVIOUS
<1>1. TypeOK /\ AttemptInv
  BY TypeInit
<1>2. SleepInv /\ SlotInv /\ NeverAhead /\ NearlySpaced
  BY DEF Init, SleepInv, SlotInv, NeverAhead, NearlySpaced
<1> QED BY <1>1, <1>2 DEF IInv

LEMMA InvStep == IInv /\ [Next]_vars => IInv'
BY TypeStep, StepKeepsPace DEF IInv

(* No provider is ever ahead of its per-minute ceiling: the k-th request   *)
(* leaves at least k - 1 intervals after the first, whatever the callers,  *)
(* the retries and the lateness of the sleepers (NeverAhead).              *)
THEOREM CeilingKept == Spec => []NeverAhead
<1>1. IInv => NeverAhead
  BY DEF IInv
<1> QED BY <1>1, InvInit, InvStep, PTL DEF Spec

(* Any n + 1 requests in a row span n - 1 intervals (NearlySpaced): the    *)
(* most that is left of the spacing when sleepers wake late.               *)
THEOREM BurstsBounded == Spec => []NearlySpaced
<1>1. IInv => NearlySpaced
  BY DEF IInv
<1> QED BY <1>1, InvInit, InvStep, PTL DEF Spec
=============================================================================
