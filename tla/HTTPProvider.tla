---------------------------- MODULE HTTPProvider ----------------------------
(***************************************************************************)
(* The HTTP client every provider adapter derives from                     *)
(* (src/autocrypt/providers/base.py): get_json takes a slot of the         *)
(* provider's RateLimiter, sends the request and, while the answer is 429  *)
(* or 5xx, tries again after an exponential wait, StopAfter times in all.  *)
(*                                                                         *)
(* Time is counted in ticks of the monotonic clock.  asyncio.sleep wakes a *)
(* coroutine no earlier than asked and possibly later: the event loop may  *)
(* be busy, for instance with a synchronous write to the store.            *)
(***************************************************************************)
EXTENDS Integers, Sequences

CONSTANTS
  Callers,    \* coroutines that share one provider
  Interval,   \* min_interval, 60 / per_minute; every adapter sets a limit
  StopAfter,  \* stop_after_attempt
  Backoff,    \* [Nat -> Nat], wait_exponential after each failed attempt
  MaxClock    \* bound of the model, not of the code

ASSUME ConstantsAssumption ==
  /\ {Interval, StopAfter} \subseteq Nat \ {0} /\ MaxClock \in Nat
  /\ Backoff \in [1..StopAfter -> Nat]

VARIABLES
  clock,    \* time.monotonic()
  nextAt,   \* RateLimiter._next_at
  queue,    \* RateLimiter._lock: its holder, then the waiters in order
  readAt,   \* `now` of the lock's holder, read before it sleeps
  pc,       \* where each caller is in get_json
  attempt,  \* number of its current attempt
  wakeAt,   \* when its wait between two attempts ends
  sends     \* when each request so far was sent (history)

vars == <<clock, nextAt, queue, readAt, pc, attempt, wakeAt, sends>>

Steps == {"idle", "acquire", "locked", "sleep", "sent", "backoff"}

TypeOK ==
  /\ clock \in Nat /\ nextAt \in Nat /\ readAt \in Nat
  /\ queue \in Seq(Callers)
  /\ pc \in [Callers -> Steps]
  /\ attempt \in [Callers -> 0..StopAfter]
  /\ wakeAt \in [Callers -> Nat]
  /\ sends \in Seq(Nat)

Init ==
  /\ clock \in 0..1  \* the monotonic clock need not start where _next_at does
  /\ nextAt = 0 /\ queue = <<>> /\ readAt = 0
  /\ pc = [c \in Callers |-> "idle"]
  /\ attempt = [c \in Callers |-> 0] /\ wakeAt = [c \in Callers |-> 0]
  /\ sends = <<>>

Larger(a, b) == IF a > b THEN a ELSE b

(* c is at the head of the lock's queue.                                   *)
Holds(c) == queue # <<>> /\ Head(queue) = c

Go(c, step) == pc' = [pc EXCEPT ![c] = step]

----------------------------------------------------------------------------
Tick ==
  /\ clock < MaxClock
  /\ clock' = clock + 1
  /\ UNCHANGED <<nextAt, queue, readAt, pc, attempt, wakeAt, sends>>

(* get_json is called; or called again, by tenacity, after its wait.       *)
Request(c) ==
  /\ pc[c] = "idle"
  /\ Go(c, "acquire")
  /\ attempt' = [attempt EXCEPT ![c] = 1]
  /\ UNCHANGED <<clock, nextAt, queue, readAt, wakeAt, sends>>

Retry(c) ==
  /\ pc[c] = "backoff" /\ clock >= wakeAt[c]
  /\ Go(c, "acquire")
  /\ attempt' = [attempt EXCEPT ![c] = @ + 1]
  /\ UNCHANGED <<clock, nextAt, queue, readAt, wakeAt, sends>>

(* The request goes out as soon as the limiter lets it.                    *)
Send(c) == Go(c, "sent") /\ sends' = Append(sends, clock)

(* `async with self._lock`: asyncio.Lock serves its waiters in order.      *)
Enqueue(c) ==
  /\ pc[c] = "acquire"
  /\ Go(c, "locked")
  /\ queue' = Append(queue, c)
  /\ UNCHANGED <<clock, nextAt, readAt, attempt, wakeAt, sends>>

\* the slot after one taken is computed from the time read before the sleep
SlotAfterMutant == readAt + Interval
SlotAfter == Larger(readAt, nextAt) + Interval

(* With the lock: no wait is due, and the slot is taken at once ...        *)
TakeSlot(c) ==
  /\ pc[c] = "locked" /\ Holds(c)
  /\ nextAt <= clock
  /\ readAt' = clock /\ nextAt' = Larger(clock, nextAt) + Interval
  /\ queue' = Tail(queue)
  /\ Send(c)
  /\ UNCHANGED <<clock, attempt, wakeAt>>

(* ... or the caller sleeps until it is due, still holding the lock.       *)
Sleep(c) ==
  /\ pc[c] = "locked" /\ Holds(c)
  /\ nextAt > clock
  /\ readAt' = clock
  /\ Go(c, "sleep")
  /\ UNCHANGED <<clock, nextAt, queue, attempt, wakeAt, sends>>

\* the sleeper wakes a tick early
WakeMutant(c) ==
  /\ pc[c] = "sleep" /\ clock >= nextAt - 1
  /\ nextAt' = SlotAfter
  /\ queue' = Tail(queue)
  /\ Send(c)
  /\ UNCHANGED <<clock, readAt, attempt, wakeAt>>

Wake(c) ==
  /\ pc[c] = "sleep" /\ clock >= nextAt
  /\ nextAt' = SlotAfter
  /\ queue' = Tail(queue)
  /\ Send(c)
  /\ UNCHANGED <<clock, readAt, attempt, wakeAt>>

(* The answer: the call returns, or raises an error that is not retried.   *)
Return(c) ==
  /\ pc[c] = "sent"
  /\ Go(c, "idle")
  /\ UNCHANGED <<clock, nextAt, queue, readAt, attempt, wakeAt, sends>>

(* 429 or 5xx: RetryableHTTPError is retried, or reraised from the last    *)
(* attempt.                                                                *)
\* one attempt more than stop_after_attempt allows
TransientErrorMutant(c) ==
  /\ pc[c] = "sent"
  /\ Go(c, "backoff") /\ wakeAt' = [wakeAt EXCEPT ![c] = clock + 1]
  /\ UNCHANGED <<clock, nextAt, queue, readAt, attempt, sends>>

TransientError(c) ==
  /\ pc[c] = "sent"
  /\ IF attempt[c] < StopAfter
       THEN Go(c, "backoff") /\ wakeAt' = [wakeAt EXCEPT ![c] = clock + Backoff[attempt[c]]]
       ELSE Go(c, "idle") /\ UNCHANGED wakeAt
  /\ UNCHANGED <<clock, nextAt, queue, readAt, attempt, sends>>

Call(c) ==
  \/ Request(c) \/ Retry(c)
  \/ Enqueue(c) \/ TakeSlot(c) \/ Sleep(c) \/ Wake(c)
  \/ Return(c) \/ TransientError(c)

Next == Tick \/ \E c \in Callers : Call(c)

Spec == Init /\ [][Next]_vars

----------------------------------------------------------------------------
(* The k-th request leaves no sooner than k-1 intervals after the first:   *)
(* over a run the provider's per-minute ceiling is kept, retries included, *)
(* however late the sleepers wake (RateLimiter 29-30).                     *)
NeverAhead ==
  \A j \in 1..Len(sends) : sends[j] >= sends[1] + (j - 1) * Interval

(* Late sleepers can bunch two requests and no more: n + 1 requests in a   *)
(* row span n - 1 intervals.                                               *)
NearlySpaced ==
  \A i, j \in 1..Len(sends) : i < j => sends[j] - sends[i] >= (j - i - 1) * Interval

(* "we stay strictly under it by spacing calls at least 60/per_minute      *)
(* seconds apart" (RateLimiter 29-30).                                     *)
Spaced ==
  \A i \in 1..(Len(sends) - 1) : sends[i + 1] - sends[i] >= Interval
=============================================================================
