---------------------------- MODULE TokenBucket ----------------------------
(***************************************************************************)
(* One TokenBucket object and the threads that call it, at the grain of    *)
(* its atomic accesses (core/scheduler/token_bucket.cpp).                  *)
(*                                                                         *)
(* mutex_ covers update_tokens, reset and set_burst_size.  The consumption *)
(* itself (a load and a compare-and-swap loop) runs outside it, so it can  *)
(* fall between the load and the store of another thread's refill.         *)
(*                                                                         *)
(* `serialised' says how the object is used.  TRUE: a call begins only     *)
(* when no other is under way, as FlowScheduler::mutex_ ensures for every  *)
(* call in the program.  FALSE: the callers the class comment allows for.  *)
(*                                                                         *)
(* Adjacent accesses are one step when no other thread can tell them       *)
(* apart: `last' and `burst' are only read with mutex_ held, and a         *)
(* consumption does not read the clock.                                    *)
(***************************************************************************)
EXTENDS TokenBucketOps

CONSTANTS
  Threads,      \* callers of the object
  NoThread,     \* owner of a free mutex
  Rates,        \* the values set_rate and the constructor are given
  Bursts,       \* the values set_burst_size and the constructor are given
  MaxRate,      \* the largest rate
  Requests,     \* the values try_consume is given
  Disciplines,  \* may the callers exclude one another, may they not?
  MaxTime       \* bound: the clock stops here

ASSUME ThreadAssumption == NoThread \notin Threads
ASSUME RateAssumption ==
  /\ Rates \subseteq Nat
  /\ MaxRate \in Nat
  /\ \A r \in Rates : r <= MaxRate
ASSUME BurstAssumption == Bursts \subseteq Nat
ASSUME RequestAssumption == Requests \subseteq Nat
ASSUME DisciplineAssumption == Disciplines \subseteq BOOLEAN
ASSUME TimeAssumption == MaxTime \in Nat

VARIABLES
  serialised,                 \* how this object is used, for good
  rate, burst, tokens, last,  \* rate_pps_, burst_size_, tokens_, last_update_ns_
  owner,                      \* the thread that holds mutex_
  due, stamp,                 \* its tokens_to_add and now_ns
  pc,                         \* where each thread is
  want,                       \* try_consume's argument
  seen,                       \* the value of tokens_ a thread loaded
  clock,
  granted,                    \* history: tokens handed out since the last reset
  base,                       \* history: the tokens that reset left
  resetAt                     \* history: when it happened

atomics == <<rate, burst, tokens, last>>
mutex   == <<owner, due, stamp>>
calls   == <<pc, want, seen>>
past    == <<granted, base, resetAt>>
vars    == <<serialised, atomics, mutex, calls, clock, past>>

Places == {"idle", "update", "refill", "load", "cas", "clamp"}

Init ==
  /\ serialised \in Disciplines
  /\ rate \in Rates
  /\ burst \in Bursts
  /\ tokens = burst
  /\ last = 0
  /\ owner = NoThread /\ due = 0 /\ stamp = 0
  /\ pc = [t \in Threads |-> "idle"]
  /\ want = [t \in Threads |-> 0]
  /\ seen = [t \in Threads |-> 0]
  /\ clock = 0
  /\ granted = 0
  /\ base = burst
  /\ resetAt = 0

\* What the caller's own lock allows.
MayCall(t) ==
  /\ pc[t] = "idle"
  /\ serialised => \A u \in Threads : pc[u] = "idle"

Goto(t, place) == pc' = [pc EXCEPT ![t] = place]

\* A call ends; what its locals held is of no use to the next one.
Return(t) ==
  /\ Goto(t, "idle")
  /\ want' = [want EXCEPT ![t] = 0]
  /\ seen' = [seen EXCEPT ![t] = 0]

Unlock == owner' = NoThread /\ due' = 0 /\ stamp' = 0

-----------------------------------------------------------------------------
CallTryConsume(t, n) ==
  /\ MayCall(t)
  /\ Goto(t, "update")
  /\ want' = [want EXCEPT ![t] = n]
  /\ UNCHANGED <<serialised, atomics, mutex, seen, clock, past>>

\* update_tokens up to the load of tokens_; with nothing due it is over.
RefillIsDue == clock > last /\ rate > 0 /\ TokensDue(rate, clock - last) > 0

SkipRefill(t) ==
  /\ pc[t] = "update" /\ owner = NoThread
  /\ ~RefillIsDue
  /\ last' = IF clock > last /\ rate = 0 THEN clock ELSE last
  /\ Goto(t, "load")
  /\ UNCHANGED <<serialised, rate, burst, tokens, mutex, want, seen, clock, past>>

BeginRefill(t) ==
  /\ pc[t] = "update" /\ owner = NoThread
  /\ RefillIsDue
  /\ owner' = t
  /\ due' = TokensDue(rate, clock - last)
  /\ stamp' = clock
  /\ seen' = [seen EXCEPT ![t] = tokens]
  /\ Goto(t, "refill")
  /\ UNCHANGED <<serialised, atomics, want, clock, past>>

\* Mutant: the store of last_update_ns_ is missing.
StoreTokensOnly(t) ==
  /\ pc[t] = "refill"
  /\ tokens' = ToppedUp(seen[t], due, burst)
  /\ Unlock
  /\ seen' = [seen EXCEPT ![t] = 0]
  /\ Goto(t, "load")
  /\ UNCHANGED <<serialised, rate, burst, last, want, clock, past>>

\* The stores that end update_tokens, computed from the value loaded before.
StoreRefill(t) ==
  /\ pc[t] = "refill"
  /\ tokens' = ToppedUp(seen[t], due, burst)
  /\ last' = stamp
  /\ Unlock
  /\ seen' = [seen EXCEPT ![t] = 0]
  /\ Goto(t, "load")
  /\ UNCHANGED <<serialised, rate, burst, want, clock, past>>

\* The load of tokens_ after update_tokens: an empty bucket returns 0.
LoadTokens(t) ==
  /\ pc[t] = "load"
  /\ IF tokens = 0
     THEN Return(t)
     ELSE /\ seen' = [seen EXCEPT ![t] = tokens]
          /\ Goto(t, "cas")
          /\ UNCHANGED want
  /\ UNCHANGED <<serialised, atomics, mutex, clock, past>>

\* Mutant: the request is not limited to what the bucket holds.
TakeAll(t) ==
  /\ pc[t] = "cas" /\ tokens = seen[t]
  /\ tokens' = tokens - want[t]
  /\ granted' = granted + want[t]
  /\ Return(t)
  /\ UNCHANGED <<serialised, rate, burst, last, mutex, clock, base, resetAt>>

\* compare_exchange_weak succeeds: the call returns what it took.
TakeTokens(t) ==
  /\ pc[t] = "cas" /\ tokens = seen[t]
  /\ tokens' = tokens - Least(want[t], tokens)
  /\ granted' = granted + Least(want[t], tokens)
  /\ Return(t)
  /\ UNCHANGED <<serialised, rate, burst, last, mutex, clock, base, resetAt>>

\* compare_exchange_weak fails because another thread changed tokens_ (a
\* spurious failure reads the same value again and changes nothing).
RetryTake(t) ==
  /\ pc[t] = "cas" /\ tokens # seen[t]
  /\ IF tokens = 0
     THEN Return(t)
     ELSE /\ seen' = [seen EXCEPT ![t] = tokens]
          /\ UNCHANGED <<pc, want>>
  /\ UNCHANGED <<serialised, atomics, mutex, clock, past>>

Reset(t) ==
  /\ MayCall(t) /\ owner = NoThread
  /\ tokens' = burst
  /\ last' = clock
  /\ granted' = 0 /\ base' = burst /\ resetAt' = clock
  /\ UNCHANGED <<serialised, rate, burst, mutex, calls, clock>>

SetRate(t, r) ==
  /\ MayCall(t)
  /\ rate' = r
  /\ UNCHANGED <<serialised, burst, tokens, last, mutex, calls, clock, past>>

\* set_burst_size stores the new size and, when more is in the bucket ...
SetBurstSize(t, b) ==
  /\ MayCall(t) /\ owner = NoThread
  /\ burst' = b
  /\ IF tokens > b THEN owner' = t /\ Goto(t, "clamp")
                   ELSE UNCHANGED <<owner, pc>>
  /\ UNCHANGED <<serialised, rate, tokens, last, due, stamp, want, seen, clock, past>>

\* ... lowers tokens_ in a second step.
ClampTokens(t) ==
  /\ pc[t] = "clamp"
  /\ tokens' = burst
  /\ Unlock
  /\ Goto(t, "idle")
  /\ UNCHANGED <<serialised, rate, burst, last, want, seen, clock, past>>

Tick ==
  /\ clock < MaxTime
  /\ clock' = clock + 1
  /\ UNCHANGED <<serialised, atomics, mutex, calls, past>>

Step(t) ==
  \/ \E n \in Requests : CallTryConsume(t, n)
  \/ SkipRefill(t)
  \/ BeginRefill(t)
  \/ StoreRefill(t)
  \/ LoadTokens(t)
  \/ TakeTokens(t)
  \/ RetryTake(t)
  \/ Reset(t)
  \/ \E r \in Rates : SetRate(t, r)
  \/ \E b \in Bursts : SetBurstSize(t, b)
  \/ ClampTokens(t)

Next == Tick \/ \E t \in Threads : Step(t)

Spec == Init /\ [][Next]_vars

-----------------------------------------------------------------------------
TypeOK ==
  /\ serialised \in BOOLEAN
  /\ rate \in Rates /\ burst \in Bursts
  /\ tokens \in Nat /\ last \in Nat
  /\ owner \in Threads \cup {NoThread}
  /\ due \in Nat /\ stamp \in Nat
  /\ pc \in [Threads -> Places]
  /\ want \in [Threads -> Nat]
  /\ seen \in [Threads -> Nat]
  /\ clock \in Nat
  /\ granted \in Nat /\ base \in Nat /\ resetAt \in Nat

\* A refill never leaves more than the burst size in the bucket, whatever the
\* callers interleave (token_bucket.cpp:93); only while set_burst_size is
\* lowering the size may the old contents stand (:46-51).
TokensWithinBurst ==
  tokens <= burst \/ \E t \in Threads : pc[t] = "clamp" /\ owner = t

\* Since the last reset the bucket has handed out at most what the reset left
\* plus what the largest rate earns over the time its refills cover.
RateKept ==
  /\ resetAt <= last
  /\ TicksPerSecond * (granted + tokens)
       <= TicksPerSecond * base + MaxRate * (last - resetAt)

\* Rate control, for the use the program makes of a bucket (get_ready_flows and
\* start_flow call it with the scheduler's mutex held).  A refill that
\* overwrites a consumption, counts an interval twice or carries on after the
\* clamp breaks it; 64-bit arithmetic that wraps does not.
RateBound == serialised => RateKept
=============================================================================
