--------------------------- MODULE TokenBucketOps ---------------------------
(***************************************************************************)
(* The arithmetic of core/scheduler/token_bucket.cpp as operators without  *)
(* state.  TokenBucket.tla takes them apart into the atomic steps of       *)
(* several threads; FlowScheduler.tla uses them whole, because the         *)
(* scheduler only calls a bucket while it holds its own mutex.             *)
(*                                                                         *)
(* Time is counted in ticks, TicksPerSecond to the second (10^9 in the     *)
(* code), and a uint64_t holds the values 0 .. UInt64 - 1.                 *)
(***************************************************************************)
EXTENDS Integers

CONSTANTS TicksPerSecond, UInt64

ASSUME TicksAssumption == TicksPerSecond \in Nat \ {0}
ASSUME WidthAssumption == UInt64 \in Nat \ {0}

Least(a, b) == IF a <= b THEN a ELSE b

\* The product is taken on 128 bits and cut to 64 after the division.
TokensDue(rate, elapsed) == ((elapsed * rate) \div TicksPerSecond) % UInt64

\* Mutant: without the clamp.
ToppedUpUnclamped(current, due, burst) == (current + due) % UInt64

\* What a refill leaves in a bucket that holds `current' tokens: the sum is a
\* uint64_t and is clamped to the burst size afterwards.
ToppedUp(current, due, burst) == Least((current + due) % UInt64, burst)

Buckets == [rate : Nat, burst : Nat, tokens : Nat, last : Nat]

\* Mutant: the interval a refill covers is not closed.
RefilledAgain(b, now) ==
  LET due == TokensDue(b.rate, now - b.last) IN
  IF now <= b.last THEN b ELSE [b EXCEPT !.tokens = ToppedUp(b.tokens, due, b.burst)]

\* update_tokens on a bucket [rate, burst, tokens, last].  When less than one
\* whole token is due `last' stays, so the fraction is not lost; when a token
\* is due the fraction above it is.
Refilled(b, now) ==
  LET due == TokensDue(b.rate, now - b.last) IN
  IF now <= b.last      THEN b
  ELSE IF b.rate = 0    THEN [b EXCEPT !.last = now]
  ELSE IF due = 0       THEN b
  ELSE [b EXCEPT !.tokens = ToppedUp(b.tokens, due, b.burst), !.last = now]

\* Mutant: what was asked for is taken, whatever is there.
ObtainedUnchecked(b, n, now) == n

\* try_consume(n), called by one thread at a time: what it returns, and the
\* bucket it leaves.
Obtained(b, n, now) == Least(n, Refilled(b, now).tokens)

AfterConsume(b, n, now) ==
  [Refilled(b, now) EXCEPT !.tokens = @ - Obtained(b, n, now)]

Bucket(rate, burst, now) ==
  [rate |-> rate, burst |-> burst, tokens |-> burst, last |-> now]

\* Mutant: the time before the reset is paid again.
AfterResetTokensOnly(b, now) == [b EXCEPT !.tokens = b.burst]

AfterReset(b, now) == [b EXCEPT !.tokens = b.burst, !.last = now]

=============================================================================
