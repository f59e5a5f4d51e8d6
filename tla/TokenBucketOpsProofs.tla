------------------------ MODULE TokenBucketOpsProofs ------------------------
(***************************************************************************)
(* Lemmas about the arithmetic of a token bucket, for every rate, burst    *)
(* size, clock unit and integer width.                                     *)
(***************************************************************************)
EXTENDS TokenBucketOps, TLAPS

-----------------------------------------------------------------------------
(* Arithmetic of the refill. *)

\* The quotient of token_bucket.cpp:88 never earns more than it divides.
LEMMA QuotientBound ==
  ASSUME NEW x \in Nat, NEW n \in Nat \ {0}
  PROVE  x \div n \in Nat /\ n * (x \div n) <= x
BY SMT

\* Cutting a number to a machine word (token_bucket.cpp:89, :93) lowers it.
LEMMA WrapBound ==
  ASSUME NEW x \in Nat, NEW n \in Nat \ {0}
  PROVE  x % n \in Nat /\ x % n <= x
BY SMT

\* A larger rate earns more over the same time.
LEMMA RateMonotone ==
  ASSUME NEW a \in Nat, NEW b \in Nat, NEW m \in Nat, a <= m
  PROVE  b * a <= m * b
BY SMT

\* Multiplication by a natural number keeps the order.
LEMMA ScaleMonotone ==
  ASSUME NEW n \in Nat, NEW a \in Nat, NEW b \in Nat, a <= b
  PROVE  n * a \in Nat /\ n * a <= n * b
BY SMT

\* One refill earns at most what the largest rate earns over its interval.
LEMMA RefillBound ==
  ASSUME NEW r \in Nat, NEW most \in Nat, r <= most, NEW elapsed \in Nat
  PROVE  /\ TokensDue(r, elapsed) \in Nat
         /\ TicksPerSecond * TokensDue(r, elapsed) <= most * elapsed
<1> DEFINE earned == (elapsed * r) \div TicksPerSecond
<1>1. /\ TicksPerSecond \in Nat \ {0} /\ UInt64 \in Nat \ {0}
  BY TicksAssumption, WidthAssumption
<1>2. elapsed * r \in Nat /\ elapsed * r <= most * elapsed
  BY <1>1, RateMonotone
<1>3. earned \in Nat /\ TicksPerSecond * earned <= elapsed * r
  BY <1>1, <1>2, QuotientBound
<1>4. earned % UInt64 \in Nat /\ earned % UInt64 <= earned
  BY <1>1, <1>3, WrapBound
<1> HIDE DEF earned
<1>5. TicksPerSecond * (earned % UInt64) <= TicksPerSecond * earned
  BY <1>1, <1>3, <1>4, ScaleMonotone
<1>6. /\ TicksPerSecond * (earned % UInt64) \in Nat
      /\ TicksPerSecond * earned \in Nat /\ most * elapsed \in Nat
  BY <1>1, <1>3, <1>4
<1>7. TokensDue(r, elapsed) = earned % UInt64
  BY DEF TokensDue, earned
<1> QED
  BY <1>2, <1>3, <1>4, <1>5, <1>6, <1>7

\* A refill adds at most what is due and stops at the burst size.
LEMMA TopUpBound ==
  ASSUME NEW current \in Nat, NEW more \in Nat, NEW size \in Nat
  PROVE  /\ ToppedUp(current, more, size) \in Nat
         /\ ToppedUp(current, more, size) <= size
         /\ ToppedUp(current, more, size) <= current + more
<1>1. (current + more) % UInt64 \in Nat /\ (current + more) % UInt64 <= current + more
  BY WrapBound, WidthAssumption
<1> QED BY <1>1 DEF ToppedUp, Least

\* What a refill of at most d tokens leaves the bound with (a refill covers the
\* time from last to now).
LEMMA RefillKeepsRate ==
  ASSUME NEW n \in Nat, NEW m \in Nat, NEW g \in Nat, NEW b \in Nat,
         NEW held \in Nat, NEW d \in Nat, NEW filled \in Nat, filled <= held + d,
         NEW r \in Nat, NEW l \in Nat, NEW now \in Nat, r <= l, l <= now,
         n * (g + held) <= n * b + m * (l - r),
         n * d <= m * (now - l)
  PROVE  n * (g + filled) <= n * b + m * (now - r)
<1>1. n * (g + filled) <= n * ((g + held) + d)
  BY ScaleMonotone
<1>2. n * ((g + held) + d) = n * (g + held) + n * d
  OBVIOUS
<1>3. m * (now - r) = m * (l - r) + m * (now - l)
  OBVIOUS
<1>4. /\ n * (g + filled) \in Int /\ n * ((g + held) + d) \in Int
      /\ n * (g + held) \in Int /\ n * d \in Int /\ n * b \in Int
      /\ m * (l - r) \in Int /\ m * (now - l) \in Int /\ m * (now - r) \in Int
  OBVIOUS
<1> QED BY <1>1, <1>2, <1>3, <1>4

-----------------------------------------------------------------------------
(* Whole buckets. *)

\* What update_tokens does to a bucket: only tokens and last change, last moves
\* forward and never past the clock, and the tokens gained were earned between
\* the old and the new last.
LEMMA RefilledBucket ==
  ASSUME NEW b \in Buckets, NEW time \in Nat, b.last <= time
  PROVE  /\ Refilled(b, time) \in Buckets
         /\ Refilled(b, time).rate = b.rate
         /\ Refilled(b, time).burst = b.burst
         /\ b.last <= Refilled(b, time).last /\ Refilled(b, time).last <= time
         /\ b.tokens <= b.burst => Refilled(b, time).tokens <= b.burst
         /\ TicksPerSecond * Refilled(b, time).tokens
              <= TicksPerSecond * b.tokens + b.rate * (Refilled(b, time).last - b.last)
<1> DEFINE elapsed == time - b.last
           due == TokensDue(b.rate, elapsed)
           filled == ToppedUp(b.tokens, due, b.burst)
<1>1. /\ b.rate \in Nat /\ b.burst \in Nat /\ b.tokens \in Nat /\ b.last \in Nat
      /\ elapsed \in Nat /\ TicksPerSecond \in Nat
  BY TicksAssumption DEF Buckets
<1>2. due \in Nat /\ TicksPerSecond * due <= b.rate * elapsed
  <2> HIDE DEF elapsed
  <2>1. b.rate <= b.rate
    BY <1>1
  <2> QED BY <1>1, <2>1, RefillBound
<1>3. filled \in Nat /\ filled <= b.burst /\ filled <= b.tokens + due
  BY <1>1, <1>2, TopUpBound
<1>4. TicksPerSecond * filled <= TicksPerSecond * b.tokens + b.rate * elapsed
  <2> HIDE DEF filled, due, elapsed
  <2>1. TicksPerSecond * filled <= TicksPerSecond * (b.tokens + due)
    BY <1>1, <1>2, <1>3, ScaleMonotone
  <2>2. TicksPerSecond * (b.tokens + due) = TicksPerSecond * b.tokens + TicksPerSecond * due
    BY <1>1, <1>2
  <2>3. /\ TicksPerSecond * filled \in Int /\ TicksPerSecond * due \in Int
        /\ TicksPerSecond * b.tokens \in Int /\ b.rate * elapsed \in Int
    BY <1>1, <1>2, <1>3
  <2> QED BY <1>2, <2>1, <2>2, <2>3
<1>5. CASE time <= b.last \/ (b.rate # 0 /\ due = 0)
  <2>1. Refilled(b, time) = b
    BY <1>5 DEF Refilled
  <2> QED BY <1>1, <2>1
<1>6. CASE time > b.last /\ b.rate = 0
  <2>1. Refilled(b, time) = [b EXCEPT !.last = time]
    BY <1>1, <1>6 DEF Refilled
  <2> QED BY <1>1, <1>6, <2>1 DEF Buckets
<1>7. CASE time > b.last /\ b.rate # 0 /\ due # 0
  <2>1. Refilled(b, time) = [b EXCEPT !.tokens = filled, !.last = time]
    BY <1>1, <1>7 DEF Refilled
  <2> HIDE DEF filled
  <2>2. /\ Refilled(b, time) \in Buckets
        /\ Refilled(b, time).rate = b.rate /\ Refilled(b, time).burst = b.burst
        /\ Refilled(b, time).tokens = filled /\ Refilled(b, time).last = time
    BY <1>1, <1>3, <2>1 DEF Buckets
  <2> QED BY <1>1, <1>3, <1>4, <1>7, <2>2
<1> HIDE DEF filled, due
<1> QED BY <1>1, <1>5, <1>6, <1>7

\* try_consume takes what it returns, and no more than the refilled bucket held.
LEMMA ConsumedBucket ==
  ASSUME NEW b \in Buckets, NEW n \in Nat, NEW time \in Nat, b.last <= time
  PROVE  LET r == Refilled(b, time)
             a == AfterConsume(b, n, time)
             k == Obtained(b, n, time)
         IN  /\ a \in Buckets /\ k \in Nat /\ k <= n
             /\ a.rate = b.rate /\ a.burst = b.burst /\ a.last = r.last
             /\ a.tokens + k = r.tokens
<1> DEFINE r == Refilled(b, time)
           k == Obtained(b, n, time)
<1>1. /\ r \in Buckets /\ r.rate = b.rate /\ r.burst = b.burst
      /\ r.tokens \in Nat
  BY RefilledBucket DEF Buckets
<1>2. k \in Nat /\ k <= n /\ k <= r.tokens /\ r.tokens - k \in Nat
  <2> HIDE DEF r
  <2>1. k = Least(n, r.tokens)
    BY DEF Obtained, r
  <2> QED BY <1>1, <2>1 DEF Least
<1>3. AfterConsume(b, n, time) = [r EXCEPT !.tokens = r.tokens - k]
  BY DEF AfterConsume
<1> HIDE DEF r, k
<1>4. LET a == AfterConsume(b, n, time)
      IN  /\ a \in Buckets /\ k \in Nat /\ k <= n
          /\ a.rate = b.rate /\ a.burst = b.burst /\ a.last = r.last
          /\ a.tokens + k = r.tokens
  BY <1>1, <1>2, <1>3 DEF Buckets
<1> QED BY <1>4 DEF r, k

=============================================================================
