---------------------------- MODULE PacingProofs ----------------------------
(***************************************************************************)
(* FlowScheduler implements RateLimiter for the flow Observed, which may   *)
(* be any flow: over any stretch of time the flow is granted no more than  *)
(* an ideal token bucket of its rate and size would grant it.              *)
(***************************************************************************)
EXTENDS FlowSchedulerProofs

Capacity(b) == TicksPerSecond * (b.burst + 1) - 1

\* What a refill would find earned: the product wraps where 2^64 packets are.
Earned(b, time) == (b.rate * (time - b.last)) % (TicksPerSecond * UInt64)

\* What a bucket holds, in fractions of a packet, and what of it is of use.
Holds(b, time) == TicksPerSecond * b.tokens + Earned(b, time)

Credit(b, time) == Least(Capacity(b), Holds(b, time))

-----------------------------------------------------------------------------
(* Remainders. *)

\* A number is its quotient times the divisor and a remainder below it.
LEMMA Remainder ==
  ASSUME NEW x \in Nat, NEW n \in Nat \ {0}
  PROVE  /\ x \div n \in Nat /\ x % n \in Nat /\ x % n < n /\ x % n <= x
         /\ n * (x \div n) \in Nat /\ x = n * (x \div n) + (x % n)
<1>1. x \div n \in Nat /\ x % n \in Nat /\ x % n < n /\ x = n * (x \div n) + (x % n)
  BY SMT
<1> DEFINE q == x \div n
           r == x % n
<1> HIDE DEF q, r
<1>2. n * q \in Nat
  BY <1>1 DEF q
<1> QED BY <1>1, <1>2 DEF q, r

\* There is one such remainder.
LEMMA RemainderUnique ==
  ASSUME NEW x \in Nat, NEW n \in Nat \ {0}, NEW q \in Nat, NEW r \in Nat, x = n * q + r, r < n
  PROVE  x % n = r
<1> DEFINE p == x \div n
           s == x % n
<1>1. p \in Nat /\ s \in Nat /\ s < n /\ x = n * p + s /\ n * p \in Nat /\ n * q \in Nat
  BY Remainder
<1> HIDE DEF p, s
<1>2. ASSUME q < p PROVE FALSE
  <2>1. n * (q + 1) <= n * p /\ n * (q + 1) = n * q + n
    BY <1>1, <1>2, ScaleMonotone
  <2> QED BY <1>1, <2>1
<1>3. ASSUME p < q PROVE FALSE
  <2>1. n * (p + 1) <= n * q /\ n * (p + 1) = n * p + n
    BY <1>1, <1>3, ScaleMonotone
  <2> QED BY <1>1, <2>1
<1>4. p = q
  BY <1>1, <1>2, <1>3
<1>5. s = r
  BY <1>1, <1>4
<1> QED BY <1>5 DEF s

\* A remainder grows by no more than its number.
LEMMA RemainderGrows ==
  ASSUME NEW x \in Nat, NEW y \in Nat, NEW n \in Nat \ {0}
  PROVE  (x + y) % n \in Nat /\ (x + y) % n <= (x % n) + y
<1> DEFINE p == x \div n
           s == x % n
           q == (x + y) \div n
           r == (x + y) % n
<1>1. /\ p \in Nat /\ s \in Nat /\ s < n /\ x = n * p + s /\ n * p \in Nat
      /\ q \in Nat /\ r \in Nat /\ r < n /\ x + y = n * q + r /\ n * q \in Nat
  <2>1. x + y \in Nat
    OBVIOUS
  <2> QED BY <2>1, Remainder
<1> HIDE DEF p, s, q, r
<1>2. ASSUME q < p PROVE FALSE
  <2>1. n * (q + 1) <= n * p /\ n * (q + 1) = n * q + n
    BY <1>1, <1>2, ScaleMonotone
  <2> QED BY <1>1, <2>1
<1>3. n * p <= n * q
  BY <1>1, <1>2, ScaleMonotone
<1>4. r \in Nat /\ r <= s + y
  BY <1>1, <1>3
<1> QED BY <1>4 DEF r, s

\* Dividing before cutting, as update_tokens does (token_bucket.cpp:87-89), loses
\* less than one packet against the product that is cut.
LEMMA CutProduct ==
  ASSUME NEW x \in Nat, NEW n \in Nat \ {0}, NEW m \in Nat \ {0}
  PROVE  /\ (x \div n) % m \in Nat /\ n * m \in Nat \ {0}
         /\ n * ((x \div n) % m) <= x % (n * m)
         /\ x % (n * m) < n * ((x \div n) % m) + n
<1> DEFINE e == x \div n
           s == x % n
           q == e \div m
           due == e % m
<1>1. e \in Nat /\ s \in Nat /\ s < n /\ x = n * e + s
  BY Remainder
<1> HIDE DEF e, s
<1>2. q \in Nat /\ due \in Nat /\ due < m /\ e = m * q + due /\ m * q \in Nat
  BY <1>1, Remainder
<1> HIDE DEF q, due
<1>3. n * e = (n * m) * q + n * due
  <2>1. n * e = n * (m * q) + n * due
    BY <1>2
  <2>2. n * (m * q) = (n * m) * q
    BY <1>2
  <2> QED BY <2>1, <2>2
<1>4. n * due + n <= n * m
  <2>1. n * (due + 1) <= n * m /\ n * (due + 1) = n * due + n
    BY <1>2, ScaleMonotone
  <2> QED BY <2>1
<1>5. n * due \in Nat /\ n * m \in Nat /\ (n * m) * q \in Nat
  BY <1>2
<1>6. n * m \in Nat \ {0} /\ n * due + s \in Nat /\ n * due + s < n * m
  BY <1>1, <1>4, <1>5
<1>7. x = (n * m) * q + (n * due + s)
  BY <1>1, <1>3, <1>5
<1>8. x % (n * m) = n * due + s
  <2> DEFINE k == n * m
             r == n * due + s
  <2>1. k \in Nat \ {0} /\ r \in Nat /\ r < k /\ x = k * q + r
    BY <1>6, <1>7
  <2> HIDE DEF k, r
  <2>2. x % k = r
    BY <1>2, <2>1, RemainderUnique
  <2> QED BY <2>2 DEF k, r
<1> QED BY <1>1, <1>2, <1>5, <1>6, <1>8 DEF due, e

-----------------------------------------------------------------------------
(* Credit. *)

\* The numbers of a bucket.
LEMMA BucketNumbers ==
  ASSUME NEW b \in Buckets, NEW time \in Nat, b.last <= time
  PROVE  /\ b.rate \in Nat /\ b.burst \in Nat /\ b.tokens \in Nat /\ b.last \in Nat
         /\ TicksPerSecond \in Nat \ {0} /\ TicksPerSecond * UInt64 \in Nat \ {0}
         /\ TicksPerSecond * b.tokens \in Nat /\ TicksPerSecond * b.burst \in Nat
         /\ b.rate * (time - b.last) \in Nat
         /\ Earned(b, time) \in Nat
         /\ Holds(b, time) = TicksPerSecond * b.tokens + Earned(b, time)
         /\ Capacity(b) \in Nat /\ Capacity(b) = TicksPerSecond * b.burst + TicksPerSecond - 1
<1>1. /\ b.rate \in Nat /\ b.burst \in Nat /\ b.tokens \in Nat /\ b.last \in Nat
      /\ TicksPerSecond \in Nat \ {0} /\ UInt64 \in Nat \ {0} /\ time - b.last \in Nat
  BY TicksAssumption, WidthAssumption DEF Buckets
<1>2. /\ TicksPerSecond * b.tokens \in Nat /\ TicksPerSecond * b.burst \in Nat
      /\ b.rate * (time - b.last) \in Nat
  BY <1>1
<1>3. TicksPerSecond * UInt64 \in Nat \ {0}
  BY <1>1, <1>2, CutProduct
<1>4. Earned(b, time) \in Nat
  BY <1>2, <1>3, Remainder DEF Earned
<1>5. TicksPerSecond * (b.burst + 1) = TicksPerSecond * b.burst + TicksPerSecond
  BY <1>1
<1> QED BY <1>1, <1>2, <1>3, <1>4, <1>5 DEF Capacity, Holds

\* A refill makes no credit, and leaves nothing above the capacity.
LEMMA RefillMakesNoCredit ==
  ASSUME NEW b \in Buckets, NEW time \in Nat, b.last <= time, b.tokens <= b.burst
  PROVE  Holds(Refilled(b, time), time) <= Credit(b, time)
<1> DEFINE elapsed == time - b.last
           due == TokensDue(b.rate, elapsed)
           r == Refilled(b, time)
           T == TicksPerSecond
<1>1. /\ b.rate \in Nat /\ b.burst \in Nat /\ b.tokens \in Nat /\ b.last \in Nat
      /\ T \in Nat \ {0} /\ UInt64 \in Nat \ {0} /\ elapsed \in Nat
      /\ T * b.tokens \in Nat /\ T * b.burst \in Nat /\ Earned(b, time) \in Nat
      /\ Holds(b, time) = T * b.tokens + Earned(b, time)
      /\ Capacity(b) \in Nat /\ Capacity(b) = T * b.burst + T - 1
  BY BucketNumbers, WidthAssumption
<1>2. T * b.tokens <= T * b.burst
  BY <1>1, ScaleMonotone
<1>3. due \in Nat /\ T * due <= Earned(b, time) /\ Earned(b, time) < T * due + T
  <2>1. b.rate * elapsed \in Nat /\ elapsed * b.rate = b.rate * elapsed
    BY <1>1
  <2> QED BY <1>1, <2>1, CutProduct DEF TokensDue, Earned
<1>4. ASSUME r.tokens \in Nat, r.tokens <= b.burst, T * r.tokens <= Holds(b, time),
             Holds(r, time) = T * r.tokens
      PROVE  Holds(r, time) <= Holds(b, time) /\ Holds(r, time) <= Capacity(b)
  <2> HIDE DEF r
  <2>1. T * r.tokens <= T * b.burst /\ T * r.tokens \in Nat
    BY <1>1, <1>4, ScaleMonotone
  <2> QED BY <1>1, <1>4, <2>1
<1>5. ASSUME NEW c \in Buckets, c.last = time \/ c.rate = 0, c.last <= time
      PROVE  Holds(c, time) = T * c.tokens
  <2>1. c.rate * (time - c.last) = 0
    BY <1>5 DEF Buckets
  <2>2. Earned(c, time) = 0
    <3>1. Earned(c, time) \in Nat /\ T * UInt64 \in Nat \ {0}
      BY <1>5, BucketNumbers
    <3>2. 0 % (T * UInt64) <= 0 /\ 0 % (T * UInt64) \in Nat
      BY <3>1, Remainder
    <3> QED BY <2>1, <3>2 DEF Earned
  <2>3. T * c.tokens \in Nat
    BY <1>1 DEF Buckets
  <2> QED BY <2>2, <2>3 DEF Holds
<1>6. Holds(r, time) <= Holds(b, time) /\ Holds(r, time) <= Capacity(b)
  <2>1. CASE time <= b.last
    <3>1. r = b
      BY <2>1 DEF Refilled
    <3>2. b.last = time
      <4>1. b.last \in Nat
        BY <1>1
      <4> QED BY <2>1, <4>1
    <3>3. Holds(b, time) = T * b.tokens
      BY <1>5, <3>2
    <3> QED BY <1>1, <1>4, <3>1, <3>3
  <2>2. CASE time > b.last /\ b.rate = 0
    <3>1. r = [b EXCEPT !.last = time]
      BY <1>1, <2>2 DEF Refilled
    <3>2. r \in Buckets /\ r.last = time /\ r.tokens = b.tokens
      BY <3>1 DEF Buckets
    <3>3. Holds(r, time) = T * r.tokens
      BY <3>2, <1>5
    <3> QED BY <1>1, <1>4, <3>2, <3>3
  <2>3. CASE time > b.last /\ b.rate # 0 /\ due = 0
    <3>1. r = b
      BY <1>1, <2>3 DEF Refilled
    <3>2. T * due = 0
      BY <1>1, <2>3
    <3>3. Earned(b, time) <= T - 1
      BY <1>1, <1>3, <3>2
    <3> HIDE DEF r, due
    <3> QED BY <1>1, <1>2, <3>1, <3>3
  <2>4. CASE time > b.last /\ b.rate # 0 /\ due # 0
    <3>1. r = [b EXCEPT !.tokens = ToppedUp(b.tokens, due, b.burst), !.last = time]
      BY <1>1, <2>4 DEF Refilled
    <3>2. /\ ToppedUp(b.tokens, due, b.burst) \in Nat
          /\ ToppedUp(b.tokens, due, b.burst) <= b.burst
          /\ ToppedUp(b.tokens, due, b.burst) <= b.tokens + due
      <4>1. b.tokens + due \in Nat
        BY <1>1, <1>3
      <4>2. (b.tokens + due) % UInt64 \in Nat /\ (b.tokens + due) % UInt64 <= b.tokens + due
        BY <1>1, <4>1, Remainder
      <4> HIDE DEF due
      <4> QED BY <1>1, <1>3, <4>2 DEF ToppedUp, Least
    <3>3. r \in Buckets /\ r.last = time /\ r.tokens = ToppedUp(b.tokens, due, b.burst)
      BY <3>1, <3>2 DEF Buckets
    <3> HIDE DEF r, due
    <3>4. Holds(r, time) = T * r.tokens
      BY <3>3, <1>5
    <3>5. T * r.tokens <= T * (b.tokens + due) /\ T * (b.tokens + due) = T * b.tokens + T * due
      BY <1>1, <1>3, <3>2, <3>3, ScaleMonotone
    <3>6. T * r.tokens \in Nat /\ T * due \in Nat
      BY <1>1, <1>3, <3>2, <3>3
    <3> QED BY <1>1, <1>3, <1>4, <3>2, <3>3, <3>4, <3>5, <3>6 DEF r
  <2> QED BY <1>1, <1>3, <2>1, <2>2, <2>3, <2>4
<1> QED BY <1>6 DEF Credit, Least

\* A poll pays for the packet it grants, and for nothing else.
LEMMA ConsumePays ==
  ASSUME NEW b \in Buckets, NEW time \in Nat, b.last <= time, b.tokens <= b.burst
  PROVE  LET a == AfterConsume(b, 1, time) IN
         /\ a \in Buckets /\ a.rate = b.rate /\ a.burst = b.burst
         /\ a.tokens <= a.burst /\ a.last <= time
         /\ Credit(a, time) \in Nat
         /\ Credit(a, time) <= Credit(b, time) - TicksPerSecond * Obtained(b, 1, time)
<1> DEFINE r == Refilled(b, time)
           a == AfterConsume(b, 1, time)
           k == Obtained(b, 1, time)
<1>1. /\ a \in Buckets /\ k \in Nat /\ k <= 1
      /\ a.rate = b.rate /\ a.burst = b.burst /\ a.last = r.last
      /\ a.tokens + k = r.tokens
  BY ConsumedBucket
<1>2. /\ r \in Buckets /\ r.rate = b.rate /\ r.tokens <= b.burst /\ r.last <= time
  BY RefilledBucket DEF Buckets
<1>3. Holds(r, time) <= Credit(b, time)
  BY RefillMakesNoCredit
<1> HIDE DEF r, a, k
<1>4. /\ Holds(a, time) = TicksPerSecond * a.tokens + Earned(a, time)
      /\ Holds(r, time) = TicksPerSecond * r.tokens + Earned(r, time)
      /\ Earned(a, time) = Earned(r, time) /\ Earned(a, time) \in Nat
      /\ a.tokens \in Nat /\ a.burst \in Nat /\ TicksPerSecond \in Nat
      /\ TicksPerSecond * a.tokens \in Nat /\ TicksPerSecond * r.tokens \in Nat
      /\ Capacity(a) \in Nat
  <2>1. a.last <= time
    BY <1>1, <1>2
  <2> QED BY <1>1, <1>2, <2>1, BucketNumbers DEF Earned
<1>5. TicksPerSecond * r.tokens = TicksPerSecond * a.tokens + TicksPerSecond * k
  BY <1>1, <1>4
<1>6. TicksPerSecond * k \in Nat
  BY <1>1, <1>4
<1>7. Credit(b, time) \in Int
  BY BucketNumbers DEF Credit, Least
<1>8. Credit(a, time) \in Nat /\ Credit(a, time) <= Holds(a, time)
  BY <1>4 DEF Credit, Least
<1>9. a.tokens <= a.burst /\ a.last <= time
  BY <1>1, <1>2, <1>4
<1>10. Credit(a, time) <= Credit(b, time) - TicksPerSecond * k
  BY <1>3, <1>4, <1>5, <1>6, <1>7, <1>8
<1> QED BY <1>1, <1>8, <1>9, <1>10 DEF a, k

\* A bucket not above its size has credit within the capacity; a tick earns at
\* most the rate.
LEMMA CreditBounds ==
  ASSUME NEW b \in Buckets, NEW time \in Nat, b.last <= time
  PROVE  /\ Credit(b, time) \in Nat /\ Credit(b, time) <= Capacity(b)
         /\ Credit(b, time + 1) \in Nat /\ Credit(b, time + 1) <= Capacity(b)
         /\ Credit(b, time + 1) <= Credit(b, time) + b.rate
<1>1. /\ b.rate \in Nat /\ b.last \in Nat /\ TicksPerSecond * UInt64 \in Nat \ {0}
      /\ TicksPerSecond * b.tokens \in Nat /\ b.rate * (time - b.last) \in Nat
      /\ Earned(b, time) \in Nat /\ Capacity(b) \in Nat
      /\ Holds(b, time) = TicksPerSecond * b.tokens + Earned(b, time)
  BY BucketNumbers
<1>2. b.rate * ((time + 1) - b.last) = b.rate * (time - b.last) + b.rate
  <2>1. time - b.last \in Nat /\ (time + 1) - b.last = (time - b.last) + 1
    BY <1>1
  <2> QED BY <1>1, <2>1
<1>3. Earned(b, time + 1) \in Nat /\ Earned(b, time + 1) <= Earned(b, time) + b.rate
  BY <1>1, <1>2, RemainderGrows DEF Earned
<1>4. /\ Holds(b, time) \in Nat /\ Holds(b, time + 1) \in Nat
      /\ Holds(b, time + 1) <= Holds(b, time) + b.rate
  <2>1. Holds(b, time + 1) = TicksPerSecond * b.tokens + Earned(b, time + 1)
    BY DEF Holds
  <2> QED BY <1>1, <1>3, <2>1
<1> QED BY <1>1, <1>4 DEF Credit, Least

-----------------------------------------------------------------------------
PacingInv == \A id \in Present : flows[id].bucket.tokens <= flows[id].bucket.burst

\* The pacing invariant holds at all times.
LEMMA PacingInvariant == SchedulerSpec => []PacingInv
<1> USE ConfigAssumption, IdAssumption
<1>1. SchedulerInit => PacingInv
  BY DEF SchedulerInit, PacingInv, Present
<1>2. SchedulerInv /\ PacingInv /\ [SchedulerNext]_schedulerVars => PacingInv'
  <2> SUFFICES ASSUME SchedulerInv, PacingInv, [SchedulerNext]_schedulerVars PROVE PacingInv'
    OBVIOUS
  <2> USE DEF SchedulerInv, SchedulerTypeOK, PacingInv, Present
  <2>0. \A id \in Present : flows[id] \in Flows
    OBVIOUS
  <2>1. ASSUME NEW c \in Configs, AddFlow(c) PROVE PacingInv'
    <3>1. NewFlow(c).bucket.tokens <= NewFlow(c).bucket.burst /\ NewFlow(c).bucket.rate = c.pps
      BY BurstSizeAssumption DEF NewFlow, Bucket, BurstOf
    <3> QED BY <2>1, <3>1 DEF AddFlow
  <2>2. ASSUME NEW id \in FlowIds, StartFlow(id) PROVE PacingInv'
    <3> DEFINE b == AfterReset(flows[id].bucket, now)
    <3>1. flows[id] \in Flows
      BY <2>0, <2>2 DEF StartFlow
    <3>2. b.tokens = b.burst /\ b.burst \in Nat /\ b.rate = flows[id].bucket.rate
      BY <3>1 DEF AfterReset, Flows, Buckets
    <3>3. /\ now' = now
          /\ \A i \in Present' : /\ i \in Present
                                 /\ flows'[i].bucket = IF i = id THEN b ELSE flows[i].bucket
      BY <2>0, <2>2 DEF StartFlow, Flows
    <3> HIDE DEF b
    <3> QED BY <2>2, <3>2, <3>3 DEF StartFlow
  <2>3. ASSUME NEW id \in FlowIds, RemoveFlow(id) \/ StopFlow(id) PROVE PacingInv'
    <3>1. /\ now' = now
          /\ \A i \in Present' : i \in Present /\ flows'[i].bucket = flows[i].bucket
      BY <2>0, <2>3 DEF StopFlow, RemoveFlow, Flows
    <3> QED BY <3>1
  <2>4. CASE ClearAllFlows
    BY <2>4 DEF ClearAllFlows
  <2>5. ASSUME NEW max \in MaxBursts, GetReadyFlows(max) PROVE PacingInv'
    <3>1. \A i \in Present : /\ Polled(i).bucket.tokens <= Polled(i).bucket.burst
                             /\ Polled(i).bucket.rate = flows[i].bucket.rate
      <4> SUFFICES ASSUME NEW i \in Present
                   PROVE  /\ Polled(i).bucket.tokens <= Polled(i).bucket.burst
                          /\ Polled(i).bucket.rate = flows[i].bucket.rate
        OBVIOUS
      <4> DEFINE b == flows[i].bucket
      <4>1. b \in Buckets /\ b.last <= now /\ b.tokens <= b.burst
        BY <2>0 DEF Flows, FlowInv
      <4> DEFINE a == AfterConsume(b, 1, now)
      <4>2. a \in Buckets /\ a.rate = b.rate /\ a.tokens <= a.burst
        <5>1. Refilled(b, now).tokens <= b.burst /\ Refilled(b, now).tokens \in Nat
          BY <4>1, RefilledBucket DEF Buckets
        <5> HIDE DEF b
        <5>0. now \in Nat
          OBVIOUS
        <5>2. /\ a \in Buckets /\ a.rate = b.rate /\ a.burst = b.burst
              /\ Obtained(b, 1, now) \in Nat
              /\ a.tokens + Obtained(b, 1, now) = Refilled(b, now).tokens
          <6> HIDE DEF SchedulerInv, PacingInv, a
          <6>1. b \in Buckets /\ b.last <= now /\ 1 \in Nat
            BY <4>1
          <6>2. LET r == Refilled(b, now)
                    c == AfterConsume(b, 1, now)
                    k == Obtained(b, 1, now)
                IN  /\ c \in Buckets /\ k \in Nat /\ k <= 1
                    /\ c.rate = b.rate /\ c.burst = b.burst /\ c.last = r.last
                    /\ c.tokens + k = r.tokens
            BY <5>0, <6>1, ConsumedBucket, Zenon
          <6> QED BY <6>2 DEF a
        <5> HIDE DEF a
        <5>3. a.tokens \in Nat /\ a.burst \in Nat
          BY <5>2 DEF Buckets
        <5> QED BY <5>1, <5>2, <5>3
      <4> QED BY <2>0, <4>1, <4>2 DEF Polled, Flows
    <3>2. /\ now' = now
          /\ \A i \in Present' : i \in Present /\ flows'[i] \in {Polled(i), flows[i]}
      BY <2>5 DEF GetReadyFlows
    <3> QED BY <3>1, <3>2
  <2>6. ASSUME NEW key \in Keys, NEW seg \in Segments, HandleTcpRx(key, seg) PROVE PacingInv'
    <3>1. /\ now' = now
          /\ \A i \in Present' : i \in Present /\ flows'[i].bucket = flows[i].bucket
      BY <2>0, <2>6 DEF HandleTcpRx, Flows
    <3> QED BY <3>1
  <2>7. CASE Tick
    BY <2>7 DEF Tick
  <2>8. CASE UNCHANGED schedulerVars
    BY <2>8 DEF schedulerVars
  <2> QED BY <2>1, <2>2, <2>3, <2>4, <2>5, <2>6, <2>7, <2>8 DEF SchedulerNext
<1> QED BY <1>1, <1>2, SchedulerInvariant, PTL DEF SchedulerSpec

-----------------------------------------------------------------------------
(* Rates below a token. *)

\* A bucket that has room for none never gives one (token_bucket.cpp:15-23, :95).
LEMMA NoRoomNoToken ==
  ASSUME NEW b \in Buckets, b.burst = 0, b.tokens <= b.burst, now \in Nat, b.last <= now
  PROVE  /\ Obtained(b, 1, now) = 0
         /\ AfterConsume(b, 1, now).rate = b.rate /\ AfterConsume(b, 1, now).burst = b.burst
<1>1. Refilled(b, now).tokens <= b.burst /\ Refilled(b, now) \in Buckets
  BY RefilledBucket
<1>2. Refilled(b, now).tokens = 0
  BY <1>1 DEF Buckets
<1>3. Obtained(b, 1, now) = 0
  BY <1>2 DEF Obtained, Least
<1>4. AfterConsume(b, 1, now).rate = b.rate /\ AfterConsume(b, 1, now).burst = b.burst
  BY <1>1, RefilledBucket DEF AfterConsume, Buckets
<1> QED BY <1>3, <1>4

\* The size of every bucket is the share of its rate, and a slow flow was granted
\* nothing.
SlowInv ==
  \A id \in Present :
    /\ flows[id].bucket.burst = BurstOf(flows[id].bucket.rate)
    /\ flows[id].bucket.rate \in 1 .. (BurstShare - 1) => granted[id] = 0

\* Is a flow whose rate is below the number of buckets to the second silent?
SlowFlowsNeverSend ==
  \A id \in Present : flows[id].bucket.rate \in 1 .. (BurstShare - 1) => granted[id] = 0

\* Why PacketsPerSecond is not kept: a flow of 1 to 9 packets per second has a
\* bucket of pps / 10 = 0 tokens, and is never granted one, however long it is active
\* and however it is started and configured (flow_scheduler.cpp:59-60).
THEOREM SlowFlowsSendNothing == SchedulerSpec => []SlowFlowsNeverSend
<1> USE ConfigAssumption, IdAssumption
<1>1. SchedulerInit => SlowInv
  BY DEF SchedulerInit, SlowInv, Present
<1>2. SchedulerInv /\ PacingInv /\ SlowInv /\ [SchedulerNext]_schedulerVars => SlowInv'
  <2> SUFFICES ASSUME SchedulerInv, PacingInv, SlowInv, [SchedulerNext]_schedulerVars
               PROVE  SlowInv'
    OBVIOUS
  <2>0. /\ flows \in [FlowIds -> Flows \cup {NoFlow}] /\ granted \in [FlowIds -> Nat]
        /\ now \in Nat /\ \A id \in Present : flows[id] \in Flows
    BY DEF SchedulerInv, SchedulerTypeOK, Present
  <2>1. ASSUME NEW c \in Configs, AddFlow(c) PROVE SlowInv'
    <3>1. NewFlow(c).bucket.burst = BurstOf(NewFlow(c).bucket.rate)
      BY DEF NewFlow, Bucket
    <3> QED BY <2>0, <2>1, <3>1 DEF AddFlow, SlowInv, Present
  <2>2. ASSUME \A i \in Present' :
                 /\ i \in Present
                 /\ flows'[i].bucket.rate = flows[i].bucket.rate
                 /\ flows'[i].bucket.burst = flows[i].bucket.burst
                 /\ granted'[i] \in {0, granted[i]}
        PROVE  SlowInv'
    BY <2>2 DEF SlowInv
  <2>3. ASSUME NEW id \in FlowIds, StartFlow(id) PROVE SlowInv'
    <3>1. AfterReset(flows[id].bucket, now).rate = flows[id].bucket.rate
          /\ AfterReset(flows[id].bucket, now).burst = flows[id].bucket.burst
      BY <2>0, <2>3 DEF StartFlow, AfterReset, Flows, Buckets
    <3> QED BY <2>0, <2>2, <2>3, <3>1 DEF StartFlow, Present, Flows
  <2>4. ASSUME NEW id \in FlowIds, RemoveFlow(id) \/ StopFlow(id) PROVE SlowInv'
    BY <2>0, <2>2, <2>4 DEF RemoveFlow, StopFlow, Present, Flows
  <2>5. CASE ClearAllFlows
    BY <2>5 DEF ClearAllFlows, SlowInv, Present
  <2>6. ASSUME NEW max \in MaxBursts, GetReadyFlows(max) PROVE SlowInv'
    <3> SUFFICES ASSUME NEW i \in Present'
                 PROVE  /\ flows'[i].bucket.burst = BurstOf(flows'[i].bucket.rate)
                        /\ flows'[i].bucket.rate \in 1 .. (BurstShare - 1) => granted'[i] = 0
      BY DEF SlowInv
    <3> DEFINE b == flows[i].bucket
    <3>1. /\ i \in Present /\ flows'[i] \in {Polled(i), flows[i]}
          /\ granted'[i] = granted[i] \/ (Grants(i) /\ Running(i))
      BY <2>6 DEF GetReadyFlows, Present, Grants
    <3>2. b \in Buckets /\ b.last <= now /\ b.tokens <= b.burst /\ b.burst = BurstOf(b.rate)
      BY <2>0, <3>1 DEF SchedulerInv, FlowInv, PacingInv, SlowInv, Flows
    <3>3. flows'[i].bucket \in {b, AfterConsume(b, 1, now)}
      BY <2>0, <3>1 DEF Polled, Flows
    <3>4. AfterConsume(b, 1, now).rate = b.rate /\ AfterConsume(b, 1, now).burst = b.burst
      <4> HIDE DEF b
      <4>1. Refilled(b, now) \in Buckets /\ Refilled(b, now).rate = b.rate
            /\ Refilled(b, now).burst = b.burst
        BY <2>0, <3>2, RefilledBucket
      <4> QED BY <4>1 DEF AfterConsume, Buckets
    <3>5. flows'[i].bucket.rate = b.rate /\ flows'[i].bucket.burst = b.burst
      BY <3>3, <3>4
    <3>6. ASSUME b.rate \in 1 .. (BurstShare - 1) PROVE granted'[i] = 0
      <4>1. b.burst = 0
        BY <3>2, <3>6, BurstSizeAssumption DEF BurstOf
      <4>2. Obtained(b, 1, now) = 0
        BY <2>0, <3>2, <4>1, NoRoomNoToken
      <4>3. ~Grants(i)
        BY <4>2 DEF Grants
      <4> QED BY <3>1, <3>6, <4>3 DEF SlowInv
    <3> QED BY <3>2, <3>5, <3>6
  <2>7. ASSUME NEW key \in Keys, NEW seg \in Segments, HandleTcpRx(key, seg) PROVE SlowInv'
    BY <2>0, <2>2, <2>7 DEF HandleTcpRx, Present, Flows
  <2>8. CASE Tick \/ UNCHANGED schedulerVars
    BY <2>2, <2>8 DEF Tick, schedulerVars, Present
  <2> QED BY <2>1, <2>3, <2>4, <2>5, <2>6, <2>7, <2>8 DEF SchedulerNext
<1>3. SlowInv => SlowFlowsNeverSend
  BY DEF SlowInv, SlowFlowsNeverSend
<1> QED BY <1>1, <1>2, <1>3, SchedulerInvariant, PacingInvariant, PTL DEF SchedulerSpec

-----------------------------------------------------------------------------
\* What RateLimiter sees of an absent flow, and of a present one.
ObservedSound ==
  /\ ObservedBucket \in Buckets
  /\ ObservedBucket.last <= now
  /\ ObservedBucket.tokens <= ObservedBucket.burst
  /\ ObservedCredit = Credit(ObservedBucket, now)
  /\ ObservedCredit \in Nat
  /\ ObservedCredit <= Capacity(ObservedBucket)

\* The state of a flow as RateLimiter sees it is of the type that it asks for.
LEMMA ObservedState == SchedulerInv /\ PacingInv => ObservedSound
<1> SUFFICES ASSUME SchedulerInv, PacingInv PROVE ObservedSound
  OBVIOUS
<1>1. now \in Nat
  BY DEF SchedulerInv, SchedulerTypeOK
<1>2. /\ ObservedBucket \in Buckets /\ ObservedBucket.last <= now
      /\ ObservedBucket.tokens <= ObservedBucket.burst
  <2>1. CASE Observed \in Present
    BY <2>1 DEF ObservedBucket, SchedulerInv, SchedulerTypeOK, PacingInv, FlowInv, Present, Flows
  <2>2. CASE Observed \notin Present
    BY <1>1, <2>2 DEF ObservedBucket, Bucket, Buckets
  <2> QED BY <2>1, <2>2
<1>3. ObservedCredit = Credit(ObservedBucket, now)
  BY DEF ObservedCredit, Credit, Capacity, Holds, Earned
<1> QED BY <1>1, <1>2, <1>3, CreditBounds DEF ObservedSound

\* The pacing of every flow implements the ideal rate limiter
\* (flow_scheduler.cpp:105-173, token_bucket.cpp).
THEOREM PacingImplementsRateLimiter == SchedulerSpec => FlowIsPaced
<1> DEFINE g == IF Observed \in Present THEN granted[Observed] ELSE 0
           B == ObservedBucket
           C == ObservedCredit
<1> USE IdAssumption
<1>1. SchedulerInit => Limiter!Init
  <2> SUFFICES ASSUME SchedulerInit PROVE Limiter!Init
    OBVIOUS
  <2>1. Observed \notin Present /\ now = 1
    BY DEF SchedulerInit, Present
  <2>2. B = Bucket(0, 0, 1) /\ g = 0
    BY <2>1 DEF ObservedBucket
  <2>3. (0 * (1 - 1)) % (TicksPerSecond * UInt64) = 0
    <3>1. TicksPerSecond * UInt64 \in Nat \ {0}
      BY TicksAssumption, WidthAssumption, CutProduct
    <3>2. 0 % (TicksPerSecond * UInt64) \in Nat /\ 0 % (TicksPerSecond * UInt64) <= 0
      BY <3>1, Remainder
    <3> QED BY <3>2
  <2>4. C = 0 /\ TicksPerSecond * (0 + 1) - 1 \in Nat
    <3>1. C = Least(TicksPerSecond * (0 + 1) - 1,
                    TicksPerSecond * 0 + ((0 * (1 - 1)) % (TicksPerSecond * UInt64)))
      BY <2>1, <2>2 DEF ObservedCredit, Bucket
    <3> QED BY <2>3, <3>1, TicksAssumption DEF Least
  <2> QED BY <2>1, <2>2, <2>4 DEF Limiter!Init, Limiter!Full, Bucket
<1>2. /\ SchedulerInv /\ PacingInv /\ PacingInv' /\ ObservedSound /\ ObservedSound'
      /\ [SchedulerNext]_schedulerVars
      => [Limiter!Next]_(Limiter!limiterVars)
  <2> SUFFICES ASSUME SchedulerInv, PacingInv, PacingInv', ObservedSound, ObservedSound',
                      [SchedulerNext]_schedulerVars
               PROVE  Limiter!Next \/ UNCHANGED <<now, B.rate, B.burst, C, g>>
    BY DEF Limiter!limiterVars
  <2>0. now \in Nat /\ TicksPerSecond \in Nat /\ (Observed \in Present => flows[Observed] \in Flows)
    BY TicksAssumption DEF SchedulerInv, SchedulerTypeOK, Present
  <2>1. ASSUME g' = 0, UNCHANGED now PROVE Limiter!Next
    BY <2>1 DEF Limiter!Next, Limiter!Renew, Limiter!Full, Capacity, Buckets, ObservedSound
  <2>2. ASSUME UNCHANGED now,
               Observed \in Present' => /\ Observed \in Present
                                        /\ flows'[Observed].bucket = flows[Observed].bucket
                                        /\ granted'[Observed] = granted[Observed]
        PROVE  Limiter!Next \/ UNCHANGED <<now, B.rate, B.burst, C, g>>
    <3>1. CASE Observed \in Present'
      <4>1. UNCHANGED <<B, g>>
        BY <2>2, <3>1 DEF ObservedBucket
      <4> QED BY <2>2, <4>1 DEF ObservedCredit
    <3>2. CASE Observed \notin Present'
      BY <2>1, <2>2, <3>2
    <3> QED BY <3>1, <3>2
  <2>3. CASE \E c \in Configs : AddFlow(c)
    <3>1. PICK c \in Configs : AddFlow(c)
      BY <2>3
    <3>2. CASE c.id = Observed
      <4>1. g' = 0
        BY <3>1, <3>2 DEF AddFlow, SchedulerInv, SchedulerTypeOK
      <4> QED BY <2>1, <3>1, <4>1 DEF AddFlow
    <3>3. CASE c.id # Observed
      BY <2>2, <3>1, <3>3, ConfigAssumption
         DEF AddFlow, SchedulerInv, SchedulerTypeOK, Present
    <3> QED BY <3>2, <3>3
  <2>4. CASE \E id \in FlowIds : RemoveFlow(id)
    BY <2>2, <2>4 DEF RemoveFlow, SchedulerInv, SchedulerTypeOK, Present
  <2>5. CASE \E id \in FlowIds : StartFlow(id)
    <3>1. PICK id \in FlowIds : StartFlow(id)
      BY <2>5
    <3>2. CASE id = Observed
      <4>1. g' = 0
        BY <3>1, <3>2 DEF StartFlow, SchedulerInv, SchedulerTypeOK
      <4> QED BY <2>1, <3>1, <4>1 DEF StartFlow
    <3>3. CASE id # Observed
      BY <2>2, <3>1, <3>3 DEF StartFlow, SchedulerInv, SchedulerTypeOK, Present
    <3> QED BY <3>2, <3>3
  <2>6. CASE \E id \in FlowIds : StopFlow(id)
    BY <2>0, <2>2, <2>6 DEF StopFlow, SchedulerInv, SchedulerTypeOK, Present, Flows
  <2>7. CASE ClearAllFlows
    BY <2>2, <2>7 DEF ClearAllFlows, Present
  <2>8. CASE \E max \in MaxBursts : GetReadyFlows(max)
    <3>1. UNCHANGED now /\ (Observed \in Present' => Observed \in Present)
      BY <2>8 DEF GetReadyFlows, Present
    <3>2. CASE /\ Observed \in Present' /\ Running(Observed)
               /\ flows'[Observed] = Polled(Observed)
               /\ granted'[Observed] = IF Grants(Observed) THEN granted[Observed] + 1
                                                           ELSE granted[Observed]
      <4> DEFINE a == AfterConsume(B, 1, now)
                 k == Obtained(B, 1, now)
      <4>1. B = flows[Observed].bucket /\ B' = a /\ g = granted[Observed]
            /\ g' = granted'[Observed]
        BY <2>0, <3>1, <3>2 DEF ObservedBucket, Polled, Flows
      <4>3. /\ a.rate = B.rate /\ a.burst = B.burst
            /\ Credit(a, now) \in Nat
            /\ Credit(a, now) <= Credit(B, now) - TicksPerSecond * k
        BY <2>0, ConsumePays DEF ObservedSound
      <4>4. k \in {0, 1}
        BY <2>0, ConsumedBucket DEF ObservedSound
      <4>5. C' = Credit(a, now) /\ C = Credit(B, now) /\ C \in Nat
        BY <3>1, <4>1 DEF ObservedSound
      <4>6. granted[Observed] \in Nat
        BY DEF SchedulerInv, SchedulerTypeOK
      <4>7. g' = g + k
        BY <3>2, <4>1, <4>4, <4>6 DEF Grants
      <4>8. UNCHANGED <<now, B.rate, B.burst>>
        BY <3>1, <4>1, <4>3
      <4> HIDE DEF a, k, g, B, C
      <4>9. CASE k = 0
        <5>1. C' \in Nat /\ C' <= C
          BY <2>0, <4>3, <4>5, <4>9
        <5>2. g' = g
          BY <4>1, <4>6, <4>7, <4>9
        <5> QED BY <4>8, <5>1, <5>2 DEF Limiter!Next, Limiter!Forfeit, B, C, g
      <4>10. CASE k = 1
        <5>1. C' \in Nat /\ C' <= C - TicksPerSecond
          BY <2>0, <4>3, <4>5, <4>10
        <5> QED BY <4>7, <4>8, <4>10, <5>1 DEF Limiter!Next, Limiter!Grant, B, C, g
      <4> QED BY <4>4, <4>9, <4>10
    <3>3. CASE /\ Observed \in Present'
               /\ flows'[Observed].bucket = flows[Observed].bucket
               /\ granted'[Observed] = granted[Observed]
      BY <2>2, <3>1, <3>3
    <3>4. CASE Observed \notin Present'
      BY <2>2, <3>1, <3>4
    <3>5. \/ ~Running(Observed) /\ flows'[Observed] = Polled(Observed)
             /\ granted'[Observed] = granted[Observed]
          \/ Running(Observed) /\ flows'[Observed] = Polled(Observed)
             /\ granted'[Observed] = IF Grants(Observed) THEN granted[Observed] + 1
                                                         ELSE granted[Observed]
          \/ flows'[Observed] = flows[Observed] /\ granted'[Observed] = granted[Observed]
      BY <2>8 DEF GetReadyFlows, Grants
    <3>6. ASSUME Observed \in Present, ~Running(Observed)
          PROVE  Polled(Observed).bucket = flows[Observed].bucket
      BY <2>0, <3>6 DEF Polled, Flows
    <3> QED BY <3>1, <3>2, <3>3, <3>4, <3>5, <3>6
  <2>9. CASE \E key \in Keys, seg \in Segments : HandleTcpRx(key, seg)
    <3>1. PICK key \in Keys, seg \in Segments : HandleTcpRx(key, seg)
      BY <2>9
    <3> QED BY <2>0, <2>2, <3>1 DEF HandleTcpRx, SchedulerInv, SchedulerTypeOK, Present, Flows
  <2>10. CASE Tick
    <3>1. now' = now + 1 /\ UNCHANGED <<flows, granted>>
      BY <2>10 DEF Tick
    <3>2. g' = g /\ B'.rate = B.rate /\ B'.burst = B.burst
      BY <3>1 DEF ObservedBucket, Present, Bucket
    <3>3. C' \in Nat /\ C' <= Capacity(B') /\ B.rate \in Nat /\ C \in Nat
      BY DEF ObservedSound, Buckets
    <3>4. C' <= C + B.rate
      <4>1. CASE Observed \in Present
        <5>1. B' = B
          BY <3>1, <4>1 DEF ObservedBucket, Present
        <5>2. C' = Credit(B, now + 1) /\ C = Credit(B, now)
          BY <3>1, <5>1 DEF ObservedSound
        <5> QED BY <2>0, <5>2, CreditBounds DEF ObservedSound
      <4>2. CASE Observed \notin Present
        <5>1. B' = Bucket(0, 0, now + 1)
          BY <3>1, <4>2 DEF ObservedBucket, Present
        <5>2. Bucket(0, 0, now + 1) \in Buckets /\ now + 1 \in Nat
          BY <2>0 DEF Bucket, Buckets
        <5>3. Earned(B', now + 1) <= 0 * ((now + 1) - (now + 1))
          BY <5>1, <5>2, BucketNumbers, Remainder DEF Earned, Bucket
        <5>4. C' <= 0
          <6>1. C' = Credit(B', now + 1)
            BY <3>1 DEF ObservedSound
          <6>2. Holds(B', now + 1) = TicksPerSecond * 0 + Earned(B', now + 1)
            BY <5>1 DEF Holds, Bucket
          <6>3. Earned(B', now + 1) \in Nat /\ Capacity(B') \in Nat
            BY <5>1, <5>2, BucketNumbers DEF Bucket
          <6> QED BY <2>0, <5>3, <6>1, <6>2, <6>3 DEF Credit, Least
        <5> QED BY <3>3, <5>4
      <4> QED BY <4>1, <4>2
    <3> HIDE DEF B, C, g
    <3>5. Limiter!Elapse
      <4>1. now' > now /\ now' \in Nat /\ B.rate * (now' - now) = B.rate
        BY <2>0, <3>1, <3>3
      <4>2. Capacity(B') = Capacity(B)
        BY <3>2 DEF Capacity
      <4>3. C' <= C + B.rate * (now' - now)
        BY <3>4, <4>1
      <4> QED BY <3>2, <3>3, <4>1, <4>2, <4>3
              DEF Limiter!Elapse, Limiter!Full, Capacity, B, C, g
    <3> QED BY <3>5 DEF Limiter!Next
  <2>11. CASE UNCHANGED schedulerVars
    BY <2>2, <2>11 DEF schedulerVars, Present
  <2> QED BY <2>3, <2>4, <2>5, <2>6, <2>7, <2>8, <2>9, <2>10, <2>11 DEF SchedulerNext
<1> QED BY <1>1, <1>2, ObservedState, SchedulerInvariant, PacingInvariant, PTL
        DEF SchedulerSpec, FlowIsPaced, Limiter!Spec

=============================================================================
