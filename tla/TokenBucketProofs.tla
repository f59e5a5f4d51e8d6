------------------------- MODULE TokenBucketProofs -------------------------
(***************************************************************************)
(* Theorems about TokenBucket for any number of threads, any rates, burst  *)
(* sizes, requests and clock bound, and any width of the integers.         *)
(***************************************************************************)
EXTENDS TokenBucket, TokenBucketOpsProofs

-----------------------------------------------------------------------------
(* Type correctness. *)

\* Every variable keeps its type (token_bucket.hpp:40-45).
THEOREM TypeCorrect == Spec => []TypeOK
<1> USE ThreadAssumption, RateAssumption, BurstAssumption, RequestAssumption,
        DisciplineAssumption
<1>1. Init => TypeOK
  BY DEF Init, TypeOK, Places
<1>2. TypeOK /\ [Next]_vars => TypeOK'
  <2> SUFFICES ASSUME TypeOK, [Next]_vars PROVE TypeOK'
    OBVIOUS
  <2> USE DEF TypeOK, Places, Goto, Return, Unlock, MayCall, atomics, mutex, calls, past
  <2>1. CASE Tick
    BY <2>1 DEF Tick
  <2>2. CASE UNCHANGED vars
    BY <2>2 DEF vars
  <2>3. ASSUME NEW t \in Threads, Step(t) PROVE TypeOK'
    <3>1. CASE \E n \in Requests : CallTryConsume(t, n)
      BY <3>1 DEF CallTryConsume
    <3>2. CASE SkipRefill(t)
      BY <3>2 DEF SkipRefill
    <3>3. CASE BeginRefill(t)
      <4>1. TokensDue(rate, clock - last) \in Nat
        BY <3>3, RefillBound, RateAssumption DEF BeginRefill, RefillIsDue
      <4> QED BY <3>3, <4>1 DEF BeginRefill
    <3>4. CASE StoreRefill(t)
      <4>1. ToppedUp(seen[t], due, burst) \in Nat
        BY TopUpBound
      <4> QED BY <3>4, <4>1 DEF StoreRefill
    <3>5. CASE LoadTokens(t)
      BY <3>5 DEF LoadTokens
    <3>6. CASE TakeTokens(t)
      <4>1. /\ Least(want[t], tokens) \in Nat
            /\ tokens - Least(want[t], tokens) \in Nat
        BY DEF Least
      <4> QED BY <3>6, <4>1 DEF TakeTokens
    <3>7. CASE RetryTake(t)
      BY <3>7 DEF RetryTake
    <3>8. CASE Reset(t)
      BY <3>8 DEF Reset
    <3>9. CASE \E r \in Rates : SetRate(t, r)
      BY <3>9 DEF SetRate
    <3>10. CASE \E b \in Bursts : SetBurstSize(t, b)
      BY <3>10 DEF SetBurstSize
    <3>11. CASE ClampTokens(t)
      BY <3>11 DEF ClampTokens
    <3> QED BY <2>3, <3>1, <3>2, <3>3, <3>4, <3>5, <3>6, <3>7, <3>8, <3>9, <3>10, <3>11
            DEF Step
  <2> QED BY <2>1, <2>2, <2>3 DEF Next
<1> QED BY <1>1, <1>2, PTL DEF Spec

-----------------------------------------------------------------------------
(* The mutex, and the burst size. *)

\* mutex_ has one owner: the thread between the two halves of a refill or of
\* set_burst_size.
MutexInv == \A t \in Threads : pc[t] \in {"refill", "clamp"} <=> owner = t

\* Whatever the callers interleave, mutex_ is held by the thread whose code
\* holds it and by no other.
THEOREM MutexExclusive == Spec => []MutexInv
<1> USE ThreadAssumption
<1>1. Init => MutexInv
  BY DEF Init, MutexInv
<1>2. TypeOK /\ MutexInv /\ [Next]_vars => MutexInv'
  BY DEF TypeOK, MutexInv, Next, Step, vars, Places, Goto, Return, Unlock, MayCall,
         atomics, mutex, calls, past, Tick, CallTryConsume, SkipRefill, BeginRefill,
         StoreRefill, LoadTokens, TakeTokens, RetryTake, Reset, SetRate, SetBurstSize,
         ClampTokens
<1> QED BY <1>1, <1>2, TypeCorrect, PTL DEF Spec

\* A bucket never holds more than its burst size, for callers that share
\* nothing but the bucket too.
THEOREM BurstRespected == Spec => []TokensWithinBurst
<1> USE ThreadAssumption, BurstAssumption
<1>1. Init => TokensWithinBurst
  BY DEF Init, TokensWithinBurst
<1>2. TypeOK /\ MutexInv /\ TokensWithinBurst /\ [Next]_vars => TokensWithinBurst'
  <2> SUFFICES ASSUME TypeOK, MutexInv, TokensWithinBurst, [Next]_vars
               PROVE  TokensWithinBurst'
    OBVIOUS
  <2> USE DEF TypeOK, Places, MutexInv, TokensWithinBurst, Goto, Return, Unlock, MayCall,
              atomics, mutex, calls, past
  <2>1. CASE Tick
    BY <2>1 DEF Tick
  <2>2. CASE UNCHANGED vars
    BY <2>2 DEF vars
  <2>3. ASSUME NEW t \in Threads, Step(t) PROVE TokensWithinBurst'
    <3>1. CASE StoreRefill(t)
      <4>1. ToppedUp(seen[t], due, burst) <= burst
        BY TopUpBound
      <4> QED BY <3>1, <4>1 DEF StoreRefill
    <3>2. CASE TakeTokens(t)
      <4>1. tokens' \in Nat /\ tokens' <= tokens
        BY <3>2 DEF TakeTokens, Least
      <4> QED BY <3>2, <4>1 DEF TakeTokens
    <3>3. CASE \E b \in Bursts : SetBurstSize(t, b)
      BY <3>3 DEF SetBurstSize
    <3>4. CASE Reset(t) \/ ClampTokens(t)
      BY <3>4 DEF Reset, ClampTokens
    <3>5. CASE \/ \E n \in Requests : CallTryConsume(t, n)
               \/ SkipRefill(t) \/ BeginRefill(t) \/ LoadTokens(t) \/ RetryTake(t)
               \/ \E r \in Rates : SetRate(t, r)
      BY <3>5 DEF CallTryConsume, SkipRefill, BeginRefill, LoadTokens, RetryTake, SetRate
    <3> QED BY <2>3, <3>1, <3>2, <3>3, <3>4, <3>5 DEF Step
  <2> QED BY <2>1, <2>2, <2>3 DEF Next
<1> QED BY <1>1, <1>2, TypeCorrect, MutexExclusive, PTL DEF Spec

-----------------------------------------------------------------------------
(* The rate.  RateKept is not inductive by itself: a refill stores what it   *)
(* computed from values loaded before, so the invariant says that for callers *)
(* that take turns those values are still true, and what the refill under way *)
(* is worth.                                                                  *)

Alone == \A t, u \in Threads : pc[t] # "idle" /\ pc[u] # "idle" => t = u

RefillSound(t) ==
  /\ seen[t] = tokens
  /\ last <= stamp /\ stamp <= clock
  /\ TicksPerSecond * due <= MaxRate * (stamp - last)

RateInv ==
  serialised => /\ Alone
                /\ last <= clock
                /\ RateKept
                /\ \A t \in Threads : pc[t] = "refill" => RefillSound(t)
                /\ \A t \in Threads : pc[t] = "clamp" => burst <= tokens

\* In every use the program makes of a bucket its rate is kept: burst plus
\* earnings since the reset, for all rates, sizes, widths and thread counts.
THEOREM RateControl == Spec => []RateBound
<1> USE ThreadAssumption, BurstAssumption, TicksAssumption, RateAssumption
<1>1. Init => RateInv
  BY DEF Init, RateInv, RateKept, Alone
<1>2. TypeOK /\ RateInv /\ [Next]_vars => RateInv'
  <2> SUFFICES ASSUME TypeOK, RateInv, [Next]_vars, serialised'
               PROVE  RateInv'
    BY DEF RateInv
  <2>0. serialised /\ UNCHANGED serialised
    BY DEF Next, Step, vars, Tick, CallTryConsume, SkipRefill, BeginRefill, StoreRefill,
           LoadTokens, TakeTokens, RetryTake, Reset, SetRate, SetBurstSize, ClampTokens
  <2> USE <2>0 DEF TypeOK, Places, RateInv, Alone, RateKept, RefillSound, Goto, Return,
                   Unlock, MayCall, atomics, mutex, calls, past
  <2>1. CASE Tick
    BY <2>1 DEF Tick
  <2>2. CASE UNCHANGED vars
    BY <2>2 DEF vars
  <2>3. ASSUME NEW t \in Threads, Step(t) PROVE RateInv'
    <3>1. CASE \E n \in Requests : CallTryConsume(t, n)
      BY <3>1 DEF CallTryConsume
    <3>2. CASE SkipRefill(t)
      BY <3>2 DEF SkipRefill
    <3>3. CASE BeginRefill(t)
      <4>1. rate \in Nat /\ MaxRate \in Nat /\ rate <= MaxRate /\ clock - last \in Nat
        BY <3>3 DEF BeginRefill, RefillIsDue
      <4>2. TicksPerSecond * TokensDue(rate, clock - last) <= MaxRate * (clock - last)
        BY <4>1, RefillBound
      <4> QED BY <3>3, <4>2 DEF BeginRefill
    <3>4. CASE StoreRefill(t)
      <4> DEFINE filled == ToppedUp(seen[t], due, burst)
      <4>1. RefillSound(t)
        BY <3>4 DEF StoreRefill
      <4>2. filled \in Nat /\ filled <= tokens + due
        BY <4>1, TopUpBound
      <4>3. TicksPerSecond * (granted + filled)
              <= TicksPerSecond * base + MaxRate * (stamp - resetAt)
        <5> HIDE DEF filled
        <5> QED BY <4>1, <4>2, RefillKeepsRate
      <4>4. tokens' = filled /\ last' = stamp /\ UNCHANGED <<granted, base, resetAt>>
        BY <3>4 DEF StoreRefill
      <4> HIDE DEF filled
      <4>5. RateKept'
        BY <4>1, <4>3, <4>4
      <4>6. \A u \in Threads : pc'[u] \notin {"refill", "clamp"}
        BY <3>4 DEF StoreRefill
      <4>7. Alone' /\ last' <= clock'
        BY <3>4, <4>1 DEF StoreRefill
      <4> HIDE DEF RateKept, Alone
      <4> QED BY <4>5, <4>6, <4>7
    <3>5. CASE LoadTokens(t) \/ RetryTake(t)
      BY <3>5 DEF LoadTokens, RetryTake
    <3>6. CASE TakeTokens(t)
      <4>1. granted' + tokens' = granted + tokens
        BY <3>6 DEF TakeTokens, Least
      <4> QED BY <3>6, <4>1 DEF TakeTokens
    <3>7. CASE Reset(t)
      BY <3>7 DEF Reset
    <3>8. CASE \E r \in Rates : SetRate(t, r)
      BY <3>8 DEF SetRate
    <3>9. CASE \E b \in Bursts : SetBurstSize(t, b)
      BY <3>9 DEF SetBurstSize
    <3>10. CASE ClampTokens(t)
      BY <3>10 DEF ClampTokens
    <3> QED BY <2>3, <3>1, <3>2, <3>3, <3>4, <3>5, <3>6, <3>7, <3>8, <3>9, <3>10 DEF Step
  <2> QED BY <2>1, <2>2, <2>3 DEF Next
<1>3. RateInv => RateBound
  BY DEF RateInv, RateBound
<1> QED BY <1>1, <1>2, <1>3, TypeCorrect, PTL DEF Spec
=============================================================================
