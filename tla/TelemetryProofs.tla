-------------------------- MODULE TelemetryProofs --------------------------
(***************************************************************************)
(* Theorems about the collector and the workers that report to it, for any *)
(* cores, pollers, mbufs, bursts, bounds and clock.                        *)
(***************************************************************************)
EXTENDS Telemetry, SumProofs

-----------------------------------------------------------------------------
(* The collector: counters, snapshots and those who poll. *)

Kinds   == {"tx_packets", "tx_bytes"}
Entries == (Cores \X Kinds) \cup {Latency}

CountInv ==
  /\ count \in [Cores -> [DOMAIN Zero -> Nat]]
  /\ total \in [Cores -> [DOMAIN Zero -> Nat]]

\* What a snapshot is to the counters of its core: they grew by no more than was
\* counted since its clock was read, and no reset that is over left it ahead.
SnapRight(s, c) ==
  /\ s.time \in Nat
  /\ \A k \in Kinds :
       /\ s[k] \in Nat /\ s.base[k] \in Nat
       /\ s.base[k] <= total[c][k]
       /\ count[c][k] + s.base[k] <= total[c][k] + s[k]
       /\ resetting \in {"no", "finish"} => s[k] <= count[c][k]

SnapInv ==
  /\ snap = [c \in Cores |-> snap[c]]
  /\ resetting \in {"no", "stores", "clear", "finish"}
  /\ \A c \in Cores : snap[c] # NoSnapshot => SnapRight(snap[c], c)

MutexInv ==
  /\ snapMutex \in Pollers \cup {Nobody}
  /\ \A p \in Pollers : snapMutex = p <=> pollers[p].at \in {"store", "load"}

PollerFields == {"at", "todo", "now", "base", "rate", "owed", "shown", "last", "wait"}

IsPoller(q) == q = [field \in PollerFields |-> q[field]]

RateRight(rate) == rate # NoRate => rate.elapsed > 0 /\ rate.delta <= rate.sent

\* A poller is about to read a rate of some core as long as it is in a critical
\* section, and its snapshot is older than the clock it read.
PollerRight(q) ==
  /\ IsPoller(q)
  /\ q.at \in {"idle", "update", "store", "rate", "load"} /\ q.now \in Nat
  /\ q.todo \in Seq(Entries)
  /\ q.at # "idle" => q.todo # << >>
  /\ q.at \in {"store", "rate", "load"} => Head(q.todo) # Latency
  /\ q.at = "store" =>
       \A k \in Kinds : q.base[k] \in Nat /\ q.base[k] <= total[Head(q.todo)[1]][k]
  /\ q.at = "load" =>
       snap[Head(q.todo)[1]] # NoSnapshot /\ snap[Head(q.todo)[1]].time < q.now
  /\ RateRight(q.rate)

PollInv ==
  /\ clock \in Nat
  /\ pollers = [p \in Pollers |-> pollers[p]]
  /\ \A p \in Pollers : PollerRight(pollers[p])

CollectorInv == CountInv /\ SnapInv /\ MutexInv /\ PollInv

\* The counters of a core (types.hpp:81-87), all 0 after CoreStats::reset.
LEMMA CounterNames ==
  /\ DOMAIN Zero = {"tx_packets", "rx_packets", "tx_bytes", "rx_bytes", "errors"}
  /\ Zero \in [DOMAIN Zero -> Nat]
  /\ \A k \in DOMAIN Zero : Zero[k] = 0
<1>1. DOMAIN Counters = 1 .. 5
  BY DEF Counters
<1>2. {Counters[i] : i \in DOMAIN Counters} =
        {"tx_packets", "rx_packets", "tx_bytes", "rx_bytes", "errors"}
  BY <1>1 DEF Counters
<1>3. /\ Zero \in [DOMAIN Zero -> Nat]
      /\ \A k \in DOMAIN Zero : Zero[k] = 0
  BY DEF Zero
<1>4. DOMAIN Zero = {Counters[i] : i \in DOMAIN Counters}
  BY DEF Zero
<1> QED BY <1>2, <1>3, <1>4

\* A collector that was initialized has counted nothing and has no snapshots.
LEMMA CollectorInit == MetricsInit => CollectorInv
<1> SUFFICES ASSUME MetricsInit PROVE CollectorInv
  OBVIOUS
<1>1. CountInv
  BY CounterNames DEF MetricsInit, CountInv
<1>2. SnapInv
  BY DEF MetricsInit, SnapInv
<1>3. MutexInv
  BY CollectorAssumption DEF MetricsInit, MutexInv, Idle
<1>4. PollInv
  <2>1. PollerRight(Idle)
    BY DEF PollerRight, IsPoller, PollerFields, RateRight, Idle
  <2>2. pollers = [p \in Pollers |-> Idle] /\ clock = 0
    BY DEF MetricsInit
  <2> QED BY <2>1, <2>2, Zenon DEF PollInv
<1> QED BY <1>1, <1>2, <1>3, <1>4 DEF CollectorInv

\* What the first entry of a list of rates is.
LEMMA FirstEntry ==
  ASSUME NEW q, q.todo \in Seq(Entries), q.todo # << >>, Head(q.todo) # Latency
  PROVE  Head(q.todo)[1] \in Cores /\ Head(q.todo)[2] \in Kinds
<1>1. Head(q.todo) \in Entries
  OBVIOUS
<1> QED BY <1>1 DEF Entries

\* Snapshots under counters that move: a counter grows with what was counted, or
\* is cleared by a reset that has yet to clear the snapshots.
LEMMA SnapshotsKeep ==
  ASSUME CountInv, CountInv', SnapInv, UNCHANGED snap,
         resetting' \in {"no", "stores", "clear", "finish"},
         \A c \in Cores, k \in Kinds :
           /\ total[c][k] <= total'[c][k]
           /\ \/ count'[c][k] = 0
              \/ count'[c][k] + total[c][k] <= count[c][k] + total'[c][k],
         resetting' \in {"no", "finish"} =>
           /\ resetting \in {"no", "finish"}
           /\ \A c \in Cores, k \in Kinds : count[c][k] <= count'[c][k]
  PROVE  SnapInv'
<1> SUFFICES ASSUME NEW c \in Cores, snap[c] # NoSnapshot PROVE SnapRight(snap[c], c)'
  BY DEF SnapInv
<1>1. SnapRight(snap[c], c)
  BY DEF SnapInv
<1> SUFFICES ASSUME NEW k \in Kinds
             PROVE  /\ snap[c].base[k] <= total'[c][k]
                    /\ count'[c][k] + snap[c].base[k] <= total'[c][k] + snap[c][k]
                    /\ resetting' \in {"no", "finish"} => snap[c][k] <= count'[c][k]
  BY <1>1 DEF SnapRight
<1>2. /\ snap[c][k] \in Nat /\ snap[c].base[k] \in Nat
      /\ snap[c].base[k] <= total[c][k]
      /\ count[c][k] + snap[c].base[k] <= total[c][k] + snap[c][k]
      /\ resetting \in {"no", "finish"} => snap[c][k] <= count[c][k]
  BY <1>1 DEF SnapRight
<1>3. /\ count[c][k] \in Nat /\ total[c][k] \in Nat /\ count'[c][k] \in Nat /\ total'[c][k] \in Nat
  BY CounterNames DEF CountInv, Kinds
<1>4. total[c][k] <= total'[c][k]
  OBVIOUS
<1>5. CASE count'[c][k] = 0
  BY <1>2, <1>3, <1>4, <1>5
<1>6. CASE count'[c][k] + total[c][k] <= count[c][k] + total'[c][k]
  BY <1>2, <1>3, <1>4, <1>6
<1> QED BY <1>5, <1>6

\* Pollers, when what was counted only grows and nobody else touches them.
LEMMA PollersKeep ==
  ASSUME CountInv, CountInv', PollInv, UNCHANGED <<clock, pollers, snap>>,
         \A c \in Cores, k \in Kinds : total[c][k] <= total'[c][k]
  PROVE  PollInv'
<1> SUFFICES ASSUME NEW p \in Pollers PROVE PollerRight(pollers[p])'
  BY DEF PollInv
<1> DEFINE q == pollers[p]
<1>1. PollerRight(q)
  BY DEF PollInv
<1>2. q.at = "store" =>
        \A k \in Kinds : q.base[k] \in Nat /\ q.base[k] <= total'[Head(q.todo)[1]][k]
  <2> SUFFICES ASSUME q.at = "store", NEW k \in Kinds
               PROVE  q.base[k] \in Nat /\ q.base[k] <= total'[Head(q.todo)[1]][k]
    OBVIOUS
  <2> DEFINE c == Head(q.todo)[1]
  <2>1. c \in Cores
    BY <1>1, FirstEntry DEF PollerRight
  <2>2. q.base[k] \in Nat /\ q.base[k] <= total[c][k]
    BY <1>1 DEF PollerRight
  <2>3. total[c][k] \in Nat /\ total'[c][k] \in Nat
    BY <2>1, CounterNames DEF CountInv, Kinds
  <2> HIDE DEF c
  <2>4. q.base[k] <= total'[c][k]
    BY <2>1, <2>2, <2>3
  <2> QED BY <2>2, <2>4 DEF c
<1> QED BY <1>1, <1>2 DEF PollerRight, RateRight

\* One fetch_add of a worker.
LEMMA CollectorCounts ==
  ASSUME CollectorInv, NEW c, NEW k \in DOMAIN Zero, NEW n \in Nat, FetchAdd(c, k, n),
         UNCHANGED <<clock, snap, resetting, snapMutex, pollers>>
  PROVE  CollectorInv'
<1>0. CASE c \notin Cores
  BY <1>0
  DEF FetchAdd, traffic, CollectorInv, CountInv, SnapInv, SnapRight, MutexInv, PollInv, PollerRight
<1> SUFFICES ASSUME c \in Cores PROVE CollectorInv'
  BY <1>0
<1>1. CountInv'
  <2>1. /\ count' = [count EXCEPT ![c][k] = @ + n] /\ total' = [total EXCEPT ![c][k] = @ + n]
        /\ count \in [Cores -> [DOMAIN Zero -> Nat]] /\ total \in [Cores -> [DOMAIN Zero -> Nat]]
    BY DEF CollectorInv, CountInv, FetchAdd
  <2> QED BY <2>1 DEF CountInv
<1>2. \A d \in Cores, j \in DOMAIN Zero :
        LET m == IF d = c /\ j = k THEN n ELSE 0 IN
          /\ count[d][j] \in Nat /\ total[d][j] \in Nat
          /\ count'[d][j] = count[d][j] + m /\ total'[d][j] = total[d][j] + m
  BY DEF CollectorInv, CountInv, FetchAdd
<1>3. \A d \in Cores, j \in Kinds :
        /\ count[d][j] <= count'[d][j] /\ total[d][j] <= total'[d][j]
        /\ count'[d][j] + total[d][j] <= count[d][j] + total'[d][j]
  BY <1>2, CounterNames DEF Kinds
<1>4. SnapInv'
  BY <1>1, <1>3, SnapshotsKeep DEF CollectorInv, SnapInv
<1>5. PollInv'
  BY <1>1, <1>3, PollersKeep DEF CollectorInv
<1> QED BY <1>1, <1>4, <1>5 DEF CollectorInv, MutexInv

\* One step of reset_all (metrics_collector.cpp:119-135), while others go on.
LEMMA CollectorResets ==
  ASSUME CollectorInv, ResetStep
  PROVE  CollectorInv'
<1>1. UNCHANGED <<clock, total, snapMutex, pollers>> /\ MutexInv'
  BY DEF ResetStep, BeginReset, StoreZero, ClearSnapshots, FinishReset, polling, traffic, locks,
         CollectorInv, MutexInv
<1>2. CASE BeginReset \/ FinishReset
  <2>1. /\ UNCHANGED <<count, snap>>
        /\ resetting' \in {"no", "stores"} /\ (resetting' = "no" => resetting = "finish")
    BY <1>2 DEF BeginReset, FinishReset, traffic
  <2> QED BY <1>1, <2>1 DEF CollectorInv, CountInv, SnapInv, SnapRight, PollInv, PollerRight
<1>3. CASE StoreZero
  <2>1. /\ UNCHANGED snap /\ resetting' \in {"stores", "clear"}
        /\ count' = [count EXCEPT ![Head(stores)[1]][Head(stores)[2]] = 0]
    BY <1>3 DEF StoreZero
  <2>2. \A c \in Cores :
          /\ count'[c] \in [DOMAIN Zero -> Nat]
          /\ \A k \in DOMAIN Zero : count'[c][k] \in {0, count[c][k]}
    BY <2>1 DEF CollectorInv, CountInv
  <2>3. CountInv'
    BY <1>1, <2>1, <2>2 DEF CollectorInv, CountInv
  <2>4. \A c \in Cores, k \in Kinds :
          /\ total[c][k] <= total'[c][k]
          /\ \/ count'[c][k] = 0
             \/ count'[c][k] + total[c][k] <= count[c][k] + total'[c][k]
    BY <1>1, <2>2, CounterNames DEF CollectorInv, CountInv, Kinds
  <2>5. SnapInv'
    BY <2>1, <2>3, <2>4, SnapshotsKeep DEF CollectorInv
  <2>6. PollInv'
    BY <1>1, <2>1, <2>3, <2>4, PollersKeep DEF CollectorInv
  <2> QED BY <1>1, <2>3, <2>5, <2>6 DEF CollectorInv
<1>4. CASE ClearSnapshots
  <2>1. /\ snap' = [c \in Cores |-> NoSnapshot] /\ resetting' = "finish" /\ UNCHANGED count
        /\ snapMutex = Nobody
    BY <1>4 DEF ClearSnapshots, traffic
  <2>2. \A p \in Pollers : pollers[p].at # "load"
    BY <2>1, CollectorAssumption DEF CollectorInv, MutexInv
  <2> QED BY <1>1, <2>1, <2>2 DEF CollectorInv, CountInv, SnapInv, PollInv, PollerRight
<1> QED BY <1>2, <1>3, <1>4 DEF ResetStep

\* Time alone disturbs nothing: every time that was read is in the past.
LEMMA CollectorWaits ==
  ASSUME CollectorInv, PassTime
  PROVE  CollectorInv'
<1>1. /\ UNCHANGED <<count, total, snap, resetting, snapMutex>> /\ clock' = clock + 1
      /\ pollers' = [p \in Pollers |-> [pollers[p] EXCEPT !.wait = IF @ = 0 THEN 0 ELSE @ - 1]]
  BY DEF PassTime, traffic, locks, reset
<1>2. ASSUME NEW p \in Pollers
      PROVE  /\ IsPoller(pollers'[p])
             /\ pollers'[p].at = pollers[p].at /\ pollers'[p].todo = pollers[p].todo
             /\ pollers'[p].now = pollers[p].now /\ pollers'[p].base = pollers[p].base
             /\ pollers'[p].rate = pollers[p].rate
  <2>1. IsPoller(pollers[p])
    BY DEF CollectorInv, PollInv, PollerRight
  <2>2. pollers'[p] = [pollers[p] EXCEPT !.wait = IF @ = 0 THEN 0 ELSE @ - 1]
    BY <1>1
  <2> QED BY <2>1, <2>2 DEF IsPoller, PollerFields
<1>3. \A p \in Pollers : PollerRight(pollers[p])'
  BY <1>1, <1>2 DEF CollectorInv, PollInv, PollerRight
<1>4. PollInv'
  <2>1. clock' \in Nat /\ pollers' = [p \in Pollers |-> pollers'[p]]
    BY <1>1 DEF CollectorInv, PollInv
  <2> QED BY <1>3, <2>1 DEF PollInv
<1> QED BY <1>1, <1>2, <1>4 DEF CollectorInv, CountInv, SnapInv, SnapRight, MutexInv

\* What a call is to read.
LEMMA AllCores ==
  ASSUME NEW k \in Kinds
  PROVE  /\ [i \in 1 .. NumCores |-> <<i - 1, k>>] \in Seq(Entries)
         /\ Len([i \in 1 .. NumCores |-> <<i - 1, k>>]) = NumCores
<1>1. NumCores \in Nat
  BY CollectorAssumption
<1>2. \A i \in 1 .. NumCores : <<i - 1, k>> \in Entries
  BY <1>1 DEF Entries, Cores
<1> QED BY <1>1, <1>2

\* A concatenation is as long as its parts.
LEMMA NotEmpty ==
  ASSUME NEW S, NEW a \in Seq(S), NEW b \in Seq(S), Len(a) # 0 \/ Len(b) # 0
  PROVE  a \o b \in Seq(S) /\ a \o b # << >> /\ Len(a \o b) # 0
OBVIOUS

\* A sequence with one more element is a sequence of the same elements.
LEMMA AppendType ==
  ASSUME NEW S, NEW a \in Seq(S), NEW e \in S
  PROVE  Append(a, e) \in Seq(S) /\ Append(a, e) # << >> /\ Len(Append(a, e)) # 0
OBVIOUS

\* Every request of a client asks for at least one number.
LEMMA PlanType ==
  ASSUME NEW request \in {"GetStats", "GetMetrics", "per core"}
  PROVE  Plan(request) \in Seq(Entries) /\ Plan(request) # << >>
<1> DEFINE tx    == [i \in 1 .. NumCores |-> <<i - 1, "tx_packets">>]
           bytes == [i \in 1 .. NumCores |-> <<i - 1, "tx_bytes">>]
<1>1. /\ tx \in Seq(Entries) /\ Len(tx) # 0
      /\ bytes \in Seq(Entries) /\ Len(bytes) # 0
  BY AllCores, CollectorAssumption DEF Kinds
<1>2. Plan(request) \in {tx \o bytes, Append(tx \o bytes, Latency),
                        Append(tx \o bytes, Latency) \o tx}
  BY DEF Plan
<1>3. Latency \in Entries
  BY DEF Entries
<1> HIDE DEF tx, bytes
<1>4. tx \o bytes \in Seq(Entries) /\ tx \o bytes # << >>
  BY <1>1, NotEmpty
<1>5. /\ Append(tx \o bytes, Latency) \in Seq(Entries)
      /\ Append(tx \o bytes, Latency) # << >>
      /\ Len(Append(tx \o bytes, Latency)) # 0
  BY <1>3, <1>4, AppendType
<1>6. /\ Append(tx \o bytes, Latency) \o tx \in Seq(Entries)
      /\ Append(tx \o bytes, Latency) \o tx # << >>
  BY <1>1, <1>5, NotEmpty
<1> QED BY <1>2, <1>4, <1>5, <1>6

\* A poller that goes on with its plan after a rate is in order.
LEMMA NextRateRight ==
  ASSUME NEW p \in Pollers, PollerRight(pollers[p]), pollers[p].at # "idle",
         NEW result, RateRight(result)
  PROVE  PollerRight(NextRate(p, result)) /\ NextRate(p, result).at \in {"idle", "update"}
<1> DEFINE q == pollers[p]
           rest == Tail(q.todo)
           n == NextRate(p, result)
<1>1. rest \in Seq(Entries)
  BY DEF PollerRight
<1>2. /\ IsPoller(n) /\ n.todo = rest /\ n.now = 0 /\ n.rate = result
      /\ n.at = IF rest = << >> THEN "idle" ELSE "update"
  BY DEF PollerRight, IsPoller, PollerFields, NextRate
<1> HIDE DEF n, rest, q
<1>3. PollerRight(n) /\ n.at \in {"idle", "update"}
  BY <1>1, <1>2 DEF PollerRight
<1> QED BY <1>3 DEF n

\* One poller goes on outside its critical sections.
LEMMA OnePoller ==
  ASSUME CollectorInv, NEW p \in Pollers, NEW q, PollerRight(q),
         pollers' = [pollers EXCEPT ![p] = q],
         UNCHANGED <<clock, count, total, snap, resetting>>,
         \/ /\ UNCHANGED snapMutex
            /\ pollers[p].at \in {"store", "load"} <=> q.at \in {"store", "load"}
         \/ snapMutex = Nobody /\ snapMutex' = p /\ q.at \in {"store", "load"}
         \/ snapMutex = p /\ snapMutex' = Nobody /\ q.at \notin {"store", "load"}
  PROVE  CollectorInv'
<1>1. pollers' = [r \in Pollers |-> IF r = p THEN q ELSE pollers[r]]
  BY DEF CollectorInv, PollInv
<1>2. \A r \in Pollers : PollerRight(pollers'[r])
  BY <1>1 DEF CollectorInv, PollInv
<1>3. PollInv'
  <2>1. \A r \in Pollers : PollerRight(pollers[r])'
    BY <1>2 DEF PollerRight
  <2> QED BY <1>1, <2>1 DEF CollectorInv, PollInv
<1>4. MutexInv'
  BY <1>1, CollectorAssumption DEF CollectorInv, MutexInv
<1> QED BY <1>3, <1>4 DEF CollectorInv, CountInv, SnapInv, SnapRight

\* One critical section of a poll (metrics_collector.cpp:137-231, 285-310).
LEMMA CollectorPolls ==
  ASSUME CollectorInv, NEW p \in Pollers, PollStep(p)
  PROVE  CollectorInv'
<1> DEFINE q == pollers[p]
<1>0. /\ PollerRight(q)
      /\ UNCHANGED <<clock, count, total, resetting>>
  BY DEF CollectorInv, PollInv, PollStep, BeginPoll, ReadClock, StoreSnapshot, FindSnapshot,
         LoadCounter, ReadLatency, traffic, reset
<1>1. CASE BeginPoll(p)
  <2>1. PICK r \in Requests :
          pollers' = [pollers EXCEPT ![p].at = "update", ![p].todo = Plan(r), ![p].shown = FALSE,
                                     ![p].owed = Owed(pollers[p].last)]
    BY <1>1 DEF BeginPoll
  <2> DEFINE n == [q EXCEPT !.at = "update", !.todo = Plan(r), !.shown = FALSE,
                            !.owed = Owed(pollers[p].last)]
  <2>2. pollers' = [pollers EXCEPT ![p] = n] /\ UNCHANGED <<snap, snapMutex>> /\ q.at = "idle"
    BY <1>1, <2>1 DEF BeginPoll, locks, At, CollectorInv, PollInv
  <2>3. Plan(r) \in Seq(Entries) /\ Plan(r) # << >>
    BY PlanType, CollectorAssumption
  <2>4. PollerRight(n) /\ n.at = "update"
    <3>1. /\ IsPoller(n) /\ n.at = "update" /\ n.todo = Plan(r)
          /\ n.now = q.now /\ n.rate = q.rate
      BY <1>0 DEF PollerRight, IsPoller, PollerFields
    <3> HIDE DEF n
    <3> QED BY <1>0, <2>3, <3>1 DEF PollerRight
  <2> HIDE DEF n
  <2> QED BY <1>0, <2>2, <2>4, OnePoller
<1>2. CASE ReadClock(p)
  <2> DEFINE n == [q EXCEPT !.at = "store", !.now = clock, !.rate = NoRate,
                            !.base = Totals(Core(p))]
  <2>1. /\ pollers' = [pollers EXCEPT ![p] = n] /\ UNCHANGED snap
        /\ snapMutex = Nobody /\ snapMutex' = p
        /\ q.at = "update" /\ Head(q.todo) # Latency
    BY <1>2 DEF ReadClock, At, CollectorInv, PollInv
  <2>2. Core(p) \in Cores /\ Core(p) = Head(q.todo)[1]
    BY <1>0, <2>1, FirstEntry DEF PollerRight, Core
  <2>3. \A k \in Kinds : Totals(Core(p))[k] \in Nat /\ Totals(Core(p))[k] <= total[Core(p)][k]
    BY <2>2, CounterNames DEF CollectorInv, CountInv, Totals, Kinds
  <2>4. /\ IsPoller(n) /\ n.at = "store" /\ n.now = clock /\ n.rate = NoRate
        /\ n.base = Totals(Core(p)) /\ n.todo = q.todo
    BY <1>0 DEF PollerRight, IsPoller, PollerFields
  <2> HIDE DEF n
  <2>5. PollerRight(n)
    BY <1>0, <2>1, <2>2, <2>3, <2>4 DEF PollerRight, RateRight, CollectorInv, PollInv
  <2> QED BY <1>0, <2>1, <2>4, <2>5, OnePoller
<1>3. CASE FindSnapshot(p)
  <2>1. q.at = "rate" /\ UNCHANGED snap
    BY <1>3 DEF FindSnapshot, At
  <2>2. CASE pollers' = [pollers EXCEPT ![p] = NextRate(p, NoRate)] /\ UNCHANGED snapMutex
    <3>1. PollerRight(NextRate(p, NoRate)) /\ NextRate(p, NoRate).at \in {"idle", "update"}
      BY <1>0, <2>1, NextRateRight DEF RateRight
    <3> QED BY <1>0, <2>1, <2>2, <3>1, OnePoller
  <2>3. CASE ~(snap[Core(p)] = NoSnapshot \/ clock <= snap[Core(p)].time)
    <3> DEFINE n == [q EXCEPT !.at = "load", !.now = clock]
    <3>1. pollers' = [pollers EXCEPT ![p] = n] /\ snapMutex = Nobody /\ snapMutex' = p
      BY <1>3, <2>3 DEF FindSnapshot, CollectorInv, PollInv
    <3>2. Core(p) \in Cores /\ Core(p) = Head(q.todo)[1]
      BY <1>0, <2>1, FirstEntry DEF PollerRight, Core
    <3>3. snap[Core(p)] # NoSnapshot /\ snap[Core(p)].time < clock
      BY <2>3, <3>2 DEF CollectorInv, SnapInv, SnapRight, PollInv
    <3>4. /\ IsPoller(n) /\ n.at = "load" /\ n.now = clock /\ n.rate = q.rate /\ n.todo = q.todo
      BY <1>0 DEF PollerRight, IsPoller, PollerFields
    <3> HIDE DEF n
    <3>5. PollerRight(n)
      BY <1>0, <2>1, <3>2, <3>3, <3>4 DEF PollerRight, CollectorInv, PollInv
    <3> QED BY <1>0, <2>1, <3>1, <3>4, <3>5, OnePoller
  <2> QED BY <1>3, <2>2, <2>3 DEF FindSnapshot
<1>4. CASE LoadCounter(p)
  <2> DEFINE c == Core(p)
             k == Counter(p)
             result == [elapsed |-> q.now - snap[c].time, delta |-> Growth(count[c][k], snap[c][k]),
                        sent |-> total[c][k] - snap[c].base[k]]
  <2>1. /\ pollers' = [pollers EXCEPT ![p] = NextRate(p, result)] /\ UNCHANGED snap
        /\ snapMutex' = Nobody /\ q.at = "load"
    BY <1>4 DEF LoadCounter, At
  <2>2. c \in Cores /\ k \in Kinds /\ snap[c] # NoSnapshot /\ snap[c].time < q.now /\ q.now \in Nat
    BY <1>0, <2>1, FirstEntry DEF PollerRight, Core, Counter
  <2>3. /\ snap[c].time \in Nat /\ snap[c][k] \in Nat /\ snap[c].base[k] \in Nat
        /\ snap[c].base[k] <= total[c][k]
        /\ count[c][k] + snap[c].base[k] <= total[c][k] + snap[c][k]
    BY <2>2 DEF CollectorInv, SnapInv, SnapRight
  <2>4. count[c][k] \in Nat /\ total[c][k] \in Nat
    BY <2>2, CounterNames DEF CollectorInv, CountInv, Kinds
  <2> HIDE DEF c, k
  <2>5. RateRight(result)
    BY <2>2, <2>3, <2>4 DEF RateRight, Growth
  <2>6. snapMutex = p
    BY <2>1 DEF CollectorInv, MutexInv
  <2> HIDE DEF result
  <2>7. PollerRight(NextRate(p, result)) /\ NextRate(p, result).at \in {"idle", "update"}
    BY <1>0, <2>1, <2>5, NextRateRight
  <2> QED BY <1>0, <2>1, <2>6, <2>7, OnePoller
<1>5. CASE ReadLatency(p)
  <2>1. /\ pollers' = [pollers EXCEPT ![p] = NextRate(p, NoRate)] /\ UNCHANGED <<snap, snapMutex>>
        /\ q.at = "update"
    BY <1>5 DEF ReadLatency, At, locks
  <2>2. PollerRight(NextRate(p, NoRate)) /\ NextRate(p, NoRate).at \in {"idle", "update"}
    BY <1>0, <2>1, NextRateRight DEF RateRight
  <2> QED BY <1>0, <2>1, <2>2, OnePoller
<1>6. CASE StoreSnapshot(p)
  <2> DEFINE c == Core(p)
             s == [tx_packets |-> count[c].tx_packets, tx_bytes |-> count[c].tx_bytes,
                   time |-> q.now, base |-> q.base]
             n == [q EXCEPT !.at = "rate", !.now = 0, !.base = NoSnapshot]
  <2>1. /\ pollers' = [pollers EXCEPT ![p] = n]
        /\ snap' = snap \/ snap' = [snap EXCEPT ![c] = s]
        /\ snapMutex' = Nobody /\ q.at = "store"
    BY <1>6 DEF StoreSnapshot, At, CollectorInv, PollInv
  <2>2. /\ c \in Cores /\ q.now \in Nat
        /\ \A k \in Kinds : q.base[k] \in Nat /\ q.base[k] <= total[c][k]
    BY <1>0, <2>1, FirstEntry DEF PollerRight, Core
  <2>3. \A k \in Kinds : s[k] = count[c][k] /\ count[c][k] \in Nat /\ total[c][k] \in Nat
    BY <2>2, CounterNames DEF CollectorInv, CountInv, Kinds
  <2>4. s.time = q.now /\ s.base = q.base
    OBVIOUS
  <2>5. snapMutex = p
    BY <2>1 DEF CollectorInv, MutexInv
  <2>6. IsPoller(n) /\ n.at = "rate" /\ n.now = 0 /\ n.rate = q.rate /\ n.todo = q.todo
    BY <1>0 DEF PollerRight, IsPoller, PollerFields
  <2> HIDE DEF s, n, c
  <2>7. SnapRight(s, c)
    BY <2>2, <2>3, <2>4 DEF SnapRight
  <2>8. SnapInv'
    <3>1. \A d \in Cores : snap'[d] = snap[d] \/ (d = c /\ snap'[d] = s)
      BY <2>1, <2>2 DEF CollectorInv, SnapInv
    <3>2. \A d \in Cores : snap'[d] # NoSnapshot => SnapRight(snap'[d], d)
      BY <2>7, <3>1 DEF CollectorInv, SnapInv
    <3>3. snap' = [d \in Cores |-> snap'[d]]
      BY <2>1 DEF CollectorInv, SnapInv
    <3> QED BY <1>0, <3>2, <3>3 DEF CollectorInv, SnapInv, SnapRight
  <2>9. pollers' = [r \in Pollers |-> IF r = p THEN n ELSE pollers[r]]
    BY <2>1 DEF CollectorInv, PollInv
  <2>10. PollInv'
    <3>1. \A r \in Pollers : r # p => pollers[r].at \notin {"store", "load"}
      BY <2>5 DEF CollectorInv, MutexInv
    <3>2. \A r \in Pollers : PollerRight(pollers[r])'
      BY <1>0, <2>1, <2>6, <2>9, <3>1 DEF CollectorInv, PollInv, PollerRight
    <3> QED BY <1>0, <2>9, <3>2 DEF CollectorInv, PollInv
  <2>11. MutexInv'
    BY <2>1, <2>5, <2>6, <2>9, CollectorAssumption DEF CollectorInv, MutexInv
  <2> QED BY <1>0, <2>8, <2>10, <2>11 DEF CollectorInv, CountInv
<1> QED BY <1>1, <1>2, <1>3, <1>4, <1>5, <1>6 DEF PollStep

-----------------------------------------------------------------------------
(* The workers. *)

Between == {"top", "sent", "sent bytes"}

\* What the worker of a core has counted of what it received and freed, at each
\* place, if the core has a slot.
Counted(c, at, batch, size, gone, packets, bytes) ==
  /\ at \in Between \cup {"received", "received bytes"}
  /\ batch \in Seq(Mbufs) /\ size \in Nat /\ gone \in Nat
  /\ at = "received bytes" => batch = << >>
  /\ c \in Cores =>
       /\ packets \in Nat /\ bytes \in Nat
       /\ at \in Between => packets = gone /\ bytes = gone
       /\ at = "received" => packets + size = gone + Len(batch) /\ bytes = packets
       /\ at = "received bytes" => packets = gone /\ bytes + size = gone

WorkerFields == {"at", "batch", "size", "now"}

IsWorker(w) == w = [field \in WorkerFields |-> w[field]]

WorkerRight(c, w, gone, counted) ==
  /\ IsWorker(w)
  /\ Counted(c, w.at, w.batch, w.size, gone, counted.rx_packets, counted.rx_bytes)

WorkerInv ==
  /\ worker = [c \in Workers |-> worker[c]] /\ freed = [c \in Workers |-> freed[c]]
  /\ \A c \in Workers : WorkerRight(c, worker[c], freed[c], total[c])

\* A burst is processed packet by packet.
LEMMA BurstLength ==
  ASSUME NEW burst \in SUBSET Mbufs
  PROVE  /\ SetToSeq(burst) \in Seq(Mbufs) /\ Cardinality(burst) \in Nat
         /\ Len(SetToSeq(burst)) = Cardinality(burst)
<1>1. IsFiniteSet(burst)
  BY ReceiveAssumption, FS_Subset
<1>2. PICK n \in Nat : ExistsBijection(1 .. n, burst)
  BY <1>1, FS_NatBijection
<1>3. Cardinality(burst) = n
  BY <1>2, FS_CountingElements
<1>4. PICK f \in [1 .. n -> burst] : IsInjective(f)
  BY <1>2 DEF ExistsBijection, Bijection, Injection, Surjection, IsInjective
<1>5. SetToSeq(burst) \in [1 .. n -> burst]
  BY <1>3, <1>4 DEF SetToSeq
<1> QED BY <1>2, <1>3, <1>5

\* The counters a worker adds to, and what it adds.
LEMMA WorkerCounts ==
  ASSUME WorkerInv, CollectorInv, NEW c \in Workers, WorkerStep(c) \/ Send(c)
  PROVE  CollectorInv'
<1>0. worker[c].size \in Nat
  BY DEF WorkerInv, WorkerRight, Counted
<1>1. CASE CountTx(c)
  <2>1. PICK k \in {"tx_packets", "tx_bytes"} : FetchAdd(c, k, 1)
    BY <1>1 DEF CountTx
  <2>2. k \in DOMAIN Zero
    BY CounterNames
  <2>3. UNCHANGED <<clock, snap, resetting, snapMutex, pollers>>
    BY <1>1 DEF CountTx, locks, reset, polling
  <2> QED BY <2>1, <2>2, <2>3, CollectorCounts
<1>2. CASE CountRx(c)
  <2>1. PICK k \in {"rx_packets", "rx_bytes"} : FetchAdd(c, k, worker[c].size)
    BY <1>2 DEF CountRx
  <2>2. k \in DOMAIN Zero
    BY CounterNames
  <2>3. UNCHANGED <<clock, snap, resetting, snapMutex, pollers>>
    BY <1>2 DEF CountRx, locks, reset, polling
  <2> QED BY <1>0, <2>1, <2>2, <2>3, CollectorCounts
<1>3. CASE Send(c) \/ ReceiveBurst(c) \/ Process(c)
  <2>1. UNCHANGED <<clock, count, total, snap, resetting, snapMutex, pollers>>
    BY <1>3 DEF Send, ReceiveBurst, Process, metricsVars, traffic, locks, reset, polling
  <2> QED
    BY <2>1
    DEF CollectorInv, CountInv, SnapInv, SnapRight, MutexInv, PollInv, PollerRight
<1> QED BY <1>1, <1>2, <1>3 DEF WorkerStep

\* Every step keeps the invariant of the collector.
LEMMA CollectorNext == WorkerInv /\ CollectorInv /\ [Next]_telemetryVars => CollectorInv'
<1> SUFFICES ASSUME WorkerInv, CollectorInv, [Next]_telemetryVars PROVE CollectorInv'
  OBVIOUS
<1>1. CASE \E c \in Workers : Send(c) \/ WorkerStep(c)
  BY <1>1, WorkerCounts
<1>2. CASE (\E p \in Pollers : PollStep(p)) \/ ResetStep \/ PassTime
  BY <1>2, CollectorPolls, CollectorResets, CollectorWaits
<1>3. CASE UNCHANGED metricsVars
  BY <1>3
  DEF metricsVars, traffic, locks, reset, polling, CollectorInv, CountInv, SnapInv, SnapRight,
      MutexInv, PollInv, PollerRight
<1> QED
  BY <1>1, <1>2, <1>3 DEF Next, Transmitted, Arrive, telemetryVars

\* The account while a burst is processed and counted.
LEMMA ProcessedCount ==
  ASSUME NEW c, NEW batch, NEW size, NEW gone, NEW packets, NEW bytes, batch # << >>,
         Counted(c, "received", batch, size, gone, packets, bytes)
  PROVE  Counted(c, "received", Tail(batch), size, gone + 1, packets, bytes)
<1>1. batch \in Seq(Mbufs) /\ Len(batch) \in Nat
  BY DEF Counted
<1>2. Tail(batch) \in Seq(Mbufs) /\ Len(Tail(batch)) = Len(batch) - 1
  BY <1>1
<1> QED BY <1>1, <1>2 DEF Counted, Between

\* Sending and the end of a turn leave the account of received packets as it is.
LEMMA SentCount ==
  ASSUME NEW c, NEW at \in Between, NEW batch, NEW size, NEW gone, NEW packets, NEW bytes,
         Counted(c, at, batch, size, gone, packets, bytes),
         NEW at2 \in Between, NEW batch2 \in {batch, << >>}, NEW size2 \in {size, 0}
  PROVE  Counted(c, at2, batch2, size2, gone, packets, bytes)
<1>1. batch \in Seq(Mbufs) /\ size \in Nat
  BY DEF Counted
<1>2. << >> \in Seq(Mbufs)
  OBVIOUS
<1>3. batch2 \in Seq(Mbufs) /\ size2 \in Nat
  <2>1. size2 \in Nat
    BY <1>1
  <2>2. CASE batch2 = batch
    BY <2>1, <2>2, <1>1, Zenon
  <2>3. CASE batch2 = << >>
    BY <2>1, <2>3, <1>2, Zenon
  <2> QED BY <2>2, <2>3
<1>4. gone \in Nat /\ (c \in Cores => packets \in Nat /\ packets = gone /\ bytes = gone)
  BY DEF Counted
<1>5. at2 # "received" /\ at2 # "received bytes"
  BY DEF Between
<1> QED BY <1>3, <1>4, <1>5 DEF Counted

\* After its last packet a burst is counted, the packets first.
LEMMA BurstCount ==
  ASSUME NEW c, NEW size, NEW gone, NEW packets, NEW bytes, NEW packets2, NEW bytes2,
         Counted(c, "received", << >>, size, gone, packets, bytes),
         c \in Cores => packets2 = packets + size /\ bytes2 = bytes
  PROVE  Counted(c, "received bytes", << >>, size, gone, packets2, bytes2)
<1>1. Len(<< >>) = 0
  OBVIOUS
<1> QED BY <1>1 DEF Counted, Between

\* What one worker does to its own account, and to no other's.
LEMMA OneWorker ==
  ASSUME WorkerInv, NEW c \in Workers, NEW w, worker' = [worker EXCEPT ![c] = w],
         WorkerRight(c, w, freed'[c], total'[c]),
         \A d \in Workers \ {c} :
           /\ freed'[d] = freed[d]
           /\ d \in Cores => /\ total'[d].rx_packets = total[d].rx_packets
                             /\ total'[d].rx_bytes = total[d].rx_bytes,
         freed' = [d \in Workers |-> freed'[d]]
  PROVE  WorkerInv'
<1>1. worker' = [d \in Workers |-> IF d = c THEN w ELSE worker[d]]
  BY DEF WorkerInv
<1>2. \A d \in Workers : WorkerRight(d, worker'[d], freed'[d], total'[d])
  <2> TAKE d \in Workers
  <2>1. CASE d = c
    BY <1>1, <2>1
  <2>2. CASE d # c
    BY <1>1, <2>2 DEF WorkerInv, WorkerRight, Counted
  <2> QED BY <2>1, <2>2
<1> QED BY <1>1, <1>2 DEF WorkerInv

\* One step of a worker keeps its own account and the others'.
LEMMA WorkerKeeps ==
  ASSUME WorkerInv, CollectorInv, NEW c \in Workers, Send(c) \/ WorkerStep(c)
  PROVE  WorkerInv'
<1> DEFINE w == worker[c]
<1>0. /\ WorkerRight(c, w, freed[c], total[c])
      /\ freed = [d \in Workers |-> freed[d]] /\ worker = [d \in Workers |-> worker[d]]
      /\ total \in [Cores -> [DOMAIN Zero -> Nat]]
  BY DEF WorkerInv, CollectorInv, CountInv
<1>1. CASE Send(c)
  <2> DEFINE n == [w EXCEPT !.at = "sent"]
  <2>1. worker' = [worker EXCEPT ![c] = n] /\ UNCHANGED <<total, freed>> /\ w.at = "top"
    BY <1>1 DEF Send, AtTop, metricsVars, traffic
  <2>2. WorkerRight(c, n, freed[c], total[c])
    <3>1. IsWorker(n) /\ n.at = "sent" /\ n.batch = w.batch /\ n.size = w.size
      BY <1>0 DEF WorkerRight, IsWorker, WorkerFields
    <3> HIDE DEF n
    <3> QED BY <1>0, <2>1, <3>1 DEF WorkerRight, Counted, Between
  <2> HIDE DEF n
  <2> QED BY <1>0, <2>1, <2>2, OneWorker
<1>2. CASE CountTx(c)
  <2> DEFINE n == IF w.at = "sent" THEN [w EXCEPT !.at = "sent bytes"] ELSE AtTop
  <2>1. PICK k \in {"tx_packets", "tx_bytes"} :
          /\ total' = IF c \in Cores THEN [total EXCEPT ![c][k] = @ + 1] ELSE total
          /\ UNCHANGED freed
          /\ worker' = [worker EXCEPT ![c] = n]
          /\ w.at \in Between
    BY <1>0, <1>2 DEF CountTx, FetchAdd, traffic, Between
  <2>2. \A d \in Cores : /\ total'[d].rx_packets = total[d].rx_packets
                         /\ total'[d].rx_bytes = total[d].rx_bytes
    BY <1>0, <2>1, CounterNames
  <2>3. WorkerRight(c, n, freed'[c], total'[c])
    <3>1. /\ IsWorker(n) /\ n.at \in Between
          /\ n.batch \in {w.batch, << >>} /\ n.size \in {w.size, 0}
      <4>1. CASE w.at = "sent"
        BY <1>0, <4>1 DEF WorkerRight, IsWorker, WorkerFields, Between
      <4>2. CASE w.at # "sent"
        BY <4>2 DEF IsWorker, WorkerFields, AtTop, Between
      <4> QED BY <4>1, <4>2
    <3> HIDE DEF n
    <3>2. Counted(c, w.at, w.batch, w.size, freed[c], total[c].rx_packets, total[c].rx_bytes)
      BY <1>0 DEF WorkerRight
    <3>3. Counted(c, n.at, n.batch, n.size, freed[c], total[c].rx_packets, total[c].rx_bytes)
      <4> HIDE DEF w
      <4> QED BY <2>1, <3>1, <3>2, SentCount
    <3> QED BY <2>1, <2>2, <3>1, <3>3 DEF WorkerRight, Counted
  <2> HIDE DEF n
  <2> QED BY <1>0, <2>1, <2>2, <2>3, OneWorker
<1>3. CASE ReceiveBurst(c)
  <2>1. PICK burst \in SUBSET Mbufs :
          worker' = [worker EXCEPT ![c] = [at |-> "received", batch |-> SetToSeq(burst),
                                           size |-> Cardinality(burst), now |-> Now]]
    BY <1>3 DEF ReceiveBurst
  <2> DEFINE n == [at |-> "received", batch |-> SetToSeq(burst), size |-> Cardinality(burst),
                   now |-> Now]
  <2>2. UNCHANGED <<total, freed>> /\ w.at = "top"
    BY <1>3 DEF ReceiveBurst, AtTop, metricsVars, traffic
  <2>3. /\ SetToSeq(burst) \in Seq(Mbufs) /\ Cardinality(burst) \in Nat
        /\ Len(SetToSeq(burst)) = Cardinality(burst)
    BY BurstLength
  <2>4. WorkerRight(c, n, freed[c], total[c])
    <3>1. /\ IsWorker(n) /\ n.at = "received"
          /\ n.batch = SetToSeq(burst) /\ n.size = Cardinality(burst)
      BY DEF IsWorker, WorkerFields
    <3> HIDE DEF n
    <3> QED BY <1>0, <2>2, <2>3, <3>1 DEF WorkerRight, Counted, Between
  <2> HIDE DEF n
  <2> QED BY <1>0, <2>1, <2>2, <2>4, OneWorker DEF n
<1>4. CASE Process(c)
  <2> DEFINE n == [w EXCEPT !.batch = Tail(@)]
  <2>1. /\ worker' = [worker EXCEPT ![c] = n] /\ UNCHANGED total
        /\ freed' = [freed EXCEPT ![c] = @ + 1]
        /\ w.at = "received" /\ w.batch # << >>
    BY <1>0, <1>4 DEF Process, traffic
  <2>2. freed'[c] = freed[c] + 1 /\ \A d \in Workers \ {c} : freed'[d] = freed[d]
    BY <1>0, <2>1
  <2>3. WorkerRight(c, n, freed'[c], total[c])
    <3>1. IsWorker(n) /\ n.at = w.at /\ n.batch = Tail(w.batch) /\ n.size = w.size
      BY <1>0 DEF WorkerRight, IsWorker, WorkerFields
    <3> HIDE DEF n
    <3>2. Counted(c, "received", w.batch, w.size, freed[c], total[c].rx_packets, total[c].rx_bytes)
      BY <1>0, <2>1 DEF WorkerRight
    <3> QED BY <2>1, <2>2, <3>1, <3>2, ProcessedCount DEF WorkerRight
  <2> HIDE DEF n
  <2> QED BY <1>0, <2>1, <2>2, <2>3, OneWorker
<1>5. CASE CountRx(c)
  <2>1. /\ UNCHANGED freed /\ w.at \in {"received", "received bytes"} /\ w.batch = << >>
        /\ Len(w.batch) = 0
    BY <1>5 DEF CountRx
  <2>2. CASE w.at = "received"
    <3> DEFINE n == [w EXCEPT !.at = "received bytes", !.now = 0]
    <3>1. /\ worker' = [worker EXCEPT ![c] = n]
          /\ total' = IF c \in Cores THEN [total EXCEPT ![c]["rx_packets"] = @ + w.size]
                      ELSE total
      BY <1>0, <1>5, <2>2 DEF CountRx, FetchAdd, traffic
    <3>2. /\ c \in Cores => /\ total'[c].rx_packets = total[c].rx_packets + w.size
                            /\ total'[c].rx_bytes = total[c].rx_bytes
          /\ \A d \in Cores \ {c} : total'[d] = total[d]
      BY <1>0, <3>1, CounterNames
    <3>3. WorkerRight(c, n, freed'[c], total'[c])
      <4>1. IsWorker(n) /\ n.at = "received bytes" /\ n.batch = w.batch /\ n.size = w.size
        BY <1>0 DEF WorkerRight, IsWorker, WorkerFields
      <4> HIDE DEF n
      <4>2. Counted(c, "received", << >>, w.size, freed[c], total[c].rx_packets, total[c].rx_bytes)
        BY <1>0, <2>1, <2>2 DEF WorkerRight
      <4>3. Counted(c, "received bytes", << >>, w.size, freed[c], total'[c].rx_packets,
                    total'[c].rx_bytes)
        BY <3>2, <4>2, BurstCount
      <4> QED BY <2>1, <4>1, <4>3 DEF WorkerRight
    <3> HIDE DEF n
    <3> QED BY <1>0, <2>1, <3>1, <3>2, <3>3, OneWorker
  <2>3. CASE w.at = "received bytes"
    <3>1. /\ worker' = [worker EXCEPT ![c] = AtTop]
          /\ total' = IF c \in Cores THEN [total EXCEPT ![c]["rx_bytes"] = @ + w.size]
                      ELSE total
      BY <1>0, <1>5, <2>3 DEF CountRx, FetchAdd, traffic
    <3>2. /\ c \in Cores => /\ total'[c].rx_packets = total[c].rx_packets
                            /\ total'[c].rx_bytes = total[c].rx_bytes + w.size
          /\ \A d \in Cores \ {c} : total'[d] = total[d]
      BY <1>0, <3>1, CounterNames
    <3>3. WorkerRight(c, AtTop, freed'[c], total'[c])
      <4>1. IsWorker(AtTop) /\ AtTop.at = "top" /\ AtTop.batch = << >> /\ AtTop.size = 0
        BY DEF AtTop, IsWorker, WorkerFields
      <4>2. Counted(c, "received bytes", << >>, w.size, freed[c], total[c].rx_packets,
                    total[c].rx_bytes)
        BY <1>0, <2>1, <2>3 DEF WorkerRight
      <4>3. Counted(c, "top", << >>, 0, freed[c], total'[c].rx_packets, total'[c].rx_bytes)
        BY <3>2, <4>2 DEF Counted, Between
      <4> QED BY <2>1, <4>1, <4>3 DEF WorkerRight
    <3> QED BY <1>0, <2>1, <3>1, <3>2, <3>3, OneWorker
  <2> QED BY <2>1, <2>2, <2>3
<1> QED BY <1>1, <1>2, <1>3, <1>4, <1>5 DEF WorkerStep

\* Every step keeps the invariant of the workers.
LEMMA WorkerNext == WorkerInv /\ CollectorInv /\ [Next]_telemetryVars => WorkerInv'
<1> SUFFICES ASSUME WorkerInv, CollectorInv, [Next]_telemetryVars PROVE WorkerInv'
  OBVIOUS
<1>1. CASE \E c \in Workers : Send(c) \/ WorkerStep(c)
  BY <1>1, WorkerKeeps
<1>2. CASE UNCHANGED <<worker, freed, total>>
  BY <1>2 DEF WorkerInv
<1>3. CASE \/ \E p \in Pollers : PollStep(p) /\ UNCHANGED dataVars
           \/ ResetStep /\ UNCHANGED dataVars
           \/ PassTime /\ UNCHANGED dataVars
  BY <1>2, <1>3
  DEF PollStep, BeginPoll, ReadClock, StoreSnapshot, FindSnapshot, LoadCounter, ReadLatency,
      ResetStep, BeginReset, StoreZero, ClearSnapshots, FinishReset, PassTime, traffic, dataVars
<1>4. CASE \/ \E m \in Mbufs : Transmitted(m)
           \/ \E m \in Mbufs, c \in Workers, f \in wire \cup {Foreign} : Arrive(m, c, f)
           \/ UNCHANGED telemetryVars
  BY <1>2, <1>4 DEF Transmitted, Arrive, telemetryVars, metricsVars, traffic, dataVars
<1> QED BY <1>1, <1>3, <1>4 DEF Next

-----------------------------------------------------------------------------
(* Types. *)

\* The bounds, the clock, mutex_ and the counters against what was counted.
ControlInv ==
  /\ bound \in Bounds /\ clock \in 0 .. bound.time
  /\ mutex \in {Nobody, "reset_all"} /\ (mutex = Nobody) = (resetting = "no")
  /\ \A c \in Cores, k \in DOMAIN Zero : count[c][k] <= total[c][k]

\* Mbufs, their stamps and the frames: only a stamped mbuf is with the NIC, and
\* no stamp is ahead of the clock.
MbufInv ==
  /\ clock \in Nat
  /\ place \in [Mbufs -> {Pool, Nic, Held} \cup {Queue(c) : c \in Workers}]
  /\ stamp \in [Mbufs -> 0 .. Now] /\ wire \subseteq 1 .. Now
  /\ \A m \in Mbufs : place[m] = Nic => stamp[m] # 0
  /\ \A c \in Workers : worker[c].now \in 0 .. Now

\* The names of places are different ones.
LEMMA PlacesDiffer ==
  Pool # Nic /\ Held # Nic /\ \A c \in Workers : Queue(c) # Nic
BY DEF Pool, Nic, Held, Queue

\* A step that leaves mutex_, clock and counters alone.
LEMMA ControlKeeps ==
  ASSUME ControlInv, UNCHANGED <<bound, clock, mutex, count, total>>,
         resetting' = "no" <=> resetting = "no"
  PROVE  ControlInv'
BY DEF ControlInv

\* A counter grows with what was counted.
LEMMA ControlCounts ==
  ASSUME ControlInv, CountInv, NEW c, NEW k \in DOMAIN Zero, NEW n \in Nat,
         FetchAdd(c, k, n), UNCHANGED <<bound, clock, mutex, resetting>>
  PROVE  ControlInv'
<1>0. CASE c \notin Cores
  BY <1>0 DEF FetchAdd, traffic, ControlInv
<1> SUFFICES ASSUME c \in Cores PROVE ControlInv'
  BY <1>0
<1>1. \A d \in Cores, j \in DOMAIN Zero :
        LET m == IF d = c /\ j = k THEN n ELSE 0 IN
          /\ count[d][j] \in Nat /\ total[d][j] \in Nat
          /\ count'[d][j] = count[d][j] + m /\ total'[d][j] = total[d][j] + m
  BY DEF CountInv, FetchAdd
<1> QED BY <1>1 DEF ControlInv

\* reset_all has mutex_ from its first step to its last.
LEMMA ControlResets ==
  ASSUME ControlInv, CountInv, ResetStep
  PROVE  ControlInv'
<1>1. CASE BeginReset
  BY <1>1, CollectorAssumption DEF BeginReset, ControlInv, traffic
<1>2. CASE StoreZero
  <2>1. /\ resetting = "stores" /\ resetting' \in {"stores", "clear"}
        /\ UNCHANGED <<bound, clock, mutex, total>>
        /\ count' = [count EXCEPT ![Head(stores)[1]][Head(stores)[2]] = 0]
    BY <1>2 DEF StoreZero, locks
  <2>2. \A c \in Cores, k \in DOMAIN Zero :
          /\ count'[c][k] \in {0, count[c][k]}
          /\ count[c][k] \in Nat /\ total[c][k] \in Nat
    BY <2>1 DEF CountInv
  <2>3. \A c \in Cores, k \in DOMAIN Zero : count'[c][k] <= total[c][k]
    BY <2>2 DEF ControlInv
  <2> QED BY <2>1, <2>3 DEF ControlInv
<1>3. CASE ClearSnapshots
  BY <1>3 DEF ClearSnapshots, ControlInv, traffic, locks
<1>4. CASE FinishReset
  BY <1>4 DEF FinishReset, ControlInv, traffic
<1> QED BY <1>1, <1>2, <1>3, <1>4 DEF ResetStep

\* A worker's step, of which only its counting matters.
LEMMA ControlWorks ==
  ASSUME ControlInv, WorkerInv, CollectorInv, NEW c \in Workers, Send(c) \/ WorkerStep(c)
  PROVE  ControlInv'
<1>0. worker[c].size \in Nat /\ CountInv
  BY DEF WorkerInv, WorkerRight, Counted, CollectorInv
<1>1. CASE CountTx(c) \/ CountRx(c)
  <2>1. PICK k \in {"tx_packets", "tx_bytes", "rx_packets", "rx_bytes"} :
          FetchAdd(c, k, 1) \/ FetchAdd(c, k, worker[c].size)
    BY <1>1 DEF CountTx, CountRx
  <2>2. k \in DOMAIN Zero
    BY CounterNames
  <2>3. UNCHANGED <<bound, clock, mutex, resetting>>
    BY <1>1 DEF CountTx, CountRx, locks, reset
  <2> QED BY <1>0, <2>1, <2>2, <2>3, ControlCounts
<1>2. CASE Send(c) \/ ReceiveBurst(c) \/ Process(c)
  BY <1>2, ControlKeeps DEF Send, ReceiveBurst, Process, metricsVars, traffic, locks, reset
<1> QED BY <1>1, <1>2 DEF WorkerStep

\* Every step keeps the types of the collector.
LEMMA ControlNext ==
  ControlInv /\ WorkerInv /\ CollectorInv /\ [Next]_telemetryVars => ControlInv'
<1> SUFFICES ASSUME ControlInv, WorkerInv, CollectorInv, [Next]_telemetryVars PROVE ControlInv'
  OBVIOUS
<1>1. CASE \E c \in Workers : Send(c) \/ WorkerStep(c)
  BY <1>1, ControlWorks
<1>2. CASE ResetStep
  BY <1>2, ControlResets DEF CollectorInv
<1>3. CASE PassTime
  <2>1. clock < bound.time /\ clock' = clock + 1
        /\ UNCHANGED <<bound, mutex, resetting, count, total>>
    BY <1>3 DEF PassTime, traffic, locks, reset
  <2>2. bound.time \in Nat
    BY BoundAssumption DEF ControlInv
  <2> QED BY <2>1, <2>2 DEF ControlInv
<1>4. CASE \E p \in Pollers : PollStep(p)
  BY <1>4, ControlKeeps
  DEF PollStep, BeginPoll, ReadClock, StoreSnapshot, FindSnapshot, LoadCounter, ReadLatency,
      traffic, locks, reset
<1>5. CASE UNCHANGED metricsVars
  BY <1>5, ControlKeeps DEF metricsVars, traffic, locks, reset
<1> QED BY <1>1, <1>2, <1>3, <1>4, <1>5 DEF Next, Transmitted, Arrive, telemetryVars

\* One step of a worker on its mbufs.
LEMMA MbufsWork ==
  ASSUME MbufInv, WorkerInv, NEW c \in Workers, Send(c) \/ WorkerStep(c)
  PROVE  MbufInv'
<1>0. Now \in Nat \ {0} /\ worker = [d \in Workers |-> worker[d]] /\ IsWorker(worker[c])
  BY DEF MbufInv, Now, WorkerInv, WorkerRight
<1>1. UNCHANGED clock /\ Now' = Now
  BY DEF Send, WorkerStep, CountTx, ReceiveBurst, Process, CountRx, metricsVars, Now
<1>2. ASSUME NEW w, worker' = [worker EXCEPT ![c] = w], w.now \in 0 .. Now
      PROVE  \A d \in Workers : worker'[d].now \in 0 .. Now
  <2>1. \A d \in Workers : worker'[d] = IF d = c THEN w ELSE worker[d]
    BY <1>0, <1>2
  <2> QED BY <1>2, <2>1 DEF MbufInv
<1>3. CASE Send(c)
  <2>1. PICK m \in Mbufs : /\ place' = [place EXCEPT ![m] = Nic]
                           /\ stamp' = [stamp EXCEPT ![m] = Now]
    BY <1>3 DEF Send, InPool
  <2>2. UNCHANGED wire /\ worker' = [worker EXCEPT ![c] = [worker[c] EXCEPT !.at = "sent"]]
    BY <1>0, <1>3 DEF Send
  <2>3. [worker[c] EXCEPT !.at = "sent"].now \in 0 .. Now
    BY <1>0 DEF IsWorker, WorkerFields, MbufInv
  <2>4. \A d \in Workers : worker'[d].now \in 0 .. Now
    BY <1>2, <2>2, <2>3
  <2> QED BY <1>0, <1>1, <2>1, <2>2, <2>4 DEF MbufInv
<1>4. CASE CountTx(c) \/ CountRx(c)
  <2>1. UNCHANGED <<place, stamp, wire>>
    BY <1>4 DEF CountTx, CountRx
  <2>2. PICK w : worker' = [worker EXCEPT ![c] = w] /\ w.now \in {worker[c].now, 0}
    <3>1. worker' \in {[worker EXCEPT ![c] = [worker[c] EXCEPT !.at = "sent bytes"]],
                       [worker EXCEPT ![c] = AtTop],
                       [worker EXCEPT ![c] = [worker[c] EXCEPT !.at = "received bytes", !.now = 0]]}
      BY <1>0, <1>4 DEF CountTx, CountRx
    <3>2. /\ [worker[c] EXCEPT !.at = "sent bytes"].now = worker[c].now /\ AtTop.now = 0
          /\ [worker[c] EXCEPT !.at = "received bytes", !.now = 0].now = 0
      BY <1>0 DEF IsWorker, WorkerFields, AtTop
    <3> QED BY <3>1, <3>2
  <2>3. w.now \in 0 .. Now
    BY <1>0, <2>2 DEF MbufInv
  <2>4. \A d \in Workers : worker'[d].now \in 0 .. Now
    BY <1>2, <2>2, <2>3
  <2> QED BY <1>0, <1>1, <2>1, <2>4 DEF MbufInv
<1>5. CASE ReceiveBurst(c)
  <2>1. PICK b \in SUBSET Mbufs :
          /\ worker' = [worker EXCEPT ![c] = [at |-> "received", batch |-> SetToSeq(b),
                                              size |-> Cardinality(b), now |-> Now]]
          /\ place' = [m \in Mbufs |-> IF m \in b THEN Held ELSE place[m]]
    BY <1>5 DEF ReceiveBurst
  <2>2. UNCHANGED <<stamp, wire>>
    BY <1>5 DEF ReceiveBurst
  <2>3. \A d \in Workers : worker'[d].now \in 0 .. Now
    BY <1>0, <1>2, <2>1
  <2> QED BY <1>0, <1>1, <2>1, <2>2, <2>3, PlacesDiffer DEF MbufInv
<1>6. CASE Process(c)
  <2>1. PICK m : place' = [place EXCEPT ![m] = Pool]
    BY <1>6 DEF Process
  <2>2. /\ UNCHANGED <<stamp, wire>>
        /\ worker' = [worker EXCEPT ![c] = [worker[c] EXCEPT !.batch = Tail(worker[c].batch)]]
    BY <1>0, <1>6 DEF Process
  <2>3. [worker[c] EXCEPT !.batch = Tail(worker[c].batch)].now \in 0 .. Now
    BY <1>0 DEF IsWorker, WorkerFields, MbufInv
  <2>4. \A d \in Workers : worker'[d].now \in 0 .. Now
    BY <1>2, <2>2, <2>3
  <2> QED BY <1>0, <1>1, <2>1, <2>2, <2>4, PlacesDiffer DEF MbufInv
<1> QED BY <1>3, <1>4, <1>5, <1>6 DEF WorkerStep

\* Every step keeps what is known of mbufs and frames.
LEMMA MbufNext == MbufInv /\ WorkerInv /\ [Next]_telemetryVars => MbufInv'
<1> SUFFICES ASSUME MbufInv, WorkerInv, [Next]_telemetryVars PROVE MbufInv'
  OBVIOUS
<1>1. CASE \E c \in Workers : Send(c) \/ WorkerStep(c)
  BY <1>1, MbufsWork
<1>2. CASE \E m \in Mbufs : Transmitted(m)
  <2>1. PICK m \in Mbufs : Transmitted(m)
    BY <1>2
  <2>2. /\ place' = [place EXCEPT ![m] = Pool] /\ wire' = wire \cup {stamp[m]}
        /\ UNCHANGED <<stamp, worker, clock>> /\ place[m] = Nic
    BY <2>1 DEF Transmitted, metricsVars
  <2>3. stamp[m] \in 1 .. Now
    BY <2>2 DEF MbufInv, Now
  <2> QED BY <2>2, <2>3, PlacesDiffer DEF MbufInv, Now
<1>3. CASE \E m \in Mbufs, c \in Workers, f \in wire \cup {Foreign} : Arrive(m, c, f)
  <2>1. PICK m \in Mbufs, c \in Workers :
          place' = [place EXCEPT ![m] = Queue(c)] /\ UNCHANGED <<stamp, wire, worker, clock>>
    BY <1>3 DEF Arrive, metricsVars
  <2> QED BY <2>1, PlacesDiffer DEF MbufInv, Now
<1>4. CASE PassTime /\ UNCHANGED dataVars
  <2>1. clock' = clock + 1 /\ UNCHANGED <<place, stamp, wire, worker>>
    BY <1>4 DEF PassTime, dataVars
  <2>2. Now' = Now + 1 /\ Now \in Nat
    BY <2>1 DEF Now, MbufInv
  <2>3. 0 .. Now \subseteq 0 .. Now' /\ 1 .. Now \subseteq 1 .. Now'
    BY <2>2
  <2> QED BY <2>1, <2>3 DEF MbufInv
<1>5. CASE UNCHANGED <<clock, place, stamp, wire, worker>>
  BY <1>5 DEF MbufInv, Now
<1>6. CASE \/ (\E p \in Pollers : PollStep(p)) /\ UNCHANGED dataVars
           \/ ResetStep /\ UNCHANGED dataVars
           \/ UNCHANGED telemetryVars
  BY <1>5, <1>6
  DEF PollStep, BeginPoll, ReadClock, StoreSnapshot, FindSnapshot, LoadCounter, ReadLatency,
      ResetStep, BeginReset, StoreZero, ClearSnapshots, FinishReset, dataVars, telemetryVars,
      metricsVars
<1> QED BY <1>1, <1>2, <1>3, <1>4, <1>6 DEF Next

-----------------------------------------------------------------------------
(* The properties. *)

\* Both invariants hold at all times; the properties below follow from them.
LEMMA TelemetryAlways == Spec => [](WorkerInv /\ CollectorInv)
<1>1. Init => WorkerInv /\ CollectorInv
  <2> SUFFICES ASSUME Init PROVE WorkerInv
    BY CollectorInit DEF Init
  <2>1. /\ \A c \in Cores : total[c] = Zero
        /\ \A c \in Workers : worker[c] = AtTop /\ freed[c] = 0
    BY DEF Init, MetricsInit
  <2>2. \A c \in Workers : WorkerRight(c, AtTop, 0, total[c])
    BY <2>1, CounterNames DEF WorkerRight, IsWorker, WorkerFields, Counted, AtTop, Between
  <2>3. worker = [c \in Workers |-> AtTop] /\ freed = [c \in Workers |-> 0]
    BY DEF Init
  <2> QED BY <2>1, <2>2, <2>3 DEF WorkerInv
<1> QED BY <1>1, CollectorNext, WorkerNext, PTL DEF Spec

\* A rate is never more than what was counted in its time, whatever updates,
\* polls and resets interleave, for any number of cores and pollers.
THEOREM TelemetryRateIsReal == Spec => []RateIsReal
<1>1. CollectorInv => RateIsReal
  BY DEF CollectorInv, PollInv, PollerRight, RateRight, RateIsReal
<1> QED BY <1>1, TelemetryAlways, PTL

\* A reset that is over left no snapshot ahead of its counters.
THEOREM TelemetrySnapshotNotAhead == Spec => []SnapshotNotAhead
<1>1. CollectorInv => SnapshotNotAhead
  BY DEF CollectorInv, SnapInv, SnapRight, Kinds, SnapshotNotAhead
<1> QED BY <1>1, TelemetryAlways, PTL

\* Each received packet is counted once by the end of its burst, for any burst
\* size and any number of workers, if the worker's core has a slot in the
\* collector; one without a slot, as in the sample configuration, counts nothing.
THEOREM TelemetryReceivedCounted == Spec => []ReceivedCounted
<1>1. WorkerInv => ReceivedCounted
  BY DEF WorkerInv, WorkerRight, Counted, Between, ReceivedCounted
<1> QED BY <1>1, TelemetryAlways, PTL

\* So do those of the collector's bounds and of the mbufs.
LEMMA ControlAlways == Spec => [](ControlInv /\ MbufInv)
<1>1. Init => ControlInv /\ MbufInv
  <2> SUFFICES ASSUME Init PROVE ControlInv /\ MbufInv
    OBVIOUS
  <2>1. bound.time \in Nat
    BY BoundAssumption DEF Init, MetricsInit
  <2>2. ControlInv
    BY <2>1, CounterNames DEF Init, MetricsInit, ControlInv
  <2>3. \A c \in Workers : worker[c].now = 0
    BY DEF Init, AtTop
  <2>4. MbufInv
    BY <2>3, PlacesDiffer DEF Init, MetricsInit, MbufInv, Now
  <2> QED BY <2>2, <2>4
<1> QED BY <1>1, ControlNext, MbufNext, TelemetryAlways, PTL DEF Spec

\* The collector's and the workers' variables keep their types; in particular
\* mutex_ is held exactly while a reset is under way, snapshot_mutex_ by whoever
\* is in a critical section, and no counter is above what was counted.
THEOREM TelemetryTypeCorrect == Spec => []TypeOK
<1>1. ControlInv /\ MbufInv /\ WorkerInv /\ CollectorInv => TypeOK
  <2> SUFFICES ASSUME ControlInv, MbufInv, WorkerInv, CollectorInv PROVE TypeOK
    OBVIOUS
  <2>1. \A c \in Cores : \A k \in DOMAIN Zero : count[c][k] \in 0 .. total[c][k]
    BY DEF ControlInv, CollectorInv, CountInv
  <2>2. MetricsTypeOK
    BY <2>1
    DEF ControlInv, CollectorInv, SnapInv, MutexInv, PollInv, PollerRight, MetricsTypeOK
  <2>3. \A c \in Workers : /\ worker[c].at \in Between \cup {"received", "received bytes"}
                         /\ worker[c].batch \in Seq(Mbufs)
    BY DEF WorkerInv, WorkerRight, Counted
  <2> QED BY <2>2, <2>3 DEF MbufInv, Between, TypeOK
<1> QED BY <1>1, ControlAlways, TelemetryAlways, PTL

-----------------------------------------------------------------------------
(* Latency. *)

\* record_latency's buckets are those get_latency_histogram describes: a sample
\* is in the bounds of one, the one it is counted in (metrics_collector.cpp:233-283).
LEMMA OneBucket ==
  ASSUME NEW ns \in Nat
  PROVE  /\ BucketOf(ns) \in 1 .. NumBuckets
         /\ \A i \in 1 .. NumBuckets : InBucket(i, ns) <=> i = BucketOf(ns)
<1>1. /\ NumBuckets = 10
      /\ BoundsUs[1] = 10 /\ BoundsUs[2] = 50 /\ BoundsUs[3] = 100 /\ BoundsUs[4] = 250
      /\ BoundsUs[5] = 500 /\ BoundsUs[6] = 1000 /\ BoundsUs[7] = 5000 /\ BoundsUs[8] = 10000
      /\ BoundsUs[9] = 50000
  BY DEF NumBuckets, BoundsUs
<1> DEFINE Above == {i \in 1 .. NumBuckets : i = NumBuckets \/ ns < 1000 * BoundsUs[i]}
<1>2. \E i \in 1 .. 10 : InBucket(i, ns)
  <2>1. \/ ns < 10000 \/ (10000 <= ns /\ ns < 50000) \/ (50000 <= ns /\ ns < 100000)
        \/ (100000 <= ns /\ ns < 250000) \/ (250000 <= ns /\ ns < 500000)
        \/ (500000 <= ns /\ ns < 1000000) \/ (1000000 <= ns /\ ns < 5000000)
        \/ (5000000 <= ns /\ ns < 10000000) \/ (10000000 <= ns /\ ns < 50000000)
        \/ 50000000 <= ns
    OBVIOUS
  <2>2. /\ ns < 10000 => InBucket(1, ns)
        /\ 10000 <= ns /\ ns < 50000 => InBucket(2, ns)
        /\ 50000 <= ns /\ ns < 100000 => InBucket(3, ns)
        /\ 100000 <= ns /\ ns < 250000 => InBucket(4, ns)
        /\ 250000 <= ns /\ ns < 500000 => InBucket(5, ns)
    BY <1>1 DEF InBucket, LowNs
  <2>3. /\ 500000 <= ns /\ ns < 1000000 => InBucket(6, ns)
        /\ 1000000 <= ns /\ ns < 5000000 => InBucket(7, ns)
        /\ 5000000 <= ns /\ ns < 10000000 => InBucket(8, ns)
        /\ 10000000 <= ns /\ ns < 50000000 => InBucket(9, ns)
        /\ 50000000 <= ns => InBucket(10, ns)
    BY <1>1 DEF InBucket, LowNs
  <2> QED BY <2>1, <2>2, <2>3
<1>3. ASSUME NEW i \in 1 .. 10, InBucket(i, ns)
      PROVE  i \in Above /\ \A j \in Above : i <= j
  <2>1. i \in Above
    BY <1>1, <1>3 DEF InBucket
  <2>2. ASSUME NEW j \in 1 .. 10, j < i PROVE j < 10 /\ ns >= 1000 * BoundsUs[j]
    <3>1. i \in 2 .. 10 /\ ns >= 1000 * BoundsUs[i - 1] /\ j \in 1 .. (i - 1)
      BY <1>1, <1>3, <2>2 DEF InBucket, LowNs
    <3>2. \A k \in 1 .. 9 : \A l \in 1 .. k : BoundsUs[l] \in Nat /\ BoundsUs[l] <= BoundsUs[k]
      BY <1>1
    <3>3. i - 1 \in 1 .. 9 /\ j \in 1 .. 9
      BY <3>1
    <3>4. BoundsUs[j] \in Nat /\ BoundsUs[i - 1] \in Nat /\ BoundsUs[j] <= BoundsUs[i - 1]
      BY <3>1, <3>2, <3>3
    <3> QED BY <3>1, <3>4
  <2>3. \A j \in Above : i <= j
    <3> SUFFICES ASSUME NEW j \in 1 .. 10, j < i PROVE j \notin Above
      BY <1>1
    <3>1. j < 10 /\ ns >= 1000 * BoundsUs[j] /\ BoundsUs[j] \in Nat
      BY <1>1, <2>2
    <3> QED BY <1>1, <3>1
  <2> QED BY <2>1, <2>3
<1>4. ASSUME NEW i \in 1 .. 10, InBucket(i, ns) PROVE BucketOf(ns) = i
  <2>1. i \in Above /\ \A j \in Above : i <= j
    BY <1>3, <1>4
  <2>2. \A j \in Above : (\A k \in Above : j <= k) => j = i
    BY <1>1, <2>1
  <2> HIDE DEF Above
  <2>3. Min(Above) = i
    BY <2>1, <2>2 DEF Min
  <2> QED BY <2>3 DEF BucketOf, Above
<1> QED BY <1>1, <1>2, <1>4

\* The samples that belong in a bucket.
Members(i, r) == {j \in DOMAIN r : InBucket(i, r[j])}

\* One more sample joins one bucket and the sum.
LEMMA OneMoreSample ==
  ASSUME NEW r \in Seq(Nat), NEW ns \in Nat
  PROVE  /\ \A i \in 1 .. NumBuckets :
              /\ Cardinality(Members(i, r)) \in Nat
              /\ Cardinality(Members(i, Append(r, ns))) =
                   Cardinality(Members(i, r)) + (IF i = BucketOf(ns) THEN 1 ELSE 0)
         /\ Sum(Append(r, ns), DOMAIN Append(r, ns)) = Sum(r, DOMAIN r) + ns
<1> DEFINE n == Len(r)
           q == Append(r, ns)
<1>1. /\ n \in Nat /\ DOMAIN r = 1 .. n /\ DOMAIN q = 1 .. n + 1 /\ n + 1 \notin 1 .. n
      /\ (1 .. n + 1) \ {n + 1} = 1 .. n /\ n + 1 \in 1 .. n + 1
      /\ q[n + 1] = ns /\ \A j \in 1 .. n : q[j] = r[j] /\ r[j] \in Nat
  OBVIOUS
<1>2. IsFiniteSet(1 .. n) /\ IsFiniteSet(1 .. n + 1)
  BY <1>1, FS_Interval
<1> HIDE DEF n, q
<1>3. ASSUME NEW i \in 1 .. NumBuckets
      PROVE  /\ Cardinality(Members(i, r)) \in Nat
             /\ Cardinality(Members(i, q)) =
                  Cardinality(Members(i, r)) + (IF i = BucketOf(ns) THEN 1 ELSE 0)
  <2>1. Members(i, r) \in SUBSET (1 .. n)
    BY <1>1 DEF Members
  <2>2. IsFiniteSet(Members(i, r)) /\ Cardinality(Members(i, r)) \in Nat
    BY <1>2, <2>1, FS_Subset, FS_CardinalityType
  <2>3. InBucket(i, ns) <=> i = BucketOf(ns)
    BY OneBucket
  <2>4. Members(i, q) = IF i = BucketOf(ns) THEN Members(i, r) \cup {n + 1} ELSE Members(i, r)
    BY <1>1, <2>3 DEF Members
  <2>5. n + 1 \notin Members(i, r)
    BY <1>1, <2>1
  <2>6. Cardinality(Members(i, r) \cup {n + 1}) = Cardinality(Members(i, r)) + 1
    BY <2>2, <2>5, FS_AddElement
  <2>7. CASE i = BucketOf(ns)
    BY <2>2, <2>4, <2>6, <2>7
  <2>8. CASE i # BucketOf(ns)
    BY <2>2, <2>4, <2>8
  <2> QED BY <2>7, <2>8
<1>4. Sum(q, 1 .. n + 1) = ns + Sum(q, 1 .. n)
  <2>1. \A j \in 1 .. n + 1 : q[j] \in Int
    BY <1>1
  <2> QED BY <1>1, <1>2, <2>1, SumTakes
<1>5. Sum(q, 1 .. n) = Sum(r, 1 .. n) /\ Sum(r, 1 .. n) \in Nat
  BY <1>1, <1>2, SumCongruent, SumIsNat
<1>6. Sum(q, DOMAIN q) = Sum(r, DOMAIN r) + ns
  BY <1>1, <1>4, <1>5
<1> QED BY <1>3, <1>6 DEF q

\* What was recorded since the last reset, and what the collector keeps of it.
HistInv ==
  /\ recorded \in Seq(Nat)
  /\ latency = [buckets |-> [i \in 1 .. NumBuckets |-> Cardinality(Members(i, recorded))],
                total   |-> Sum(recorded, DOMAIN recorded),
                samples |-> Len(recorded)]

\* Nothing recorded, nothing kept.
LEMMA HistEmpty ==
  ASSUME NEW r, r = << >>
  PROVE  /\ r \in Seq(Nat)
         /\ NoLatency = [buckets |-> [i \in 1 .. NumBuckets |-> Cardinality(Members(i, r))],
                         total   |-> Sum(r, DOMAIN r),
                         samples |-> Len(r)]
<1>1. r \in Seq(Nat) /\ Len(r) = 0 /\ DOMAIN r = {}
  OBVIOUS
<1>2. Sum(r, DOMAIN r) = 0
  BY <1>1, SumEmpty
<1>3. \A i \in 1 .. NumBuckets : Cardinality(Members(i, r)) = 0
  BY <1>1, FS_EmptySet DEF Members
<1> QED BY <1>1, <1>2, <1>3 DEF NoLatency

\* Every step keeps it.
LEMMA HistNext ==
  HistInv /\ MbufInv /\ WorkerInv /\ [Next]_telemetryVars => HistInv'
<1> SUFFICES ASSUME HistInv, MbufInv, WorkerInv, [Next]_telemetryVars PROVE HistInv'
  OBVIOUS
<1>1. CASE UNCHANGED <<latency, recorded>>
  BY <1>1 DEF HistInv, Members
<1>2. CASE \E c \in Workers : Process(c)
  <2>1. PICK c \in Workers : Process(c)
    BY <1>2
  <2> DEFINE m == Head(worker[c].batch)
             ns == (worker[c].now - stamp[m]) * TickNs
  <2>2. CASE HasLatency(worker[c], m)
    <3>1. RecordLatency(ns)
      BY <2>1, <2>2 DEF Process
    <3>2. ns \in Nat
      <4>1. worker[c].batch \in Seq(Mbufs) /\ worker[c].batch # << >>
        BY <2>1 DEF Process, WorkerInv, WorkerRight, Counted
      <4>2. m \in Mbufs
        BY <4>1
      <4>3. stamp[m] \in 0 .. Now /\ worker[c].now \in 0 .. Now /\ Now \in Nat
        BY <4>2 DEF MbufInv, Now
      <4>4. worker[c].now - stamp[m] \in Nat
        BY <2>2, <4>3 DEF HasLatency
      <4>5. TickNs \in Nat
        BY CollectorAssumption
      <4> DEFINE d == worker[c].now - stamp[m]
      <4> HIDE DEF d
      <4>6. d \in Nat => d * TickNs \in Nat
        BY <4>5
      <4> QED BY <4>4, <4>6 DEF d
    <3> HIDE DEF ns
    <3>3. /\ recorded \in Seq(Nat) /\ recorded' = Append(recorded, ns)
          /\ recorded' \in Seq(Nat) /\ Len(recorded') = Len(recorded) + 1
      BY <3>1, <3>2 DEF HistInv, RecordLatency
    <3>4. latency' = [buckets |-> [latency.buckets EXCEPT ![BucketOf(ns)] =
                                     latency.buckets[BucketOf(ns)] + 1],
                      total   |-> latency.total + ns,
                      samples |-> latency.samples + 1]
      BY <3>1 DEF RecordLatency
    <3>5. /\ \A i \in 1 .. NumBuckets :
               Cardinality(Members(i, recorded')) =
                 Cardinality(Members(i, recorded)) + (IF i = BucketOf(ns) THEN 1 ELSE 0)
          /\ \A i \in 1 .. NumBuckets : Cardinality(Members(i, recorded)) \in Nat
          /\ Sum(recorded', DOMAIN recorded') = Sum(recorded, DOMAIN recorded) + ns
      BY <3>2, <3>3, OneMoreSample
    <3>6. /\ latency.buckets = [i \in 1 .. NumBuckets |-> Cardinality(Members(i, recorded))]
          /\ latency.total = Sum(recorded, DOMAIN recorded)
          /\ latency.samples = Len(recorded)
      BY DEF HistInv
    <3>7. [latency.buckets EXCEPT ![BucketOf(ns)] = latency.buckets[BucketOf(ns)] + 1] =
            [i \in 1 .. NumBuckets |-> Cardinality(Members(i, recorded'))]
      <4> DEFINE had == [i \in 1 .. NumBuckets |-> Cardinality(Members(i, recorded))]
                 has == [i \in 1 .. NumBuckets |-> Cardinality(Members(i, recorded'))]
                 b   == BucketOf(ns)
      <4>1. b \in 1 .. NumBuckets
        BY <3>2, OneBucket
      <4>2. \A i \in 1 .. NumBuckets : has[i] = IF i = b THEN had[b] + 1 ELSE had[i]
        BY <3>5, <4>1
      <4>3. DOMAIN had = 1 .. NumBuckets /\ has = [i \in 1 .. NumBuckets |-> has[i]]
        OBVIOUS
      <4> HIDE DEF had, has, b
      <4>4. [had EXCEPT ![b] = had[b] + 1] = has
        BY <4>1, <4>2, <4>3
      <4> QED BY <3>6, <4>4 DEF had, has, b
    <3>8. latency' = [buckets |-> [i \in 1 .. NumBuckets |-> Cardinality(Members(i, recorded'))],
                      total   |-> Sum(recorded', DOMAIN recorded'),
                      samples |-> Len(recorded')]
      BY <3>3, <3>4, <3>5, <3>6, <3>7
    <3> QED BY <3>3, <3>8 DEF HistInv, Members
  <2>3. CASE ~HasLatency(worker[c], m)
    BY <1>1, <2>1, <2>3 DEF Process, samples
  <2> QED BY <2>2, <2>3
<1>3. CASE FinishReset
  <2>1. latency' = NoLatency /\ recorded' = << >>
    BY <1>3 DEF FinishReset
  <2>2. /\ recorded' \in Seq(Nat)
        /\ latency' = [buckets |-> [i \in 1 .. NumBuckets |-> Cardinality(Members(i, recorded'))],
                       total   |-> Sum(recorded', DOMAIN recorded'),
                       samples |-> Len(recorded')]
    BY <2>1, HistEmpty
  <2> QED BY <2>2 DEF HistInv, Members
<1>4. CASE \E c \in Workers : Send(c) \/ CountTx(c) \/ ReceiveBurst(c) \/ CountRx(c)
  BY <1>1, <1>4 DEF Send, CountTx, ReceiveBurst, CountRx, metricsVars, samples
<1>5. CASE \/ \E p \in Pollers : PollStep(p)
           \/ BeginReset \/ StoreZero \/ ClearSnapshots \/ PassTime
  BY <1>1, <1>5
  DEF PollStep, BeginPoll, ReadClock, StoreSnapshot, FindSnapshot, LoadCounter, ReadLatency,
      BeginReset, StoreZero, ClearSnapshots, PassTime, samples
<1>6. CASE \/ \E m \in Mbufs : Transmitted(m)
           \/ \E m \in Mbufs, c \in Workers, f \in wire \cup {Foreign} : Arrive(m, c, f)
           \/ UNCHANGED telemetryVars
  BY <1>1, <1>6 DEF Transmitted, Arrive, telemetryVars, metricsVars, samples
<1> QED BY <1>2, <1>3, <1>4, <1>5, <1>6 DEF Next, WorkerStep, ResetStep

\* The histogram holds each sample once, in the bucket whose bounds the reader is
\* told, whatever resets come in between.
THEOREM TelemetryHistogramExact == Spec => []HistogramExact
<1>1. Init => HistInv
  <2> SUFFICES ASSUME Init PROVE HistInv
    OBVIOUS
  <2>1. latency = NoLatency /\ recorded = << >>
    BY DEF Init, MetricsInit
  <2> QED BY <2>1, HistEmpty DEF HistInv
<1>2. HistInv => HistogramExact
  <2> SUFFICES ASSUME HistInv PROVE HistogramExact
    OBVIOUS
  <2>1. FoldSeq(LAMBDA x, y : x + y, 0, recorded) = Sum(recorded, DOMAIN recorded)
    BY DEF FoldSeq, FoldFunction, Sum
  <2> QED BY <2>1 DEF HistInv, HistogramExact, Members
<1> QED BY <1>1, <1>2, HistNext, ControlAlways, TelemetryAlways, PTL DEF Spec

=============================================================================
