------------------------------- MODULE Metrics -------------------------------
(***************************************************************************)
(* MetricsCollector (core/stats/metrics_collector.cpp) and the handlers    *)
(* that read it, GetMetrics and GetStats (control/grpc/server.cpp).        *)
(*                                                                         *)
(* The collector has a slot for each of NumCores cores.  Workers add to    *)
(* the counters of their core with one fetch_add after the other and no    *)
(* lock; what is added for a core without a slot is dropped.  reset_all    *)
(* clears the counters one store after the other with mutex_, which        *)
(* record_latency takes too, and then the snapshots with snapshot_mutex_.  *)
(* A rate is computed in two critical sections of snapshot_mutex_:         *)
(* update_snapshot makes or replaces the core's snapshot, the rest         *)
(* compares it with the counters.  The clock is read before the counters,  *)
(* and workers go on in between.                                           *)
(*                                                                         *)
(* A packet counts as one byte; what a core has counted in all (`total')   *)
(* is a history beside the counters that a reset does not clear.           *)
(***************************************************************************)
EXTENDS Naturals, SequencesExt, FiniteSetsExt

CONSTANTS
  NumCores,     \* what initialize was given
  Pollers,      \* the server's threads that serve GetMetrics and GetStats
  Second,       \* clock ticks in a second
  TickNs,       \* nanoseconds in a tick, for latencies
  PollGap,      \* the least time clients leave between two polls
  Requests,     \* what clients call: "GetStats", "GetMetrics", "per core"
  NoSnapshot, NoRate, Nobody,
  Bounds        \* bounds of a behaviour: time, sends, arrivals, polls, resets

ASSUME CollectorAssumption ==
  /\ NumCores \in Nat \ {0} /\ Second \in Nat \ {0} /\ TickNs \in Nat /\ PollGap \in Nat
  /\ Requests \subseteq {"GetStats", "GetMetrics", "per core"}
  /\ Nobody \notin Pollers \cup {"reset_all"}
ASSUME BoundAssumption ==
  Bounds \subseteq [{"time", "sends", "arrivals", "polls", "resets"} -> Nat]

Cores == 0 .. NumCores - 1

\* CoreStats, in the order in which reset stores to them.
Counters == <<"tx_packets", "rx_packets", "tx_bytes", "rx_bytes", "errors">>
Zero     == [k \in {Counters[i] : i \in DOMAIN Counters} |-> 0]

VARIABLES
  bound,      \* the bounds this behaviour keeps, for good
  clock,
  count,      \* per_core_stats_
  snap,       \* last_snapshot_, and the history `base': totals at its time
  mutex,      \* who holds mutex_ over several steps
  snapMutex,  \* who holds snapshot_mutex_
  resetting,  \* reset_all: "no", "stores", "clear", "finish"
  stores,     \* the counters reset_all still has to clear
  latency,    \* latency_buckets_, total_latency_us_ (here in ns), latency_samples_
  pollers,    \* each poller's locals
  polls, resets,  \* calls so far
  total,      \* history: all that was added to each counter
  recorded    \* history: the samples since the last reset

locks       == <<mutex, snapMutex>>
reset       == <<resetting, stores, resets>>
traffic     == <<count, total>>
samples     == <<latency, recorded>>
polling     == <<pollers, polls>>
metricsVars == <<bound, clock, traffic, samples, snap, locks, reset, polling>>

-----------------------------------------------------------------------------
(* Latency. *)

BoundsUs == <<10, 50, 100, 250, 500, 1000, 5000, 10000, 50000>>
NumBuckets == Len(BoundsUs) + 1

\* Mutant of BucketOf: a sample on a bound stays below it.
BucketClosed(ns) ==
  Min({i \in 1 .. NumBuckets : i = NumBuckets \/ ns <= 1000 * BoundsUs[i]})

\* The first bound above the sample, the open-ended bucket if there is none.
BucketOf(ns) ==
  Min({i \in 1 .. NumBuckets : i = NumBuckets \/ ns < 1000 * BoundsUs[i]})

NoLatency == [buckets |-> [i \in 1 .. NumBuckets |-> 0], total |-> 0, samples |-> 0]

\* get_latency_histogram: what a bucket says it holds.
LowNs(i)  == IF i = 1 THEN 0 ELSE 1000 * BoundsUs[i - 1]
InBucket(i, ns) == LowNs(i) <= ns /\ (i < NumBuckets => ns < 1000 * BoundsUs[i])

\* record_latency waits for mutex_.
RecordLatency(ns) ==
  /\ mutex = Nobody
  /\ latency' = [buckets |-> [latency.buckets EXCEPT ![BucketOf(ns)] = @ + 1],
                 total   |-> latency.total + ns,
                 samples |-> latency.samples + 1]
  /\ recorded' = Append(recorded, ns)

\* One fetch_add of update_tx_stats or update_rx_stats.  They return at once for
\* a core id that has no slot.
FetchAdd(c, k, n) ==
  IF c \in Cores
  THEN /\ count' = [count EXCEPT ![c][k] = @ + n]
       /\ total' = [total EXCEPT ![c][k] = @ + n]
  ELSE UNCHANGED traffic

-----------------------------------------------------------------------------
(* reset_all. *)

\* reset() of every core in turn.
AllStores ==
  [i \in 1 .. NumCores * Len(Counters) |->
     <<(i - 1) \div Len(Counters), Counters[((i - 1) % Len(Counters)) + 1]>>]

BeginReset ==
  /\ resetting = "no" /\ mutex = Nobody /\ resets < bound.resets
  /\ resets' = resets + 1
  /\ mutex' = "reset_all" /\ resetting' = "stores" /\ stores' = AllStores
  /\ UNCHANGED <<bound, clock, traffic, samples, snap, snapMutex, polling>>

StoreZero ==
  /\ resetting = "stores"
  /\ count' = [count EXCEPT ![Head(stores)[1]][Head(stores)[2]] = 0]
  /\ stores' = Tail(stores)
  /\ resetting' = IF stores' = << >> THEN "clear" ELSE "stores"
  /\ UNCHANGED <<bound, clock, total, samples, snap, locks, resets, polling>>

\* Mutant of ClearSnapshots: reset_all keeps the snapshots.
KeepSnapshots ==
  /\ resetting = "clear"
  /\ resetting' = "finish"
  /\ UNCHANGED <<bound, clock, traffic, samples, snap, locks, stores, resets, polling>>

\* last_snapshot_.clear() in a critical section of its own.
ClearSnapshots ==
  /\ resetting = "clear" /\ snapMutex = Nobody
  /\ snap' = [c \in Cores |-> NoSnapshot]
  /\ resetting' = "finish"
  /\ UNCHANGED <<bound, clock, traffic, samples, locks, stores, resets, polling>>

\* Mutant of FinishReset: mutex_ stays locked.
FinishLocked ==
  /\ resetting = "finish"
  /\ latency' = NoLatency /\ recorded' = << >>
  /\ resetting' = "no"
  /\ UNCHANGED <<bound, clock, traffic, snap, locks, stores, resets, polling>>

FinishReset ==
  /\ resetting = "finish"
  /\ latency' = NoLatency /\ recorded' = << >>
  /\ mutex' = Nobody /\ resetting' = "no"
  /\ UNCHANGED <<bound, clock, traffic, snap, snapMutex, stores, resets, polling>>

-----------------------------------------------------------------------------
(* Polls. *)

\* What a call reads, in order: the pps and the bps of all cores; GetMetrics the
\* average latency too and, with include_per_core, the pps of each core again.
Latency == <<0, "latency">>

Plan(request) ==
  LET all(k) == [i \in 1 .. NumCores |-> <<i - 1, k>>]
      rates  == all("tx_packets") \o all("tx_bytes")
  IN  CASE request = "GetStats"   -> rates
        [] request = "GetMetrics" -> Append(rates, Latency)
        [] request = "per core"   -> Append(rates, Latency) \o all("tx_packets")

Idle == [at |-> "idle", todo |-> << >>, now |-> 0, base |-> NoSnapshot, rate |-> NoRate,
         owed |-> FALSE, shown |-> FALSE, last |-> NoSnapshot, wait |-> 0]

TotalTx == MapThenSumSet(LAMBDA c : total[c].tx_packets, Cores)

Totals(c) == [k \in {"tx_packets", "tx_bytes"} |-> total[c][k]]

Core(p)    == Head(pollers[p].todo)[1]
Counter(p) == Head(pollers[p].todo)[2]

At(p, place) == pollers[p].at = place

\* Were packets counted since this client's last poll, and nothing reset?
Owed(last) ==
  /\ last # NoSnapshot /\ resetting = "no"
  /\ last.resets = resets /\ last.tx < TotalTx

BeginPoll(p) ==
  /\ At(p, "idle") /\ polls < bound.polls /\ pollers[p].wait = 0
  /\ polls' = polls + 1
  /\ \E r \in Requests :
       pollers' = [pollers EXCEPT ![p].at = "update", ![p].todo = Plan(r), ![p].shown = FALSE,
                     ![p].owed = Owed(pollers[p].last)]
  /\ UNCHANGED <<bound, clock, traffic, samples, snap, locks, reset>>

\* Mutant of ReadClock: update_snapshot does not lock.
ReadClockUnlocked(p) ==
  /\ At(p, "update") /\ Head(pollers[p].todo) # Latency
  /\ pollers' = [pollers EXCEPT ![p].at = "store", ![p].now = clock, ![p].rate = NoRate,
                                ![p].base = Totals(Core(p))]
  /\ UNCHANGED <<bound, clock, traffic, samples, snap, locks, reset, polls>>

\* update_snapshot: lock and read the clock, then load the counters, make the
\* core's snapshot or replace one that is a second old, unlock.
ReadClock(p) ==
  /\ At(p, "update") /\ Head(pollers[p].todo) # Latency /\ snapMutex = Nobody
  /\ snapMutex' = p
  /\ pollers' = [pollers EXCEPT ![p].at = "store", ![p].now = clock, ![p].rate = NoRate,
                                ![p].base = Totals(Core(p))]
  /\ UNCHANGED <<bound, clock, traffic, samples, snap, mutex, reset, polls>>

StoreSnapshot(p) ==
  /\ At(p, "store")
  /\ LET c == Core(p) IN
       snap' = IF snap[c] = NoSnapshot \/ pollers[p].now - snap[c].time >= Second
               THEN [snap EXCEPT ![c] = [tx_packets |-> count[c].tx_packets,
                                         tx_bytes |-> count[c].tx_bytes,
                                         time |-> pollers[p].now, base |-> pollers[p].base]]
               ELSE snap
  /\ snapMutex' = Nobody
  /\ pollers' = [pollers EXCEPT ![p].at = "rate", ![p].now = 0, ![p].base = NoSnapshot]
  /\ UNCHANGED <<bound, clock, traffic, samples, mutex, reset, polls>>

\* What a rate or an average leads to: the next one, or the end of the call.
NextRate(p, result) ==
  LET rest == Tail(pollers[p].todo)
      ended == rest = << >> IN
    [pollers[p] EXCEPT
       !.todo  = rest, !.now = 0, !.rate = result,
       !.at    = IF ended THEN "idle" ELSE "update",
       !.shown = @ \/ (Counter(p) = "tx_packets" /\ result # NoRate /\ result.delta > 0),
       !.last  = IF ended /\ resetting = "no" THEN [tx |-> TotalTx, resets |-> resets]
                 ELSE NoSnapshot,
       !.wait  = IF ended THEN PollGap ELSE 0]

\* The rest of calculate_current_pps and calculate_current_bps: lock, find the
\* snapshot, read the clock; no time passed, no rate.
FindSnapshot(p) ==
  /\ At(p, "rate") /\ snapMutex = Nobody
  /\ IF snap[Core(p)] = NoSnapshot \/ clock <= snap[Core(p)].time
     THEN /\ pollers' = [pollers EXCEPT ![p] = NextRate(p, NoRate)]
          /\ UNCHANGED snapMutex
     ELSE /\ pollers' = [pollers EXCEPT ![p].at = "load", ![p].now = clock]
          /\ snapMutex' = p
  /\ UNCHANGED <<bound, clock, traffic, samples, snap, mutex, reset, polls>>

\* Mutant of Growth: the difference wraps when the counter was cleared.
GrowthUnchecked(current, before) ==
  IF current >= before THEN current - before ELSE 1000 + current - before

\* How much the counter grew; a counter that was cleared did not grow.
Growth(current, before) == IF current > before THEN current - before ELSE 0

\* `sent' is what was counted from the time of the snapshot to this load.
LoadCounter(p) ==
  /\ At(p, "load")
  /\ LET c == Core(p)
         k == Counter(p) IN
       pollers' = [pollers EXCEPT ![p] =
         NextRate(p, [elapsed |-> pollers[p].now - snap[c].time,
                      delta   |-> Growth(count[c][k], snap[c][k]),
                      sent    |-> total[c][k] - snap[c].base[k]])]
  /\ snapMutex' = Nobody
  /\ UNCHANGED <<bound, clock, traffic, samples, snap, mutex, reset, polls>>

\* get_average_latency_us waits for mutex_ and reads.
ReadLatency(p) ==
  /\ At(p, "update") /\ Head(pollers[p].todo) = Latency /\ mutex = Nobody
  /\ pollers' = [pollers EXCEPT ![p] = NextRate(p, NoRate)]
  /\ UNCHANGED <<bound, clock, traffic, samples, snap, locks, reset, polls>>

-----------------------------------------------------------------------------
PassTime ==
  /\ clock < bound.time
  /\ clock' = clock + 1
  /\ pollers' = [p \in Pollers |-> [pollers[p] EXCEPT !.wait = IF @ = 0 THEN 0 ELSE @ - 1]]
  /\ UNCHANGED <<bound, traffic, samples, snap, locks, reset, polls>>

MetricsInit ==
  /\ bound \in Bounds
  /\ clock = 0
  /\ count = [c \in Cores |-> Zero] /\ total = [c \in Cores |-> Zero]
  /\ latency = NoLatency /\ recorded = << >>
  /\ snap = [c \in Cores |-> NoSnapshot]
  /\ mutex = Nobody /\ snapMutex = Nobody
  /\ resetting = "no" /\ stores = << >> /\ resets = 0
  /\ pollers = [p \in Pollers |-> Idle] /\ polls = 0

PollStep(p) ==
  \/ BeginPoll(p) \/ ReadClock(p) \/ StoreSnapshot(p) \/ FindSnapshot(p) \/ LoadCounter(p)
  \/ ReadLatency(p)

ResetStep == BeginReset \/ StoreZero \/ ClearSnapshots \/ FinishReset

-----------------------------------------------------------------------------
MetricsTypeOK ==
  /\ bound \in Bounds /\ clock \in 0 .. bound.time
  /\ \A c \in Cores : \A k \in DOMAIN Zero : count[c][k] \in 0 .. total[c][k]
  /\ mutex \in {Nobody, "reset_all"} /\ snapMutex \in Pollers \cup {Nobody}
  /\ resetting \in {"no", "stores", "clear", "finish"}
  /\ (mutex = Nobody) = (resetting = "no")
  /\ \A p \in Pollers : pollers[p].at \in {"idle", "update", "store", "rate", "load"}
  /\ \A p \in Pollers : snapMutex = p <=> pollers[p].at \in {"store", "load"}

\* A rate is never more than what was counted from the time of its snapshot,
\* in the time that passed since, whatever updates, polls and resets interleave
\* (metrics_collector.cpp:146-172, 285-308).
RateIsReal ==
  \A p \in Pollers : pollers[p].rate # NoRate =>
    pollers[p].rate.elapsed > 0 /\ pollers[p].rate.delta <= pollers[p].rate.sent

\* When reset_all has returned no snapshot is above the counters, so no rate
\* stays 0 because of traffic before the reset (metrics_collector.cpp:119-130).
SnapshotNotAhead ==
  resetting = "no" => \A c \in Cores : snap[c] # NoSnapshot =>
    snap[c].tx_packets <= count[c].tx_packets /\ snap[c].tx_bytes <= count[c].tx_bytes

\* The histogram holds each sample since the reset once, in the bucket whose
\* bounds the reader is told, and the average is that of those samples
\* (metrics_collector.cpp:233-283).
HistogramExact ==
  /\ \A i \in 1 .. NumBuckets :
       latency.buckets[i] = Cardinality({j \in DOMAIN recorded : InBucket(i, recorded[j])})
  /\ latency.samples = Len(recorded)
  /\ latency.total = FoldSeq(LAMBDA x, y : x + y, 0, recorded)

\* A client that polls again sees the traffic counted since its last poll in
\* the rate it is shown: "PPS/BPS rate calculation"
\* (IMPLEMENTATION_SUMMARY.md:62), polled as client.py:340-345 does.
PollsShowTraffic ==
  \A p \in Pollers :
    At(p, "idle") /\ pollers[p].owed => pollers[p].shown

=============================================================================
