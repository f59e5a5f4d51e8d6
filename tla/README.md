# A specification of NGFWTrafficGen

TLA+ modules, TLC runs and TLAPS proofs for the traffic generator in `src/`
(C++ on DPDK, controlled over gRPC). The modules are translated from the code;
the documents of the repository are used only for what they promise.

## The system

| part | source | state it keeps | operations |
|---|---|---|---|
| Token bucket | `core/scheduler/token_bucket.*` | rate, burst size, tokens, time of last refill (atomics), a mutex | `try_consume`, `set_rate`, `set_burst_size`, `reset` |
| Flow scheduler | `core/scheduler/flow_scheduler.*` | table id → flow, lookup 5-tuple → id, one mutex | `add_flow`, `remove_flow`, `start_flow`, `stop_flow`, `get_ready_flows`, `handle_tcp_rx`, snapshots |
| TCP state machine | `core/stateful/tcp_state.*` | state and numbers of one connection | `process_event` |
| IMIX engine | `core/scheduler/imix_engine.*` | entries, distribution, a mutex | `configure`, `select_next_packet_size` |
| Workers | `core/worker/worker.*` | a thread each; the burst it is building | `process_flows`, `transmit_burst`, `receive_burst`, `process_received_packets`, `start`, `stop`, `join` |
| Mempools | `core/mempools/*` | one mbuf pool per socket | `allocate_burst`, `get_mempool` |
| Packets | `core/packet/*` | none | `build_template`, `clone_and_mutate`, checksums |
| Metrics | `core/stats/*`, `core/common/types.hpp` | counters per core (atomics), snapshots, latency histogram, running flag | `update_tx_stats`, `reset_all`, `calculate_current_pps`, ... |
| gRPC service | `control/grpc/*`, `proto/*` | a mutex held for a whole handler | `ConfigureIMIX`, `ConfigureFlows`, `StartTraffic`, `StopTraffic`, `GetMetrics`, `GetStats` |
| Process | `main.cpp` | globals | set-up, `launch_workers`, the waiting loop, shutdown, the signal handler |
| Configuration | `util/config/*` | none after start | `parse_from_string`, `validate_config` |
| Python client | `control/python_client/*` | none | one method per RPC; the RFC 2544 search |

**Interaction.** A client's RPC runs on a gRPC thread, under the service's
mutex, and calls the scheduler several times. Every worker thread polls the
same scheduler (`get_ready_flows`), looks each flow up again, takes an mbuf,
builds and stamps a packet, counts it on the flow, hands the burst to the NIC
and then counts it on its core. Received TCP segments reach the scheduler
through the lookup. Signals stop the gRPC server and the workers from a handler
that runs on top of main or, when main is already in one, on another thread.

**What is hard.** The scheduler's calls are atomic, but every caller makes
several, so control operations and workers interleave between them: a flow is
replaced, stopped or restarted while a worker holds it. Some state is shared
with no lock at all (`send_seq`), or with a lock that covers half of an
operation (the bucket). Buffers change owner on four paths. Time is compared in
two places. A signal may find any mutex held. `PROJECT.json` lists the hazards
with their lines and the properties that watch them.

**What makes each part correct.**
Token bucket: never above its burst size, never more than its rate. Scheduler:
each flow keeps its rate and its budget over any schedule of polls and restarts;
a segment finds its own flow and no other. Worker: no mbuf lost or freed twice,
every counted packet accounted for, sequence numbers that follow the segments.
Packets: lengths and checksums a receiver accepts, whatever sizes a profile draws.
Service: after a stop nothing is active, at most a burst of each worker still
leaves, and what is in flight drains. Metrics: no statistics and no rate of packets
that were not sent, each received packet counted once, each latency in the bucket
it is shown in; readers, writers and resets never wait for each other for ever.
Process: no queue without descriptors or mempool, no worker on a port that was not
set up; it stops when told to, with the ports last.

The code does not do all of that. Where it does not, a run shows it or the list of
findings below names the lines: mbufs are lost under the status DPDK documents, a
worker is started on a port the machine lacks, ICMP has no checksum, a core without
a slot is not counted. The properties and theorems are stated of what is left.

## Modules

| module | models | extends |
|---|---|---|
| `TokenBucketOps` | the bucket's arithmetic, whole operations | |
| `TokenBucket` | one bucket and its threads at the grain of atomic accesses | `TokenBucketOps` |
| `TcpState` | the TCP transitions and the events of a received segment | |
| `Packets` | templates, mutation, lengths and checksums, as operators | |
| `RateLimiter` | abstract: an ideal token bucket with fractional credit | |
| `TrafficControl` | abstract: what a client is promised of configure, start and stop | |
| `FlowScheduler` | the scheduler, one action per operation; implements `RateLimiter` for one observed flow | `TokenBucketOps`, `TcpState`, `Packets` |
| `Imix` | the IMIX engine: validation, configuration, what a draw may yield | |
| `TrafficGen` | gRPC handlers, workers, mbuf pool and NIC around one scheduler; implements `TrafficControl` | `FlowScheduler`, `Imix` |
| `Metrics` | the collector, `reset_all` and the handlers that poll it | |
| `Telemetry` | workers that send, receive, time and count; the mbufs and frames; the collector | `Metrics` |
| `Config` | what the parser makes of a file, defaults, validation, as operators | |
| `Startup` | main up to the gRPC server: options, configuration, mempools, ports | `Config` |
| `Lifecycle` | main from there to its end, signal handler, gRPC server object, worker threads | `Startup` |
| `MCFlowScheduler`, `MCTrafficGen`, `MCTelemetry`, `MCLifecycle` | small instances for TLC | |
| `SumProofs` | lemmas on sums over finite sets | |
| `TokenBucketOpsProofs`, `TokenBucketProofs`, `FlowSchedulerProofs`, `PacingProofs`, `TrafficGenProofs`, `TelemetryProofs`, `LifecycleProofs` | theorems | |

### How state and actions correspond to the code

*TokenBucket.* `rate`, `burst`, `tokens`, `last` are the four atomics; `owner`
is the mutex. `try_consume` is `CallTryConsume`, then `SkipRefill` or
`BeginRefill` + `StoreRefill` (`update_tokens`, load and store apart), then
`LoadTokens` and `TakeTokens` / `RetryTake` (the compare-and-swap loop). One
`try_consume` of the program always runs under the scheduler's mutex: that is
`serialised = TRUE`. `FALSE` is the use the class comment allows; `RateBound` is
stated of the first. Memory order: all bucket variables are single atomics; the
steps are sequentially consistent.

*FlowScheduler.* `flows` is `flows_`, with the bucket and connection of each
flow as records; `lookup` is `flow_lookup_`; `order` is the unspecified
iteration order of the hash table. Every public operation holds `mutex_` from
its first to its last statement and is one action. Refused calls change
nothing and are not actions. `granted` is history. A key is a pair of endpoints
and a protocol; sequence numbers received are abstracted to the 5-tuple of the
segment they came from, which is what `PerConnectionState` is about.

*Packets and Imix.* A packet is its size, its length fields, the two fields the
mutator redraws and its checksums. A checksum is the tuple of fields it was
computed from, so "right" means computed from the fields as they are now; the
sum itself is left out. A size has 32 bits; the length of the mbuf (`data`), the
test for room (`Fits`) and the lengths in the headers are cut to 16, as in DPDK and
on the wire. An ICMP packet has no checksum (`packet_builder.cpp:92`), so it is never
`WellFormed`. `Mutated` is `clone_and_mutate` with checksums on, as
the worker calls it. A profile is the list of entries; a draw is any size whose
percentage is not 0.

*TrafficGen.* `svc` is the handler under way, cut at its calls of the
scheduler, so worker steps fall between them. A worker's `pc` follows
`process_flows`: `Poll`, `Pick` (lookup, active test, allocation, the test of what
it returned and of what is in the slot), `Build` (a
size, `clone_and_mutate`, the connection's number), `Advance` (`send_seq +=`, an
unguarded read and write, and the second checksum), `Count`, `EndPick`,
`Transmit` and `Account` (the NIC takes a prefix of the burst; counters and
frees follow). `slot` says that there is an mbuf at `mbufs[mbuf_count]`: an
allocation that answers 0 leaves one there if it did succeed, and the next one
overwrites it, which is where an mbuf is `lost`. `orphan` says that the flow object
a worker holds was replaced in the table. `seq` counts segments; all have one payload
length. Packets of replaced flows, the wire, drops, and what a worker built (`late`)
and handed to the NIC (`out`) since a stop was answered are history. `setup` is what a
behaviour is given for good: the workers main launched, the answers of the library's
allocation, what clients may ask for, and bounds.

*TrafficControl* knows a call and its kind, whether traffic runs, which flows are
active and how many packets each worker let out since a stop was answered: once, and
at most a burst. `TrafficGen` implements it with `Call` (the kind of call the handler
serves, from its first lock to its reply), `Active` (what `get_active_flows` would
return) and its own `running` and `out`, which `Transmit` raises by what the NIC took.

*Metrics.* `count` is `per_core_stats_`; each `fetch_add` is a step, each store
of `reset_all` is a step (`stores` lists those to come), and so is each critical
section of `snapshot_mutex_`, split again where the clock is read before the
counters. `pollers` are the server's threads in `GetMetrics` and `GetStats`,
`todo` what the call still has to read. `total` is what was added to each
counter in all (nothing for a core the collector has no slot for), and a snapshot
carries the totals of its time (`base`): that is
what makes "sent since the snapshot" a thing to compare a rate with.

*Telemetry.* A worker's turn is `Send` (one packet stamped and handed over) and
`CountTx` twice, or `ReceiveBurst`, `Process` for each mbuf and `CountRx` twice.
A worker is its `core_id`, which need not be a slot of the collector (`Cores`); only
workers of `Receiving`, those with `enable_rx`, ever read their queue.
The timestamp belongs to the mbuf (`stamp`), the frame to the network (`frame`,
`wire`), which may lose, repeat and reorder. `record_latency` waits for
`mutex_`, which `reset_all` holds over many steps.

*Config and Startup.* A file is a function from keys to numbers and lists of
such functions; `Number` is `parse_uint` with its cut to the field's width, a
field an object omits is 0, an array that is given replaces the default one. In
`Startup` every early exit of `main` is there, every call of DPDK may fail,
mempools are made socket by socket and ports set up one by one; `queues` is
history, each queue with its descriptors and the pool it was given.

*Lifecycle.* `pc` is main's place between its calls, `frames` the stack of
signal handlers on top of it, `elsewhere` a handler on another thread, which may be
one that serves a call: that is where a signal goes that main has masked. `locked` is
`GRPCServer::mutex_`. `anytime` says
whether signals may come at any time or only when main waits in its loop.

### External parts

DPDK and gRPC are modelled by how the code uses them. The NIC takes any prefix
of a burst, and gives each mbuf back some time after. `Server::Shutdown` refuses
new calls and returns when none is in flight. `rte_eth_dev_stop` may fail, which main
does not look at (`main.cpp:357`): a port is "stopped" when it was asked to.

`allocate_burst` forwards what `rte_pktmbuf_alloc_bulk` answers
(`mempool_manager.cpp:81`), and `process_flows` takes 0 for a failure
(`worker.cpp:251`). DPDK documents a status, 0 for success. Much depends on which it is,
so the answers are part of the setup: `AsRead` of `MCTrafficGen` is a count, with which
packets are sent, and `Documented` the status, with which a worker takes mbuf after mbuf
and forgets each; only an allocation that fails is taken for a success, and if the slot
still has the mbuf of the one before, that one is sent. `traffic_gen` has setups of
both, `MbufsConserved` says of both where every mbuf is, and `traffic_gen_alloc` shows
the loss.

## Runs

| run | instance | shows |
|---|---|---|
| `token_bucket` | 2 threads, rates 0, 1, 6, bursts 0, 1, 3, requests 1, 2, 4 ticks to a second, integers below 7, 4 ticks | type, `TokensWithinBurst`, `RateBound` |
| `flow_scheduler` | 2 ids (a paced stateful flow with a duration, reconfigured to other rates, one of them too low for its bucket; an unpaced one; one too small), 5 kinds of segments, integers below 5, 5 ticks | pacing, budget, lookup, connections, refinement of `RateLimiter` |
| `flow_scheduler_rekeyed` | one id with two 5-tuples | violated: `PerConnectionState` |
| `flow_scheduler_rate` | a flow whose rate is too low for its bucket and one whose is not | violated: `PacketsPerSecond` |
| `traffic_gen` | bursts of 2, 3 mbufs, one of four setups: 2 workers on a stateful flow with a duration, 3 requests; 1 worker, a list of that flow, one that is refused and an IMIX flow, profiles with a size that fits and one that does not and two that are refused, 3 requests; 1 worker on the stateful flow, 4 requests; 1 worker with the documented status, 3 requests; in the first and the last the clock ticks and durations end | mbufs, accounting, statistics, `PacketsWellFormed`, lateness of a stop, sequence numbers of a worker alone, draining, refinement of `TrafficControl` |
| `traffic_gen_seq` | the setup of two workers | violated: `NextSequence` |
| `traffic_gen_alloc` | the setup of the documented status | violated: `NoMbufLost` |
| `telemetry` | 3 workers (core_id 0, with the only slot; 1, which receives too; 2, which does not receive), 2 pollers, 2 mbufs, bursts of 2, three scenarios | rates, snapshots, histogram, receive counters, progress of packets and polls |
| `telemetry_polled` | 1 client that polls no more than once a second | violated: `PollsShowTraffic` |
| `telemetry_latency` | 2 sends, 2 arrivals | violated: `LatencyIsRoundTrip` |
| `lifecycle` | 10 configurations (no file among them), 3 machines, SIGINT and SIGTERM, 3 signals, 2 calls in flight, fields of 2 and 3 bits | queues get what they need and workers their ports unless the machine lacks them, ports last and all of them, stop is final, termination |
| `lifecycle_anytime` | the same | violated: `GracefulShutdown` |

**Why the bounds are enough.** Two threads or workers are the least at which every race
in this code shows: each is between one reader-writer and one other. In `token_bucket`
integers below 7 make the sum of a refill wrap and the product exceed its width within
the four ticks. Rates are below, at and above one token per tick, so refills of nothing,
of a fraction and of several tokens all occur; a burst of 0 is the code's for fewer than
10 packets per second. In `flow_scheduler` a second is three ticks and a bucket holds
half a second of its rate, where the code's holds a tenth: a rate of 4 earns one and a
third of a packet a tick, 3 earns one, 2 earns two thirds, and 1 has an empty bucket as
1 to 9 do in the code. Integers are below 5, so a flow of rate 4 that is idle for three
or four ticks has a refill whose sum or whose product wraps, once to exactly nothing; in
`flow_scheduler_rate` nothing wraps, so that it is the bucket's size alone that stops
the flow. The duration ends within the clock's range, and late polls and restarts after
it occur. Three mbufs for two workers with bursts of two make the pool run empty, and so
do two lost ones and one more. Three requests are configure, start and stop, in any
order and any of them again; the setup with four has a restart after a stop, or a
reconfiguration and a second stop. Three signals are one to main, one on top of
another's handler, and one more, on main later or on another thread at the same time.

In `telemetry` a behaviour keeps the bounds of one scenario (`Scenarios` of
`MCTelemetry`), because the product of all three is out of reach: two polls over two
ticks beside a send, so that the second replaces the first one's snapshot; a poll beside
a reset and a send, at every place of each; two arrivals, a reused mbuf and a reset that
meets the burst. The send and the arrivals may be those of any worker. A second is two
ticks, so a snapshot is replaced and is kept. One tick of latency is exactly the first
bound of the histogram (10 us); the other buckets are the theorem's. In `lifecycle` the
files omit fields and arrays, give numbers that are cut to smaller ones and to 0,
describe a port the machine lacks and a worker on a port that is not described; the
machines have two sockets, one socket with a port that reports none, and no ports at
all.

**Deadlock** is not checked in `Lifecycle`, where the process ends, nor in
`Telemetry`, where the bounds stop everybody in the end; the cases in which
threads hang before that are what `LoopSignalEnds` and `GracefulShutdown`,
`QueuesDrain` and `PollsEnd` are about. The other models never stop (workers
poll).

**Fairness.** Weak fairness of each worker's steps, of the handler under way and of the
NIC in `traffic_gen`: each is a thread of its own, or hardware, and no step waits for a
lock that is held for longer than one action. In `Telemetry`: weak fairness of each
worker that has something in its hands or its queue, of each call of `GetMetrics` that
has begun and of a reset that has begun. They do wait for mutexes held over several
steps; weak fairness is enough as there are only finitely many calls and packets, and
nobody is asked to send, poll or reset. A worker without `enable_rx` never empties its
queue, and `QueuesDrain` asks it of the others. In `Lifecycle`: weak fairness of main,
of main's innermost handler and of the one elsewhere, of calls in flight and of every
worker that was asked to stop (its loop tests the flag on every turn). No client has to
call and no signal has to come.

## Findings

Seven runs show a disagreement between what the repository says and what the code
does; `PROJECT.json` quotes both sides. In short:

- re-keying a flow id leaves lookup entries that mix connections;
- a flow of 1 to 9 packets per second sends nothing, its bucket being pps / 10 = 0
  large (`flow_scheduler.cpp:60`); `SlowFlowsSendNothing` proves it of every such flow;
- two workers on one stateful flow duplicate sequence numbers;
- with the status DPDK documents for its allocation a flow whose allocation succeeds
  is skipped and its mbuf forgotten (`worker.cpp:251`, `mempool_manager.cpp:81`);
- a client that polls once a second, as both Python programs do, is shown a rate
  of 0 throughout;
- the recorded latency is the age of the mbuf's last stamp, not a round trip;
- a signal at the wrong time blocks the process for ever.

Others were met on the way and have no run: reading the lines shows them, and
the models say what does hold.

- No connection opens. `TCP_STATE_MACHINE.md:260-263` has a transition from CLOSED for
  RECV_SYN and `IMPLEMENTATION_SUMMARY.md:218` says that stateful TCP flows are
  implemented. In the code RECV_SYN has no transition in CLOSED
  (`tcp_state.cpp:11-17`), nothing raises SEND_SYN (`flow_scheduler.cpp:254-268`),
  and so stateful flows send data on closed connections. `NoConnectionOpens` proves
  it for all segments: it is a statement of the defect, not of correctness.
- The sample configuration (`README.md:159-166` of the repository: one mapping, core_id 1)
  is never counted, neither what it sends nor what it receives: the collector has as
  many slots as there are mappings (`main.cpp:302-303`) and drops what is reported for
  other cores (`metrics_collector.cpp:46-48`, `:61-63`), against the
  `total_tx_packets > 0` of `README.md:363`. `TrafficIsCounted` is that
  assertion; `GenTrafficCounted` proves it where each core_id has a slot, and
  `ReceivedCounted` is stated of the workers that have one.
- ICMP is listed as supported (`README.md:15`), but its checksum is "calculated later"
  (`packet_builder.cpp:92`) by no code. `PacketsWellFormed` is about TCP and UDP.
- A field omitted from an object of an array is 0 (`config_parser.cpp:177`, `:193`),
  where `README.md:140` says that sensible defaults apply to omitted fields. Validation
  refuses a port without descriptors or without any queue (`:227-234`), which
  `QueuesUsable` rests on; the other fields are 0 silently.
- A port that the machine lacks is skipped (`main.cpp:108-112`) and the worker mapped
  to it is started (`main.cpp:186-215`); a mapping's `queue_id` is compared with
  nothing. `PortsReadyOrMissing` is what holds, and its name says what it leaves out.
- `drain_queues` and `timeout_seconds` of `StopTraffic` are not looked at
  (`server.cpp:149`), so a reply to a stop does not say that bursts are out. Each
  worker may still send one (`KeepsPromises`), of which it builds at most one packet
  after the reply (`AtMostOneLate`), and they end (`StopDrains`).
- A packet size of 65536 or more is cut to 16 bits in the test for room and in the
  lengths (`packet_mutator.cpp:32`, `:53`, `:57`), while the packet is written in full.
- The bucket is thread-safe only under the scheduler's mutex, against the comment of
  its class; in this program that mutex is always held.

## Theorems

All proofs are checked by TLAPS with no gaps, for every value of the constants
that satisfies the named assumptions of the modules: rates, sizes, times and
what DPDK reports are naturals, configurations of flows have the fields their
type says, the arrays of a file are sequences of objects that give naturals to
keys and map no more workers than `MaxWorkers`, integers have any width but
zero, mbufs, workers and flow ids are finitely many (ids have 32 bits), and the
model values that stand for nothing (`NoPool`, `Nobody`, `NoFlow`) are no pool,
no thread and no flow. Some theorems hold under a condition that is part of their
statement or of the property's: `ConnectionsSeparate` and
`ConnectionsKeepToThemselves` (distinct keys), `GenTrafficCounted` and
`TelemetryReceivedCounted` (a slot for the core), `GenNextSequence` (one worker),
`GenMbufsConserved` for its second half (what the allocation answers),
`GenPacketsWellFormed` (TCP or UDP, below 64 KB), `SpecPortsReadyOrMissing` (the machine
has the port). Below and under Findings it is said what the code does otherwise.

- `TokenBucketProofs`: `TypeCorrect`, `MutexExclusive`, `BurstRespected` and
  `RateControl`. `RateBound` is not inductive: `RateInv` adds that with exclusive calls
  the value a refill loaded is still the bucket's (`RefillSound`) and that its due
  tokens are earned by the interval it will close. Without exclusion the first part is
  false: another thread's consumption is undone.
- `FlowSchedulerProofs`: `SchedulerTypeCorrect`, `FlowRateControl`, `BudgetKept` from
  one invariant, `SchedulerInv`. `PacketBudget` needs more than the rate bound: that the
  refills of an active flow lie within its duration, because expiry is tested before the
  bucket is asked (`FlowInv`). `NoConnectionOpens`: a closed connection is a fixed point
  of all receive events. `ConnectionsSeparate` and its corollary
  `ConnectionsKeepToThemselves` assume `DistinctKeys`, that clients use one 5-tuple per
  id and one id per connection. The code does not enforce it, and
  `flow_scheduler_rekeyed` shows what happens otherwise.
- `PacingProofs`: `PacingImplementsRateLimiter`, that every step of the scheduler is a
  step of `RateLimiter` or a stutter, seen from any one flow, for any rates, times and
  width of the integers (a client chooses a rate of 64 bits freely). The argument is in
  `RefillMakesNoCredit` and `ConsumePays`: a refill turns time into tokens and never
  into more than the credit it stood for. The credit in the mapping is the product as
  update_tokens sees it, cut at 2^64 packets (`CutProduct`). With the product not cut
  the mapping is wrong: an interval that earned exactly 2^64 packets stays open although
  it is paid for, and in the instance of `flow_scheduler` that credit is then too high.
  `SlowFlowsSendNothing` says how far the finding of `flow_scheduler_rate` reaches. It
  needs that every bucket has the size its rate gives it (`SlowInv`), through starts and
  reconfigurations: a bucket without room never holds a token (`NoRoomNoToken`).
- `TrafficGenProofs`: `GenImplementsScheduler`, that the generator is a scheduler: each
  step of a handler or worker is one operation or none. It needs of the handlers only
  what they carry from step to step (`HandlerInv`), and hands everything proved of the
  scheduler on to the generator (`GenRateControl`). `GenQuietWhenStopped` and
  `GenAtMostOneLate` follow from `StopInv`: a stop under way has every flow that is
  still active on its list, since no poll activates one and no start can run beside it;
  and a worker in the middle of a packet after a stop has built none since.
  `GenPacketsWellFormed`, about TCP and UDP packets of less than 64 KB, follows from
  `PacketInv`, which adds that sizes in the table and in the profile have room for the
  headers, and that a segment waiting for its number has right lengths but a checksum
  that is not right yet. `GenMbufsConserved`, `GenPacketsAccounted`, `GenTxNotAhead` and
  `GenTypeCorrect` follow from `LedgerInv`. The three sums alone are not inductive: that
  an mbuf is not freed twice, and lost only where the slot it is in is overwritten or
  dropped, rests on how a burst fits what is still to be built (`HandInv`: the burst,
  the flows left to pick and the packet being made are at most `tx_burst_size`, because
  `get_ready_flows` returns at most that many, `ReadyFlowsBounded`), on which of a burst
  the NIC took (`Taken`), and on the statistics being behind the wire by at least what
  was taken and is not yet counted (`JustTaken`), which a reset can only widen. Two
  invariants proved before supply the rest (`StopInv`, `PacketInv`). A step changes one
  worker's term or one flow's; `SumChanges` carries that to the sums.
  `GenTrafficCounted` assumes that every worker's `core_id` is below the number of core
  mappings, and then a burst of which the NIC took packets shows in the statistics.
  `GenNextSequence` is about a setup of one worker (`NextSequenceAlone`): while a
  segment waits for its number to be advanced, the number read is still the connection's
  (`SeqInv`). `traffic_gen_seq` shows that it is not with two. `GenKeepsPromises` is the
  refinement of `TrafficControl`: a handler's step is a begin, an activation, a
  deactivation or a reply (`HandlerSeen`), a worker's is the end of a flow or the burst
  that leaves after a stop (`WorkerSeen`). `StopInv` is what lets a stop be answered
  with nothing active; that a worker sends only one burst after it rests on no flow
  being ready for another poll.
- `TelemetryProofs`: `TelemetryRateIsReal` and `TelemetrySnapshotNotAhead` from
  `CollectorInv`. Its core is `SnapRight`: count and snapshot never differ by more than
  totals do, `count + base <= total + snapshot`, which survives a cleared counter
  because it only loses on the left; and outside the first two parts of a reset no
  snapshot is ahead. `TelemetryReceivedCounted` follows from `WorkerInv`, the account of
  packets freed, left and counted at each place of the receive path, for the workers
  whose core has a slot. `TelemetryTypeCorrect` adds `ControlInv` and `MbufInv`: an mbuf
  that is with the NIC carries a stamp, so what arrives was sent before now.
  `TelemetryHistogramExact`: the buckets' bounds part the latencies (`OneBucket`), so a
  sample adds one to one count (`OneMoreSample`), and a reset clears counts and samples
  in one critical section (`HistInv`).
- `SumProofs` is what the ledger and the histogram rest on: the fold of the community
  modules is unfolded from its recursive function, shown not to depend on the order, and
  then changes with one of its terms (`SumChanges`), takes one more (`SumTakes`), and
  covers each of them (`SumCovers`). Induction is on the size of a subset, from the
  order of the naturals, stated for sets of numbers and not for predicates.
- `LifecycleProofs`: `SpecQueuesUsable`, `SpecPortsReadyOrMissing` and
  `SpecNoPortLeftRunning` from `StartInv` (what main has set up by when: a validated
  configuration before a pool, a pool before a port, every described port before the
  server), and `SpecQuietBeforePortsStop` and `SpecStopIsFinal` from `RunInv` (only
  workers in `g_workers` are asked to stop, and main clears the flag only of one that is
  not in it yet), for any number of workers, nested signals and calls. `SpecTypeCorrect`
  takes from both what they fix and adds `TypeInv`, for the handlers and the order of
  the pools.
- `TokenBucketOpsProofs` holds the lemmas about the arithmetic they rest on.

Only model-checked: the liveness properties (`StopDrains`, `QueuesDrain`,
`PollsEnd`, `LoopSignalEnds`), which are out of the prover's reach. Every
invariant, action property and refinement of the passing runs is the statement
of a theorem. Three of the conditions have a run that shows what happens without
them: `flow_scheduler_rekeyed`, `traffic_gen_seq` and `traffic_gen_alloc`.

## Not modelled

- The bytes of packets: addresses, ports, payload and the sums themselves. MAC
  addresses of ports.
- The characters of configuration files, strings among them; a value of the
  wrong type is a missing one, as it is to the parser.
- Replies: the statistics per flow of `GetStats`, uptime, message texts.
- What is written past an mbuf for a size of 65536 or more: of such a packet only the
  lengths are kept. A `tx_burst_size` of 0, with which a worker sends nothing.
- A second signal handler off main's thread: `elsewhere` is at most one.
- Code nobody calls: `update_flow_stats`, `build_packet_from_template`,
  `mutate_tcp_ack`, `mutate_tcp_flags`, `select_next_protocol`, `reset_core`,
  `update_errors`, `free_burst`, the mempools' `get_stats`.
- TCP states other than CLOSED are reached by no run: nothing in the program
  sends a SYN (`NoConnectionOpens`), so no connection leaves it.
- The Python programs: one method per RPC and a script that starts traffic, prints
  the rates once a second and stops it. How they poll is `PollGap` of `Metrics`.

## Plan

Done: the scheduler, the generator, the collector, the start and the end of the
process, two abstract specifications they implement, and a theorem for every
safety property. What would add most now:

1. An abstract specification of the collector (what was counted, what a reader is
   told) that `Telemetry` implements through `SnapRight` and `HistInv`.
2. Several cores with slots in `telemetry`, and a
   fairness of the mutexes that does not rest on finitely many calls.
3. `TcpState` under every event, driven as `TCP_STATE_MACHINE.md` describes, as a
   model of what the program would do if something sent a SYN.
4. Liveness of pacing: which flows a poll serves and the order of iteration, once
   the code promises an order.
