----------------------------- MODULE TrafficGen -----------------------------
(***************************************************************************)
(* The generator at work: the gRPC handlers that configure, start and stop *)
(* (control/grpc/server.cpp), the worker threads that poll the scheduler   *)
(* and send (core/worker/worker.cpp), the mbuf pool and the NIC, around    *)
(* one FlowScheduler.                                                      *)
(*                                                                         *)
(* A handler holds the service's mutex_ for its whole body, so one handler *)
(* is under way at a time; it calls the scheduler several times, and the   *)
(* workers' steps fall between those calls.  A worker keeps the flow it    *)
(* picked (a shared_ptr) while the table changes under it: `orphan' says   *)
(* that the flow it holds is no longer the one in the table.               *)
(*                                                                         *)
(* Sequence numbers count segments, every segment having the same payload. *)
(* Receiving is in FlowScheduler and Telemetry; it shares nothing with     *)
(* sending but the pool.  A behaviour keeps the setup it began with: the   *)
(* workers main launched, what the library's allocation answers, and what  *)
(* clients ask for.                                                        *)
(***************************************************************************)
EXTENDS FlowScheduler, Imix, Functions

CONSTANTS
  Workers,      \* worker threads
  CoreId,       \* the core_id each was given
  NumCores,     \* what the metrics collector was initialised with
  TxBurst,      \* tx_burst_size
  PoolSize,     \* mbufs in the pool
  Tailroom,     \* the largest packet an mbuf has room for
  Setups,       \* who runs, what the library answers, what clients ask for, bounds
  MaxRequests   \* bound: the most control requests of any setup

ASSUME WorkerAssumption ==
  /\ IsFiniteSet(Workers) /\ CoreId \in [Workers -> Nat] /\ NumCores \in Nat \ {0}
  /\ TxBurst \in Nat \ {0} /\ MaxBursts = {TxBurst}
ASSUME PoolAssumption == PoolSize \in Nat /\ Tailroom \in Nat
ASSUME RequestAssumption == MaxRequests \in Nat
ASSUME SetupAssumption ==
  \A s \in Setups :
    /\ s.workers \subseteq Workers            \* the workers that were launched
    /\ s.batches \subseteq Seq(Configs)       \* the flow lists of ConfigureFlows requests
    /\ s.bulk \in [{"ok", "failed"} -> Nat]   \* rte_pktmbuf_alloc_bulk's answers, as 16 bits
    /\ s.requests \in 0 .. MaxRequests         \* bound: the number of control requests
    /\ s.time \in 0 .. MaxTime                 \* bound: the clock

VARIABLES
  setup,     \* the setup of this behaviour, for good
  svc,       \* the handler under way
  running,   \* MetricsCollector's running_
  requests,  \* requests so far
  pc,        \* where each worker is
  ready,     \* ready_flows, less those it is done with
  held,      \* the flow object it holds (id, size, proto, stateful) and the packet
  orphan,    \* has that flow been replaced in the table?
  seen,      \* a number it keeps: the send_seq it read, what the NIC took
  burst,     \* mbuf_count: the packets in its hands
  slot,      \* is there an mbuf at mbufs[mbuf_count], where the next packet is made?
  seq,       \* send_seq of each connection
  sent,      \* packets_sent of each flow
  tx,        \* tx_packets of each core
  pool,      \* mbufs in the pool
  nic,       \* mbufs the NIC has taken and not yet freed
  lost,      \* history: mbufs nobody has a pointer to any more
  built,     \* history: segments stamped for each connection
  replaced,  \* history: packets_sent of flows no longer in the table
  wire,      \* history: packets the NIC took
  dropped,   \* history: packets the NIC did not take
  late,      \* history: packets each worker built since a stop was answered
  out        \* history: packets the NIC took from each worker since a stop was answered

local   == <<pc, ready, held, orphan, seen, burst, slot>>
service == <<setup, svc, running, requests, profile>>
counts  == <<seq, sent, tx, built, replaced, wire, dropped, late, out>>
mbufs   == <<pool, nic, lost>>
genVars == <<schedulerVars, local, service, counts, mbufs>>

Cores == 0 .. NumCores - 1

Idle == [op |-> "idle"]

Batches  == setup.batches
Profiles == setup.profiles

\* No handler is under way and the last one to finish a start or a stop was a stop.
Stopped == svc = Idle /\ ~running

\* No start has begun to start flows since the last stop was answered.
Quiet == ~running /\ svc.op # "start"

GenInit ==
  /\ SchedulerInit
  /\ ImixInit
  /\ setup \in Setups
  /\ svc = Idle /\ running = FALSE /\ requests = 0
  /\ pc = [w \in Workers |-> "poll"]
  /\ ready = [w \in Workers |-> << >>]
  /\ held = [w \in Workers |-> NoFlow]
  /\ orphan = [w \in Workers |-> FALSE]
  /\ seen = [w \in Workers |-> 0]
  /\ burst = [w \in Workers |-> 0]
  /\ slot = [w \in Workers |-> FALSE]
  /\ seq = [id \in FlowIds |-> 0]
  /\ sent = [id \in FlowIds |-> 0]
  /\ tx = [c \in Cores |-> 0]
  /\ pool = PoolSize /\ nic = 0 /\ lost = 0
  /\ built = [id \in FlowIds |-> 0]
  /\ replaced = 0 /\ wire = 0 /\ dropped = 0
  /\ late = [w \in Workers |-> 0]
  /\ out = [w \in Workers |-> 0]

-----------------------------------------------------------------------------
(* The control plane. *)

Request(handler) ==
  /\ svc = Idle /\ requests < setup.requests
  /\ requests' = requests + 1
  /\ svc' = handler
  /\ UNCHANGED <<schedulerVars, local, setup, running, profile, counts, mbufs>>

CallConfigureFlows(batch) == Request([op |-> "configure", batch |-> batch])

CallStartTraffic(reset) ==
  Request(IF reset THEN [op |-> "reset", core |-> 0] ELSE [op |-> "snapshot"])

CallStopTraffic == Request([op |-> "stopping"])

\* ConfigureIMIX makes one call, to the engine.
CallConfigureImix(entries) ==
  /\ svc = Idle /\ requests < setup.requests
  /\ requests' = requests + 1
  /\ ConfigureProfile(entries, Protocols)
  /\ UNCHANGED <<schedulerVars, local, setup, svc, running, counts, mbufs>>

\* From the allocation of an mbuf to the end of the iteration.
Building == {"build", "advance", "count"}

Holds(w, id) == pc[w] \in Building /\ held[w].id = id

\* One flow of the list: add_flow refuses it, or puts a new inactive flow with
\* its counters at zero in the place of the old one.
ConfigureOne ==
  /\ svc.op = "configure" /\ svc.batch # << >>
  /\ LET c == Head(svc.batch) IN
       IF TemplateBuilds(c)
       THEN /\ AddFlow(c)
            /\ orphan' = [w \in Workers |-> orphan[w] \/ Holds(w, c.id)]
            /\ seq' = [seq EXCEPT ![c.id] = 0]
            /\ sent' = [sent EXCEPT ![c.id] = 0]
            /\ built' = [built EXCEPT ![c.id] = 0]
            /\ replaced' = replaced + sent[c.id]
       ELSE UNCHANGED <<schedulerVars, orphan, seq, sent, built, replaced>>
  /\ svc' = [svc EXCEPT !.batch = Tail(@)]
  /\ UNCHANGED <<setup, running, requests, profile, pc, ready, held, seen, burst, slot, tx, wire,
                 dropped, late, out, mbufs>>

EndConfigure ==
  /\ svc.op = "configure" /\ svc.batch = << >>
  /\ svc' = Idle
  /\ UNCHANGED <<schedulerVars, local, setup, running, requests, profile, counts, mbufs>>

\* reset_all, one core after the other.
ResetCore ==
  /\ svc.op = "reset"
  /\ tx' = [tx EXCEPT ![svc.core] = 0]
  /\ svc' = IF svc.core + 1 < NumCores THEN [svc EXCEPT !.core = @ + 1] ELSE [op |-> "snapshot"]
  /\ UNCHANGED <<schedulerVars, local, setup, running, requests, profile, seq, sent, built,
                 replaced, wire, dropped, late, out, mbufs>>

\* get_all_flows_snapshot: with no flow the handler fails, leaving running_.
Snapshot ==
  /\ svc.op = "snapshot"
  /\ svc' = IF Present = {} THEN Idle ELSE [op |-> "start", ids |-> Present]
  /\ UNCHANGED <<schedulerVars, local, setup, running, requests, profile, counts, mbufs>>

StartOne ==
  /\ svc.op = "start"
  /\ \E id \in svc.ids : StartFlow(id) /\ svc' = [svc EXCEPT !.ids = @ \ {id}]
  /\ UNCHANGED <<local, setup, running, requests, profile, counts, mbufs>>

EndStart ==
  /\ svc.op = "start" /\ svc.ids = {}
  /\ running' = TRUE
  /\ svc' = Idle
  /\ late' = [w \in Workers |-> 0] /\ out' = [w \in Workers |-> 0]
  /\ UNCHANGED <<schedulerVars, local, setup, requests, profile, seq, sent, tx, built, replaced,
                 wire, dropped, mbufs>>

\* get_active_flows.
BeginStop ==
  /\ svc.op = "stopping"
  /\ svc' = [op |-> "stop", ids |-> {id \in Present : flows[id].active}]
  /\ UNCHANGED <<schedulerVars, local, setup, running, requests, profile, counts, mbufs>>

StopOne ==
  /\ svc.op = "stop"
  /\ \E id \in svc.ids : StopFlow(id) /\ svc' = [svc EXCEPT !.ids = @ \ {id}]
  /\ UNCHANGED <<local, setup, running, requests, profile, counts, mbufs>>

\* Mutant of EndStop: the reply leaves before every flow is stopped.
EndStopEarly ==
  /\ svc.op = "stop"
  /\ running' = FALSE
  /\ svc' = Idle
  /\ UNCHANGED <<schedulerVars, local, setup, requests, profile, counts, mbufs>>

\* The request's drain_queues and timeout_seconds are not looked at.
EndStop ==
  /\ svc.op = "stop" /\ svc.ids = {}
  /\ running' = FALSE
  /\ svc' = Idle
  /\ UNCHANGED <<schedulerVars, local, setup, requests, profile, counts, mbufs>>

ServiceStep ==
  \/ ConfigureOne \/ EndConfigure
  \/ ResetCore \/ Snapshot \/ StartOne \/ EndStart
  \/ BeginStop \/ StopOne \/ EndStop

-----------------------------------------------------------------------------
(* A worker. *)

Goto(w, place) == pc' = [pc EXCEPT ![w] = place]

\* A worker that main did not launch never polls.
Poll(w) ==
  /\ pc[w] = "poll" /\ w \in setup.workers
  /\ GetReadyFlows(TxBurst)
  /\ ready' = [ready EXCEPT ![w] = ReadyFlows(TxBurst)]
  /\ Goto(w, IF ReadyFlows(TxBurst) = << >> THEN "poll" ELSE "pick")
  /\ UNCHANGED <<held, orphan, seen, burst, slot, service, counts, mbufs>>

NoPacket == [size |-> 0]

Picked(id) == [id |-> id, size |-> flows[id].size, proto |-> flows[id].key[3],
               stateful |-> flows[id].conn # NoConn, packet |-> NoPacket]

\* allocate_burst with room for one mbuf, mbufs[mbuf_count]: an mbuf that was
\* left there is forgotten.
AllocateBurst(w) ==
  IF pool > 0
  THEN /\ pool' = pool - 1
       /\ slot' = [slot EXCEPT ![w] = TRUE]
       /\ lost' = IF slot[w] THEN lost + 1 ELSE lost
  ELSE UNCHANGED <<pool, slot, lost>>

\* What it returns: what the library's allocation of all or none answers.
Allocated == IF pool > 0 THEN setup.bulk.ok ELSE setup.bulk.failed

Take(w, id) ==
  /\ held' = [held EXCEPT ![w] = Picked(id)]
  /\ orphan' = [orphan EXCEPT ![w] = FALSE]
  /\ Goto(w, "build")

\* Mutant of Pick: the mbuf is used without a look at what was allocated.
PickUnchecked(w) ==
  /\ pc[w] = "pick" /\ ready[w] # << >>
  /\ LET id == Head(ready[w]) IN
       IF id \in Present /\ flows[id].active
       THEN AllocateBurst(w) /\ Take(w, id)
       ELSE UNCHANGED <<held, orphan, slot, pool, lost, pc>>
  /\ ready' = [ready EXCEPT ![w] = Tail(@)]
  /\ UNCHANGED <<schedulerVars, seen, burst, service, counts, nic>>

\* Mutant of Pick: a flow that was ready is not looked at again.
PickInactive(w) ==
  /\ pc[w] = "pick" /\ ready[w] # << >>
  /\ LET id == Head(ready[w]) IN
       IF id \in Present
       THEN /\ AllocateBurst(w)
            /\ IF Allocated # 0 /\ slot'[w] THEN Take(w, id) ELSE UNCHANGED <<held, orphan, pc>>
       ELSE UNCHANGED <<held, orphan, slot, pool, lost, pc>>
  /\ ready' = [ready EXCEPT ![w] = Tail(@)]
  /\ UNCHANGED <<schedulerVars, seen, burst, service, counts, nic>>

\* The flow is looked up again and its active flag read, then an mbuf is taken.
\* A flow that is gone or stopped is skipped, and so is one for which 0 comes
\* back from the allocation, or nothing is where the mbuf should be.
\* (The test of mbuf_count never bites: a poll returns at most tx_burst_size flows.)
Pick(w) ==
  /\ pc[w] = "pick" /\ ready[w] # << >>
  /\ LET id == Head(ready[w]) IN
       IF id \in Present /\ flows[id].active
       THEN /\ AllocateBurst(w)
            /\ IF Allocated # 0 /\ slot'[w] THEN Take(w, id) ELSE UNCHANGED <<held, orphan, pc>>
       ELSE UNCHANGED <<held, orphan, slot, pool, lost, pc>>
  /\ ready' = [ready EXCEPT ![w] = Tail(@)]
  /\ UNCHANGED <<schedulerVars, seen, burst, service, counts, nic>>

\* The packet is in the burst or its mbuf was freed: the next slot is empty.
Release(w) ==
  /\ held' = [held EXCEPT ![w] = NoFlow]
  /\ orphan' = [orphan EXCEPT ![w] = FALSE]
  /\ seen' = [seen EXCEPT ![w] = 0]
  /\ slot' = [slot EXCEPT ![w] = FALSE]
  /\ Goto(w, "pick")

Sizes(w) == IF held[w].size = 0 THEN NextSizes ELSE {held[w].size}

\* The packet of the flow's template; a stateful one gets the connection's
\* number in the place of the drawn one, when its checksum is already there.
BuiltPacket(w, size) ==
  LET p == Mutated(Template(held[w].proto, TemplateSize(held[w].size)), size) IN
    IF held[w].stateful THEN [p EXCEPT !.seq = 2 + seq[held[w].id]] ELSE p

\* Mutant of Build: the mbuf of a packet that does not fit is not given back.
BuildLeaky(w) ==
  /\ pc[w] = "build"
  /\ \E size \in Sizes(w) :
       IF ~Fits(size, Tailroom)
       THEN Release(w) /\ UNCHANGED pool /\ UNCHANGED built
       ELSE /\ held' = [held EXCEPT ![w].packet = BuiltPacket(w, size)]
            /\ IF held[w].stateful /\ ~orphan[w]
               THEN /\ seen' = [seen EXCEPT ![w] = seq[held[w].id]]
                    /\ built' = [built EXCEPT ![held[w].id] = @ + 1]
               ELSE UNCHANGED <<seen, built>>
            /\ Goto(w, IF held[w].stateful THEN "advance" ELSE "count")
            /\ UNCHANGED <<orphan, slot, pool>>
  /\ UNCHANGED <<schedulerVars, ready, burst, service, seq, sent, tx, replaced, wire, dropped,
                 late, out, nic, lost>>

\* clone_and_mutate fails when the packet does not fit, and the mbuf goes back;
\* otherwise a stateful TCP packet is stamped with the connection's send_seq.
\* A replaced flow keeps its own connection, which no other worker can find.
Build(w) ==
  /\ pc[w] = "build"
  /\ \E size \in Sizes(w) :
       IF ~Fits(size, Tailroom)
       THEN Release(w) /\ pool' = pool + 1 /\ UNCHANGED built
       ELSE /\ held' = [held EXCEPT ![w].packet = BuiltPacket(w, size)]
            /\ IF held[w].stateful /\ ~orphan[w]
               THEN /\ seen' = [seen EXCEPT ![w] = seq[held[w].id]]
                    /\ built' = [built EXCEPT ![held[w].id] = @ + 1]
               ELSE UNCHANGED <<seen, built>>
            /\ Goto(w, IF held[w].stateful THEN "advance" ELSE "count")
            /\ UNCHANGED <<orphan, slot, pool>>
  /\ UNCHANGED <<schedulerVars, ready, burst, service, seq, sent, tx, replaced, wire, dropped,
                 late, out, nic, lost>>

\* Mutant of Advance: the headers count as payload, here one more segment.
AdvanceHeaders(w) ==
  /\ pc[w] = "advance"
  /\ IF orphan[w] THEN UNCHANGED seq
     ELSE \E base \in {seen[w], seq[held[w].id]} : seq' = [seq EXCEPT ![held[w].id] = base + 2]
  /\ held' = [held EXCEPT ![w].packet = L4Summed(@)]
  /\ Goto(w, "count")
  /\ UNCHANGED <<schedulerVars, ready, orphan, seen, burst, slot, service, sent, tx, built,
                 replaced, wire, dropped, late, out, mbufs>>

\* Mutant of Advance: the checksum stays that of the number drawn before.
AdvanceStale(w) ==
  /\ pc[w] = "advance"
  /\ IF orphan[w] THEN UNCHANGED seq
     ELSE \E base \in {seen[w], seq[held[w].id]} : seq' = [seq EXCEPT ![held[w].id] = base + 1]
  /\ UNCHANGED held
  /\ Goto(w, "count")
  /\ UNCHANGED <<schedulerVars, ready, orphan, seen, burst, slot, service, sent, tx, built,
                 replaced, wire, dropped, late, out, mbufs>>

\* conn.send_seq += payload_len, on a plain integer nobody guards: the compiler
\* may use the value read before or read it again.  Then the checksum again.
Advance(w) ==
  /\ pc[w] = "advance"
  /\ IF orphan[w] THEN UNCHANGED seq
     ELSE \E base \in {seen[w], seq[held[w].id]} : seq' = [seq EXCEPT ![held[w].id] = base + 1]
  /\ held' = [held EXCEPT ![w].packet = L4Summed(@)]
  /\ Goto(w, "count")
  /\ UNCHANGED <<schedulerVars, ready, orphan, seen, burst, slot, service, sent, tx, built,
                 replaced, wire, dropped, late, out, mbufs>>

\* Mutant of Count: a flow that was replaced meanwhile is not counted.
CountInTable(w) ==
  /\ pc[w] = "count"
  /\ burst' = [burst EXCEPT ![w] = @ + 1]
  /\ IF orphan[w] THEN UNCHANGED sent
                  ELSE sent' = [sent EXCEPT ![held[w].id] = @ + 1]
  /\ late' = IF Quiet THEN [late EXCEPT ![w] = @ + 1] ELSE late
  /\ Release(w)
  /\ UNCHANGED <<schedulerVars, ready, service, seq, tx, built, replaced, wire, dropped, out,
                 mbufs>>

Count(w) ==
  /\ pc[w] = "count"
  /\ burst' = [burst EXCEPT ![w] = @ + 1]
  /\ IF orphan[w] THEN replaced' = replaced + 1 /\ UNCHANGED sent
                  ELSE sent' = [sent EXCEPT ![held[w].id] = @ + 1] /\ UNCHANGED replaced
  /\ late' = IF Quiet THEN [late EXCEPT ![w] = @ + 1] ELSE late
  /\ Release(w)
  /\ UNCHANGED <<schedulerVars, ready, service, seq, tx, built, wire, dropped, out, mbufs>>

\* Mutant of EndPick: only a full burst is transmitted.
EndPickFull(w) ==
  /\ pc[w] = "pick" /\ ready[w] = << >>
  /\ Goto(w, IF burst[w] = TxBurst THEN "transmit" ELSE "poll")
  /\ slot' = [slot EXCEPT ![w] = FALSE]
  /\ lost' = IF slot[w] THEN lost + 1 ELSE lost
  /\ UNCHANGED <<schedulerVars, ready, held, orphan, seen, burst, service, counts, pool, nic>>

\* process_flows returns or sends; an mbuf at mbufs[mbuf_count] goes with the array.
EndPick(w) ==
  /\ pc[w] = "pick" /\ ready[w] = << >>
  /\ Goto(w, IF burst[w] > 0 THEN "transmit" ELSE "poll")
  /\ slot' = [slot EXCEPT ![w] = FALSE]
  /\ lost' = IF slot[w] THEN lost + 1 ELSE lost
  /\ UNCHANGED <<schedulerVars, ready, held, orphan, seen, burst, service, counts, pool, nic>>

\* rte_eth_tx_burst takes some of the packets, from none to all; those it does
\* not take are freed after the accounting.
Transmit(w) ==
  /\ pc[w] = "transmit"
  /\ \E n \in 0 .. burst[w] :
       /\ nic' = nic + n
       /\ wire' = wire + n
       /\ seen' = [seen EXCEPT ![w] = n]
       /\ out' = IF Quiet THEN [out EXCEPT ![w] = @ + n] ELSE out
  /\ Goto(w, "account")
  /\ UNCHANGED <<schedulerVars, ready, held, orphan, burst, slot, service, seq, sent, tx, built,
                 replaced, dropped, late, pool, lost>>

\* Mutant of Account: the whole burst counts as transmitted.
AccountAll(w) ==
  /\ pc[w] = "account"
  /\ tx' = IF CoreId[w] \in Cores THEN [tx EXCEPT ![CoreId[w]] = @ + burst[w]] ELSE tx
  /\ dropped' = dropped + (burst[w] - seen[w])
  /\ pool' = pool + (burst[w] - seen[w])
  /\ burst' = [burst EXCEPT ![w] = 0]
  /\ seen' = [seen EXCEPT ![w] = 0]
  /\ Goto(w, "poll")
  /\ UNCHANGED <<schedulerVars, ready, held, orphan, slot, service, seq, sent, built, replaced,
                 wire, late, out, nic, lost>>

\* update_tx_stats, which ignores a core it has no slot for, and the frees.
Account(w) ==
  /\ pc[w] = "account"
  /\ tx' = IF CoreId[w] \in Cores THEN [tx EXCEPT ![CoreId[w]] = @ + seen[w]] ELSE tx
  /\ dropped' = dropped + (burst[w] - seen[w])
  /\ pool' = pool + (burst[w] - seen[w])
  /\ burst' = [burst EXCEPT ![w] = 0]
  /\ seen' = [seen EXCEPT ![w] = 0]
  /\ Goto(w, "poll")
  /\ UNCHANGED <<schedulerVars, ready, held, orphan, slot, service, seq, sent, built, replaced,
                 wire, late, out, nic, lost>>

WorkerStep(w) ==
  \/ Poll(w) \/ Pick(w) \/ Build(w) \/ Advance(w) \/ Count(w)
  \/ EndPick(w) \/ Transmit(w) \/ Account(w)

\* The NIC has sent a packet and gives its mbuf back.
NicDone ==
  /\ nic > 0
  /\ nic' = nic - 1 /\ pool' = pool + 1
  /\ UNCHANGED <<schedulerVars, local, service, counts, lost>>

TimePasses == now < setup.time /\ Tick /\ UNCHANGED <<local, service, counts, mbufs>>

GenNext ==
  \/ \E batch \in Batches : CallConfigureFlows(batch)
  \/ \E entries \in Profiles : CallConfigureImix(entries)
  \/ \E reset \in BOOLEAN : CallStartTraffic(reset)
  \/ CallStopTraffic
  \/ ServiceStep
  \/ \E w \in Workers : WorkerStep(w)
  \/ NicDone
  \/ TimePasses

GenSpec == GenInit /\ [][GenNext]_genVars

\* Every thread keeps running and the NIC keeps sending; clients need not call.
FairGenSpec ==
  /\ GenSpec
  /\ WF_genVars(ServiceStep)
  /\ \A w \in Workers : WF_genVars(WorkerStep(w))
  /\ WF_genVars(NicDone)

-----------------------------------------------------------------------------
Total(f) == FoldFunction(LAMBDA x, y : x + y, 0, f)

Handlers ==
  [op : {"idle", "snapshot", "stopping"}] \cup [op : {"configure"}, batch : Seq(Configs)]
    \cup [op : {"reset"}, core : Cores] \cup [op : {"start", "stop"}, ids : SUBSET FlowIds]

GenTypeOK ==
  /\ SchedulerTypeOK
  /\ setup \in Setups /\ svc \in Handlers /\ running \in BOOLEAN /\ requests \in 0 .. MaxRequests
  /\ pc \in [Workers -> {"poll", "pick", "build", "advance", "count", "transmit", "account"}]
  /\ ready \in [Workers -> Seq(FlowIds)]
  /\ \A w \in Workers : IF pc[w] \in Building
                          THEN held[w].id \in FlowIds /\ held[w].size \in Nat /\ slot[w]
                          ELSE held[w] = NoFlow
  /\ slot \in [Workers -> BOOLEAN]
  /\ orphan \in [Workers -> BOOLEAN]
  /\ seen \in [Workers -> Nat]
  /\ burst \in [Workers -> 0 .. TxBurst]
  /\ seq \in [FlowIds -> Nat] /\ sent \in [FlowIds -> Nat] /\ tx \in [Cores -> Nat]
  /\ pool \in 0 .. PoolSize /\ nic \in 0 .. PoolSize /\ lost \in 0 .. PoolSize
  /\ built \in [FlowIds -> Nat] /\ late \in [Workers -> Nat] /\ out \in [Workers -> Nat]
  /\ replaced \in Nat /\ wire \in Nat /\ dropped \in Nat

\* What the NIC has just taken from a worker's burst, and what is left of it.
Taken(w)  == IF pc[w] = "account" THEN seen[w] ELSE 0
InHand(w) == burst[w] - Taken(w)

\* Every mbuf is in the pool, with the NIC, in exactly one worker's hands or lost:
\* the error paths of process_flows and transmit_burst free what they took and
\* nothing twice.  None is lost if the allocation answers a success with a number
\* other than 0 and a failure with 0 (worker.cpp:251-257, :311-314, :127-134).
MbufsConserved ==
  /\ PoolSize = pool + nic + lost
       + Total([w \in Workers |-> (IF slot[w] THEN 1 ELSE 0) + InHand(w)])
  /\ setup.bulk.ok # 0 /\ setup.bulk.failed = 0 => lost = 0

\* "Efficient allocation/deallocation" (IMPLEMENTATION_SUMMARY.md:29): an mbuf
\* that was taken from the pool is used or given back (worker.cpp:251-258,
\* mempool_manager.cpp:81).
NoMbufLost == lost = 0

\* Every packet a flow counted as sent is in a burst, was taken by the NIC or was
\* dropped, also across reconfigurations under a worker's hands
\* (worker.cpp:306-310, flow_scheduler.cpp:75).
PacketsAccounted ==
  Total(sent) + replaced = wire + dropped + Total([w \in Workers |-> InHand(w)])

\* Statistics never show a packet the NIC did not take (worker.cpp:113-125).
TxNotAhead == Total(tx) <= wire

\* When StopTraffic has returned no flow is active, whatever the workers' polls
\* changed between get_active_flows and the stop_flow calls (server.cpp:152-160).
QuietWhenStopped == Stopped => \A id \in Present : ~flows[id].active

\* A TCP or UDP packet that joins a burst has the lengths and checksums a receiver
\* verifies, for template, fixed and IMIX sizes below 64 KB, and after it was
\* stamped with the connection's number (worker.cpp:260-294,
\* packet_mutator.cpp:26-92).  An ICMP packet never has its checksum.
PacketsWellFormed ==
  \A w \in Workers : pc[w] = "count" =>
    LET p == held[w].packet IN
      p.proto \in {"tcp", "udp"} /\ p.size < Lengths => WellFormed(p)

\* After StopTraffic has returned a worker builds at most the one packet whose
\* active flag it had already read (worker.cpp:246-249).
AtMostOneLate == \A w \in Workers : late[w] <= 1

\* A worker's bursts end after a stop, unless traffic is started again.
StopDrains ==
  Stopped ~> ((\A w \in Workers : burst[w] = 0 /\ held[w] = NoFlow) \/ ~Stopped)

\* "Next sequence number to send" (tcp_state.hpp:38): between segments it stands
\* behind every segment of the connection.
NextSequence ==
  \A id \in Present :
    (\A w \in Workers : ~(pc[w] = "advance" /\ Holds(w, id) /\ ~orphan[w]))
      => seq[id] = built[id]

\* With one worker it does, also when a flow is replaced while a segment of it is
\* stamped (worker.cpp:282-291, flow_scheduler.cpp:62-75).
NextSequenceAlone == (\A v, w \in setup.workers : v = w) => NextSequence

-----------------------------------------------------------------------------
(* What a client sees of it. *)

\* The call the handler under way is serving.
Call ==
  IF svc.op = "configure" THEN "configure"
  ELSE IF svc.op \in {"reset", "snapshot", "start"} THEN "start"
  ELSE IF svc.op \in {"stopping", "stop"} THEN "stop"
  ELSE "none"

Active == {id \in Present : flows[id].active}

Control ==
  INSTANCE TrafficControl WITH Ids <- FlowIds, Burst <- TxBurst, call <- Call, active <- Active

\* However the handlers' calls of the scheduler and the workers' steps fall, a
\* client sees what TrafficControl promises: nothing becomes active but in a call
\* of StartTraffic, nothing is active when StopTraffic is answered, and after that
\* the NIC gets at most the burst each worker had in hand (server.cpp:92-161,
\* worker.cpp:238-318).
KeepsPromises == Control!Spec

-----------------------------------------------------------------------------
\* "assert metrics['global']['total_tx_packets'] > 0" (README.md:363): the
\* statistics are not empty when a worker has just accounted for a burst of
\* which the NIC took a packet.
TrafficIsCounted ==
  [][\A w \in Workers :
       (pc[w] = "account" /\ pc'[w] = "poll" /\ seen[w] > 0) => Total(tx') > 0]_genVars

=============================================================================
