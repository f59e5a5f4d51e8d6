------------------------------ MODULE Telemetry ------------------------------
(***************************************************************************)
(* What the generator measures: the workers' transmit and receive paths    *)
(* (core/worker/worker.cpp), the mbufs they share with the NIC, and the    *)
(* collector they report to.                                               *)
(*                                                                         *)
(* A worker stamps the mbuf it sends, in a dynamic field that belongs to   *)
(* the mbuf and not to the packet; the NIC returns the mbuf to the pool,   *)
(* where it may be taken for sending or for a frame that arrives.  Nothing *)
(* clears the field.  Frames are known by the time they were stamped       *)
(* (`Foreign' if this generator did not send them); the network may lose,  *)
(* repeat and reorder them.                                                *)
(*                                                                         *)
(* Workers are known by the core_id of their mapping, which need not be a  *)
(* slot of the collector (main sizes it by the number of mappings), and    *)
(* have a queue each.  A worker without enable_rx never reads its queue.   *)
(* What a segment does to a connection is in FlowScheduler.                *)
(***************************************************************************)
EXTENDS Metrics

CONSTANTS
  Workers,   \* the core_id of each worker
  Receiving, \* those with enable_rx
  Mbufs,     \* the pool
  RxBurst,   \* rx_burst_size
  Foreign

ASSUME ReceiveAssumption ==
  /\ Workers \subseteq Nat /\ Receiving \subseteq Workers
  /\ RxBurst \in Nat \ {0} /\ IsFiniteSet(Mbufs)

VARIABLES
  worker,    \* each worker: place, received mbufs left, count, clock, what is to be added
  place,     \* where each mbuf is: Pool, Nic, Held by a worker, or in a Queue
  stamp,     \* the timestamp field of each mbuf, 0 if it was never written
  frame,     \* the frame in each received mbuf
  wire,      \* the frames that were sent
  sends, arrivals,  \* packets so far
  genuine,   \* history: was every recorded latency a round trip?
  freed      \* history: received mbufs each worker freed

dataVars == <<worker, place, stamp, frame, wire, sends, arrivals, genuine, freed>>
telemetryVars == <<metricsVars, dataVars>>

Pool     == <<"pool", 0>>
Nic      == <<"nic", 0>>
Held     == <<"worker", 0>>
Queue(c) == <<"queue", c>>

AtTop == [at |-> "top", batch |-> << >>, size |-> 0, now |-> 0]

Init ==
  /\ MetricsInit
  /\ worker = [c \in Workers |-> AtTop]
  /\ place = [m \in Mbufs |-> Pool]
  /\ stamp = [m \in Mbufs |-> 0] /\ frame = [m \in Mbufs |-> Foreign]
  /\ wire = {} /\ sends = 0 /\ arrivals = 0
  /\ genuine = TRUE /\ freed = [c \in Workers |-> 0]

\* What steady_clock yields, which is never 0.
Now == clock + 1

InPool == {m \in Mbufs : place[m] = Pool}

-----------------------------------------------------------------------------
(* Sending: process_flows and transmit_burst, one packet of one flow. *)

\* The mbuf is taken and stamped, and the NIC takes it.
Send(c) ==
  /\ worker[c] = AtTop /\ sends < bound.sends
  /\ \E m \in InPool :
       /\ place' = [place EXCEPT ![m] = Nic]
       /\ stamp' = [stamp EXCEPT ![m] = Now]
  /\ worker' = [worker EXCEPT ![c].at = "sent"]
  /\ sends' = sends + 1
  /\ UNCHANGED <<metricsVars, frame, wire, arrivals, genuine, freed>>

\* update_tx_stats adds packets, then bytes.
CountTx(c) ==
  /\ worker[c].at \in {"sent", "sent bytes"}
  /\ FetchAdd(c, IF worker[c].at = "sent" THEN "tx_packets" ELSE "tx_bytes", 1)
  /\ worker' = [worker EXCEPT ![c] =
       IF @.at = "sent" THEN [@ EXCEPT !.at = "sent bytes"] ELSE AtTop]
  /\ UNCHANGED <<bound, clock, samples, snap, locks, reset, polling, place, stamp, frame, wire,
                 sends, arrivals, genuine, freed>>

-----------------------------------------------------------------------------
(* The NIC and the network. *)

\* The frame leaves; its mbuf returns to the pool as it is.
Transmitted(m) ==
  /\ place[m] = Nic
  /\ place' = [place EXCEPT ![m] = Pool]
  /\ wire' = wire \cup {stamp[m]}
  /\ UNCHANGED <<metricsVars, worker, stamp, frame, sends, arrivals, genuine, freed>>

\* A frame arrives, the generator's own or another, in an mbuf of the pool.
Arrive(m, c, f) ==
  /\ arrivals < bound.arrivals /\ m \in InPool
  /\ place' = [place EXCEPT ![m] = Queue(c)]
  /\ frame' = [frame EXCEPT ![m] = f]
  /\ arrivals' = arrivals + 1
  /\ UNCHANGED <<metricsVars, worker, stamp, wire, sends, genuine, freed>>

-----------------------------------------------------------------------------
(* Receiving: receive_burst and process_received_packets. *)

ReceiveBurst(c) ==
  /\ c \in Receiving /\ worker[c] = AtTop
  /\ \E burst \in SUBSET {m \in Mbufs : place[m] = Queue(c)} \ {{}} :
       /\ Cardinality(burst) <= RxBurst
       /\ worker' = [worker EXCEPT ![c] = [at |-> "received", batch |-> SetToSeq(burst),
                                           size |-> Cardinality(burst), now |-> Now]]
       /\ place' = [m \in Mbufs |-> IF m \in burst THEN Held ELSE place[m]]
  /\ UNCHANGED <<metricsVars, stamp, frame, wire, sends, arrivals, genuine, freed>>

\* Is there a latency to record? The field was written, and before the burst.
HasLatency(w, m) == stamp[m] # 0 /\ w.now > stamp[m]

\* Mutant of Process: an mbuf without a latency is skipped before it is freed.
ProcessMeasured(c) ==
  /\ worker[c].at = "received" /\ worker[c].batch # << >>
  /\ LET w == worker[c]
         m == Head(w.batch) IN
       /\ IF HasLatency(w, m)
          THEN /\ RecordLatency((w.now - stamp[m]) * TickNs)
               /\ genuine' = (genuine /\ frame[m] = stamp[m])
               /\ place' = [place EXCEPT ![m] = Pool]
               /\ frame' = [frame EXCEPT ![m] = Foreign]
          ELSE UNCHANGED <<samples, genuine, place, frame>>
       /\ worker' = [worker EXCEPT ![c].batch = Tail(@)]
  /\ freed' = [freed EXCEPT ![c] = @ + 1]
  /\ UNCHANGED <<bound, clock, traffic, snap, locks, reset, polling, stamp, wire, sends, arrivals>>

\* The next mbuf of the burst: its latency, then it is freed.
Process(c) ==
  /\ worker[c].at = "received" /\ worker[c].batch # << >>
  /\ LET w == worker[c]
         m == Head(w.batch) IN
       /\ IF HasLatency(w, m)
          THEN /\ RecordLatency((w.now - stamp[m]) * TickNs)
               /\ genuine' = (genuine /\ frame[m] = stamp[m])
          ELSE UNCHANGED <<samples, genuine>>
       /\ place' = [place EXCEPT ![m] = Pool]
       /\ frame' = [frame EXCEPT ![m] = Foreign]
       /\ worker' = [worker EXCEPT ![c].batch = Tail(@)]
  /\ freed' = [freed EXCEPT ![c] = @ + 1]
  /\ UNCHANGED <<bound, clock, traffic, snap, locks, reset, polling, stamp, wire, sends, arrivals>>

\* Mutant of CountRx: the burst is counted as one packet.
CountRxOnce(c) ==
  /\ worker[c].at \in {"received", "received bytes"} /\ worker[c].batch = << >>
  /\ FetchAdd(c, IF worker[c].at = "received" THEN "rx_packets" ELSE "rx_bytes",
                 IF worker[c].at = "received" THEN 1 ELSE worker[c].size)
  /\ worker' = [worker EXCEPT ![c] =
       IF @.at = "received" THEN [@ EXCEPT !.at = "received bytes", !.now = 0] ELSE AtTop]
  /\ UNCHANGED <<bound, clock, samples, snap, locks, reset, polling, place, stamp, frame, wire,
                 sends, arrivals, genuine, freed>>

\* update_rx_stats with the size of the burst.
CountRx(c) ==
  /\ worker[c].at \in {"received", "received bytes"} /\ worker[c].batch = << >>
  /\ FetchAdd(c, IF worker[c].at = "received" THEN "rx_packets" ELSE "rx_bytes", worker[c].size)
  /\ worker' = [worker EXCEPT ![c] =
       IF @.at = "received" THEN [@ EXCEPT !.at = "received bytes", !.now = 0] ELSE AtTop]
  /\ UNCHANGED <<bound, clock, samples, snap, locks, reset, polling, place, stamp, frame, wire,
                 sends, arrivals, genuine, freed>>

WorkerStep(c) == CountTx(c) \/ ReceiveBurst(c) \/ Process(c) \/ CountRx(c)

Next ==
  \/ \E c \in Workers : Send(c) \/ WorkerStep(c)
  \/ \E m \in Mbufs : Transmitted(m)
  \/ \E m \in Mbufs, c \in Workers, f \in wire \cup {Foreign} : Arrive(m, c, f)
  \/ (\E p \in Pollers : PollStep(p)) /\ UNCHANGED dataVars
  \/ ResetStep /\ UNCHANGED dataVars
  \/ PassTime /\ UNCHANGED dataVars

\* Threads go on: a worker with packets in its queue or its hands, a handler
\* that was called.  Nobody has to send, poll or reset.
Spec ==
  /\ Init /\ [][Next]_telemetryVars
  /\ \A c \in Workers : WF_telemetryVars(WorkerStep(c))
  /\ \A p \in Pollers : WF_telemetryVars(~At(p, "idle") /\ PollStep(p) /\ UNCHANGED dataVars)
  /\ WF_telemetryVars(resetting # "no" /\ ResetStep /\ UNCHANGED dataVars)

-----------------------------------------------------------------------------
TypeOK ==
  /\ MetricsTypeOK
  /\ \A c \in Workers :
       /\ worker[c].at \in {"top", "sent", "sent bytes", "received", "received bytes"}
       /\ worker[c].batch \in Seq(Mbufs) /\ worker[c].now \in 0 .. Now
  /\ place \in [Mbufs -> {Pool, Nic, Held} \cup {Queue(c) : c \in Workers}]
  /\ stamp \in [Mbufs -> 0 .. Now] /\ wire \subseteq 1 .. Now

\* A worker whose core has a slot in the collector has, between two bursts,
\* counted each packet it received and freed, once, in packets and in bytes
\* (worker.cpp:139-214).
ReceivedCounted ==
  \A c \in Workers \cap Cores : worker[c].at \in {"top", "sent", "sent bytes"} =>
    total[c].rx_packets = freed[c] /\ total[c].rx_bytes = freed[c]

\* Every packet that arrives at a worker with enable_rx is processed and every
\* mbuf in a worker's hands returns to the pool, although record_latency and
\* reset_all wait for each other (worker.cpp:90-100).
QueuesDrain ==
  \A m \in Mbufs :
    place[m] \in {Held} \cup {Queue(c) : c \in Receiving} ~> place[m] = Pool

\* Every call of GetMetrics returns: no order of the two mutexes stops one
\* (metrics_collector.cpp:151-153, 177-181).
PollsEnd == \A p \in Pollers : ~At(p, "idle") ~> At(p, "idle")

\* A recorded latency is the time from sending a frame to receiving it: the
\* "latency histogram" of IMPLEMENTATION_SUMMARY.md:218.
LatencyIsRoundTrip == genuine

=============================================================================
