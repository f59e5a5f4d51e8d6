--------------------------- MODULE FlowScheduler ---------------------------
(***************************************************************************)
(* FlowScheduler (core/scheduler/flow_scheduler.cpp): the flow table, the  *)
(* lookup from 5-tuple to flow, pacing, expiry and the receive side of     *)
(* stateful TCP.                                                           *)
(*                                                                         *)
(* Every operation but update_flow_stats takes mutex_ for its whole body,  *)
(* so each is one action here, and its callers (the gRPC handlers and all  *)
(* worker threads) interleave freely between actions.  One action reads    *)
(* the clock once; the code reads it again for the bucket, some            *)
(* nanoseconds later, which the model takes to be in the same tick.        *)
(*                                                                         *)
(* A key stands for a FlowKey: <<source, destination, protocol>>, where an *)
(* endpoint is an address with its port.  The sequence and acknowledgement *)
(* numbers a connection records are abstracted to the key of the segment   *)
(* they were taken from.                                                   *)
(***************************************************************************)
EXTENDS TokenBucketOps, TcpState, Packets, Sequences, FiniteSets

CONSTANTS
  FlowIds,       \* flow ids clients use
  Endpoints,     \* address and port pairs
  Configs,       \* the flow configurations clients send: id, key, proto, size,
                 \* pps, duration (seconds, 0: no limit), stateless
  BurstShare,    \* a bucket holds 1/BurstShare of a second of its rate (10)
  DefaultBurst,  \* and this much when the rate is 0 (1000)
  MaxBursts,     \* the values of tx_burst_size get_ready_flows is called with
  Segments,      \* what segments carry: flags, and whether there is a payload
  Observed,      \* the flow whose pacing is compared with RateLimiter
  NoId, NoFlow, NoConn, NoKey,
  MaxTime        \* bound: the clock stops here

Keys == Endpoints \X Endpoints \X Protocols

ASSUME IdAssumption == IsFiniteSet(FlowIds) /\ NoId \notin FlowIds /\ Observed \in FlowIds
ASSUME BurstSizeAssumption == BurstShare \in Nat \ {0} /\ DefaultBurst \in Nat
ASSUME ConfigAssumption ==
  \A c \in Configs :
    /\ c.id \in FlowIds /\ c.key \in Keys
    /\ c.size \in Nat /\ c.pps \in Nat /\ c.duration \in Nat
    /\ c.stateless \in BOOLEAN
    /\ c.proto \in Protocols => c.key[3] = c.proto
ASSUME SegmentAssumption ==
  \A seg \in Segments : seg.flags \subseteq Flags /\ seg.payload \in BOOLEAN
ASSUME PollAssumption == MaxBursts \subseteq Nat
ASSUME ClockAssumption == MaxTime \in Nat \ {0}

VARIABLES
  flows,    \* flows_: id -> flow
  order,    \* the order in which flows_ is iterated: of all ids, those that are
            \* not in the table are passed over
  lookup,   \* flow_lookup_: key -> id
  now,      \* the steady clock
  granted   \* history: packets granted to a flow since it was last started

schedulerVars == <<flows, order, lookup, now, granted>>

Reverse(key) == <<key[2], key[1], key[3]>>

Present == {id \in FlowIds : flows[id] # NoFlow}

Orders ==
  {o \in [1 .. Cardinality(FlowIds) -> FlowIds] : \A id \in FlowIds : \E i \in DOMAIN o : o[i] = id}

SchedulerInit ==
  /\ flows = [id \in FlowIds |-> NoFlow]
  /\ order \in Orders
  /\ lookup = [key \in Keys |-> NoId]
  /\ now = 1
  /\ granted = [id \in FlowIds |-> 0]

-----------------------------------------------------------------------------
(* Adding, removing, starting and stopping. *)

BurstOf(pps) == IF pps > 0 THEN pps \div BurstShare ELSE DefaultBurst

ClosedConn == [state |-> "CLOSED", active |-> FALSE, seqFrom |-> NoKey, ackFrom |-> NoKey]

\* Mutant of NewFlow: the flow is active at once.
NewFlowActive(c) ==
  [key |-> c.key, size |-> c.size, duration |-> c.duration, active |-> TRUE, start |-> 0,
   bucket |-> Bucket(c.pps, BurstOf(c.pps), now),
   conn |-> IF ~c.stateless /\ c.proto = "tcp" THEN ClosedConn ELSE NoConn]

NewFlow(c) ==
  [key |-> c.key, size |-> c.size, duration |-> c.duration, active |-> FALSE, start |-> 0,
   bucket |-> Bucket(c.pps, BurstOf(c.pps), now),
   conn |-> IF ~c.stateless /\ c.proto = "tcp" THEN ClosedConn ELSE NoConn]

\* Mutant: no entry for the other direction.
AddFlowForward(c) ==
  /\ TemplateBuilds(c)
  /\ flows' = [flows EXCEPT ![c.id] = NewFlow(c)]
  /\ lookup' = [lookup EXCEPT ![c.key] = c.id]
  /\ IF c.id \in Present THEN UNCHANGED order ELSE order' \in Orders
  /\ granted' = [granted EXCEPT ![c.id] = 0]
  /\ UNCHANGED now

\* A configuration that cannot be built is refused; otherwise it replaces the
\* flow of its id, whose old lookup entries stay.  A new id may rehash the table.
AddFlow(c) ==
  /\ TemplateBuilds(c)
  /\ flows' = [flows EXCEPT ![c.id] = NewFlow(c)]
  /\ lookup' = [lookup EXCEPT ![c.key] = c.id, ![Reverse(c.key)] = c.id]
  /\ IF c.id \in Present THEN UNCHANGED order ELSE order' \in Orders
  /\ granted' = [granted EXCEPT ![c.id] = 0]
  /\ UNCHANGED now

\* The entries of its key and of the reverse go, whichever flow they name.
RemoveFlow(id) ==
  /\ id \in Present
  /\ flows' = [flows EXCEPT ![id] = NoFlow]
  /\ lookup' = [lookup EXCEPT ![flows[id].key] = NoId, ![Reverse(flows[id].key)] = NoId]
  /\ UNCHANGED <<order, now, granted>>

StartFlow(id) ==
  /\ id \in Present
  /\ flows' = [flows EXCEPT ![id].start = now,
                            ![id].active = TRUE,
                            ![id].bucket = AfterReset(@, now)]
  /\ granted' = [granted EXCEPT ![id] = 0]
  /\ UNCHANGED <<order, lookup, now>>

StopFlow(id) ==
  /\ id \in Present
  /\ flows' = [flows EXCEPT ![id].active = FALSE]
  /\ UNCHANGED <<order, lookup, now, granted>>

\* flow_lookup_ is left as it is.
ClearAllFlows ==
  /\ flows' = [id \in FlowIds |-> NoFlow]
  /\ UNCHANGED <<order, lookup, now, granted>>

-----------------------------------------------------------------------------
(* get_ready_flows. *)

Expired(f) ==
  /\ f.duration # 0 /\ f.start # 0
  /\ now - f.start >= f.duration * TicksPerSecond

\* Mutant: the expiry test is missing.
RunningForever(id) == id \in Present /\ flows[id].active

\* The iteration gets past the two `continue's, and takes a token.
Running(id) == id \in Present /\ flows[id].active /\ ~Expired(flows[id])

Grants(id) == Running(id) /\ Obtained(flows[id].bucket, 1, now) > 0

\* The result is full after the i-th flow: the test is made at the end of an
\* iteration, after the flow was appended.
FullAfter(i, max) ==
  /\ Running(order[i])
  /\ Cardinality({j \in 1 .. i : Grants(order[j])}) >= max

Visited(max) ==
  {order[i] : i \in {n \in DOMAIN order : \A m \in 1 .. (n - 1) : ~FullAfter(m, max)}}

\* The flows a call returns, in the order it met them.
ReadyFlows(max) ==
  LET after[i \in 0 .. Len(order)] ==
        IF i = 0 THEN << >>
        ELSE IF order[i] \in Visited(max) /\ Grants(order[i])
        THEN Append(after[i - 1], order[i])
        ELSE after[i - 1]
  IN  after[Len(order)]

Polled(id) ==
  IF Running(id) THEN [flows[id] EXCEPT !.bucket = AfterConsume(@, 1, now)]
                 ELSE [flows[id] EXCEPT !.active = FALSE]

GetReadyFlows(max) ==
  LET visited == Visited(max) \cap Present IN
  /\ flows' = [id \in FlowIds |-> IF id \in visited THEN Polled(id) ELSE flows[id]]
  /\ granted' = [id \in FlowIds |->
                   IF id \in visited /\ Grants(id) THEN granted[id] + 1 ELSE granted[id]]
  /\ UNCHANGED <<order, lookup, now>>

-----------------------------------------------------------------------------
(* handle_tcp_rx. *)

Received(conn, key, seg) ==
  [ReceiveFlags(conn, seg.flags) EXCEPT
     !.ackFrom = IF "ACK" \in seg.flags THEN key ELSE @,
     !.seqFrom = IF \/ seg.payload \/ "FIN" \in seg.flags
                    \/ {"SYN", "ACK"} \subseteq seg.flags
                 THEN key ELSE @]

\* Mutant: the lookup ignores the protocol of the 5-tuple.
HandleAnyRx(key, seg) ==
  LET id == lookup[<<key[1], key[2], "tcp">>] IN
  /\ id \in Present
  /\ flows[id].conn # NoConn
  /\ flows' = [flows EXCEPT ![id].conn = Received(@, key, seg)]
  /\ UNCHANGED <<order, lookup, now, granted>>

\* A segment is handled when its key leads to a stateful TCP flow; the key is
\* the 5-tuple the segment carries, so its protocol is TCP.
HandleTcpRx(key, seg) ==
  LET id == lookup[key] IN
  /\ key[3] = "tcp"
  /\ id \in Present
  /\ flows[id].conn # NoConn
  /\ flows' = [flows EXCEPT ![id].conn = Received(@, key, seg)]
  /\ UNCHANGED <<order, lookup, now, granted>>

Tick ==
  /\ now < MaxTime
  /\ now' = now + 1
  /\ UNCHANGED <<flows, order, lookup, granted>>

-----------------------------------------------------------------------------
SchedulerNext ==
  \/ \E c \in Configs : AddFlow(c)
  \/ \E id \in FlowIds : RemoveFlow(id)
  \/ \E id \in FlowIds : StartFlow(id)
  \/ \E id \in FlowIds : StopFlow(id)
  \/ ClearAllFlows
  \/ \E max \in MaxBursts : GetReadyFlows(max)
  \/ \E key \in Keys, seg \in Segments : HandleTcpRx(key, seg)
  \/ Tick

SchedulerSpec == SchedulerInit /\ [][SchedulerNext]_schedulerVars

-----------------------------------------------------------------------------
Conns == [state : States, active : BOOLEAN,
          seqFrom : Keys \cup {NoKey}, ackFrom : Keys \cup {NoKey}]

Flows == [key : Keys, size : Nat, duration : Nat, active : BOOLEAN, start : Nat,
          bucket : Buckets, conn : Conns \cup {NoConn}]

ASSUME NoFlowAssumption == NoFlow \notin Flows

SchedulerTypeOK ==
  /\ flows \in [FlowIds -> Flows \cup {NoFlow}]
  /\ order \in Orders
  /\ lookup \in [Keys -> FlowIds \cup {NoId}]
  /\ now \in Nat
  /\ granted \in [FlowIds -> Nat]

\* Pacing: since it was last started a flow has been granted at most a burst and
\* what its rate earns up to the last refill (get_ready_flows and start_flow,
\* flow_scheduler.cpp:117-122, :161-165).  However polls of several workers,
\* restarts, stops and reconfigurations interleave.
FlowRateBound ==
  \A id \in Present :
    LET b == flows[id].bucket IN
    flows[id].active =>
      /\ flows[id].start <= b.last
      /\ TicksPerSecond * (granted[id] + b.tokens)
           <= TicksPerSecond * b.burst + b.rate * (b.last - flows[id].start)

\* A flow with a duration is never granted more packets per start than its rate
\* times the duration and one burst, however late it is polled: expiry is tested
\* before the bucket earns (flow_scheduler.cpp:156-162).
PacketBudget ==
  \A id \in Present :
    LET f == flows[id] IN
    f.active /\ f.duration > 0 => granted[id] <= f.bucket.burst + f.bucket.rate * f.duration

\* "uint64_t pps;  // Packets per second" (flow_scheduler.hpp:23), "precise rate
\* shaping" (README.md:11): a flow with a rate has been granted a packet by the
\* time a poll refilled its bucket a second or more after the start
\* (flow_scheduler.cpp:59-60, :161, token_bucket.cpp:92-95).
PacketsPerSecond ==
  \A id \in Present :
    LET f == flows[id] IN
    /\ f.active /\ f.bucket.rate > 0
    /\ f.bucket.last - f.start >= TicksPerSecond
    => granted[id] > 0

\* A segment finds a flow exactly when the flow's 5-tuple, or its reverse, is the
\* segment's (add_flow and remove_flow, :77-82, :94-99).
LookupExact ==
  \A key \in Keys, id \in FlowIds :
    id \in Present => (lookup[key] = id <=> key \in {flows[id].key, Reverse(flows[id].key)})

\* "Per-connection TCP state" (tcp_state.hpp:9): what a connection records of its
\* peer comes from segments of that connection, in one direction or the other.
PerConnectionState ==
  \A id \in Present :
    LET f == flows[id] IN
    f.conn # NoConn =>
      {f.conn.seqFrom, f.conn.ackFrom} \subseteq {NoKey, f.key, Reverse(f.key)}

-----------------------------------------------------------------------------
(* A flow, any one, is an ideal rate limiter. *)

ObservedBucket == IF Observed \in Present THEN flows[Observed].bucket ELSE Bucket(0, 0, now)

\* Whole tokens, and what a refill would find earned since the last one, up to
\* the 2^64 packets where it is cut; beyond a full bucket it is of no
\* use (token_bucket.cpp:87-95).
ObservedCredit ==
  LET b      == ObservedBucket
      earned == (b.rate * (now - b.last)) % (TicksPerSecond * UInt64)
  IN  Least(TicksPerSecond * (b.burst + 1) - 1, TicksPerSecond * b.tokens + earned)

Limiter ==
  INSTANCE RateLimiter WITH clock   <- now,
                            rate    <- ObservedBucket.rate,
                            size    <- ObservedBucket.burst,
                            credit  <- ObservedCredit,
                            granted <- IF Observed \in Present THEN granted[Observed] ELSE 0

\* Over any stretch of time, not only since a start, a flow is granted no more
\* than a full bucket, a fraction of a packet and its rate times the time
\* (get_ready_flows, flow_scheduler.cpp:139-173): it implements RateLimiter.
FlowIsPaced == Limiter!Spec

=============================================================================
