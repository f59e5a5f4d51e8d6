------------------------ MODULE FlowSchedulerProofs ------------------------
(***************************************************************************)
(* Theorems about FlowScheduler for any flow ids, configurations, segments *)
(* and burst limits, any clock unit and any width of the integers.         *)
(***************************************************************************)
EXTENDS FlowScheduler, TokenBucketOpsProofs, SumProofs

-----------------------------------------------------------------------------
(* Type correctness. *)

\* process_event keeps a connection a connection.
LEMMA ProcessEventType ==
  ASSUME NEW conn \in Conns, NEW event
  PROVE  ProcessEvent(conn, event) \in Conns
BY DEF ProcessEvent, Conns

\* So does a segment received with any flags (flow_scheduler.cpp:243-270).
LEMMA ReceivedType ==
  ASSUME NEW conn \in Conns, NEW key \in Keys, NEW seg
  PROVE  Received(conn, key, seg) \in Conns
<1>1. ReceiveFlags(conn, seg.flags) \in Conns
  BY ProcessEventType DEF ReceiveFlags
<1> QED BY <1>1 DEF Received, Conns

\* The key a flow is also looked up by (flow_scheduler.cpp:79) is a key.
LEMMA ReverseType == ASSUME NEW key \in Keys PROVE Reverse(key) \in Keys
BY DEF Reverse, Keys

\* add_flow builds a flow of the declared type from any configuration.
LEMMA NewFlowType ==
  ASSUME NEW c \in Configs, now \in Nat
  PROVE  NewFlow(c) \in Flows
<1>1. BurstOf(c.pps) \in Nat
  BY BurstSizeAssumption, ConfigAssumption DEF BurstOf
<1>2. Bucket(c.pps, BurstOf(c.pps), now) \in Buckets
  BY <1>1, ConfigAssumption DEF Bucket, Buckets
<1>3. ClosedConn \in Conns
  BY DEF ClosedConn, Conns, States
<1> QED BY <1>2, <1>3, ConfigAssumption DEF NewFlow, Flows

\* What a poll does to one flow keeps it a flow.
LEMMA PolledType ==
  ASSUME NEW id \in FlowIds, flows[id] \in Flows, now \in Nat,
         flows[id].bucket.last <= now
  PROVE  Polled(id) \in Flows
<1>1. flows[id].bucket \in Buckets
  BY DEF Flows
<1>2. AfterConsume(flows[id].bucket, 1, now) \in Buckets
  BY <1>1, ConsumedBucket
<1> QED BY <1>2 DEF Polled, Flows

-----------------------------------------------------------------------------
(* Pacing and expiry.  What a poll grants is bounded by the time its bucket   *)
(* has been refilled over, so the invariant relates the flow's start, its     *)
(* bucket's last refill and the clock; a flow is only granted a packet when   *)
(* it has not expired, which bounds that time by its duration.                *)

Paced(f, g) ==
  /\ f.start <= f.bucket.last
  /\ TicksPerSecond * (g + f.bucket.tokens)
       <= TicksPerSecond * f.bucket.burst + f.bucket.rate * (f.bucket.last - f.start)

WithinBudget(f, g) == f.duration > 0 => g <= f.bucket.burst + f.bucket.rate * f.duration

FlowInv(f, g, time) ==
  /\ f.bucket.last <= time
  /\ f.active => f.start # 0 /\ Paced(f, g) /\ WithinBudget(f, g)

SchedulerInv ==
  /\ SchedulerTypeOK
  /\ now > 0
  /\ \A id \in Present : FlowInv(flows[id], granted[id], now)

\* A packet granted before the duration is over is within the budget.
LEMMA BudgetFromRate ==
  ASSUME NEW n \in Nat \ {0}, NEW g \in Nat, NEW held \in Nat, NEW b \in Nat,
         NEW r \in Nat, NEW span \in Nat, NEW d \in Nat, span <= n * d,
         n * (g + held) <= n * b + r * span
  PROVE  g <= b + r * d
<1>1. r * span <= r * (n * d)
  BY ScaleMonotone
<1>2. n * g <= n * (g + held)
  BY ScaleMonotone
<1>3. r * (n * d) = n * (r * d)
  OBVIOUS
<1>4. n * g <= n * (b + r * d)
  <2>1. n * (b + r * d) = n * b + n * (r * d)
    OBVIOUS
  <2>2. /\ n * g \in Int /\ n * (g + held) \in Int /\ n * b \in Int /\ r * span \in Int
        /\ n * (r * d) \in Int
    OBVIOUS
  <2> QED BY <1>1, <1>2, <1>3, <2>1, <2>2
<1>5. ASSUME g > b + r * d PROVE FALSE
  <2>1. n * (b + r * d + 1) <= n * g
    BY <1>5, ScaleMonotone
  <2>2. n * (b + r * d + 1) = n * (b + r * d) + n
    OBVIOUS
  <2>3. n * (b + r * d) \in Int /\ n * g \in Int
    OBVIOUS
  <2> QED BY <1>4, <2>1, <2>2, <2>3
<1> QED BY <1>5

\* One flow, polled (flow_scheduler.cpp:148-170).
LEMMA PolledFlow ==
  ASSUME NEW id \in FlowIds, flows[id] \in Flows, granted[id] \in Nat,
         now \in Nat, now > 0, FlowInv(flows[id], granted[id], now)
  PROVE  /\ Polled(id) \in Flows
         /\ FlowInv(Polled(id), IF Grants(id) THEN granted[id] + 1 ELSE granted[id], now)
         /\ Polled(id).active => flows[id].active
<1> DEFINE f == flows[id]
           b == f.bucket
           r == Refilled(b, now)
           a == AfterConsume(b, 1, now)
           k == Obtained(b, 1, now)
           g == granted[id]
           h == IF Grants(id) THEN g + 1 ELSE g
<1>1. b \in Buckets /\ b.last <= now /\ f.start \in Nat /\ f.duration \in Nat
  BY DEF Flows, FlowInv
<1>2. CASE ~Running(id)
  <2>1. Polled(id) = [f EXCEPT !.active = FALSE] /\ h = g
    BY <1>2 DEF Polled, Grants
  <2> QED BY <1>1, <2>1 DEF Flows, FlowInv
<1>3. CASE Running(id)
  <2>1. Polled(id) = [f EXCEPT !.bucket = a]
    BY <1>3 DEF Polled
  <2>2. /\ a \in Buckets /\ k \in Nat /\ k <= 1
        /\ a.rate = b.rate /\ a.burst = b.burst /\ a.last = r.last
        /\ a.tokens + k = r.tokens
    BY <1>1, ConsumedBucket
  <2>3. /\ b.last <= r.last /\ r.last <= now /\ r.tokens \in Nat
        /\ TicksPerSecond * r.tokens <= TicksPerSecond * b.tokens + b.rate * (r.last - b.last)
    <3> HIDE DEF b
    <3> QED BY <1>1, RefilledBucket DEF Buckets
  <2>4. h = g + k
    BY <1>3, <2>2 DEF Grants
  <2>5. Polled(id) \in Flows
    BY <2>1, <2>2 DEF Flows
  <2>6. f.active /\ f.start # 0 /\ Paced(f, g) /\ ~Expired(f)
    BY <1>3 DEF Running, FlowInv
  <2>7. /\ TicksPerSecond \in Nat \ {0} /\ g \in Nat
        /\ b.rate \in Nat /\ b.burst \in Nat /\ b.tokens \in Nat /\ b.last \in Nat
        /\ a.tokens \in Nat /\ r.last \in Nat
    BY <1>1, <2>2, TicksAssumption DEF Buckets
  <2>8. /\ f.start <= b.last
        /\ TicksPerSecond * (g + b.tokens) <= TicksPerSecond * b.burst + b.rate * (b.last - f.start)
    BY <2>6 DEF Paced
  <2> HIDE DEF f, b, r, a, k, g, h
  <2>9. TicksPerSecond * (h + a.tokens)
          <= TicksPerSecond * b.burst + b.rate * (r.last - f.start)
    <3>1. h + a.tokens = g + r.tokens
      BY <2>2, <2>3, <2>4, <2>7
    <3>2. /\ TicksPerSecond * (g + r.tokens) = TicksPerSecond * g + TicksPerSecond * r.tokens
          /\ TicksPerSecond * (g + b.tokens) = TicksPerSecond * g + TicksPerSecond * b.tokens
          /\ b.rate * (r.last - f.start)
               = b.rate * (b.last - f.start) + b.rate * (r.last - b.last)
      BY <1>1, <2>3, <2>7
    <3>3. /\ TicksPerSecond * g \in Int /\ TicksPerSecond * r.tokens \in Int
          /\ TicksPerSecond * b.tokens \in Int /\ TicksPerSecond * b.burst \in Int
          /\ b.rate * (b.last - f.start) \in Int /\ b.rate * (r.last - b.last) \in Int
      BY <1>1, <2>3, <2>7
    <3> QED BY <2>3, <2>8, <3>1, <3>2, <3>3
  <2>10. ASSUME f.duration > 0 PROVE h <= b.burst + b.rate * f.duration
    <3>1. now - f.start <= TicksPerSecond * f.duration
      BY <1>1, <2>6, <2>7, <2>10 DEF Expired
    <3>2. r.last - f.start \in Nat /\ r.last - f.start <= TicksPerSecond * f.duration
      BY <1>1, <2>3, <2>7, <2>8, <3>1
    <3>3. h \in Nat
      BY <2>2, <2>4, <2>7
    <3> QED BY <1>1, <2>7, <2>9, <3>2, <3>3, BudgetFromRate
  <2>11. /\ Polled(id).bucket = a /\ Polled(id).start = f.start
         /\ Polled(id).duration = f.duration /\ Polled(id).active = f.active
    BY <2>1 DEF Flows, f
  <2>12. Paced(Polled(id), h) /\ WithinBudget(Polled(id), h)
    BY <1>1, <2>2, <2>3, <2>7, <2>8, <2>9, <2>10, <2>11 DEF Paced, WithinBudget
  <2>13. FlowInv(Polled(id), h, now)
    BY <2>2, <2>3, <2>6, <2>11, <2>12 DEF FlowInv
  <2> QED BY <2>5, <2>6, <2>13 DEF f, h, g
<1> QED BY <1>2, <1>3

\* The bounds above, together: inductive over every operation of the scheduler.
LEMMA SchedulerInvariant == SchedulerSpec => []SchedulerInv
<1> USE ConfigAssumption, IdAssumption
<1>1. SchedulerInit => SchedulerInv
  BY DEF SchedulerInit, SchedulerInv, SchedulerTypeOK, Present
<1>2. SchedulerInv /\ [SchedulerNext]_schedulerVars => SchedulerInv'
  <2> SUFFICES ASSUME SchedulerInv, [SchedulerNext]_schedulerVars PROVE SchedulerInv'
    OBVIOUS
  <2> USE DEF SchedulerInv, SchedulerTypeOK, Present
  <2>0. \A id \in Present : flows[id] \in Flows
    OBVIOUS
  <2>1. ASSUME NEW c \in Configs, AddFlow(c) PROVE SchedulerInv'
    <3>1. NewFlow(c) \in Flows
      BY NewFlowType
    <3>2. FlowInv(NewFlow(c), 0, now)
      BY DEF NewFlow, FlowInv, Bucket
    <3>3. Reverse(c.key) \in Keys
      BY ReverseType
    <3>4. order' \in Orders
      BY <2>1 DEF AddFlow
    <3>5. SchedulerTypeOK'
      BY <2>1, <3>1, <3>3, <3>4 DEF AddFlow
    <3>6. \A id \in Present' : FlowInv(flows'[id], granted'[id], now')
      BY <2>1, <3>2 DEF AddFlow
    <3> QED BY <2>1, <3>5, <3>6 DEF AddFlow
  <2>2. ASSUME NEW id \in FlowIds, RemoveFlow(id) PROVE SchedulerInv'
    <3>1. flows[id].key \in Keys /\ Reverse(flows[id].key) \in Keys
      BY <2>0, <2>2, ReverseType DEF RemoveFlow, Flows
    <3> QED BY <2>2, <3>1 DEF RemoveFlow
  <2>3. ASSUME NEW id \in FlowIds, StartFlow(id) PROVE SchedulerInv'
    <3> DEFINE f == flows[id]
               g == [f EXCEPT !.start = now, !.active = TRUE, !.bucket = AfterReset(f.bucket, now)]
    <3>1. f \in Flows /\ flows' = [flows EXCEPT ![id] = g]
      BY <2>0, <2>3 DEF StartFlow
    <3>2. g.bucket \in Buckets /\ g.bucket.last = now /\ g.bucket.tokens = g.bucket.burst
      BY <3>1 DEF Flows, AfterReset, Buckets
    <3>3. g \in Flows /\ g.start = now
      BY <3>1, <3>2 DEF Flows
    <3>4. FlowInv(g, 0, now)
      <4>1. /\ g.bucket.burst \in Nat /\ g.bucket.rate \in Nat /\ g.duration \in Nat
            /\ TicksPerSecond \in Nat
        BY <3>2, <3>3, TicksAssumption DEF Flows, Buckets
      <4>2. g.bucket.rate * g.duration \in Nat
        BY <4>1
      <4> HIDE DEF g
      <4>3. Paced(g, 0)
        BY <3>2, <3>3, <4>1 DEF Paced
      <4>4. WithinBudget(g, 0)
        BY <4>1, <4>2 DEF WithinBudget
      <4> QED BY <3>2, <3>3, <4>3, <4>4 DEF FlowInv
    <3> HIDE DEF g
    <3>5. granted' = [granted EXCEPT ![id] = 0] /\ UNCHANGED <<order, lookup, now>>
      BY <2>3 DEF StartFlow
    <3>6. SchedulerTypeOK'
      BY <3>1, <3>3, <3>5
    <3>7. \A i \in Present' : FlowInv(flows'[i], granted'[i], now')
      BY <3>1, <3>4, <3>5
    <3> QED BY <3>5, <3>6, <3>7
  <2>4. ASSUME NEW id \in FlowIds, StopFlow(id) PROVE SchedulerInv'
    <3>1. flows[id] \in Flows
      BY <2>0, <2>4 DEF StopFlow
    <3>2. /\ [flows[id] EXCEPT !.active = FALSE] \in Flows
          /\ FlowInv([flows[id] EXCEPT !.active = FALSE], granted[id], now)
      BY <2>4, <3>1 DEF StopFlow, FlowInv, Flows
    <3> QED BY <2>4, <3>2 DEF StopFlow
  <2>5. CASE ClearAllFlows
    BY <2>5 DEF ClearAllFlows
  <2>6. ASSUME NEW max \in MaxBursts, GetReadyFlows(max) PROVE SchedulerInv'
    <3>1. \A id \in Present :
            /\ Polled(id) \in Flows
            /\ FlowInv(Polled(id), IF Grants(id) THEN granted[id] + 1 ELSE granted[id], now)
      BY <2>0, PolledFlow
    <3>2. PICK visited \in SUBSET Present :
            /\ flows' = [id \in FlowIds |-> IF id \in visited THEN Polled(id) ELSE flows[id]]
            /\ granted' = [id \in FlowIds |-> IF id \in visited /\ Grants(id)
                                              THEN granted[id] + 1 ELSE granted[id]]
            /\ UNCHANGED <<order, lookup, now>>
      BY <2>6 DEF GetReadyFlows
    <3>3. \A id \in FlowIds :
            /\ flows'[id] = IF id \in visited THEN Polled(id) ELSE flows[id]
            /\ granted'[id] = IF id \in visited /\ Grants(id) THEN granted[id] + 1 ELSE granted[id]
      BY <3>2
    <3>4. granted' \in [FlowIds -> Nat] /\ flows' \in [FlowIds -> Flows \cup {NoFlow}]
      BY <3>1, <3>2
    <3>5. ASSUME NEW id \in Present' PROVE FlowInv(flows'[id], granted'[id], now')
      BY <3>1, <3>2, <3>3, <3>5
    <3> QED BY <3>2, <3>4, <3>5
  <2>7. ASSUME NEW key \in Keys, NEW seg \in Segments, HandleTcpRx(key, seg)
        PROVE  SchedulerInv'
    <3> DEFINE id == lookup[key]
               f  == flows[id]
               g  == [f EXCEPT !.conn = Received(f.conn, key, seg)]
    <3>1. id \in Present /\ f \in Flows /\ f.conn \in Conns
      BY <2>0, <2>7 DEF HandleTcpRx, Flows
    <3>2. g \in Flows /\ g.active = f.active /\ g.start = f.start
          /\ g.bucket = f.bucket /\ g.duration = f.duration
      BY <3>1, ReceivedType DEF Flows
    <3>3. FlowInv(g, granted[id], now)
      <4>1. FlowInv(f, granted[id], now)
        BY <3>1
      <4> HIDE DEF g, f
      <4> QED BY <3>2, <4>1 DEF FlowInv, Paced, WithinBudget
    <3>4. flows' = [flows EXCEPT ![id] = g] /\ UNCHANGED <<order, lookup, now, granted>>
      BY <2>7 DEF HandleTcpRx
    <3> HIDE DEF g
    <3> QED BY <3>1, <3>2, <3>3, <3>4
  <2>8. CASE Tick
    BY <2>0, <2>8 DEF Tick, FlowInv, Flows, Buckets
  <2>9. CASE UNCHANGED schedulerVars
    BY <2>9 DEF schedulerVars
  <2> QED BY <2>1, <2>2, <2>3, <2>4, <2>5, <2>6, <2>7, <2>8, <2>9 DEF SchedulerNext
<1> QED BY <1>1, <1>2, PTL DEF SchedulerSpec

\* Every variable keeps its type, whatever operations interleave.
THEOREM SchedulerTypeCorrect == SchedulerSpec => []SchedulerTypeOK
BY SchedulerInvariant, PTL DEF SchedulerInv

\* Every started flow keeps its rate: a burst, and what the rate earns.
THEOREM FlowRateControl == SchedulerSpec => []FlowRateBound
<1>1. SchedulerInv => FlowRateBound
  BY DEF SchedulerInv, FlowInv, Paced, FlowRateBound
<1> QED BY <1>1, SchedulerInvariant, PTL

\* A flow with a duration keeps its packet budget, however late it is polled.
THEOREM BudgetKept == SchedulerSpec => []PacketBudget
<1>1. SchedulerInv => PacketBudget
  BY DEF SchedulerInv, FlowInv, WithinBudget, PacketBudget
<1> QED BY <1>1, SchedulerInvariant, PTL

-----------------------------------------------------------------------------
(* Connections. *)

\* A closed connection has no transition for what a segment can raise.
LEMMA ClosedStaysClosed ==
  ASSUME NEW conn \in Conns, NEW key, NEW seg, conn.state = "CLOSED", ~conn.active
  PROVE  Received(conn, key, seg).state = "CLOSED" /\ ~Received(conn, key, seg).active
<1>1. \A event \in {"RECV_ACK", "RECV_SYN_ACK", "RECV_FIN"} : ProcessEvent(conn, event) = conn
  BY DEF ProcessEvent, Transitions
<1>2. ReceiveFlags(conn, seg.flags) = conn
  BY <1>1 DEF ReceiveFlags
<1> QED BY <1>2 DEF Received, Conns

\* Is every connection in its first state?
NothingOpen ==
  \A id \in Present :
    flows[id].conn # NoConn => flows[id].conn.state = "CLOSED" /\ ~flows[id].conn.active

\* Whatever segments arrive, every connection stays closed: process_event has no
\* transition for RECV_SYN in CLOSED, and no code raises SEND_SYN (tcp_state.cpp:11-17,
\* flow_scheduler.cpp:245-259).  TCP_STATE_MACHINE.md:260-263 has both.
THEOREM NoConnectionOpens == SchedulerSpec => []NothingOpen
<1>1. SchedulerInit => NothingOpen
  BY DEF SchedulerInit, NothingOpen, Present
<1>2. SchedulerTypeOK /\ NothingOpen /\ [SchedulerNext]_schedulerVars => NothingOpen'
  <2> SUFFICES ASSUME SchedulerTypeOK, NothingOpen, [SchedulerNext]_schedulerVars
               PROVE  NothingOpen'
    OBVIOUS
  <2> USE IdAssumption DEF SchedulerTypeOK, NothingOpen, Present
  <2>0. \A id \in Present : flows[id] \in Flows
    OBVIOUS
  <2>1. ASSUME NEW c \in Configs, AddFlow(c) PROVE NothingOpen'
    BY <2>1, ConfigAssumption DEF AddFlow, NewFlow, ClosedConn
  <2>2. ASSUME NEW id \in FlowIds, RemoveFlow(id) \/ StopFlow(id) \/ StartFlow(id)
        PROVE  NothingOpen'
    <3>1. \A i \in Present' : i \in Present /\ flows'[i].conn = flows[i].conn
      BY <2>0, <2>2 DEF RemoveFlow, StopFlow, StartFlow, Flows
    <3> QED BY <3>1
  <2>3. CASE ClearAllFlows
    BY <2>3 DEF ClearAllFlows
  <2>4. ASSUME NEW max \in MaxBursts, GetReadyFlows(max) PROVE NothingOpen'
    <3>1. \A i \in Present : Polled(i).conn = flows[i].conn
      BY <2>0 DEF Polled, Flows
    <3>2. \A i \in Present' : i \in Present /\ flows'[i].conn = flows[i].conn
      BY <2>4, <3>1 DEF GetReadyFlows
    <3> QED BY <3>2
  <2>5. ASSUME NEW key \in Keys, NEW seg \in Segments, HandleTcpRx(key, seg)
        PROVE  NothingOpen'
    <3> DEFINE id == lookup[key]
               f == flows[id]
               conn == Received(f.conn, key, seg)
    <3>1. id \in Present /\ f \in Flows /\ f.conn \in Conns /\ f.conn # NoConn
      BY <2>0, <2>5 DEF HandleTcpRx, Flows
    <3>2. conn.state = "CLOSED" /\ ~conn.active
      BY <3>1, ClosedStaysClosed
    <3>3. flows' = [flows EXCEPT ![id] = [f EXCEPT !.conn = conn]]
      BY <2>5 DEF HandleTcpRx
    <3>4. [f EXCEPT !.conn = conn].conn = conn
      BY <3>1 DEF Flows
    <3> HIDE DEF conn
    <3> QED BY <3>1, <3>2, <3>3, <3>4
  <2>6. CASE Tick \/ UNCHANGED schedulerVars
    BY <2>6 DEF Tick, schedulerVars
  <2> QED BY <2>1, <2>2, <2>3, <2>4, <2>5, <2>6 DEF SchedulerNext
<1> QED BY <1>1, <1>2, SchedulerTypeCorrect, PTL DEF SchedulerSpec

-----------------------------------------------------------------------------
(* The lookup.  It is exact for clients that keep one 5-tuple per flow id and *)
(* one flow id per connection; add_flow does not ask that of them             *)
(* (flow_scheduler.cpp:75-82).                                                *)

DistinctKeys ==
  \A c, d \in Configs :
    IF c.id = d.id THEN c.key = d.key ELSE c.key \notin {d.key, Reverse(d.key)}

Owned(id, key) == \E c \in Configs : c.id = id /\ key \in {c.key, Reverse(c.key)}

LookupInv ==
  /\ \A id \in Present : /\ \E c \in Configs : c.id = id /\ c.key = flows[id].key
                         /\ lookup[flows[id].key] = id
                         /\ lookup[Reverse(flows[id].key)] = id
  /\ \A key \in Keys : lookup[key] # NoId => Owned(lookup[key], key)
  /\ \A id \in Present :
       flows[id].conn # NoConn =>
         {flows[id].conn.seqFrom, flows[id].conn.ackFrom}
           \subseteq {NoKey, flows[id].key, Reverse(flows[id].key)}

\* Endpoints swapped twice are the endpoints.
LEMMA ReverseTwice == ASSUME NEW key \in Keys PROVE Reverse(Reverse(key)) = key
BY DEF Reverse, Keys

\* Another flow's entries are not its own.
LEMMA EntriesDisjoint ==
  ASSUME DistinctKeys, NEW c \in Configs, NEW d \in Configs, c.id # d.id
  PROVE  {c.key, Reverse(c.key)} \cap {d.key, Reverse(d.key)} = {}
<1>1. c.key \in Keys /\ d.key \in Keys
  BY ConfigAssumption
<1>2. c.key \notin {d.key, Reverse(d.key)} /\ d.key \notin {c.key, Reverse(c.key)}
  BY DEF DistinctKeys
<1>3. Reverse(c.key) # Reverse(d.key)
  BY <1>1, <1>2, ReverseTwice
<1> QED BY <1>2, <1>3

\* The invariant of the lookup says what the two properties say.
LEMMA LookupInvImplies ==
  ASSUME DistinctKeys, SchedulerTypeOK, LookupInv
  PROVE  LookupExact /\ PerConnectionState
<1>1. ASSUME NEW key \in Keys, NEW id \in Present, lookup[key] = id
      PROVE  key \in {flows[id].key, Reverse(flows[id].key)}
  <2>1. lookup[key] # NoId
    BY <1>1, IdAssumption DEF Present
  <2>2. PICK c \in Configs : c.id = id /\ key \in {c.key, Reverse(c.key)}
    BY <1>1, <2>1 DEF LookupInv, Owned
  <2>3. PICK d \in Configs : d.id = id /\ d.key = flows[id].key
    BY DEF LookupInv
  <2>4. c.key = d.key
    BY <2>2, <2>3 DEF DistinctKeys
  <2> QED BY <2>2, <2>3, <2>4
<1> QED BY <1>1 DEF LookupInv, LookupExact, PerConnectionState

\* What an operation that changes no key, connection or entry leaves alone.
LEMMA LookupInvKept ==
  ASSUME LookupInv, UNCHANGED lookup,
         \A id \in Present' : /\ id \in Present /\ flows'[id].key = flows[id].key
                              /\ flows'[id].conn = flows[id].conn
  PROVE  LookupInv'
BY DEF LookupInv, Owned

\* For such clients a segment finds a flow exactly when it belongs to it, and a
\* connection records what its own peer sent (flow_scheduler.cpp:229-273).
THEOREM ConnectionsSeparate ==
  ASSUME DistinctKeys
  PROVE  SchedulerSpec => [](LookupExact /\ PerConnectionState)
<1>1. SchedulerInit => LookupInv
  BY DEF SchedulerInit, LookupInv, Present
<1>2. SchedulerTypeOK /\ LookupInv /\ [SchedulerNext]_schedulerVars => LookupInv'
  <2> SUFFICES ASSUME SchedulerTypeOK, LookupInv, [SchedulerNext]_schedulerVars
               PROVE  LookupInv'
    OBVIOUS
  <2> USE ConfigAssumption, IdAssumption DEF SchedulerTypeOK, Present
  <2>0. \A id \in Present : flows[id] \in Flows
    OBVIOUS
  <2>1. ASSUME NEW c \in Configs, AddFlow(c) PROVE LookupInv'
    <3>1. /\ lookup' = [lookup EXCEPT ![c.key] = c.id, ![Reverse(c.key)] = c.id]
          /\ flows' = [flows EXCEPT ![c.id] = NewFlow(c)]
          /\ c.key \in Keys /\ Reverse(c.key) \in Keys
      BY <2>1, ReverseType DEF AddFlow
    <3>2. ASSUME NEW id \in Present', id # c.id
          PROVE  /\ id \in Present /\ flows'[id] = flows[id]
                 /\ flows[id].key \in Keys /\ Reverse(flows[id].key) \in Keys
                 /\ lookup'[flows[id].key] = lookup[flows[id].key]
                 /\ lookup'[Reverse(flows[id].key)] = lookup[Reverse(flows[id].key)]
      <4>1. id \in Present /\ flows'[id] = flows[id]
        BY <3>1, <3>2
      <4>2. PICK d \in Configs : d.id = id /\ d.key = flows[id].key
        BY <4>1 DEF LookupInv
      <4>3. {c.key, Reverse(c.key)} \cap {d.key, Reverse(d.key)} = {}
        BY <3>2, <4>2, EntriesDisjoint
      <4>4. d.key \in Keys /\ Reverse(d.key) \in Keys
        BY ReverseType
      <4> QED BY <3>1, <4>1, <4>2, <4>3, <4>4
    <3>3. \A key \in Keys : lookup'[key] # NoId => Owned(lookup'[key], key)
      BY <3>1 DEF LookupInv, Owned
    <3>4. NewFlow(c).key = c.key /\ NewFlow(c).conn \in {ClosedConn, NoConn}
      BY DEF NewFlow
    <3>5. flows'[c.id] = NewFlow(c) /\ lookup'[c.key] = c.id /\ lookup'[Reverse(c.key)] = c.id
      BY <3>1
    <3>6. ASSUME NEW id \in Present'
          PROVE  /\ \E d \in Configs : d.id = id /\ d.key = flows'[id].key
                 /\ lookup'[flows'[id].key] = id /\ lookup'[Reverse(flows'[id].key)] = id
                 /\ flows'[id].conn # NoConn =>
                      {flows'[id].conn.seqFrom, flows'[id].conn.ackFrom}
                        \subseteq {NoKey, flows'[id].key, Reverse(flows'[id].key)}
      <4>1. CASE id = c.id
        BY <3>4, <3>5, <4>1 DEF ClosedConn
      <4>2. CASE id # c.id
        BY <3>2, <4>2 DEF LookupInv
      <4> QED BY <4>1, <4>2
    <3> QED BY <3>3, <3>6 DEF LookupInv, Owned
  <2>2. ASSUME NEW r \in FlowIds, RemoveFlow(r) PROVE LookupInv'
    <3>1. /\ flows' = [flows EXCEPT ![r] = NoFlow] /\ r \in Present
          /\ lookup' = [lookup EXCEPT ![flows[r].key] = NoId, ![Reverse(flows[r].key)] = NoId]
      BY <2>2 DEF RemoveFlow
    <3>2. PICK c \in Configs : c.id = r /\ c.key = flows[r].key
      BY <3>1 DEF LookupInv
    <3>3. ASSUME NEW id \in Present'
          PROVE  /\ id \in Present /\ flows'[id] = flows[id]
                 /\ lookup'[flows[id].key] = lookup[flows[id].key]
                 /\ lookup'[Reverse(flows[id].key)] = lookup[Reverse(flows[id].key)]
      <4>1. id \in Present /\ flows'[id] = flows[id] /\ id # r
        BY <3>1
      <4>2. PICK d \in Configs : d.id = id /\ d.key = flows[id].key
        BY <4>1 DEF LookupInv
      <4>3. {c.key, Reverse(c.key)} \cap {d.key, Reverse(d.key)} = {}
        BY <3>2, <4>1, <4>2, EntriesDisjoint
      <4>4. d.key \in Keys /\ Reverse(d.key) \in Keys
        BY ReverseType
      <4> QED BY <3>1, <3>2, <4>1, <4>2, <4>3, <4>4
    <3>4. \A key \in Keys : lookup'[key] # NoId => lookup'[key] = lookup[key]
      BY <3>1
    <3>5. \A key \in Keys : lookup'[key] # NoId => Owned(lookup'[key], key)
      BY <3>4 DEF LookupInv, Owned
    <3> QED BY <3>3, <3>5 DEF LookupInv, Owned
  <2>3. ASSUME NEW id \in FlowIds, StartFlow(id) \/ StopFlow(id) PROVE LookupInv'
    <3>1. /\ UNCHANGED lookup
          /\ \A i \in Present' : /\ i \in Present /\ flows'[i].key = flows[i].key
                                 /\ flows'[i].conn = flows[i].conn
      BY <2>0, <2>3 DEF StartFlow, StopFlow, Flows
    <3> QED BY <3>1, LookupInvKept
  <2>4. CASE ClearAllFlows
    BY <2>4 DEF ClearAllFlows, LookupInv, Owned
  <2>5. ASSUME NEW max \in MaxBursts, GetReadyFlows(max) PROVE LookupInv'
    <3>1. \A i \in Present : Polled(i).key = flows[i].key /\ Polled(i).conn = flows[i].conn
      BY <2>0 DEF Polled, Flows
    <3>2. /\ UNCHANGED lookup
          /\ \A i \in Present' : /\ i \in Present /\ flows'[i].key = flows[i].key
                                 /\ flows'[i].conn = flows[i].conn
      BY <2>5, <3>1 DEF GetReadyFlows
    <3> QED BY <3>2, LookupInvKept
  <2>6. ASSUME NEW key \in Keys, NEW seg \in Segments, HandleTcpRx(key, seg)
        PROVE  LookupInv'
    <3> DEFINE id == lookup[key]
               f == flows[id]
               conn == Received(f.conn, key, seg)
    <3>1. id \in Present /\ f \in Flows /\ f.conn \in Conns /\ f.conn # NoConn
      BY <2>0, <2>6 DEF HandleTcpRx, Flows
    <3>2. key \in {f.key, Reverse(f.key)}
      BY <3>1, LookupInvImplies DEF LookupExact
    <3>3. conn.seqFrom \in {f.conn.seqFrom, key} /\ conn.ackFrom \in {f.conn.ackFrom, key}
      <4>1. \A x \in Conns, e \in Events : /\ ProcessEvent(x, e) \in Conns
                                           /\ ProcessEvent(x, e).seqFrom = x.seqFrom
                                           /\ ProcessEvent(x, e).ackFrom = x.ackFrom
        BY ProcessEventType DEF ProcessEvent, Conns
      <4>2. /\ ReceiveFlags(f.conn, seg.flags) \in Conns
            /\ ReceiveFlags(f.conn, seg.flags).seqFrom = f.conn.seqFrom
            /\ ReceiveFlags(f.conn, seg.flags).ackFrom = f.conn.ackFrom
        BY <3>1, <4>1 DEF ReceiveFlags, Events
      <4> QED BY <4>2 DEF Received, Conns
    <3>4. /\ flows' = [flows EXCEPT ![id] = [f EXCEPT !.conn = conn]] /\ UNCHANGED lookup
      BY <2>6 DEF HandleTcpRx
    <3>5. [f EXCEPT !.conn = conn].conn = conn /\ [f EXCEPT !.conn = conn].key = f.key
      BY <3>1 DEF Flows
    <3> HIDE DEF conn
    <3> QED BY <3>1, <3>2, <3>3, <3>4, <3>5 DEF LookupInv, Owned
  <2>7. CASE Tick \/ UNCHANGED schedulerVars
    BY <2>7 DEF Tick, schedulerVars, LookupInv, Owned
  <2> QED BY <2>1, <2>2, <2>3, <2>4, <2>5, <2>6, <2>7 DEF SchedulerNext
<1>3. SchedulerTypeOK /\ LookupInv => LookupExact /\ PerConnectionState
  BY LookupInvImplies
<1> QED BY <1>1, <1>2, <1>3, SchedulerTypeCorrect, PTL DEF SchedulerSpec

\* For such clients no segment of one connection is recorded in another
\* (flow_scheduler.cpp:229-273, tcp_state.cpp:5-38).
THEOREM ConnectionsKeepToThemselves ==
  ASSUME DistinctKeys
  PROVE  SchedulerSpec => []PerConnectionState
<1>1. LookupExact /\ PerConnectionState => PerConnectionState
  OBVIOUS
<1> QED BY <1>1, ConnectionsSeparate, PTL

-----------------------------------------------------------------------------
(* What a poll returns. *)

\* Clients use finitely many ids.
LEMMA FlowIdsFinite == IsFiniteSet(FlowIds)
BY IdAssumption

\* The iteration meets each flow once.
LEMMA OrderIsInjective ==
  ASSUME NEW o \in Orders
  PROVE  /\ o \in Seq(FlowIds)
         /\ \A i, j \in DOMAIN o : o[i] = o[j] => i = j
<1> DEFINE n == Cardinality(FlowIds)
<1>1. n \in Nat
  BY IdAssumption, FS_CardinalityType
<1>2. o \in [1 .. n -> FlowIds]
  BY DEF Orders
<1>3. o \in Seq(FlowIds)
  BY <1>1, <1>2
<1>4. o \in Surjection(1 .. n, FlowIds)
  <2>1. \A id \in FlowIds : \E i \in 1 .. n : o[i] = id
    BY <1>2 DEF Orders
  <2> QED BY <1>2, <2>1 DEF Surjection
<1>5. IsFiniteSet(1 .. n) /\ Cardinality(1 .. n) = n
  BY <1>1, FS_Interval
<1>6. o \in Injection(1 .. n, FlowIds)
  BY <1>4, <1>5, FS_SurjSameCardinalityImpliesInj
<1> QED BY <1>2, <1>3, <1>6 DEF Injection, IsInjective

\* The result while the iteration goes on: the flows of the first i places that
\* are granted a token.
IsCollected(g, max) ==
  g = [i \in 0 .. Len(order) |->
         IF i = 0 THEN << >>
         ELSE IF order[i] \in Visited(max) /\ Grants(order[i])
         THEN Append(g[i - 1], order[i])
         ELSE g[i - 1]]

LEMMA CollectedExists ==
  ASSUME NEW max, order \in Seq(FlowIds)
  PROVE  \E g : IsCollected(g, max)
<1> DEFINE Next(g, i) == IF i = 0 THEN << >>
                         ELSE IF order[i] \in Visited(max) /\ Grants(order[i])
                         THEN Append(g[i - 1], order[i])
                         ELSE g[i - 1]
           Solved == {n \in Nat : \E g : g = [i \in 0 .. n |-> Next(g, i)]}
<1>1. 0 \in Solved
  <2> DEFINE g == [i \in 0 .. 0 |-> << >>]
  <2>1. g = [i \in 0 .. 0 |-> Next(g, i)]
    OBVIOUS
  <2>2. \E h : h = [i \in 0 .. 0 |-> Next(h, i)]
    <3> HIDE DEF g
    <3> QED BY <2>1
  <2> QED BY <2>2
<1>2. ASSUME NEW n \in Solved PROVE n + 1 \in Solved
  <2>1. PICK g : g = [i \in 0 .. n |-> Next(g, i)]
    OBVIOUS
  <2>2. n \in Nat
    OBVIOUS
  <2> DEFINE h == [i \in 0 .. n + 1 |-> Next(g, i)]
  <2>3. \A i \in 0 .. n : h[i] = g[i]
    <3>1. 0 .. n \subseteq 0 .. n + 1
      BY <2>2
    <3> HIDE DEF Next
    <3>2. \A i \in 0 .. n : g[i] = Next(g, i)
      BY <2>1
    <3> QED BY <3>1, <3>2
  <2>4. \A i \in 0 .. n + 1 : Next(g, i) = Next(h, i)
    <3>1. \A i \in 0 .. n + 1 : i # 0 => i - 1 \in 0 .. n
      BY <2>2
    <3> HIDE DEF h
    <3> QED BY <2>3, <3>1
  <2>5. h = [i \in 0 .. n + 1 |-> Next(h, i)]
    <3> HIDE DEF Next
    <3> QED BY <2>4
  <2>6. \E k : k = [i \in 0 .. n + 1 |-> Next(k, i)]
    <3> HIDE DEF h, Next
    <3> QED BY <2>5
  <2>7. n + 1 \in Nat
    BY <2>2
  <2> HIDE DEF Next
  <2> QED BY <2>6, <2>7
<1>3. Solved = Nat
  <2> HIDE DEF Solved
  <2> QED BY <1>1, <1>2, SizeInduction DEF Solved
<1>4. Len(order) \in Solved
  BY <1>3
<1> QED BY <1>4 DEF IsCollected

\* A poll returns at most as many flows as it was asked for, so a worker never
\* fills more than its burst (flow_scheduler.cpp:166-169).
LEMMA ReadyFlowsBounded ==
  ASSUME NEW max \in Nat \ {0}, order \in Orders
  PROVE  ReadyFlows(max) \in Seq(FlowIds) /\ Len(ReadyFlows(max)) <= max
<1>1. order \in Seq(FlowIds) /\ \A i, j \in DOMAIN order : order[i] = order[j] => i = j
  BY OrderIsInjective
<1> DEFINE g == CHOOSE h : IsCollected(h, max)
           n == Len(order)
           Granted(i) == {j \in 1 .. i : Grants(order[j])}
           Good == {i \in Nat : i <= n =>
                      /\ g[i] \in Seq(FlowIds)
                      /\ Len(g[i]) <= max
                      /\ Len(g[i]) <= Cardinality(Granted(i))
                      /\ Len(g[i]) = max => \A j \in (i + 1) .. n : order[j] \notin Visited(max)}
<1>2. ReadyFlows(max) = g[n]
  BY DEF ReadyFlows, IsCollected
<1>3. IsCollected(g, max)
  BY <1>1, CollectedExists
<1> HIDE DEF g
<1>4. n \in Nat /\ DOMAIN order = 1 .. n
  BY <1>1
<1>5. \A i \in Nat : IsFiniteSet(Granted(i)) /\ Cardinality(Granted(i)) \in Nat
  <2> SUFFICES ASSUME NEW i \in Nat
               PROVE  IsFiniteSet(Granted(i)) /\ Cardinality(Granted(i)) \in Nat
    OBVIOUS
  <2>1. IsFiniteSet(1 .. i) /\ Granted(i) \in SUBSET (1 .. i)
    BY FS_Interval
  <2> QED BY <2>1, FS_Subset, FS_CardinalityType
<1>6. 0 \in Good
  <2>1. g[0] = << >>
    BY <1>3, <1>4 DEF IsCollected
  <2>2. Len(g[0]) = 0 /\ g[0] \in Seq(FlowIds)
    BY <2>1
  <2> HIDE DEF Granted
  <2>3. Cardinality(Granted(0)) \in Nat
    BY <1>5
  <2> QED BY <2>2, <2>3
<1>7. ASSUME NEW i \in Good PROVE i + 1 \in Good
  <2> SUFFICES ASSUME i + 1 <= n
               PROVE  /\ g[i + 1] \in Seq(FlowIds)
                      /\ Len(g[i + 1]) <= max
                      /\ Len(g[i + 1]) <= Cardinality(Granted(i + 1))
                      /\ Len(g[i + 1]) = max =>
                           \A j \in (i + 2) .. n : order[j] \notin Visited(max)
    OBVIOUS
  <2>1. i \in Nat /\ i <= n /\ i + 1 \in 1 .. n /\ order[i + 1] \in FlowIds
    BY <1>1, <1>4
  <2>2. /\ g[i] \in Seq(FlowIds) /\ Len(g[i]) \in Nat
        /\ Len(g[i]) <= max /\ Len(g[i]) <= Cardinality(Granted(i))
        /\ Len(g[i]) = max => \A j \in (i + 1) .. n : order[j] \notin Visited(max)
    BY <2>1
  <2>3. g[i + 1] = IF order[i + 1] \in Visited(max) /\ Grants(order[i + 1])
                   THEN Append(g[i], order[i + 1]) ELSE g[i]
    <3>1. i + 1 \in 0 .. n /\ i + 1 # 0 /\ (i + 1) - 1 = i
      BY <1>4, <2>1
    <3> QED BY <1>3, <3>1 DEF IsCollected
  <2>0. /\ IsFiniteSet(Granted(i)) /\ Cardinality(Granted(i)) \in Nat
        /\ IsFiniteSet(Granted(i + 1)) /\ Cardinality(Granted(i + 1)) \in Nat
    <3>1. i \in Nat /\ i + 1 \in Nat
      BY <2>1
    <3> HIDE DEF Granted
    <3> QED BY <1>5, <3>1
  <2>4. Granted(i) \in SUBSET Granted(i + 1)
    BY <2>1
  <2>5. Cardinality(Granted(i)) <= Cardinality(Granted(i + 1))
    BY <2>0, <2>4, FS_Subset
  <2>6. CASE ~(order[i + 1] \in Visited(max) /\ Grants(order[i + 1]))
    <3>1. \A j \in (i + 2) .. n : j \in (i + 1) .. n
      BY <2>1
    <3> HIDE DEF Granted
    <3> QED BY <2>0, <2>1, <2>2, <2>3, <2>5, <2>6, <3>1
  <2>7. CASE order[i + 1] \in Visited(max) /\ Grants(order[i + 1])
    <3>1. Len(g[i]) # max
      BY <1>4, <2>1, <2>2, <2>7
    <3>2. g[i + 1] = Append(g[i], order[i + 1]) /\ Len(g[i + 1]) = Len(g[i]) + 1
          /\ g[i + 1] \in Seq(FlowIds)
      BY <2>1, <2>2, <2>3, <2>7
    <3>3. Cardinality(Granted(i + 1)) = Cardinality(Granted(i)) + 1
      <4>1. Granted(i + 1) = Granted(i) \cup {i + 1} /\ i + 1 \notin Granted(i)
        BY <2>1, <2>7
      <4> HIDE DEF Granted
      <4> QED BY <1>5, <2>1, <4>1, FS_AddElement
    <3>4. ASSUME Len(g[i + 1]) = max, NEW j \in (i + 2) .. n
          PROVE  order[j] \notin Visited(max)
      <4>1. FullAfter(i + 1, max)
        <5>1. Running(order[i + 1]) /\ Cardinality(Granted(i + 1)) >= max
          <6> HIDE DEF Granted
          <6> QED BY <2>0, <2>1, <2>2, <2>7, <3>2, <3>3, <3>4 DEF Grants
        <5> QED BY <5>1 DEF FullAfter
      <4>2. i + 1 \in 1 .. (j - 1) /\ j \in 1 .. n
        BY <1>4, <2>1
      <4>3. ~\A m \in 1 .. (j - 1) : ~FullAfter(m, max)
        BY <4>1, <4>2
      <4>4. \A k \in DOMAIN order : order[k] = order[j] => k = j
        BY <1>1, <1>4, <4>2
      <4> QED BY <4>3, <4>4 DEF Visited
    <3> HIDE DEF Granted
    <3> QED BY <2>0, <2>1, <2>2, <3>1, <3>2, <3>3, <3>4
  <2> QED BY <2>6, <2>7
<1>8. Good = Nat
  <2> HIDE DEF Good
  <2> QED BY <1>6, <1>7, SizeInduction DEF Good
<1>9. n \in Good
  BY <1>4, <1>8
<1> QED BY <1>2, <1>4, <1>9

\* With no active flow a poll returns nothing (flow_scheduler.cpp:151-153).
LEMMA NoneReady ==
  ASSUME NEW max \in Nat \ {0}, order \in Orders, \A id \in Present : ~flows[id].active
  PROVE  ReadyFlows(max) = << >>
<1>1. order \in Seq(FlowIds)
  BY OrderIsInjective
<1> DEFINE g == CHOOSE h : IsCollected(h, max)
           n == Len(order)
           Empty == {i \in Nat : i <= n => g[i] = << >>}
<1>2. ReadyFlows(max) = g[n]
  BY DEF ReadyFlows, IsCollected
<1>3. IsCollected(g, max)
  BY <1>1, CollectedExists
<1>4. n \in Nat
  BY <1>1
<1> HIDE DEF g
<1>5. 0 \in Empty
  BY <1>3, <1>4 DEF IsCollected
<1>6. ASSUME NEW i \in Empty PROVE i + 1 \in Empty
  <2> SUFFICES ASSUME i + 1 <= n PROVE g[i + 1] = << >>
    OBVIOUS
  <2>1. i \in Nat /\ i + 1 \in 0 .. n /\ i + 1 # 0 /\ (i + 1) - 1 = i
    BY <1>4
  <2>2. ~Grants(order[i + 1])
    BY DEF Grants, Running
  <2>3. g[i + 1] = g[i]
    BY <1>3, <2>1, <2>2 DEF IsCollected
  <2> QED BY <2>1, <2>3
<1>7. Empty = Nat
  <2> HIDE DEF Empty
  <2> QED BY <1>5, <1>6, SizeInduction DEF Empty
<1>8. n \in Empty
  BY <1>4, <1>7
<1> QED BY <1>2, <1>4, <1>8

=============================================================================
