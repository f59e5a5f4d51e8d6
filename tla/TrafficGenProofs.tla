------------------------- MODULE TrafficGenProofs -------------------------
(***************************************************************************)
(* Theorems about the generator at work, for any workers, flows, requests, *)
(* profiles, pool, burst size and clock.                                   *)
(***************************************************************************)
EXTENDS TrafficGen, FlowSchedulerProofs

-----------------------------------------------------------------------------
(* The scheduler within the generator: nothing the handlers and the workers   *)
(* do to it goes past its operations.                                         *)

\* What each handler carries with it, and the setup it finds.
HandlerInv ==
  /\ setup \in Setups
  /\ \/ svc.op \in {"idle", "snapshot", "stopping"} /\ svc = [op |-> svc.op]
     \/ svc = [op |-> "configure", batch |-> svc.batch] /\ svc.batch \in Seq(Configs)
     \/ svc = [op |-> "reset", core |-> svc.core]
     \/ svc.op \in {"start", "stop"} /\ svc = [op |-> svc.op, ids |-> svc.ids]

\* Nothing changes the setup.
LEMMA SetupStays == ASSUME [GenNext]_genVars PROVE UNCHANGED setup
<1>1. CASE ServiceStep
  BY <1>1
  DEF ServiceStep, ConfigureOne, EndConfigure, ResetCore, Snapshot, StartOne, EndStart, BeginStop,
      StopOne, EndStop
<1>2. CASE \E w \in Workers : WorkerStep(w)
  BY <1>2
  DEF WorkerStep, Poll, Pick, Build, Advance, Count, EndPick, Transmit, Account, service
<1>3. CASE \/ \E batch \in Batches : CallConfigureFlows(batch)
           \/ \E entries \in Profiles : CallConfigureImix(entries)
           \/ \E reset \in BOOLEAN : CallStartTraffic(reset)
           \/ CallStopTraffic \/ NicDone \/ TimePasses \/ UNCHANGED genVars
  BY <1>3
  DEF CallConfigureFlows, CallConfigureImix, CallStartTraffic, CallStopTraffic, Request, NicDone,
      TimePasses, genVars, service
<1> QED BY <1>1, <1>2, <1>3 DEF GenNext

\* Every step leaves the handler under way with the locals its code has.
LEMMA HandlerNext == HandlerInv /\ [GenNext]_genVars => HandlerInv'
<1> SUFFICES ASSUME HandlerInv, [GenNext]_genVars PROVE HandlerInv'
  OBVIOUS
<1>0. setup' \in Setups
  BY SetupStays DEF HandlerInv
<1>1. CASE \E batch \in Batches : CallConfigureFlows(batch)
  <2>1. PICK batch \in setup.batches : svc' = [op |-> "configure", batch |-> batch]
    BY <1>1 DEF CallConfigureFlows, Request, Batches
  <2>2. batch \in Seq(Configs)
    BY <2>1, SetupAssumption DEF HandlerInv
  <2> QED BY <1>0, <2>1, <2>2 DEF HandlerInv
<1>2. CASE (\E reset \in BOOLEAN : CallStartTraffic(reset)) \/ CallStopTraffic
  BY <1>0, <1>2 DEF CallStartTraffic, CallStopTraffic, Request, HandlerInv
<1>3. CASE ConfigureOne
  <2>1. /\ svc = [op |-> "configure", batch |-> svc.batch]
        /\ svc.batch \in Seq(Configs) /\ svc.batch # << >>
        /\ svc' = [svc EXCEPT !.batch = Tail(@)]
    BY <1>3 DEF ConfigureOne, HandlerInv
  <2>2. Tail(svc.batch) \in Seq(Configs)
    BY <2>1
  <2>3. svc' = [op |-> "configure", batch |-> Tail(svc.batch)]
    <3> DEFINE b == svc.batch
    <3>1. svc' = [[op |-> "configure", batch |-> b] EXCEPT !.batch = Tail(b)]
      BY <2>1, Zenon
    <3> HIDE DEF b
    <3>2. svc' = [op |-> "configure", batch |-> Tail(b)]
      BY <3>1
    <3> QED BY <3>2 DEF b
  <2> QED BY <1>0, <2>2, <2>3 DEF HandlerInv
<1>4. CASE EndConfigure \/ ResetCore \/ Snapshot
  BY <1>0, <1>4 DEF EndConfigure, ResetCore, Snapshot, Idle, HandlerInv
<1>5. CASE StartOne \/ EndStart
  BY <1>0, <1>5 DEF StartOne, EndStart, Idle, HandlerInv
<1>6. CASE BeginStop \/ StopOne \/ EndStop
  BY <1>0, <1>6 DEF BeginStop, StopOne, EndStop, Idle, HandlerInv
<1>7. CASE UNCHANGED svc
  BY <1>0, <1>7 DEF HandlerInv
<1>8. CASE (\E entries \in Profiles : CallConfigureImix(entries)) \/ NicDone \/ TimePasses
  BY <1>7, <1>8 DEF CallConfigureImix, NicDone, TimePasses, service
<1>9. CASE \E w \in Workers : WorkerStep(w)
  BY <1>7, <1>9
  DEF WorkerStep, Poll, Pick, Build, Advance, Count, EndPick, Transmit, Account, service
<1> QED BY <1>1, <1>2, <1>3, <1>4, <1>5, <1>6, <1>7, <1>8, <1>9
        DEF GenNext, ServiceStep, genVars, service

\* A handler always has the locals its code has.
LEMMA HandlerAlways == GenSpec => []HandlerInv
<1>1. GenInit => HandlerInv
  BY DEF GenInit, Idle, HandlerInv
<1> QED BY <1>1, HandlerNext, PTL DEF GenSpec

\* The generator implements the scheduler's specification: every step is one
\* operation of the scheduler, or none.
THEOREM GenImplementsScheduler == GenSpec => SchedulerSpec
<1>1. GenInit => SchedulerInit
  BY DEF GenInit
<1>2. HandlerInv /\ [GenNext]_genVars => [SchedulerNext]_schedulerVars
  <2> SUFFICES ASSUME HandlerInv, [GenNext]_genVars PROVE [SchedulerNext]_schedulerVars
    OBVIOUS
  <2>1. CASE ConfigureOne
    <3>1. svc.batch \in Seq(Configs) /\ svc.batch # << >>
      BY <2>1 DEF ConfigureOne, HandlerInv
    <3>2. Head(svc.batch) \in Configs
      BY <3>1
    <3> QED BY <2>1, <3>2 DEF ConfigureOne, SchedulerNext
  <2>2. CASE StartOne
    BY <2>2 DEF StartOne, StartFlow, Present, SchedulerNext
  <2>3. CASE StopOne
    BY <2>3 DEF StopOne, StopFlow, Present, SchedulerNext
  <2>4. CASE \E w \in Workers : Poll(w)
    BY <2>4, WorkerAssumption DEF Poll, SchedulerNext
  <2>5. CASE TimePasses
    BY <2>5 DEF TimePasses, SchedulerNext
  <2>6. CASE \E w \in Workers : WorkerStep(w) /\ ~Poll(w)
    BY <2>6 DEF WorkerStep, Pick, Build, Advance, Count, EndPick, Transmit, Account
  <2>7. CASE \/ EndConfigure \/ ResetCore \/ Snapshot \/ EndStart \/ BeginStop \/ EndStop
             \/ NicDone
    BY <2>7 DEF EndConfigure, ResetCore, Snapshot, EndStart, BeginStop, EndStop, NicDone
  <2>8. CASE \/ \E batch \in Batches : CallConfigureFlows(batch)
             \/ \E entries \in Profiles : CallConfigureImix(entries)
             \/ \E reset \in BOOLEAN : CallStartTraffic(reset)
             \/ CallStopTraffic
    BY <2>8 DEF CallConfigureFlows, CallConfigureImix, CallStartTraffic, CallStopTraffic, Request
  <2>9. CASE UNCHANGED genVars
    BY <2>9 DEF genVars
  <2> QED BY <2>1, <2>2, <2>3, <2>4, <2>5, <2>6, <2>7, <2>8, <2>9 DEF GenNext, ServiceStep
<1> QED BY <1>1, <1>2, HandlerAlways, PTL DEF GenSpec, SchedulerSpec

\* So each flow keeps its rate and its budget while any number of workers poll,
\* send, and clients reconfigure, start and stop.
THEOREM GenRateControl == GenSpec => [](FlowRateBound /\ PacketBudget)
BY GenImplementsScheduler, FlowRateControl, BudgetKept, PTL

-----------------------------------------------------------------------------
(* Stopping. *)

\* The inductive invariant of stopping: while traffic is stopped no flow is
\* active, a stop under way has every flow left to stop on its list, a worker
\* with a packet under construction has built none since, and one between two
\* polls, until it sends its burst, has sent none.
StopInv ==
  /\ HandlerInv
  /\ running \in BOOLEAN
  /\ pc \in [Workers -> {"poll", "pick", "transmit", "account"} \cup Building]
  /\ late \in [Workers -> {0, 1}] /\ out = [w \in Workers |-> out[w]]
  /\ svc.op = "stop" => \A id \in Present : flows[id].active => id \in svc.ids
  /\ Quiet => \A id \in Present : ~flows[id].active
  /\ running => \A w \in Workers : late[w] = 0 /\ out[w] = 0
  /\ Quiet => \A w \in Workers : /\ pc[w] \in Building => late[w] = 0
                                 /\ pc[w] \notin {"poll", "account"} => out[w] = 0

\* What a poll and the end of a flow leave inactive stays so.
LEMMA PollActivatesNone ==
  ASSUME NEW max, GetReadyFlows(max), NEW id \in Present', flows'[id].active
  PROVE  id \in Present /\ flows[id].active
<1>1. id \in FlowIds /\ flows'[id] # NoFlow
  BY DEF Present
<1>2. flows'[id] = IF id \in Visited(max) \cap Present THEN Polled(id) ELSE flows[id]
  BY <1>1 DEF GetReadyFlows
<1>3. CASE id \in Visited(max) \cap Present
  BY <1>2, <1>3 DEF Polled, Running
<1>4. CASE id \notin Visited(max) \cap Present
  BY <1>1, <1>2, <1>4 DEF Present
<1> QED BY <1>3, <1>4

\* Handlers.
LEMMA ServiceStops ==
  ASSUME StopInv, SchedulerTypeOK, ServiceStep
  PROVE  StopInv'
<1>0. HandlerInv' /\ flows \in [FlowIds -> Flows \cup {NoFlow}]
  BY HandlerNext DEF StopInv, GenNext, SchedulerTypeOK
<1>1. CASE ConfigureOne
  <2>1. /\ UNCHANGED <<running, pc, late, out>>
        /\ svc.op = "configure" /\ svc'.op = "configure"
    BY <1>1 DEF ConfigureOne, StopInv, HandlerInv
  <2>2. \A id \in Present' : flows'[id].active => id \in Present /\ flows[id].active
    BY <1>0, <1>1 DEF ConfigureOne, AddFlow, NewFlow, Present, schedulerVars
  <2> QED BY <1>0, <2>1, <2>2 DEF StopInv, Quiet
<1>2. CASE EndConfigure \/ ResetCore \/ Snapshot
  <2>1. UNCHANGED <<flows, running, pc, late, out>> /\ svc.op # "start" /\ svc'.op # "stop"
    <3>1. CASE EndConfigure \/ Snapshot
      BY <3>1 DEF EndConfigure, Snapshot, Idle, schedulerVars, local, counts
    <3>2. CASE ResetCore
      BY <3>2 DEF ResetCore, schedulerVars, local, StopInv, HandlerInv
    <3> QED BY <1>2, <3>1, <3>2
  <2> QED BY <1>0, <2>1 DEF StopInv, Quiet, Present
<1>3. CASE StartOne
  <2>1. UNCHANGED <<running, pc, late, out>> /\ svc'.op = "start"
    BY <1>3 DEF StartOne, local, counts, StopInv, HandlerInv
  <2> QED BY <1>0, <2>1 DEF StopInv, Quiet
<1>4. CASE EndStart
  BY <1>0, <1>4 DEF EndStart, Idle, local, StopInv, Quiet
<1>5. CASE BeginStop
  <2>1. /\ UNCHANGED <<flows, running, pc, late, out>> /\ svc.op = "stopping" /\ svc'.op = "stop"
        /\ svc'.ids = {id \in Present : flows[id].active}
    BY <1>5 DEF BeginStop, schedulerVars, local, counts
  <2> QED BY <1>0, <2>1 DEF StopInv, Quiet, Present
<1>6. CASE StopOne
  <2>1. PICK id \in svc.ids : StopFlow(id) /\ svc' = [svc EXCEPT !.ids = @ \ {id}]
    BY <1>6 DEF StopOne
  <2>2. /\ UNCHANGED <<running, pc, late, out>>
        /\ svc.op = "stop" /\ svc'.op = "stop" /\ svc'.ids = svc.ids \ {id}
    BY <1>6, <2>1 DEF StopOne, local, counts, StopInv, HandlerInv
  <2>3. \A i \in Present' : flows'[i].active => i \in Present /\ flows[i].active /\ i # id
    BY <1>0, <2>1 DEF StopFlow, Present, Flows
  <2> QED BY <1>0, <2>2, <2>3 DEF StopInv, Quiet
<1>7. CASE EndStop
  <2>1. /\ UNCHANGED <<flows, pc, late, out>> /\ svc.op = "stop" /\ svc.ids = {}
        /\ running' = FALSE /\ svc'.op = "idle"
    BY <1>7 DEF EndStop, Idle, schedulerVars, local, counts
  <2>2. \A id \in Present' : ~flows'[id].active
    BY <2>1 DEF StopInv, Present
  <2>3. \A w \in Workers : /\ pc[w] \in Building => late[w] = 0
                           /\ pc[w] \notin {"poll", "account"} => out[w] = 0
    BY <2>1 DEF StopInv, Quiet
  <2> QED BY <1>0, <2>1, <2>2, <2>3 DEF StopInv, Quiet
<1> QED BY <1>1, <1>2, <1>3, <1>4, <1>5, <1>6, <1>7 DEF ServiceStep

\* Workers.
LEMMA WorkerStops ==
  ASSUME StopInv, SchedulerTypeOK, NEW w \in Workers, WorkerStep(w)
  PROVE  StopInv'
<1>0. HandlerInv'
  BY HandlerNext DEF StopInv, GenNext
<1>1. UNCHANGED <<svc, running>>
  BY DEF WorkerStep, Poll, Pick, Build, Advance, Count, EndPick, Transmit, Account, service
<1>2. CASE Poll(w)
  <2>1. \A id \in Present' : flows'[id].active => id \in Present /\ flows[id].active
    BY <1>2, PollActivatesNone DEF Poll
  <2>2. /\ UNCHANGED <<late, out>>
        /\ \/ pc' = [pc EXCEPT ![w] = "poll"]
           \/ pc' = [pc EXCEPT ![w] = "pick"] /\ ReadyFlows(TxBurst) # << >>
    BY <1>2 DEF Poll, Goto, counts
  <2>3. Quiet => ReadyFlows(TxBurst) = << >>
    BY NoneReady, WorkerAssumption DEF StopInv, SchedulerTypeOK
  <2> QED BY <1>0, <1>1, <2>1, <2>2, <2>3 DEF StopInv, Quiet, Building
<1>3. CASE Pick(w)
  <2>1. UNCHANGED <<flows, late, out>> /\ pc[w] = "pick"
    BY <1>3 DEF Pick, schedulerVars, counts
  <2>2. \/ pc' = pc
        \/ pc' = [pc EXCEPT ![w] = "build"] /\ \E id \in Present : flows[id].active
    BY <1>3 DEF Pick, Take, Goto
  <2> QED BY <1>0, <1>1, <2>1, <2>2 DEF StopInv, Quiet, Building, Present
<1>4. CASE Build(w) \/ Advance(w)
  <2>1. UNCHANGED <<flows, late, out>> /\ pc[w] \in Building
    BY <1>4 DEF Build, Advance, schedulerVars, Building
  <2>2. \E place \in Building \cup {"pick"} : pc' = [pc EXCEPT ![w] = place]
    BY <1>4 DEF Build, Advance, Release, Goto, Building
  <2>3. \A v \in Workers : /\ pc'[v] \in Building => pc[v] \in Building
                           /\ pc'[v] \notin {"poll", "account"} => pc[v] \notin {"poll", "account"}
    BY <2>1, <2>2 DEF StopInv, Building
  <2>4. pc' \in [Workers -> {"poll", "pick", "transmit", "account"} \cup Building]
    BY <2>2 DEF StopInv
  <2>5. Quiet => \A v \in Workers : /\ pc'[v] \in Building => late[v] = 0
                                    /\ pc'[v] \notin {"poll", "account"} => out[v] = 0
    BY <2>3, Zenon DEF StopInv
  <2> QED BY <1>0, <1>1, <2>1, <2>4, <2>5 DEF StopInv, Quiet, Present
<1>5. CASE Count(w)
  <2>1. /\ UNCHANGED <<flows, out>>
        /\ pc[w] = "count" /\ pc' = [pc EXCEPT ![w] = "pick"]
        /\ late' = IF Quiet THEN [late EXCEPT ![w] = @ + 1] ELSE late
    BY <1>5 DEF Count, Release, Goto, schedulerVars
  <2>2. late' \in [Workers -> {0, 1}]
    <3>1. CASE Quiet
      <4>1. late[w] = 0
        <5>1. pc[w] \in Building
          BY <2>1 DEF Building
        <5> QED BY <3>1, <5>1, Zenon DEF StopInv
      <4> QED BY <2>1, <3>1, <4>1 DEF StopInv
    <3>2. CASE ~Quiet
      BY <2>1, <3>2 DEF StopInv
    <3> QED BY <3>1, <3>2
  <2>3. running => late' = late
    BY <2>1 DEF Quiet
  <2>4. \A v \in Workers : pc'[v] \in Building => late'[v] = late[v] /\ pc[v] \in Building
    BY <2>1 DEF StopInv, Building
  <2>5. \A v \in Workers : pc'[v] \notin {"poll", "account"} => pc[v] \notin {"poll", "account"}
    BY <2>1 DEF StopInv
  <2> QED BY <1>0, <1>1, <2>1, <2>2, <2>3, <2>4, <2>5 DEF StopInv, Quiet, Building, Present
<1>6. CASE EndPick(w) \/ Account(w)
  <2>1. UNCHANGED <<flows, late, out>>
    BY <1>6 DEF EndPick, Account, schedulerVars, counts
  <2>2. \/ pc' = [pc EXCEPT ![w] = "poll"]
        \/ pc[w] = "pick" /\ pc' = [pc EXCEPT ![w] = "transmit"]
    BY <1>6 DEF EndPick, Account, Goto
  <2> QED BY <1>0, <1>1, <2>1, <2>2 DEF StopInv, Quiet, Building, Present
<1>7. CASE Transmit(w)
  <2>1. /\ UNCHANGED <<flows, late>> /\ pc' = [pc EXCEPT ![w] = "account"]
        /\ \E n : out' = IF Quiet THEN [out EXCEPT ![w] = @ + n] ELSE out
    BY <1>7 DEF Transmit, schedulerVars, Goto
  <2>2. out' = [v \in Workers |-> out'[v]] /\ \A v \in Workers \ {w} : out'[v] = out[v]
    BY <2>1 DEF StopInv
  <2>3. running => out' = out
    BY <2>1 DEF Quiet
  <2> QED BY <1>0, <1>1, <2>1, <2>2, <2>3 DEF StopInv, Quiet, Building, Present
<1> QED BY <1>2, <1>3, <1>4, <1>5, <1>6, <1>7 DEF WorkerStep

\* Every step keeps what StopTraffic relies on.
LEMMA StopNext == StopInv /\ SchedulerTypeOK /\ [GenNext]_genVars => StopInv'
<1> SUFFICES ASSUME StopInv, SchedulerTypeOK, [GenNext]_genVars PROVE StopInv'
  OBVIOUS
<1>0. HandlerInv'
  BY HandlerNext DEF StopInv
<1>1. CASE \/ \E batch \in Batches : CallConfigureFlows(batch)
           \/ \E reset \in BOOLEAN : CallStartTraffic(reset)
           \/ CallStopTraffic
  <2>1. /\ UNCHANGED <<flows, running, pc, late, out>>
        /\ svc.op # "start" /\ svc'.op \notin {"start", "stop"}
    BY <1>1 DEF CallConfigureFlows, CallStartTraffic, CallStopTraffic, Request, Idle, schedulerVars,
                local, counts
  <2> QED BY <1>0, <2>1 DEF StopInv, Quiet, Present
<1>2. CASE \/ \E entries \in Profiles : CallConfigureImix(entries)
           \/ NicDone \/ TimePasses \/ UNCHANGED genVars
  <2>1. UNCHANGED <<flows, svc, running, pc, late, out>>
    BY <1>2 DEF CallConfigureImix, NicDone, TimePasses, Tick, genVars, schedulerVars, local, counts,
                service
  <2> QED BY <1>0, <2>1 DEF StopInv, Quiet, Present
<1> QED BY <1>1, <1>2, ServiceStops, WorkerStops DEF GenNext

\* What StopTraffic relies on holds at all times.
LEMMA StopAlways == GenSpec => []StopInv
<1>1. GenInit => StopInv
  <2> SUFFICES ASSUME GenInit PROVE StopInv
    OBVIOUS
  <2>1. Present = {}
    BY DEF GenInit, SchedulerInit, Present
  <2> QED BY <2>1 DEF GenInit, Idle, HandlerInv, StopInv, Quiet, Building
<1> QED BY <1>1, StopNext, GenImplementsScheduler, SchedulerTypeCorrect, PTL DEF GenSpec

\* When StopTraffic has returned no flow is active.
THEOREM GenQuietWhenStopped == GenSpec => []QuietWhenStopped
<1>1. StopInv => QuietWhenStopped
  BY DEF StopInv, QuietWhenStopped, Stopped, Quiet, Idle
<1> QED BY <1>1, StopAlways, PTL

\* And each worker builds at most the one packet whose flow it had found active.
THEOREM GenAtMostOneLate == GenSpec => []AtMostOneLate
<1>1. StopInv => AtMostOneLate
  BY DEF StopInv, AtMostOneLate
<1> QED BY <1>1, StopAlways, PTL

-----------------------------------------------------------------------------
(* Packets. *)

\* The fields that a packet has.
PacketFields ==
  {"proto", "size", "data", "ipTotal", "udpTotal", "ipId", "seq", "ipSum", "l4Sum"}

IsPacket(p) == p = [field \in PacketFields |-> p[field]]

\* The lengths of a packet of less than 64 KB.
LengthsOf(p) ==
  /\ p.data = p.size
  /\ p.ipTotal = p.size - EthernetLength
  /\ p.proto = "udp" => p.udpTotal = p.ipTotal - IpLength

\* A packet with everything right except, perhaps, the checksum of its payload.
LengthsRight(p) ==
  /\ IsPacket(p)
  /\ p.proto \in Protocols /\ p.size \in Nat /\ p.size >= HeaderLength(p.proto)
  /\ p.size < Lengths => LengthsOf(p)
  /\ p.ipSum = IpSum(p)

\* What PacketsWellFormed asks of a packet.
PacketRight(p) == p.proto \in {"tcp", "udp"} /\ p.size < Lengths => WellFormed(p)

\* Lengths after clone_and_mutate set them for a size (packet_mutator.cpp:29-74).
LEMMA ResizedPacket ==
  ASSUME NEW p, IsPacket(p), NEW size \in Nat
  PROVE  /\ IsPacket(Resized(p, size))
         /\ Resized(p, size).proto = p.proto /\ Resized(p, size).size = size
         /\ size >= HeaderLength(p.proto) /\ size < Lengths => LengthsOf(Resized(p, size))
<1> DEFINE data == size % Lengths
           ip == (size - EthernetLength) % Lengths
           udp == IF p.proto = "udp" THEN (size - EthernetLength - IpLength) % Lengths ELSE 0
<1>1. Resized(p, size) = [p EXCEPT !.size = size, !.data = data, !.ipTotal = ip, !.udpTotal = udp]
  BY DEF Resized
<1>2. size >= HeaderLength(p.proto) /\ size < Lengths =>
        /\ data = size /\ ip = size - EthernetLength
        /\ p.proto = "udp" => udp = ip - IpLength
  BY DEF HeaderLength, EthernetLength, IpLength, Lengths
<1> HIDE DEF data, ip, udp
<1> DEFINE r == Resized(p, size)
<1>3. /\ DOMAIN r = PacketFields /\ r = [field \in DOMAIN p |-> r[field]] /\ r.proto = p.proto
      /\ r.size = size /\ r.data = data /\ r.ipTotal = ip /\ r.udpTotal = udp
  BY <1>1 DEF IsPacket, PacketFields
<1> HIDE DEF r
<1> QED BY <1>2, <1>3 DEF IsPacket, LengthsOf, r

\* Checksums after clone_and_mutate wrote them (packet_mutator.cpp:76-88).
LEMMA SummedPacket ==
  ASSUME NEW p, IsPacket(p)
  PROVE  /\ IsPacket(Summed(p))
         /\ \A field \in PacketFields \ {"ipSum", "l4Sum"} : Summed(p)[field] = p[field]
         /\ Summed(p).ipSum = IpSum(Summed(p))
         /\ p.proto # "icmp" => Summed(p).l4Sum = L4Sum(Summed(p))
BY DEF IsPacket, PacketFields, Summed, L4Summed, L4Sum, IpSum

\* clone_and_mutate (packet_mutator.cpp:26-92).
LEMMA MutatedPacket ==
  ASSUME NEW t, IsPacket(t), t.proto \in Protocols,
         NEW size \in Nat, size >= HeaderLength(t.proto)
  PROVE  LengthsRight(Mutated(t, size)) /\ PacketRight(Mutated(t, size))
<1> DEFINE r == Resized(t, size)
           m == [r EXCEPT !.ipId = Drawn, !.seq = IF t.proto = "tcp" THEN Drawn ELSE @]
<1>1. /\ IsPacket(r) /\ r.proto = t.proto /\ r.size = size
      /\ size < Lengths => LengthsOf(r)
  BY ResizedPacket
<1>2. Mutated(t, size) = Summed(m)
  BY DEF Mutated
<1> HIDE DEF r
<1>3. /\ IsPacket(m) /\ m.proto = r.proto /\ m.size = r.size /\ m.data = r.data
      /\ m.ipTotal = r.ipTotal /\ m.udpTotal = r.udpTotal
  BY <1>1 DEF IsPacket, PacketFields
<1> HIDE DEF m
<1>4. /\ IsPacket(Summed(m)) /\ Summed(m).proto = m.proto /\ Summed(m).size = m.size
      /\ Summed(m).data = m.data
      /\ Summed(m).ipTotal = m.ipTotal /\ Summed(m).udpTotal = m.udpTotal
      /\ Summed(m).ipSum = IpSum(Summed(m))
      /\ m.proto # "icmp" => Summed(m).l4Sum = L4Sum(Summed(m))
  BY <1>3, SummedPacket DEF PacketFields
<1>5. size < Lengths => LengthsOf(Summed(m))
  BY <1>1, <1>3, <1>4 DEF LengthsOf
<1>6. LengthsRight(Summed(m)) /\ Summed(m).size = size
  BY <1>1, <1>3, <1>4, <1>5 DEF LengthsRight
<1>7. PacketRight(Summed(m))
  BY <1>1, <1>3, <1>4, <1>5, <1>6 DEF LengthsRight, LengthsOf, PacketRight, WellFormed
<1> QED BY <1>2, <1>6, <1>7

\* What build_template returns is a packet of its protocol.
LEMMA TemplatePacket ==
  ASSUME NEW proto \in Protocols, NEW size \in Nat
  PROVE  IsPacket(Template(proto, size)) /\ Template(proto, size).proto = proto
<1> DEFINE p == [proto |-> proto, size |-> 0, data |-> 0, ipTotal |-> 0, udpTotal |-> 0,
                 ipId |-> 0, seq |-> 0, ipSum |-> << >>, l4Sum |-> << >>]
<1>1. IsPacket(p) /\ p.proto = proto
  BY DEF IsPacket, PacketFields
<1>2. Template(proto, size) = Summed(Resized(p, size))
  BY DEF Template
<1> HIDE DEF p
<1>3. IsPacket(Resized(p, size)) /\ Resized(p, size).proto = proto
  BY <1>1, ResizedPacket
<1> QED BY <1>2, <1>3, SummedPacket DEF PacketFields

\* The number of the connection spoils one checksum at most, and Advance puts
\* that right.
LEMMA StampedPacket ==
  ASSUME NEW p, LengthsRight(p), NEW n
  PROVE  /\ LengthsRight([p EXCEPT !.seq = n])
         /\ [p EXCEPT !.seq = n].proto = p.proto
BY DEF LengthsRight, LengthsOf, IsPacket, PacketFields, IpSum

\* The worker's second checksum makes a segment with right lengths right.
LEMMA SummedAgain ==
  ASSUME NEW p, LengthsRight(p)
  PROVE  PacketRight(L4Summed(p))
BY DEF LengthsRight, LengthsOf, PacketRight, WellFormed, IsPacket, PacketFields, IpSum, L4Summed,
       L4Sum

Sized(size, proto) ==
  proto \in Protocols /\ size \in Nat /\ (size = 0 \/ size >= HeaderLength(proto))

\* A flow's size, if it has one, has room for its headers.
FlowSized(f) == Sized(f.size, f.key[3]) /\ (f.conn # NoConn => f.key[3] = "tcp")

ProfileInv == \A i \in DOMAIN profile : profile[i].size \in 64 .. 9000

\* What a worker holds while it makes a packet.
HeldRight(h, place) ==
  /\ h = [id |-> h.id, size |-> h.size, proto |-> h.proto, stateful |-> h.stateful,
          packet |-> h.packet]
  /\ Sized(h.size, h.proto)
  /\ place = "advance" => LengthsRight(h.packet)
  /\ place = "count" => PacketRight(h.packet)

\* The inductive invariant of packets.
PacketInv ==
  /\ ProfileInv
  /\ \A id \in Present : FlowSized(flows[id])
  /\ held = [w \in Workers |-> held[w]]
  /\ \A w \in Workers : pc[w] \in Building => HeldRight(held[w], pc[w])

\* The sizes a worker draws have room for the headers (imix_engine.cpp).
LEMMA SizesRight ==
  ASSUME PacketInv, NEW w \in Workers, Sized(held[w].size, held[w].proto), NEW size \in Sizes(w)
  PROVE  size \in Nat /\ size >= HeaderLength(held[w].proto)
<1>1. CASE held[w].size # 0
  BY <1>1 DEF Sizes, Sized
<1>2. CASE held[w].size = 0
  <2>1. \A n \in NextSizes : n \in 64 .. 9000
    <3>1. \A n \in NextSizes : n = 64 \/ \E i \in DOMAIN profile : n = profile[i].size
      BY Zenon DEF NextSizes
    <3> QED BY <3>1 DEF PacketInv, ProfileInv
  <2>2. size \in 64 .. 9000
    BY <1>2, <2>1 DEF Sizes
  <2> QED BY <2>2 DEF HeaderLength, EthernetLength, IpLength
<1> QED BY <1>1, <1>2

\* What a worker builds has the right lengths, and its checksums if it is not
\* about to get a sequence number.
LEMMA BuiltRight ==
  ASSUME PacketInv, NEW w \in Workers, Sized(held[w].size, held[w].proto), NEW size \in Sizes(w)
  PROVE  /\ LengthsRight(BuiltPacket(w, size))
         /\ ~held[w].stateful => PacketRight(BuiltPacket(w, size))
<1> DEFINE t == Template(held[w].proto, TemplateSize(held[w].size))
           m == Mutated(t, size)
<1>1. size \in Nat /\ size >= HeaderLength(held[w].proto)
  BY SizesRight
<1>2. IsPacket(t) /\ t.proto = held[w].proto /\ held[w].proto \in Protocols
  <2>1. TemplateSize(held[w].size) \in Nat /\ held[w].proto \in Protocols
    BY DEF Sized, TemplateSize
  <2> QED BY <2>1, TemplatePacket
<1>3. LengthsRight(m) /\ PacketRight(m)
  <2> HIDE DEF t
  <2> QED BY <1>1, <1>2, MutatedPacket
<1>4. BuiltPacket(w, size) = IF held[w].stateful THEN [m EXCEPT !.seq = 2 + seq[held[w].id]] ELSE m
  BY DEF BuiltPacket
<1> HIDE DEF m
<1> QED BY <1>3, <1>4, StampedPacket

\* The scheduler's flows keep their sizes; new ones were built with theirs.
LEMMA FlowsSized ==
  ASSUME \A id \in Present : FlowSized(flows[id]), SchedulerTypeOK, HandlerInv,
         [GenNext]_genVars
  PROVE  \A id \in Present' : FlowSized(flows'[id])
<1>0. flows \in [FlowIds -> Flows \cup {NoFlow}]
  BY DEF SchedulerTypeOK
<1>1. CASE UNCHANGED flows
  BY <1>1 DEF Present
<1>2. CASE \E c \in Configs : AddFlow(c)
  <2>1. PICK c \in Configs : AddFlow(c)
    BY <1>2
  <2>2. FlowSized(NewFlow(c))
    <3>1. /\ c.proto \in Protocols /\ c.key[3] = c.proto /\ c.size \in Nat
          /\ c.size = 0 \/ c.size >= HeaderLength(c.proto)
      BY <2>1, ConfigAssumption DEF AddFlow, TemplateBuilds, TemplateSize
    <3> QED BY <3>1 DEF NewFlow, FlowSized, Sized
  <2>3. c.id \in FlowIds /\ flows' = [flows EXCEPT ![c.id] = NewFlow(c)]
    BY <2>1, ConfigAssumption DEF AddFlow
  <2>4. \A id \in FlowIds : flows'[id] = NewFlow(c) \/ flows'[id] = flows[id]
    BY <1>0, <2>3
  <2> QED BY <2>2, <2>4 DEF Present
<1>3. CASE \/ \E id \in FlowIds : StartFlow(id) \/ StopFlow(id)
           \/ \E max : GetReadyFlows(max)
  <2>1. \A id \in Present' :
          /\ id \in Present
          /\ UNCHANGED <<flows[id].size, flows[id].key, flows[id].conn>>
    <3>1. CASE \E id \in FlowIds : StartFlow(id) \/ StopFlow(id)
      BY <1>0, <3>1 DEF StartFlow, StopFlow, Present, Flows
    <3>2. CASE \E max : GetReadyFlows(max)
      BY <1>0, <3>2 DEF GetReadyFlows, Polled, Present, Flows
    <3> QED BY <1>3, <3>1, <3>2
  <2> QED BY <2>1 DEF FlowSized
<1>4. CASE ConfigureOne
  <2>1. svc.batch \in Seq(Configs) /\ svc.batch # << >>
    BY <1>4 DEF ConfigureOne, HandlerInv
  <2>2. Head(svc.batch) \in Configs
    BY <2>1
  <2> QED BY <1>1, <1>2, <1>4, <2>2 DEF ConfigureOne, schedulerVars
<1>5. CASE StartOne \/ StopOne
  BY <1>3, <1>5 DEF StartOne, StopOne, StartFlow, StopFlow, Present
<1>6. CASE \E w \in Workers : Poll(w)
  BY <1>3, <1>6 DEF Poll
<1>7. CASE \E w \in Workers : WorkerStep(w) /\ ~Poll(w)
  BY <1>1, <1>7
  DEF WorkerStep, Pick, Build, Advance, Count, EndPick, Transmit, Account, schedulerVars
<1>8. CASE \/ EndConfigure \/ ResetCore \/ Snapshot \/ EndStart \/ BeginStop \/ EndStop
           \/ NicDone \/ TimePasses
  BY <1>1, <1>8
  DEF EndConfigure, ResetCore, Snapshot, EndStart, BeginStop, EndStop, NicDone, TimePasses, Tick,
      schedulerVars
<1>9. CASE \/ \E batch \in Batches : CallConfigureFlows(batch)
           \/ \E entries \in Profiles : CallConfigureImix(entries)
           \/ \E reset \in BOOLEAN : CallStartTraffic(reset)
           \/ CallStopTraffic \/ UNCHANGED genVars
  BY <1>1, <1>9
  DEF CallConfigureFlows, CallConfigureImix, CallStartTraffic, CallStopTraffic, Request, genVars,
      schedulerVars
<1> QED BY <1>4, <1>5, <1>6, <1>7, <1>8, <1>9 DEF GenNext, ServiceStep

\* Every step leaves an IMIX profile whose sizes have room for any headers.
LEMMA ProfileRight == ProfileInv /\ [GenNext]_genVars => ProfileInv'
<1> SUFFICES ASSUME ProfileInv, [GenNext]_genVars PROVE ProfileInv'
  OBVIOUS
<1>1. CASE UNCHANGED profile
  BY <1>1 DEF ProfileInv
<1>2. CASE \E entries \in Profiles : CallConfigureImix(entries)
  <2>1. PICK entries \in Profiles : ConfigureProfile(entries, Protocols)
    BY <1>2 DEF CallConfigureImix
  <2>2. (profile' = entries /\ ValidProfile(entries, Protocols)) \/ UNCHANGED profile
    BY <2>1 DEF ConfigureProfile
  <2>3. CASE profile' = entries /\ ValidProfile(entries, Protocols)
    <3>1. \A i \in DOMAIN entries : ValidEntry(entries[i], Protocols)
      BY <2>3, Zenon DEF ValidProfile
    <3>2. \A i \in DOMAIN profile' : profile'[i].size \in 64 .. 9000
      BY <2>3, <3>1 DEF ValidEntry
    <3> QED BY <3>2 DEF ProfileInv
  <2> QED BY <1>1, <2>2, <2>3
<1>3. CASE \E w \in Workers : WorkerStep(w)
  BY <1>1, <1>3
  DEF WorkerStep, Poll, Pick, Build, Advance, Count, EndPick, Transmit, Account, service
<1>4. CASE ServiceStep
  BY <1>1, <1>4
  DEF ServiceStep, ConfigureOne, EndConfigure, ResetCore, Snapshot, StartOne, EndStart, BeginStop,
      StopOne, EndStop
<1>5. CASE \/ \E batch \in Batches : CallConfigureFlows(batch)
           \/ \E reset \in BOOLEAN : CallStartTraffic(reset)
           \/ CallStopTraffic \/ NicDone \/ TimePasses \/ UNCHANGED genVars
  BY <1>1, <1>5
  DEF CallConfigureFlows, CallStartTraffic, CallStopTraffic, Request, NicDone, TimePasses, genVars,
      service
<1> QED BY <1>2, <1>3, <1>4, <1>5 DEF GenNext

\* One step of a worker, and the packet it holds after it.
LEMMA WorkerBuildsRight ==
  ASSUME PacketInv, StopInv, NEW w \in Workers, WorkerStep(w)
  PROVE  /\ held' = [v \in Workers |-> held'[v]]
         /\ \A v \in Workers : pc'[v] \in Building => HeldRight(held'[v], pc'[v])
<1>0. /\ held = [v \in Workers |-> held[v]]
      /\ pc \in [Workers -> {"poll", "pick", "transmit", "account"} \cup Building]
      /\ \A v \in Workers : pc[v] \in Building => HeldRight(held[v], pc[v])
  BY DEF PacketInv, StopInv
<1>1. ASSUME NEW place, pc' = [pc EXCEPT ![w] = place], place \notin Building,
             held' = held \/ held' = [held EXCEPT ![w] = NoFlow]
      PROVE  /\ held' = [v \in Workers |-> held'[v]]
             /\ \A v \in Workers : pc'[v] \in Building => HeldRight(held'[v], pc'[v])
  BY <1>0, <1>1
<1>2. ASSUME NEW place, pc' = [pc EXCEPT ![w] = place], NEW h, HeldRight(h, place),
             held' = [held EXCEPT ![w] = h]
      PROVE  /\ held' = [v \in Workers |-> held'[v]]
             /\ \A v \in Workers : pc'[v] \in Building => HeldRight(held'[v], pc'[v])
  BY <1>0, <1>2
<1>3. CASE Poll(w) \/ EndPick(w) \/ Transmit(w) \/ Account(w)
  BY <1>1, <1>3 DEF Poll, EndPick, Transmit, Account, Goto, Building
<1>4. CASE Pick(w)
  <2>1. CASE UNCHANGED <<pc, held>>
    BY <1>0, <2>1
  <2>2. CASE ~UNCHANGED <<pc, held>>
    <3>1. PICK id \in Present : /\ held' = [held EXCEPT ![w] = Picked(id)]
                                /\ pc' = [pc EXCEPT ![w] = "build"]
      BY <1>4, <2>2 DEF Pick, Take, Goto
    <3>2. HeldRight(Picked(id), "build")
      BY DEF Picked, HeldRight, PacketInv, FlowSized
    <3> QED BY <1>2, <3>1, <3>2
  <2> QED BY <2>1, <2>2
<1>5. CASE Build(w)
  <2>1. pc[w] = "build" /\ HeldRight(held[w], "build")
    BY <1>0, <1>5 DEF Build, Building
  <2>2. PICK size \in Sizes(w) :
          \/ pc' = [pc EXCEPT ![w] = "pick"] /\ held' = [held EXCEPT ![w] = NoFlow]
          \/ /\ held' = [held EXCEPT ![w].packet = BuiltPacket(w, size)]
             /\ pc' = [pc EXCEPT ![w] = IF held[w].stateful THEN "advance" ELSE "count"]
    BY <1>5 DEF Build, Release, Goto
  <2>3. CASE pc' = [pc EXCEPT ![w] = "pick"] /\ held' = [held EXCEPT ![w] = NoFlow]
    BY <1>1, <2>3 DEF Building
  <2>4. CASE /\ held' = [held EXCEPT ![w].packet = BuiltPacket(w, size)]
             /\ pc' = [pc EXCEPT ![w] = IF held[w].stateful THEN "advance" ELSE "count"]
    <3> DEFINE p == BuiltPacket(w, size)
               place == IF held[w].stateful THEN "advance" ELSE "count"
               h == [held[w] EXCEPT !.packet = p]
    <3>1. LengthsRight(p) /\ (~held[w].stateful => PacketRight(p))
      BY <2>1, BuiltRight DEF HeldRight
    <3>2. place \in {"advance", "count"} /\ (place = "count" => ~held[w].stateful)
      OBVIOUS
    <3>3. held' = [held EXCEPT ![w] = h] /\ pc' = [pc EXCEPT ![w] = place]
      BY <1>0, <2>4
    <3>4. HeldRight(h, place)
      <4> HIDE DEF p, place
      <4> QED BY <2>1, <3>1, <3>2 DEF HeldRight
    <3> QED BY <1>2, <3>3, <3>4
  <2> QED BY <2>2, <2>3, <2>4
<1>6. CASE Advance(w)
  <2> DEFINE p == L4Summed(held[w].packet)
             h == [held[w] EXCEPT !.packet = p]
  <2>1. HeldRight(held[w], "advance")
    BY <1>0, <1>6 DEF Advance, Building
  <2>2. PacketRight(p)
    BY <2>1, SummedAgain DEF HeldRight
  <2>3. held' = [held EXCEPT ![w] = h] /\ pc' = [pc EXCEPT ![w] = "count"]
    BY <1>0, <1>6 DEF Advance, Goto
  <2>4. HeldRight(h, "count")
    <3> HIDE DEF p
    <3> QED BY <2>1, <2>2 DEF HeldRight
  <2> QED BY <1>2, <2>3, <2>4
<1>7. CASE Count(w)
  BY <1>1, <1>7 DEF Count, Release, Goto, Building
<1> QED BY <1>3, <1>4, <1>5, <1>6, <1>7 DEF WorkerStep

\* Every step keeps the invariant of the packets.
LEMMA PacketNext ==
  PacketInv /\ StopInv /\ SchedulerTypeOK /\ [GenNext]_genVars => PacketInv'
<1> SUFFICES ASSUME PacketInv, StopInv, SchedulerTypeOK, [GenNext]_genVars PROVE PacketInv'
  OBVIOUS
<1>1. ProfileInv' /\ \A id \in Present' : FlowSized(flows'[id])
  BY ProfileRight, FlowsSized DEF PacketInv, StopInv
<1>2. CASE \E w \in Workers : WorkerStep(w)
  BY <1>1, <1>2, WorkerBuildsRight DEF PacketInv
<1>3. CASE UNCHANGED <<pc, held>>
  BY <1>1, <1>3 DEF PacketInv
<1>4. CASE ServiceStep
  BY <1>3, <1>4
  DEF ServiceStep, ConfigureOne, EndConfigure, ResetCore, Snapshot, StartOne, EndStart, BeginStop,
      StopOne, EndStop, local
<1>5. CASE \/ \E batch \in Batches : CallConfigureFlows(batch)
           \/ \E entries \in Profiles : CallConfigureImix(entries)
           \/ \E reset \in BOOLEAN : CallStartTraffic(reset)
           \/ CallStopTraffic \/ NicDone \/ TimePasses \/ UNCHANGED genVars
  BY <1>3, <1>5
  DEF CallConfigureFlows, CallConfigureImix, CallStartTraffic, CallStopTraffic, Request, NicDone,
      TimePasses, genVars, local
<1> QED BY <1>2, <1>4, <1>5 DEF GenNext

\* The packets are right at all times.
LEMMA PacketAlways == GenSpec => []PacketInv
<1>1. GenInit => PacketInv
  <2> SUFFICES ASSUME GenInit PROVE PacketInv
    OBVIOUS
  <2>1. Present = {}
    BY DEF GenInit, SchedulerInit, Present
  <2> QED BY <2>1 DEF GenInit, ImixInit, PacketInv, ProfileInv, Building
<1> QED
  BY <1>1, PacketNext, StopAlways, GenImplementsScheduler, SchedulerTypeCorrect, PTL DEF GenSpec

\* Whatever profiles, flows and workers there are, a TCP or UDP packet of less
\* than 64 KB that joins a burst has the right lengths and checksums.
THEOREM GenPacketsWellFormed == GenSpec => []PacketsWellFormed
<1>1. PacketInv => PacketsWellFormed
  BY DEF PacketInv, PacketsWellFormed, PacketRight, HeldRight, Building
<1> QED BY <1>1, PacketAlways, PTL

-----------------------------------------------------------------------------
(* Mbufs and counters.  A step moves packets from one place to another, so    *)
(* the sums over the workers, the flows and the cores change at one worker,   *)
(* one flow and one core at most.                                             *)

Places == {"poll", "pick", "transmit", "account"} \cup Building

\* 1 for the packet a worker is making, 1 for an mbuf at mbufs[mbuf_count].
Making(w) == IF pc[w] \in Building THEN 1 ELSE 0
Slotted(w) == IF slot[w] THEN 1 ELSE 0

\* Does the allocation answer a success with a number other than 0, a failure with 0?
Counting == setup.bulk.ok # 0 /\ setup.bulk.failed = 0

HandsType ==
  /\ pc \in [Workers -> Places]
  /\ ready \in [Workers -> Seq(FlowIds)]
  /\ orphan \in [Workers -> BOOLEAN]
  /\ seen \in [Workers -> Nat]
  /\ burst \in [Workers -> Nat]
  /\ slot \in [Workers -> BOOLEAN] /\ out \in [Workers -> Nat]
  /\ held = [w \in Workers |-> held[w]]
  /\ seq \in [FlowIds -> Nat]

\* What a worker has in its hands at each place, and what it has still to do.
HandInv(w) ==
  /\ pc[w] = "poll" => burst[w] = 0 /\ ready[w] = << >>
  /\ pc[w] \in {"transmit", "account"} => ready[w] = << >>
  /\ Taken(w) <= burst[w]
  /\ burst[w] + Len(ready[w]) + Making(w) <= TxBurst
  /\ pc[w] \in Building => slot[w]
  /\ pc[w] \notin Building \cup {"pick"} => ~slot[w]
  /\ Counting /\ pc[w] = "pick" => ~slot[w]
  /\ IF pc[w] \in Building THEN held[w].id \in FlowIds ELSE held[w] = NoFlow

HandsInv == HandsType /\ \A w \in Workers : HandInv(w)

\* A worker's locals are its own (worker.cpp:205-314 uses its stack and members).
LEMMA OthersStay ==
  ASSUME HandsType, NEW w \in Workers, WorkerStep(w), NEW v \in Workers \ {w}
  PROVE  UNCHANGED <<pc[v], ready[v], orphan[v], seen[v], burst[v], held[v], slot[v]>>
<1>1. CASE Poll(w)
  BY <1>1 DEF Poll, Goto, HandsType
<1>2. CASE Pick(w)
  BY <1>2 DEF Pick, AllocateBurst, Take, Goto, HandsType
<1>3. CASE Build(w)
  BY <1>3 DEF Build, Release, Goto, HandsType
<1>4. CASE Advance(w)
  BY <1>4 DEF Advance, Goto, HandsType
<1>5. CASE Count(w)
  BY <1>5 DEF Count, Release, Goto, HandsType
<1>6. CASE EndPick(w)
  BY <1>6 DEF EndPick, Goto, HandsType
<1>7. CASE Transmit(w)
  BY <1>7 DEF Transmit, Goto, HandsType
<1>8. CASE Account(w)
  BY <1>8 DEF Account, Goto, HandsType
<1> QED BY <1>1, <1>2, <1>3, <1>4, <1>5, <1>6, <1>7, <1>8 DEF WorkerStep

\* What a poll returns and what the NIC takes are of the types declared.
LEMMA WorkerKeepsTypes ==
  ASSUME HandsInv, SchedulerTypeOK, NEW w \in Workers, WorkerStep(w)
  PROVE  HandsType'
<1>0. HandsType /\ HandInv(w)
  BY DEF HandsInv
<1>1. CASE Poll(w)
  <2>1. ReadyFlows(TxBurst) \in Seq(FlowIds)
    BY WorkerAssumption, ReadyFlowsBounded DEF SchedulerTypeOK
  <2> QED BY <1>0, <1>1, <2>1 DEF Poll, Goto, HandsType, Places, counts
<1>2. CASE Pick(w)
  <2>1. ready' \in [Workers -> Seq(FlowIds)]
    BY <1>0, <1>2 DEF Pick, HandsType
  <2>2. pc' \in [Workers -> Places] /\ orphan' \in [Workers -> BOOLEAN]
    BY <1>0, <1>2 DEF Pick, Take, Goto, HandsType, Places, Building
  <2>3. held' = [v \in Workers |-> held'[v]]
    BY <1>0, <1>2 DEF Pick, Take, HandsType
  <2>4. slot' \in [Workers -> BOOLEAN]
    BY <1>0, <1>2 DEF Pick, AllocateBurst, HandsType
  <2> QED BY <1>0, <1>2, <2>1, <2>2, <2>3, <2>4 DEF Pick, HandsType, counts
<1>3. CASE Build(w)
  <2>1. seq[held[w].id] \in Nat
    BY <1>0, <1>3 DEF Build, HandInv, HandsType, Building
  <2>2. pc' \in [Workers -> Places] /\ orphan' \in [Workers -> BOOLEAN]
    BY <1>0, <1>3 DEF Build, Release, Goto, HandsType, Places, Building
  <2>6. slot' \in [Workers -> BOOLEAN]
    BY <1>0, <1>3 DEF Build, Release, HandsType
  <2>3. held' = [v \in Workers |-> held'[v]]
    BY <1>0, <1>3 DEF Build, Release, HandsType
  <2>4. \E n \in {0, seen[w], seq[held[w].id]} : seen' = [seen EXCEPT ![w] = n]
    <3>1. seen = [seen EXCEPT ![w] = seen[w]]
      BY <1>0 DEF HandsType
    <3> QED BY <1>3, <3>1 DEF Build, Release
  <2>5. seen' \in [Workers -> Nat]
    BY <1>0, <2>1, <2>4 DEF HandsType
  <2> QED BY <1>0, <1>3, <2>2, <2>3, <2>5, <2>6 DEF Build, HandsType
<1>4. CASE Advance(w)
  <2>1. held[w].id \in FlowIds
    BY <1>0, <1>4 DEF Advance, HandInv, Building
  <2>2. pc' \in [Workers -> Places]
    BY <1>0, <1>4 DEF Advance, Goto, HandsType, Places, Building
  <2>3. held' = [v \in Workers |-> held'[v]]
    BY <1>0, <1>4 DEF Advance, HandsType
  <2>4. \/ UNCHANGED seq
        \/ \E n \in {seen[w], seq[held[w].id]} : seq' = [seq EXCEPT ![held[w].id] = n + 1]
    BY <1>4 DEF Advance
  <2>5. seen[w] \in Nat /\ seq[held[w].id] \in Nat
    BY <1>0, <2>1 DEF HandsType
  <2>6. seq' \in [FlowIds -> Nat]
    <3>1. CASE UNCHANGED seq
      BY <1>0, <3>1 DEF HandsType
    <3>2. CASE \E n \in {seen[w], seq[held[w].id]} : seq' = [seq EXCEPT ![held[w].id] = n + 1]
      <4>1. PICK n \in Nat : seq' = [seq EXCEPT ![held[w].id] = n + 1]
        BY <2>5, <3>2
      <4> QED BY <1>0, <2>1, <4>1 DEF HandsType
    <3> QED BY <2>4, <3>1, <3>2
  <2> QED BY <1>0, <1>4, <2>2, <2>3, <2>6 DEF Advance, HandsType
<1>5. CASE Count(w)
  <2>1. pc' \in [Workers -> Places] /\ held' = [v \in Workers |-> held'[v]]
    BY <1>0, <1>5 DEF Count, Release, Goto, HandsType, Places
  <2>2. orphan' \in [Workers -> BOOLEAN] /\ seen' \in [Workers -> Nat]
    BY <1>0, <1>5 DEF Count, Release, HandsType
  <2>3. burst' \in [Workers -> Nat] /\ slot' \in [Workers -> BOOLEAN]
    BY <1>0, <1>5 DEF Count, Release, HandsType
  <2> QED BY <1>0, <1>5, <2>1, <2>2, <2>3 DEF Count, HandsType
<1>6. CASE EndPick(w)
  BY <1>0, <1>6 DEF EndPick, Goto, HandsType, Places, counts
<1>7. CASE Transmit(w)
  <2>1. \A n \in 0 .. burst[w] : n \in Nat
    BY <1>0 DEF HandsType
  <2>2. out' \in [Workers -> Nat]
    BY <1>0, <1>7, <2>1 DEF Transmit, HandsType
  <2> QED BY <1>0, <1>7, <2>1, <2>2 DEF Transmit, Goto, HandsType, Places
<1>8. CASE Account(w)
  BY <1>0, <1>8 DEF Account, Goto, HandsType, Places
<1> QED BY <1>1, <1>2, <1>3, <1>4, <1>5, <1>6, <1>7, <1>8 DEF WorkerStep

\* One iteration of a worker's loop never holds more than a burst
\* (worker.cpp:231-314, flow_scheduler.cpp:166-169).
LEMMA WorkerKeepsHands ==
  ASSUME HandsInv, PacketInv, SchedulerTypeOK, NEW w \in Workers, WorkerStep(w)
  PROVE  HandsInv'
<1>0. /\ HandsType /\ HandInv(w) /\ pc[w] \in Places /\ burst[w] \in Nat /\ seen[w] \in Nat
      /\ ready[w] \in Seq(FlowIds) /\ Len(ready[w]) \in Nat /\ TxBurst \in Nat \ {0}
      /\ slot[w] \in BOOLEAN
  BY WorkerAssumption DEF HandsInv, HandsType
<1>1. HandsType'
  BY WorkerKeepsTypes
<1>4. Counting' = Counting
  BY SetupStays DEF GenNext, Counting
<1>2. \A v \in Workers \ {w} : HandInv(v)'
  <2> SUFFICES ASSUME NEW v \in Workers \ {w} PROVE HandInv(v)'
    OBVIOUS
  <2>1. UNCHANGED <<pc[v], ready[v], seen[v], burst[v], held[v], slot[v]>>
    BY <1>0, OthersStay
  <2>2. HandInv(v)
    BY DEF HandsInv
  <2> QED BY <1>4, <2>1, <2>2 DEF HandInv, Making, Taken
<1>3. HandInv(w)'
  <2>1. CASE Poll(w)
    <3>1. /\ ready'[w] = ReadyFlows(TxBurst) /\ pc[w] = "poll"
          /\ pc'[w] = IF ready'[w] = << >> THEN "poll" ELSE "pick"
          /\ UNCHANGED <<held[w], burst[w], slot[w]>>
      BY <1>0, <2>1 DEF Poll, Goto, HandsType
    <3>2. Len(ready'[w]) <= TxBurst /\ Len(ready'[w]) \in Nat
      BY <1>0, <3>1, ReadyFlowsBounded DEF SchedulerTypeOK
    <3> QED BY <1>0, <1>4, <3>1, <3>2 DEF HandInv, Making, Taken, Building
  <2>2. CASE Pick(w)
    <3>1. /\ pc[w] = "pick" /\ ready[w] # << >> /\ ready'[w] = Tail(ready[w])
          /\ UNCHANGED burst[w]
      BY <1>0, <2>2 DEF Pick, HandsType
    <3>3. \/ UNCHANGED <<pc[w], held[w]>> /\ (Counting => UNCHANGED slot[w])
          \/ pc'[w] = "build" /\ held'[w].id \in FlowIds /\ slot'[w]
      BY <1>0, <2>2
      DEF Pick, AllocateBurst, Allocated, Take, Counting, Goto, HandsType, Picked, Present
    <3>2. Len(ready[w]) = Len(ready'[w]) + 1 /\ Len(ready'[w]) \in Nat
      BY <1>0, <3>1
    <3> QED BY <1>0, <1>4, <3>1, <3>2, <3>3 DEF HandInv, Making, Taken, Building
  <2>3. CASE Build(w) \/ Advance(w) \/ Count(w)
    <3>1. pc[w] \in Building /\ UNCHANGED ready[w] /\ HeldRight(held[w], pc[w])
      BY <2>3 DEF Build, Advance, Count, Building, PacketInv
    <3>2. \/ /\ pc'[w] = "pick" /\ held'[w] = NoFlow /\ burst'[w] \in {burst[w], burst[w] + 1}
             /\ ~slot'[w]
          \/ /\ pc'[w] \in Building /\ held'[w].id = held[w].id
             /\ UNCHANGED <<burst[w], slot[w]>>
      <4>1. CASE Build(w)
        BY <1>0, <3>1, <4>1 DEF Build, Release, Goto, HandsType, Building, HeldRight
      <4>2. CASE Advance(w)
        BY <1>0, <3>1, <4>2 DEF Advance, Goto, HandsType, Building, HeldRight
      <4>3. CASE Count(w)
        BY <1>0, <3>1, <4>3 DEF Count, Release, Goto, HandsType
      <4> QED BY <2>3, <4>1, <4>2, <4>3
    <3> QED BY <1>0, <1>4, <3>1, <3>2 DEF HandInv, Making, Taken, Building
  <2>4. CASE EndPick(w) \/ Account(w)
    <3>1. /\ pc[w] \in {"pick", "account"} /\ ready[w] = << >>
          /\ UNCHANGED <<held[w], ready[w]>> /\ burst'[w] \in {0, burst[w]}
          /\ pc'[w] = IF burst'[w] > 0 THEN "transmit" ELSE "poll"
      BY <1>0, <2>4 DEF EndPick, Account, Goto, HandsType, HandInv
    <3>2. ~slot'[w]
      <4>1. CASE EndPick(w)
        BY <1>0, <4>1 DEF EndPick, HandsType
      <4>2. CASE Account(w)
        BY <1>0, <4>2 DEF Account, HandInv, Building
      <4> QED BY <2>4, <4>1, <4>2
    <3> QED BY <1>0, <1>4, <3>1, <3>2 DEF HandInv, Making, Taken, Building
  <2>5. CASE Transmit(w)
    <3>1. /\ pc[w] = "transmit" /\ pc'[w] = "account"
          /\ UNCHANGED <<held[w], ready[w], burst[w], slot[w]>> /\ seen'[w] \in 0 .. burst[w]
      BY <1>0, <2>5 DEF Transmit, Goto, HandsType
    <3> QED BY <1>0, <1>4, <3>1 DEF HandInv, Making, Taken, Building
  <2> QED BY <2>1, <2>2, <2>3, <2>4, <2>5 DEF WorkerStep
<1> QED BY <1>1, <1>2, <1>3 DEF HandsInv

\* The packets in all bursts, those of them the NIC has just taken, and the
\* mbufs the workers have.
InBursts  == Sum([w \in Workers |-> InHand(w)], Workers)
JustTaken == Sum([w \in Workers |-> Taken(w)], Workers)
InHands   == Sum([w \in Workers |-> Slotted(w) + InHand(w)], Workers)

\* What workers have is counted in naturals.
LEMMA HandsCount ==
  ASSUME HandsInv
  PROVE  /\ \A w \in Workers : InHand(w) \in Nat /\ Taken(w) \in Nat /\ Slotted(w) \in Nat
         /\ InBursts \in Nat /\ JustTaken \in Nat /\ InHands \in Nat
<1>1. \A w \in Workers : InHand(w) \in Nat /\ Taken(w) \in Nat /\ Slotted(w) \in Nat
  BY DEF HandsInv, HandsType, HandInv, InHand, Taken, Slotted
<1> QED BY <1>1, WorkerAssumption, SumIsNat DEF InBursts, JustTaken, InHands

\* A worker's step changes the sums by what it changes in its own hands.
LEMMA OneWorkerCounts ==
  ASSUME HandsInv, HandsInv', NEW w \in Workers,
         \A v \in Workers \ {w} : UNCHANGED <<pc[v], seen[v], burst[v], slot[v]>>
  PROVE  /\ InBursts' = InBursts + (InHand(w)' - InHand(w))
         /\ JustTaken' = JustTaken + (Taken(w)' - Taken(w))
         /\ InHands' = InHands + ((Slotted(w)' + InHand(w)') - (Slotted(w) + InHand(w)))
<1>1. \A v \in Workers : InHand(v) \in Nat /\ Taken(v) \in Nat /\ Slotted(v) \in Nat
  BY HandsCount
<1>2. \A v \in Workers : InHand(v)' \in Nat /\ Taken(v)' \in Nat /\ Slotted(v)' \in Nat
  <2>1. \A v \in Workers : burst'[v] \in Nat /\ seen'[v] \in Nat /\ Taken(v)' <= burst'[v]
    BY DEF HandsInv, HandsType, HandInv
  <2> QED BY <2>1 DEF InHand, Taken, Slotted
<1>3. \A v \in Workers \ {w} : UNCHANGED <<InHand(v), Taken(v), Slotted(v)>>
  BY DEF InHand, Taken, Slotted
<1>4. InBursts' = InBursts + (InHand(w)' - InHand(w))
  <2> DEFINE f == [v \in Workers |-> InHand(v)]
             g == [v \in Workers |-> InHand(v)']
  <2>1. Sum(g, Workers) = Sum(f, Workers) + (g[w] - f[w])
    BY <1>1, <1>2, <1>3, WorkerAssumption, SumChanges
  <2> QED BY <2>1 DEF InBursts
<1>5. JustTaken' = JustTaken + (Taken(w)' - Taken(w))
  <2> DEFINE f == [v \in Workers |-> Taken(v)]
             g == [v \in Workers |-> Taken(v)']
  <2>1. Sum(g, Workers) = Sum(f, Workers) + (g[w] - f[w])
    BY <1>1, <1>2, <1>3, WorkerAssumption, SumChanges
  <2> QED BY <2>1 DEF JustTaken
<1>6. InHands' = InHands + ((Slotted(w)' + InHand(w)') - (Slotted(w) + InHand(w)))
  <2> DEFINE f == [v \in Workers |-> Slotted(v) + InHand(v)]
             g == [v \in Workers |-> Slotted(v)' + InHand(v)']
  <2>1. \A v \in Workers : f[v] \in Int /\ g[v] \in Int
    BY <1>1, <1>2
  <2>2. \A v \in Workers \ {w} : g[v] = f[v]
    BY <1>3
  <2>3. g[w] = Slotted(w)' + InHand(w)' /\ f[w] = Slotted(w) + InHand(w)
    OBVIOUS
  <2>4. InHands = Sum(f, Workers) /\ InHands' = Sum(g, Workers)
    BY DEF InHands
  <2> HIDE DEF f, g
  <2>5. Sum(g, Workers) = Sum(f, Workers) + (g[w] - f[w])
    BY <2>1, <2>2, WorkerAssumption, SumChanges
  <2> QED BY <2>3, <2>4, <2>5
<1> QED BY <1>4, <1>5, <1>6

\* The ledger of mbufs and packets.
CountInv ==
  /\ sent \in [FlowIds -> Nat] /\ built \in [FlowIds -> Nat] /\ tx \in [Cores -> Nat]
  /\ replaced \in Nat /\ wire \in Nat /\ dropped \in Nat
  /\ pool \in Nat /\ nic \in Nat /\ lost \in Nat /\ (Counting => lost = 0)
  /\ PoolSize = pool + nic + lost + InHands
  /\ Sum(sent, FlowIds) + replaced = wire + dropped + InBursts
  /\ Sum(tx, Cores) + JustTaken <= wire

\* The cores are finitely many.
LEMMA CoresFinite == IsFiniteSet(Cores)
BY WorkerAssumption, FS_Interval DEF Cores

\* A worker's step keeps the ledger.
LEMMA WorkerCounts ==
  ASSUME CountInv, HandsInv, HandsInv', NEW w \in Workers, WorkerStep(w)
  PROVE  CountInv'
<1>0. /\ HandsType /\ HandInv(w) /\ HandsType' /\ burst[w] \in Nat /\ seen[w] \in Nat
      /\ InBursts \in Nat /\ JustTaken \in Nat /\ InHands \in Nat
      /\ Sum(sent, FlowIds) \in Nat /\ Sum(tx, Cores) \in Nat
      /\ slot[w] \in BOOLEAN /\ Counting' = Counting
  <2>1. /\ HandsType /\ HandInv(w) /\ HandsType' /\ burst[w] \in Nat /\ seen[w] \in Nat
        /\ slot[w] \in BOOLEAN
    BY DEF HandsInv, HandsType
  <2>3. Counting' = Counting
    BY SetupStays DEF GenNext, Counting
  <2>2. Sum(sent, FlowIds) \in Nat /\ Sum(tx, Cores) \in Nat
    BY CoresFinite, FlowIdsFinite, SumIsNat DEF CountInv
  <2> QED BY <2>1, <2>2, <2>3, HandsCount
<1>1. /\ InBursts' = InBursts + (InHand(w)' - InHand(w))
      /\ JustTaken' = JustTaken + (Taken(w)' - Taken(w))
      /\ InHands' = InHands + ((Slotted(w)' + InHand(w)') - (Slotted(w) + InHand(w)))
  <2>1. \A v \in Workers \ {w} : UNCHANGED <<pc[v], seen[v], burst[v], slot[v]>>
    BY <1>0, OthersStay
  <2> QED BY <2>1, OneWorkerCounts
<1>2. CASE Poll(w)
  <2>1. UNCHANGED <<burst[w], slot[w], sent, built, tx, replaced, wire, dropped, pool, nic, lost>>
    BY <1>2 DEF Poll, counts, mbufs
  <2>2. pc[w] = "poll" /\ pc'[w] \in {"poll", "pick"}
    BY <1>0, <1>2 DEF Poll, Goto, HandsType
  <2>3. UNCHANGED <<InBursts, JustTaken, InHands>>
    BY <1>0, <1>1, <2>1, <2>2 DEF InHand, Taken, Slotted
  <2> QED BY <1>0, <2>1, <2>3 DEF CountInv
<1>9. CASE EndPick(w)
  <2>1. /\ UNCHANGED <<burst[w], sent, built, tx, replaced, wire, dropped, pool, nic>>
        /\ ~slot'[w] /\ lost' = lost + Slotted(w)
    BY <1>0, <1>9 DEF EndPick, counts, HandsType, CountInv, Slotted
  <2>2. pc[w] = "pick" /\ pc'[w] \in {"poll", "transmit"}
    BY <1>0, <1>9 DEF EndPick, Goto, HandsType
  <2>3. UNCHANGED <<InBursts, JustTaken>> /\ InHands' = InHands - Slotted(w)
    BY <1>0, <1>1, <2>1, <2>2 DEF InHand, Taken, Slotted
  <2>4. lost' \in Nat /\ (Counting => lost' = 0) /\ PoolSize = pool' + nic' + lost' + InHands'
    BY <1>0, <2>1, <2>2, <2>3 DEF CountInv, HandInv, Slotted
  <2> QED BY <1>0, <2>1, <2>3, <2>4 DEF CountInv
<1>3. CASE Pick(w)
  <2>1. UNCHANGED <<burst[w], sent, built, tx, replaced, wire, dropped, nic>> /\ pc[w] = "pick"
    BY <1>3 DEF Pick, counts
  <2>2. \/ UNCHANGED <<pool, slot[w], lost>>
        \/ pool > 0 /\ pool' = pool - 1 /\ slot'[w] /\ lost' = lost + Slotted(w)
    <3>1. UNCHANGED <<pool, slot, lost>> \/ AllocateBurst(w)
      BY <1>3 DEF Pick
    <3>2. CASE UNCHANGED <<pool, slot, lost>>
      BY <3>2
    <3>3. CASE AllocateBurst(w)
      <4>1. CASE pool > 0
        <5>1. /\ pool' = pool - 1 /\ slot' = [slot EXCEPT ![w] = TRUE]
              /\ lost' = IF slot[w] THEN lost + 1 ELSE lost
          BY <3>3, <4>1 DEF AllocateBurst
        <5>2. lost' = lost + Slotted(w)
          BY <5>1 DEF Slotted, CountInv
        <5> QED BY <1>0, <4>1, <5>1, <5>2 DEF HandsType
      <4>2. CASE ~(pool > 0)
        BY <3>3, <4>2 DEF AllocateBurst
      <4> QED BY <4>1, <4>2
    <3> QED BY <3>1, <3>2, <3>3
  <2>3. pc'[w] \in {"pick", "build"}
    BY <1>0, <1>3 DEF Pick, Take, Goto, HandsType
  <2>4. UNCHANGED <<InBursts, JustTaken>> /\ InHands' = InHands + (Slotted(w)' - Slotted(w))
    BY <1>0, <1>1, <2>1, <2>2, <2>3 DEF InHand, Taken, Slotted
  <2>5. Counting => Slotted(w) = 0
    BY <1>0, <2>1 DEF HandInv, Slotted
  <2>6. /\ pool' \in Nat /\ lost' \in Nat /\ (Counting => lost' = 0)
        /\ PoolSize = pool' + nic' + lost' + InHands'
    BY <1>0, <2>1, <2>2, <2>4, <2>5 DEF CountInv, Slotted
  <2> QED BY <1>0, <2>1, <2>4, <2>6 DEF CountInv
<1>4. CASE Build(w)
  <2>1. UNCHANGED <<burst[w], sent, tx, replaced, wire, dropped, nic, lost>> /\ pc[w] = "build"
    BY <1>4 DEF Build
  <2>2. \/ pc'[w] = "pick" /\ pool' = pool + 1 /\ slot[w] /\ ~slot'[w]
        \/ pc'[w] \in {"advance", "count"} /\ UNCHANGED <<pool, slot[w]>>
    BY <1>0, <1>4 DEF Build, Release, Goto, HandsType, HandInv, Building
  <2>3. /\ UNCHANGED <<InBursts, JustTaken>>
        /\ InHands' = InHands - (IF pc'[w] = "pick" THEN 1 ELSE 0)
    BY <1>0, <1>1, <2>1, <2>2 DEF InHand, Taken, Slotted
  <2>4. pool' \in Nat /\ PoolSize = pool' + nic' + lost' + InHands'
    BY <1>0, <2>1, <2>2, <2>3 DEF CountInv
  <2>5. built' \in [FlowIds -> Nat]
    <3>1. UNCHANGED built \/ built' = [built EXCEPT ![held[w].id] = @ + 1]
      BY <1>4 DEF Build
    <3> QED BY <3>1 DEF CountInv
  <2> QED BY <1>0, <2>1, <2>3, <2>4, <2>5 DEF CountInv
<1>5. CASE Advance(w)
  <2>1. /\ UNCHANGED <<burst[w], slot[w], sent, built, tx, replaced, wire, dropped>>
        /\ UNCHANGED <<pool, nic, lost>> /\ pc[w] = "advance" /\ pc'[w] = "count"
    BY <1>0, <1>5 DEF Advance, Goto, HandsType, mbufs
  <2>2. UNCHANGED <<InBursts, JustTaken, InHands>>
    BY <1>0, <1>1, <2>1 DEF InHand, Taken, Slotted
  <2> QED BY <1>0, <2>1, <2>2 DEF CountInv
<1>6. CASE Count(w)
  <2>1. /\ UNCHANGED <<built, tx, wire, dropped, pool, nic, lost>>
        /\ pc[w] = "count" /\ pc'[w] = "pick" /\ burst'[w] = burst[w] + 1
        /\ slot[w] /\ ~slot'[w]
    BY <1>0, <1>6 DEF Count, Release, Goto, HandsType, HandInv, Building, mbufs
  <2>2. InBursts' = InBursts + 1 /\ UNCHANGED <<JustTaken, InHands>>
    BY <1>0, <1>1, <2>1 DEF InHand, Taken, Slotted
  <2>3. /\ sent' \in [FlowIds -> Nat] /\ replaced' \in Nat
        /\ Sum(sent', FlowIds) + replaced' = Sum(sent, FlowIds) + replaced + 1
    <3>1. sent \in [FlowIds -> Nat] /\ replaced \in Nat /\ IsFiniteSet(FlowIds)
      <4>1. sent \in [FlowIds -> Nat] /\ replaced \in Nat
        BY DEF CountInv
      <4> QED BY <4>1, FlowIdsFinite
    <3>2. CASE orphan[w]
      BY <1>0, <1>6, <3>1, <3>2 DEF Count
    <3>3. CASE ~orphan[w]
      <4> DEFINE id == held[w].id
                 g == [sent EXCEPT ![id] = sent[id] + 1]
      <4>1. id \in FlowIds /\ sent[id] + 1 \in Nat /\ sent[id] \in Nat
        BY <1>0, <2>1, <3>1 DEF HandInv, Building
      <4>2. /\ g \in [FlowIds -> Nat] /\ g[id] = sent[id] + 1
            /\ \A i \in FlowIds \ {id} : g[i] = sent[i]
        BY <3>1, <4>1
      <4>3. Sum(g, FlowIds) = Sum(sent, FlowIds) + (g[id] - sent[id])
        <5> HIDE DEF id, g
        <5> QED BY <3>1, <4>1, <4>2, OneCounter
      <4>4. sent' = g /\ UNCHANGED replaced
        BY <1>6, <3>3 DEF Count
      <4> HIDE DEF g, id
      <4> QED BY <1>0, <3>1, <4>1, <4>2, <4>3, <4>4
    <3> QED BY <3>2, <3>3
  <2>4. Sum(sent', FlowIds) + replaced' = wire' + dropped' + InBursts'
    BY <1>0, <2>1, <2>2, <2>3 DEF CountInv
  <2> QED BY <1>0, <2>1, <2>2, <2>3, <2>4 DEF CountInv
<1>7. CASE Transmit(w)
  <2>1. PICK n \in 0 .. burst[w] : nic' = nic + n /\ wire' = wire + n /\ seen'[w] = n
    BY <1>0, <1>7 DEF Transmit, HandsType
  <2>2. /\ UNCHANGED <<burst[w], slot[w], sent, built, tx, replaced, dropped, pool, lost>>
        /\ pc[w] = "transmit" /\ pc'[w] = "account"
    BY <1>0, <1>7 DEF Transmit, Goto, HandsType
  <2>3. /\ n \in Nat /\ InBursts' = InBursts - n
        /\ JustTaken' = JustTaken + n /\ InHands' = InHands - n
    BY <1>0, <1>1, <2>1, <2>2 DEF InHand, Taken, Slotted
  <2>4. nic' \in Nat /\ wire' \in Nat /\ PoolSize = pool' + nic' + lost' + InHands'
    BY <1>0, <2>1, <2>2, <2>3 DEF CountInv
  <2>5. /\ Sum(sent', FlowIds) + replaced' = wire' + dropped' + InBursts'
        /\ Sum(tx', Cores) + JustTaken' <= wire'
    BY <1>0, <2>1, <2>2, <2>3 DEF CountInv
  <2> QED BY <1>0, <2>2, <2>4, <2>5 DEF CountInv
<1>8. CASE Account(w)
  <2> DEFINE rest == burst[w] - seen[w]
  <2>1. /\ UNCHANGED <<slot[w], sent, built, replaced, wire, nic, lost>>
        /\ dropped' = dropped + rest /\ pool' = pool + rest
        /\ pc[w] = "account" /\ pc'[w] = "poll" /\ burst'[w] = 0
    BY <1>0, <1>8 DEF Account, Goto, HandsType
  <2>2. rest \in Nat
    BY <1>0, <2>1 DEF HandInv, Taken
  <2>3. /\ InBursts' = InBursts - rest /\ JustTaken' = JustTaken - seen[w]
        /\ InHands' = InHands - rest
    BY <1>0, <1>1, <2>1 DEF InHand, Taken, Slotted
  <2>4. tx' \in [Cores -> Nat] /\ Sum(tx', Cores) <= Sum(tx, Cores) + seen[w]
    <3>0. tx \in [Cores -> Nat]
      BY DEF CountInv
    <3>1. CASE CoreId[w] \in Cores
      <4> DEFINE c == CoreId[w]
                 g == [tx EXCEPT ![c] = tx[c] + seen[w]]
      <4>1. tx' = g
        BY <1>8, <3>1 DEF Account
      <4>2. c \in Cores /\ tx[c] \in Nat /\ tx[c] + seen[w] \in Nat
        BY <1>0, <3>0, <3>1
      <4>3. /\ g \in [Cores -> Nat] /\ g[c] = tx[c] + seen[w]
            /\ \A d \in Cores \ {c} : g[d] = tx[d]
        BY <3>0, <4>2
      <4>4. Sum(g, Cores) = Sum(tx, Cores) + (g[c] - tx[c])
        <5> HIDE DEF c, g
        <5> QED BY <3>0, <4>2, <4>3, CoresFinite, OneCounter
      <4> HIDE DEF c, g
      <4> QED BY <1>0, <4>1, <4>2, <4>3, <4>4
    <3>2. CASE CoreId[w] \notin Cores
      BY <1>0, <1>8, <3>0, <3>2 DEF Account
    <3> QED BY <3>1, <3>2
  <2>5. Sum(tx', Cores) \in Nat
    BY <2>4, CoresFinite, SumIsNat
  <2> HIDE DEF rest
  <2>6. /\ dropped' \in Nat /\ pool' \in Nat /\ PoolSize = pool' + nic' + lost' + InHands'
        /\ Sum(sent', FlowIds) + replaced' = wire' + dropped' + InBursts'
    BY <1>0, <2>1, <2>2, <2>3 DEF CountInv
  <2>7. Sum(tx', Cores) + JustTaken' <= wire'
    BY <1>0, <2>1, <2>3, <2>4, <2>5 DEF CountInv
  <2> QED BY <1>0, <2>1, <2>4, <2>6, <2>7 DEF CountInv
<1> QED BY <1>2, <1>3, <1>4, <1>5, <1>6, <1>7, <1>8, <1>9 DEF WorkerStep

\* What a handler carries is of the type declared.
HandlerTyped ==
  /\ svc.op = "reset" => svc.core \in Cores
  /\ svc.op \in {"start", "stop"} => svc.ids \subseteq FlowIds

\* Handlers go over the cores and over flows of the table (metrics_collector.cpp:52-57,
\* server.cpp:112-160).
LEMMA HandlerTypedNext ==
  ASSUME HandlerInv, HandlerTyped, requests \in 0 .. MaxRequests, [GenNext]_genVars
  PROVE  HandlerTyped' /\ requests' \in 0 .. MaxRequests
<1>0. setup.requests \in 0 .. MaxRequests /\ MaxRequests \in Nat
  BY SetupAssumption, RequestAssumption DEF HandlerInv
<1>1. CASE \E batch \in Batches : CallConfigureFlows(batch)
  BY <1>0, <1>1 DEF CallConfigureFlows, Request, HandlerTyped
<1>2. CASE (\E reset \in BOOLEAN : CallStartTraffic(reset)) \/ CallStopTraffic
  <2>1. 0 \in Cores
    BY WorkerAssumption DEF Cores
  <2> QED BY <1>0, <1>2, <2>1
          DEF CallStartTraffic, CallStopTraffic, Request, HandlerTyped
<1>3. CASE ConfigureOne
  <2>1. svc'.op = "configure" /\ UNCHANGED requests
    BY <1>3 DEF ConfigureOne, HandlerInv
  <2> QED BY <2>1 DEF HandlerTyped
<1>4. CASE ResetCore
  <2>1. svc.core \in Cores /\ svc = [op |-> "reset", core |-> svc.core] /\ UNCHANGED requests
    BY <1>4 DEF ResetCore, HandlerInv, HandlerTyped
  <2>2. CASE svc.core + 1 < NumCores
    <3>1. svc'.op = "reset" /\ svc'.core = svc.core + 1
      BY <1>4, <2>1, <2>2 DEF ResetCore
    <3>2. svc.core + 1 \in Cores
      BY <2>1, <2>2, WorkerAssumption DEF Cores
    <3> QED BY <2>1, <3>1, <3>2 DEF HandlerTyped
  <2>3. CASE ~(svc.core + 1 < NumCores)
    BY <1>4, <2>1, <2>3 DEF ResetCore, HandlerTyped
  <2> QED BY <2>2, <2>3
<1>5. CASE EndConfigure \/ EndStart \/ EndStop
  BY <1>5 DEF EndConfigure, EndStart, EndStop, Idle, HandlerTyped
<1>6. CASE Snapshot \/ BeginStop
  BY <1>6 DEF Snapshot, BeginStop, Idle, HandlerTyped, Present
<1>7. CASE StartOne \/ StopOne
  <2>1. /\ svc.op \in {"start", "stop"} /\ svc = [op |-> svc.op, ids |-> svc.ids]
        /\ svc.ids \subseteq FlowIds /\ UNCHANGED requests
    BY <1>7 DEF StartOne, StopOne, HandlerInv, HandlerTyped
  <2>2. PICK id \in svc.ids : svc' = [svc EXCEPT !.ids = @ \ {id}]
    BY <1>7 DEF StartOne, StopOne
  <2>3. svc'.op = svc.op /\ svc'.ids = svc.ids \ {id}
    BY <2>1, <2>2
  <2> QED BY <2>1, <2>3 DEF HandlerTyped
<1>8. CASE \E entries \in Profiles : CallConfigureImix(entries)
  BY <1>0, <1>8 DEF CallConfigureImix, HandlerTyped
<1>9. CASE UNCHANGED <<svc, requests>>
  BY <1>9 DEF HandlerTyped
<1>10. CASE NicDone \/ TimePasses \/ UNCHANGED genVars
  BY <1>9, <1>10 DEF NicDone, TimePasses, genVars, service
<1>11. CASE \E w \in Workers : WorkerStep(w)
  BY <1>9, <1>11
  DEF WorkerStep, Poll, Pick, Build, Advance, Count, EndPick, Transmit, Account, service
<1> QED BY <1>1, <1>2, <1>3, <1>4, <1>5, <1>6, <1>7, <1>8, <1>10, <1>11 DEF GenNext, ServiceStep

\* What the handlers, the NIC and the clock leave of a worker: they may only take
\* its flow out of the table.
LEMMA HandsStay ==
  ASSUME HandsInv, UNCHANGED <<setup, pc, ready, held, seen, burst, slot>>,
         orphan' \in [Workers -> BOOLEAN], seq' \in [FlowIds -> Nat], out' \in [Workers -> Nat]
  PROVE  HandsInv' /\ UNCHANGED <<InBursts, JustTaken, InHands, Counting>>
<1>1. HandsInv'
  BY DEF HandsInv, HandsType, HandInv, Making, Taken, Counting
<1>2. UNCHANGED <<InBursts, JustTaken, InHands, Counting>>
  BY DEF InBursts, JustTaken, InHands, Slotted, InHand, Taken, Counting
<1> QED BY <1>1, <1>2

\* A flow that is replaced takes its count with it (flow_scheduler.cpp:75).
LEMMA ConfigureCounts ==
  ASSUME CountInv, HandsInv, HandlerInv, ConfigureOne
  PROVE  HandsInv' /\ CountInv'
<1>1. /\ UNCHANGED <<setup, pc, ready, held, seen, burst, slot, out, tx, wire, dropped>>
      /\ UNCHANGED <<pool, nic, lost>>
      /\ svc.batch \in Seq(Configs) /\ svc.batch # << >>
  BY DEF ConfigureOne, HandlerInv, mbufs
<1> DEFINE id == Head(svc.batch).id
<1>2. id \in FlowIds
  <2>1. Head(svc.batch) \in Configs
    BY <1>1
  <2> QED BY <2>1, ConfigAssumption
<1>3. CASE UNCHANGED <<orphan, seq, sent, built, replaced>>
  <2>1. HandsInv' /\ UNCHANGED <<InBursts, JustTaken, InHands, Counting>>
    BY <1>1, <1>3, HandsStay DEF HandsInv, HandsType
  <2> QED BY <1>1, <1>3, <2>1 DEF CountInv
<1>4. CASE ~UNCHANGED <<orphan, seq, sent, built, replaced>>
  <2>1. /\ orphan' = [w \in Workers |-> orphan[w] \/ Holds(w, id)]
        /\ seq' = [seq EXCEPT ![id] = 0]
        /\ sent' = [sent EXCEPT ![id] = 0]
        /\ built' = [built EXCEPT ![id] = 0]
        /\ replaced' = replaced + sent[id]
    BY <1>4 DEF ConfigureOne
  <2> HIDE DEF id
  <2>2. orphan' \in [Workers -> BOOLEAN]
    <3>1. \A w \in Workers : (orphan[w] \/ Holds(w, id)) \in BOOLEAN
      BY Zenon
    <3> QED BY <2>1, <3>1
  <2>3. seq' \in [FlowIds -> Nat]
    BY <1>2, <2>1 DEF HandsInv, HandsType
  <2>4. HandsInv' /\ UNCHANGED <<InBursts, JustTaken, InHands, Counting>>
    BY <1>1, <2>2, <2>3, HandsStay DEF HandsInv, HandsType
  <2>5. /\ sent \in [FlowIds -> Nat] /\ built' \in [FlowIds -> Nat] /\ replaced \in Nat
        /\ sent' \in [FlowIds -> Nat] /\ sent'[id] = 0 /\ sent[id] \in Nat
        /\ \A i \in FlowIds \ {id} : sent'[i] = sent[i]
    BY <1>2, <2>1 DEF CountInv
  <2>6. /\ Sum(sent', FlowIds) = Sum(sent, FlowIds) + (sent'[id] - sent[id])
        /\ Sum(sent', FlowIds) \in Nat /\ Sum(sent, FlowIds) \in Nat
    BY <1>2, <2>5, FlowIdsFinite, OneCounter
  <2>7. Sum(sent', FlowIds) + replaced' = Sum(sent, FlowIds) + replaced /\ replaced' \in Nat
    BY <2>1, <2>5, <2>6
  <2> QED BY <1>1, <2>4, <2>5, <2>7 DEF CountInv
<1> QED BY <1>3, <1>4

\* A reset takes from one core (metrics_collector.cpp:52-57).
LEMMA ResetCounts ==
  ASSUME CountInv, HandsInv, HandlerTyped, ResetCore
  PROVE  HandsInv' /\ CountInv'
<1>1. /\ UNCHANGED <<setup, pc, ready, held, orphan, seen, burst, slot, out, seq, sent, built>>
      /\ UNCHANGED <<replaced, wire, dropped, pool, nic, lost>>
      /\ tx' = [tx EXCEPT ![svc.core] = 0]
      /\ svc.core \in Cores
  BY DEF ResetCore, HandlerTyped, local, mbufs
<1>2. HandsInv' /\ UNCHANGED <<InBursts, JustTaken, InHands, Counting>>
  BY <1>1, HandsStay DEF HandsInv, HandsType
<1>3. /\ tx \in [Cores -> Nat] /\ tx' \in [Cores -> Nat] /\ tx'[svc.core] = 0
      /\ tx[svc.core] \in Nat
      /\ \A c \in Cores \ {svc.core} : tx'[c] = tx[c]
  BY <1>1 DEF CountInv
<1>4. /\ Sum(tx', Cores) = Sum(tx, Cores) + (tx'[svc.core] - tx[svc.core])
      /\ Sum(tx', Cores) \in Nat /\ Sum(tx, Cores) \in Nat
  <2> DEFINE c == svc.core
  <2>1. /\ c \in Cores /\ tx \in [Cores -> Nat] /\ tx' \in [Cores -> Nat]
        /\ \A d \in Cores \ {c} : tx'[d] = tx[d]
    BY <1>1, <1>3
  <2>2. /\ Sum(tx', Cores) = Sum(tx, Cores) + (tx'[c] - tx[c])
        /\ Sum(tx', Cores) \in Nat /\ Sum(tx, Cores) \in Nat
    <3> HIDE DEF c
    <3> QED BY <2>1, CoresFinite, OneCounter
  <2> QED BY <2>2
<1>5. Sum(tx', Cores) <= Sum(tx, Cores)
  BY <1>3, <1>4
<1>6. JustTaken \in Nat
  BY HandsCount
<1> QED BY <1>1, <1>2, <1>3, <1>4, <1>5, <1>6 DEF CountInv

\* The inductive invariant of the generator's mbufs and counters.
LedgerInv ==
  /\ StopInv /\ PacketInv
  /\ HandlerTyped /\ requests \in 0 .. MaxRequests
  /\ HandsInv /\ CountInv

\* Every step keeps it.
LEMMA LedgerNext == LedgerInv /\ SchedulerTypeOK /\ [GenNext]_genVars => LedgerInv'
<1> SUFFICES ASSUME LedgerInv, SchedulerTypeOK, [GenNext]_genVars PROVE LedgerInv'
  OBVIOUS
<1>0. HandsInv /\ CountInv /\ PacketInv /\ StopInv /\ HandlerInv /\ HandlerTyped
  BY DEF LedgerInv, StopInv
<1>1. /\ StopInv' /\ PacketInv'
      /\ HandlerTyped' /\ requests' \in 0 .. MaxRequests
  BY StopNext, PacketNext, HandlerTypedNext DEF LedgerInv, StopInv
<1>2. HandsInv' /\ CountInv'
  <2>1. CASE \E w \in Workers : WorkerStep(w)
    BY <1>0, <2>1, WorkerKeepsHands, WorkerCounts
  <2>2. CASE ConfigureOne
    BY <1>0, <2>2, ConfigureCounts
  <2>3. CASE ResetCore
    BY <1>0, <2>3, ResetCounts
  <2>4. CASE NicDone
    <3>1. /\ UNCHANGED <<setup, pc, ready, held, orphan, seen, burst, slot, out, seq, sent, tx>>
          /\ UNCHANGED <<built, replaced, wire, dropped, lost>>
          /\ nic > 0 /\ nic' = nic - 1 /\ pool' = pool + 1
      BY <2>4 DEF NicDone, local, service, counts
    <3>2. HandsInv' /\ UNCHANGED <<InBursts, JustTaken, InHands, Counting>>
      BY <1>0, <3>1, HandsStay DEF HandsInv, HandsType
    <3>3. InHands \in Nat
      BY <1>0, HandsCount
    <3>4. nic' \in Nat /\ pool' \in Nat /\ pool' + nic' = pool + nic
      BY <1>0, <3>1 DEF CountInv
    <3> QED BY <1>0, <3>1, <3>2, <3>3, <3>4 DEF CountInv
  <2>5. CASE /\ UNCHANGED <<pc, ready, held, orphan, seen, burst, slot, seq, sent, tx, built>>
             /\ UNCHANGED <<replaced, wire, dropped, pool, nic, lost>>
             /\ out' \in [Workers -> Nat]
    <3>1. HandsInv' /\ UNCHANGED <<InBursts, JustTaken, InHands, Counting>>
      BY <1>0, <2>5, HandsStay, SetupStays DEF HandsInv, HandsType
    <3> QED BY <1>0, <2>5, <3>1 DEF CountInv
  <2>8. out \in [Workers -> Nat]
    BY <1>0 DEF HandsInv, HandsType
  <2>9. CASE EndStart
    BY <2>5, <2>9 DEF EndStart, local, mbufs
  <2>6. CASE \/ EndConfigure \/ Snapshot \/ StartOne \/ BeginStop \/ StopOne
             \/ EndStop \/ TimePasses \/ UNCHANGED genVars
    BY <2>5, <2>6, <2>8
    DEF EndConfigure, Snapshot, StartOne, BeginStop, StopOne, EndStop, TimePasses,
        genVars, local, counts, mbufs
  <2>7. CASE \/ \E batch \in Batches : CallConfigureFlows(batch)
             \/ \E entries \in Profiles : CallConfigureImix(entries)
             \/ \E reset \in BOOLEAN : CallStartTraffic(reset)
             \/ CallStopTraffic
    BY <2>5, <2>7, <2>8
    DEF CallConfigureFlows, CallConfigureImix, CallStartTraffic, CallStopTraffic, Request, local,
        counts, mbufs
  <2> QED BY <2>1, <2>2, <2>3, <2>4, <2>6, <2>7, <2>9 DEF GenNext, ServiceStep
<1> QED BY <1>1, <1>2 DEF LedgerInv

\* The ledger is right at all times.
LEMMA LedgerAlways == GenSpec => []LedgerInv
<1>1. GenInit => HandlerTyped /\ requests \in 0 .. MaxRequests /\ HandsInv /\ CountInv
  <2> SUFFICES ASSUME GenInit
               PROVE  HandlerTyped /\ requests \in 0 .. MaxRequests /\ HandsInv /\ CountInv
    OBVIOUS
  <2>1. HandlerTyped /\ requests \in 0 .. MaxRequests
    BY RequestAssumption DEF GenInit, Idle, HandlerTyped
  <2>2. HandsType
    BY DEF GenInit, HandsType, Places
  <2>3. \A w \in Workers : HandInv(w) /\ InHand(w) = 0 /\ Taken(w) = 0 /\ Slotted(w) = 0
    BY WorkerAssumption DEF GenInit, HandInv, InHand, Taken, Making, Slotted, Building
  <2>4. InBursts = 0 /\ JustTaken = 0 /\ InHands = 0
    BY <2>3, WorkerAssumption, SumOfZeros DEF InBursts, JustTaken, InHands
  <2>5. Sum(sent, FlowIds) = 0 /\ Sum(tx, Cores) = 0
    BY FlowIdsFinite, CoresFinite, SumOfZeros DEF GenInit
  <2>6. CountInv
    BY <2>4, <2>5, PoolAssumption DEF GenInit, CountInv
  <2> QED BY <2>1, <2>2, <2>3, <2>6 DEF HandsInv
<1> QED
  BY <1>1, LedgerNext, StopAlways, PacketAlways, GenImplementsScheduler, SchedulerTypeCorrect, PTL
  DEF GenSpec, LedgerInv

\* The folds of the properties are these sums.
LEMMA TotalIsSum ==
  ASSUME NEW S, NEW f, DOMAIN f = S
  PROVE  Total(f) = Sum(f, S)
BY DEF Total, FoldFunction, Sum

\* Every mbuf is in the pool, with the NIC, in exactly one worker's hands or lost, and
\* none is lost when the allocation answers a success with a number other than 0 and
\* a failure with 0 (worker.cpp:251-257, :311-314, :127-134).
THEOREM GenMbufsConserved == GenSpec => []MbufsConserved
<1>1. LedgerInv => MbufsConserved
  <2> SUFFICES ASSUME LedgerInv PROVE MbufsConserved
    OBVIOUS
  <2> DEFINE f == [w \in Workers |-> (IF slot[w] THEN 1 ELSE 0) + InHand(w)]
  <2>1. Total(f) = Sum(f, Workers)
    <3>1. DOMAIN f = Workers
      OBVIOUS
    <3> HIDE DEF f
    <3> QED BY <3>1, TotalIsSum
  <2>2. InHands = Sum(f, Workers)
    BY DEF InHands, Slotted
  <2> QED BY <2>1, <2>2 DEF MbufsConserved, LedgerInv, CountInv, Counting
<1> QED BY <1>1, LedgerAlways, PTL

\* Every packet counted as sent is in a burst, was taken by the NIC or was dropped.
THEOREM GenPacketsAccounted == GenSpec => []PacketsAccounted
<1>1. LedgerInv => PacketsAccounted
  <2> SUFFICES ASSUME LedgerInv PROVE PacketsAccounted
    OBVIOUS
  <2> DEFINE f == [w \in Workers |-> InHand(w)]
  <2>1. Total(f) = Sum(f, Workers)
    <3>1. DOMAIN f = Workers
      OBVIOUS
    <3> HIDE DEF f
    <3> QED BY <3>1, TotalIsSum
  <2>2. Total(sent) = Sum(sent, FlowIds)
    <3>1. DOMAIN sent = FlowIds
      BY DEF LedgerInv, CountInv
    <3> QED BY <3>1, TotalIsSum
  <2>3. InBursts = Sum(f, Workers)
    BY DEF InBursts
  <2> QED BY <2>1, <2>2, <2>3 DEF PacketsAccounted, LedgerInv, CountInv
<1> QED BY <1>1, LedgerAlways, PTL

\* Statistics never show a packet the NIC did not take.
THEOREM GenTxNotAhead == GenSpec => []TxNotAhead
<1>1. LedgerInv => TxNotAhead
  <2> SUFFICES ASSUME LedgerInv PROVE TxNotAhead
    OBVIOUS
  <2>1. tx \in [Cores -> Nat] /\ Sum(tx, Cores) + JustTaken <= wire /\ wire \in Nat
    BY DEF LedgerInv, CountInv
  <2>2. Total(tx) = Sum(tx, Cores) /\ Sum(tx, Cores) \in Nat
    BY <2>1, TotalIsSum, CoresFinite, SumIsNat
  <2>3. JustTaken \in Nat
    BY HandsCount DEF LedgerInv
  <2> QED BY <2>1, <2>2, <2>3 DEF TxNotAhead
<1> QED BY <1>1, LedgerAlways, PTL

\* The state is of the types declared: no burst grows past tx_burst_size, and the
\* pool and the NIC never have more mbufs than there are.
THEOREM GenTypeCorrect == GenSpec => []GenTypeOK
<1>1. LedgerInv /\ SchedulerTypeOK => GenTypeOK
  <2> SUFFICES ASSUME LedgerInv, SchedulerTypeOK PROVE GenTypeOK
    OBVIOUS
  <2>0. /\ StopInv /\ HandlerInv /\ HandlerTyped /\ PacketInv
        /\ HandsInv /\ HandsType /\ CountInv /\ requests \in 0 .. MaxRequests
    BY DEF LedgerInv, StopInv, HandsInv
  <2>1. svc \in Handlers
    BY <2>0 DEF HandlerInv, HandlerTyped, Handlers
  <2>2. pc \in [Workers -> {"poll", "pick", "build", "advance", "count", "transmit", "account"}]
    BY <2>0 DEF HandsType, Places, Building
  <2>3. \A w \in Workers : IF pc[w] \in Building
                             THEN held[w].id \in FlowIds /\ held[w].size \in Nat /\ slot[w]
                             ELSE held[w] = NoFlow
    BY <2>0 DEF HandsInv, HandInv, PacketInv, HeldRight, Sized
  <2>4. burst \in [Workers -> 0 .. TxBurst]
    <3>1. \A w \in Workers : burst[w] \in 0 .. TxBurst
      <4> SUFFICES ASSUME NEW w \in Workers PROVE burst[w] \in 0 .. TxBurst
        OBVIOUS
      <4>1. burst[w] \in Nat /\ Len(ready[w]) \in Nat /\ Making(w) \in Nat
        BY <2>0 DEF HandsType, Making
      <4>2. burst[w] + Len(ready[w]) + Making(w) <= TxBurst
        BY <2>0 DEF HandsInv, HandInv
      <4> QED BY <4>1, <4>2, WorkerAssumption
    <3> QED BY <2>0, <3>1 DEF HandsType
  <2>5. pool \in 0 .. PoolSize /\ nic \in 0 .. PoolSize /\ lost \in 0 .. PoolSize
    BY <2>0, HandsCount, PoolAssumption DEF CountInv
  <2>6. late \in [Workers -> Nat] /\ running \in BOOLEAN
    BY <2>0 DEF StopInv
  <2>7. setup \in Setups
    BY <2>0 DEF HandlerInv
  <2> QED BY <2>0, <2>1, <2>2, <2>3, <2>4, <2>5, <2>6, <2>7 DEF GenTypeOK, HandsType, CountInv
<1> QED BY <1>1, LedgerAlways, GenImplementsScheduler, SchedulerTypeCorrect, PTL

-----------------------------------------------------------------------------
(* What a client reads. *)

\* "assert metrics['global']['total_tx_packets'] > 0" (README.md:363) is right when
\* every worker's core_id is one the collector has a slot for
\* (metrics_collector.cpp:24-33): then a burst that was sent shows.
THEOREM GenTrafficCounted ==
  ASSUME \A w \in Workers : CoreId[w] \in Cores
  PROVE  GenSpec => TrafficIsCounted
<1> DEFINE Shown(w) ==
      (pc[w] = "account" /\ pc'[w] = "poll" /\ seen[w] > 0) => Total(tx') > 0
<1>1. ASSUME LedgerInv, [GenNext]_genVars, NEW w \in Workers PROVE Shown(w)
  <2> SUFFICES ASSUME pc[w] = "account", pc'[w] = "poll", seen[w] > 0 PROVE Total(tx') > 0
    OBVIOUS
  <2>0. HandsType /\ CountInv
    BY <1>1 DEF LedgerInv, HandsInv
  <2>1. Account(w)
    <3>1. pc' # pc
      OBVIOUS
    <3>2. PICK v \in Workers : WorkerStep(v)
      <4>1. ~ServiceStep
        BY <3>1
        DEF ServiceStep, ConfigureOne, EndConfigure, ResetCore, Snapshot, StartOne, EndStart,
            BeginStop, StopOne, EndStop, local
      <4>2. ~(\/ \E batch \in Batches : CallConfigureFlows(batch)
              \/ \E entries \in Profiles : CallConfigureImix(entries)
              \/ \E reset \in BOOLEAN : CallStartTraffic(reset)
              \/ CallStopTraffic \/ NicDone \/ TimePasses \/ UNCHANGED genVars)
        BY <3>1
        DEF CallConfigureFlows, CallConfigureImix, CallStartTraffic, CallStopTraffic, Request,
            NicDone, TimePasses, genVars, local
      <4> QED BY <1>1, <4>1, <4>2 DEF GenNext
    <3>3. v = w
      BY <2>0, <3>2, OthersStay
    <3> QED BY <3>2, <3>3
            DEF WorkerStep, Poll, Pick, Build, Advance, Count, EndPick, Transmit
  <2> DEFINE c == CoreId[w]
  <2>2. c \in Cores /\ tx \in [Cores -> Nat] /\ seen[w] \in Nat /\ tx[c] \in Nat
    BY <2>0 DEF HandsType, CountInv
  <2>3. tx' = [tx EXCEPT ![c] = tx[c] + seen[w]]
    BY <2>1, <2>2 DEF Account
  <2> HIDE DEF c
  <2>4. tx' \in [Cores -> Nat] /\ tx'[c] > 0 /\ tx'[c] \in Nat
    BY <2>2, <2>3
  <2>5. tx'[c] <= Sum(tx', Cores) /\ Sum(tx', Cores) \in Nat
    BY <2>2, <2>4, CoresFinite, SumCovers, SumIsNat
  <2>6. Total(tx') = Sum(tx', Cores)
    <3>1. DOMAIN tx' = Cores
      BY <2>4
    <3> QED BY <3>1, TotalIsSum
  <2> QED BY <2>4, <2>5, <2>6
<1>2. LedgerInv /\ [GenNext]_genVars => [\A w \in Workers : Shown(w)]_genVars
  BY <1>1
<1> QED BY <1>2, LedgerAlways, PTL DEF GenSpec, TrafficIsCounted

-----------------------------------------------------------------------------
(* Sequence numbers. *)

\* The segment is stamped and the connection's number not yet advanced.
Stamping(w, id) == pc[w] = "advance" /\ Holds(w, id) /\ ~orphan[w]

\* Was one worker launched at most?
Alone == \A v, w \in setup.workers : v = w

\* The number of a connection between its segments, and while one is stamped.
SeqRight(id) ==
  /\ (\A w \in Workers : ~Stamping(w, id)) => seq[id] = built[id]
  /\ \A w \in Workers : Stamping(w, id) => seen[w] = seq[id] /\ built[id] = seq[id] + 1

\* While a worker alone stamps segments, its read of send_seq is not stale.
SeqInv ==
  /\ built \in [FlowIds -> Nat]
  /\ \A w \in Workers \ setup.workers : pc[w] = "poll"
  /\ Alone => \A id \in FlowIds : SeqRight(id)

\* The step of the worker that is alone.
LEMMA WorkerKeepsSeq ==
  ASSUME SeqInv, HandsInv, PacketInv, CountInv', Alone,
         NEW w \in setup.workers, w \in Workers, WorkerStep(w)
  PROVE  \A id \in FlowIds : SeqRight(id)'
<1>0. /\ HandsType /\ HandInv(w) /\ built \in [FlowIds -> Nat] /\ built' \in [FlowIds -> Nat]
  BY DEF HandsInv, SeqInv, CountInv
<1>5. \A v \in Workers \ {w}, id \in FlowIds : ~Stamping(v, id) /\ ~Stamping(v, id)'
  <2> SUFFICES ASSUME NEW v \in Workers \ {w} PROVE pc[v] = "poll" /\ pc'[v] = "poll"
    BY DEF Stamping
  <2>1. v \notin setup.workers
    BY DEF Alone
  <2>2. pc'[v] = pc[v]
    BY <1>0, OthersStay
  <2> QED BY <2>1, <2>2 DEF SeqInv
<1>6. \A id \in FlowIds :
        /\ ~Stamping(w, id) => seq[id] = built[id]
        /\ Stamping(w, id) => seen[w] = seq[id] /\ built[id] = seq[id] + 1
  BY <1>5 DEF SeqInv, SeqRight
<1>1. SUFFICES ASSUME NEW id \in FlowIds
               PROVE  /\ ~Stamping(w, id)' => seq'[id] = built'[id]
                      /\ Stamping(w, id)' => seen'[w] = seq'[id] /\ built'[id] = seq'[id] + 1
  BY <1>5 DEF SeqRight
<1>2. CASE Build(w)
  <2>1. held[w].id \in FlowIds /\ HeldRight(held[w], "build")
    BY <1>0, <1>6, <1>2 DEF Build, HandInv, PacketInv, Building
  <2>2. seq[id] = built[id] /\ UNCHANGED seq /\ seq[id] \in Nat
    BY <1>0, <1>6, <1>2 DEF Build, Stamping, HandsType
  <2>3. CASE pc'[w] = "pick" \/ pc'[w] = "count"
    <3>1. UNCHANGED built
      BY <1>0, <1>6, <1>2, <2>3 DEF Build, Release, Goto, HandsType
    <3>2. ~Stamping(w, id)'
      BY <2>3 DEF Stamping
    <3> QED BY <2>2, <3>1, <3>2
  <2>4. CASE pc'[w] = "advance"
    <3>1. /\ held'[w].id = held[w].id /\ UNCHANGED orphan[w]
          /\ IF ~orphan[w]
             THEN /\ seen'[w] = seq[held[w].id]
                  /\ built' = [built EXCEPT ![held[w].id] = @ + 1]
             ELSE UNCHANGED built
      BY <1>0, <1>6, <1>2, <2>1, <2>4 DEF Build, Release, Goto, HandsType, HeldRight
    <3> QED BY <1>0, <1>6, <2>1, <2>2, <2>4, <3>1 DEF Stamping, Holds, Building
  <2>5. pc'[w] \in {"pick", "count", "advance"}
    BY <1>0, <1>6, <1>2 DEF Build, Release, Goto, HandsType
  <2> QED BY <2>3, <2>4, <2>5
<1>3. CASE Advance(w)
  <2>1. /\ held[w].id \in FlowIds /\ pc[w] = "advance" /\ UNCHANGED built
        /\ ~Stamping(w, id)'
    BY <1>0, <1>6, <1>3 DEF Advance, HandInv, Building, Goto, HandsType, Stamping
  <2>2. CASE orphan[w]
    BY <1>0, <1>6, <1>3, <2>1, <2>2 DEF Advance, Stamping
  <2>3. CASE ~orphan[w]
    <3> DEFINE i == held[w].id
    <3>1. Stamping(w, i) /\ seen[w] = seq[i] /\ built[i] = seq[i] + 1
      BY <1>0, <1>6, <2>1, <2>3 DEF Stamping, Holds, Building
    <3>2. seq' = [seq EXCEPT ![i] = seq[i] + 1]
      BY <1>3, <2>3, <3>1 DEF Advance
    <3>3. id # i => ~Stamping(w, id)
      BY DEF Stamping, Holds
    <3> HIDE DEF i
    <3>4. CASE id = i
      BY <1>0, <1>6, <2>1, <3>1, <3>2, <3>4 DEF HandsType
    <3>5. CASE id # i
      BY <1>0, <1>6, <2>1, <3>2, <3>3, <3>5 DEF HandsType
    <3> QED BY <3>4, <3>5
  <2> QED BY <2>2, <2>3
<1>4. CASE Poll(w) \/ Pick(w) \/ Count(w) \/ EndPick(w) \/ Transmit(w) \/ Account(w)
  <2>1. UNCHANGED <<seq, built>> /\ pc[w] # "advance"
    BY <1>4 DEF Poll, Pick, Count, EndPick, Transmit, Account, counts
  <2>2. pc'[w] # "advance"
    BY <1>0, <1>4
    DEF Poll, Pick, Take, Count, EndPick, Transmit, Account, Release, Goto, HandsType
  <2> QED BY <1>0, <1>6, <2>1, <2>2 DEF Stamping
<1> QED BY <1>2, <1>3, <1>4 DEF WorkerStep

\* A flow that is replaced, which starts again at zero, and everything else.
LEMMA SeqNext ==
  ASSUME SeqInv, LedgerInv, LedgerInv', SchedulerTypeOK, [GenNext]_genVars
  PROVE  SeqInv'
<1>0. /\ HandsInv /\ HandsType /\ PacketInv /\ CountInv' /\ built' \in [FlowIds -> Nat]
      /\ UNCHANGED setup
  BY SetupStays DEF LedgerInv, HandsInv, CountInv
<1>1. CASE \E w \in Workers : WorkerStep(w)
  <2>1. PICK w \in Workers : WorkerStep(w)
    BY <1>1
  <2>2. w \in setup.workers
    <3>1. Poll(w) \/ pc[w] # "poll"
      BY <2>1 DEF WorkerStep, Pick, Build, Advance, Count, EndPick, Transmit, Account
    <3> QED BY <3>1 DEF Poll, SeqInv
  <2>3. \A v \in Workers \ setup'.workers : pc'[v] = "poll"
    <3>1. \A v \in Workers \ {w} : UNCHANGED pc[v]
      BY <1>0, <2>1, OthersStay
    <3> QED BY <1>0, <2>2, <3>1 DEF SeqInv
  <2>4. Alone => \A id \in FlowIds : SeqRight(id)'
    BY <1>0, <2>1, <2>2, WorkerKeepsSeq
  <2> QED BY <1>0, <2>3, <2>4 DEF SeqInv, Alone
<1>2. CASE UNCHANGED <<pc, held, orphan, seen, seq, built>>
  BY <1>0, <1>2 DEF SeqInv, SeqRight, Alone, Stamping, Holds
<1>3. CASE ConfigureOne
  <2> DEFINE i == Head(svc.batch).id
  <2>1. UNCHANGED <<pc, held, seen>>
    BY <1>3 DEF ConfigureOne
  <2>2. CASE UNCHANGED <<orphan, seq, built>>
    BY <1>2, <2>1, <2>2
  <2>3. CASE ~UNCHANGED <<orphan, seq, built>>
    <3>1. /\ orphan' = [w \in Workers |-> orphan[w] \/ Holds(w, i)]
          /\ seq' = [seq EXCEPT ![i] = 0] /\ built' = [built EXCEPT ![i] = 0]
      BY <1>3, <2>3 DEF ConfigureOne
    <3> HIDE DEF i
    <3>2. \A w \in Workers, id \in FlowIds :
            Stamping(w, id)' <=> Stamping(w, id) /\ ~Holds(w, i)
      <4>1. \A w \in Workers : orphan'[w] <=> (orphan[w] \/ Holds(w, i))
        BY <3>1, Zenon
      <4> QED BY <2>1, <4>1 DEF Stamping, Holds
    <3>3. \A w \in Workers, id \in FlowIds : id # i /\ Holds(w, id) => ~Holds(w, i)
      BY DEF Holds
    <3>4. ASSUME NEW id \in FlowIds, SeqRight(id) PROVE SeqRight(id)'
      <4>1. CASE id = i
        <5>1. seq'[id] = 0 /\ built'[id] = 0
          BY <1>0, <3>1, <4>1 DEF HandsType, SeqInv
        <5>2. \A w \in Workers : ~Stamping(w, id)'
          BY <3>2, <4>1 DEF Stamping
        <5> QED BY <5>1, <5>2 DEF SeqRight
      <4>2. CASE id # i
        <5>1. UNCHANGED <<seq[id], built[id]>>
          BY <1>0, <3>1, <4>2 DEF HandsType, SeqInv
        <5>2. \A w \in Workers : Stamping(w, id)' <=> Stamping(w, id)
          BY <3>2, <3>3, <4>2 DEF Stamping
        <5> QED BY <2>1, <3>4, <5>1, <5>2 DEF SeqRight
      <4> QED BY <4>1, <4>2
    <3> QED BY <1>0, <2>1, <3>4 DEF SeqInv, Alone
  <2> QED BY <2>2, <2>3
<1>4. CASE \/ EndConfigure \/ ResetCore \/ Snapshot \/ StartOne \/ EndStart \/ BeginStop
           \/ StopOne \/ EndStop \/ NicDone \/ TimePasses \/ UNCHANGED genVars
  BY <1>2, <1>4
  DEF EndConfigure, ResetCore, Snapshot, StartOne, EndStart, BeginStop, StopOne, EndStop, NicDone,
      TimePasses, genVars, local, counts
<1>5. CASE \/ \E batch \in Batches : CallConfigureFlows(batch)
           \/ \E entries \in Profiles : CallConfigureImix(entries)
           \/ \E reset \in BOOLEAN : CallStartTraffic(reset)
           \/ CallStopTraffic
  BY <1>2, <1>5
  DEF CallConfigureFlows, CallConfigureImix, CallStartTraffic, CallStopTraffic, Request, local,
      counts
<1> QED BY <1>1, <1>3, <1>4, <1>5 DEF GenNext, ServiceStep

\* With one worker, between segments send_seq stands behind every segment of the
\* connection, also when the flow is replaced while a segment of it is stamped
\* (worker.cpp:282-291).
THEOREM GenNextSequence == GenSpec => []NextSequenceAlone
<1>1. GenInit => SeqInv
  BY DEF GenInit, SeqInv, SeqRight, Stamping
<1>2. SeqInv /\ LedgerInv /\ LedgerInv' /\ SchedulerTypeOK /\ [GenNext]_genVars => SeqInv'
  BY SeqNext
<1>3. SeqInv => NextSequenceAlone
  BY DEF SeqInv, SeqRight, Alone, NextSequenceAlone, NextSequence, Stamping, Present
<1> QED
  BY <1>1, <1>2, <1>3, LedgerAlways, GenImplementsScheduler, SchedulerTypeCorrect, PTL DEF GenSpec

-----------------------------------------------------------------------------
(* What a client sees. *)

\* A client's view of a handler's step (server.cpp:57-161).
LEMMA HandlerSeen ==
  ASSUME StopInv, SchedulerTypeOK, ServiceStep
  PROVE  Control!Next \/ UNCHANGED Control!controlVars
<1>0. flows \in [FlowIds -> Flows \cup {NoFlow}] /\ now \in Nat /\ HandlerInv
  BY DEF StopInv, SchedulerTypeOK
<1>1. CASE ConfigureOne
  <2>1. UNCHANGED <<running, out>> /\ svc.op = "configure" /\ svc'.op = "configure"
    BY <1>0, <1>1 DEF ConfigureOne, HandlerInv
  <2>2. \A id \in Present' : flows'[id].active => id \in Present /\ flows[id].active
    BY <1>0, <1>1 DEF ConfigureOne, AddFlow, NewFlow, Present, schedulerVars
  <2>3. Active' \in SUBSET Active /\ UNCHANGED Call
    BY <2>1, <2>2 DEF Active, Call
  <2> QED BY <2>1, <2>3 DEF Control!Next, Control!Deactivate
<1>2. CASE EndConfigure
  <2>1. UNCHANGED <<flows, running, out>> /\ svc.op = "configure" /\ svc'.op = "idle"
    BY <1>2 DEF EndConfigure, Idle, schedulerVars, counts
  <2>2. Call = "configure" /\ Call' = "none" /\ UNCHANGED Active
    BY <2>1 DEF Call, Active, Present
  <2> QED BY <2>1, <2>2 DEF Control!Next, Control!Configured
<1>3. CASE ResetCore
  <2>1. /\ UNCHANGED <<flows, running, out>>
        /\ svc.op = "reset" /\ svc'.op \in {"reset", "snapshot"}
    BY <1>0, <1>3 DEF ResetCore, HandlerInv, schedulerVars
  <2>2. UNCHANGED <<Call, Active>>
    BY <2>1 DEF Call, Active, Present
  <2> QED BY <2>1, <2>2 DEF Control!controlVars
<1>4. CASE Snapshot
  <2>1. /\ UNCHANGED <<flows, running, out>> /\ svc.op = "snapshot"
        /\ svc'.op = "start" \/ (svc'.op = "idle" /\ Present = {})
    BY <1>4 DEF Snapshot, Idle, schedulerVars, counts
  <2>2. CASE svc'.op = "start"
    BY <2>1, <2>2 DEF Call, Active, Present, Control!controlVars
  <2>3. CASE svc'.op = "idle" /\ Present = {}
    <3>1. Call = "start" /\ Call' = "none" /\ Active = {} /\ UNCHANGED Active
      BY <2>1, <2>3 DEF Call, Active, Present
    <3> QED BY <2>1, <3>1 DEF Control!Next, Control!NothingToStart
  <2> QED BY <2>1, <2>2, <2>3
<1>5. CASE StartOne
  <2>1. PICK id \in svc.ids : StartFlow(id)
    BY <1>5 DEF StartOne
  <2>2. UNCHANGED <<running, out>> /\ svc.op = "start" /\ svc'.op = "start"
    BY <1>0, <1>5 DEF StartOne, HandlerInv, counts
  <2>3. id \in FlowIds /\ Active' = Active \cup {id}
    <3>1. id \in FlowIds /\ flows[id] \in Flows
      BY <1>0, <2>1 DEF StartFlow, Present
    <3> DEFINE f == flows[id]
               g == [f EXCEPT !.start = now, !.active = TRUE, !.bucket = AfterReset(f.bucket, now)]
    <3>2. flows' = [flows EXCEPT ![id] = g]
      BY <2>1 DEF StartFlow
    <3>3. g \in Flows /\ g.active
      BY <1>0, <3>1 DEF Flows, AfterReset, Buckets
    <3>4. g # NoFlow
      BY <3>3, NoFlowAssumption
    <3> HIDE DEF g
    <3>5. \A i \in FlowIds : flows'[i] = IF i = id THEN g ELSE flows[i]
      BY <1>0, <3>1, <3>2
    <3> QED BY <3>1, <3>3, <3>4, <3>5 DEF Active, Present
  <2>4. Call = "start" /\ Call' = "start"
    BY <2>2 DEF Call
  <2> QED BY <2>2, <2>3, <2>4 DEF Control!Next, Control!Activate
<1>6. CASE EndStart
  <2>1. /\ UNCHANGED flows /\ svc.op = "start" /\ svc'.op = "idle"
        /\ running' = TRUE /\ out' = [w \in Workers |-> 0]
    BY <1>6 DEF EndStart, Idle, schedulerVars
  <2>2. Call = "start" /\ Call' = "none" /\ UNCHANGED Active
    BY <2>1 DEF Call, Active, Present
  <2> QED BY <2>1, <2>2 DEF Control!Next, Control!Started
<1>7. CASE BeginStop
  <2>1. /\ UNCHANGED <<flows, running, out>> /\ svc.op = "stopping" /\ svc'.op = "stop"
    BY <1>7 DEF BeginStop, schedulerVars, counts
  <2> QED BY <2>1 DEF Call, Active, Present, Control!controlVars
<1>8. CASE StopOne
  <2>1. PICK id \in svc.ids : StopFlow(id)
    BY <1>8 DEF StopOne
  <2>2. UNCHANGED <<running, out>> /\ svc.op = "stop" /\ svc'.op = "stop"
    BY <1>0, <1>8 DEF StopOne, HandlerInv, counts
  <2>3. Active' \in SUBSET Active /\ UNCHANGED Call
    BY <1>0, <2>1, <2>2 DEF StopFlow, Active, Present, Flows, Call
  <2> QED BY <2>2, <2>3 DEF Control!Next, Control!Deactivate
<1>9. CASE EndStop
  <2>1. /\ UNCHANGED <<flows, out>> /\ svc.op = "stop" /\ svc.ids = {}
        /\ running' = FALSE /\ svc'.op = "idle"
    BY <1>9 DEF EndStop, Idle, schedulerVars, counts
  <2>2. Active = {} /\ UNCHANGED Active
    BY <2>1 DEF StopInv, Active, Present
  <2>3. Call = "stop" /\ Call' = "none"
    BY <2>1 DEF Call
  <2> QED BY <2>1, <2>2, <2>3 DEF Control!Next, Control!Stopped
<1> QED BY <1>1, <1>2, <1>3, <1>4, <1>5, <1>6, <1>7, <1>8, <1>9 DEF ServiceStep

\* And of a worker's: a flow's end, or the burst that was in its hands
\* (flow_scheduler.cpp:154-159, worker.cpp:317-318).
LEMMA WorkerSeen ==
  ASSUME StopInv, HandsInv, NEW w \in Workers, WorkerStep(w)
  PROVE  Control!Next \/ UNCHANGED Control!controlVars
<1>1. UNCHANGED <<svc, running, Call>>
  BY DEF WorkerStep, Poll, Pick, Build, Advance, Count, EndPick, Transmit, Account, service, Call
<1>2. CASE Poll(w)
  <2>1. \A id \in Present' : flows'[id].active => id \in Present /\ flows[id].active
    BY <1>2, PollActivatesNone DEF Poll
  <2>2. Active' \in SUBSET Active /\ UNCHANGED out
    BY <1>2, <2>1 DEF Active, Poll, counts
  <2> QED BY <1>1, <2>2 DEF Control!Next, Control!Deactivate
<1>3. CASE Transmit(w)
  <2>1. PICK n \in 0 .. burst[w] : out' = IF Quiet THEN [out EXCEPT ![w] = @ + n] ELSE out
    BY <1>3 DEF Transmit
  <2>2. UNCHANGED Active /\ pc[w] = "transmit"
    BY <1>3 DEF Transmit, Active, Present, schedulerVars
  <2>3. n \in 0 .. TxBurst
    <3>1. burst[w] \in Nat /\ Len(ready[w]) \in Nat /\ Making(w) \in Nat /\ TxBurst \in Nat
      BY WorkerAssumption DEF HandsInv, HandsType, Making
    <3>2. burst[w] + Len(ready[w]) + Making(w) <= TxBurst
      BY DEF HandsInv, HandInv
    <3> QED BY <3>1, <3>2
  <2>4. CASE Quiet
    <3>1. ~running /\ Active = {} /\ out[w] = 0
      BY <2>2, <2>4 DEF StopInv, Quiet, Active, Building
    <3>2. out' = [out EXCEPT ![w] = n]
      BY <2>1, <2>3, <2>4, <3>1
    <3>3. CASE n = 0
      <4>1. UNCHANGED out
        BY <3>1, <3>2, <3>3 DEF HandsInv, HandsType
      <4> QED BY <1>1, <2>2, <4>1 DEF Control!controlVars
    <3>4. CASE n # 0
      <4>1. n \in 1 .. TxBurst
        BY <2>3, <3>4, WorkerAssumption
      <4> QED BY <1>1, <2>2, <3>1, <3>2, <4>1 DEF Control!Next, Control!LetOut
    <3> QED BY <3>3, <3>4
  <2>5. CASE ~Quiet
    BY <1>1, <2>1, <2>2, <2>5 DEF Control!controlVars
  <2> QED BY <2>4, <2>5
<1>4. CASE Pick(w) \/ Build(w) \/ Advance(w) \/ Count(w) \/ EndPick(w) \/ Account(w)
  <2>1. UNCHANGED <<flows, out>>
    BY <1>4 DEF Pick, Build, Advance, Count, EndPick, Account, schedulerVars, counts
  <2> QED BY <1>1, <2>1 DEF Active, Present, Control!controlVars
<1> QED BY <1>2, <1>3, <1>4 DEF WorkerStep

\* The generator keeps what the service promises its client.
THEOREM GenKeepsPromises == GenSpec => KeepsPromises
<1>1. GenInit => Control!Init
  <2> SUFFICES ASSUME GenInit PROVE Control!Init
    OBVIOUS
  <2>1. Present = {} /\ svc.op = "idle"
    BY DEF GenInit, SchedulerInit, Present, Idle
  <2> QED BY <2>1 DEF GenInit, Active, Call, Control!Init
<1>2. LedgerInv /\ SchedulerTypeOK /\ [GenNext]_genVars => [Control!Next]_(Control!controlVars)
  <2> SUFFICES ASSUME LedgerInv, SchedulerTypeOK, [GenNext]_genVars
               PROVE  Control!Next \/ UNCHANGED Control!controlVars
    OBVIOUS
  <2>0. StopInv /\ HandsInv
    BY DEF LedgerInv
  <2>1. CASE \/ \E batch \in Batches : CallConfigureFlows(batch)
             \/ \E reset \in BOOLEAN : CallStartTraffic(reset)
             \/ CallStopTraffic
    <3>1. /\ UNCHANGED <<flows, running, out>> /\ svc.op = "idle"
          /\ svc'.op \in {"configure", "reset", "snapshot", "stopping"}
      BY <2>1 DEF CallConfigureFlows, CallStartTraffic, CallStopTraffic, Request, Idle,
                  schedulerVars, counts
    <3>2. Call = "none" /\ Call' \in {"configure", "start", "stop"} /\ UNCHANGED Active
      BY <3>1 DEF Call, Active, Present
    <3> QED BY <3>1, <3>2 DEF Control!Next, Control!Begin
  <2>2. CASE \/ \E entries \in Profiles : CallConfigureImix(entries)
             \/ NicDone \/ TimePasses \/ UNCHANGED genVars
    <3>1. UNCHANGED <<flows, svc, running, out>>
      BY <2>2 DEF CallConfigureImix, NicDone, TimePasses, Tick, genVars, schedulerVars, local,
                  counts, service
    <3> QED BY <3>1 DEF Call, Active, Present, Control!controlVars
  <2> QED BY <2>0, <2>1, <2>2, HandlerSeen, WorkerSeen DEF GenNext
<1> QED BY <1>1, <1>2, LedgerAlways, GenImplementsScheduler, SchedulerTypeCorrect, PTL
        DEF GenSpec, KeepsPromises, Control!Spec

=============================================================================
