-------------------------- MODULE LifecycleProofs --------------------------
(***************************************************************************)
(* Theorems about the start and the end of the process, for any            *)
(* configuration files, machines, numbers of workers, signals and calls,   *)
(* and any widths of the configuration's fields.                           *)
(***************************************************************************)
EXTENDS Lifecycle, TLAPS

-----------------------------------------------------------------------------
(* Configurations. *)

PortConfigs == [port_id : Nat, nb_rx_queues : Nat, nb_tx_queues : Nat,
                nb_rx_desc : Nat, nb_tx_desc : Nat]

\* A number that is parsed is a natural number, whatever the text gives.
LEMMA NumberType ==
  ASSUME NEW fields, NEW key \in DOMAIN fields, fields[key] \in Nat \ {0},
         NEW text, \A k \in DOMAIN text : text[k] \in Nat
  PROVE  Number(text, key, fields[key], 0) \in Nat
<1>1. \A n \in Nat, w \in Nat \ {0} : n % w \in Nat
  OBVIOUS
<1> QED BY <1>1 DEF Number

\* An object of the array "ports" is a port's configuration.
LEMMA PortType ==
  ASSUME NEW text, \A key \in DOMAIN text : text[key] \in Nat
  PROVE  Object(text, PortFields) \in PortConfigs
<1>1. \A key \in DOMAIN PortFields : PortFields[key] \in Nat \ {0}
  BY WidthAssumption DEF PortFields
<1>2. \A key \in DOMAIN PortFields : Object(text, PortFields)[key] \in Nat
  BY <1>1, NumberType DEF Object
<1>3. /\ DOMAIN PortFields = {"port_id", "nb_rx_queues", "nb_tx_queues", "nb_rx_desc", "nb_tx_desc"}
      /\ Object(text, PortFields) = [key \in DOMAIN PortFields |-> Object(text, PortFields)[key]]
  BY DEF PortFields, Object
<1> QED BY <1>2, <1>3 DEF PortConfigs

\* The ports of get_default_config are configurations of ports.
LEMMA DefaultPorts == Defaults.ports \in Seq(PortConfigs)
BY DEF Defaults, PortConfigs

\* The ports of a configuration that was parsed are configurations of ports.
LEMMA ParsedPorts ==
  ASSUME NEW text \in Texts
  PROVE  Parse(text).ports \in Seq(PortConfigs)
<1>1. Parse(text).ports = Objects(text, "ports", PortFields)
  BY DEF Parse
<1>2. CASE "ports" \in DOMAIN text
  <2>1. IsArray(text.ports)
    BY <1>2, TextAssumption
  <2>2. \A i \in DOMAIN text.ports : Object(text.ports[i], PortFields) \in PortConfigs
    BY <2>1, PortType DEF IsArray
  <2>3. Len(text.ports) \in Nat /\ DOMAIN text.ports = 1 .. Len(text.ports)
    BY <2>1 DEF IsArray
  <2>4. Objects(text, "ports", PortFields) =
          [i \in DOMAIN text.ports |-> Object(text.ports[i], PortFields)]
    BY <1>2 DEF Objects
  <2> QED BY <1>1, <2>2, <2>3, <2>4
<1>3. CASE "ports" \notin DOMAIN text
  BY <1>1, <1>3, DefaultPorts DEF Objects, Defaults
<1> QED BY <1>2, <1>3

-----------------------------------------------------------------------------
(* The start of the process. *)

Before == {"options", "eal", "field", "read", "validate"}
After  == {"server", "initialize", "building", "start", "starting", "launch",
           "loop", "stop", "stopping", "workers", "join", "done"}

\* The port that entry i describes was set up, if the machine has it.
WasSetUp(i) ==
  config.ports[i].port_id \in DOMAIN ports => ports[config.ports[i].port_id] # "down"

\* The inductive invariant of main's first half: what main has set up by when,
\* and that only described ports were started and only the end stops them.
StartInv ==
  /\ machine \in Machines
  /\ config.ports \in Seq(PortConfigs)
  /\ pools \in Seq(Nat)
  /\ ports \in [0 .. machine.ports - 1 -> {"down", "started", "stopped"}]
  /\ next \in Nat
  /\ pc \in Before \cup {"pools", "ports", "components", "failed"} \cup After
  /\ pc \in {"pools", "ports", "components"} \cup After => Valid(config)
  /\ pc \in Before \cup {"pools"} =>
       next = 1 /\ \A p \in DOMAIN ports : ports[p] = "down"
  /\ pc = "ports" =>
       /\ pools # << >> /\ next \in 1 .. Len(config.ports)
       /\ \A i \in 1 .. next - 1 : WasSetUp(i)
  /\ pc \in {"components"} \cup After => \A i \in DOMAIN config.ports : WasSetUp(i)
  /\ \A p \in DOMAIN ports : ports[p] = "started" => Described(config, p)
  /\ \A p \in DOMAIN ports : ports[p] = "stopped" => pc = "done"
  /\ NoPortLeftRunning
  /\ QueuesUsable

\* The process begins with nothing set up.
LEMMA StartInit == Init => StartInv
<1> SUFFICES ASSUME Init PROVE StartInv
  OBVIOUS
<1>1. machine.ports \in Nat
  BY MachineAssumption DEF Init, StartupInit
<1>2. /\ ports \in [0 .. machine.ports - 1 -> {"down", "started", "stopped"}]
      /\ \A p \in DOMAIN ports : ports[p] = "down"
  BY DEF Init, StartupInit
<1>3. config.ports \in Seq(PortConfigs)
  BY DefaultPorts DEF Init, StartupInit
<1> QED
  BY <1>1, <1>2, <1>3
  DEF Init, StartupInit, StartInv, Before, After, NoPortLeftRunning, QueuesUsable

\* What ConfigurePort hands to DPDK.
LEMMA UsableQueues ==
  ASSUME StartInv, pc = "ports"
  PROVE  \A q \in QueuesOf(config.ports[next]) : q.desc > 0 /\ (q.kind = "rx" => q.pool # NoPool)
<1> DEFINE port == config.ports[next]
<1>1. /\ port \in PortConfigs
      /\ next \in DOMAIN config.ports
      /\ pools \in Seq(Nat) /\ pools # << >>
  BY DEF StartInv
<1>2. port.nb_rx_desc \in Nat \ {0} /\ port.nb_tx_desc \in Nat \ {0}
  BY <1>1 DEF StartInv, Valid, Usable, PortConfigs
<1>3. \A socket : GetMempool(socket) # NoPool
  <2>1. \A i \in DOMAIN pools : pools[i] \in Nat
    BY <1>1
  <2>2. pools[1] \in Nat
    BY <1>1
  <2> QED BY <1>1, <2>1, <2>2, PoolAssumption DEF GetMempool
<1>4. \A q \in QueuesOf(port) :
        /\ q.desc \in {port.nb_rx_desc, port.nb_tx_desc}
        /\ q.kind = "rx" => \E s : q.pool = GetMempool(s)
  BY DEF QueuesOf
<1> QED BY <1>2, <1>3, <1>4

\* configure_ports sets up the ports of the configuration one after the other.
LEMMA PortKeeps ==
  ASSUME StartInv, pc = "ports", SkipPort \/ ConfigurePort
  PROVE  StartInv'
<1> DEFINE port == config.ports[next]
<1>1. /\ port \in PortConfigs /\ port.port_id \in Nat
      /\ next \in 1 .. Len(config.ports) /\ Len(config.ports) \in Nat
      /\ DOMAIN config.ports = 1 .. Len(config.ports)
      /\ machine.ports \in Nat
      /\ DOMAIN ports = 0 .. machine.ports - 1
  <2>1. next \in 1 .. Len(config.ports) /\ config.ports \in Seq(PortConfigs)
    BY DEF StartInv
  <2>2. port \in PortConfigs
    BY <2>1
  <2>3. port.port_id \in Nat
    BY <2>2 DEF PortConfigs
  <2>4. machine.ports \in Nat /\ DOMAIN ports = 0 .. machine.ports - 1
    BY MachineAssumption DEF StartInv
  <2> QED BY <2>1, <2>2, <2>3, <2>4
<1>2. /\ UNCHANGED <<machine, config, pools>>
      /\ next' = IF next = Len(config.ports) THEN 1 ELSE next + 1
      /\ pc' = IF next = Len(config.ports) THEN "components" ELSE "ports"
  BY DEF SkipPort, ConfigurePort, NextPort, Goto
<1>3. /\ ports' \in [0 .. machine.ports - 1 -> {"down", "started", "stopped"}]
      /\ \A p \in DOMAIN ports : ports'[p] = ports[p] \/ (p = port.port_id /\ ports'[p] = "started")
      /\ port.port_id \in DOMAIN ports => ports'[port.port_id] # "down"
  <2>1. CASE SkipPort
    BY <1>1, <2>1 DEF SkipPort, StartInv
  <2>2. CASE ConfigurePort
    BY <1>1, <2>2 DEF ConfigurePort, StartInv
  <2> QED BY <2>1, <2>2
<1>4. DOMAIN ports' = DOMAIN ports
  BY <1>1, <1>3
<1>5. \A i \in 1 .. Len(config.ports) : (i < next => WasSetUp(i)) /\ (i <= next => WasSetUp(i)')
  <2> TAKE i \in 1 .. Len(config.ports)
  <2>1. i < next => WasSetUp(i)
    BY <1>1 DEF StartInv
  <2>2. WasSetUp(i) \/ i = next => WasSetUp(i)'
    BY <1>2, <1>3, <1>4 DEF WasSetUp
  <2> QED BY <1>1, <2>1, <2>2
<1>6. pc' = "ports" => next' \in 1 .. Len(config.ports) /\ next' = next + 1
  BY <1>1, <1>2
<1>7. pc' = "ports" => \A i \in 1 .. next' - 1 : WasSetUp(i)'
  BY <1>1, <1>5, <1>6
<1>8. pc' = "components" => \A i \in DOMAIN config'.ports : WasSetUp(i)'
  BY <1>1, <1>2, <1>5
<1>9. \A p \in DOMAIN ports' :
        (ports'[p] = "started" => Described(config', p)) /\ ports'[p] # "stopped"
  BY <1>1, <1>2, <1>3, <1>4 DEF StartInv, Described
<1>10. QueuesUsable'
  <2>1. queues' \subseteq queues \cup QueuesOf(port)
    BY DEF SkipPort, ConfigurePort
  <2> QED BY <2>1, UsableQueues DEF QueuesUsable, StartInv
<1>11. pc' \in {"ports", "components"} /\ next' \in Nat
  BY <1>1, <1>2
<1>12. Valid(config)'
  BY <1>2 DEF StartInv, Valid, Described
<1> QED
  BY <1>2, <1>3, <1>6, <1>7, <1>8, <1>9, <1>10, <1>11, <1>12
  DEF StartInv, Before, After, NoPortLeftRunning

\* Every other step of main's first half.
LEMMA StartupKeeps ==
  ASSUME StartInv, StartupStep
  PROVE  StartInv'
<1>1. CASE UNCHANGED startVars /\ pc \in Before /\ pc' \in Before \cup {"failed"}
  BY <1>1 DEF startVars, StartInv, Before, After, WasSetUp, Valid, Described,
              NoPortLeftRunning, QueuesUsable
<1>2. CASE ReadConfig
  <2>1. config'.ports \in Seq(PortConfigs)
    BY <1>2, DefaultPorts, ParsedPorts DEF ReadConfig
  <2>2. \A p \in DOMAIN ports : ports[p] = "down"
    BY <1>2 DEF ReadConfig, Goto, StartInv, Before
  <2> QED
    BY <1>2, <2>1, <2>2
    DEF ReadConfig, Goto, StartInv, Before, After, NoPortLeftRunning, QueuesUsable
<1>3. CASE ValidateConfig
  BY <1>3 DEF ValidateConfig, Goto, startVars, StartInv, Before, After, WasSetUp, Valid, Described,
              NoPortLeftRunning, QueuesUsable
<1>4. CASE CreatePool
  <2>1. /\ UNCHANGED <<machine, config, next, queues, ports>>
        /\ pc = "pools" /\ pc' \in {"pools", "ports", "failed"}
        /\ pc' = "ports" => pools' = Append(pools, Len(pools))
        /\ pools' = Append(pools, Len(pools)) \/ pools' = << >>
    BY <1>4 DEF CreatePool, Goto
  <2>2. pools' \in Seq(Nat) /\ (pc' = "ports" => pools' # << >>)
    <3>1. pools \in Seq(Nat) /\ Len(pools) \in Nat
      BY DEF StartInv
    <3>2. /\ Append(pools, Len(pools)) \in Seq(Nat)
          /\ Len(Append(pools, Len(pools))) = Len(pools) + 1
      BY <3>1
    <3>3. CASE pools' = Append(pools, Len(pools))
      <4>1. pools' \in Seq(Nat) /\ Len(pools') = Len(pools) + 1
        BY <3>2, <3>3
      <4>2. pools' # << >>
        BY <3>1, <4>1
      <4> QED BY <4>1, <4>2
    <3>4. CASE pools' = << >> /\ pc' # "ports"
      BY <3>4
    <3> QED BY <2>1, <3>3, <3>4
  <2>3. /\ \A p \in DOMAIN ports : ports[p] = "down"
        /\ next = 1 /\ Valid(config)
    BY <2>1 DEF StartInv
  <2>4. pc' = "ports" => next' \in 1 .. Len(config'.ports)
    <3>1. config.ports # << >> /\ config.ports \in Seq(PortConfigs)
      BY <2>3 DEF Valid, StartInv
    <3> QED BY <2>1, <2>3, <3>1
  <2>5. \A i \in 1 .. next' - 1 : WasSetUp(i)'
    BY <2>1, <2>3
  <2>6. Valid(config)'
    BY <2>1, <2>3 DEF Valid, Described
  <2> QED
    BY <2>1, <2>2, <2>3, <2>4, <2>5, <2>6
    DEF StartInv, Before, After, Described, NoPortLeftRunning, QueuesUsable
<1>5. CASE pc = "ports" /\ (SkipPort \/ ConfigurePort)
  BY <1>5, PortKeeps
<1>6. CASE pc = "ports" /\ PortFails
  BY <1>6 DEF PortFails, Goto, startVars, StartInv, Before, After, WasSetUp, Valid, Described,
              NoPortLeftRunning, QueuesUsable
<1>7. CASE MakeComponents
  BY <1>7 DEF MakeComponents, Goto, startVars, StartInv, Before, After, WasSetUp, Valid, Described,
              NoPortLeftRunning, QueuesUsable
<1>8. CASE ParseOptions \/ InitializeDpdk \/ RegisterDynfield \/ GiveUp
  BY <1>1, <1>8
  DEF ParseOptions, InitializeDpdk, RegisterDynfield, GiveUp, Goto, Before
<1> QED BY <1>2, <1>3, <1>4, <1>5, <1>6, <1>7, <1>8 DEF StartupStep

\* Once everything is set up, only StopPorts touches what was.
LEMMA LaterKeeps ==
  ASSUME StartInv, UNCHANGED startVars,
         pc' = pc \/ (pc \in After \ {"done"} /\ pc' \in After \ {"done"})
  PROVE  StartInv'
BY DEF startVars, StartInv, Before, After, WasSetUp, Valid, Described,
       NoPortLeftRunning, QueuesUsable

\* The end of main stops every described port that runs (main.cpp:356-363).
LEMMA StopPortsKeeps ==
  ASSUME StartInv, StopPorts
  PROVE  StartInv'
<1>1. /\ pc = "join" /\ pc' = "done"
      /\ UNCHANGED <<machine, config, pools, next, queues>>
      /\ ports' = [p \in DOMAIN ports |-> IF Described(config, p) THEN "stopped" ELSE ports[p]]
  BY DEF StopPorts, StopConfigured, MainAt
<1>2. /\ DOMAIN ports' = DOMAIN ports
      /\ \A p \in DOMAIN ports :
           ports'[p] = "stopped" \/ (ports'[p] = ports[p] /\ ~Described(config, p))
  BY <1>1
<1>3. \A p \in DOMAIN ports : ports'[p] # "started"
  BY <1>2 DEF StartInv
<1>4. \A i \in DOMAIN config'.ports : WasSetUp(i)'
  BY <1>1, <1>2 DEF StartInv, After, WasSetUp
<1>5. ports' \in [0 .. machine'.ports - 1 -> {"down", "started", "stopped"}]
  BY <1>1 DEF StartInv
<1>6. Valid(config)'
  BY <1>1 DEF StartInv, After, Valid, Described
<1> QED
  BY <1>1, <1>2, <1>3, <1>4, <1>5, <1>6
  DEF StartInv, Before, After, NoPortLeftRunning, QueuesUsable

\* Every step of main, of a signal's handler, of a worker or of a call keeps what
\* main's set-up established.
THEOREM StartNext == StartInv /\ [Next]_vars => StartInv'
<1> SUFFICES ASSUME StartInv, [Next]_vars PROVE StartInv'
  OBVIOUS
<1>1. CASE SetUp
  BY <1>1, StartupKeeps DEF SetUp
<1>2. CASE StopPorts
  BY <1>2, StopPortsKeeps
<1>3. CASE MainStep /\ ~SetUp /\ ~StopPorts
  <2>1. /\ UNCHANGED startVars
        /\ pc' = pc \/ (pc \in After \ {"done"} /\ pc' \in After \ {"done"})
    BY <1>3 DEF MainStep, MakeServer, Lock, BuildServer, ServerStarted, StartWorker, PushWorker,
                EnterLoop, LeaveLoop, MainShutdown, AskWorkers, JoinWorker, MainAt, After
  <2> QED BY <2>1, LaterKeeps
<1>4. CASE Next /\ ~MainStep
  <2>1. UNCHANGED <<startVars, pc>>
    BY <1>4 DEF Next, Signal, HandlerStep, HandlerLock, HandlerShutdown, HandlerReturn, WorkerEnds,
                BeginCall, EndCall
  <2> QED BY <2>1, LaterKeeps
<1>5. CASE UNCHANGED vars
  BY <1>5, LaterKeeps DEF vars
<1> QED BY <1>1, <1>2, <1>3, <1>4, <1>5

-----------------------------------------------------------------------------
(* Workers, the gRPC server and its calls. *)

Running  == {"launch", "loop", "stop", "stopping", "workers", "join", "done"}
Launched == Running \ {"launch"}

\* The inductive invariant of the workers and the server: a worker that was
\* asked to stop is in g_workers, and g_workers has every worker that was
\* started once main is past launch_workers.
RunInv ==
  /\ inFlight \in Nat
  /\ server \in {"none", "serving", "draining", "down"}
  /\ server \in {"none", "down"} => inFlight = 0
  /\ pc \in {"workers", "join", "done"} => server \in {"none", "down"}
  /\ thread \in [Workers -> {"none", "looping", "finished", "joined"}]
  /\ shouldStop \in [Workers -> BOOLEAN]
  /\ vector \subseteq launched /\ launched \subseteq Workers /\ launched \subseteq Enabled
  /\ \A w \in Workers : thread[w] # "none" => w \in launched
  /\ \A w \in Workers : shouldStop[w] => w \in vector
  /\ pc \notin Running => launched = {}
  /\ pc \in Launched => vector = launched
  /\ pc = "done" => \A w \in Workers : thread[w] \in {"none", "joined"}

\* The process begins without a server, workers or calls.
THEOREM RunInit == Init => RunInv
BY DEF Init, StartupInit, RunInv, Running, Launched

\* What main's first half leaves alone.
LEMMA SetUpKeeps ==
  ASSUME RunInv, StartInv, SetUp
  PROVE  RunInv'
<1>1. UNCHANGED <<inFlight, server, launched, vector, thread, shouldStop>>
  BY DEF SetUp, UnchangedByMain, serverVars, workerVars
<1>2. pc \notin Running /\ pc' \notin Running
  BY DEF SetUp, StartupStep, ParseOptions, InitializeDpdk, RegisterDynfield, GiveUp, ReadConfig,
         ValidateConfig, CreatePool, SkipPort, ConfigurePort, NextPort, PortFails, MakeComponents,
         Goto, Running
<1> QED BY <1>1, <1>2 DEF RunInv, Running, Launched

\* The steps of main that touch the workers.
LEMMA StartWorkerKeeps ==
  ASSUME RunInv, NEW w \in Workers, StartWorker(w)
  PROVE  RunInv'
BY DEF RunInv, StartWorker, NextToLaunch, MainAt, UnchangedByMain, serverVars, startVars, Enabled,
       Running, Launched

\* The steps of main that touch g_workers and the threads.
LEMMA WorkersKeep ==
  ASSUME RunInv, PushWorker \/ EnterLoop \/ AskWorkers \/ \E w \in Workers : JoinWorker(w)
  PROVE  RunInv'
<1>1. CASE PushWorker
  BY <1>1 DEF RunInv, PushWorker, MainAt, UnchangedByMain, serverVars, startVars, Enabled, Running,
              Launched
<1>2. CASE EnterLoop
  BY <1>2 DEF RunInv, EnterLoop, MainAt, UnchangedByMain, serverVars, workerVars, startVars,
              Enabled, Running, Launched
<1>3. CASE AskWorkers
  BY <1>3 DEF RunInv, AskWorkers, MainAt, UnchangedByMain, serverVars, startVars, Enabled, Running,
              Launched
<1>4. CASE \E w \in Workers : JoinWorker(w)
  BY <1>4 DEF RunInv, JoinWorker, MainAt, UnchangedByMain, serverVars, startVars, Enabled, Running,
              Launched
<1> QED BY <1>1, <1>2, <1>3, <1>4

\* The ports are stopped when every worker was joined.
LEMMA StopPortsQuiet ==
  ASSUME RunInv, StopPorts
  PROVE  RunInv'
<1>1. \A w \in Workers : thread[w] \in {"none", "joined"}
  BY DEF RunInv, StopPorts, MainAt, Running, Launched
<1> QED
  BY <1>1 DEF RunInv, StopPorts, StopConfigured, MainAt, UnchangedByMain, serverVars, workerVars,
              Enabled, Running, Launched

\* The steps of main that touch the server only.
LEMMA ServerKeeps ==
  ASSUME RunInv,
         \/ MakeServer \/ BuildServer \/ ServerStarted \/ LeaveLoop \/ MainShutdown
         \/ Lock("initialize", "building") \/ Lock("start", "starting") \/ Lock("stop", "stopping")
  PROVE  RunInv'
<1>1. CASE MakeServer \/ LeaveLoop
  BY <1>1 DEF RunInv, MakeServer, LeaveLoop, MainAt, UnchangedByMain, serverVars, workerVars,
              startVars, Enabled, Running, Launched
<1>2. CASE BuildServer \/ ServerStarted
  BY <1>2 DEF RunInv, BuildServer, ServerStarted, MainAt, UnchangedByMain, workerVars, startVars,
              Enabled, Running, Launched
<1>3. CASE MainShutdown
  BY <1>3 DEF RunInv, MainShutdown, BeginShutdown, FinishShutdown, MainAt, UnchangedByMain,
              workerVars, startVars, Enabled, Running, Launched
<1>4. CASE \/ Lock("initialize", "building") \/ Lock("start", "starting")
           \/ Lock("stop", "stopping")
  BY <1>4 DEF RunInv, Lock, MainAt, UnchangedByMain, workerVars, startVars, Enabled, Running,
              Launched
<1> QED BY <1>1, <1>2, <1>3, <1>4

\* The handler, the workers themselves and the calls.
LEMMA OthersKeep ==
  ASSUME RunInv, Next, ~MainStep
  PROVE  RunInv'
<1>0. UNCHANGED <<pc, startVars, launched, vector>>
  BY DEF Next, Signal, HandlerStep, HandlerLock, HandlerShutdown, HandlerReturn, WorkerEnds,
         BeginCall, EndCall, workerVars
<1>1. CASE \E sig \in Signals : Signal(sig)
  BY <1>0, <1>1 DEF RunInv, Signal, serverVars, workerVars, startVars, Enabled
<1>2. CASE \E h \in Handlers : HandlerLock(h) \/ HandlerShutdown(h)
  BY <1>0, <1>2 DEF RunInv, HandlerLock, HandlerShutdown, BeginShutdown, FinishShutdown,
                    workerVars, startVars, Enabled
<1>3. CASE \E h \in Handlers : HandlerReturn(h)
  BY <1>0, <1>3 DEF RunInv, HandlerReturn, serverVars, startVars, Enabled
<1>4. CASE \E w \in Workers : WorkerEnds(w)
  BY <1>0, <1>4 DEF RunInv, WorkerEnds, serverVars, startVars, Enabled
<1>5. CASE BeginCall
  BY <1>0, <1>5 DEF RunInv, BeginCall, serverVars, workerVars, startVars, Enabled
<1>6. CASE EndCall
  BY <1>0, <1>6 DEF RunInv, EndCall, serverVars, workerVars, startVars, Enabled
<1> QED BY <1>1, <1>2, <1>3, <1>4, <1>5, <1>6 DEF Next, HandlerStep

\* Every step keeps what is known of the workers, the server and its calls.
THEOREM RunNext == RunInv /\ StartInv /\ [Next]_vars => RunInv'
<1> SUFFICES ASSUME RunInv, StartInv, [Next]_vars PROVE RunInv'
  OBVIOUS
<1>1. CASE MainStep
  BY <1>1, SetUpKeeps, StartWorkerKeeps, WorkersKeep, StopPortsQuiet, ServerKeeps DEF MainStep
<1>2. CASE Next /\ ~MainStep
  BY <1>2, OthersKeep
<1>3. CASE UNCHANGED vars
  BY <1>3 DEF RunInv, vars, serverVars, workerVars, startVars, Enabled
<1> QED BY <1>1, <1>2, <1>3

-----------------------------------------------------------------------------
(* Types. *)

FrameTypes == [signal : Signals, at : {"stop", "stopping", "workers"}]
OtherTypes == [at : {"none", "stop", "stopping", "workers"}, call : BOOLEAN]

\* What StartInv and RunInv leave open of the types.
TypeInv ==
  /\ anytime \in BOOLEAN /\ gRunning \in BOOLEAN /\ locked \in BOOLEAN
  /\ signals \in 0 .. MaxSignals /\ inFlight \in 0 .. MaxCalls
  /\ frames \in Seq(FrameTypes) /\ elsewhere \in OtherTypes
  /\ next \in DOMAIN config.ports \cup {1}
  /\ \A i \in DOMAIN pools : pools[i] = i - 1
  /\ DOMAIN config.core_mappings \subseteq Workers

\* A configuration has no more mappings than workers are considered.
LEMMA MappingsFit ==
  /\ DOMAIN Defaults.core_mappings \subseteq Workers
  /\ \A text \in Texts : DOMAIN Parse(text).core_mappings \subseteq Workers
<1>1. DOMAIN Defaults.core_mappings \subseteq Workers
  BY LifecycleAssumption DEF Defaults, Workers
<1>2. ASSUME NEW text \in Texts
      PROVE  DOMAIN Parse(text).core_mappings \subseteq Workers
  <2>1. Parse(text).core_mappings = Objects(text, "core_mappings", MappingFields)
    BY DEF Parse
  <2>2. CASE "core_mappings" \in DOMAIN text
    <3>1. /\ DOMAIN text.core_mappings = 1 .. Len(text.core_mappings)
          /\ Len(text.core_mappings) \in Nat /\ Len(text.core_mappings) <= MaxWorkers
      BY <2>2, TextAssumption, MappingAssumption DEF IsArray
    <3>2. DOMAIN Objects(text, "core_mappings", MappingFields) = DOMAIN text.core_mappings
      BY <2>2 DEF Objects
    <3> QED BY <2>1, <3>1, <3>2, LifecycleAssumption DEF Workers
  <2>3. CASE "core_mappings" \notin DOMAIN text
    BY <1>1, <2>1, <2>3 DEF Objects, Defaults
  <2> QED BY <2>2, <2>3
<1> QED BY <1>1, <1>2

\* main's first half.
LEMMA StartupTypes ==
  ASSUME TypeInv, StartInv, SetUp
  PROVE  TypeInv'
<1>1. UNCHANGED <<anytime, gRunning, locked, signals, inFlight, handlers>>
  BY DEF SetUp, UnchangedByMain, serverVars
<1>2. CASE \/ ParseOptions \/ InitializeDpdk \/ RegisterDynfield \/ GiveUp \/ ValidateConfig
           \/ MakeComponents \/ PortFails
  BY <1>1, <1>2
  DEF ParseOptions, InitializeDpdk, RegisterDynfield, GiveUp, ValidateConfig, MakeComponents,
      PortFails, startVars, handlers, TypeInv
<1>3. CASE ReadConfig
  <2>1. /\ next = 1 /\ UNCHANGED <<next, pools>>
        /\ config' = Defaults \/ \E text \in Texts : config' = Parse(text)
    BY <1>3 DEF ReadConfig, Goto, StartInv, Before
  <2> QED BY <1>1, <2>1, MappingsFit DEF TypeInv, handlers
<1>4. CASE CreatePool
  <2>1. /\ UNCHANGED <<next, config>> /\ pools \in Seq(Nat)
        /\ pools' = Append(pools, Len(pools)) \/ pools' = << >>
    BY <1>4 DEF CreatePool, StartInv
  <2>2. \A i \in DOMAIN pools' : pools'[i] = i - 1
    <3>1. CASE pools' = Append(pools, Len(pools))
      <4>1. /\ DOMAIN pools = 1 .. Len(pools) /\ Len(pools) \in Nat
            /\ DOMAIN pools' = 1 .. Len(pools) + 1
            /\ \A i \in 1 .. Len(pools) : pools'[i] = pools[i]
            /\ pools'[Len(pools) + 1] = Len(pools)
        BY <2>1, <3>1
      <4> QED BY <4>1 DEF TypeInv
    <3>2. CASE pools' = << >>
      BY <3>2
    <3> QED BY <2>1, <3>1, <3>2
  <2> QED BY <1>1, <2>1, <2>2 DEF TypeInv, handlers
<1>5. CASE pc = "ports" /\ (SkipPort \/ ConfigurePort)
  <2>1. UNCHANGED <<config, pools>> /\ next' = IF next = Len(config.ports) THEN 1 ELSE next + 1
    BY <1>5 DEF SkipPort, ConfigurePort, NextPort
  <2>2. /\ next \in 1 .. Len(config.ports) /\ Len(config.ports) \in Nat
        /\ DOMAIN config.ports = 1 .. Len(config.ports)
    BY <1>5 DEF StartInv
  <2>3. next' \in DOMAIN config.ports \cup {1}
    BY <2>1, <2>2
  <2> QED BY <1>1, <2>1, <2>3 DEF TypeInv, handlers
<1> QED BY <1>2, <1>3, <1>4, <1>5 DEF SetUp, StartupStep

\* The signal handlers: main's stack, and the one on another thread.
LEMMA HandlerTypes ==
  ASSUME TypeInv, (\E sig \in Signals : Signal(sig)) \/ \E h \in Handlers : HandlerStep(h)
  PROVE  TypeInv'
<1>1. UNCHANGED <<anytime, inFlight, next, config, pools>>
  BY DEF Signal, HandlerStep, HandlerLock, HandlerShutdown, HandlerReturn, startVars
<1>2. CASE \E sig \in Signals : Signal(sig)
  <2>1. PICK sig \in Signals :
          /\ signals < MaxSignals /\ signals' = signals + 1 /\ gRunning' = FALSE
          /\ \/ frames' = Append(frames, [signal |-> sig, at |-> Begin]) /\ UNCHANGED elsewhere
             \/ /\ \E call \in BOOLEAN : elsewhere' = [at |-> Begin, call |-> call]
                /\ UNCHANGED frames
          /\ UNCHANGED locked
    BY <1>2 DEF Signal, serverVars, handlers
  <2>2. Begin \in {"workers", "stop"}
    BY DEF Begin
  <2>3. frames' \in Seq(FrameTypes) /\ elsewhere' \in OtherTypes
    <3>1. [signal |-> sig, at |-> Begin] \in FrameTypes
      BY <2>2 DEF FrameTypes
    <3>2. \A call \in BOOLEAN : [at |-> Begin, call |-> call] \in OtherTypes
      BY <2>2 DEF OtherTypes
    <3> QED BY <2>1, <3>1, <3>2 DEF TypeInv
  <2>4. signals' \in 0 .. MaxSignals
    BY <2>1, LifecycleAssumption, SMT DEF TypeInv
  <2>5. gRunning' \in BOOLEAN /\ locked' \in BOOLEAN
    BY <2>1 DEF TypeInv
  <2> QED BY <1>1, <2>3, <2>4, <2>5 DEF TypeInv
<1>3. CASE \E h \in Handlers : HandlerStep(h)
  <2>1. PICK h \in Handlers : HandlerStep(h)
    BY <1>3
  <2>2. UNCHANGED <<signals, gRunning>> /\ locked' \in BOOLEAN
    BY <2>1 DEF HandlerStep, HandlerLock, HandlerShutdown, HandlerReturn, BeginShutdown,
                FinishShutdown, serverVars, TypeInv
  <2>3. elsewhere' \in OtherTypes
    <3>1. \/ elsewhere' \in {elsewhere, Nowhere}
          \/ \E place \in {"stopping", "workers"} : elsewhere' = [elsewhere EXCEPT !.at = place]
      BY <2>1 DEF HandlerStep, HandlerLock, HandlerShutdown, HandlerReturn, HandlerGoto, handlers
    <3>2. \A o \in OtherTypes, place \in {"stopping", "workers"} :
            [o EXCEPT !.at = place] \in OtherTypes
      BY DEF OtherTypes
    <3>3. Nowhere \in OtherTypes
      BY DEF OtherTypes, Nowhere
    <3> QED BY <3>1, <3>2, <3>3 DEF TypeInv
  <2>4. frames' \in Seq(FrameTypes)
    <3>1. CASE UNCHANGED frames
      BY <3>1 DEF TypeInv
    <3>2. CASE ~UNCHANGED frames
      <4>1. /\ frames # << >> /\ frames \in Seq(FrameTypes)
            /\ \/ \E place \in {"stopping", "workers"} :
                    frames' = [frames EXCEPT ![Depth].at = place]
               \/ frames' = SubSeq(frames, 1, Depth - 1)
        BY <2>1, <3>2 DEF HandlerStep, HandlerLock, HandlerShutdown, HandlerReturn, HandlerGoto,
                          HandlerAt, handlers, TypeInv
      <4>2. Depth = Len(frames) /\ Len(frames) \in Nat \ {0} /\ frames[Depth] \in FrameTypes
        BY <4>1 DEF Depth
      <4>3. \A f \in FrameTypes, place \in {"stopping", "workers"} :
              [f EXCEPT !.at = place] \in FrameTypes
        BY DEF FrameTypes
      <4>4. ASSUME NEW place \in {"stopping", "workers"},
                   frames' = [frames EXCEPT ![Depth].at = place]
            PROVE  frames' \in Seq(FrameTypes)
        <5>1. frames' = [frames EXCEPT ![Depth] = [frames[Depth] EXCEPT !.at = place]]
          BY <4>4
        <5>2. [frames[Depth] EXCEPT !.at = place] \in FrameTypes
          BY <4>2, <4>3
        <5> QED BY <4>1, <4>2, <5>1, <5>2
      <4>5. SubSeq(frames, 1, Depth - 1) \in Seq(FrameTypes)
        BY <4>1, <4>2
      <4> QED BY <4>1, <4>4, <4>5
    <3> QED BY <3>1, <3>2
  <2> QED BY <1>1, <2>2, <2>3, <2>4 DEF TypeInv
<1> QED BY <1>2, <1>3

\* Every step keeps the types.
LEMMA TypesNext == TypeInv /\ StartInv /\ RunInv /\ [Next]_vars => TypeInv'
<1> SUFFICES ASSUME TypeInv, StartInv, RunInv, [Next]_vars PROVE TypeInv'
  OBVIOUS
<1>1. CASE SetUp
  BY <1>1, StartupTypes
<1>2. CASE MainStep /\ ~SetUp
  <2>1. /\ UNCHANGED <<anytime, gRunning, signals, inFlight, handlers, next, config, pools>>
        /\ locked' \in {locked, TRUE, FALSE}
    BY <1>2
    DEF MainStep, MakeServer, Lock, BuildServer, ServerStarted, StartWorker, PushWorker, EnterLoop,
        LeaveLoop, MainShutdown, BeginShutdown, FinishShutdown, AskWorkers, JoinWorker, StopPorts,
        StopConfigured, UnchangedByMain, serverVars, startVars
  <2> QED BY <2>1 DEF TypeInv, handlers
<1>3. CASE (\E sig \in Signals : Signal(sig)) \/ \E h \in Handlers : HandlerStep(h)
  BY <1>3, HandlerTypes
<1>4. CASE (\E w \in Workers : WorkerEnds(w)) \/ BeginCall \/ EndCall
  <2>1. /\ UNCHANGED <<anytime, gRunning, locked, signals, handlers, next, config, pools>>
        /\ inFlight' \in 0 .. MaxCalls
    BY <1>4, LifecycleAssumption
    DEF WorkerEnds, BeginCall, EndCall, serverVars, startVars, TypeInv
  <2> QED BY <2>1 DEF TypeInv, handlers
<1>5. CASE UNCHANGED vars
  BY <1>5 DEF vars, serverVars, startVars, TypeInv, handlers
<1> QED BY <1>1, <1>2, <1>3, <1>4, <1>5 DEF Next

-----------------------------------------------------------------------------
(* The properties. *)

\* Both invariants hold at all times; the properties below follow from them.
THEOREM SpecInv == Spec => [](StartInv /\ RunInv)
<1>1. Init => StartInv /\ RunInv
  BY StartInit, RunInit
<1>2. StartInv /\ RunInv /\ [Next]_vars => (StartInv /\ RunInv)'
  BY StartNext, RunNext
<1> QED BY <1>1, <1>2, PTL DEF Spec

\* Whatever a configuration file says and the machine reports, every queue that
\* is handed to DPDK has descriptors and, to receive, a mempool.
THEOREM SpecQueuesUsable == Spec => []QueuesUsable
<1>1. StartInv => QueuesUsable
  BY DEF StartInv
<1> QED BY <1>1, SpecInv, PTL

\* A started worker's port is described; main set it up before, unless the machine
\* has no such port: then it was skipped, and the worker was started all the same.
THEOREM SpecPortsReadyOrMissing == Spec => []PortsReadyOrMissing
<1>1. StartInv /\ RunInv => PortsReadyOrMissing
  <2> SUFFICES ASSUME StartInv, RunInv, NEW w \in launched
               PROVE  LET id == config.core_mappings[w].port_id IN
                        Described(config, id) /\ (id \in DOMAIN ports => ports[id] # "down")
    BY DEF PortsReadyOrMissing
  <2> DEFINE id == config.core_mappings[w].port_id
  <2>1. pc \in After /\ w \in DOMAIN config.core_mappings
    BY DEF RunInv, Running, After, Enabled
  <2>2. Described(config, id)
    BY <2>1 DEF StartInv, Valid
  <2>3. id \in DOMAIN ports => ports[id] # "down"
    BY <2>1, <2>2 DEF StartInv, Described, WasSetUp
  <2> QED BY <2>2, <2>3
<1> QED BY <1>1, SpecInv, PTL

\* When a port was stopped no worker runs and no call is served, with any
\* number of workers and calls and signals at any time.
THEOREM SpecQuietBeforePortsStop == Spec => []QuietBeforePortsStop
<1>1. StartInv /\ RunInv => QuietBeforePortsStop
  BY DEF StartInv, RunInv, QuietBeforePortsStop
<1> QED BY <1>1, SpecInv, PTL

\* Whoever ends in order has stopped all ports.
THEOREM SpecNoPortLeftRunning == Spec => []NoPortLeftRunning
<1>1. StartInv => NoPortLeftRunning
  BY DEF StartInv
<1> QED BY <1>1, SpecInv, PTL

\* No request to stop is lost, whatever signals interrupt.
THEOREM SpecStopIsFinal == Spec => StopIsFinal
<1>1. RunInv /\ [Next]_vars => [\A w \in Workers : shouldStop[w] => shouldStop'[w]]_vars
  <2> SUFFICES ASSUME RunInv, Next, NEW w \in Workers, shouldStop[w] PROVE shouldStop'[w]
    OBVIOUS
  <2>1. CASE \E v \in Workers : StartWorker(v)
    <3>1. PICK v \in Workers : StartWorker(v)
      BY <2>1
    <3>2. v # w
      BY <3>1 DEF RunInv, StartWorker, NextToLaunch
    <3> QED BY <3>1, <3>2 DEF RunInv, StartWorker
  <2>2. CASE AskWorkers \/ \E h \in Handlers : HandlerReturn(h)
    BY <2>2 DEF AskWorkers, HandlerReturn
  <2>3. CASE MainStep /\ ~AskWorkers /\ ~\E v \in Workers : StartWorker(v)
    BY <2>3 DEF MainStep, SetUp, MakeServer, Lock, BuildServer, ServerStarted, PushWorker,
                EnterLoop, LeaveLoop, MainShutdown, JoinWorker, StopPorts, StopConfigured,
                workerVars
  <2>4. CASE Next /\ ~MainStep /\ ~\E h \in Handlers : HandlerReturn(h)
    BY <2>4 DEF Next, Signal, HandlerStep, HandlerLock, HandlerShutdown, WorkerEnds, BeginCall,
                EndCall, workerVars
  <2> QED BY <2>1, <2>2, <2>3, <2>4
<1> QED BY <1>1, SpecInv, PTL DEF Spec, StopIsFinal

\* The variables keep their types: in particular no worker is started that the
\* configuration does not list, g_workers has only started ones, and pools are
\* those of the sockets from 0 on.
THEOREM SpecTypeCorrect == Spec => []TypeOK
<1>1. Init => TypeInv
  <2> SUFFICES ASSUME Init PROVE TypeInv
    OBVIOUS
  <2>1. anytime \in BOOLEAN /\ gRunning \in BOOLEAN /\ locked \in BOOLEAN
    BY LifecycleAssumption DEF Init
  <2>2. signals \in 0 .. MaxSignals /\ inFlight \in 0 .. MaxCalls
    BY LifecycleAssumption, SMT DEF Init
  <2>3. frames \in Seq(FrameTypes) /\ elsewhere \in OtherTypes
    BY DEF Init, Nowhere, OtherTypes
  <2>4. next = 1 /\ DOMAIN pools = {}
    BY DEF Init, StartupInit
  <2>5. DOMAIN config.core_mappings \subseteq Workers
    BY MappingsFit DEF Init, StartupInit
  <2> QED BY <2>1, <2>2, <2>3, <2>4, <2>5 DEF TypeInv
<1>2. TypeInv /\ StartInv /\ RunInv => TypeOK
  <2> SUFFICES ASSUME TypeInv, StartInv, RunInv PROVE TypeOK
    OBVIOUS
  <2>1. StartupTypeOK
    BY DEF TypeInv, StartInv, StartupTypeOK
  <2>2. /\ frames \in Seq([signal : Signals, at : {"stop", "stopping", "workers"}])
        /\ elsewhere \in [at : {"none", "stop", "stopping", "workers"}, call : BOOLEAN]
    BY DEF TypeInv, FrameTypes, OtherTypes
  <2> QED BY <2>1, <2>2 DEF TypeInv, StartInv, RunInv, TypeOK, Before, After, BeforeServer
<1> QED BY <1>1, <1>2, TypesNext, SpecInv, PTL DEF Spec

=============================================================================
