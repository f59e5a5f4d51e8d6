----------------------------- MODULE Lifecycle -----------------------------
(***************************************************************************)
(* Start and end of the process: main (main.cpp) from Startup on, the      *)
(* signal handler, the gRPC server (GRPCServer in control/grpc/server.cpp) *)
(* and the worker threads (core/worker/worker.cpp).                        *)
(*                                                                         *)
(* The handler runs on the main thread (the one Linux prefers for a signal *)
(* sent to the process), on top of whatever main was doing, and main goes  *)
(* on only when the handler has returned.  SIGINT and SIGTERM have the     *)
(* same handler; each is masked in the main thread while its own is        *)
(* running, so the other may interrupt it: `frames' is the stack of        *)
(* handlers under way.  A signal that is masked there goes to another      *)
(* thread, which runs the handler beside main (`elsewhere'); that thread   *)
(* may be one that serves a gRPC call.                                     *)
(*                                                                         *)
(* GRPCServer::mutex_ is not recursive: a thread that locks it twice waits *)
(* for ever.  Server::Shutdown returns when no call is in flight.          *)
(***************************************************************************)
EXTENDS Startup

CONSTANTS
  MaxWorkers,   \* bound: core mappings in a configuration
  Signals,      \* SIGINT, SIGTERM
  Disciplines,  \* may signals come at any time, or only to main's idle loop?
  MaxSignals,   \* bound: signals in all; at most one handler is off the main thread
  MaxCalls      \* bound: gRPC calls in flight

ASSUME LifecycleAssumption ==
  /\ Disciplines \subseteq BOOLEAN
  /\ MaxWorkers \in Nat \ {0} /\ MaxSignals \in Nat /\ MaxCalls \in Nat
ASSUME MappingAssumption ==
  \A text \in Texts : "core_mappings" \in DOMAIN text => Len(text.core_mappings) <= MaxWorkers

VARIABLES
  anytime,     \* which discipline the outside world keeps, for good
  frames,      \* the handlers on top of it, the innermost last: signal, place
  elsewhere,   \* the handler on another thread: place, does the thread serve a call?
  signals,     \* signals so far
  gRunning,    \* g_running
  locked,      \* is GRPCServer::mutex_ held?
  server,      \* server_: "none", "serving", "draining", "down"
  inFlight,    \* gRPC calls being served
  launched,    \* workers that were started
  vector,      \* g_workers
  thread,      \* each worker's thread: "none", "looping", "finished", "joined"
  shouldStop   \* should_stop_

Workers    == 1 .. MaxWorkers  \* by their place in core_mappings
workerVars == <<launched, vector, thread, shouldStop>>
serverVars == <<locked, server>>
handlers   == <<frames, elsewhere>>
vars == <<startVars, anytime, pc, handlers, signals, gRunning, serverVars, inFlight, workerVars>>

Nowhere == [at |-> "none", call |-> FALSE]

Init ==
  /\ anytime \in Disciplines
  /\ StartupInit
  /\ frames = << >> /\ elsewhere = Nowhere /\ signals = 0
  /\ gRunning = TRUE
  /\ locked = FALSE /\ server = "none" /\ inFlight = 0
  /\ launched = {} /\ vector = {}
  /\ thread = [w \in Workers |-> "none"]
  /\ shouldStop = [w \in Workers |-> FALSE]

-----------------------------------------------------------------------------
(* main. *)

MainAt(place) == pc = place /\ frames = << >>

UnchangedByMain == UNCHANGED <<anytime, handlers, signals, gRunning, inFlight>>

SetUp ==
  /\ frames = << >> /\ StartupStep
  /\ UnchangedByMain /\ UNCHANGED <<serverVars, workerVars>>

\* g_grpc_server is made.
MakeServer ==
  /\ MainAt("server")
  /\ pc' = "initialize"
  /\ UnchangedByMain /\ UNCHANGED <<serverVars, workerVars, startVars>>

\* A GRPCServer member function locks mutex_ first.
Lock(from, to) ==
  /\ MainAt(from)
  /\ ~locked
  /\ locked' = TRUE
  /\ pc' = to
  /\ UnchangedByMain /\ UNCHANGED <<server, workerVars, startVars>>

\* BuildAndStart: the server accepts calls from now on, or main goes on without.
BuildServer ==
  /\ MainAt("building")
  /\ locked' = FALSE
  /\ \/ server' = "serving" /\ pc' = "start"
     \/ server' = server /\ pc' = "launch"
  /\ UnchangedByMain /\ UNCHANGED <<workerVars, startVars>>

ServerStarted ==
  /\ MainAt("starting")
  /\ locked' = FALSE
  /\ pc' = "launch"
  /\ UnchangedByMain /\ UNCHANGED <<server, workerVars, startVars>>

\* launch_workers skips mappings whose core DPDK does not know.
Enabled == {w \in DOMAIN config.core_mappings :
              config.core_mappings[w].core_id \in machine.cores}

NextToLaunch(w) == w \in Enabled \ launched /\ \A v \in Enabled \ launched : w <= v

\* Mutant of StartWorker: a worker is in g_workers before it is started.
PushThenStart(w) ==
  /\ MainAt("launch")
  /\ NextToLaunch(w)
  /\ IF w \in vector
     THEN /\ shouldStop' = [shouldStop EXCEPT ![w] = FALSE]
          /\ thread' = [thread EXCEPT ![w] = "looping"]
          /\ launched' = launched \cup {w}
          /\ UNCHANGED vector
     ELSE /\ vector' = vector \cup {w}
          /\ UNCHANGED <<shouldStop, thread, launched>>
  /\ UnchangedByMain /\ UNCHANGED <<pc, serverVars, startVars>>

\* Worker::start, and only then push_back to g_workers.
StartWorker(w) ==
  /\ MainAt("launch") /\ launched = vector
  /\ NextToLaunch(w)
  /\ shouldStop' = [shouldStop EXCEPT ![w] = FALSE]
  /\ thread' = [thread EXCEPT ![w] = "looping"]
  /\ launched' = launched \cup {w}
  /\ UnchangedByMain /\ UNCHANGED <<pc, serverVars, vector, startVars>>

PushWorker ==
  /\ MainAt("launch") /\ launched # vector
  /\ vector' = launched
  /\ UnchangedByMain /\ UNCHANGED <<pc, serverVars, launched, thread, shouldStop, startVars>>

EnterLoop ==
  /\ MainAt("launch") /\ vector = Enabled
  /\ pc' = "loop"
  /\ UnchangedByMain /\ UNCHANGED <<serverVars, workerVars, startVars>>

LeaveLoop ==
  /\ MainAt("loop") /\ ~gRunning
  /\ pc' = "stop"
  /\ UnchangedByMain /\ UNCHANGED <<serverVars, workerVars, startVars>>

\* The two halves of GRPCServer::stop, by main or by a handler: Shutdown
\* refuses new calls, then waits for those in flight.
BeginShutdown ==
  /\ server = "serving"
  /\ server' = "draining"
  /\ UNCHANGED locked

\* Mutant of FinishShutdown: mutex_ is not released.
StayLocked ==
  /\ server # "serving" /\ (server = "draining" => inFlight = 0)
  /\ server' = IF server = "draining" THEN "down" ELSE server
  /\ UNCHANGED locked

FinishShutdown ==
  /\ server # "serving" /\ (server = "draining" => inFlight = 0)
  /\ server' = IF server = "draining" THEN "down" ELSE server
  /\ locked' = FALSE

MainShutdown ==
  /\ MainAt("stopping")
  /\ \/ BeginShutdown /\ UNCHANGED pc
     \/ FinishShutdown /\ pc' = "workers"
  /\ UnchangedByMain /\ UNCHANGED <<workerVars, startVars>>

AskWorkers ==
  /\ MainAt("workers")
  /\ shouldStop' = [w \in Workers |-> shouldStop[w] \/ w \in vector]
  /\ pc' = "join"
  /\ UnchangedByMain /\ UNCHANGED <<serverVars, launched, vector, thread, startVars>>

JoinWorker(w) ==
  /\ MainAt("join")
  /\ w \in vector /\ thread[w] = "finished"
  /\ thread' = [thread EXCEPT ![w] = "joined"]
  /\ UnchangedByMain /\ UNCHANGED <<pc, serverVars, launched, vector, shouldStop, startVars>>

\* rte_eth_dev_stop, whose result nobody reads: "stopped" is a port that was asked.
StopConfigured(which) ==
  /\ ports' = [p \in DOMAIN ports |-> IF p \in which THEN "stopped" ELSE ports[p]]
  /\ pc' = "done"
  /\ UnchangedByMain /\ UNCHANGED <<serverVars, workerVars, machine, config, pools, next, queues>>

\* Mutant of StopPorts: the workers were only asked to stop.
StopPortsAtOnce ==
  MainAt("join") /\ StopConfigured({p \in DOMAIN ports : Described(config, p)})

\* Mutant of StopPorts: only the ports of workers are stopped.
StopWorkersPorts ==
  /\ MainAt("join") /\ \A w \in vector : thread[w] = "joined"
  /\ StopConfigured({config.core_mappings[w].port_id : w \in vector})

StopPorts ==
  /\ MainAt("join") /\ \A w \in vector : thread[w] = "joined"
  /\ StopConfigured({p \in DOMAIN ports : Described(config, p)})

MainStep ==
  \/ SetUp \/ MakeServer
  \/ Lock("initialize", "building") \/ BuildServer
  \/ Lock("start", "starting") \/ ServerStarted
  \/ \E w \in Workers : StartWorker(w)
  \/ PushWorker \/ EnterLoop \/ LeaveLoop
  \/ Lock("stop", "stopping") \/ MainShutdown
  \/ AskWorkers
  \/ \E w \in Workers : JoinWorker(w)
  \/ StopPorts

-----------------------------------------------------------------------------
(* The signal handler. *)

Depth == Len(frames)
Top   == frames[Depth]

Ended == pc \in {"done", "failed"}

BeforeServer == {"eal", "field", "read", "validate", "pools", "ports", "components", "server"}

\* Where a handler begins: it stores g_running and, once g_grpc_server is made, is
\* about to stop it.
Begin == IF pc \in BeforeServer THEN "workers" ELSE "stop"

Masked(sig) == \E i \in 1 .. Depth : frames[i].signal = sig

\* A signal arrives, main having asked for it.  It interrupts main, or another
\* thread if main's handler of this signal is running.
Signal(sig) ==
  /\ signals < MaxSignals /\ pc # "options" /\ ~Ended
  /\ anytime \/ (pc = "loop" /\ frames = << >>)
  /\ signals' = signals + 1
  /\ gRunning' = FALSE
  /\ \/ /\ ~Masked(sig)
        /\ frames' = Append(frames, [signal |-> sig, at |-> Begin])
        /\ UNCHANGED elsewhere
     \/ /\ Masked(sig) /\ elsewhere = Nowhere
        /\ \E call \in BOOLEAN :
             (call => inFlight > 0) /\ elsewhere' = [at |-> Begin, call |-> call]
        /\ UNCHANGED frames
  /\ UNCHANGED <<anytime, pc, serverVars, inFlight, workerVars, startVars>>

\* The handlers: the innermost of main's, and the other thread's.
Handlers == {"main", "other"}

HandlerAt(h, place) ==
  IF h = "main" THEN frames # << >> /\ Top.at = place ELSE elsewhere.at = place /\ ~Ended

HandlerGoto(h, place) ==
  IF h = "main"
  THEN frames' = [frames EXCEPT ![Depth].at = place] /\ UNCHANGED elsewhere
  ELSE elsewhere' = [elsewhere EXCEPT !.at = place] /\ UNCHANGED frames

HandlerLock(h) ==
  /\ HandlerAt(h, "stop")
  /\ ~locked
  /\ locked' = TRUE
  /\ HandlerGoto(h, "stopping")
  /\ UNCHANGED <<anytime, pc, signals, gRunning, server, inFlight, workerVars, startVars>>

HandlerShutdown(h) ==
  /\ HandlerAt(h, "stopping")
  /\ \/ BeginShutdown /\ UNCHANGED handlers
     \/ FinishShutdown /\ HandlerGoto(h, "workers")
  /\ UNCHANGED <<anytime, pc, signals, gRunning, inFlight, workerVars, startVars>>

\* The workers that are in g_workers by now, and the handler returns.
HandlerReturn(h) ==
  /\ HandlerAt(h, "workers")
  /\ shouldStop' = [w \in Workers |-> shouldStop[w] \/ w \in vector]
  /\ IF h = "main"
     THEN frames' = SubSeq(frames, 1, Depth - 1) /\ UNCHANGED elsewhere
     ELSE elsewhere' = Nowhere /\ UNCHANGED frames
  /\ UNCHANGED <<anytime, pc, signals, gRunning, serverVars, inFlight, launched, vector,
                 thread, startVars>>

HandlerStep(h) == HandlerLock(h) \/ HandlerShutdown(h) \/ HandlerReturn(h)

-----------------------------------------------------------------------------
(* Workers and gRPC calls. *)

\* A worker leaves its loop when asked to, or at once when it has no mempool or
\* cannot register with DPDK.
WorkerEnds(w) ==
  /\ thread[w] = "looping"
  /\ thread' = [thread EXCEPT ![w] = "finished"]
  /\ UNCHANGED <<anytime, pc, handlers, signals, gRunning, serverVars, inFlight, launched, vector,
                 shouldStop, startVars>>

BeginCall ==
  /\ server = "serving" /\ inFlight < MaxCalls
  /\ inFlight' = inFlight + 1
  /\ UNCHANGED <<anytime, pc, handlers, signals, gRunning, serverVars, workerVars, startVars>>

\* A call returns, unless its thread is in the handler.
EndCall ==
  /\ inFlight > IF elsewhere.call THEN 1 ELSE 0
  /\ inFlight' = inFlight - 1
  /\ UNCHANGED <<anytime, pc, handlers, signals, gRunning, serverVars, workerVars, startVars>>

Next ==
  \/ MainStep
  \/ \E sig \in Signals : Signal(sig)
  \/ \E h \in Handlers : HandlerStep(h)
  \/ \E w \in Workers : WorkerEnds(w)
  \/ BeginCall \/ EndCall

\* main, the handlers, the calls and every worker that was asked to stop go on;
\* nobody has to send a signal or make a call.
Spec ==
  /\ Init /\ [][Next]_vars
  /\ WF_vars(MainStep) /\ WF_vars(EndCall)
  /\ \A h \in Handlers : WF_vars(HandlerStep(h))
  /\ \A w \in Workers : WF_vars(shouldStop[w] /\ WorkerEnds(w))

-----------------------------------------------------------------------------
TypeOK ==
  /\ anytime \in BOOLEAN
  /\ StartupTypeOK
  /\ pc \in BeforeServer \cup {"options", "failed", "initialize", "building", "start", "starting",
                               "launch", "loop", "stop", "stopping", "workers", "join", "done"}
  /\ frames \in Seq([signal : Signals, at : {"stop", "stopping", "workers"}])
  /\ elsewhere \in [at : {"none", "stop", "stopping", "workers"}, call : BOOLEAN]
  /\ signals \in 0 .. MaxSignals /\ gRunning \in BOOLEAN
  /\ locked \in BOOLEAN
  /\ server \in {"none", "serving", "draining", "down"} /\ inFlight \in 0 .. MaxCalls
  /\ launched \subseteq Workers /\ vector \subseteq launched
  /\ thread \in [Workers -> {"none", "looping", "finished", "joined"}]
  /\ shouldStop \in [Workers -> BOOLEAN]
  /\ DOMAIN config.core_mappings \subseteq Workers

\* The ports are stopped when no worker can touch them any more and no call is
\* being served, whenever signals came (main.cpp:340-358).
QuietBeforePortsStop ==
  (\E p \in DOMAIN ports : ports[p] = "stopped") =>
    (\A w \in Workers : thread[w] \in {"none", "joined"}) /\ server # "serving" /\ inFlight = 0

\* A process that ended in order has called rte_eth_dev_stop for every port it
\* started, also those that serve no worker (main.cpp:356-358).
NoPortLeftRunning == pc = "done" => \A p \in DOMAIN ports : ports[p] # "started"

\* A worker that was started uses a port the configuration describes, which main
\* set up before it unless the machine has no such port (config_parser.cpp:234-249,
\* main.cpp:95-183, 186-221).  A worker on a port that is missing is started all
\* the same, and its queue is not among what is compared.
PortsReadyOrMissing ==
  \A w \in launched :
    LET id == config.core_mappings[w].port_id IN
      Described(config, id) /\ (id \in DOMAIN ports => ports[id] # "down")

\* Nobody takes a request to stop back: a handler never reaches a worker whose
\* start, which clears the flag, is still to come (main.cpp:209-214,
\* worker.cpp:32).
StopIsFinal == [][\A w \in Workers : shouldStop[w] => shouldStop'[w]]_vars

\* A signal that finds main in its loop ends the process.
LoopSignalEnds == (~anytime /\ ~gRunning) ~> (pc = "done")

\* "Signal handling for graceful shutdown" (IMPLEMENTATION_SUMMARY.md:103): a
\* signal ends the process, whenever it comes.
GracefulShutdown == ~gRunning ~> Ended

=============================================================================
