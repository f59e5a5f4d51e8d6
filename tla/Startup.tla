------------------------------- MODULE Startup -------------------------------
(***************************************************************************)
(* main from its first statement to the making of the gRPC server:         *)
(* options, DPDK, configuration, mempools (core/mempools/                  *)
(* mempool_manager.cpp), ports and the objects the server is given.        *)
(* Every call to DPDK may fail.                                            *)
(*                                                                         *)
(* The machine is what DPDK reports: how many NUMA sockets and ports there *)
(* are, each port's socket, and the enabled cores.  MAC addresses are left *)
(* out.                                                                    *)
(***************************************************************************)
EXTENDS Config

CONSTANTS
  Machines,  \* records: sockets, ports, socketOf, cores
  Texts,     \* what configuration files give
  NoFile,    \* no file was named, or it cannot be opened
  NoPool

\* The arrays are sequences of objects, which give numbers to keys.
IsArray(list) ==
  /\ Len(list) \in Nat /\ DOMAIN list = 1 .. Len(list)
  /\ \A i \in DOMAIN list : \A key \in DOMAIN list[i] : list[i][key] \in Nat

ASSUME MachineAssumption == \A m \in Machines : m.ports \in Nat /\ m.sockets \in Nat
ASSUME TextAssumption ==
  \A text \in Texts : \A key \in {"ports", "core_mappings"} \cap DOMAIN text : IsArray(text[key])
ASSUME PoolAssumption == NoPool \notin Nat

VARIABLES
  machine,
  pc,        \* where main is
  config,    \* main's AppConfig
  pools,     \* the sockets of MempoolManager::pools_
  next,      \* configure_ports: the port of config that is next
  queues,    \* history: the queues that were set up, with descriptors and pool
  ports      \* what each port of the machine is: "down", "started", "stopped"

startVars == <<machine, config, pools, next, queues, ports>>

StartupInit ==
  /\ machine \in Machines
  /\ pc = "options"
  /\ config = Defaults
  /\ pools = << >> /\ next = 1
  /\ queues = {}
  /\ ports = [p \in 0 .. machine.ports - 1 |-> "down"]

Goto(from, to) == pc = from /\ pc' = to

-----------------------------------------------------------------------------
\* --help and unknown options end the process, and so does a failing DPDK.
ParseOptions == Goto("options", "eal") /\ UNCHANGED startVars
InitializeDpdk == Goto("eal", "field") /\ UNCHANGED startVars
RegisterDynfield == Goto("field", "read") /\ UNCHANGED startVars

GiveUp ==
  /\ pc \in {"options", "eal", "field"}
  /\ pc' = "failed"
  /\ UNCHANGED startVars

\* The file, or the defaults without one.
ReadConfig ==
  /\ Goto("read", "validate")
  /\ \E text \in Texts \cup {NoFile} :
       config' = IF text = NoFile THEN Defaults ELSE Parse(text)
  /\ UNCHANGED <<machine, pools, next, queues, ports>>

ValidateConfig ==
  /\ Goto("validate", IF Valid(config) THEN "pools" ELSE "failed")
  /\ UNCHANGED startVars

\* MempoolManager::initialize: one pool per socket, or none at all.
CreatePool ==
  /\ \/ /\ pools' = Append(pools, Len(pools))
        /\ Goto("pools", IF Len(pools') >= machine.sockets THEN "ports" ELSE "pools")
     \/ pools' = << >> /\ Goto("pools", "failed")
  /\ UNCHANGED <<machine, config, next, queues, ports>>

\* Mutant of GetMempool: no other socket's pool instead.
GetMempoolExact(socket) ==
  IF \E i \in DOMAIN pools : pools[i] = socket THEN socket ELSE NoPool

GetMempool(socket) ==
  CASE \E i \in DOMAIN pools : pools[i] = socket -> socket
    [] pools = << >> -> NoPool
    [] OTHER -> pools[1]

-----------------------------------------------------------------------------
(* configure_ports, port by port. *)

\* The port's socket; 0 if it is none of a machine's sockets.
SocketOf(id) == IF machine.socketOf[id] \in Nat THEN machine.socketOf[id] ELSE 0

QueuesOf(port) ==
  {[port |-> port.port_id, kind |-> "rx", queue |-> q, desc |-> port.nb_rx_desc,
    pool |-> GetMempool(SocketOf(port.port_id))] : q \in 1 .. port.nb_rx_queues}
  \cup
  {[port |-> port.port_id, kind |-> "tx", queue |-> q, desc |-> port.nb_tx_desc,
    pool |-> NoPool] : q \in 1 .. port.nb_tx_queues}

NextPort ==
  /\ next' = IF next = Len(config.ports) THEN 1 ELSE next + 1
  /\ Goto("ports", IF next = Len(config.ports) THEN "components" ELSE "ports")

\* A port the machine does not have is skipped.
SkipPort ==
  /\ machine.ports > 0 /\ config.ports[next].port_id >= machine.ports
  /\ NextPort
  /\ UNCHANGED <<machine, config, pools, queues, ports>>

ConfigurePort ==
  LET port == config.ports[next] IN
    /\ port.port_id < machine.ports
    /\ NextPort
    /\ queues' = queues \cup QueuesOf(port)
    /\ ports' = [ports EXCEPT ![port.port_id] = "started"]
    /\ UNCHANGED <<machine, config, pools>>

\* There is no port, or a call for this one fails; the process ends.
PortFails ==
  /\ machine.ports = 0 \/ config.ports[next].port_id < machine.ports
  /\ Goto("ports", "failed")
  /\ UNCHANGED startVars

\* The scheduler, the IMIX engine and the collector, which wants a core.
MakeComponents ==
  /\ Goto("components", IF config.core_mappings = << >> THEN "failed" ELSE "server")
  /\ UNCHANGED startVars

StartupStep ==
  \/ ParseOptions \/ InitializeDpdk \/ RegisterDynfield \/ GiveUp
  \/ ReadConfig \/ ValidateConfig
  \/ CreatePool
  \/ (pc = "ports" /\ (SkipPort \/ ConfigurePort \/ PortFails))
  \/ MakeComponents

-----------------------------------------------------------------------------
StartupTypeOK ==
  /\ machine \in Machines
  /\ next \in DOMAIN config.ports \cup {1}
  /\ \A i \in DOMAIN pools : pools[i] = i - 1
  /\ DOMAIN ports = 0 .. machine.ports - 1
  /\ \A p \in DOMAIN ports : ports[p] \in {"down", "started", "stopped"}

\* Every queue handed to DPDK has descriptors, and every receive queue a pool,
\* whatever fields a file omits or gives numbers too large for their type, and
\* whatever socket a port reports (main.cpp:127-149).
QueuesUsable ==
  \A q \in queues : q.desc > 0 /\ (q.kind = "rx" => q.pool # NoPool)

=============================================================================
