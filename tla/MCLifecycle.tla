----------------------------- MODULE MCLifecycle -----------------------------
(***************************************************************************)
(* Small instances of Lifecycle.  16-bit fields hold 0 to 3 and 32-bit     *)
(* ones 0 to 7.  The texts have two ports and two workers, a port with     *)
(* receive queues only, a number that is cut to a smaller one and one that *)
(* is cut to 0, omitted fields, empty arrays, a worker on a port that is   *)
(* not described, and one described port that the machines lack.           *)
(***************************************************************************)
EXTENDS Lifecycle, Integers, TLC

Port(id, rx, tx, rxDesc, txDesc) ==
  [port_id |-> id, nb_rx_queues |-> rx, nb_tx_queues |-> tx,
   nb_rx_desc |-> rxDesc, nb_tx_desc |-> txDesc]

On(core, id) == [core_id |-> core, port_id |-> id, queue_id |-> 0]

Text(portList, mappings) == [ports |-> portList, core_mappings |-> mappings]

TwoOfEach == Text(<<Port(0, 1, 1, 2, 5), Port(1, 1, 0, 2, 2)>>, <<On(1, 0), On(2, 1)>>)

Texts1 ==
  { TwoOfEach,
    Text(<<Port(0, 1, 1, 2, 4)>>, <<On(1, 0)>>),
    Text(<<[port_id |-> 0, nb_rx_queues |-> 1, nb_rx_desc |-> 2]>>, <<On(1, 0)>>),
    Text(<<Port(0, 0, 0, 2, 2)>>, <<On(1, 0)>>),
    Text(<<Port(1, 1, 1, 2, 2)>>, <<On(1, 0)>>),
    Text(<<Port(3, 1, 1, 2, 2)>>, <<On(1, 3)>>),
    Text(<<Port(0, 1, 1, 2, 2)>>, << >>),
    [ports |-> << >>],
    [num_cores |-> 8] }

\* The ports of a machine are 0 and 1; a socket that is no number is invalid.
Machine(socketCount, portCount, firstSocket, coreSet) ==
  [sockets |-> socketCount, ports |-> portCount,
   socketOf |-> (0 :> firstSocket @@ 1 :> 1), cores |-> coreSet]

Machines1 == { Machine(2, 2, 0, {1, 2}), Machine(1, 2, -1, {1}), Machine(0, 0, 0, {}) }

=============================================================================
