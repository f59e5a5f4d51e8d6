------------------------------- MODULE Config -------------------------------
(***************************************************************************)
(* ConfigParser (util/config/config_parser.cpp) as operators: what a       *)
(* configuration file yields, the defaults and the validation.             *)
(*                                                                         *)
(* A file is known by the values it gives to keys: numbers (true is 1),    *)
(* and sequences of objects for the two arrays.  A key that is missing and *)
(* one whose value is of another type are the same here, because the       *)
(* parser treats them alike.  Strings (addresses, paths) are left out.     *)
(***************************************************************************)
EXTENDS Naturals, Sequences

CONSTANTS UInt16, UInt32  \* how many values the types have

ASSUME WidthAssumption == UInt16 \in Nat \ {0} /\ UInt32 \in Nat \ {0}

\* The fields of AppConfig, PortConfig and CoreMapping and their widths.
Scalars  == [num_cores |-> UInt32, mbufs_per_socket |-> UInt32, mbuf_cache_size |-> UInt32,
             tx_burst_size |-> UInt16, rx_burst_size |-> UInt16, port |-> UInt16]
PortFields    == [port_id |-> UInt16, nb_rx_queues |-> UInt16, nb_tx_queues |-> UInt16,
                  nb_rx_desc |-> UInt16, nb_tx_desc |-> UInt16]
MappingFields == [core_id |-> UInt32, port_id |-> UInt16, queue_id |-> UInt16, enable_rx |-> 2]

\* get_default_config, its sizes cut down to what small types hold.
Defaults ==
  [scalars |-> [num_cores |-> 2, mbufs_per_socket |-> 2, mbuf_cache_size |-> 1,
                tx_burst_size |-> 2, rx_burst_size |-> 2, port |-> 1],
   ports |-> <<[port_id |-> 0, nb_rx_queues |-> 1, nb_tx_queues |-> 1,
                nb_rx_desc |-> 2, nb_tx_desc |-> 2]>>,
   core_mappings |-> <<[core_id |-> 1, port_id |-> 0, queue_id |-> 0, enable_rx |-> 0]>>]

\* parse_uint: the number is cut to the field's type, or the field stays as it was.
Number(text, key, width, before) ==
  IF key \in DOMAIN text THEN text[key] % width ELSE before

\* An object of an array starts with every field 0.
Object(text, widths) == [key \in DOMAIN widths |-> Number(text, key, widths[key], 0)]

\* An array replaces the default one as a whole.
Objects(text, key, widths) ==
  IF key \in DOMAIN text THEN [i \in DOMAIN text[key] |-> Object(text[key][i], widths)]
                         ELSE Defaults[key]

\* parse_from_string, which never fails.
Parse(text) ==
  [scalars |-> [key \in DOMAIN Scalars |->
                  Number(text, key, Scalars[key], Defaults.scalars[key])],
   ports         |-> Objects(text, "ports", PortFields),
   core_mappings |-> Objects(text, "core_mappings", MappingFields)]

\* Mutant of Described: port_id is taken for an index.
DescribedByIndex(config, id) == id < Len(config.ports)

Described(config, id) == \E i \in DOMAIN config.ports : config.ports[i].port_id = id

\* Mutant of Usable: one ring with descriptors is enough.
UsableEither(port) ==
  /\ port.nb_rx_queues # 0 \/ port.nb_tx_queues # 0
  /\ port.nb_rx_desc # 0 \/ port.nb_tx_desc # 0

Usable(port) ==
  /\ port.nb_rx_queues # 0 \/ port.nb_tx_queues # 0
  /\ port.nb_rx_desc # 0 /\ port.nb_tx_desc # 0

\* validate_config
Valid(config) ==
  /\ config.scalars.num_cores # 0
  /\ config.ports # << >> /\ config.core_mappings # << >>
  /\ \A i \in DOMAIN config.ports : Usable(config.ports[i])
  /\ \A i \in DOMAIN config.core_mappings : Described(config, config.core_mappings[i].port_id)

=============================================================================
