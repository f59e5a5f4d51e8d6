-------------------------- MODULE MCFlowScheduler --------------------------
(***************************************************************************)
(* Small instances of FlowScheduler.  Three ticks make a second and a      *)
(* bucket holds half a second of its rate.  So a flow of 4 packets per     *)
(* second has a bucket of two and earns one and a third each tick, one of  *)
(* 3 or 2 has a bucket of one and earns one or two thirds, and one of 1    *)
(* has a bucket without room for a packet.                                 *)
(***************************************************************************)
EXTENDS FlowScheduler

CONSTANTS here, there, elsewhere

Config(id, key, size, pps, duration, stateless) ==
  [id |-> id, key |-> key, proto |-> key[3], size |-> size, pps |-> pps,
   duration |-> duration, stateless |-> stateless]

\* Handshake, data, plain and combined close, and a segment that raises nothing.
SomeSegments ==
  { [flags |-> {"SYN", "ACK"}, payload |-> FALSE],
    [flags |-> {"ACK"}, payload |-> TRUE],
    [flags |-> {"FIN"}, payload |-> FALSE],
    [flags |-> {"FIN", "ACK"}, payload |-> FALSE],
    [flags |-> {"SYN"}, payload |-> FALSE] }

\* Every id always with the same 5-tuple, no two ids with the same one: a paced
\* stateful flow with a duration, reconfigured to other rates and to one that is
\* too low, and an unpaced one; a size that is too small.
OneKeyPerFlow ==
  { Config(1, <<here, there, "tcp">>, 64, 3, 1, FALSE),
    Config(1, <<here, there, "tcp">>, 0, 2, 0, FALSE),
    Config(1, <<here, there, "tcp">>, 64, 4, 0, FALSE),
    Config(1, <<here, there, "tcp">>, 64, 1, 0, FALSE),
    Config(2, <<here, there, "udp">>, 64, 0, 0, FALSE),
    Config(2, <<here, there, "udp">>, 41, 0, 0, FALSE) }

\* A flow of 1 packet per second beside one of 2.
Slow ==
  { Config(1, <<here, there, "udp">>, 64, 1, 0, TRUE),
    Config(2, <<there, here, "udp">>, 64, 2, 0, TRUE) }

\* The same id sent again for another connection, as a client may.
Rekeyed ==
  { Config(1, <<here, there, "tcp">>, 64, 2, 0, FALSE),
    Config(1, <<here, elsewhere, "tcp">>, 64, 2, 0, FALSE) }

=============================================================================
