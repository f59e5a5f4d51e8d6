--------------------------- MODULE MCTrafficGen ---------------------------
(***************************************************************************)
(* Small instances of TrafficGen.  Flows have rate 0, so each start gives  *)
(* them DefaultBurst tokens and no more.                                   *)
(***************************************************************************)
EXTENDS TrafficGen

CONSTANTS here, there, w1, w2

Config(id, proto, size, duration) ==
  [id |-> id, key |-> <<here, there, proto>>, proto |-> proto, size |-> size, pps |-> 0,
   duration |-> duration, stateless |-> FALSE]

\* A stateful TCP flow with a duration, an IMIX flow, one too small for its headers.
Tcp  == Config(1, "tcp", 64, 1)
Imix == Config(2, "udp", 0, 0)
Tiny == Config(2, "udp", 20, 0)

Entry(size, percent) == [size |-> size, percent |-> percent, proto |-> "udp"]

\* A profile with a size no mbuf has room for, and two that are refused.
SomeProfiles == {<<Entry(1000, 50), Entry(9000, 50)>>, <<Entry(20, 100)>>, <<Entry(64, 50)>>}

SomeConfigs == {Tcp, Imix, Tiny}

\* rte_pktmbuf_alloc_bulk as process_flows reads it, a count; and as DPDK documents
\* it, 0 or a negative errno, here -ENOENT in 16 bits.
AsRead     == [ok |-> 1, failed |-> 0]
Documented == [ok |-> 0, failed |-> 65534]

\* Two workers on one flow; one worker on two, with profiles and a refused flow
\* between them; one worker with a request more, for a restart after a stop.  The
\* clock starts at 1, and where it reaches 2 a flow's duration ends.
TwoWorkers ==
  [workers |-> {w1, w2}, batches |-> {<<Tcp>>}, profiles |-> {}, bulk |-> AsRead,
   requests |-> 3, time |-> 2]
OneWorker ==
  [workers |-> {w1}, batches |-> {<<Tcp, Tiny, Imix>>}, profiles |-> SomeProfiles,
   bulk |-> AsRead, requests |-> 3, time |-> 1]
Restart ==
  [workers |-> {w1}, batches |-> {<<Tcp>>}, profiles |-> {}, bulk |-> AsRead,
   requests |-> 4, time |-> 1]
AsDocumented ==
  [workers |-> {w1}, batches |-> {<<Tcp, Imix>>}, profiles |-> {}, bulk |-> Documented,
   requests |-> 3, time |-> 2]

AllSetups == {TwoWorkers, OneWorker, Restart, AsDocumented}
RaceSetups == {TwoWorkers}
DocumentedSetups == {AsDocumented}

OwnCores == [w \in Workers |-> IF w = w1 THEN 0 ELSE 1]

=============================================================================
