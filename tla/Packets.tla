------------------------------- MODULE Packets -------------------------------
(***************************************************************************)
(* PacketBuilder (core/packet/packet_builder.cpp) and PacketMutator        *)
(* (core/packet/packet_mutator.cpp) as operators on packets.               *)
(*                                                                         *)
(* A packet is known by its size and the header fields that differ from    *)
(* one packet to the next.  A checksum is the tuple of those fields it was *)
(* computed from, << >> if it never was: it is right as long as it is that *)
(* of the fields the packet has now.  Addresses, ports and payload do not  *)
(* change after the template was built.  A size has 32 bits; the lengths   *)
(* that are made of it have 16.                                            *)
(***************************************************************************)
EXTENDS Integers

Protocols == {"tcp", "udp", "icmp"}

Lengths        == 65536
EthernetLength == 14
IpLength       == 20
HeaderLength(proto) == EthernetLength + IpLength + IF proto = "tcp" THEN 20 ELSE 8

\* The size of the template: a flow of size 0 is sent with IMIX sizes.
TemplateSize(size) == IF size = 0 THEN 64 ELSE size

\* When build_template succeeds: a known protocol, and room for its headers.
TemplateBuilds(c) ==
  /\ c.proto \in Protocols
  /\ TemplateSize(c.size) >= HeaderLength(c.proto)

IpSum(p) == <<p.ipTotal, p.ipId>>
L4Sum(p) == <<p.ipTotal, p.udpTotal, p.seq>>

\* Nobody computes an ICMP checksum.
L4Summed(p) == [p EXCEPT !.l4Sum = IF p.proto = "icmp" THEN @ ELSE L4Sum(p)]
Summed(p)   == L4Summed([p EXCEPT !.ipSum = IpSum(p)])

\* rte_pktmbuf_append of a fresh mbuf takes 16 bits of the size.
Fits(size, tailroom) == size % Lengths <= tailroom

Resized(p, size) ==
  [p EXCEPT !.size = size, !.data = size % Lengths,
            !.ipTotal = (size - EthernetLength) % Lengths,
            !.udpTotal = IF p.proto = "udp" THEN (size - EthernetLength - IpLength) % Lengths
                         ELSE 0]

\* build_template
Template(proto, size) ==
  Summed(Resized([proto |-> proto, size |-> 0, data |-> 0, ipTotal |-> 0, udpTotal |-> 0,
                  ipId |-> 0, seq |-> 0, ipSum |-> << >>, l4Sum |-> << >>], size))

\* The numbers the mutator draws are never 0, the template's.
Drawn == 1

\* Mutant of Mutated: an IMIX packet keeps the lengths of the template.
MutatedTemplate(template, size) ==
  Summed([template EXCEPT !.size = size, !.data = size, !.ipId = Drawn,
                          !.seq = IF template.proto = "tcp" THEN Drawn ELSE @])

\* clone_and_mutate, when the packet fits and with checksums.
Mutated(template, size) ==
  Summed([Resized(template, size) EXCEPT
            !.ipId = Drawn, !.seq = IF template.proto = "tcp" THEN Drawn ELSE @])

\* What a receiver verifies.
WellFormed(p) ==
  /\ p.size >= HeaderLength(p.proto) /\ p.data = p.size
  /\ p.ipTotal = p.size - EthernetLength
  /\ p.proto = "udp" => p.udpTotal = p.ipTotal - IpLength
  /\ p.ipSum = IpSum(p)
  /\ p.l4Sum = L4Sum(p)

=============================================================================
