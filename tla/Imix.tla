-------------------------------- MODULE Imix --------------------------------
(***************************************************************************)
(* IMIXEngine (core/scheduler/imix_engine.cpp): a profile of packet sizes  *)
(* with percentages, drawn from at random.  Every operation holds the      *)
(* engine's mutex_ for its whole body.                                     *)
(***************************************************************************)
EXTENDS Naturals, Sequences

LOCAL INSTANCE SequencesExt

VARIABLE profile  \* entries_: size, percent, proto; << >> until configured

ImixInit == profile = << >>

\* Mutant of ValidEntry: any size that is not 0 is accepted.
ValidEntryLoose(e, protocols) ==
  e.size \in 1 .. 9000 /\ e.percent \in 0 .. 100 /\ e.proto \in protocols

ValidEntry(e, protocols) ==
  e.size \in 64 .. 9000 /\ e.percent \in 0 .. 100 /\ e.proto \in protocols

\* validate_entries: percentages add up to about 100.
ValidProfile(entries, protocols) ==
  /\ entries # << >>
  /\ \A i \in DOMAIN entries : ValidEntry(entries[i], protocols)
  /\ FoldLeft(LAMBDA sum, e : sum + e.percent, 0, entries) \in 99 .. 101

\* configure: a profile that is not valid leaves the old one.
ConfigureProfile(entries, protocols) ==
  profile' = IF ValidProfile(entries, protocols) THEN entries ELSE profile

\* select_next_packet_size: what a draw may yield.
NextSizes ==
  IF profile = << >> THEN {64}
  ELSE {profile[i].size : i \in {j \in DOMAIN profile : profile[j].percent > 0}}

=============================================================================
