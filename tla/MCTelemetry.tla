----------------------------- MODULE MCTelemetry -----------------------------
(***************************************************************************)
(* Small instances of Telemetry.  A behaviour keeps the bounds of one      *)
(* scenario: two clients poll while traffic is counted and reset, or       *)
(* packets come and go while the collector is reset and polled.            *)
(***************************************************************************)
EXTENDS Telemetry

Bound(time, s, arrived, polled, reset1) ==
  [time |-> time, sends |-> s, arrivals |-> arrived, polls |-> polled, resets |-> reset1]

Polling   == Bound(2, 1, 0, 2, 0)
Resetting == Bound(1, 1, 0, 1, 1)
Arriving  == Bound(1, 1, 2, 0, 1)

Scenarios == {Polling, Resetting, Arriving}

\* One client that polls, at least a second apart.
SlowPolls == {Bound(3, 1, 0, 2, 0)}
RoundTrips == {Bound(3, 2, 2, 0, 0)}

=============================================================================
