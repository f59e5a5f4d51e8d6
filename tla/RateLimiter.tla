---------------------------- MODULE RateLimiter ----------------------------
(***************************************************************************)
(* What a paced flow promises: an ideal token bucket.  Credit is counted   *)
(* in fractions of a packet, TicksPerSecond to the packet.  It grows by    *)
(* the rate as time passes, up to a full bucket and less than one packet   *)
(* more (the fraction a bucket may keep when nothing whole is due), and    *)
(* every packet costs one.  Credit may be lost at any time, never gained.  *)
(***************************************************************************)
EXTENDS Integers

CONSTANT TicksPerSecond

VARIABLES clock, rate, size, credit, granted

limiterVars == <<clock, rate, size, credit, granted>>

Full == TicksPerSecond * (size + 1) - 1

Init ==
  /\ clock \in Nat /\ rate \in Nat /\ size \in Nat
  /\ credit \in Nat /\ credit <= Full
  /\ granted = 0

\* A new flow, or a restart: a full bucket, and the count begins again.
Renew ==
  /\ rate' \in Nat /\ size' \in Nat
  /\ credit' \in Nat /\ credit' <= Full'
  /\ granted' = 0
  /\ UNCHANGED clock

Elapse ==
  /\ clock' \in Nat /\ clock' > clock
  /\ credit' \in Nat /\ credit' <= Full
  /\ credit' <= credit + rate * (clock' - clock)
  /\ UNCHANGED <<rate, size, granted>>

Grant ==
  /\ credit' \in Nat /\ credit' <= credit - TicksPerSecond
  /\ granted' = granted + 1
  /\ UNCHANGED <<clock, rate, size>>

Forfeit ==
  /\ credit' \in Nat /\ credit' <= credit
  /\ UNCHANGED <<clock, rate, size, granted>>

Next == Renew \/ Elapse \/ Grant \/ Forfeit

Spec == Init /\ [][Next]_limiterVars

=============================================================================
