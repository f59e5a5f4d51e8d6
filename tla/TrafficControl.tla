--------------------------- MODULE TrafficControl ---------------------------
(***************************************************************************)
(* What the service promises its client about traffic: one call at a time; *)
(* flows become active only during a call of StartTraffic; when a call of  *)
(* StopTraffic is answered none is, and afterwards each worker lets out at *)
(* most one burst, which it was already building.  A flow may end by       *)
(* itself at any time.                                                     *)
(***************************************************************************)
EXTENDS Naturals

CONSTANTS
  Ids, Workers,
  Burst     \* the most packets a worker sends at once

VARIABLES
  call,     \* the kind of call being served
  running,  \* was the last of start and stop to be answered a start?
  active,   \* the flows that send
  out       \* packets each worker let out since a stop was answered

controlVars == <<call, running, active, out>>

Init ==
  /\ call = "none" /\ running = FALSE
  /\ active = {}
  /\ out = [w \in Workers |-> 0]

Begin ==
  /\ call = "none" /\ call' \in {"configure", "start", "stop"}
  /\ UNCHANGED <<running, active, out>>

Configured ==
  /\ call = "configure" /\ call' = "none"
  /\ UNCHANGED <<running, active, out>>

Activate ==
  /\ call = "start"
  /\ \E id \in Ids : active' = active \cup {id}
  /\ UNCHANGED <<call, running, out>>

Started ==
  /\ call = "start" /\ call' = "none"
  /\ running' = TRUE
  /\ out' = [w \in Workers |-> 0]
  /\ UNCHANGED active

NothingToStart ==
  /\ call = "start" /\ call' = "none"
  /\ active = {}
  /\ UNCHANGED <<running, active, out>>

\* A flow is stopped, replaced, or past its duration.
Deactivate ==
  /\ active' \in SUBSET active
  /\ UNCHANGED <<call, running, out>>

Stopped ==
  /\ call = "stop" /\ call' = "none"
  /\ active = {}
  /\ running' = FALSE
  /\ UNCHANGED <<active, out>>

\* The burst a worker had in hand leaves, whatever is called meanwhile.
LetOut(w) ==
  /\ ~running /\ active = {}
  /\ out[w] = 0
  /\ \E n \in 1 .. Burst : out' = [out EXCEPT ![w] = n]
  /\ UNCHANGED <<call, running, active>>

Next ==
  \/ Begin
  \/ Configured
  \/ Activate \/ Started \/ NothingToStart
  \/ Deactivate
  \/ Stopped
  \/ \E w \in Workers : LetOut(w)

Spec == Init /\ [][Next]_controlVars

=============================================================================
