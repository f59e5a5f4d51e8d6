------------------------------ MODULE TcpState ------------------------------
(***************************************************************************)
(* TCPStateMachine::process_event (core/stateful/tcp_state.cpp) and the    *)
(* events that FlowScheduler::handle_tcp_rx raises for a received segment. *)
(* A connection here is a record whose fields include state and active.    *)
(***************************************************************************)
EXTENDS Integers

States == {"CLOSED", "SYN_SENT", "SYN_RCVD", "ESTABLISHED", "FIN_WAIT_1",
           "FIN_WAIT_2", "CLOSE_WAIT", "CLOSING", "LAST_ACK", "TIME_WAIT"}

Events == {"SEND_SYN", "RECV_SYN", "RECV_SYN_ACK", "SEND_FIN", "RECV_FIN",
           "RECV_ACK", "APP_CLOSE", "TIMEOUT"}

Flags == {"SYN", "ACK", "FIN"}

\* The switch of process_event: <<state, event, next state>>.
Transitions ==
  { <<"CLOSED",      "SEND_SYN",     "SYN_SENT">>,
    <<"SYN_SENT",    "RECV_SYN_ACK", "ESTABLISHED">>,
    <<"SYN_RCVD",    "RECV_ACK",     "ESTABLISHED">>,
    <<"ESTABLISHED", "APP_CLOSE",    "FIN_WAIT_1">>,
    <<"ESTABLISHED", "SEND_FIN",     "FIN_WAIT_1">>,
    <<"ESTABLISHED", "RECV_FIN",     "CLOSE_WAIT">>,
    <<"FIN_WAIT_1",  "RECV_ACK",     "FIN_WAIT_2">>,
    <<"FIN_WAIT_1",  "RECV_FIN",     "CLOSING">>,
    <<"FIN_WAIT_2",  "RECV_FIN",     "TIME_WAIT">>,
    <<"CLOSE_WAIT",  "APP_CLOSE",    "LAST_ACK">>,
    <<"CLOSE_WAIT",  "SEND_FIN",     "LAST_ACK">>,
    <<"CLOSING",     "RECV_ACK",     "TIME_WAIT">>,
    <<"LAST_ACK",    "RECV_ACK",     "CLOSED">>,
    <<"TIME_WAIT",   "TIMEOUT",      "CLOSED">> }

\* An event the state has no transition for changes nothing.
ProcessEvent(conn, event) ==
  IF \E s \in States : <<conn.state, event, s>> \in Transitions
  THEN LET s == CHOOSE s \in States : <<conn.state, event, s>> \in Transitions
       IN  [conn EXCEPT !.state = s,
                        !.active = CASE s = "SYN_SENT" -> TRUE
                                     [] s = "CLOSED"   -> FALSE
                                     [] OTHER          -> @]
  ELSE conn

\* SYN together with ACK is one event; otherwise ACK is processed before FIN.
\* A lone SYN and RST raise none.
ReceiveFlags(conn, flags) ==
  LET acked == IF "ACK" \in flags THEN ProcessEvent(conn, "RECV_ACK") ELSE conn
  IN  IF {"SYN", "ACK"} \subseteq flags THEN ProcessEvent(conn, "RECV_SYN_ACK")
      ELSE IF "FIN" \in flags           THEN ProcessEvent(acked, "RECV_FIN")
      ELSE acked

=============================================================================
