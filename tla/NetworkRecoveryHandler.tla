------------------------ MODULE NetworkRecoveryHandler ------------------------
(***************************************************************************)
(* The methods of NetworkRecoveryHandler                                   *)
(* (src/src/connection/network_recovery_handler.rs), each as a function    *)
(* from the handler before the call to the handler after it.               *)
(*                                                                         *)
(* The code stores the instant at which a network change is to be sent and *)
(* only ever compares it with, or subtracts from it, the current monotonic *)
(* time.  send_at holds that difference: the time left until the instant,  *)
(* 0 once the instant is reached, None when nothing is scheduled.  Elapsed *)
(* is what one unit of time does to it.                                    *)
(***************************************************************************)
EXTENDS Optional

CONSTANTS
    INITIAL_DURATION,   \* INITIAL_DELAYED_NETWORK_CHANGE_DURATION
    MAX_DURATION        \* MAX_DELAYED_NETWORK_CHANGE_DURATION

ASSUME DurationAssumption ==
    /\ INITIAL_DURATION \in Nat \ {0}
    /\ MAX_DURATION \in Nat
    /\ INITIAL_DURATION <= MAX_DURATION

ConnectivityEvents == {"Up", "NetworkSwitch", "Down"}

\* io::ErrorKind, up to what on_stream_error tells apart: NetworkUnreachable
\* and NetworkDown are one kind, every other kind is the other.
ErrorKinds == {"NetworkDown", "Other"}

RecoveryHandlers ==
    [send_at : Option(0..MAX_DURATION),
     duration : 1..MAX_DURATION,
     network_available : BOOLEAN]

Smaller(a, b) == IF a <= b THEN a ELSE b

Handler(send_at, duration, network_available) ==
    [send_at |-> send_at,
     duration |-> duration,
     network_available |-> network_available]

new_recovery(network_available) ==
    Handler(None, INITIAL_DURATION, network_available)

\* The condition under which on_resumed sends the delayed network change.
Due(h) == h.network_available /\ h.send_at # None /\ h.send_at = 0

\* Mutant: the change that was sent stays scheduled.
on_resumed_keeps_schedule(h) ==
    IF Due(h)
    THEN Handler(h.send_at, Smaller(2 * h.duration, MAX_DURATION), TRUE)
    ELSE h

on_resumed(h) ==
    IF Due(h)
    THEN Handler(None, Smaller(2 * h.duration, MAX_DURATION), TRUE)
    ELSE h

wakeup_delay(h) == IF h.network_available THEN h.send_at ELSE None

on_successful_socket_open(h) == [h EXCEPT !.send_at = None]

\* Mutant: a connection leaves the delayed change scheduled.
on_connected_keeps_schedule(h) == [h EXCEPT !.duration = INITIAL_DURATION]

on_connected(h) == Handler(None, INITIAL_DURATION, h.network_available)

\* Mutant: a connectivity change leaves the delayed change scheduled.
on_connectivity_change_keeps_schedule(h, event) ==
    Handler(h.send_at, INITIAL_DURATION, event # "Down")

on_connectivity_change(h, event) ==
    Handler(None, INITIAL_DURATION, event # "Down")

\* Mutant: the delayed change is scheduled without the backoff delay.
on_stream_error_initial(h, kind) ==
    IF h.network_available /\ kind = "NetworkDown"
    THEN [h EXCEPT !.send_at = INITIAL_DURATION]
    ELSE h

on_stream_error(h, kind) ==
    IF h.network_available /\ kind = "NetworkDown"
    THEN [h EXCEPT !.send_at = h.duration]
    ELSE h

\* One unit of time passes: a scheduled instant comes nearer until it is due.
Elapsed(h) ==
    IF h.send_at # None /\ h.send_at > 0
    THEN [h EXCEPT !.send_at = h.send_at - 1]
    ELSE h
=============================================================================
