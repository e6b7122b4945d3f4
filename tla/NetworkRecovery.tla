---------------------------- MODULE NetworkRecovery ----------------------------
(***************************************************************************)
(* The recovery timer on its own: every order of calls into                *)
(* NetworkRecoveryHandler that the connection loop can produce, with time  *)
(* passing between them.  PvpnConnection composes the same handler with    *)
(* the loop that drives it.                                                *)
(***************************************************************************)
EXTENDS NetworkRecoveryHandler

VARIABLES
    handler,    \* the NetworkRecoveryHandler
    delay,      \* ghost: the delay behind the last notification of this
                \* outage, 0 when there was none
    quiet       \* ghost: time since that notification, at most MAX_DURATION

vars == <<handler, delay, quiet>>

Init ==
    /\ \E network_available \in BOOLEAN : handler = new_recovery(network_available)
    /\ delay = 0
    /\ quiet = MAX_DURATION

Elapse ==
    /\ handler' = Elapsed(handler)
    /\ quiet' = Smaller(quiet + 1, MAX_DURATION)
    /\ UNCHANGED delay

\* poll_from_streams calls on_resumed each time poll returns; when the
\* change is due it calls notify_network_change.
Notify ==
    /\ Due(handler)
    /\ handler' = on_resumed(handler)
    /\ delay' = handler.duration
    /\ quiet' = 0

ResumeEarly ==
    /\ ~Due(handler)
    /\ handler' = on_resumed(handler)
    /\ UNCHANGED <<delay, quiet>>

SocketOpened ==
    /\ handler' = on_successful_socket_open(handler)
    /\ UNCHANGED <<delay, quiet>>

\* update_state calls on_connected only when the state is Connected, and
\* get_peer_connection_state never returns Connected without a network.
Connected ==
    /\ handler.network_available
    /\ handler' = on_connected(handler)
    /\ delay' = 0
    /\ quiet' = MAX_DURATION

ConnectivityChange(event) ==
    /\ handler' = on_connectivity_change(handler, event)
    /\ delay' = 0
    /\ quiet' = MAX_DURATION

StreamError(kind) ==
    /\ handler' = on_stream_error(handler, kind)
    /\ UNCHANGED <<delay, quiet>>

Next ==
    \/ Elapse
    \/ Notify
    \/ ResumeEarly
    \/ SocketOpened
    \/ Connected
    \/ \E event \in ConnectivityEvents : ConnectivityChange(event)
    \/ \E kind \in ErrorKinds : StreamError(kind)

Spec == Init /\ [][Next]_vars

\* Time passes, and poll, whose timeout is at most wakeup_delay, returns once
\* the change is due.
Fairness == WF_vars(Elapse) /\ WF_vars(Notify)

FairSpec == Spec /\ Fairness
-----------------------------------------------------------------------------
\* The handler's fields keep their types: in particular the delay never
\* exceeds MAX_DELAYED_NETWORK_CHANGE_DURATION, however often it is doubled.
TypeOK ==
    /\ handler \in RecoveryHandlers
    /\ delay \in 0..MAX_DURATION
    /\ quiet \in 0..MAX_DURATION

\* "Recovery will happen only if true" (the comment on network_available):
\* no network change stays scheduled while the system reports no network, so
\* the network_available tests of on_resumed and wakeup_delay never hide a
\* schedule that would come back to life on the next Up.
ScheduledOnlyWithNetwork ==
    handler.send_at # None => handler.network_available

\* Why the spacing below holds: the delay in force is the doubled one, and a
\* scheduled change still has at least the rest of that delay to wait.
BackoffInv ==
    /\ handler.duration = IF delay = 0 THEN INITIAL_DURATION
                                       ELSE Smaller(2 * delay, MAX_DURATION)
    /\ handler.send_at # None /\ delay > 0 =>
           quiet + handler.send_at >= handler.duration

\* Exponential backoff: within one outage, a delayed network change follows
\* the previous one no sooner than twice the delay that led to that one (at
\* most MAX_DURATION), whatever sockets fail or open in between.
BackoffSpacing ==
    [][Notify /\ delay > 0 =>
         /\ quiet >= Smaller(2 * delay, MAX_DURATION)
         /\ delay' >= delay]_vars

\* Once the errors stop, the scheduled change is sent or dropped: nobody has
\* to call the handler again for it to happen.  Every further network error
\* starts the delay anew (on_stream_error), so errors that come more often
\* than the delay can put it off for ever.
ScheduleResolves ==
    <>[][~StreamError("NetworkDown")]_vars => (handler.send_at # None) ~> (handler.send_at = None)
=============================================================================
