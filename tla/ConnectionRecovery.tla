-------------------------- MODULE ConnectionRecovery --------------------------
(***************************************************************************)
(* The connection thread implements NetworkRecovery: the loop of           *)
(* PvpnConnection calls its recovery handler only in ways that the         *)
(* handler's own specification allows, so what holds there of the delays   *)
(* between network changes holds of the whole thread.                      *)
(*                                                                         *)
(* The history of NetworkRecovery (delay, quiet) is added to               *)
(* PvpnConnection.  It follows from the steps of the thread and restricts  *)
(* none of them.                                                           *)
(***************************************************************************)
EXTENDS PvpnConnection

VARIABLES delay, quiet    \* as in NetworkRecovery

varsH == <<vars, delay, quiet>>

InitH == Init /\ delay = 0 /\ quiet = MAX_DURATION

\* The outage is over, or a new one begins: a change of the network (the
\* thread's start brings the first), or a tunnel that works.
OutageEnds ==
    \/ Start
    \/ HandleConnectivityChange
    \/ UpdateState /\ connection_state'.kind = "Connected"

\* poll_from_streams sends the delayed network change to the client.
DelayedChange == Resume /\ Due(recovery)

History ==
    /\ delay' = IF DelayedChange THEN recovery.duration
                ELSE IF OutageEnds THEN 0 ELSE delay
    /\ quiet' = IF DelayedChange THEN 0
                ELSE IF OutageEnds THEN MAX_DURATION
                ELSE IF Elapse THEN Smaller(quiet + 1, MAX_DURATION) ELSE quiet

NextH == Next /\ History

SpecH == InitH /\ [][NextH]_varsH

\* FairSpec with the history.
FairSpecH == SpecH /\ Fairness /\ SF_vars(ReadLast)
-----------------------------------------------------------------------------
Recovery == INSTANCE NetworkRecovery WITH handler <- recovery

\* The thread uses the recovery handler only as NetworkRecovery does: on_resumed
\* whenever poll returns, on_connected and on_connectivity_change at the end of an
\* outage only, a socket that opens and fails in one step has failed, and nothing
\* else touches the schedule.  So the delayed network changes that reach the client
\* keep the exponential backoff of BackoffSpacing, whatever the thread reads, writes
\* and is told in between.
ImplementsRecovery == Recovery!Spec
=============================================================================
