------------------------- MODULE NetworkRecoveryProofs -------------------------
(***************************************************************************)
(* Proofs about the recovery timer, for every initial and maximal delay.   *)
(* The inductive invariant is IInv; BackoffSpacing needs its BackoffInv,   *)
(* which relates the delay in force to the time already waited.            *)
(***************************************************************************)
EXTENDS NetworkRecovery, TLAPS

USE DurationAssumption, NoneAssumption

IInv == TypeOK /\ ScheduledOnlyWithNetwork /\ BackoffInv

\* The initial handler, with no change scheduled, satisfies the invariant.
LEMMA InitIInv == Init => IInv
BY DEF Init, IInv, TypeOK, ScheduledOnlyWithNetwork, BackoffInv,
       RecoveryHandlers, Option, Handler, new_recovery

\* Every call into the handler, and the passing of time, keep the invariant.
LEMMA NextIInv == IInv /\ [Next]_vars => IInv'
<1> SUFFICES ASSUME IInv, [Next]_vars
             PROVE  IInv'
    OBVIOUS
<1> USE DEF IInv, TypeOK, ScheduledOnlyWithNetwork, BackoffInv,
            RecoveryHandlers, Option, Handler, Smaller
<1>1. CASE Elapse
    BY <1>1 DEF Elapse, Elapsed
<1>2. CASE Notify
    BY <1>2 DEF Notify, on_resumed, Due
<1>3. CASE ResumeEarly
    BY <1>3 DEF ResumeEarly, on_resumed, Due
<1>4. CASE SocketOpened
    BY <1>4 DEF SocketOpened, on_successful_socket_open
<1>5. CASE Connected
    BY <1>5 DEF Connected, on_connected
<1>6. ASSUME NEW event \in ConnectivityEvents, ConnectivityChange(event)
      PROVE  IInv'
    BY <1>6 DEF ConnectivityChange, on_connectivity_change, ConnectivityEvents
<1>7. ASSUME NEW kind \in ErrorKinds, StreamError(kind)
      PROVE  IInv'
    BY <1>7 DEF StreamError, on_stream_error, ErrorKinds
<1>8. CASE UNCHANGED vars
    BY <1>8 DEF vars
<1>9. QED
    BY <1>1, <1>2, <1>3, <1>4, <1>5, <1>6, <1>7, <1>8 DEF Next

\* The handler's delay and schedule stay within their bounds.
THEOREM TypeCorrect == Spec => []TypeOK
<1>1. IInv => TypeOK
    BY DEF IInv
<1>2. QED
    BY InitIInv, NextIInv, <1>1, PTL DEF Spec

\* No network change is scheduled while the system reports no network.
THEOREM NoScheduleWithoutNetwork == Spec => []ScheduledOnlyWithNetwork
<1>1. IInv => ScheduledOnlyWithNetwork
    BY DEF IInv
<1>2. QED
    BY InitIInv, NextIInv, <1>1, PTL DEF Spec

\* Two delayed network changes of one outage are at least the doubled delay
\* apart, and the delay never shrinks within the outage.
THEOREM Backoff == Spec => BackoffSpacing
<1> DEFINE Spaced == Notify /\ delay > 0 =>
                        /\ quiet >= Smaller(2 * delay, MAX_DURATION)
                        /\ delay' >= delay
<1>1. IInv /\ [Next]_vars => [Spaced]_vars
    <2> SUFFICES ASSUME IInv, Notify, delay > 0
                 PROVE  quiet >= Smaller(2 * delay, MAX_DURATION) /\ delay' >= delay
        OBVIOUS
    <2> QED
        BY DEF Notify, Due, IInv, TypeOK, BackoffInv, RecoveryHandlers, Option, Smaller
<1>2. QED
    BY InitIInv, NextIInv, <1>1, PTL DEF Spec, BackoffSpacing
=============================================================================
