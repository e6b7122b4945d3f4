------------------------- MODULE PvpnConnectionProofs -------------------------
(***************************************************************************)
(* Safety of the connection thread, for every set of callers, messages,    *)
(* configurations, peers and streams.  Each part has its own inductive     *)
(* invariant (ApiInv, StateInv, CaptureInv, StopInv, StreamInv, TypeInv).  *)
(* Frame says which actions can change which variables; the Next... lemma  *)
(* of an invariant treats those that can change its own.                   *)
(*                                                                         *)
(* With the history of ConnectionRecovery, the thread implements           *)
(* NetworkRecovery, and the theorems about the timer hold of the thread.   *)
(***************************************************************************)
EXTENDS ConnectionRecovery, TLAPS

(* The channel and the waker *)

\* NoLostWakeup is inductive once the callers and the return point of a pull
\* have their types.
ApiInv ==
    /\ caller \in [Callers -> CallerStatuses]
    /\ resume_to \in {"update", "results"}
    /\ NoLostWakeup

\* No message is sent before the thread exists (start_pvpn_connection).
LEMMA InitApi == Init => ApiInv
BY DEF Init, ApiInv, NoLostWakeup, PastMessages, CallerStatuses, Waking

\* A message sent behind the back of handle_messages keeps its wake: send
\* precedes wake, only the return of poll consumes a wake, and handle_messages
\* has drained the channel when the thread goes on to poll.
LEMMA NextApi == ApiInv /\ [Next]_vars => ApiInv'
<1> SUFFICES ASSUME ApiInv, [Next]_vars PROVE ApiInv'
    OBVIOUS
<1> USE DEF ApiInv, NoLostWakeup, PastMessages, CallerStatuses, Waking, apiVars, loopVars
<1>1. ASSUME NEW c \in Callers, Api(c)
      PROVE  ApiInv'
    <2>1. ASSUME NEW m, NEW next \in Waking, Send(c, m, next)
          PROVE  ApiInv'
        BY <2>1 DEF Send, ThreadUnchanged
    <2>2. CASE SendPanics(c)
        BY <2>2 DEF SendPanics, ThreadUnchanged
    <2>3. QED
        BY <1>1, <2>1, <2>2 DEF Api, Call, DisconnectAndWait, Disconnect
<1>2. ASSUME NEW c \in Callers, Wake(c)
      PROVE  ApiInv'
    BY <1>2 DEF Wake, AfterWake, ThreadUnchanged
<1>3. ASSUME NEW c \in Callers, Join(c)
      PROVE  ApiInv'
    BY <1>3 DEF Join, ThreadUnchanged
<1>4. CASE HandleMessage
    BY <1>4 DEF HandleMessage, Receive, HandleDisconnect, HandleConnectivityChange,
                HandlePacketCapture, HandleClientRequest, HandleRequestLocalAgentStats,
                HandleUpdate, MessagesDone, Drained
<1>5. CASE PullFromClient
    BY <1>5 DEF PullFromClient, Pull, PullOpenFails, PullOpen, PullWrite, PullWritePcap,
                PullClose, PullOther, PullDone, PullAgentMessage, AgentDone
<1>6. CASE Start \/ UpdateState \/ BeginPoll \/ LoopEnd
    BY <1>6, Zenon DEF Start, UpdateState, BeginPoll, LoopEnd
<1>7. CASE WriteReady \/ ReadData \/ ReadLast \/ ResultsDone
    BY <1>7 DEF WriteReady, ReadData, ReadLast, ResultsDone
<1>8. CASE PollWoken \/ StreamsReady \/ PollFails
    BY <1>8 DEF PollWoken, StreamsReady, PollFails, PollReturns, Resume
<1>9. CASE StartFails \/ Elapse \/ ClientMoves \/ UNCHANGED vars
    BY <1>9 DEF StartFails, Elapse, ClientMoves, vars
<1>10. QED
    BY <1>1, <1>2, <1>3, <1>4, <1>5, <1>6, <1>7, <1>8, <1>9 DEF Next, Thread, Terminated

\* The thread only takes messages from the channel and drains the waker.
LEMMA ChannelSteps ==
    [Next]_vars => \/ UNCHANGED <<channel, waker>>
                   \/ channel # <<>> /\ channel' = Tail(channel) /\ UNCHANGED waker
                   \/ UNCHANGED channel /\ waker' = FALSE
                   \/ \E c \in Callers : Api(c) \/ Wake(c) \/ Join(c)
<1> DEFINE Kept == UNCHANGED <<channel, waker>>
           Taken == channel # <<>> /\ channel' = Tail(channel) /\ UNCHANGED waker
<1> USE DEF apiVars
<1>1. HandleMessage => Kept \/ Taken
    BY Zenon DEF HandleMessage, HandleDisconnect, HandleConnectivityChange,
                 HandlePacketCapture, HandleClientRequest, HandleRequestLocalAgentStats,
                 HandleUpdate, MessagesDone, Receive
<1>2. PullFromClient => Kept
    BY Zenon DEF PullFromClient, Pull, PullOpenFails, PullOpen, PullWrite, PullWritePcap,
                 PullClose, PullOther, PullDone, PullAgentMessage, AgentDone
<1>3. Start \/ UpdateState \/ BeginPoll \/ LoopEnd \/ StartFails \/ Elapse \/ ClientMoves => Kept
    BY Zenon DEF Start, UpdateState, BeginPoll, LoopEnd, StartFails, Elapse, ClientMoves
<1>4. WriteReady \/ ReadData \/ ReadLast \/ ResultsDone => Kept
    BY Zenon DEF WriteReady, ReadData, ReadLast, ResultsDone
<1>5. PollFails => Kept
    BY Zenon DEF PollFails, Resume
<1>6. PollWoken \/ StreamsReady => UNCHANGED channel /\ waker' = FALSE
    BY Zenon DEF PollWoken, StreamsReady, PollReturns, Resume
<1>7. UNCHANGED vars => Kept
    BY Zenon DEF vars
<1> QED
    BY <1>1, <1>2, <1>3, <1>4, <1>5, <1>6, <1>7, Zenon DEF Next, Thread, Terminated
-----------------------------------------------------------------------------
(* What each step changes *)

\* Every part of the connection is changed by a few actions only; poll is
\* reached by update_state, and nothing follows the end of the loop.
Frame ==
    /\ UNCHANGED stateVars \/ Start \/ HandleConnectivityChange \/ UpdateState \/ LoopEnd
    /\ UNCHANGED captureVars \/ Start \/ HandlePacketCapture \/ PullWritePcap \/ LoopEnd
    /\ UNCHANGED <<peerVars, settingVars>> \/ Start \/ HandleUpdate \/ ClientMoves
    /\ UNCHANGED streamVars \/ Start \/ HandleUpdate \/ PullOpen \/ PullOpenFails \/ PullClose
          \/ PullWrite \/ WriteReady \/ ReadData \/ ReadLast
    /\ UNCHANGED agent \/ Start \/ PullAgentMessage \/ UpdateState
    /\ UNCHANGED session \/ PullAgentMessage
    /\ UNCHANGED seen \/ PullAgentMessage \/ UpdateState
    /\ UNCHANGED announced \/ PullAgentMessage \/ ClientMoves
    /\ UNCHANGED <<asked, owed_stats>> \/ HandleRequestLocalAgentStats \/ PullAgentMessage
          \/ ClientMoves
    /\ UNCHANGED answered \/ HandleRequestLocalAgentStats \/ PullAgentMessage \/ UpdateState
          \/ ClientMoves
    /\ UNCHANGED should_stop \/ HandleDisconnect
    /\ UNCHANGED <<readable, writable>> \/ WriteReady \/ ReadLast
          \/ (readable' \subseteq streams /\ writable' \subseteq write_interest)
    /\ ThreadUnchanged \/ UpdateState \/ BeginPoll \/ Elapse
          \/ (pc' \notin {"poll", "polling"} /\ deadline' \in {deadline, None})
    /\ pc' = "start" => pc = "start"
    /\ pc' = "agent" => pc = "agent" \/ agent # None
    /\ pc \in {"loop_end", "ended"} => LoopEnd \/ UNCHANGED <<pc, stateVars, captureVars>>

\* The API threads share the channel and the waker with the thread, nothing else.
LEMMA ApiFrame ==
    ASSUME NEW c \in Callers, Api(c) \/ Wake(c) \/ Join(c)
    PROVE  ThreadUnchanged
BY DEF Api, Wake, Join, Call, DisconnectAndWait, Disconnect, SendPanics, Send

\* Every step is of that kind; the return point of a pull is not the start.
LEMMA StepFrame == ApiInv /\ [Next]_vars => Frame
<1> SUFFICES ASSUME ApiInv, [Next]_vars
             PROVE  Frame
    OBVIOUS
<1> USE DEF Frame, dataVars, loopVars, pollVars, sessionVars, statsVars, ThreadEnded
<1>1. CASE HandleDisconnect
    BY <1>1, Zenon DEF HandleDisconnect, Receive, agentVars
<1>2. CASE HandleConnectivityChange
    BY <1>2 DEF HandleConnectivityChange, Receive, agentVars
<1>3. CASE HandlePacketCapture
    BY <1>3 DEF HandlePacketCapture, Receive, agentVars
<1>4. CASE HandleClientRequest \/ MessagesDone
    BY <1>4 DEF HandleClientRequest, MessagesDone, Receive, agentVars
<1>5. CASE HandleRequestLocalAgentStats
    BY <1>5 DEF HandleRequestLocalAgentStats, Receive
<1>6. CASE HandleUpdate
    BY <1>6 DEF HandleUpdate, Receive, agentVars
<1>7. CASE PullOpenFails \/ PullOpen
    BY <1>7, Zenon DEF PullOpenFails, PullOpen, Pull, agentVars
<1>8. CASE PullWrite \/ PullClose
    BY <1>8 DEF PullWrite, PullClose, Pull, agentVars
<1>9. CASE PullWritePcap \/ PullOther
    BY <1>9 DEF PullWritePcap, PullOther, Pull, agentVars
<1>10. CASE PullDone \/ AgentDone
    BY <1>10 DEF PullDone, AgentDone, ApiInv, agentVars
<1>11. CASE PullAgentMessage
    BY <1>11, Zenon DEF PullAgentMessage
<1>12. CASE Start
    BY <1>12, Zenon DEF Start
<1>13. CASE UpdateState
    BY <1>13 DEF UpdateState
<1>14. CASE BeginPoll
    <2>1. pc = "poll" /\ pc' = "polling" /\ UNCHANGED <<readable, writable, dataVars>>
        BY <1>14, Zenon DEF BeginPoll
    <2> QED
        BY <1>14, <2>1 DEF agentVars
<1>15. CASE WriteReady
    <2>1. /\ pc = "results" /\ UNCHANGED <<pc, deadline, agentVars, should_stop>>
          /\ UNCHANGED <<stateVars, captureVars, peerVars, settingVars>>
        BY <1>15, Zenon DEF WriteReady
    <2> QED
        BY <1>15, <2>1, Zenon DEF agentVars
<1>16. CASE ReadData \/ ReadLast
    BY <1>16 DEF ReadData, ReadLast, agentVars
<1>17. CASE ResultsDone
    BY <1>17 DEF ResultsDone, agentVars
<1>18. CASE LoopEnd
    <2>1. /\ pc = "loop_end" /\ pc' = "ended" /\ UNCHANGED <<pollVars, agentVars, should_stop>>
          /\ UNCHANGED <<streamVars, peerVars, settingVars>>
        BY <1>18, Zenon DEF LoopEnd
    <2> QED
        BY <1>18, <2>1, Zenon DEF agentVars
<1>19. CASE Thread
    BY <1>1, <1>2, <1>3, <1>4, <1>5, <1>6, <1>7, <1>8, <1>9, <1>10, <1>11, <1>12, <1>13,
       <1>14, <1>15, <1>16, <1>17, <1>18, <1>19, Zenon
       DEF Thread, HandleMessage, PullFromClient
<1>20. CASE StartFails
    <2>1. pc = "start" /\ pc' = "ended" /\ UNCHANGED <<pollVars, dataVars>>
        BY <1>20, Zenon DEF StartFails
    <2> QED
        BY <2>1, Zenon DEF agentVars
<1>21. CASE PollWoken \/ StreamsReady \/ PollFails
    <2>1. Resume /\ readable' \subseteq streams /\ writable' \subseteq write_interest
        BY <1>21 DEF PollWoken, StreamsReady, PollFails, PollReturns
    <2>2. /\ pc = "polling" /\ pc' = "results" /\ deadline' = None
          /\ UNCHANGED <<stateVars, peerVars, settingVars, captureVars, streamVars,
                         agentVars, should_stop>>
        BY <2>1, Zenon DEF Resume
    <2> QED
        BY <2>1, <2>2, Zenon DEF agentVars
<1>22. CASE Elapse
    <2>1. /\ pc # "ended"
          /\ UNCHANGED <<loopVars, readable, writable, stateVars, peerVars, settingVars,
                         captureVars, streamVars, agentVars, should_stop>>
        BY <1>22, Zenon DEF Elapse
    <2> QED
        BY <1>22, <2>1, Zenon DEF agentVars
<1>23. CASE ThreadUnchanged
    <2>1. UNCHANGED <<loopVars, pollVars, dataVars>>
        BY <1>23 DEF ThreadUnchanged
    <2> QED
        BY <1>23, <2>1, Zenon DEF agentVars
<1>24. CASE UNCHANGED vars
    BY <1>23, <1>24 DEF vars, ThreadUnchanged
<1>25. CASE ClientMoves
    BY <1>25 DEF ClientMoves, peerVars
<1> QED
    BY <1>19, <1>20, <1>21, <1>22, <1>23, <1>24, <1>25, ApiFrame, Zenon DEF Next, Terminated
-----------------------------------------------------------------------------
(* The recovery timer *)

\* Every method of NetworkRecoveryHandler keeps the handler well-formed: the
\* delay stays between 1 and the maximum.
LEMMA RecoveryOps ==
    ASSUME NEW h \in RecoveryHandlers, NEW kind, NEW event
    PROVE  /\ on_resumed(h) \in RecoveryHandlers
           /\ Elapsed(h) \in RecoveryHandlers
           /\ on_connected(h) \in RecoveryHandlers
           /\ on_stream_error(h, kind) \in RecoveryHandlers
           /\ on_successful_socket_open(h) \in RecoveryHandlers
           /\ on_connectivity_change(h, event) \in RecoveryHandlers
BY DurationAssumption, NoneAssumption
   DEF RecoveryHandlers, Handler, on_resumed, Due, Smaller, Elapsed, on_connected,
       on_stream_error, on_successful_socket_open, on_connectivity_change, Option

\* Only on_connectivity_change changes what the handler knows of the network.
LEMMA RecoveryOpsNetwork ==
    ASSUME NEW h \in RecoveryHandlers, NEW kind
    PROVE  /\ on_resumed(h).network_available = h.network_available
           /\ Elapsed(h).network_available = h.network_available
           /\ on_connected(h).network_available = h.network_available
           /\ on_stream_error(h, kind).network_available = h.network_available
           /\ on_successful_socket_open(h).network_available = h.network_available
BY Zenon DEF RecoveryHandlers, Handler, on_resumed, Due, Elapsed, on_connected,
       on_stream_error, on_successful_socket_open, Option

\* What an action other than the start and a connectivity change can do to the
\* recovery handler.
RecoveryStep ==
    \/ UNCHANGED recovery
    \/ Resume /\ recovery' = on_resumed(recovery)
    \/ Elapse /\ recovery' = Elapsed(recovery)
    \/ /\ UpdateState /\ connection_state'.kind = "Connected"
       /\ recovery' = on_connected(recovery)
    \/ \E kind \in ErrorKinds : recovery' = on_stream_error(recovery, kind)
    \/ recovery' = on_successful_socket_open(recovery)
    \/ \E kind \in ErrorKinds :
          recovery' = on_stream_error(on_successful_socket_open(recovery), kind)

\* The thread calls the recovery handler in no other way.
LEMMA RecoverySteps ==
    [Next]_vars => RecoveryStep \/ Start \/ HandleConnectivityChange
<1> SUFFICES ASSUME [Next]_vars
             PROVE  RecoveryStep \/ Start \/ HandleConnectivityChange
    BY Zenon
<1> USE DEF RecoveryStep, dataVars
<1>1. CASE HandleMessage
    BY <1>1, Zenon DEF HandleMessage, HandleDisconnect, HandlePacketCapture, HandleClientRequest,
                HandleRequestLocalAgentStats, HandleUpdate, MessagesDone
<1>2. CASE PullOpen
    BY <1>2 DEF PullOpen
<1>3. CASE PullFromClient /\ ~PullOpen
    BY <1>3 DEF PullFromClient, PullOpenFails, PullWrite, PullWritePcap, PullClose,
                PullOther, PullDone, PullAgentMessage, AgentDone, SocketError,
                WriteIfOpen, handle_stream_write_result
<1>4. CASE UpdateState \/ BeginPoll \/ WriteReady
    BY <1>4 DEF UpdateState, BeginPoll, WriteReady, SocketError, WriteIfOpen,
                handle_stream_write_result
<1>5. CASE ReadData \/ ReadLast \/ ResultsDone \/ LoopEnd
    BY <1>5 DEF ReadData, ReadLast, ResultsDone, LoopEnd, SocketError
<1>6. CASE StartFails \/ PollWoken \/ StreamsReady \/ PollFails \/ Elapse \/ ClientMoves
    BY <1>6 DEF StartFails, PollWoken, StreamsReady, PollReturns, PollFails, Elapse, Resume,
                ClientMoves
<1>7. CASE UNCHANGED vars
    BY <1>7 DEF vars
<1>8. ASSUME NEW c \in Callers, Api(c) \/ Wake(c) \/ Join(c)
      PROVE  UNCHANGED recovery
    BY <1>8, ApiFrame DEF ThreadUnchanged
<1>9. QED
    BY <1>1, <1>2, <1>3, <1>4, <1>5, <1>6, <1>7, <1>8 DEF Next, Thread, Terminated
-----------------------------------------------------------------------------
(* The reported state *)

\* set_state keeps the state and the last callback equal; a Connected state is
\* only kept while the network is there.
StateInv ==
    /\ recovery \in RecoveryHandlers
    /\ connection_state = ReportedState
    /\ connection_state.kind = "Connected" => recovery.network_available
    /\ pc = "start" => connection_state = Disconnected

\* set_state calls back exactly on a change, so the application knows the
\* state.
LEMMA SetStateReports ==
    ASSUME NEW new, set_state(new), connection_state = ReportedState
    PROVE  connection_state' = new /\ ReportedState' = new
BY DEF set_state, ReportedState, VpnState

\* The thread starts disconnected.
LEMMA InitState == Init => StateInv
BY DurationAssumption
   DEF Init, StateInv, ReportedState, VpnState, Disconnected, ConnState, new_recovery, Handler,
       RecoveryHandlers, Option

\* A lost network replaces a Connected state in the same step
\* (on_connectivity_change), and get_peer_connection_state reports none without
\* a network.
LEMMA NextState == ApiInv /\ StateInv /\ [Next]_vars => StateInv'
<1> SUFFICES ASSUME ApiInv, StateInv, [Next]_vars
             PROVE  StateInv'
    OBVIOUS
<1>1. CASE Start
    BY <1>1, DurationAssumption, ConstantAssumption
       DEF Start, StateInv, ReportedState, new_recovery, Handler, RecoveryHandlers, Option,
           stateVars, VpnState, Disconnected, ConnState, network_unavailable_state
<1>2. CASE HandleConnectivityChange
    <2>1. recovery' \in RecoveryHandlers
        BY <1>2, RecoveryOps DEF HandleConnectivityChange, StateInv
    <2>2. CASE recovery'.network_available
        BY <1>2, <2>1, <2>2 DEF HandleConnectivityChange, network_changed, StateInv,
                                ReportedState, stateVars, Receive
    <2>3. CASE ~recovery'.network_available
        BY <1>2, <2>1, <2>3, SetStateReports
           DEF HandleConnectivityChange, network_changed, StateInv, Receive,
               network_unavailable_state, ConnState
    <2>4. QED
        BY <2>2, <2>3
<1>3. CASE UpdateState
    <2>1. /\ recovery' \in RecoveryHandlers
          /\ recovery'.network_available = recovery.network_available
        BY <1>3, RecoveryOps, RecoveryOpsNetwork DEF UpdateState, StateInv
    <2>2. /\ connection_state' = get_peer_connection_state(tunnel, agent')
          /\ ReportedState' = connection_state'
        BY <1>3, SetStateReports DEF UpdateState, StateInv
    <2>3. ~recovery.network_available => connection_state'.kind = "Connecting"
        BY <2>2 DEF get_peer_connection_state, network_unavailable_state, ConnState
    <2>4. QED
        BY <1>3, <2>1, <2>2, <2>3 DEF StateInv, UpdateState
<1>4. CASE LoopEnd
    BY <1>4, SetStateReports DEF LoopEnd, loop_end_state, StateInv, Disconnected, ConnState
<1>5. CASE UNCHANGED stateVars /\ (pc' = "start" => pc = "start")
           /\ ~(Start \/ HandleConnectivityChange)
    <2>1. /\ recovery' \in RecoveryHandlers
          /\ recovery'.network_available = recovery.network_available
        BY <1>5, RecoverySteps, RecoveryOps, RecoveryOpsNetwork DEF StateInv, RecoveryStep
    <2>2. QED
        BY <1>5, <2>1 DEF StateInv, stateVars, ReportedState
<1>6. QED
    BY <1>1, <1>2, <1>3, <1>4, <1>5, StepFrame DEF Frame
-----------------------------------------------------------------------------
(* Packet capture *)

\* The messages of the channel are typed because one of them names the file.
CaptureInv ==
    /\ channel \in Seq(Messages)
    /\ pcap \in Option(Captures)
    /\ CaptureInSync

\* The channel holds messages that the application sent.
LEMMA ChannelType ==
    channel \in Seq(Messages) /\ [Next]_vars => channel' \in Seq(Messages)
<1> SUFFICES ASSUME channel \in Seq(Messages), [Next]_vars
             PROVE  channel' \in Seq(Messages)
    OBVIOUS
<1>1. ASSUME NEW c \in Callers, Api(c) \/ Wake(c) \/ Join(c)
      PROVE  channel' \in Seq(Messages)
    <2>1. ASSUME NEW m \in Messages, NEW next, Send(c, m, next)
          PROVE  channel' \in Seq(Messages)
        BY <2>1 DEF Send
    <2>2. CASE SendPanics(c) \/ Wake(c) \/ Join(c)
        BY <2>2 DEF SendPanics, Wake, Join
    <2> QED
        BY <1>1, <2>1, <2>2 DEF Api, Call, DisconnectAndWait, Disconnect, Messages
<1>2. CASE channel # <<>> /\ channel' = Tail(channel)
    BY <1>2
<1> QED
    BY <1>1, <1>2, ChannelSteps

\* There is no capture before the thread starts.
LEMMA InitCapture == Init => CaptureInv
BY DEF Init, CaptureInv, CaptureInSync, Option

\* start_packet_capture leaves file, client and event in step, whether or not
\* the file could be opened.
LEMMA StartsCapture ==
    ASSUME CaptureInv, NEW file \in CaptureFiles, NEW opened \in Opened(file),
           start_packet_capture(opened)
    PROVE  pcap' \in Option(Captures) /\ CaptureInSync'
BY CaptureAssumption DEF CaptureInv, CaptureInSync, Opened, Captures, Option,
                         start_packet_capture, captureVars

\* File, client and event stay in step, also when a capture replaces another
\* and when a write stops it (handle_write).
LEMMA NextCapture == ApiInv /\ CaptureInv /\ [Next]_vars => CaptureInv'
<1> SUFFICES ASSUME ApiInv, CaptureInv, [Next]_vars
             PROVE  pcap' \in Option(Captures) /\ CaptureInSync'
    BY ChannelType DEF CaptureInv
<1>1. CASE Start
    <2>1. PICK config \in InitialConfigs :
            IF config.pcap_file = None THEN UNCHANGED captureVars
            ELSE \E opened \in Opened(config.pcap_file) : start_packet_capture(opened)
        BY <1>1 DEF Start
    <2>2. config.pcap_file \in CaptureFiles
        BY DEF CaptureFiles
    <2>3. QED
        BY <2>1, <2>2, StartsCapture DEF CaptureInv, CaptureInSync, captureVars
<1>2. CASE HandlePacketCapture
    <2>1. CASE Receive("StartPacketCapture") /\
               \E opened \in Opened(Head(channel).file) : start_packet_capture(opened)
        <3>1. Head(channel) \in Messages /\ Head(channel).type = "StartPacketCapture"
            BY <2>1 DEF Receive, CaptureInv
        <3>2. Head(channel).file \in CaptureFiles
            BY <3>1 DEF Messages, CaptureFiles
        <3>3. QED
            BY <2>1, <3>2, StartsCapture
    <2>2. CASE stop_packet_capture
        BY <2>2 DEF stop_packet_capture, CaptureInSync, Option
    <2>3. QED
        BY <1>2, <2>1, <2>2 DEF HandlePacketCapture
<1>3. CASE PullWritePcap
    <2>1. CASE pcap = None /\ UNCHANGED captureVars
        BY <2>1 DEF CaptureInv, CaptureInSync, captureVars
    <2>2. CASE stop_packet_capture
        BY <2>2 DEF stop_packet_capture, CaptureInSync, Option
    <2>3. CASE /\ pcap # None /\ ~AtMaxSize(pcap.size)
               /\ \E written \in {0, 1} :
                    pcap' = [file |-> pcap.file, size |-> pcap.size + written]
               /\ UNCHANGED <<capturing, told_capture>>
        <3>1. pcap' \in Captures /\ pcap'.file = pcap.file
            BY <2>3, ConstantAssumption DEF CaptureInv, Captures, Option, AtMaxSize
        <3>2. QED
            BY <2>3, <3>1, CaptureAssumption DEF CaptureInv, CaptureInSync, Option
    <2>4. QED
        BY <1>3, <2>1, <2>2, <2>3 DEF PullWritePcap
<1>4. CASE LoopEnd
    BY <1>4 DEF LoopEnd, stop_packet_capture, CaptureInv, CaptureInSync, captureVars, Option
<1>5. CASE UNCHANGED captureVars
    BY <1>5 DEF CaptureInv, CaptureInSync, captureVars
<1>6. QED
    BY <1>1, <1>2, <1>3, <1>4, <1>5, StepFrame DEF Frame
-----------------------------------------------------------------------------
(* The end of the thread *)

\* A thread told to stop takes no step but on_connection_loop_end.
StopInv ==
    /\ should_stop \in BOOLEAN
    /\ should_stop => pc \in {"loop_end", "ended"}
    /\ StoppedIsReported

\* A thread that starts has not been told to stop.
LEMMA InitStop == Init => StopInv
BY Zenon DEF Init, StopInv, StoppedIsReported, ThreadEnded

\* on_connection_loop_end stops the capture and reports Disconnected.
LEMMA NextStop == ApiInv /\ StateInv /\ CaptureInv /\ StopInv /\ [Next]_vars => StopInv'
<1> SUFFICES ASSUME ApiInv, StateInv, CaptureInv, StopInv, [Next]_vars
             PROVE  StopInv'
    OBVIOUS
<1> USE DEF StopInv, StoppedIsReported, ThreadEnded
<1>1. CASE HandleDisconnect
    BY <1>1 DEF HandleDisconnect
<1>2. CASE LoopEnd
    <2>1. told_capture' = None /\ ~capturing'
        BY <1>2 DEF LoopEnd, stop_packet_capture, captureVars, CaptureInv, CaptureInSync
    <2>2. ReportedState' = Disconnected
        BY <1>2, SetStateReports DEF LoopEnd, loop_end_state, StateInv
    <2>3. QED
        BY <1>2, <2>1, <2>2 DEF LoopEnd
<1>3. CASE /\ UNCHANGED should_stop
           /\ pc \in {"loop_end", "ended"} => UNCHANGED <<pc, stateVars, captureVars>>
    BY <1>3 DEF stateVars, captureVars, ReportedState
<1>4. QED
    BY <1>1, <1>2, <1>3, StepFrame DEF Frame
-----------------------------------------------------------------------------
(* Streams *)

\* The tun is not among the streams of the client, so that replacing it
\* (update_tun) does not take a stream from the client.
StreamInv ==
    /\ client_streams \subseteq StreamIds
    /\ pc = "start" => client_streams = {}
    /\ StreamsCoverClient

\* There are no streams before the thread starts.
LEMMA InitStream == Init => StreamInv
BY DEF Init, StreamInv, StreamsCoverClient

\* A stream leaves the table only when the client closed it, and one that
\* failed is reported to the client in the same step (handle_stream_error).
LEMMA NextStream == ApiInv /\ StreamInv /\ [Next]_vars => StreamInv'
<1> SUFFICES ASSUME ApiInv, StreamInv, [Next]_vars
             PROVE  StreamInv'
    OBVIOUS
<1> USE DEF StreamInv, StreamsCoverClient, streamVars, dataVars, loopVars
<1>1. CASE HandleUpdate
    BY <1>1, ConstantAssumption, Zenon DEF HandleUpdate, Receive, update_tun, register_stream
<1>2. CASE PullOpen \/ PullOpenFails \/ PullClose
    BY <1>2 DEF PullOpen, PullOpenFails, PullClose, Pull, SocketError, FreeIds,
                close_stream, register_stream
<1>3. CASE PullWrite
    BY <1>3 DEF PullWrite, Pull, WriteIfOpen, handle_stream_write_result, SocketError
<1>4. CASE Start
    BY <1>4, Zenon DEF Start
<1>5. CASE WriteReady
    BY <1>5 DEF WriteReady, WriteIfOpen, handle_stream_write_result, SocketError
<1>6. CASE ReadData \/ ReadLast
    BY <1>6 DEF ReadData, ReadLast, SocketError
<1>7. CASE UNCHANGED streamVars /\ (pc' = "start" => pc = "start")
    BY <1>7
<1> QED
    BY <1>1, <1>2, <1>3, <1>4, <1>5, <1>6, <1>7, StepFrame DEF Frame
-----------------------------------------------------------------------------
(* Types *)

\* Where the thread can be.
Locations == {"start", "messages", "pull", "agent", "update", "poll", "polling", "results",
              "loop_end", "ended"}

\* The part of TypeOK that the other invariants do not have.
TypeInv ==
    /\ waker \in BOOLEAN
    /\ pc \in Locations /\ pulls \in 0..MaxPulls
    /\ readable \subseteq StreamIds \cup {TUN} /\ writable \subseteq StreamIds \cup {TUN}
    /\ capturing \in BOOLEAN /\ tun_error \in BOOLEAN
    /\ streams \subseteq StreamIds \cup {TUN} /\ write_interest \subseteq streams
    /\ pc = "start" => write_interest = {}
    /\ seen \in BOOLEAN /\ announced \in [jails : SUBSET JailReasons, early : BOOLEAN]
    /\ asked \subseteq StatFields /\ answered \subseteq StatFields /\ owed_stats \in BOOLEAN

\* Before the thread starts there is nothing.
LEMMA InitType == Init => TypeInv
<1> SUFFICES ASSUME Init
             PROVE  TypeInv
    OBVIOUS
<1>1. waker \in BOOLEAN /\ capturing \in BOOLEAN
    BY Zenon DEF Init
<1>2. tun_error \in BOOLEAN /\ seen \in BOOLEAN /\ owed_stats \in BOOLEAN
    BY Zenon DEF Init
<1>3. announced \in [jails : SUBSET JailReasons, early : BOOLEAN]
    BY Zenon DEF Init, NoJails, Announcement
<1> QED
    BY <1>1, <1>2, <1>3, ConstantAssumption DEF Init, TypeInv, Locations

\* The waker is triggered by the API threads and drained by poll; the client is
\* told to capture or not to.
LEMMA FlagTypes ==
    ApiInv /\ TypeInv /\ [Next]_vars => waker' \in BOOLEAN /\ capturing' \in BOOLEAN
<1> SUFFICES ASSUME ApiInv, TypeInv, [Next]_vars
             PROVE  waker' \in BOOLEAN /\ capturing' \in BOOLEAN
    OBVIOUS
<1>1. capturing' \in {capturing, TRUE, FALSE}
    <2>1. CASE Start
        BY <2>1, Zenon DEF Start, start_packet_capture, captureVars
    <2>2. CASE HandlePacketCapture
        BY <2>2, Zenon DEF HandlePacketCapture, start_packet_capture, stop_packet_capture,
                           captureVars
    <2>3. CASE PullWritePcap
        BY <2>3, Zenon DEF PullWritePcap, stop_packet_capture, captureVars
    <2>4. CASE LoopEnd
        BY <2>4, Zenon DEF LoopEnd, stop_packet_capture, captureVars
    <2>5. CASE UNCHANGED captureVars
        BY <2>5, Zenon DEF captureVars
    <2> QED
        BY <2>1, <2>2, <2>3, <2>4, <2>5, StepFrame, Zenon DEF Frame
<1>2. waker' \in {waker, TRUE, FALSE}
    <2>1. ASSUME NEW c \in Callers, Api(c) \/ Wake(c) \/ Join(c)
          PROVE  waker' \in {waker, TRUE, FALSE}
        BY <2>1, Zenon DEF Api, Wake, Join, Call, DisconnectAndWait, Disconnect, SendPanics, Send
    <2> QED
        BY <2>1, ChannelSteps, Zenon
<1> QED
    BY <1>1, <1>2, Zenon DEF TypeInv

\* The streams waiting to become writable stay within the open ones because
\* update_tun and close_stream drop both together.
LEMMA StreamTypes ==
    ApiInv /\ TypeInv /\ [Next]_vars =>
        /\ tun_error' \in BOOLEAN
        /\ streams' \subseteq StreamIds \cup {TUN} /\ write_interest' \subseteq streams'
        /\ pc' = "start" => write_interest' = {}
<1> DEFINE Typed == /\ tun_error' \in BOOLEAN
                    /\ streams' \subseteq StreamIds \cup {TUN}
                    /\ write_interest' \subseteq streams'
                    /\ pc' = "start" => write_interest' = {}
<1> SUFFICES ASSUME ApiInv, TypeInv, [Next]_vars
             PROVE  Typed
    OBVIOUS
<1>1. ASSUME NEW id, NEW result, WriteIfOpen(id, result), UNCHANGED streams, pc' # "start"
      PROVE  Typed
    <2>1. (result \in ErrorKinds \cup {"closed"}) \in BOOLEAN
        OBVIOUS
    <2>2. tun_error' = tun_error \/ tun_error' = (result \in ErrorKinds \cup {"closed"})
        BY <1>1, Zenon DEF WriteIfOpen, handle_stream_write_result
    <2>3. tun_error' \in BOOLEAN
        BY <2>1, <2>2, Zenon DEF TypeInv
    <2>4. write_interest' \subseteq streams
        BY <1>1 DEF WriteIfOpen, handle_stream_write_result, TypeInv
    <2> QED
        BY <1>1, <2>3, <2>4 DEF TypeInv
<1>2. CASE PullWrite
    BY <1>1, <1>2, Zenon DEF PullWrite, Pull
<1>3. CASE WriteReady
    BY <1>1, <1>3, Zenon DEF WriteReady, loopVars
<1>4. CASE HandleUpdate
    <2>1. tun_error' \in BOOLEAN
        BY <1>4, Zenon DEF HandleUpdate, update_tun, TypeInv, streamVars
    <2> QED
        BY <1>4, <2>1, Zenon DEF HandleUpdate, Receive, update_tun, register_stream, TypeInv, streamVars
<1>5. CASE PullOpen
    BY <1>5 DEF PullOpen, Pull, FreeIds, register_stream, TypeInv
<1>6. CASE PullOpenFails \/ PullClose
    BY <1>6 DEF PullOpenFails, PullClose, close_stream, Pull, TypeInv
<1>7. CASE Start
    <2>1. tun_error' = tun_error /\ write_interest' = {} /\ streams' \subseteq {TUN}
        BY <1>7, Zenon DEF Start, TypeInv
    <2> QED
        BY <2>1 DEF TypeInv
<1>8. CASE ReadData \/ ReadLast
    <2>1. tun_error' \in BOOLEAN
        BY <1>8, Zenon DEF ReadData, ReadLast, TypeInv
    <2> QED
        BY <1>8, <2>1 DEF ReadData, ReadLast, TypeInv, loopVars
<1>9. CASE UNCHANGED streamVars
    BY <1>9, StepFrame DEF Frame, streamVars, TypeInv
<1> HIDE DEF Typed
<1> QED
    BY <1>2, <1>3, <1>4, <1>5, <1>6, <1>7, <1>8, <1>9, StepFrame, Zenon DEF Frame

\* poll reports open streams only.
LEMMA PollTypes ==
    ApiInv /\ TypeInv /\ [Next]_vars =>
        readable' \subseteq StreamIds \cup {TUN} /\ writable' \subseteq StreamIds \cup {TUN}
<1> SUFFICES ASSUME ApiInv, TypeInv, [Next]_vars
             PROVE  /\ readable' \subseteq StreamIds \cup {TUN}
                    /\ writable' \subseteq StreamIds \cup {TUN}
    OBVIOUS
<1>1. CASE WriteReady \/ ReadLast
    BY <1>1 DEF WriteReady, ReadLast, TypeInv
<1>2. CASE readable' \subseteq streams /\ writable' \subseteq write_interest
    BY <1>2 DEF TypeInv
<1> QED
    BY <1>1, <1>2, StepFrame DEF Frame, TypeInv

\* The statistics asked for and answered, and whether the application waits.
LEMMA StatsTypes ==
    ApiInv /\ TypeInv /\ [Next]_vars
    => asked' \subseteq StatFields /\ answered' \subseteq StatFields /\ owed_stats' \in BOOLEAN
<1> SUFFICES ASSUME ApiInv, TypeInv, [Next]_vars
             PROVE  /\ asked' \subseteq StatFields /\ answered' \subseteq StatFields
                    /\ owed_stats' \in BOOLEAN
    OBVIOUS
<1>1. CASE HandleRequestLocalAgentStats
    BY <1>1, Zenon DEF HandleRequestLocalAgentStats, statsVars, TypeInv
<1>2. CASE PullAgentMessage
    <2>1. PICK m \in AgentMessages :
            /\ IF m.type = "Stats"
               THEN asked' = asked \ {m.field} /\ answered' = answered \cup {m.field}
               ELSE UNCHANGED <<asked, answered>>
            /\ owed_stats' = (owed_stats /\ message_event(agent, m) # "LocalAgentStats")
        BY <1>2, AgentAssumption, Zenon DEF PullAgentMessage
    <2>2. m.type = "Stats" => m.field \in StatFields
        BY DEF AgentMessages
    <2> QED
        BY <2>1, <2>2 DEF TypeInv
<1>3. CASE ClientMoves
    BY <1>3, Zenon DEF ClientMoves, TypeInv
<1>4. CASE UpdateState
    BY <1>4 DEF UpdateState, TypeInv
<1> QED
    BY <1>1, <1>2, <1>3, <1>4, StepFrame, Zenon DEF Frame, TypeInv

\* The session that update_state has met or not, and the jails announced.
LEMMA SessionTypes ==
    ApiInv /\ TypeInv /\ [Next]_vars
    => seen' \in BOOLEAN /\ announced' \in [jails : SUBSET JailReasons, early : BOOLEAN]
<1> SUFFICES ASSUME ApiInv, TypeInv, [Next]_vars
             PROVE  /\ seen' \in BOOLEAN
                    /\ announced' \in [jails : SUBSET JailReasons, early : BOOLEAN]
    OBVIOUS
<1>1. CASE PullAgentMessage
    <2>1. PICK m \in AgentMessages :
            /\ IF m.type = "LocalAgentConnected"
               THEN session' = tunnel.peer /\ seen' = (agent.last_peer = tunnel.peer)
               ELSE UNCHANGED <<session, seen>>
            /\ announced' = IF m.type = "Jails"
                  THEN Announcement(m.value, agent.last_peer \notin {None, tunnel.peer})
                  ELSE announced
        BY <1>1, AgentAssumption, Zenon DEF PullAgentMessage
    <2>2. seen' \in BOOLEAN
        BY <2>1, Zenon DEF TypeInv
    <2>3. m.type = "Jails" => m.value \in SUBSET JailReasons
        BY DEF AgentMessages
    <2>4. (agent.last_peer \notin {None, tunnel.peer}) \in BOOLEAN
        BY Zenon
    <2>5. announced' \in [jails : SUBSET JailReasons, early : BOOLEAN]
        BY <2>1, <2>3, <2>4 DEF TypeInv, Announcement
    <2> QED
        BY <2>2, <2>5
<1>2. CASE UpdateState
    <2>1. seen' \in BOOLEAN
        BY <1>2, Zenon DEF UpdateState
    <2> QED
        BY <1>2, <2>1 DEF UpdateState, TypeInv
<1>3. CASE ClientMoves
    BY <1>3, Zenon DEF ClientMoves, TypeInv, NoJails, Announcement
<1> QED
    BY <1>1, <1>2, <1>3, StepFrame, Zenon DEF Frame, TypeInv

\* A pull of the client returns to where it was called, and MaxPulls bounds it.
LEMMA LoopTypes ==
    ApiInv /\ TypeInv /\ [Next]_vars => pc' \in Locations /\ pulls' \in 0..MaxPulls
<1> SUFFICES ASSUME ApiInv, TypeInv, [Next]_vars
             PROVE  pc' \in Locations /\ pulls' \in 0..MaxPulls
    OBVIOUS
<1> DEFINE Moved == pc' \in Locations /\ pulls' \in {pulls, 0}
<1> USE DEF loopVars
<1>1. ASSUME HandleMessage
      PROVE  Moved
    <2>1. ASSUME NEW type, Receive(type)
          PROVE  UNCHANGED pulls
        BY <2>1 DEF Receive
    <2> QED
        BY <1>1, <2>1, Zenon DEF HandleMessage, HandleDisconnect, HandleConnectivityChange,
           HandlePacketCapture, HandleClientRequest, HandleRequestLocalAgentStats,
           HandleUpdate, MessagesDone, TypeInv, Locations
<1>2. CASE \E action : Pull(action)
    BY <1>2, ConstantAssumption DEF Pull, TypeInv
<1>3. CASE PullAgentMessage
    <2>1. pc' = pc /\ pulls < MaxPulls /\ pulls' = pulls + 1
        BY <1>3, Zenon DEF PullAgentMessage
    <2> QED
        BY <2>1, ConstantAssumption DEF TypeInv
<1>4. ASSUME PullDone \/ AgentDone
      PROVE  Moved
    BY <1>4, Zenon DEF PullDone, AgentDone, ApiInv, Locations
<1>5. PullFromClient => PullAgentMessage \/ PullDone \/ AgentDone \/ \E action : Pull(action)
    BY Zenon DEF PullFromClient, PullOpenFails, PullOpen, PullWrite, PullWritePcap, PullClose,
                 PullOther
<1>6. ASSUME Start \/ UpdateState \/ BeginPoll \/ LoopEnd \/ StartFails \/ ResultsDone
      PROVE  Moved
    BY <1>6, Zenon DEF Start, UpdateState, BeginPoll, LoopEnd, StartFails, ResultsDone, Locations
<1>7. ASSUME WriteReady \/ ReadData \/ ReadLast \/ Elapse \/ ClientMoves
      PROVE  Moved
    BY <1>7, Zenon DEF WriteReady, ReadData, ReadLast, Elapse, ClientMoves, TypeInv, Locations
<1>8. ASSUME PollWoken \/ StreamsReady \/ PollFails
      PROVE  Moved
    BY <1>8, Zenon DEF PollWoken, StreamsReady, PollFails, PollReturns, Resume, Locations
<1>9. ASSUME ThreadUnchanged \/ UNCHANGED vars
      PROVE  Moved
    BY <1>9, Zenon DEF ThreadUnchanged, vars, TypeInv
<1>10. Moved => pc' \in Locations /\ pulls' \in 0..MaxPulls
    BY ConstantAssumption DEF TypeInv
<1> HIDE DEF Moved
<1> QED
    BY <1>1, <1>2, <1>3, <1>4, <1>5, <1>6, <1>7, <1>8, <1>9, <1>10, ApiFrame, Zenon
       DEF Next, Thread, Terminated

\* One step of the thread, or of an API thread, keeps the types.
LEMMA NextType == ApiInv /\ TypeInv /\ [Next]_vars => TypeInv'
BY FlagTypes, StreamTypes, PollTypes, StatsTypes, SessionTypes, LoopTypes, Zenon
   DEF TypeInv
-----------------------------------------------------------------------------
(* Theorems *)

\* The invariants of this module hold in every reachable state.
LEMMA Invariant ==
    Spec => [](ApiInv /\ StateInv /\ CaptureInv /\ StopInv /\ StreamInv /\ TypeInv)
BY InitApi, NextApi, InitState, NextState, InitCapture, NextCapture, InitStop, NextStop,
   InitStream, NextStream, InitType, NextType, PTL DEF Spec

\* No message is left behind in a sleep without a deadline, for any number of
\* API threads (send and wake in start_pvpn_connection).
THEOREM WakeupsAreKept == Spec => []NoLostWakeup
<1>1. ApiInv => NoLostWakeup
    BY DEF ApiInv
<1>2. QED
    BY <1>1, Invariant, PTL

\* The application is never told it is connected while the thread knows that
\* the network is gone (on_connectivity_change, get_peer_connection_state).
THEOREM ConnectedHasNetwork == Spec => []NeverConnectedWithoutNetwork
<1>1. StateInv => NeverConnectedWithoutNetwork
    BY DEF StateInv, NeverConnectedWithoutNetwork
<1>2. QED
    BY <1>1, Invariant, PTL

\* The client captures exactly while there is a file to write to, and the last
\* event says so (start_packet_capture, stop_packet_capture, handle_write).
THEOREM CaptureAgrees == Spec => []CaptureInSync
<1>1. CaptureInv => CaptureInSync
    BY DEF CaptureInv
<1>2. QED
    BY <1>1, Invariant, PTL

\* What the thread writes to a capture file never takes it over its limit
\* (PcapStream::write; at the limit handle_write stops the capture).
THEOREM CaptureKeepsLimit == Spec => CaptureWithinLimit
<1> DEFINE Within == pc = "pull" /\ pcap' # None /\ pcap' # pcap => pcap'.size <= MaxBytes
<1>1. ApiInv /\ CaptureInv /\ [Next]_vars => [Within]_vars
    <2> SUFFICES ASSUME ApiInv, CaptureInv, [Next]_vars, pc = "pull", pcap' # None, pcap' # pcap
                 PROVE  pcap'.size <= MaxBytes
        OBVIOUS
    <2>1. PullWritePcap
        BY StepFrame, Zenon DEF Frame, Start, HandlePacketCapture, Receive, LoopEnd, captureVars
    <2>2. pcap # None /\ ~AtMaxSize(pcap.size)
        BY <2>1 DEF PullWritePcap, stop_packet_capture, captureVars
    <2>3. PICK written \in {0, 1} : pcap' = [file |-> pcap.file, size |-> pcap.size + written]
        BY <2>1, <2>2 DEF PullWritePcap, stop_packet_capture
    <2>4. pcap.size \in Nat
        BY <2>2 DEF CaptureInv, Captures, Option
    <2>5. QED
        BY <2>2, <2>3, <2>4, ConstantAssumption DEF AtMaxSize
<1>2. QED
    BY <1>1, Invariant, PTL DEF Spec, CaptureWithinLimit

\* A thread that was told to stop leaves the application informed that it is
\* disconnected and not capturing (on_connection_loop_end).
THEOREM StopIsReported == Spec => []StoppedIsReported
<1>1. StopInv => StoppedIsReported
    BY DEF StopInv
<1>2. QED
    BY <1>1, Invariant, PTL

\* Every stream the client goes on using is open (handle_open, handle_write,
\* read_from_streams, handle_stream_error).
THEOREM ClientStreamsAreOpen == Spec => []StreamsCoverClient
<1>1. StreamInv => StreamsCoverClient
    BY DEF StreamInv
<1>2. QED
    BY <1>1, Invariant, PTL
-----------------------------------------------------------------------------
(* The recovery timer *)

\* The operations of the recovery handler are those of NetworkRecovery.
LEMMA SameRecovery ==
    /\ \A h : /\ Recovery!Due(h) <=> Due(h)
              /\ Recovery!on_resumed(h) = on_resumed(h)
              /\ Recovery!Elapsed(h) = Elapsed(h)
              /\ Recovery!on_connected(h) = on_connected(h)
              /\ Recovery!on_successful_socket_open(h) = on_successful_socket_open(h)
    /\ \A h, x : /\ Recovery!on_stream_error(h, x) = on_stream_error(h, x)
                 /\ Recovery!on_connectivity_change(h, x) = on_connectivity_change(h, x)
    /\ \A a, b : Recovery!Smaller(a, b) = Smaller(a, b)
    /\ \A b : Recovery!new_recovery(b) = new_recovery(b)
    /\ Recovery!ErrorKinds = ErrorKinds
    /\ Recovery!ConnectivityEvents = ConnectivityEvents
BY Zenon DEF Recovery!Due, Due, Recovery!on_resumed, on_resumed, Recovery!Elapsed, Elapsed,
   Recovery!on_connected, on_connected, Recovery!on_successful_socket_open,
   on_successful_socket_open, Recovery!on_stream_error, on_stream_error,
   Recovery!on_connectivity_change, on_connectivity_change, Recovery!Smaller, Smaller,
   Recovery!new_recovery, new_recovery, Recovery!Handler, Handler,
   Recovery!ErrorKinds, ErrorKinds, Recovery!ConnectivityEvents, ConnectivityEvents

\* A socket that is opened and fails at once is a socket that fails, or one that
\* is opened when the error does not concern the network (handle_open).
LEMMA OpenedAndFailed ==
    ASSUME NEW h \in RecoveryHandlers, NEW kind \in ErrorKinds
    PROVE  LET both == on_stream_error(on_successful_socket_open(h), kind)
           IN  both = on_stream_error(h, kind) \/ both = on_successful_socket_open(h)
BY Zenon DEF RecoveryHandlers, on_stream_error, on_successful_socket_open

\* Every step of the thread is a step of NetworkRecovery or leaves it alone.
LEMMA RecoverySimulated ==
    StateInv /\ StateInv' /\ [NextH]_varsH => [Recovery!Next]_(Recovery!vars)
<1> SUFFICES ASSUME StateInv, StateInv', NextH
             PROVE  Recovery!Next \/ UNCHANGED <<recovery, delay, quiet>>
    BY DEF varsH, vars, dataVars, Recovery!vars
<1>1. [Next]_vars /\ History
    BY Zenon DEF NextH
<1>2. CASE DelayedChange
    <2>1. Recovery!Notify
        BY <1>1, <1>2, SameRecovery, Zenon DEF DelayedChange, History, Resume, Recovery!Notify
    <2> QED
        BY <2>1, Zenon DEF Recovery!Next
<1>3. CASE ~DelayedChange /\ OutageEnds
    <2>1. delay' = 0 /\ quiet' = MAX_DURATION
        BY <1>1, <1>3, Zenon DEF History
    <2>2. CASE Start
        <3>1. PICK available \in BOOLEAN : recovery' = new_recovery(available)
            BY <2>2, ConstantAssumption, Zenon DEF Start
        <3>2. PICK event \in ConnectivityEvents :
                recovery' = on_connectivity_change(recovery, event)
            BY <3>1 DEF ConnectivityEvents, on_connectivity_change, new_recovery
        <3> QED
            BY <2>1, <3>2, SameRecovery, Zenon
               DEF Recovery!Next, Recovery!ConnectivityChange
    <2>3. CASE HandleConnectivityChange
        <3>1. PICK event \in ConnectivityEvents :
                recovery' = on_connectivity_change(recovery, event)
            BY <2>3 DEF HandleConnectivityChange, ConnectivityEvents, on_connectivity_change
        <3> QED
            BY <2>1, <3>1, SameRecovery, Zenon
               DEF Recovery!Next, Recovery!ConnectivityChange
    <2>4. CASE UpdateState /\ connection_state'.kind = "Connected"
        <3>1. recovery' = on_connected(recovery)
            BY <2>4, Zenon DEF UpdateState
        <3>2. recovery.network_available
            BY <2>4, <3>1, RecoveryOpsNetwork, Zenon DEF StateInv
        <3> QED
            BY <2>1, <3>1, <3>2, SameRecovery, Zenon DEF Recovery!Next, Recovery!Connected
    <2> QED
        BY <1>3, <2>2, <2>3, <2>4, Zenon DEF OutageEnds
<1>4. CASE ~DelayedChange /\ ~OutageEnds /\ Elapse
    <2>1. Recovery!Elapse
        BY <1>1, <1>4, SameRecovery, Zenon DEF History, Elapse, Recovery!Elapse
    <2> QED
        BY <2>1, Zenon DEF Recovery!Next
<1>5. CASE ~DelayedChange /\ ~OutageEnds /\ ~Elapse
    <2>1. UNCHANGED <<delay, quiet>>
        BY <1>1, <1>5, Zenon DEF History
    <2>2. ASSUME NEW kind \in ErrorKinds, recovery' = on_stream_error(recovery, kind)
          PROVE  Recovery!Next
        BY <2>1, <2>2, SameRecovery, Zenon DEF Recovery!Next, Recovery!StreamError
    <2>3. CASE recovery' = on_successful_socket_open(recovery)
        BY <2>1, <2>3, SameRecovery, Zenon DEF Recovery!Next, Recovery!SocketOpened
    <2>4. CASE Resume /\ recovery' = on_resumed(recovery)
        BY <1>5, <2>1, <2>4, Zenon DEF DelayedChange, on_resumed
    <2>5. RecoveryStep
        BY <1>1, <1>5, RecoverySteps, Zenon DEF OutageEnds
    <2> QED
        BY <1>5, <2>1, <2>2, <2>3, <2>4, <2>5, OpenedAndFailed, Zenon
           DEF RecoveryStep, OutageEnds, StateInv
<1> QED
    BY <1>2, <1>3, <1>4, <1>5, Zenon

\* The connection thread implements NetworkRecovery.
THEOREM RecoveryImplemented == SpecH => ImplementsRecovery
<1>1. InitH => Recovery!Init
    BY SameRecovery, Zenon DEF InitH, Init, Recovery!Init
<1>2. InitH => Init
    BY Zenon DEF InitH
<1>3. [NextH]_varsH => [Next]_vars
    BY Zenon DEF NextH, varsH
<1>4. QED
    BY <1>1, <1>2, <1>3, RecoverySimulated, Invariant, PTL
       DEF SpecH, Spec, ImplementsRecovery, Recovery!Spec

Timer == INSTANCE NetworkRecoveryProofs WITH handler <- recovery

\* The theorems about NetworkRecovery are about the same specification.
LEMMA SameTimer == Recovery!Spec => Timer!Spec
<1> USE DEF Timer!Due, Timer!on_resumed, Timer!Smaller, Timer!Handler,
            Recovery!Due, Recovery!on_resumed, Recovery!Smaller, Recovery!Handler
<1>1. Recovery!Init => Timer!Init
    BY Zenon DEF Recovery!Init, Timer!Init, Recovery!new_recovery, Timer!new_recovery
<1>2. [Recovery!Next]_(Recovery!vars) => [Timer!Next]_(Timer!vars)
    BY Zenon DEF Recovery!vars, Timer!vars, Recovery!Next, Timer!Next,
       Recovery!Elapse, Timer!Elapse, Recovery!Elapsed, Timer!Elapsed,
       Recovery!Notify, Timer!Notify, Recovery!ResumeEarly, Timer!ResumeEarly,
       Recovery!SocketOpened, Timer!SocketOpened, Recovery!on_successful_socket_open,
       Timer!on_successful_socket_open, Recovery!Connected, Timer!Connected,
       Recovery!on_connected, Timer!on_connected, Recovery!ConnectivityEvents,
       Timer!ConnectivityEvents, Recovery!ConnectivityChange, Timer!ConnectivityChange,
       Recovery!on_connectivity_change, Timer!on_connectivity_change, Recovery!ErrorKinds,
       Timer!ErrorKinds, Recovery!StreamError, Timer!StreamError,
       Recovery!on_stream_error, Timer!on_stream_error
<1> QED
    BY <1>1, <1>2, PTL DEF Recovery!Spec, Timer!Spec

\* The delayed network changes that the thread sends to the client during one
\* outage are at least the doubled delay apart, whatever it reads, writes and is
\* told in between.
THEOREM BackoffIsKept == SpecH => Recovery!BackoffSpacing
<1> DEFINE Spaced == Recovery!Notify /\ delay > 0 =>
                        /\ quiet >= Recovery!Smaller(2 * delay, MAX_DURATION)
                        /\ delay' >= delay
<1>1. Timer!Spec => Timer!BackoffSpacing
    BY Timer!Backoff, DurationAssumption, NoneAssumption, Zenon
<1>2. [Timer!Notify /\ delay > 0 => /\ quiet >= Timer!Smaller(2 * delay, MAX_DURATION)
                                    /\ delay' >= delay]_(Timer!vars)
      => [Spaced]_(Recovery!vars)
    BY Zenon DEF Recovery!Notify, Timer!Notify, Recovery!vars, Timer!vars, Recovery!Due,
       Timer!Due, Recovery!on_resumed, Timer!on_resumed, Recovery!Handler, Timer!Handler,
       Recovery!Smaller, Timer!Smaller
<1> HIDE DEF Spaced
<1>3. Recovery!Spec => [][Spaced]_(Recovery!vars)
    BY <1>1, <1>2, SameTimer, PTL DEF Timer!BackoffSpacing
<1> QED
    BY <1>3, RecoveryImplemented DEF ImplementsRecovery, Recovery!BackoffSpacing, Spaced

\* While the system reports no network, the thread has no delayed network change
\* scheduled that the next Up would bring back to life.
THEOREM ScheduleHasNetwork == SpecH => []Recovery!ScheduledOnlyWithNetwork
<1>1. Timer!Spec => []Timer!ScheduledOnlyWithNetwork
    BY Timer!NoScheduleWithoutNetwork, DurationAssumption, NoneAssumption, Zenon
<1>2. Timer!ScheduledOnlyWithNetwork => Recovery!ScheduledOnlyWithNetwork
    BY Zenon DEF Timer!ScheduledOnlyWithNetwork, Recovery!ScheduledOnlyWithNetwork
<1>3. SpecH => Recovery!Spec
    BY RecoveryImplemented DEF ImplementsRecovery
<1> QED
    BY <1>1, <1>2, <1>3, SameTimer, PTL
=============================================================================
