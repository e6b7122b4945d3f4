---------------------------- MODULE PvpnConnection ----------------------------
(***************************************************************************)
(* The connection thread (src/src/connection/pvpn_connection.rs) with the  *)
(* handlers it owns, and the API threads that send it messages             *)
(* (src/src/api/connection.rs).                                            *)
(*                                                                         *)
(* The thread runs handle_messages, pull_from_client, update_state and     *)
(* poll_from_streams in a loop; pc says where it is.  A step is one        *)
(* message, one action pulled from the client, one local agent message,    *)
(* one ready stream, one update_state or one poll: the API threads can     *)
(* send and wake between any two of them.                                  *)
(*                                                                         *)
(* pvpnclient::Client is external.  What it decides (which action to pull, *)
(* the state of the tunnel, its deadline) is arbitrary; what it is told    *)
(* (peers, settings, capture, failed streams) is recorded, because the     *)
(* thread must keep it in step with its own state.                         *)
(***************************************************************************)
EXTENDS NetworkRecoveryHandler, LocalAgentHandler, SanitizedPeers, Sequences

CONSTANTS
    Callers,            \* threads of the application that use the Connection
    Calls,              \* messages they send, other than Disconnect
    InitialConfigs,     \* InitialConnectionConfig, and whether there is a tun
    PeerLists,          \* lists of peers that the application can make
    Protocols,          \* VpnProtocol
    MaxBytes,           \* PcapFileInfo.max_bytes, in units of one write
    StreamIds,          \* identifiers the client gives to sockets
    Actions,            \* kinds of action the client asks for
    ClientDeadlines,    \* wakeup deadlines the client may return
    AgentInputs,        \* local agent messages the client may return
    StreamResults,      \* results of stream operations, of AllStreamResults
    MaxPulls,           \* bound on the actions, and messages, of one pull
    MaxQueue            \* bound on the messages waiting in the channel

TUN == "TUN_STREAM_ID"

\* StreamResult: Ok with data (read), Ok without data (read) or written
\* (write), Ok with a pending write, StreamClosed, or Err.
AllStreamResults == {"data", "done", "pending", "closed"} \cup ErrorKinds

ASSUME ConstantAssumption ==
    /\ MaxPulls \in Nat /\ MaxBytes \in Nat
    /\ ClientDeadlines \subseteq Option(Nat)
    /\ TUN \notin StreamIds
    /\ \A config \in InitialConfigs : config.network_available \in BOOLEAN

\* The lists of peers that the application gives.
GivenPeers ==
    {config.peers : config \in InitialConfigs}
    \cup {m.peers : m \in {u \in Calls : u.type = "Update" /\ u.peers # None}}

ASSUME PeersAssumption ==
    GivenPeers \subseteq PeerLists /\ \A list \in PeerLists : PeerList(list)

\* PcapStream: the files that the application names, with their sizes; a file
\* that is appended to can be over the limit from the start.
CaptureFiles ==
    {config.pcap_file : config \in InitialConfigs}
    \cup {m.file : m \in {u \in Calls : u.type = "StartPacketCapture"}}

Captures == [file : CaptureFiles, size : 0..(MaxBytes + 1)]

ASSUME CaptureAssumption == None \notin Captures

ASSUME AgentAssumption == AgentInputs \subseteq AgentMessages /\ StatFields # {}

\* PeerConnectionInfo::peer: a peer that was given, and a protocol.
TunnelPeers ==
    [peer_id : {p.peer_id : p \in UNION {PeerSet(list) : list \in PeerLists}},
     protocol : Protocols]

ASSUME TunnelPeersAssumption == None \notin TunnelPeers

ASSUME WaitReasonAssumption ==
    \A reason \in {"WaitingForNetwork", "SoftJailed", "HardJailed"} :
        \A jails \in SUBSET JailReasons : None # WaitReason(reason, jails)

VARIABLES
    channel, waker, caller,             \* the API threads and their channel
    pc, resume_to, pulls,               \* where the thread is
    deadline, readable, writable,       \* timeout of a poll, and its results
    connection_state, told,             \* the state, and the last callback
    peers, client_peers, tunnel,        \* candidates, and the client's tunnel
    settings, client_settings,          \* local agent settings
    pcap, capturing, told_capture,      \* capture: file, client, last event
    streams, write_interest, client_streams, tun_error,
    agent,                              \* the local agent handler
    session, seen, announced,           \* the peer whose agent last connected;
        \* whether update_state has met that peer; what was announced last
    asked, answered, owed_stats,        \* statistics asked for; answered since
        \* then and since update_state; whether the application waits for them
    recovery, should_stop

apiVars == <<channel, waker, caller>>
loopVars == <<pc, resume_to, pulls>>
pollVars == <<deadline, readable, writable>>
stateVars == <<connection_state, told>>
peerVars == <<peers, client_peers, tunnel>>
settingVars == <<settings, client_settings>>
captureVars == <<pcap, capturing, told_capture>>
streamVars == <<streams, write_interest, client_streams, tun_error>>
sessionVars == <<session, seen, announced>>
statsVars == <<asked, answered, owed_stats>>
agentVars == <<agent, sessionVars, statsVars>>
\* What the connection holds, apart from where the thread is in its loop.
dataVars == <<stateVars, peerVars, settingVars, captureVars, streamVars,
              agentVars, recovery, should_stop>>
vars == <<apiVars, loopVars, pollVars, dataVars>>
-----------------------------------------------------------------------------
(* Connection states *)

ConnState(kind, peer, wait, info) ==
    [kind |-> kind, peer |-> peer, wait |-> wait, info |-> info]

Disconnected == ConnState("Disconnected", None, None, None)

NoTunnel == [kind |-> "Disconnected", peer |-> None]

\* Tunnels the client can report for the peers it was given: nothing, no
\* peer, or an attempt or a connection over some protocol.
Tunnels(client) ==
    {None, NoTunnel}
    \cup [kind : {"Connecting", "Connected"},
          peer : [peer_id : {p.tag : p \in client}, protocol : Protocols]]

IsConnected(info) == info # None /\ info.kind = "Connected"

\* The jails that the agent of the tunnel announced last.  The announcement was
\* early if update_state knew another peer then, and had yet to meet this one.
Announcement(jails, early) == [jails |-> jails, early |-> early]

NoJails == Announcement({}, FALSE)

network_unavailable_state(info) ==
    ConnState("Connecting", IF info = None THEN None ELSE info.peer,
              WaitReason("WaitingForNetwork", {}), None)

\* LocalAgentHandler::get_state.
get_state(h, peer) ==
    IF AgentReady(h)
    THEN ConnState("Connected", peer, None, h.agent_info)
    ELSE ConnState("ConnectingToLocalAgent", peer, get_wait_reason(h), None)

\* Mutant: the last state is kept while the client knows no tunnel.
TunnelState_keeps_last(info, h) ==
    IF info = None \/ info.kind = "Disconnected" THEN connection_state
    ELSE IF info.kind = "Connected" THEN ConnState("Connected", info.peer, None, None)
    ELSE ConnState("Connecting", info.peer, None, None)

\* The match of get_peer_connection_state.
TunnelState(info, h) ==
    IF info = None THEN Disconnected
    ELSE IF info.kind = "Connected"
         THEN IF h # None THEN get_state(h, info.peer)
              ELSE ConnState("Connected", info.peer, None, None)
    ELSE IF info.kind = "Connecting" THEN ConnState("Connecting", info.peer, None, None)
    ELSE IF peers # <<>> THEN ConnState("Connecting", None, None, None)
    ELSE Disconnected

\* Mutant: the tunnel is looked at even without a network.
get_peer_connection_state_ignores_network(info, h) == TunnelState(info, h)

\* h is the agent handler, after on_connected_to_peer if that is called.
get_peer_connection_state(info, h) ==
    IF recovery.network_available THEN TunnelState(info, h)
    ELSE network_unavailable_state(info)

VpnState(state, up, error) ==
    [connection_state |-> state, interface_state |-> [up |-> up, error |-> error]]

\* The callback runs only when the connection state changes.
set_state(new) ==
    /\ connection_state' = new
    /\ told' = IF new = connection_state THEN told
               ELSE VpnState(new, TUN \in streams, tun_error)
-----------------------------------------------------------------------------
(* API threads: Connection's methods send a message, then wake the poll *)

Init ==
    /\ channel = <<>> /\ waker = FALSE /\ caller = [c \in Callers |-> "idle"]
    /\ pc = "start" /\ resume_to = "update" /\ pulls = 0
    /\ deadline = None /\ readable = {} /\ writable = {}
    /\ connection_state = Disconnected /\ told = VpnState(Disconnected, FALSE, FALSE)
    /\ peers = <<>> /\ client_peers = {} /\ tunnel = NoTunnel
    /\ settings = None /\ client_settings = None
    /\ pcap = None /\ capturing = FALSE /\ told_capture = None
    /\ streams = {} /\ write_interest = {} /\ client_streams = {} /\ tun_error = FALSE
    /\ agent = None /\ session = None /\ seen = FALSE /\ announced = NoJails
    /\ asked = {} /\ answered = {} /\ owed_stats = FALSE
    /\ recovery = new_recovery(TRUE) /\ should_stop = FALSE

ThreadUnchanged ==
    UNCHANGED <<loopVars, pollVars, dataVars>>

ThreadEnded == pc = "ended"

\* message_sender.send(message): the receiver lives until the thread ends.
Send(c, m, next) ==
    /\ caller[c] = "idle"
    /\ ~ThreadEnded
    /\ Len(channel) < MaxQueue
    /\ channel' = Append(channel, m)
    /\ caller' = [caller EXCEPT ![c] = next]
    /\ UNCHANGED waker /\ ThreadUnchanged

\* Any method but disconnect and disconnect_and_wait.
Call(c) == \E m \in Calls : Send(c, m, "wake")

\* disconnect_and_wait joins the thread after the wake; disconnect returns,
\* and its caller does not use the connection after that.
DisconnectAndWait(c) == Send(c, [type |-> "Disconnect"], "wake_then_join")

Disconnect(c) == Send(c, [type |-> "Disconnect"], "wake_then_return")

\* send(message).unwrap() panics once the receiver is gone.
SendPanics(c) ==
    /\ caller[c] = "idle"
    /\ ThreadEnded
    /\ caller' = [caller EXCEPT ![c] = "panicked"]
    /\ UNCHANGED <<channel, waker>> /\ ThreadUnchanged

\* A caller that has sent its message and not yet called wake.
Waking == {"wake", "wake_then_join", "wake_then_return"}

AfterWake(status) ==
    IF status = "wake" THEN "idle"
    ELSE IF status = "wake_then_join" THEN "join" ELSE "returned"

\* poll_waker.wake()
Wake(c) ==
    /\ caller[c] \in Waking
    /\ waker' = TRUE
    /\ caller' = [caller EXCEPT ![c] = AfterWake(caller[c])]
    /\ UNCHANGED channel /\ ThreadUnchanged

\* join_handle.join() returns when the thread has ended.
Join(c) ==
    /\ caller[c] = "join"
    /\ ThreadEnded
    /\ caller' = [caller EXCEPT ![c] = "returned"]
    /\ UNCHANGED <<channel, waker>> /\ ThreadUnchanged
-----------------------------------------------------------------------------
(* Packet capture *)

\* Outcomes of PcapStream::new: an error, or a file that already holds size.
Opened(file) == {None} \cup [file : {file}, size : 0..(MaxBytes + 1)]

start_packet_capture(opened) ==
    IF opened = None THEN UNCHANGED captureVars
    ELSE pcap' = opened /\ capturing' = TRUE /\ told_capture' = opened.file

\* Mutant: the client goes on capturing.
stop_packet_capture_keeps_client ==
    pcap' = None /\ told_capture' = None /\ UNCHANGED capturing

\* Called with or without a capture: PacketCaptureStopped names its file, or
\* is AlreadyStopped.
stop_packet_capture ==
    pcap' = None /\ told_capture' = None /\ capturing' = FALSE
-----------------------------------------------------------------------------
(* Start of the thread *)

\* create_pvpn_dependencies fails: the thread only logs the error.
StartFails ==
    /\ pc = "start"
    /\ pc' = "ended"
    /\ UNCHANGED <<apiVars, resume_to, pulls, pollVars, dataVars>>

\* PvpnConnection::new.
Start ==
    /\ pc = "start"
    /\ pc' = "messages"
    /\ \E config \in InitialConfigs :
        /\ peers' = from(config.peers)
        /\ client_peers' = {as_peer(p) : p \in PeerSet(from(config.peers))}
        /\ recovery' = new_recovery(config.network_available)
        /\ streams' = IF config.tun THEN {TUN} ELSE {}
        /\ agent' = IF config.settings = None THEN None ELSE new_agent
        /\ settings' = config.settings
        /\ client_settings' = config.settings
        /\ IF config.network_available THEN UNCHANGED stateVars
           ELSE /\ connection_state' = network_unavailable_state(None)
                /\ told' = VpnState(network_unavailable_state(None), config.tun, FALSE)
        /\ IF config.pcap_file = None THEN UNCHANGED captureVars
           ELSE \E opened \in Opened(config.pcap_file) : start_packet_capture(opened)
    /\ UNCHANGED <<apiVars, resume_to, pulls, pollVars, tunnel, write_interest,
                   client_streams, tun_error, sessionVars, statsVars, should_stop>>
-----------------------------------------------------------------------------
(* handle_messages: one step per message *)

Receive(type) ==
    /\ pc = "messages"
    /\ channel # <<>>
    /\ Head(channel).type = type
    /\ channel' = Tail(channel)
    /\ UNCHANGED <<waker, caller, resume_to, pulls, pollVars>>

\* The loop of handle_messages is left, and with it that of run.
HandleDisconnect ==
    /\ Receive("Disconnect")
    /\ should_stop' = TRUE
    /\ pc' = "loop_end"
    /\ UNCHANGED <<stateVars, peerVars, settingVars, captureVars, streamVars,
                   agentVars, recovery>>

\* Mutant: the lost network is left to the next update_state.
network_changed_no_set_state(h) == UNCHANGED stateVars

\* on_connectivity_change: the client is notified of a network that came or
\* changed (external); of one that went, the application is told at once.
network_changed(h) ==
    IF h.network_available THEN UNCHANGED stateVars
    ELSE set_state(network_unavailable_state(tunnel))

HandleConnectivityChange ==
    /\ Receive("ConnectivityChange")
    /\ recovery' = on_connectivity_change(recovery, Head(channel).event)
    /\ network_changed(recovery')
    /\ UNCHANGED <<pc, peerVars, settingVars, captureVars, streamVars, agentVars,
                   should_stop>>

HandlePacketCapture ==
    /\ \/ /\ Receive("StartPacketCapture")
          /\ \E opened \in Opened(Head(channel).file) : start_packet_capture(opened)
       \/ Receive("StopPacketCapture") /\ stop_packet_capture
    /\ UNCHANGED <<pc, stateVars, peerVars, settingVars, streamVars, agentVars,
                   recovery, should_stop>>

\* RequestStats and ProvideApiForkSelector only pass something on to the
\* client or from it.
HandleClientRequest ==
    /\ Receive("ClientRequest")
    /\ UNCHANGED <<pc, dataVars>>

\* The client is asked for every field of the statistics.
HandleRequestLocalAgentStats ==
    /\ Receive("RequestLocalAgentStats")
    /\ IF IsConnected(tunnel) /\ agent # None
       THEN asked' = StatFields /\ answered' = {} /\ owed_stats' = TRUE
       ELSE UNCHANGED statsVars
    /\ UNCHANGED <<pc, stateVars, peerVars, settingVars, captureVars, streamVars,
                   agent, sessionVars, recovery, should_stop>>

\* Mutant: new peers are added before old ones are removed.
ReplacePeers_adds_first(client, removed, added) ==
    {p \in client \cup {as_peer(q) : q \in added} :
        \A q \in removed : p.addr # q.server_ip}

\* peer_remove, by address, of every peer in removed, then peer_add.
ReplacePeers(client, removed, added) ==
    {p \in client : \A q \in removed : p.addr # q.server_ip}
    \cup {as_peer(q) : q \in added}

\* External: the tunnel to a peer the client no longer has is gone.
update_peers(new) ==
    IF new = peers THEN UNCHANGED peerVars
    ELSE /\ peers' = new
         /\ client_peers' = ReplacePeers(client_peers, PeerSet(peers) \ PeerSet(new),
                                                       PeerSet(new) \ PeerSet(peers))
         /\ tunnel' = IF tunnel \in Tunnels(client_peers') THEN tunnel ELSE NoTunnel

\* Ignored outside local agent mode.
update_local_agent_settings(new) ==
    IF settings # None /\ settings # new
    THEN settings' = new /\ client_settings' = new
    ELSE UNCHANGED settingVars

\* MioStreams::register_stream: the set of open streams after it.
register_stream(open, id) == open \cup {id}

\* The old tun is closed first, whether or not the new one can be registered.
update_tun(tun, registered) ==
    LET failed == tun = "TunFd" /\ ~registered
    IN  /\ streams' = IF tun = "TunFd" /\ registered THEN register_stream(streams, TUN)
                      ELSE streams \ {TUN}
        /\ write_interest' = write_interest \ {TUN}
        /\ tun_error' = (failed /\ tun_error)
        /\ UNCHANGED client_streams

\* PvpnMessage::Update: peers, settings and tun, each if it is given.
HandleUpdate ==
    /\ Receive("Update")
    /\ LET update == Head(channel)
       IN  /\ IF update.peers = None THEN UNCHANGED peerVars
              ELSE update_peers(from(update.peers))
           /\ IF update.settings = None THEN UNCHANGED settingVars
              ELSE update_local_agent_settings(update.settings)
           /\ IF update.tun = None THEN UNCHANGED streamVars
              ELSE \E registered \in BOOLEAN : update_tun(update.tun, registered)
    /\ UNCHANGED <<pc, stateVars, captureVars, agentVars, recovery, should_stop>>

\* Mutant: the loop over try_recv may end before the channel is empty.
Drained_early == TRUE

\* try_recv finds no message.
Drained == channel = <<>>

MessagesDone ==
    /\ pc = "messages" /\ Drained
    /\ pc' = "pull" /\ resume_to' = "update" /\ pulls' = 0
    /\ UNCHANGED <<apiVars, pollVars, dataVars>>
-----------------------------------------------------------------------------
(* pull_from_client: one step per action, then one per agent message *)

Pull(action) ==
    /\ pc = "pull" /\ action \in Actions
    /\ pulls < MaxPulls /\ pulls' = pulls + 1
    /\ UNCHANGED <<apiVars, pc, resume_to, pollVars, stateVars, peerVars,
                   settingVars, agentVars, should_stop>>

\* Mutant: the error is not pushed, the client goes on using the stream.
SocketError_not_pushed(id, kind) ==
    /\ recovery' = on_stream_error(recovery, kind)
    /\ client_streams' = client_streams \cup {id}

\* Mutant: every error starts the backoff anew.
SocketError_resets_backoff(id, kind) ==
    /\ recovery' = on_stream_error(on_connected(recovery), kind)
    /\ client_streams' = client_streams \ {id}

\* handle_stream_error on a socket: the recovery timer, then push_error.
SocketError(id, kind) ==
    /\ recovery' = on_stream_error(recovery, kind)
    /\ client_streams' = client_streams \ {id}

\* handle_stream_write_result, for a socket or the tun; errors of the tun are
\* kept, and never pushed.
handle_stream_write_result(id, result) ==
    /\ tun_error' = IF id = TUN THEN result \in ErrorKinds \cup {"closed"} ELSE tun_error
    /\ write_interest' = IF result = "pending" THEN write_interest \cup {id}
                         ELSE IF result = "done" THEN write_interest \ {id}
                         ELSE write_interest
    /\ IF result \in ErrorKinds /\ id # TUN THEN SocketError(id, result)
       ELSE /\ client_streams' = IF result = "closed" THEN client_streams \ {id}
                                 ELSE client_streams
            /\ UNCHANGED recovery

\* A write to a stream that is not found is only logged.
WriteIfOpen(id, result) ==
    IF id \in streams THEN handle_stream_write_result(id, result)
    ELSE UNCHANGED <<write_interest, client_streams, tun_error, recovery>>

FreeIds == StreamIds \ (streams \cup client_streams)

\* handle_open when the socket cannot be opened.  A first write then finds no
\* stream.
PullOpenFails ==
    /\ Pull("Open")
    /\ \E id \in FreeIds, kind \in StreamResults \cap ErrorKinds : SocketError(id, kind)
    /\ UNCHANGED <<captureVars, streams, write_interest, tun_error>>

\* handle_open of a socket, and handle_write of the first payload if there is
\* one.  A TCP socket waits to become writable.
PullOpen ==
    /\ Pull("Open")
    /\ \E id \in FreeIds, tcp \in BOOLEAN, first_write \in Option(StreamResults \ {"data"}) :
        LET failed == first_write \in ErrorKinds
            opened == on_successful_socket_open(recovery)
        IN  /\ streams' = register_stream(streams, id)
            /\ recovery' = IF failed THEN on_stream_error(opened, first_write) ELSE opened
            /\ write_interest' =
                 IF first_write = "pending" \/ (tcp /\ first_write # "done")
                 THEN write_interest \cup {id} ELSE write_interest
            /\ client_streams' = IF failed \/ first_write = "closed" THEN client_streams
                                 ELSE client_streams \cup {id}
    /\ UNCHANGED <<captureVars, tun_error>>

\* handle_write, to the tun or to a socket.
PullWrite ==
    /\ Pull("Write")
    /\ \E id \in client_streams \cup {TUN}, result \in StreamResults \ {"data"} :
        WriteIfOpen(id, result)
    /\ UNCHANGED <<captureVars, streams>>

\* Mutant: the write that crosses the limit is let through.
AtMaxSize_off_by_one(size) == size > MaxBytes

AtMaxSize(size) == size + 1 > MaxBytes

\* handle_write to the capture: PcapStream::write, which may fail, and at the
\* size limit stop_packet_capture with MaxSizeReached.
PullWritePcap ==
    /\ Pull("Pcap")
    /\ \/ pcap = None /\ UNCHANGED captureVars
       \/ pcap # None /\ AtMaxSize(pcap.size) /\ stop_packet_capture
       \/ /\ pcap # None /\ ~AtMaxSize(pcap.size)
          /\ \E written \in {0, 1} :
                pcap' = [file |-> pcap.file, size |-> pcap.size + written]
          /\ UNCHANGED <<capturing, told_capture>>
    /\ UNCHANGED <<streamVars, recovery>>

close_stream(id) ==
    streams' = streams \ {id} /\ write_interest' = write_interest \ {id}

PullClose ==
    /\ Pull("Close")
    /\ \E id \in streams \ {TUN} :
        close_stream(id) /\ client_streams' = client_streams \ {id}
    /\ UNCHANGED <<captureVars, tun_error, recovery>>

\* Set, Shutdown and writes to the persistent cache change nothing here.
PullOther == Pull("Other") /\ UNCHANGED <<captureVars, streamVars, recovery>>

\* need_pull is false.  Local agent messages are next, in local agent mode.
PullDone ==
    /\ pc = "pull"
    /\ pc' = IF agent = None THEN resume_to ELSE "agent"
    /\ pulls' = 0
    /\ UNCHANGED <<apiVars, resume_to, pollVars, dataVars>>

\* External: values and LocalAgentConnected come from the agent of the
\* connected peer, in data that read_from_streams drops without a network, and
\* statistics only when asked for.  Errors come any time.
AgentCanSend(m) ==
    \/ m.type \in {"Error", "MuonForkSelectorNeeded"}
    \/ /\ recovery.network_available /\ IsConnected(tunnel)
       /\ m.type = "Stats" => m.field \in asked

PullAgentMessage ==
    /\ pc = "agent"
    /\ pulls < MaxPulls /\ pulls' = pulls + 1
    /\ \E m \in AgentInputs :
        /\ AgentCanSend(m)
        /\ agent' = handle_message(agent, m)
        /\ IF m.type = "Stats"
           THEN asked' = asked \ {m.field} /\ answered' = answered \cup {m.field}
           ELSE UNCHANGED <<asked, answered>>
        /\ owed_stats' = (owed_stats /\ message_event(agent, m) # "LocalAgentStats")
        /\ IF m.type = "LocalAgentConnected"
           THEN session' = tunnel.peer /\ seen' = (agent.last_peer = tunnel.peer)
           ELSE UNCHANGED <<session, seen>>
        /\ announced' = IF m.type = "Jails"
                        THEN Announcement(m.value, agent.last_peer \notin {None, tunnel.peer})
                        ELSE announced
    /\ UNCHANGED <<apiVars, pc, resume_to, pollVars, stateVars, peerVars,
                   settingVars, captureVars, streamVars, recovery, should_stop>>

AgentDone ==
    /\ pc = "agent"
    /\ pc' = resume_to
    /\ pulls' = 0
    /\ UNCHANGED <<apiVars, resume_to, pollVars, dataVars>>
-----------------------------------------------------------------------------
(* update_state and poll_from_streams *)

\* get_peer_connection_state tells the handler of the peer of the tunnel.
MeetsPeer == recovery.network_available /\ IsConnected(tunnel) /\ agent # None

UpdateState ==
    /\ pc = "update"
    /\ pc' = "poll"
    /\ agent' = IF MeetsPeer THEN on_connected_to_peer(agent, tunnel.peer) ELSE agent
    /\ seen' = (seen \/ (MeetsPeer /\ session = tunnel.peer))
    /\ answered' = {}
    /\ set_state(get_peer_connection_state(tunnel, agent'))
    /\ recovery' = IF connection_state'.kind = "Connected" THEN on_connected(recovery)
                   ELSE recovery
    /\ UNCHANGED <<apiVars, resume_to, pulls, pollVars, peerVars, settingVars,
                   captureVars, streamVars, session, announced, asked, owed_stats,
                   should_stop>>

\* Mutant: only the client is asked how long to sleep.
poll_deadline_client_only(client_deadline) == client_deadline

poll_deadline(client_deadline) ==
    LET delay == wakeup_delay(recovery)
    IN  IF delay = None THEN client_deadline
        ELSE IF client_deadline = None THEN delay
        ELSE Smaller(client_deadline, delay)

BeginPoll ==
    /\ pc = "poll"
    /\ pc' = "polling"
    /\ \E client_deadline \in ClientDeadlines : deadline' = poll_deadline(client_deadline)
    /\ UNCHANGED <<apiVars, resume_to, pulls, readable, writable, dataVars>>

\* One unit of time passes.
Elapse ==
    /\ pc \notin {"start", "ended"}
    /\ recovery' = Elapsed(recovery)
    /\ deadline' = IF deadline # None /\ deadline > 0 THEN deadline - 1 ELSE deadline
    /\ UNCHANGED <<apiVars, loopVars, readable, writable, stateVars, peerVars,
                   settingVars, captureVars, streamVars, agentVars, should_stop>>

\* External: the tunnels that the client can go over to.  A handshake is completed
\* by data, which is read between poll and handle_messages, and dropped without a
\* network.
Reading == pc = "results" \/ (pc = "pull" /\ resume_to = "results")

NextTunnels ==
    {t \in Tunnels(client_peers) : IsConnected(t) => recovery.network_available /\ Reading}
    \ {tunnel}

\* External: what the client makes of the time, the data, the errors and the
\* changes of the network that it is told of from the return of poll on, until
\* there is nothing more to pull.  An agent whose tunnel is gone does not answer
\* any more.
ClientMoves ==
    /\ pc \in {"results", "messages", "pull"}
    /\ tunnel' \in NextTunnels
    /\ announced' = NoJails
    /\ asked' = {} /\ answered' = {} /\ owed_stats' = FALSE
    /\ UNCHANGED <<apiVars, loopVars, pollVars, stateVars, peers, client_peers, settingVars,
                   captureVars, streamVars, agent, session, seen, recovery, should_stop>>

\* What follows every return of poll: set_current_time, and on_resumed.
Resume ==
    /\ pc = "polling"
    /\ pc' = "results"
    /\ deadline' = None
    /\ recovery' = on_resumed(recovery)
    /\ UNCHANGED <<channel, caller, resume_to, pulls, stateVars, peerVars, settingVars,
                   captureVars, streamVars, agentVars, should_stop>>

\* Streams::poll returns: some streams are ready, the waker was triggered (and
\* is drained), or the deadline is reached.
PollReturns(read, write) ==
    /\ Resume
    /\ waker \/ (deadline # None /\ deadline = 0) \/ read \cup write # {}
    /\ waker' = FALSE
    /\ readable' = read
    /\ writable' = write

\* poll fails (EINTR): nothing was delivered, the waker stays triggered.
PollFails ==
    /\ Resume
    /\ readable' = {}
    /\ writable' = {}
    /\ UNCHANGED waker

\* handle_poll_results, one writable stream: write_from_buffer.
WriteReady ==
    /\ pc = "results"
    /\ \E id \in writable, result \in StreamResults \ {"data"} :
        writable' = writable \ {id} /\ WriteIfOpen(id, result)
    /\ UNCHANGED <<apiVars, loopVars, deadline, readable, stateVars, peerVars,
                   settingVars, captureVars, streams, agentVars, should_stop>>

\* read_from_streams, one read that brought data.  With a network the data is
\* pushed and the client pulled; without, it is dropped.  Either way the
\* stream is read again.
ReadData ==
    /\ pc = "results" /\ writable = {}
    /\ "data" \in StreamResults
    /\ \E id \in readable \cap streams : tun_error' = (id # TUN /\ tun_error)
    /\ IF recovery.network_available
       THEN pc' = "pull" /\ resume_to' = "results" /\ pulls' = 0
       ELSE UNCHANGED loopVars
    /\ UNCHANGED <<apiVars, pollVars, stateVars, peerVars, settingVars,
                   captureVars, streams, write_interest, client_streams,
                   agentVars, recovery, should_stop>>

\* One read that ends the reading of its stream: nothing to read, stream
\* closed, an error, or no stream, the client having closed it since poll.
ReadLast ==
    /\ pc = "results" /\ writable = {}
    /\ \E id \in readable, result \in StreamResults \ {"data", "pending"} :
        /\ readable' = readable \ {id}
        /\ tun_error' = IF id = TUN /\ id \in streams THEN result # "done" ELSE tun_error
        /\ IF id \in streams /\ id # TUN /\ result \in ErrorKinds
           THEN SocketError(id, result)
           ELSE /\ client_streams' = IF id \in streams /\ result = "closed"
                                     THEN client_streams \ {id} ELSE client_streams
                /\ UNCHANGED recovery
    /\ UNCHANGED <<apiVars, loopVars, deadline, writable, stateVars, peerVars,
                   settingVars, captureVars, streams, write_interest, agentVars,
                   should_stop>>

ResultsDone ==
    /\ pc = "results" /\ readable = {} /\ writable = {}
    /\ pc' = "messages"
    /\ UNCHANGED <<apiVars, resume_to, pulls, pollVars, dataVars>>

\* Mutant: the thread ends in the state it was in.
loop_end_state_kept == UNCHANGED stateVars

\* "Make sure to enter disconnected state."
loop_end_state == set_state(Disconnected)

\* on_connection_loop_end.
LoopEnd ==
    /\ pc = "loop_end"
    /\ pc' = "ended"
    /\ IF pcap = None THEN UNCHANGED captureVars ELSE stop_packet_capture
    /\ loop_end_state
    /\ UNCHANGED <<apiVars, resume_to, pulls, pollVars, peerVars, settingVars,
                   streamVars, agentVars, recovery, should_stop>>
-----------------------------------------------------------------------------
HandleMessage ==
    \/ HandleDisconnect \/ HandleConnectivityChange \/ HandlePacketCapture
    \/ HandleClientRequest \/ HandleRequestLocalAgentStats \/ HandleUpdate
    \/ MessagesDone

PullFromClient ==
    \/ PullOpenFails \/ PullOpen \/ PullWrite \/ PullWritePcap \/ PullClose
    \/ PullOther \/ PullDone \/ PullAgentMessage \/ AgentDone

Thread ==
    \/ Start \/ HandleMessage \/ PullFromClient \/ UpdateState \/ BeginPoll
    \/ WriteReady \/ ReadData \/ ReadLast \/ ResultsDone \/ LoopEnd

PollWoken == PollReturns({}, {})

StreamsReady ==
    \E read \in SUBSET streams, write \in SUBSET write_interest :
        read \cup write # {} /\ PollReturns(read, write)

Api(c) == Call(c) \/ DisconnectAndWait(c) \/ Disconnect(c) \/ SendPanics(c)

\* The thread has ended and no caller has anything left to do.
Terminated ==
    /\ ThreadEnded
    /\ \A c \in Callers : caller[c] \in {"returned", "panicked"}
    /\ UNCHANGED vars

Next ==
    \/ Thread \/ StartFails \/ PollWoken \/ StreamsReady \/ PollFails \/ Elapse
    \/ ClientMoves
    \/ \E c \in Callers : Api(c) \/ Wake(c) \/ Join(c)
    \/ Terminated

Spec == Init /\ [][Next]_vars

\* The scheduler runs every thread, time passes, and poll returns when it has
\* to.  Nothing is assumed of the application, the network or the client.
Fairness ==
    /\ WF_vars(Thread) /\ WF_vars(PollWoken) /\ WF_vars(Elapse)
    /\ \A c \in Callers : WF_vars(Wake(c)) /\ WF_vars(Join(c))

\* In addition, a stream that is read again and again runs dry sometimes: the
\* loop of read_from_streams ends only then.
FairSpec == Spec /\ Fairness /\ SF_vars(ReadLast)
-----------------------------------------------------------------------------
(* Properties *)

Messages == Calls \cup {[type |-> "Disconnect"]}
CallerStatuses == Waking \cup {"idle", "join", "returned", "panicked"}

\* Types of the variables.  Two of them are up to the code: only open streams
\* wait to become writable (set_poll_enable_wait_for_write, close_stream), and
\* the recovery delay keeps to its maximum.
TypeOK ==
    /\ channel \in Seq(Messages) /\ waker \in BOOLEAN
    /\ caller \in [Callers -> CallerStatuses]
    /\ pc \in {"start", "messages", "pull", "agent", "update", "poll", "polling",
               "results", "loop_end", "ended"}
    /\ resume_to \in {"update", "results"} /\ pulls \in 0..MaxPulls
    /\ deadline \in Option(Nat)
    /\ readable \subseteq StreamIds \cup {TUN} /\ writable \subseteq StreamIds \cup {TUN}
    /\ tunnel \in Tunnels(client_peers)
    /\ pcap \in Option(Captures)
    /\ capturing \in BOOLEAN /\ tun_error \in BOOLEAN
    /\ streams \subseteq StreamIds \cup {TUN} /\ write_interest \subseteq streams
    /\ client_streams \subseteq StreamIds
    /\ agent # None => agent \in AgentHandlers(agent.last_peer)
    /\ seen \in BOOLEAN /\ announced \in [jails : SUBSET JailReasons, early : BOOLEAN]
    /\ asked \subseteq StatFields /\ answered \subseteq StatFields /\ owed_stats \in BOOLEAN
    /\ recovery \in RecoveryHandlers /\ should_stop \in BOOLEAN

\* What the application was told last by on_state_changed; it takes the
\* connection to be disconnected until then.
ReportedState == told.connection_state

\* The thread has seen an empty channel and has not begun the next round.
PastMessages ==
    /\ pc \in {"pull", "agent", "update", "poll", "polling"}
    /\ resume_to = "update"

\* A message that handle_messages has not seen when the thread goes to poll has
\* its wake pending or about to come: no message is left behind in a sleep
\* without a deadline (the send and the wake of start_pvpn_connection are two
\* steps, and poll swallows a wake).
NoLostWakeup ==
    PastMessages /\ channel # <<>> => waker \/ \E c \in Callers : caller[c] \in Waking

\* The application is never told it is connected while the thread knows that
\* the network is gone, not even between handle_messages and update_state.
NeverConnectedWithoutNetwork ==
    ReportedState.kind = "Connected" => recovery.network_available

\* When the thread blocks, the application has been told to wait for the
\* network exactly if there is none.
WaitingMatchesNetwork ==
    pc = "polling" =>
        (ReportedState.wait = WaitReason("WaitingForNetwork", {})
           <=> ~recovery.network_available)

\* When the thread blocks with Connected reported, the client has that very
\* tunnel, to one of the peers that the application gave last: a peer that
\* update_peers removed is not reported past the next poll.
ReportedTunnelIsReal ==
    pc = "polling" /\ ReportedState.kind = "Connected" =>
        /\ tunnel = [kind |-> "Connected", peer |-> ReportedState.peer]
        /\ \E p \in PeerSet(peers) : p.peer_id = ReportedState.peer.peer_id

\* The peers and settings of the client, kept by differences (update_peers,
\* update_local_agent_settings), are those of the last configuration.
ClientConfigInSync ==
    pc # "start" =>
        /\ client_peers = {as_peer(p) : p \in PeerSet(peers)}
        /\ client_settings = settings

\* Whatever list of peers the application makes, SanitizedPeers::from keeps
\* exactly the best peer of each entry IP, in the order of the list.  (No state
\* after the first matters to it.)
FromMatchesReference ==
    pc = "start" /\ channel = <<>> =>
        \A list \in PeerLists : Selects(from(list), list, BestPeers(list))

\* The client captures packets exactly while there is a file to write them to,
\* and the last capture event the application got says the same.
CaptureInSync ==
    /\ capturing <=> pcap # None
    /\ told_capture = IF pcap = None THEN None ELSE pcap.file

\* What the thread writes to a capture file never takes it over its limit,
\* whatever the file held before (PcapStream::write, handle_write).
CaptureWithinLimit ==
    [][pc = "pull" /\ pcap' # None /\ pcap' # pcap => pcap'.size <= MaxBytes]_vars

\* Every stream the client goes on using is open: a socket that could not be
\* opened, failed or was closed has been reported to the client.
StreamsCoverClient == client_streams \subseteq streams

\* A blocked thread wakes up in time for the delayed network change.
NeverSleepsPastRecovery ==
    pc = "polling" /\ recovery.network_available /\ recovery.send_at # None =>
        deadline # None /\ deadline <= recovery.send_at

\* The delayed network change, which makes the client reconnect, never falls
\* due on a connection reported as established (on_connected in update_state).
TimerNeverResetsConnection ==
    pc = "polling" /\ Due(recovery) => ReportedState.kind # "Connected"

\* Connected in local agent mode means connected to the agent of that peer, not
\* of one connected to before (on_connected_to_peer).
AgentSessionIsCurrent ==
    pc = "polling" /\ agent # None /\ ReportedState.kind = "Connected" =>
        session = ReportedState.peer

\* The agent session of a peer that update_state has met is not taken for that
\* of a peer met later, in whatever order agents connect, peers change and the
\* network goes: Connected is then reported for no other peer.  (A session that
\* update_state has not met before the peer changes is another matter:
\* on_connected_to_peer may know no peer to compare with.)
SeenSessionIsCurrent == seen => AgentSessionIsCurrent

\* When the thread blocks with a tunnel, the jails that its agent announced last
\* are reported, whether they came before or after the agent connected, in the
\* data of this round or an earlier one.  The exception is an early announcement:
\* on_connected_to_peer clears it when update_state comes to meet the new peer.
JailsReported ==
    /\ pc = "polling" /\ MeetsPeer
    /\ announced.jails # {} /\ ~announced.early
    => /\ ReportedState.kind = "ConnectingToLocalAgent"
       /\ ReportedState.wait \in {WaitReason("HardJailed", announced.jails),
                                  WaitReason("SoftJailed", {})}

\* A thread that was told to stop leaves nothing behind: the application knows
\* that it is disconnected and that its capture has stopped.
StoppedIsReported ==
    ThreadEnded /\ should_stop =>
        ReportedState = Disconnected /\ told_capture = None /\ ~capturing

\* disconnect_and_wait returns.
DisconnectReturns ==
    \A c \in Callers : caller[c] = "wake_then_join" ~> caller[c] = "returned"

\* A Down event that was sent is reported, whatever else is sent and wherever
\* the thread is, unless the thread ends first.
NetworkLossReported ==
    (\E i \in DOMAIN channel : channel[i] = [type |-> "ConnectivityChange", event |-> "Down"])
      ~> (ReportedState.wait = WaitReason("WaitingForNetwork", {}) \/ ThreadEnded)

\* A thread blocked with a network change scheduled wakes up by itself.
RecoveryWakesThread ==
    (pc = "polling" /\ recovery.network_available /\ recovery.send_at # None)
      ~> (pc # "polling")

\* "Request stats from local agent": once the agent has given every field that
\* was asked for, LocalAgentStats has been emitted.
StatsDelivered == pc = "polling" /\ asked = {} => ~owed_stats

\* The application does not wait for statistics that have all been answered since
\* it asked and since update_state, in one pull or in several, behind whatever an
\* older request has left in the accumulator (LocalAgentStatsAccumulator).
\* Answers with an update_state between them are lost: see StatsDelivered.
AnsweredStatsDelivered == owed_stats => answered # StatFields
=============================================================================
