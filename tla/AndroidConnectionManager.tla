----------------------- MODULE AndroidConnectionManager -----------------------
(***************************************************************************)
(* The service that owns the Connection on Android                         *)
(* (vpn-core-android: service/ProTunVpnService.kt, ConnectionManager.kt).  *)
(* Intents of the app, states posted by the connection thread and changes  *)
(* of the validated networks are handled one after the other on the main   *)
(* thread.  onRevoke comes from a binder thread (onTransact): it runs in   *)
(* one step, between the point where a handler reads activeConnection and  *)
(* the point where it acts on it, or between handlers.                     *)
(*                                                                         *)
(* The native connection is the one of PvpnConnection, reduced to what it  *)
(* was told and the states it posts.  Peers, settings and statistics are   *)
(* passed on to it without being looked at.                                *)
(***************************************************************************)
EXTENDS Optional, Naturals, Sequences

CONSTANTS
    Interfaces,     \* values of InterfaceConfig
    Captures,       \* values of PacketCaptureInfo
    Networks,       \* networks of the device
    NativeStates,   \* states the native connection posts
    AppIntents,     \* intents that the app sends
    MaxIntents,     \* how many it sends in all
    MaxPosted       \* states waiting for the main thread

Modes == {"LocalAgent", "NoLocalAgent"}
Configs == [mode : Modes, interface : Interfaces, pcap : Option(Captures)]

Intents ==
    [type : {"Connect"}, config : Configs]
        \cup [type : {"Interface"}, interface : Interfaces]
        \cup [type : {"PacketCapture"}, pcap : Option(Captures)]
        \cup [type : {"Disconnect", "Update"}]

ActiveConnections == [config : Configs, networks : SUBSET Networks]

\* What a native connection was told, which of it by an update and not by connect
\* since, and the state it posted last.
NativeConnections(ids) ==
    [id : ids, tun : Interfaces, pcap : Option(Captures),
     updated : SUBSET {"tun", "pcap"}, network : BOOLEAN, last : Option(NativeStates)]

PostedStates == [of : Nat, kind : NativeStates]

\* What the main thread is given to handle, and the handler at work.
Tasks ==
    Intents
        \cup [type : {"Posted"}, state : PostedStates]
        \cup [type : {"Collect"}, networks : SUBSET Networks]
Handlers == [task : Tasks, read : Option(ActiveConnections)]

ASSUME BoundsAssumption ==
    AppIntents \subseteq Intents /\ MaxIntents \in Nat /\ MaxPosted \in Nat

ASSUME NullAssumption ==
    /\ \A set \in SUBSET Networks : set # None
    /\ None \notin ActiveConnections
    /\ None \notin NativeConnections(Nat) /\ None \notin Handlers

VARIABLES
    intents,    \* delivered in order
    sent,       \* how many there were
    networks,   \* NetworkObserver.validatedNetworks
    service,    \* "none", "created" or "stopping" (after stopSelf)
    collected,  \* the networks last emitted to the collector, None before
    active,     \* activeConnection: currentConfig and validatedNetworks
    native,     \* the Connection in it: what it was told, and its last state
    started,    \* native connections so far, each named by its number
    posted,     \* states launched on serviceScope: which connection, which state
    state,      \* ConnectionManager.state
    handler,    \* what the main thread handles, and the activeConnection it read
    wanted,     \* Connect was handled after the last Disconnect
    missed      \* validatedNetworks went back to what was last collected

vars == <<intents, sent, networks, service, collected, active, native, started,
          posted, state, handler, wanted, missed>>
environment == <<intents, sent, networks>>
manager == <<active, native, started, state>>

\* A state that does not come from a native connection.
ManagerState(kind) == [of |-> 0, kind |-> kind]

Init ==
    /\ intents = <<>> /\ sent = 0
    /\ networks \in SUBSET Networks
    /\ service = "none" /\ collected = None
    /\ active = None /\ native = None /\ started = 0
    /\ posted = <<>> /\ state = ManagerState("Disconnected")
    /\ handler = None /\ wanted = FALSE /\ missed = FALSE
-----------------------------------------------------------------------------
(* The app, the system and the native connection *)

SendIntent ==
    /\ sent < MaxIntents /\ sent' = sent + 1
    /\ \E intent \in AppIntents : intents' = Append(intents, intent)
    /\ UNCHANGED <<networks, service, collected, manager, posted, handler, wanted, missed>>

\* onAvailable, onCapabilitiesChanged, onLost.  A StateFlow does not emit the
\* value that a collector has seen last.
NetworkChange ==
    /\ \E n \in Networks :
        networks' \in {networks \cup {n}, networks \ {n}} \ {networks}
    /\ missed' = (missed \/ networks' = collected)
    /\ UNCHANGED <<intents, sent, service, collected, manager, posted, handler, wanted>>

\* onStateChanged on the connection thread: onProTunStateChange launches a
\* coroutine on the main thread.
PostState ==
    /\ native # None /\ Len(posted) < MaxPosted
    /\ \E kind \in NativeStates \ {native.last} :
        /\ native' = [native EXCEPT !.last = kind]
        /\ posted' = Append(posted, [of |-> native.id, kind |-> kind])
    /\ UNCHANGED <<environment, service, collected, active, started, state, handler,
                   wanted, missed>>

\* onCreate: a new serviceScope and its collector.
OnCreate ==
    /\ service = "none" /\ intents # <<>>
    /\ service' = "created"
    /\ UNCHANGED <<environment, collected, manager, posted, handler, wanted, missed>>
-----------------------------------------------------------------------------
(* Clearing the connection *)

\* The callback is cleared before disconnectAndWait: nothing is posted by it.
clearConnection(kind) ==
    /\ active' = None /\ native' = None
    /\ state' = ManagerState(kind)
    /\ UNCHANGED started

\* onRevoke, on a binder thread.
OnRevoke ==
    /\ service # "none"
    /\ clearConnection("Disconnected")
    /\ service' = "stopping"
    /\ UNCHANGED <<environment, collected, posted, handler, wanted, missed>>

\* onDestroy: serviceScope.cancel() drops what has not run.  stopSelf() stops the
\* service whatever intents came after.
OnDestroy ==
    /\ service = "stopping" /\ handler = None
    /\ clearConnection("Disconnected")
    /\ service' = "none" /\ collected' = None
    /\ posted' = <<>>
    /\ UNCHANGED <<environment, handler, wanted, missed>>
-----------------------------------------------------------------------------
(* Handlers on the main thread *)

Idle == handler = None /\ service # "none"

\* A handler begins by reading activeConnection.
Begin(task) == handler' = [task |-> task, read |-> active]

BeginIntent ==
    /\ Idle /\ intents # <<>>
    /\ Begin(Head(intents)) /\ intents' = Tail(intents)
    /\ UNCHANGED <<sent, networks, service, collected, manager, posted, wanted, missed>>

BeginPosted ==
    /\ Idle /\ posted # <<>>
    /\ Begin([type |-> "Posted", state |-> Head(posted)]) /\ posted' = Tail(posted)
    /\ UNCHANGED <<environment, service, collected, manager, wanted, missed>>

BeginCollect ==
    /\ Idle /\ collected # networks
    /\ Begin([type |-> "Collect", networks |-> networks])
    /\ collected' = networks /\ missed' = FALSE
    /\ UNCHANGED <<environment, service, manager, posted, wanted>>

Finish(type) ==
    /\ handler # None /\ handler.task.type = type /\ handler' = None
    /\ UNCHANGED <<environment, collected, posted, missed>>

\* A handler calls the connection that it read, and onRevoke has destroyed it: the
\* exception ends the process.  The handler of a posted state calls nothing, the
\* collector only if the networks are others.
ProcessDies ==
    /\ handler # None /\ handler.task.type # "Posted"
    /\ handler.read # None /\ active = None
    /\ handler.task.type = "Collect" => handler.read.networks # handler.task.networks
    /\ intents' = <<>> /\ service' = "none" /\ collected' = None
    /\ active' = None /\ native' = None /\ posted' = <<>>
    /\ state' = ManagerState("Disconnected")
    /\ handler' = None /\ wanted' = FALSE /\ missed' = FALSE
    /\ UNCHANGED <<sent, networks, started>>

\* connect, if there is a connection and both modes have a local agent.
Updates(read, config) ==
    read # None /\ read.config.mode = "LocalAgent" /\ config.mode = "LocalAgent"

\* What of a configuration differs from the last one given to connect.
Changed(config, last) ==
    (IF config.interface # last.interface THEN {"tun"} ELSE {})
        \cup (IF config.pcap # last.pcap THEN {"pcap"} ELSE {})

\* Mutant: the configuration is not stored.
CurrentConfig_kept(config) == active.config

\* currentConfig of an activeConnection that is updated.
CurrentConfig(config) == config

\* The update of the running connection: tun and capture follow the configuration
\* where it has changed.
UpdateConnection ==
    LET config == handler.task.config
        changed == Changed(config, handler.read.config)
    IN  /\ Finish("Connect") /\ Updates(handler.read, config)
        /\ wanted' = TRUE /\ UNCHANGED <<service, state, started>>
        /\ active' = IF active = None THEN None
                     ELSE [active EXCEPT !.config = CurrentConfig(config)]
        /\ native' = IF native = None THEN None
                     ELSE [native EXCEPT
                             !.tun = IF "tun" \in changed THEN config.interface ELSE @,
                             !.pcap = IF "pcap" \in changed THEN config.pcap ELSE @,
                             !.updated = @ \ changed]

\* Mutant: the networks are not remembered with the connection.
ConnectedNetworks_forgotten == {}

\* validatedNetworks of a new ActiveConnection.
ConnectedNetworks == networks

\* A new connection, after clearing the one that there may be.
StartConnection ==
    LET config == handler.task.config
    IN  /\ Finish("Connect") /\ ~Updates(handler.read, config)
        /\ wanted' = TRUE /\ UNCHANGED service
        /\ started' = started + 1
        /\ active' = [config |-> config, networks |-> ConnectedNetworks]
        /\ native' = [id |-> started', tun |-> config.interface, pcap |-> config.pcap,
                      updated |-> {}, network |-> networks # {}, last |-> None]
        /\ state' = IF handler.read = None THEN state ELSE ManagerState("Connecting")

\* establishTun fails; in an update it is called only for a new interface.
ConnectFails ==
    LET config == handler.task.config
    IN  /\ Finish("Connect")
        /\ Updates(handler.read, config) => config.interface # handler.read.config.interface
        /\ wanted' = TRUE /\ UNCHANGED service
        /\ clearConnection("Disconnected")

Disconnect ==
    /\ Finish("Disconnect")
    /\ clearConnection("Disconnected")
    /\ service' = "stopping" /\ wanted' = FALSE

\* An update without a connection stops the service.
UpdateWithoutConnection ==
    /\ \E type \in {"Interface", "PacketCapture", "Update"} : Finish(type)
    /\ handler.read = None
    /\ service' = "stopping"
    /\ UNCHANGED <<manager, wanted>>

\* updateInterfaceConfig reads activeConnection again; establishTun, updateUnixTun.
UpdateInterface ==
    /\ Finish("Interface") /\ handler.read # None
    /\ \/ /\ native # None
          /\ native' = [native EXCEPT !.tun = handler.task.interface,
                                      !.updated = @ \cup {"tun"}]
          /\ UNCHANGED <<active, started, state>>
       \/ clearConnection("Disconnected")
       \/ active = None /\ UNCHANGED manager
    /\ UNCHANGED <<service, wanted>>

\* setPacketCaptureEnabled.
UpdatePacketCapture ==
    /\ Finish("PacketCapture") /\ handler.read # None
    /\ native' = IF native = None THEN None
                 ELSE [native EXCEPT !.pcap = handler.task.pcap, !.updated = @ \cup {"pcap"}]
    /\ UNCHANGED <<active, started, state, service, wanted>>

\* The other updates are passed on.
UpdateOther ==
    /\ Finish("Update") /\ handler.read # None
    /\ UNCHANGED <<manager, service, wanted>>

\* Mutant: the state is taken over without a connection.
Accepts_any == TRUE

\* Mutant: a state of the same kind is not taken over again.
Accepts_new_kind == handler.read # None /\ handler.task.state.kind # state.kind

\* onProTunStateChange: only while there is an activeConnection.
Accepts == handler.read # None

HandlePosted ==
    /\ Finish("Posted")
    /\ state' = IF Accepts THEN handler.task.state ELSE state
    /\ UNCHANGED <<active, native, started, service, wanted>>

\* The collector of validatedNetworks: DOWN, UP or NETWORK_SWITCH.
Collect ==
    /\ Finish("Collect")
    /\ IF handler.read = None \/ handler.read.networks = handler.task.networks
       THEN UNCHANGED <<active, native>>
       ELSE /\ active # None
            /\ active' = [active EXCEPT !.networks = handler.task.networks]
            /\ native' = [native EXCEPT !.network = handler.task.networks # {}]
    /\ UNCHANGED <<started, state, service, wanted>>

Next ==
    \/ SendIntent \/ NetworkChange \/ PostState \/ OnCreate \/ OnRevoke \/ OnDestroy
    \/ BeginIntent \/ BeginPosted \/ BeginCollect
    \/ UpdateConnection \/ StartConnection \/ ConnectFails \/ Disconnect
    \/ UpdateWithoutConnection \/ UpdateInterface \/ UpdatePacketCapture \/ UpdateOther
    \/ HandlePosted \/ Collect \/ ProcessDies

Spec == Init /\ [][Next]_vars
-----------------------------------------------------------------------------
(* Properties *)

\* Types; activeConnection and the native connection come and go together.
TypeOK ==
    /\ intents \in Seq(Intents) /\ sent \in 0..MaxIntents
    /\ networks \subseteq Networks /\ collected \in Option(SUBSET Networks)
    /\ service \in {"none", "created", "stopping"}
    /\ started \in Nat /\ active \in Option(ActiveConnections)
    /\ native \in Option(NativeConnections(1..started))
    /\ active = None <=> native = None
    /\ native # None => service # "none" /\ native.id = started
    /\ posted \in Seq(PostedStates) /\ Len(posted) <= MaxPosted
    /\ state \in [of : Nat, kind : NativeStates \cup {"Disconnected", "Connecting"}]
    /\ handler \in Option(Handlers)
    /\ wanted \in BOOLEAN /\ missed \in BOOLEAN

\* Once the running connection has posted a state, a main thread with nothing left
\* to do shows its last one, whatever a replaced connection posted before it was
\* cleared.  onProTunStateChange does not look where a state comes from: until the
\* running connection posts its first one, the replaced connection's can be shown.
LatestStateShown ==
    posted = <<>> /\ handler = None /\ native # None /\ native.last # None
        => state = [of |-> native.id, kind |-> native.last]

\* Once Disconnect is handled there is no connection and the state is
\* Disconnected, whatever was posted or collected before, until the next Connect
\* (onProTunStateChange looks at activeConnection; clearConnection).
DisconnectHolds ==
    ~wanted => active = None /\ state = ManagerState("Disconnected")

\* When the collector has caught up, the connection knows whether there is a
\* network, wherever the network changed during connect; unless the networks went
\* back to what the collector saw last, which is not emitted (connect reads
\* validatedNetworks.value, the collector compares with what connect stored).
NetworkInSync ==
    handler = None /\ native # None /\ collected = networks /\ ~missed
        => native.network = (networks # {})

\* The running connection has the tun and the capture of currentConfig, which is
\* the configuration of the last connect, except for what updateInterfaceConfig or
\* setPacketCaptureEnabled has set and no connect has changed since.
ConfigInForce ==
    active # None =>
        /\ "tun" \notin native.updated => native.tun = active.config.interface
        /\ "pcap" \notin native.updated => native.pcap = active.config.pcap

\* After a connect, the tun and the capture of the running connection are those of
\* its configuration: InitialConfig.interfaceConfig and packetCaptureInfo.  The
\* code compares with the configuration of the last connect, not with what was
\* set since.
ConnectApplies ==
    [][handler # None /\ handler' = None /\ handler.task.type = "Connect" /\ native' # None
         => /\ native'.tun = handler.task.config.interface
            /\ native'.pcap = handler.task.config.pcap]_vars
=============================================================================
