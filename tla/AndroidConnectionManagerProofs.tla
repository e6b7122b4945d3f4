-------------------- MODULE AndroidConnectionManagerProofs --------------------
(***************************************************************************)
(* Proofs about AndroidConnectionManager, for any interfaces, networks,    *)
(* states and intents, and any number of them.                             *)
(***************************************************************************)
EXTENDS AndroidConnectionManager, TLAPS

Handling(type) == handler # None /\ handler.task.type = type

\* What a handler has read of activeConnection is what is there when it acts,
\* unless onRevoke has cleared it.
ReadInv ==
    handler # None =>
        /\ service # "none"
        /\ active # None => active = handler.read

\* Without a wanted connection, no handler has one to work on either.
WantedInv ==
    ~wanted =>
        /\ active = None /\ state = ManagerState("Disconnected")
        /\ handler # None => handler.read = None

\* The native connection knows of the networks in activeConnection, and these are
\* the collected ones when the collector has caught up.
NetworkInv ==
    /\ Handling("Collect") => collected = handler.task.networks
    /\ active # None =>
        /\ native.network = (active.networks # {})
        /\ collected = networks /\ ~missed /\ ~Handling("Collect") => active.networks = networks

\* The last state of the native connection is the last one posted, or is being
\* handled, or is shown.
ShownInv ==
    native # None /\ native.last # None =>
        LET last == [of |-> native.id, kind |-> native.last]
        IN  /\ posted # <<>> => posted[Len(posted)] = last
            /\ posted = <<>> /\ Handling("Posted") => handler.task.state = last
            /\ posted = <<>> /\ ~Handling("Posted") => state = last


\* Types of what waits, of the handler and of the connection.
QueueTypes ==
    /\ intents \in Seq(Intents) /\ sent \in 0..MaxIntents
    /\ networks \subseteq Networks /\ collected \in Option(SUBSET Networks)
    /\ posted \in Seq(PostedStates) /\ Len(posted) <= MaxPosted
    /\ wanted \in BOOLEAN /\ missed \in BOOLEAN

HandlerTypes ==
    /\ handler \in Option(Handlers)
    /\ state \in [of : Nat, kind : NativeStates \cup {"Disconnected", "Connecting"}]

ConnectionTypes ==
    /\ service \in {"none", "created", "stopping"}
    /\ started \in Nat /\ active \in Option(ActiveConnections)
    /\ native \in Option(NativeConnections(1..started))
    /\ active = None <=> native = None
    /\ native # None => service # "none" /\ native.id = started

Types == QueueTypes /\ HandlerTypes /\ ConnectionTypes

\* The inductive invariant.
ManagerInv == Types /\ ReadInv /\ WantedInv /\ NetworkInv /\ ShownInv
-----------------------------------------------------------------------------
(* Types *)

\* What each kind of task carries.
LEMMA TaskTypes ==
    ASSUME NEW h \in Handlers
    PROVE  /\ h.task \in Tasks /\ h.read \in Option(ActiveConnections)
           /\ h.task.type = "Connect" => h.task.config \in Configs
           /\ h.task.type = "Interface" => h.task.interface \in Interfaces
           /\ h.task.type = "PacketCapture" => h.task.pcap \in Option(Captures)
           /\ h.task.type = "Posted" => h.task.state \in PostedStates
           /\ h.task.type = "Collect" => h.task.networks \in SUBSET Networks
BY DEF Handlers, Tasks, Intents

\* A state that a native connection posts.
LEMMA PostTypes ==
    ASSUME NEW n \in NativeConnections(1..started), started \in Nat, NEW kind \in NativeStates
    PROVE  /\ [of |-> n.id, kind |-> kind] \in PostedStates
           /\ [n EXCEPT !.last = kind] \in NativeConnections(1..started)
BY DEF NativeConnections, PostedStates, Option

\* Intents and posted states are queued and taken, networks collected.
LEMMA NextQueueTypes == QueueTypes /\ ConnectionTypes /\ [Next]_vars => QueueTypes'
<1> SUFFICES ASSUME QueueTypes /\ ConnectionTypes, [Next]_vars PROVE QueueTypes'
    OBVIOUS
<1> USE BoundsAssumption DEF QueueTypes
<1>1. CASE SendIntent
    BY <1>1 DEF SendIntent, manager
<1>2. CASE NetworkChange
    BY <1>2 DEF NetworkChange, manager
<1>3. CASE PostState
    BY <1>3, PostTypes DEF PostState, environment, ConnectionTypes, Option
<1>4. CASE OnCreate
    BY <1>4 DEF OnCreate, environment, manager
<1>5. CASE OnRevoke
    BY <1>5 DEF OnRevoke, clearConnection, environment
<1>6. CASE OnDestroy
    BY <1>6 DEF OnDestroy, clearConnection, environment, Option
<1>7. CASE BeginIntent
    BY <1>7 DEF BeginIntent, Idle, Begin, manager
<1>8. CASE BeginPosted
    BY <1>8 DEF BeginPosted, Idle, Begin, environment, manager
<1>9. CASE BeginCollect
    BY <1>9, Zenon DEF BeginCollect, Idle, Begin, environment, manager, Option
<1>10. CASE UpdateConnection
    BY <1>10 DEF UpdateConnection, Finish, Updates, environment
<1>11. CASE StartConnection
    BY <1>11 DEF StartConnection, Finish, Updates, environment, ConnectedNetworks
<1>12. CASE ConnectFails
    BY <1>12 DEF ConnectFails, Finish, clearConnection, environment
<1>13. CASE Disconnect
    BY <1>13, Zenon DEF Disconnect, Finish, clearConnection, environment
<1>14. CASE UpdateWithoutConnection
    BY <1>14 DEF UpdateWithoutConnection, Finish, environment, manager
<1>15. CASE UpdateInterface
    BY <1>15 DEF UpdateInterface, Finish, clearConnection, environment, manager
<1>16. CASE UpdatePacketCapture
    BY <1>16 DEF UpdatePacketCapture, Finish, environment
<1>17. CASE UpdateOther
    BY <1>17 DEF UpdateOther, Finish, environment, manager
<1>18. CASE HandlePosted
    BY <1>18 DEF HandlePosted, Finish, Accepts, environment
<1>19. CASE Collect
    BY <1>19 DEF Collect, Finish, environment
<1>20. CASE ProcessDies
    <2>1. intents' \in Seq(Intents) /\ posted' \in Seq(PostedStates) /\ Len(posted') <= MaxPosted
        BY <1>20 DEF ProcessDies
    <2>2. collected' \in Option(SUBSET Networks) /\ UNCHANGED <<sent, networks>>
        BY <1>20 DEF ProcessDies, Option
    <2>3. wanted' \in BOOLEAN /\ missed' \in BOOLEAN
        BY <1>20, Zenon DEF ProcessDies
    <2> QED
        BY <2>1, <2>2, <2>3
<1>21. CASE UNCHANGED vars
    BY <1>21 DEF vars
<1> QED
    BY <1>1, <1>2, <1>3, <1>4, <1>5, <1>6, <1>7, <1>8, <1>9, <1>10, <1>11, <1>12,
       <1>13, <1>14, <1>15, <1>16, <1>17, <1>18, <1>19, <1>20, <1>21 DEF Next

\* A handler reads activeConnection and takes a task from a queue.
LEMMA NextHandlerTypes == Types /\ [Next]_vars => HandlerTypes'
<1> SUFFICES ASSUME Types, [Next]_vars PROVE HandlerTypes'
    OBVIOUS
<1> USE DEF Types, HandlerTypes, Option, ManagerState
<1>1. CASE SendIntent
    BY <1>1 DEF SendIntent, manager
<1>2. CASE NetworkChange
    BY <1>2 DEF NetworkChange, manager
<1>3. CASE PostState
    BY <1>3 DEF PostState, environment
<1>4. CASE OnCreate
    BY <1>4 DEF OnCreate, environment, manager
<1>5. CASE OnRevoke
    BY <1>5 DEF OnRevoke, clearConnection, environment
<1>6. CASE OnDestroy
    BY <1>6 DEF OnDestroy, clearConnection, environment
<1>7. CASE BeginIntent
    BY <1>7 DEF BeginIntent, Idle, Begin, manager, QueueTypes, ConnectionTypes,
       Handlers, Tasks
<1>8. CASE BeginPosted
    BY <1>8 DEF BeginPosted, Idle, Begin, environment, manager, QueueTypes,
       ConnectionTypes, Handlers, Tasks
<1>9. CASE BeginCollect
    BY <1>9 DEF BeginCollect, Idle, Begin, environment, manager, QueueTypes,
       ConnectionTypes, Handlers, Tasks
<1>10. CASE UpdateConnection
    BY <1>10 DEF UpdateConnection, Finish, Updates, environment
<1>11. CASE StartConnection
    BY <1>11 DEF StartConnection, Finish, Updates, environment, ConnectedNetworks
<1>12. CASE ConnectFails
    BY <1>12 DEF ConnectFails, Finish, clearConnection, environment
<1>13. CASE Disconnect
    BY <1>13 DEF Disconnect, Finish, clearConnection, environment
<1>14. CASE UpdateWithoutConnection
    BY <1>14 DEF UpdateWithoutConnection, Finish, environment, manager
<1>15. CASE UpdateInterface
    BY <1>15 DEF UpdateInterface, Finish, clearConnection, environment, manager
<1>16. CASE UpdatePacketCapture
    BY <1>16 DEF UpdatePacketCapture, Finish, environment
<1>17. CASE UpdateOther
    BY <1>17 DEF UpdateOther, Finish, environment, manager
<1>18. CASE HandlePosted
    BY <1>18, TaskTypes DEF HandlePosted, Finish, Accepts, environment, PostedStates
<1>19. CASE Collect
    BY <1>19 DEF Collect, Finish, environment
<1>20. CASE ProcessDies
    BY <1>20 DEF ProcessDies
<1>21. CASE UNCHANGED vars
    BY <1>21, Zenon DEF vars
<1> QED
    BY <1>1, <1>2, <1>3, <1>4, <1>5, <1>6, <1>7, <1>8, <1>9, <1>10, <1>11, <1>12,
       <1>13, <1>14, <1>15, <1>16, <1>17, <1>18, <1>19, <1>20, <1>21 DEF Next

\* activeConnection and the native connection change together.
LEMMA NextConnectionTypes == Types /\ ReadInv /\ [Next]_vars => ConnectionTypes'
<1> SUFFICES ASSUME Types /\ ReadInv, [Next]_vars PROVE ConnectionTypes'
    OBVIOUS
<1> USE NullAssumption DEF Types, ConnectionTypes, Option
<1>1. CASE SendIntent
    BY <1>1 DEF SendIntent, manager
<1>2. CASE NetworkChange
    BY <1>2 DEF NetworkChange, manager
<1>3. CASE PostState
    BY <1>3 DEF PostState, environment, NativeConnections
<1>4. CASE OnCreate
    BY <1>4 DEF OnCreate, environment, manager
<1>5. CASE OnRevoke
    BY <1>5 DEF OnRevoke, clearConnection, environment
<1>6. CASE OnDestroy
    BY <1>6 DEF OnDestroy, clearConnection, environment
<1>7. CASE BeginIntent
    BY <1>7 DEF BeginIntent, Idle, Begin, manager
<1>8. CASE BeginPosted
    BY <1>8 DEF BeginPosted, Idle, Begin, environment, manager
<1>9. CASE BeginCollect
    BY <1>9 DEF BeginCollect, Idle, Begin, environment, manager
<1>10. CASE UpdateConnection
    <2> DEFINE config == handler.task.config
    <2>1. handler \in Handlers /\ config \in Configs
        BY <1>10, TaskTypes DEF UpdateConnection, Finish, Updates, environment,
           HandlerTypes
    <2>2. config.interface \in Interfaces /\ config.pcap \in Option(Captures)
        BY <2>1 DEF Configs
    <2>3. CASE active = None
        BY <1>10, <2>3 DEF UpdateConnection, Finish, Updates, environment
    <2>4. CASE active # None
        <3>1. active' \in ActiveConnections
            BY <1>10, <2>1, <2>4 DEF UpdateConnection, CurrentConfig, ActiveConnections
        <3> DEFINE changed == Changed(config, handler.read.config)
                   tun == IF "tun" \in changed THEN config.interface ELSE native.tun
                   pcap == IF "pcap" \in changed THEN config.pcap ELSE native.pcap
                   updated == native.updated \ changed
        <3>2. tun \in Interfaces /\ pcap \in Option(Captures)
              /\ updated \in SUBSET {"tun", "pcap"}
            BY <2>2, <2>4 DEF NativeConnections
        <3>3. native' = [native EXCEPT !.tun = tun, !.pcap = pcap, !.updated = updated]
            BY <1>10, <2>4 DEF UpdateConnection, NativeConnections
        <3> HIDE DEF tun, pcap, updated
        <3>4. native' \in NativeConnections(1..started) /\ native'.id = native.id
            BY <2>4, <3>2, <3>3, Zenon DEF NativeConnections
        <3>5. native' \in NativeConnections(Nat)
            BY <3>4 DEF NativeConnections
        <3>6. UNCHANGED <<service, started>>
            BY <1>10 DEF UpdateConnection
        <3> QED
            BY <2>4, <3>1, <3>4, <3>5, <3>6
    <2> QED
        BY <2>3, <2>4
<1>11. CASE StartConnection
    <2> DEFINE config == handler.task.config
    <2>1. handler \in Handlers /\ config \in Configs
        BY <1>11, TaskTypes DEF StartConnection, Finish, Updates, environment,
           ConnectedNetworks, HandlerTypes
    <2>2. config.interface \in Interfaces /\ config.pcap \in Option(Captures)
        BY <2>1 DEF Configs
    <2>3. active' \in ActiveConnections
        BY <1>11, <2>1 DEF StartConnection, Finish, Updates, environment,
           ConnectedNetworks, ActiveConnections, QueueTypes
    <2>4. started' \in Nat /\ started' \in 1..started'
        BY <1>11 DEF StartConnection, Finish, Updates, environment, ConnectedNetworks
    <2>5. native' \in NativeConnections(1..started') /\ native'.id = started'
        BY <1>11, <2>2, <2>4 DEF StartConnection, Finish, Updates, environment,
           ConnectedNetworks, NativeConnections
    <2>6. native' \in NativeConnections(Nat)
        BY <2>4, <2>5 DEF NativeConnections
    <2>7. service' # "none" /\ service' = service
        BY <1>11 DEF StartConnection, Finish, Updates, environment,
           ConnectedNetworks, ReadInv
    <2> QED
        BY <2>3, <2>4, <2>5, <2>6, <2>7
<1>12. CASE ConnectFails
    BY <1>12 DEF ConnectFails, Finish, clearConnection, environment
<1>13. CASE Disconnect
    BY <1>13 DEF Disconnect, Finish, clearConnection, environment
<1>14. CASE UpdateWithoutConnection
    BY <1>14 DEF UpdateWithoutConnection, Finish, environment, manager
<1>15. CASE UpdateInterface
    <2>1. handler.task.interface \in Interfaces
        BY <1>15, TaskTypes DEF UpdateInterface, Finish, HandlerTypes
    <2>2. CASE native # None /\ native' = [native EXCEPT !.tun = handler.task.interface,
                                                        !.updated = @ \cup {"tun"}]
               /\ UNCHANGED <<active, started, service>>
        <3>1. native' \in NativeConnections(1..started) /\ native'.id = native.id
            BY <2>1, <2>2, Zenon DEF NativeConnections
        <3>2. native' \in NativeConnections(Nat)
            BY <3>1 DEF NativeConnections
        <3> QED
            BY <2>2, <3>1, <3>2
    <2>3. CASE UNCHANGED <<active, native, started, service>>
        BY <2>3
    <2>4. CASE active' = None /\ native' = None /\ UNCHANGED <<started, service>>
        BY <2>4
    <2> QED
        BY <1>15, <2>2, <2>3, <2>4 DEF UpdateInterface, clearConnection, manager
<1>16. CASE UpdatePacketCapture
    <2>1. handler.task.pcap \in Option(Captures)
        BY <1>16, TaskTypes DEF UpdatePacketCapture, Finish, HandlerTypes
    <2>2. UNCHANGED <<active, started, service>>
        BY <1>16 DEF UpdatePacketCapture
    <2>3. CASE native = None
        BY <1>16, <2>2, <2>3 DEF UpdatePacketCapture
    <2>4. CASE native # None
        <3>1. native' \in NativeConnections(1..started) /\ native'.id = native.id
            BY <1>16, <2>1, <2>4, Zenon DEF UpdatePacketCapture, NativeConnections
        <3>2. native' \in NativeConnections(Nat)
            BY <3>1 DEF NativeConnections
        <3> QED
            BY <2>2, <2>4, <3>1, <3>2
    <2> QED
        BY <2>3, <2>4
<1>17. CASE UpdateOther
    BY <1>17 DEF UpdateOther, Finish, environment, manager
<1>18. CASE HandlePosted
    BY <1>18 DEF HandlePosted, Finish, Accepts, environment
<1>19. CASE Collect
    <2>1. handler \in Handlers /\ handler.task.networks \in SUBSET Networks
        BY <1>19, TaskTypes DEF Collect, Finish, environment, HandlerTypes
    <2>2. CASE UNCHANGED <<active, native>>
        BY <1>19, <2>2 DEF Collect, Finish, environment
    <2>3. CASE ~UNCHANGED <<active, native>>
        <3>1. active' \in ActiveConnections
            BY <1>19, <2>1, <2>3 DEF Collect, Finish, environment, ActiveConnections
        <3>2. native \in NativeConnections(1..started) /\ native' = [native EXCEPT !.network = handler.task.networks # {}]
            BY <1>19, <2>3 DEF Collect, Finish, environment
        <3>3. (handler.task.networks # {}) \in BOOLEAN
            OBVIOUS
        <3>4. native' \in NativeConnections(1..started) /\ native'.id = native.id
            BY <3>2, <3>3, Zenon DEF NativeConnections
        <3>5. native' \in NativeConnections(Nat)
            BY <3>4 DEF NativeConnections
        <3> QED
            BY <1>19, <2>3, <3>1, <3>2, <3>4, <3>5 DEF Collect, Finish, environment
    <2> QED
        BY <2>2, <2>3
<1>20. CASE ProcessDies
    BY <1>20 DEF ProcessDies
<1>21. CASE UNCHANGED vars
    BY <1>21 DEF vars
<1> QED
    BY <1>1, <1>2, <1>3, <1>4, <1>5, <1>6, <1>7, <1>8, <1>9, <1>10, <1>11, <1>12,
       <1>13, <1>14, <1>15, <1>16, <1>17, <1>18, <1>19, <1>20, <1>21 DEF Next

-----------------------------------------------------------------------------
(* What a handler has read, and what the connection is told *)

\* Only the handler itself replaces activeConnection.
LEMMA NextRead == Types /\ ReadInv /\ [Next]_vars => ReadInv'
<1> SUFFICES ASSUME Types /\ ReadInv, [Next]_vars PROVE ReadInv'
    OBVIOUS
<1> USE DEF ReadInv
<1>1. CASE SendIntent
    BY <1>1 DEF SendIntent, manager
<1>2. CASE NetworkChange
    BY <1>2 DEF NetworkChange, manager
<1>3. CASE PostState
    BY <1>3 DEF PostState, environment
<1>4. CASE OnCreate
    BY <1>4 DEF OnCreate, environment, manager
<1>5. CASE OnRevoke
    BY <1>5 DEF OnRevoke, clearConnection, environment
<1>6. CASE OnDestroy
    BY <1>6 DEF OnDestroy, clearConnection, environment
<1>7. CASE BeginIntent
    BY <1>7 DEF BeginIntent, Idle, Begin, manager
<1>8. CASE BeginPosted
    BY <1>8 DEF BeginPosted, Idle, Begin, environment, manager
<1>9. CASE BeginCollect
    BY <1>9 DEF BeginCollect, Idle, Begin, environment, manager
<1>10. CASE UpdateConnection
    BY <1>10 DEF UpdateConnection, Finish, Updates, environment
<1>11. CASE StartConnection
    BY <1>11 DEF StartConnection, Finish, Updates, environment, ConnectedNetworks
<1>12. CASE ConnectFails
    BY <1>12 DEF ConnectFails, Finish, clearConnection, environment
<1>13. CASE Disconnect
    BY <1>13 DEF Disconnect, Finish, clearConnection, environment
<1>14. CASE UpdateWithoutConnection
    BY <1>14 DEF UpdateWithoutConnection, Finish, environment, manager
<1>15. CASE UpdateInterface
    BY <1>15 DEF UpdateInterface, Finish, clearConnection, environment, manager
<1>16. CASE UpdatePacketCapture
    BY <1>16 DEF UpdatePacketCapture, Finish, environment
<1>17. CASE UpdateOther
    BY <1>17 DEF UpdateOther, Finish, environment, manager
<1>18. CASE HandlePosted
    BY <1>18 DEF HandlePosted, Finish, Accepts, environment
<1>19. CASE Collect
    BY <1>19 DEF Collect, Finish, environment
<1>20. CASE ProcessDies
    BY <1>20 DEF ProcessDies
<1>21. CASE UNCHANGED vars
    BY <1>21, Zenon DEF vars
<1> QED
    BY <1>1, <1>2, <1>3, <1>4, <1>5, <1>6, <1>7, <1>8, <1>9, <1>10, <1>11, <1>12,
       <1>13, <1>14, <1>15, <1>16, <1>17, <1>18, <1>19, <1>20, <1>21 DEF Next

\* Without a wanted connection a posted state is not taken over.
LEMMA NextWanted == Types /\ ReadInv /\ WantedInv /\ [Next]_vars => WantedInv'
<1> SUFFICES ASSUME Types /\ ReadInv /\ WantedInv, [Next]_vars PROVE WantedInv'
    OBVIOUS
<1> USE DEF WantedInv, ReadInv
<1>1. CASE SendIntent
    BY <1>1 DEF SendIntent, manager
<1>2. CASE NetworkChange
    BY <1>2 DEF NetworkChange, manager
<1>3. CASE PostState
    BY <1>3 DEF PostState, environment
<1>4. CASE OnCreate
    BY <1>4 DEF OnCreate, environment, manager
<1>5. CASE OnRevoke
    BY <1>5 DEF OnRevoke, clearConnection, environment
<1>6. CASE OnDestroy
    BY <1>6 DEF OnDestroy, clearConnection, environment
<1>7. CASE BeginIntent
    BY <1>7 DEF BeginIntent, Idle, Begin, manager
<1>8. CASE BeginPosted
    BY <1>8 DEF BeginPosted, Idle, Begin, environment, manager
<1>9. CASE BeginCollect
    BY <1>9 DEF BeginCollect, Idle, Begin, environment, manager
<1>10. CASE UpdateConnection
    BY <1>10 DEF UpdateConnection, Finish, Updates, environment
<1>11. CASE StartConnection
    BY <1>11 DEF StartConnection, Finish, Updates, environment, ConnectedNetworks
<1>12. CASE ConnectFails
    BY <1>12 DEF ConnectFails, Finish, clearConnection, environment
<1>13. CASE Disconnect
    BY <1>13 DEF Disconnect, Finish, clearConnection, environment
<1>14. CASE UpdateWithoutConnection
    BY <1>14 DEF UpdateWithoutConnection, Finish, environment, manager
<1>15. CASE UpdateInterface
    BY <1>15 DEF UpdateInterface, Finish, clearConnection, environment, manager
<1>16. CASE UpdatePacketCapture
    BY <1>16 DEF UpdatePacketCapture, Finish, environment
<1>17. CASE UpdateOther
    BY <1>17 DEF UpdateOther, Finish, environment, manager
<1>18. CASE HandlePosted
    BY <1>18 DEF HandlePosted, Finish, Accepts, environment
<1>19. CASE Collect
    BY <1>19 DEF Collect, Finish, environment
<1>20. CASE ProcessDies
    BY <1>20 DEF ProcessDies
<1>21. CASE UNCHANGED vars
    BY <1>21, Zenon DEF vars
<1> QED
    BY <1>1, <1>2, <1>3, <1>4, <1>5, <1>6, <1>7, <1>8, <1>9, <1>10, <1>11, <1>12,
       <1>13, <1>14, <1>15, <1>16, <1>17, <1>18, <1>19, <1>20, <1>21 DEF Next

\* The collector brings the networks of activeConnection up to date.
LEMMA NextNetwork == Types /\ ReadInv /\ NetworkInv /\ [Next]_vars => NetworkInv'
<1> SUFFICES ASSUME Types /\ ReadInv /\ NetworkInv, [Next]_vars PROVE NetworkInv'
    OBVIOUS
<1> USE DEF NetworkInv, ReadInv, Handling
<1>1. CASE SendIntent
    BY <1>1 DEF SendIntent, manager
<1>2. CASE NetworkChange
    BY <1>2, Zenon DEF NetworkChange, manager
<1>3. CASE PostState
    BY <1>3 DEF PostState, environment
<1>4. CASE OnCreate
    BY <1>4 DEF OnCreate, environment, manager
<1>5. CASE OnRevoke
    BY <1>5 DEF OnRevoke, clearConnection, environment
<1>6. CASE OnDestroy
    BY <1>6 DEF OnDestroy, clearConnection, environment
<1>7. CASE BeginIntent
    <2>1. Head(intents) \in Intents
        BY <1>7 DEF BeginIntent, Idle, Begin, manager, Types, QueueTypes
    <2>2. Head(intents).type \notin {"Posted", "Collect"}
        BY <2>1 DEF Intents
    <2>3. handler = None /\ handler'.task = Head(intents)
          /\ UNCHANGED <<networks, collected, active, native, state, posted, missed>>
        BY <1>7 DEF BeginIntent, Idle, Begin, manager
    <2> QED
        BY <2>2, <2>3
<1>8. CASE BeginPosted
    BY <1>8 DEF BeginPosted, Idle, Begin, environment, manager
<1>9. CASE BeginCollect
    <2>1. handler'.task.type = "Collect" /\ handler'.task.networks = networks
        BY <1>9 DEF BeginCollect, Idle, Begin, environment, manager
    <2>2. collected' = networks /\ UNCHANGED <<networks, active, native>>
        BY <1>9 DEF BeginCollect, Idle, Begin, environment, manager
    <2>3. handler' \in Handlers
        BY <1>9 DEF BeginCollect, Idle, Begin, environment, manager, Types,
           QueueTypes, ConnectionTypes, Handlers, Tasks
    <2> QED
        BY <2>1, <2>2, <2>3, NullAssumption
<1>10. CASE UpdateConnection
    BY <1>10 DEF UpdateConnection, Finish, Updates, environment
<1>11. CASE StartConnection
    BY <1>11 DEF StartConnection, Finish, Updates, environment, ConnectedNetworks
<1>12. CASE ConnectFails
    BY <1>12 DEF ConnectFails, Finish, clearConnection, environment
<1>13. CASE Disconnect
    BY <1>13 DEF Disconnect, Finish, clearConnection, environment
<1>14. CASE UpdateWithoutConnection
    BY <1>14 DEF UpdateWithoutConnection, Finish, environment, manager
<1>15. CASE UpdateInterface
    BY <1>15, NullAssumption, Zenon
       DEF UpdateInterface, Finish, clearConnection, environment, manager, Types,
          ConnectionTypes, NativeConnections, ActiveConnections, Option
<1>16. CASE UpdatePacketCapture
    BY <1>16 DEF UpdatePacketCapture, Finish, environment
<1>17. CASE UpdateOther
    BY <1>17 DEF UpdateOther, Finish, environment, manager
<1>18. CASE HandlePosted
    BY <1>18 DEF HandlePosted, Finish, Accepts, environment
<1>19. CASE Collect
    BY <1>19, NullAssumption
       DEF Collect, Finish, environment, Types, ConnectionTypes, NativeConnections,
          ActiveConnections, Option
<1>20. CASE ProcessDies
    BY <1>20 DEF ProcessDies
<1>21. CASE UNCHANGED vars
    BY <1>21 DEF vars
<1> QED
    BY <1>1, <1>2, <1>3, <1>4, <1>5, <1>6, <1>7, <1>8, <1>9, <1>10, <1>11, <1>12,
       <1>13, <1>14, <1>15, <1>16, <1>17, <1>18, <1>19, <1>20, <1>21 DEF Next

\* The last state that was posted is the last one handled.
LEMMA NextShown == Types /\ ReadInv /\ ShownInv /\ [Next]_vars => ShownInv'
<1> SUFFICES ASSUME Types /\ ReadInv /\ ShownInv, [Next]_vars PROVE ShownInv'
    OBVIOUS
<1> USE DEF ShownInv, ReadInv, Handling
<1>1. CASE SendIntent
    BY <1>1 DEF SendIntent, manager
<1>2. CASE NetworkChange
    BY <1>2 DEF NetworkChange, manager
<1>3. CASE PostState
    BY <1>3 DEF PostState, environment
<1>4. CASE OnCreate
    BY <1>4 DEF OnCreate, environment, manager
<1>5. CASE OnRevoke
    BY <1>5 DEF OnRevoke, clearConnection, environment
<1>6. CASE OnDestroy
    BY <1>6 DEF OnDestroy, clearConnection, environment
<1>7. CASE BeginIntent
    <2>1. Head(intents) \in Intents
        BY <1>7 DEF BeginIntent, Idle, Begin, manager, Types, QueueTypes
    <2>2. Head(intents).type \notin {"Posted", "Collect"}
        BY <2>1 DEF Intents
    <2>3. handler = None /\ handler'.task = Head(intents)
          /\ UNCHANGED <<networks, collected, active, native, state, posted, missed>>
        BY <1>7 DEF BeginIntent, Idle, Begin, manager
    <2> QED
        BY <2>2, <2>3
<1>8. CASE BeginPosted
    <2>1. posted \in Seq(PostedStates) /\ posted # <<>> /\ posted' = Tail(posted)
        BY <1>8 DEF BeginPosted, Idle, Begin, environment, manager, Types, QueueTypes
    <2>2. handler' # None
        <3>1. Head(posted) \in PostedStates
            BY <2>1
        <3>2. handler' \in Handlers
            BY <1>8, <3>1 DEF BeginPosted, Idle, Begin, environment, manager, Types,
               ConnectionTypes, Handlers, Tasks
        <3> QED
            BY <3>2, NullAssumption
    <2>3. handler'.task.type = "Posted" /\ handler'.task.state = Head(posted) /\ UNCHANGED <<native, state>>
        BY <1>8 DEF BeginPosted, Idle, Begin, environment, manager
    <2>4. posted' = <<>> => Head(posted) = posted[Len(posted)]
        <3>1. Len(posted') = Len(posted) - 1 /\ Len(posted) \in Nat
            BY <2>1
        <3>2. posted' = <<>> => Len(posted) = 1
            BY <3>1
        <3> QED
            BY <2>1, <3>2
    <2>5. posted' # <<>> => posted'[Len(posted')] = posted[Len(posted)]
        BY <2>1
    <2> QED
        BY <2>1, <2>2, <2>3, <2>4, <2>5
<1>9. CASE BeginCollect
    BY <1>9 DEF BeginCollect, Idle, Begin, environment, manager
<1>10. CASE UpdateConnection
    BY <1>10 DEF UpdateConnection, Finish, Updates, environment
<1>11. CASE StartConnection
    BY <1>11 DEF StartConnection, Finish, Updates, environment, ConnectedNetworks
<1>12. CASE ConnectFails
    BY <1>12 DEF ConnectFails, Finish, clearConnection, environment
<1>13. CASE Disconnect
    BY <1>13 DEF Disconnect, Finish, clearConnection, environment
<1>14. CASE UpdateWithoutConnection
    BY <1>14 DEF UpdateWithoutConnection, Finish, environment, manager
<1>15. CASE UpdateInterface
    BY <1>15, Zenon
       DEF UpdateInterface, Finish, clearConnection, environment, manager, Types,
       ConnectionTypes, NativeConnections, Option
<1>16. CASE UpdatePacketCapture
    BY <1>16 DEF UpdatePacketCapture, Finish, environment
<1>17. CASE UpdateOther
    BY <1>17 DEF UpdateOther, Finish, environment, manager
<1>18. CASE HandlePosted
    BY <1>18 DEF HandlePosted, Finish, Accepts, environment, Types, ConnectionTypes,
       NativeConnections, Option
<1>19. CASE Collect
    BY <1>19 DEF Collect, Finish, environment, Types, ConnectionTypes,
       NativeConnections, Option
<1>20. CASE ProcessDies
    BY <1>20 DEF ProcessDies
<1>21. CASE UNCHANGED vars
    BY <1>21 DEF vars
<1> QED
    BY <1>1, <1>2, <1>3, <1>4, <1>5, <1>6, <1>7, <1>8, <1>9, <1>10, <1>11, <1>12,
       <1>13, <1>14, <1>15, <1>16, <1>17, <1>18, <1>19, <1>20, <1>21 DEF Next

-----------------------------------------------------------------------------
(* Theorems *)

\* The service before its first intent.
LEMMA InitManager == Init => ManagerInv
<1> SUFFICES ASSUME Init PROVE ManagerInv
    OBVIOUS
<1> USE DEF Init
<1>1. QueueTypes
    <2>1. intents \in Seq(Intents) /\ posted \in Seq(PostedStates) /\ Len(posted) <= MaxPosted
        BY BoundsAssumption
    <2>2. sent \in 0..MaxIntents /\ networks \subseteq Networks /\ collected = None
        BY BoundsAssumption
    <2>3. wanted \in BOOLEAN /\ missed \in BOOLEAN
        BY Zenon
    <2> QED
        BY <2>1, <2>2, <2>3 DEF QueueTypes, Option
<1>2. HandlerTypes
    BY DEF HandlerTypes, Option, ManagerState
<1>3. ConnectionTypes
    BY DEF ConnectionTypes, Option
<1>4. ReadInv /\ WantedInv /\ NetworkInv /\ ShownInv
    BY DEF ReadInv, WantedInv, NetworkInv, ShownInv, Handling
<1> QED
    BY <1>1, <1>2, <1>3, <1>4 DEF ManagerInv, Types

\* The lemmas together: the invariant is inductive.
LEMMA ManagerInvariant == Spec => []ManagerInv
<1>1. ManagerInv /\ [Next]_vars => ManagerInv'
    <2> SUFFICES ASSUME ManagerInv, [Next]_vars PROVE ManagerInv'
        OBVIOUS
    <2>1. Types /\ ReadInv /\ WantedInv /\ NetworkInv /\ ShownInv
        BY DEF ManagerInv
    <2>2. QueueTypes' /\ HandlerTypes' /\ ConnectionTypes'
        BY <2>1, NextQueueTypes, NextHandlerTypes, NextConnectionTypes DEF Types
    <2>3. ReadInv' /\ WantedInv' /\ NetworkInv' /\ ShownInv'
        BY <2>1, NextRead, NextWanted, NextNetwork, NextShown
    <2> QED
        BY <2>2, <2>3 DEF ManagerInv, Types
<1> QED
    BY <1>1, InitManager, PTL DEF Spec

\* Types, and that activeConnection and the native connection come and go
\* together, wherever onRevoke comes between the steps of a handler.
THEOREM TypeCorrect == Spec => []TypeOK
<1>1. ManagerInv => TypeOK
    BY DEF ManagerInv, Types, QueueTypes, HandlerTypes, ConnectionTypes, TypeOK
<1> QED
    BY <1>1, ManagerInvariant, PTL

\* A main thread with nothing left to do shows the last state that the running
\* connection has posted, for any number of states in the queue and of
\* connections that were replaced (onProTunStateChange).
THEOREM LastStateIsShown == Spec => []LatestStateShown
<1>1. ManagerInv => LatestStateShown
    BY DEF ManagerInv, ShownInv, Handling, LatestStateShown
<1> QED
    BY <1>1, ManagerInvariant, PTL

\* From Disconnect to the next Connect there is no connection and the state is
\* Disconnected, whatever was posted or collected before (clearConnection).
THEOREM DisconnectLasts == Spec => []DisconnectHolds
<1>1. ManagerInv => DisconnectHolds
    BY DEF ManagerInv, WantedInv, DisconnectHolds
<1> QED
    BY <1>1, ManagerInvariant, PTL

\* A connection knows whether there is a network once the collector has caught
\* up, for any set of networks and any order of their changes (connect, the
\* collector of validatedNetworks).
THEOREM NetworkIsKnown == Spec => []NetworkInSync
<1>1. ManagerInv => NetworkInSync
    BY DEF ManagerInv, Types, ConnectionTypes, NetworkInv, Handling, NetworkInSync
<1> QED
    BY <1>1, ManagerInvariant, PTL
-----------------------------------------------------------------------------
(* What connect applies *)

\* connect compares with the configuration that it gave last, and that is the one
\* in force where no update has changed it.
LEMMA NextConfig ==
    ManagerInv /\ ManagerInv' /\ ConfigInForce /\ [Next]_vars => ConfigInForce'
<1> SUFFICES ASSUME ManagerInv, ManagerInv', ConfigInForce, [Next]_vars, active' # None
             PROVE  /\ "tun" \notin native'.updated => native'.tun = active'.config.interface
                    /\ "pcap" \notin native'.updated => native'.pcap = active'.config.pcap
    BY DEF ConfigInForce
<1>0. /\ active = None <=> native = None
      /\ active \in Option(ActiveConnections) /\ native \in Option(NativeConnections(1..started))
    BY DEF ManagerInv, Types, ConnectionTypes
<1>1. native' # None
    BY DEF ManagerInv, Types, ConnectionTypes
<1>2. CASE UNCHANGED <<active, native>>
    BY <1>2 DEF ConfigInForce
<1>3. CASE PostState
    BY <1>0, <1>3, Zenon DEF PostState, ConfigInForce, NativeConnections, Option
<1>4. CASE Collect
    BY <1>0, <1>2, <1>4, Zenon
       DEF Collect, ConfigInForce, ActiveConnections, NativeConnections, Option
<1>5. CASE UpdateConnection
    <2>1. active # None /\ handler.read = active
        BY <1>5 DEF UpdateConnection, Finish, ManagerInv, ReadInv
    <2>2. active \in ActiveConnections /\ native \in NativeConnections(1..started)
        BY <1>0, <2>1 DEF Option
    <2> QED
        BY <1>0, <1>5, <2>1, <2>2
           DEF UpdateConnection, Changed, CurrentConfig, ConfigInForce,
               ActiveConnections, NativeConnections
<1>6. CASE StartConnection
    BY <1>6 DEF StartConnection
<1>7. CASE UpdateInterface \/ UpdatePacketCapture
    <2>1. CASE UNCHANGED <<active, native>>
        BY <1>2, <2>1
    <2>2. CASE ~UNCHANGED <<active, native>>
        <3>1. native # None /\ UNCHANGED active
            BY <1>0, <1>1, <1>7, <2>2
               DEF UpdateInterface, UpdatePacketCapture, clearConnection, manager
        <3>2. native \in NativeConnections(1..started)
            BY <1>0, <3>1 DEF Option
        <3>3. CASE UpdateInterface
            <4>1. native' = [native EXCEPT !.tun = handler.task.interface,
                                           !.updated = @ \cup {"tun"}]
                BY <1>1, <2>2, <3>3 DEF UpdateInterface, clearConnection, manager
            <4>2. "tun" \in native'.updated /\ native'.pcap = native.pcap
                  /\ ("pcap" \in native.updated => "pcap" \in native'.updated)
                BY <3>2, <4>1 DEF NativeConnections
            <4> QED
                BY <1>0, <3>1, <4>2 DEF ConfigInForce
        <3>4. CASE UpdatePacketCapture
            <4>1. native' = [native EXCEPT !.pcap = handler.task.pcap,
                                           !.updated = @ \cup {"pcap"}]
                BY <3>1, <3>4 DEF UpdatePacketCapture
            <4>2. "pcap" \in native'.updated /\ native'.tun = native.tun
                  /\ ("tun" \in native.updated => "tun" \in native'.updated)
                BY <3>2, <4>1, Zenon DEF NativeConnections
            <4> QED
                BY <1>0, <3>1, <4>2 DEF ConfigInForce
        <3> QED
            BY <1>7, <3>3, <3>4
    <2> QED
        BY <2>1, <2>2
<1>8. \/ UNCHANGED <<active, native>> \/ UNCHANGED vars \/ PostState \/ Collect
      \/ UpdateConnection \/ StartConnection \/ UpdateInterface \/ UpdatePacketCapture
    BY DEF Next, SendIntent, NetworkChange, OnCreate, OnRevoke, OnDestroy, clearConnection,
           BeginIntent, BeginPosted, BeginCollect, ConnectFails, Disconnect,
           UpdateWithoutConnection, UpdateOther, HandlePosted, ProcessDies, manager
<1> QED
    BY <1>2, <1>3, <1>4, <1>5, <1>6, <1>7, <1>8 DEF vars

\* The tun and the capture of the running connection are those of the last
\* connect, through any sequence of connects, updates and revocations, except for
\* what an update has set since (connect compares with currentConfig).
THEOREM LastConnectIsInForce == Spec => []ConfigInForce
<1>1. Init => ConfigInForce
    BY DEF Init, ConfigInForce
<1> QED
    BY <1>1, NextConfig, ManagerInvariant, PTL DEF Spec
=============================================================================
