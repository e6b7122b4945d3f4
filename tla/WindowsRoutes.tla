----------------------------- MODULE WindowsRoutes -----------------------------
(***************************************************************************)
(* The routes of a connection on Windows.  WinTunSession::create adds      *)
(* routes to the tunnel adapter, and for each server a route through the   *)
(* interface that leads to the internet                                    *)
(* (src/src/connection/windows/helpers/routes.rs).  Server routes outlive  *)
(* the process, so the ones that were created are recorded in the registry *)
(* and deleted from there when the session is dropped, or by               *)
(* ProTun::delete_routes at a later start.                                 *)
(*                                                                         *)
(* One session is open at a time, and delete_routes is called while there  *)
(* is none.  The process can die between any two calls of the system.      *)
(* Reading and writing the registry can fail, and so can the conversion of *)
(* a route to its record and back.                                         *)
(***************************************************************************)
EXTENDS Optional, Naturals

CONSTANTS
    V4Ips, V6Ips,   \* addresses of VPN servers
    Interfaces,     \* network interfaces other than the adapter
    Metric,         \* effective_metric: of the interface and its any route
    Foreign         \* routes that other software has set up

Adapter == "ProTUN"
Families == {"v4", "v6"}
Ips == V4Ips \cup V6Ips
Family(ip) == IF ip \in V4Ips THEN "v4" ELSE "v6"

ServerRoutes == [dest : Ips, interface : Interfaces]

\* create_ipv4_any_route, create_ipv6_any_route.  The routes to the local agent
\* come and go with them, and no code looks at them.
AnyRoute(family) == [dest |-> family, interface |-> Adapter]

AdapterRoutes == {AnyRoute(family) : family \in Families}

ASSUME RouteAssumption ==
    /\ Adapter \notin Interfaces \cup {None}
    /\ Ips \cap Families = {}
    /\ Metric \in [Interfaces \cup {Adapter} -> Nat]
    /\ Foreign \subseteq ServerRoutes

VARIABLES
    table,      \* the routing table of the system, without its any routes
    online,     \* for each family the interfaces that are up, with an address
                \* and an any route
    registry,   \* the value RoutingTable of the ProTUN key
    pc, server_ips, todo, created, reinsert,    \* the session
    passed,     \* records that this session did not see: it could not read or
                \* deserialize them
    lost        \* created routes whose record was never written, or overwritten
                \* by a session that had not seen it

localVars == <<server_ips, todo, created, reinsert>>
vars == <<table, online, registry, pc, localVars, passed, lost>>
-----------------------------------------------------------------------------
(* local_ip_finder.rs *)

\* Interfaces with an any route; the adapter has the one of this session.
AnyRouteInterfaces(family) ==
    online[family] \cup (IF AnyRoute(family) \in table THEN {Adapter} ELSE {})

get_potential_internet_interfaces(family) == AnyRouteInterfaces(family) \ {Adapter}

\* The interfaces of lowest effective metric; of several, any can come first.
InternetInterfaces(family) ==
    LET potential == get_potential_internet_interfaces(family)
    IN  {i \in potential : \A j \in potential : Metric[i] <= Metric[j]}

\* get_internet_interfaces returns an error when there is none at all.
NoInternet == \A family \in Families : get_potential_internet_interfaces(family) = {}
-----------------------------------------------------------------------------
(* Creating the routes *)

\* External: closing the adapter takes its routes with it.
Closed(routes) == routes \ AdapterRoutes

Init ==
    /\ table = Foreign /\ registry = {}
    /\ online \in [Families -> SUBSET Interfaces]
    /\ pc = "down" /\ server_ips = {} /\ todo = {} /\ created = {} /\ reinsert = {}
    /\ passed = {} /\ lost = {}

\* The adapter's routes in Routes::create; those of IPv6 if its address could be
\* set.  Outcomes of add_v4_route and add_v6_route are ignored; one step, as a
\* crash undoes it whole.
AddAdapterRoutes == \E added \in SUBSET AdapterRoutes : table' = table \cup added

\* WinTunSession::create for the servers of the configuration.
Connect ==
    /\ pc = "down" /\ pc' = "adapter_routes"
    /\ server_ips' \in SUBSET Ips
    /\ AddAdapterRoutes
    /\ UNCHANGED <<online, registry, todo, created, reinsert, passed, lost>>

\* What the registry holds, or nothing when the key or the value cannot be read.
get_created_routes == {registry, {}}

\* get_created_routes, then create_server_routes: a route for each server whose
\* family has an internet interface.
CreateServerRoutes ==
    /\ pc = "adapter_routes" /\ ~NoInternet
    /\ pc' = "server_routes"
    /\ created' \in get_created_routes
    /\ passed' = registry \ created'
    /\ \E chosen \in [Families -> Option(Interfaces \cup {Adapter})] :
        /\ \A family \in Families :
            IF InternetInterfaces(family) = {} THEN chosen[family] = None
            ELSE chosen[family] \in InternetInterfaces(family)
        /\ todo' = {[dest |-> ip, interface |-> chosen[Family(ip)]] :
                        ip \in {s \in server_ips : chosen[Family(s)] # None}}
    /\ UNCHANGED <<table, online, registry, server_ips, reinsert, lost>>

\* create_server_routes fails, and with it WinTunSession::create: there is no
\* internet interface, or the tables of the system cannot be read.
CreateFails ==
    /\ pc = "adapter_routes"
    /\ pc' = "down"
    /\ table' = Closed(table)
    /\ server_ips' = {}
    /\ UNCHANGED <<online, registry, todo, created, reinsert, passed, lost>>

\* Mutant: a route that was there already is recorded too.
Recorded_already_existing(r) == created \cup {r}

\* The created routes after add_route(r): with r if it was not there already.
Recorded(r) == IF r \in table THEN created ELSE created \cup {r}

\* add_route succeeds or finds the route; or it creates it and the route cannot
\* be serialized; or it fails.  The last two are only logged.
AddServerRoute ==
    /\ pc = "server_routes"
    /\ \E r \in todo :
        /\ todo' = todo \ {r}
        /\ \/ table' = table \cup {r} /\ created' = Recorded(r) /\ UNCHANGED lost
           \/ /\ r \notin table /\ table' = table \cup {r}
              /\ lost' = lost \cup {r} /\ UNCHANGED created
           \/ UNCHANGED <<table, created, lost>>
    /\ UNCHANGED <<online, registry, pc, server_ips, reinsert, passed>>

\* set_created_routes overwrites what the registry holds; a failed write is only
\* logged.
set_created_routes(routes) ==
    \/ registry' = routes /\ lost' = lost \cup (passed \ routes)
    \/ UNCHANGED registry /\ lost' = lost \cup ((created \cap table) \ registry)

RecordRoutes ==
    /\ pc = "server_routes" /\ todo = {}
    /\ pc' = "start"
    /\ set_created_routes(created)
    /\ created' = {} /\ passed' = {}
    /\ UNCHANGED <<table, online, server_ips, todo, reinsert>>

StartSession ==
    /\ pc = "start" /\ pc' = "active"
    /\ UNCHANGED <<table, online, registry, localVars, passed, lost>>

\* start_session fails: the adapter is closed, the server routes stay.
StartFails ==
    /\ pc = "start" /\ pc' = "down"
    /\ table' = Closed(table)
    /\ server_ips' = {}
    /\ UNCHANGED <<online, registry, todo, created, reinsert, passed, lost>>
-----------------------------------------------------------------------------
(* Deleting the routes *)

\* routing_table::delete_routes of the adapter: each deletion can fail.
DeleteAdapterRoutes ==
    \E deleted \in SUBSET (table \cap AdapterRoutes) : table' = table \ deleted

\* Drop for WinTunSession: Routes::delete as far as get_created_routes.
DropSession ==
    /\ pc = "active" /\ pc' = "delete"
    /\ DeleteAdapterRoutes
    /\ todo' \in get_created_routes
    /\ passed' = registry \ todo'
    /\ UNCHANGED <<online, registry, server_ips, created, reinsert, lost>>

\* ProTun::delete_routes.
DeleteRoutes ==
    /\ pc = "down" /\ pc' = "delete"
    /\ todo' \in get_created_routes
    /\ passed' = registry \ todo'
    /\ UNCHANGED <<table, online, registry, server_ips, created, reinsert, lost>>

\* Mutant: a route that could not be deleted is forgotten.
Reinserted_never(r) == reinsert

\* What is written back after delete_route(r) failed.
Reinserted(r) == reinsert \cup {r}

\* delete_route: deleted or not found, or an error.  A record that cannot be
\* deserialized is neither deleted nor written back.
DeleteCreatedRoute ==
    /\ pc = "delete"
    /\ \E r \in todo :
        /\ todo' = todo \ {r}
        /\ \/ table' = table \ {r} /\ UNCHANGED <<reinsert, passed>>
           \/ reinsert' = Reinserted(r) /\ UNCHANGED <<table, passed>>
           \/ passed' = passed \cup {r} /\ UNCHANGED <<table, reinsert>>
    /\ UNCHANGED <<online, registry, pc, server_ips, created, lost>>

\* set_created_routes(routes_to_reinsert), and the end of the session, if there
\* was one.
DeleteDone ==
    /\ pc = "delete" /\ todo = {}
    /\ pc' = "down"
    /\ set_created_routes(reinsert)
    /\ table' = Closed(table)
    /\ server_ips' = {} /\ reinsert' = {} /\ passed' = {}
    /\ UNCHANGED <<online, todo, created>>
-----------------------------------------------------------------------------
(* The environment *)

Ended ==
    /\ pc' = "down"
    /\ server_ips' = {} /\ todo' = {} /\ created' = {} /\ reinsert' = {}
    /\ passed' = {}
    /\ UNCHANGED <<online, registry>>

\* The process dies.
Crash ==
    /\ pc # "down"
    /\ Ended
    /\ table' = Closed(table)
    /\ lost' = lost \cup ((created \cap table) \ registry)

\* The system restarts: routes that are not persistent are gone.
Reboot == Ended /\ table' = Foreign /\ lost' = {}

NetworkChange ==
    /\ online' \in [Families -> SUBSET Interfaces]
    /\ UNCHANGED <<table, registry, pc, localVars, passed, lost>>

Next ==
    \/ Connect \/ CreateServerRoutes \/ CreateFails
    \/ AddServerRoute \/ RecordRoutes \/ StartSession \/ StartFails
    \/ DropSession \/ DeleteRoutes \/ DeleteCreatedRoute \/ DeleteDone
    \/ Crash \/ Reboot \/ NetworkChange

Spec == Init /\ [][Next]_vars
-----------------------------------------------------------------------------
(* Properties *)

\* Types, and what the session works on: what it read of the records stays among
\* the created routes while new ones are added, and only recorded routes are
\* deleted.
TypeOK ==
    /\ table \subseteq [dest : Ips, interface : Interfaces \cup {Adapter}] \cup AdapterRoutes
    /\ online \in [Families -> SUBSET Interfaces]
    /\ registry \subseteq ServerRoutes
    /\ pc \in {"down", "adapter_routes", "server_routes", "start", "active", "delete"}
    /\ server_ips \subseteq Ips
    /\ todo \subseteq ServerRoutes /\ reinsert \subseteq registry
    /\ pc = "delete" => todo \subseteq registry
    /\ IF pc = "server_routes" THEN registry \subseteq created \cup passed ELSE created = {}
    /\ passed \subseteq registry
    /\ pc \notin {"server_routes", "delete"} => passed = {}

\* Routes of other software are never deleted, even those that a session needed
\* and found in place (Routes::create records only what add_route created).
ForeignKept == Foreign \subseteq table

\* A server route that was created and is still there is in the registry, or
\* about to be, however deletions fail (routes_to_reinsert), wherever the process
\* dies, and however many sessions follow.  The exceptions are the routes that
\* Routes::create could not record (the process died, the route could not be
\* serialized, or the write failed), and the records that set_created_routes
\* overwrote after get_created_routes or from_str had failed on them.
RecordedUnlessLost ==
    table \cap ServerRoutes \subseteq Foreign \cup registry \cup created \cup lost
=============================================================================
