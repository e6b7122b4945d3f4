-------------------------- MODULE WindowsRoutesProofs --------------------------
(***************************************************************************)
(* Proofs about WindowsRoutes, for any servers, interfaces, metrics and    *)
(* routes of other software, and any number of crashes.                    *)
(***************************************************************************)
EXTENDS WindowsRoutes, TLAPS

USE RouteAssumption

\* No route of other software is among those that are recorded or deleted; while
\* recorded routes are deleted, each one that is still there is yet to come, is
\* to be written back, or was not seen.
RoutesInv ==
    /\ TypeOK
    /\ ForeignKept
    /\ RecordedUnlessLost
    /\ created \subseteq ServerRoutes /\ lost \subseteq ServerRoutes
    /\ Foreign \cap registry = {} /\ Foreign \cap created = {}
    /\ pc = "delete" =>
        table \cap ServerRoutes \subseteq Foreign \cup todo \cup reinsert \cup passed \cup lost
    /\ pc # "delete" => reinsert = {}

\* A server route is not a route of the adapter.
LEMMA RoutesDiffer == ServerRoutes \cap AdapterRoutes = {}
BY DEF ServerRoutes, AdapterRoutes, AnyRoute

\* The interface that local_ip_finder chooses is never the adapter.
LEMMA InternetIsNotAdapter ==
    ASSUME TypeOK, NEW family \in Families
    PROVE  InternetInterfaces(family) \subseteq Interfaces
BY DEF InternetInterfaces, get_potential_internet_interfaces, AnyRouteInterfaces, TypeOK

\* At first there are only routes of other software, and nothing is recorded.
LEMMA InitRoutes == Init => RoutesInv
<1> SUFFICES ASSUME Init PROVE RoutesInv
    OBVIOUS
<1>1. TypeOK
    BY DEF Init, TypeOK, ServerRoutes
<1>2. ForeignKept /\ RecordedUnlessLost
    BY DEF Init, ForeignKept, RecordedUnlessLost
<1> QED
    BY <1>1, <1>2 DEF Init, RoutesInv

\* Every step, a crash or a restart included, keeps the invariant.
LEMMA NextRoutes == RoutesInv /\ [Next]_vars => RoutesInv'
<1> SUFFICES ASSUME RoutesInv, [Next]_vars PROVE RoutesInv'
    OBVIOUS
<1> USE RoutesDiffer
<1> USE DEF RoutesInv, TypeOK, ForeignKept, RecordedUnlessLost
<1>1. CASE Connect
    BY <1>1 DEF Connect, AddAdapterRoutes, AdapterRoutes, AnyRoute, Ips
<1>2. CASE CreateServerRoutes
    <2>1. PICK chosen \in [Families -> Option(Interfaces \cup {Adapter})] :
            /\ \A family \in Families :
                IF InternetInterfaces(family) = {} THEN chosen[family] = None
                ELSE chosen[family] \in InternetInterfaces(family)
            /\ todo' = {[dest |-> ip, interface |-> chosen[Family(ip)]] :
                            ip \in {s \in server_ips : chosen[Family(s)] # None}}
        BY <1>2, Zenon DEF CreateServerRoutes
    <2>2. \A family \in Families : chosen[family] # None => chosen[family] \in Interfaces
        BY <2>1, InternetIsNotAdapter
    <2>3. \A ip \in Ips : Family(ip) \in Families
        BY DEF Family, Families
    <2>4. todo' \subseteq ServerRoutes
        BY <2>1, <2>2, <2>3 DEF ServerRoutes
    <2> QED
        BY <1>2, <2>4 DEF CreateServerRoutes, get_created_routes
<1>3. CASE CreateFails
    BY <1>3 DEF CreateFails, Closed
<1>4. CASE AddServerRoute
    <2>1. PICK r \in todo :
            /\ todo' = todo \ {r}
            /\ \/ table' = table \cup {r} /\ created' = Recorded(r) /\ UNCHANGED lost
               \/ /\ r \notin table /\ table' = table \cup {r}
                  /\ lost' = lost \cup {r} /\ UNCHANGED created
               \/ UNCHANGED <<table, created, lost>>
        BY <1>4 DEF AddServerRoute
    <2>2. r \in ServerRoutes
        OBVIOUS
    <2> QED
        BY <1>4, <2>1, <2>2 DEF AddServerRoute, Recorded, ServerRoutes
<1>5. CASE RecordRoutes
    BY <1>5 DEF RecordRoutes, set_created_routes
<1>6. CASE StartSession
    BY <1>6 DEF StartSession, localVars
<1>7. CASE StartFails
    BY <1>7 DEF StartFails, Closed
<1>8. CASE DropSession
    BY <1>8 DEF DropSession, DeleteAdapterRoutes, get_created_routes
<1>9. CASE DeleteRoutes
    BY <1>9 DEF DeleteRoutes, get_created_routes
<1>10. CASE DeleteCreatedRoute
    BY <1>10 DEF DeleteCreatedRoute, Reinserted
<1>11. CASE DeleteDone
    BY <1>11 DEF DeleteDone, set_created_routes, Closed
<1>12. CASE Crash
    BY <1>12 DEF Crash, Ended, Closed
<1>13. CASE Reboot
    BY <1>13 DEF Reboot, Ended, ServerRoutes
<1>14. CASE NetworkChange
    BY <1>14 DEF NetworkChange, localVars
<1>15. CASE UNCHANGED vars
    BY <1>15 DEF vars, localVars
<1> QED
    BY <1>1, <1>2, <1>3, <1>4, <1>5, <1>6, <1>7, <1>8, <1>9, <1>10, <1>11,
       <1>12, <1>13, <1>14, <1>15 DEF Next

\* The invariant holds in every reachable state.
LEMMA RoutesInvariant == Spec => []RoutesInv
BY InitRoutes, NextRoutes, PTL DEF Spec

\* Deleting recorded routes never takes one of other software, through any
\* sequence of sessions, failures and crashes.
THEOREM ForeignRoutesAreKept == Spec => []ForeignKept
<1>1. RoutesInv => ForeignKept
    BY DEF RoutesInv
<1> QED
    BY <1>1, RoutesInvariant, PTL

\* A created route that is still there can be found in the registry, unless
\* Routes::create could not record it, or a later session that failed to read or
\* deserialize its record overwrote it.
THEOREM CreatedRoutesAreRecorded == Spec => []RecordedUnlessLost
<1>1. RoutesInv => RecordedUnlessLost
    BY DEF RoutesInv
<1> QED
    BY <1>1, RoutesInvariant, PTL

=============================================================================
