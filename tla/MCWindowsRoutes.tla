---------------------------- MODULE MCWindowsRoutes ----------------------------
(***************************************************************************)
(* WindowsRoutes with one server of each family and two interfaces; a      *)
(* route to one server through one of them is there from the start.        *)
(***************************************************************************)
EXTENDS WindowsRoutes

CONSTANTS a, b

MetricOf == [i \in Interfaces \cup {Adapter} |-> IF i = Adapter THEN 1 ELSE 25]

ForeignRoute == {[dest |-> a, interface |-> "eth"]}
=============================================================================
