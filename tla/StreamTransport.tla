---------------------------- MODULE StreamTransport ----------------------------
(***************************************************************************)
(* What the traits Stream and Streams (src/src/connection/streams.rs)      *)
(* promise to the connection thread, whatever the platform: the bytes a    *)
(* stream accepts leave it once, in the order in which they were accepted, *)
(* as long as it is open; what arrives is handed over in order.            *)
(*                                                                         *)
(* Buffers, readiness and the poll are not seen here.  The bytes of a      *)
(* stream are numbered from 1 as they are accepted.                        *)
(***************************************************************************)
EXTENDS Naturals, Sequences

CONSTANTS Ids, MaxChunk, Data

VARIABLES
    open,       \* the streams there are
    queue,      \* bytes accepted that have not left
    wire,       \* bytes that have left
    inbox       \* payloads that have arrived and were not handed over

vars == <<open, queue, wire, inbox>>

Init ==
    /\ open \subseteq Ids
    /\ queue = [s \in Ids |-> <<>>] /\ wire = queue /\ inbox = queue

\* The stream s as good as new, in the table or not.
Renew(s) ==
    /\ open' \in {open \cup {s}, open \ {s}}
    /\ queue' = [queue EXCEPT ![s] = <<>>]
    /\ wire' = [wire EXCEPT ![s] = <<>>]
    /\ inbox' = [inbox EXCEPT ![s] = <<>>]

Accept(s) ==
    /\ s \in open
    /\ \E n \in 1..MaxChunk :
        LET first == Len(wire[s]) + Len(queue[s])
        IN  queue' = [queue EXCEPT ![s] = @ \o [i \in 1..n |-> first + i]]
    /\ UNCHANGED <<open, wire, inbox>>

Transmit(s) ==
    /\ s \in open
    /\ \E n \in 1..Len(queue[s]) :
        /\ wire' = [wire EXCEPT ![s] = @ \o SubSeq(queue[s], 1, n)]
        /\ queue' = [queue EXCEPT ![s] = SubSeq(@, n + 1, Len(@))]
    /\ UNCHANGED <<open, inbox>>

Arrive(s) ==
    /\ s \in open
    /\ \E payload \in Data : inbox' = [inbox EXCEPT ![s] = Append(@, payload)]
    /\ UNCHANGED <<open, queue, wire>>

HandOver(s) ==
    /\ s \in open /\ inbox[s] # <<>>
    /\ inbox' = [inbox EXCEPT ![s] = Tail(@)]
    /\ UNCHANGED <<open, queue, wire>>

\* A connection that is reset takes with it what had arrived.
Reset(s) ==
    /\ s \in open
    /\ inbox' = [inbox EXCEPT ![s] = <<>>]
    /\ UNCHANGED <<open, queue, wire>>

Step(s) == Renew(s) \/ Accept(s) \/ Transmit(s) \/ Arrive(s) \/ HandOver(s) \/ Reset(s)

Next == \E s \in Ids : Step(s)

Spec == Init /\ [][Next]_vars
=============================================================================
