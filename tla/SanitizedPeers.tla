---------------------------- MODULE SanitizedPeers ----------------------------
(***************************************************************************)
(* Candidate peers: SanitizedPeers::from                                   *)
(* (src/src/connection/sanitized_peers.rs), which drops all but one peer   *)
(* of each entry IP, and the conversion of a PeerInfo to the Peer handed   *)
(* to pvpnclient (src/src/connection/util.rs).                             *)
(*                                                                         *)
(* A PeerInfo is a record [peer_id, server_ip, priority]; keys, ports and  *)
(* label are part of peer_id, since the code only compares whole peers.    *)
(***************************************************************************)
EXTENDS Integers, Sequences

\* A Vec<PeerInfo>; the priorities are the i32 of PeerInfo.
PeerList(list) ==
    /\ Len(list) \in Nat /\ DOMAIN list = 1..Len(list)
    /\ \A i \in DOMAIN list : list[i].priority \in Int

PeerSet(list) == {list[i] : i \in DOMAIN list}

\* Mutant: on equal priorities the later peer replaces the earlier one.
ScanPeer_last_wins(list, s, i) ==
    LET same == {b \in s.best : list[b].server_ip = list[i].server_ip}
    IN  IF \E b \in same : list[i].priority > list[b].priority
        THEN [s EXCEPT !.duplicates = @ \cup {i}]
        ELSE [best |-> (s.best \ same) \cup {i}, duplicates |-> s.duplicates \cup same]

\* One peer in the first loop of from: s.best is best_peer_for_ip (the index of
\* the best peer seen so far for each IP), s.duplicates is duplicates_idx.
ScanPeer(list, s, i) ==
    LET same == {b \in s.best : list[b].server_ip = list[i].server_ip}
    IN  IF \E b \in same : list[i].priority >= list[b].priority
        THEN [s EXCEPT !.duplicates = @ \cup {i}]
        ELSE [best |-> (s.best \ same) \cup {i}, duplicates |-> s.duplicates \cup same]

Scan(list) ==
    LET scan[i \in 0..Len(list)] ==
          IF i = 0 THEN [best |-> {}, duplicates |-> {}] ELSE ScanPeer(list, scan[i - 1], i)
    IN  scan[Len(list)]

\* The second loop: the peers that are not duplicates, in their order.
Keep(list, duplicates) ==
    LET result[i \in 0..Len(list)] ==
          IF i = 0 THEN <<>>
          ELSE IF i \in duplicates THEN result[i - 1] ELSE Append(result[i - 1], list[i])
    IN  result[Len(list)]

\* SanitizedPeers::from.
from(list) == Keep(list, Scan(list).duplicates)

\* The cast `priority as i16` keeps the low 16 bits.
AsI16(n) == ((n + 2^15) % 2^16) - 2^15

\* PeerInfo::as_peer: the client's Peer, addressed by its entry IP.
as_peer(p) == [tag |-> p.peer_id, addr |-> p.server_ip, priority |-> AsI16(p.priority)]
-----------------------------------------------------------------------------
\* What from is to return, without a scan.  Of the first n peers of the list, no
\* peer of i's entry IP has a lower number, and none with the same comes first.
Best(list, n, i) ==
    \A j \in 1..n :
        list[j].server_ip = list[i].server_ip =>
            \/ list[i].priority < list[j].priority
            \/ list[i].priority = list[j].priority /\ i <= j

\* result has the peers of list at the given indices, in their order.
Selects(result, list, indices) ==
    \E at \in [1..Len(result) -> indices] :
        /\ \A i \in indices : \E k \in 1..Len(result) : at[k] = i
        /\ \A k, l \in 1..Len(result) : k < l => at[k] < at[l]
        /\ \A k \in 1..Len(result) : result[k] = list[at[k]]

\* The peers that from is to keep.
BestPeers(list) == {i \in 1..Len(list) : Best(list, Len(list), i)}

OnePerIp(list) == \A p, q \in PeerSet(list) : p.server_ip = q.server_ip => p = q
=============================================================================
