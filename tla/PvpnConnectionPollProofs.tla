----------------------- MODULE PvpnConnectionPollProofs -----------------------
(***************************************************************************)
(* What holds whenever the connection thread blocks in poll_from_streams:  *)
(* the client has the configuration of the application, the state that was *)
(* reported is the one get_peer_connection_state would compute now, and    *)
(* the timeout does not pass the delayed network change.                   *)
(*                                                                         *)
(* The client's peers can be kept by their entry IP only because           *)
(* SanitizedPeers::from leaves one peer of each, so its loops come first.  *)
(* They are recursive functions: each is shown to have the closed form     *)
(* that its invariant gives, by taking the first round where it has not.   *)
(***************************************************************************)
EXTENDS PvpnConnectionProofs, WellFoundedInduction

\* A set of naturals that is not empty has a least element.
LEMMA LeastElement ==
    ASSUME NEW S \in SUBSET Nat, S # {}
    PROVE  \E m \in S : \A k \in S : m <= k
<1> DEFINE R == OpToRel(<, Nat)
<1>1. IsWellFoundedOn(R, Nat)
    BY NatLessThanWellFounded, Zenon
<1>2. \A k, m \in Nat : k < m => <<k, m>> \in R
    BY Zenon DEF OpToRel
<1> HIDE DEF R
<1>3. PICK m \in S : \A k \in S : <<k, m>> \notin R
    BY <1>1, WFMin, Zenon
<1>4. \A k \in S : ~(k < m)
    BY <1>2, <1>3, Zenon
<1> QED
    BY <1>3, <1>4

-----------------------------------------------------------------------------
(* The first loop *)

\* Among the first n peers every entry IP has a best one.
LEMMA BestExists ==
    ASSUME NEW list, PeerList(list), NEW n \in 0..Len(list), NEW i \in 1..n
    PROVE  \E b \in 1..n : list[b].server_ip = list[i].server_ip /\ Best(list, n, b)
<1> DEFINE
      HasBest(m, j) == \E b \in 1..m : list[b].server_ip = list[j].server_ip /\ Best(list, m, b)
      Bad == {m \in 0..Len(list) : \E j \in 1..m : ~HasBest(m, j)}
<1>1. SUFFICES ASSUME Bad # {} PROVE FALSE
    OBVIOUS
<1>2. PICK m \in Bad : \A k \in Bad : m <= k
    <2>1. Bad \in SUBSET Nat
        BY DEF PeerList
    <2> QED
        BY <1>1, <2>1, LeastElement, Zenon
<1>3. PICK j \in 1..m : ~HasBest(m, j)
    BY <1>2
<1>4. m \in 1..Len(list) /\ m - 1 \in 0..Len(list) /\ m \in Nat /\ Len(list) \in Nat
    BY <1>2, <1>3 DEF PeerList
<1>5. \A k \in 1..(m - 1) : HasBest(m - 1, k)
    <2>1. ~(m <= m - 1)
        BY <1>4
    <2>2. m - 1 \notin Bad
        BY <1>2, <2>1, Zenon
    <2> HIDE DEF HasBest
    <2> QED
        BY <1>4, <2>2
<1>6. \A k \in 1..m : list[k].priority \in Int /\ (k \in 1..(m - 1) \/ k = m)
    BY <1>4 DEF PeerList
<1>7. CASE \E k \in 1..(m - 1) : list[k].server_ip = list[j].server_ip
    <2>1. PICK b \in 1..(m - 1) : list[b].server_ip = list[j].server_ip /\ Best(list, m - 1, b)
        BY <1>5, <1>7
    <2>2. CASE list[m].server_ip = list[j].server_ip /\ list[m].priority < list[b].priority
        <3>1. ASSUME NEW k \in 1..m, list[k].server_ip = list[m].server_ip
              PROVE  list[m].priority < list[k].priority \/ k = m
            <4>1. k \in 1..(m - 1) => list[b].priority <= list[k].priority
                BY <1>4, <1>6, <2>1, <2>2, <3>1 DEF Best
            <4> QED
                BY <1>4, <1>6, <2>1, <2>2, <4>1
        <3>2. Best(list, m, m)
            <4>1. m <= m /\ list[m].priority = list[m].priority
                BY <1>4
            <4> QED
                BY <3>1, <4>1, Zenon DEF Best
        <3> QED
            BY <1>3, <1>4, <2>2, <3>2
    <2>3. CASE ~(list[m].server_ip = list[j].server_ip /\ list[m].priority < list[b].priority)
        <3>1. ASSUME NEW k \in 1..m, list[k].server_ip = list[b].server_ip
              PROVE  list[b].priority < list[k].priority
                     \/ (list[b].priority = list[k].priority /\ b <= k)
            <4>1. CASE k \in 1..(m - 1)
                BY <2>1, <3>1, <4>1 DEF Best
            <4>2. CASE k = m
                BY <1>4, <1>6, <2>1, <2>3, <3>1, <4>2
            <4> QED
                BY <1>6, <4>1, <4>2
        <3>2. Best(list, m, b)
            BY <3>1, Zenon DEF Best
        <3> QED
            BY <1>3, <1>4, <2>1, <3>2
    <2> QED
        BY <2>2, <2>3
<1>8. CASE ~\E k \in 1..(m - 1) : list[k].server_ip = list[j].server_ip
    <2>1. j = m
        BY <1>3, <1>4, <1>8
    <2>2. \A k \in 1..m : list[k].server_ip = list[m].server_ip => k = m
        BY <1>6, <1>8, <2>1
    <2>3. Best(list, m, m)
        BY <1>4, <1>6, <2>2 DEF Best
    <2> QED
        BY <1>3, <1>4, <2>1, <2>3
<1> QED
    BY <1>7, <1>8

\* What the loop has found after n peers.
Scanned(list, n) ==
    [best |-> {i \in 1..n : Best(list, n, i)},
     duplicates |-> {i \in 1..n : ~Best(list, n, i)}]

\* One more peer: it is a duplicate, or it takes the place of the best one.
LEMMA ScanRound ==
    ASSUME NEW list, PeerList(list), NEW n \in 1..Len(list)
    PROVE  ScanPeer(list, Scanned(list, n - 1), n) = Scanned(list, n)
<1> DEFINE
      s == Scanned(list, n - 1)
      same == {b \in s.best : list[b].server_ip = list[n].server_ip}
      loses == \E b \in same : list[n].priority >= list[b].priority
<1>1. n \in Nat /\ n - 1 \in 0..Len(list) /\ Len(list) \in Nat
    BY DEF PeerList
<1>2. \A k \in 1..n : list[k].priority \in Int /\ (k \in 1..(n - 1) \/ k = n)
    BY <1>1 DEF PeerList
<1>3. /\ \A i : i \in s.best <=> i \in 1..(n - 1) /\ Best(list, n - 1, i)
      /\ \A i : i \in s.duplicates <=> i \in 1..(n - 1) /\ ~Best(list, n - 1, i)
    BY DEF Scanned
<1>4. \A b : b \in same <=> b \in s.best /\ list[b].server_ip = list[n].server_ip
    OBVIOUS
<1> HIDE DEF s, same
\* Peers of another IP are as good as before.
<1>5. ASSUME NEW i \in 1..(n - 1), list[i].server_ip # list[n].server_ip
      PROVE  Best(list, n, i) <=> Best(list, n - 1, i)
    <2>1. \A k \in 1..(n - 1) : k \in 1..n
        BY <1>1
    <2>2. \A k \in 1..n : list[k].server_ip = list[i].server_ip => k \in 1..(n - 1)
        BY <1>2, <1>5, Zenon
    <2> QED
        BY <2>1, <2>2, Zenon DEF Best
\* A peer that is the best of the first n was so before.
<1>6. ASSUME NEW i \in 1..(n - 1), Best(list, n, i)
      PROVE  Best(list, n - 1, i)
    BY <1>1, <1>6 DEF Best
<1>7. CASE loses
    <2>1. PICK b \in same : list[n].priority >= list[b].priority
        BY <1>7
    <2>2. b \in 1..(n - 1) /\ Best(list, n - 1, b) /\ list[b].server_ip = list[n].server_ip
        BY <1>3, <1>4, <2>1
    <2>3. ~Best(list, n, n)
        BY <1>1, <1>2, <2>1, <2>2 DEF Best
    <2>4. ASSUME NEW i \in 1..(n - 1), Best(list, n - 1, i)
          PROVE  Best(list, n, i)
        <3>1. CASE list[i].server_ip = list[n].server_ip
            <4>1. list[i].priority <= list[n].priority
                BY <1>1, <1>2, <2>1, <2>2, <2>4, <3>1 DEF Best
            <4>2. ASSUME NEW k \in 1..n, list[k].server_ip = list[i].server_ip
                  PROVE  list[i].priority < list[k].priority
                         \/ (list[i].priority = list[k].priority /\ i <= k)
                <5>1. CASE k \in 1..(n - 1)
                    BY <2>4, <4>2, <5>1 DEF Best
                <5>2. CASE k = n
                    BY <1>1, <1>2, <4>1, <5>2
                <5> QED
                    BY <1>2, <5>1, <5>2
            <4> QED
                BY <4>2, Zenon DEF Best
        <3> QED
            BY <1>5, <2>4, <3>1
    <2>5. s.best = {i \in 1..n : Best(list, n, i)}
        BY <1>1, <1>2, <1>3, <1>6, <2>3, <2>4
    <2>6. s.duplicates \cup {n} = {i \in 1..n : ~Best(list, n, i)}
        BY <1>1, <1>2, <1>3, <1>6, <2>3, <2>4
    <2>7. ScanPeer(list, s, n) = [best |-> s.best, duplicates |-> s.duplicates \cup {n}]
        BY <1>7, Zenon DEF ScanPeer, same, s, Scanned
    <2> QED
        BY <2>5, <2>6, <2>7, Zenon DEF s, Scanned
<1>8. CASE ~loses
    <2>1. \A b \in same : list[n].priority < list[b].priority
        BY <1>1, <1>2, <1>3, <1>4, <1>8
    <2>2. Best(list, n, n)
        <3>1. ASSUME NEW k \in 1..(n - 1), list[k].server_ip = list[n].server_ip
              PROVE  list[n].priority < list[k].priority
            <4>1. PICK b \in 1..(n - 1) :
                    list[b].server_ip = list[k].server_ip /\ Best(list, n - 1, b)
                BY <1>1, BestExists, Zenon
            <4>2. list[n].priority < list[b].priority
                BY <1>3, <1>4, <2>1, <3>1, <4>1
            <4>3. list[b].priority < list[k].priority \/ list[b].priority = list[k].priority
                BY <4>1, Zenon DEF Best
            <4> QED
                BY <1>1, <1>2, <4>2, <4>3
        <3>2. n <= n /\ list[n].priority = list[n].priority
            BY <1>1
        <3> QED
            BY <1>2, <3>1, <3>2, Zenon DEF Best
    <2>3. ASSUME NEW i \in 1..(n - 1)
          PROVE  Best(list, n, i) <=> i \in s.best \ same
        <3>1. CASE list[i].server_ip # list[n].server_ip
            BY <1>3, <1>4, <1>5, <3>1
        <3>2. CASE list[i].server_ip = list[n].server_ip /\ i \in same
            <4>1. list[n].priority < list[i].priority
                BY <2>1, <3>2
            <4>2. ~Best(list, n, i)
                BY <1>1, <1>2, <3>2, <4>1 DEF Best
            <4> QED
                BY <3>2, <4>2
        <3>3. CASE list[i].server_ip = list[n].server_ip /\ i \notin same
            BY <1>3, <1>4, <1>6, <3>3
        <3> QED
            BY <3>1, <3>2, <3>3
    <2>4. (s.best \ same) \cup {n} = {i \in 1..n : Best(list, n, i)}
        BY <1>1, <1>2, <1>3, <2>2, <2>3
    <2>5. s.duplicates \cup same = {i \in 1..n : ~Best(list, n, i)}
        BY <1>1, <1>2, <1>3, <1>4, <2>2, <2>3
    <2>6. ScanPeer(list, s, n) =
            [best |-> (s.best \ same) \cup {n}, duplicates |-> s.duplicates \cup same]
        BY <1>8 DEF ScanPeer, same
    <2> QED
        BY <2>4, <2>5, <2>6, Zenon DEF s, Scanned
<1> QED
    BY <1>7, <1>8

\* The result of the first loop.
LEMMA ScanResult ==
    ASSUME NEW list, PeerList(list)
    PROVE  Scan(list) = Scanned(list, Len(list))
<1> DEFINE
      none == [best |-> {}, duplicates |-> {}]
      Loop(f) == f = [i \in 0..Len(list) |->
                        IF i = 0 THEN none ELSE ScanPeer(list, f[i - 1], i)]
      scan == CHOOSE f : Loop(f)
      closed == [i \in 0..Len(list) |-> Scanned(list, i)]
<1>1. Len(list) \in Nat
    BY DEF PeerList
<1>2. Scanned(list, 0) = none
    BY DEF Scanned
<1>3. ASSUME NEW i \in 0..Len(list), i # 0
      PROVE  i \in 1..Len(list) /\ i - 1 \in 0..Len(list) /\ ~(i <= i - 1)
    BY <1>1, <1>3
<1>4. Loop(closed)
    <2>1. ASSUME NEW i \in 0..Len(list)
          PROVE  Scanned(list, i) = IF i = 0 THEN none ELSE ScanPeer(list, closed[i - 1], i)
        BY <1>2, <1>3, ScanRound
    <2> QED
        BY <2>1, Zenon
<1>5. Loop(scan)
    <2> HIDE DEF Loop
    <2> QED
        BY <1>4, Zenon
<1>6. Scan(list) = scan[Len(list)]
    BY Zenon DEF Scan
<1> HIDE DEF scan
<1>7. scan[Len(list)] = closed[Len(list)]
    <2> DEFINE Bad == {i \in 0..Len(list) : scan[i] # closed[i]}
    <2>1. SUFFICES ASSUME Bad # {} PROVE FALSE
        BY <1>1
    <2>2. PICK m \in Bad : \A k \in Bad : m <= k
        <3>1. Bad \in SUBSET Nat
            BY <1>1
        <3> HIDE DEF Bad
        <3> QED
            BY <2>1, <3>1, LeastElement
    <2>3. m # 0
        BY <1>2, <1>5, <2>2
    <2>4. m - 1 \in 0..Len(list) /\ m - 1 \notin Bad
        BY <1>3, <2>2, <2>3
    <2>5. scan[m] = ScanPeer(list, scan[m - 1], m)
        BY <1>5, <2>2, <2>3, Zenon
    <2>6. scan[m - 1] = Scanned(list, m - 1)
        BY <2>4
    <2> QED
        BY <1>3, <2>2, <2>3, <2>5, <2>6, ScanRound
<1> QED
    BY <1>1, <1>6, <1>7
-----------------------------------------------------------------------------
(* The second loop *)

\* A round appends the peer at n, or leaves it out.
KeepRound(list, duplicates, result, n) ==
    IF n \in duplicates THEN result ELSE Append(result, list[n])

\* The peers that the first n rounds leave in.
Left(duplicates, n) == (1..n) \ duplicates

\* A round goes on from a selection to the next one.
LEMMA KeepSelects ==
    ASSUME NEW list, NEW T, NEW duplicates, NEW n \in Nat \ {0}, NEW result \in Seq(T),
           list[n] \in T, Selects(result, list, Left(duplicates, n - 1))
    PROVE  /\ KeepRound(list, duplicates, result, n) \in Seq(T)
           /\ Selects(KeepRound(list, duplicates, result, n), list, Left(duplicates, n))
<1> DEFINE L == Len(result)
           old == Left(duplicates, n - 1)
           new == Left(duplicates, n)
<1>1. \A i : i \in old <=> i \in 1..(n - 1) /\ i \notin duplicates
    BY DEF Left
<1>2. \A i : i \in new <=> i \in 1..n /\ i \notin duplicates
    BY DEF Left
<1>3. L \in Nat
    OBVIOUS
<1>4. PICK at \in [1..L -> old] :
        /\ \A i \in old : \E k \in 1..L : at[k] = i
        /\ \A k, l \in 1..L : k < l => at[k] < at[l]
        /\ \A k \in 1..L : result[k] = list[at[k]]
    BY DEF Selects
<1> HIDE DEF old, new
<1>5. CASE n \in duplicates
    <2>1. \A i : i \in 1..n <=> i \in 1..(n - 1) \/ i = n
        OBVIOUS
    <2>2. old = new
        BY <1>1, <1>2, <1>5, <2>1, Zenon
    <2> QED
        BY <1>5, <2>2 DEF KeepRound, old, new
<1>6. CASE n \notin duplicates
    <2> DEFINE next == [k \in 1..(L + 1) |-> IF k = L + 1 THEN n ELSE at[k]]
               longer == Append(result, list[n])
    <2>1. /\ longer \in Seq(T) /\ Len(longer) = L + 1 /\ longer[L + 1] = list[n]
          /\ \A k \in 1..L : longer[k] = result[k]
        OBVIOUS
    <2>2. \A i : i \in new <=> i \in old \/ i = n
        BY <1>1, <1>2, <1>6
    <2>3. \A k \in 1..(L + 1) : k \in 1..L \/ k = L + 1
        BY <1>3
    <2>4. \A k \in 1..L : at[k] \in old /\ at[k] \in Nat /\ at[k] < n
        BY <1>1, <1>4
    <2>5. next \in [1..(L + 1) -> new]
        BY <2>2, <2>3, <2>4
    <2>6. next[L + 1] = n /\ \A k \in 1..L : next[k] = at[k]
        BY <1>3
    <2> HIDE DEF next, longer
    <2>7. \A i \in new : \E k \in 1..(L + 1) : next[k] = i
        BY <1>3, <1>4, <2>2, <2>6
    <2>8. \A k, l \in 1..(L + 1) : k < l => next[k] < next[l]
        <3> SUFFICES ASSUME NEW k \in 1..(L + 1), NEW l \in 1..(L + 1), k < l
                     PROVE  next[k] < next[l]
            OBVIOUS
        <3>1. k \in 1..L
            BY <1>3
        <3>2. CASE l = L + 1
            BY <2>4, <2>6, <3>1, <3>2
        <3>3. CASE l \in 1..L
            BY <1>4, <2>6, <3>1, <3>3
        <3> QED
            BY <2>3, <3>2, <3>3
    <2>9. \A k \in 1..(L + 1) : longer[k] = list[next[k]]
        BY <1>4, <2>1, <2>3, <2>6
    <2>10. Selects(longer, list, new)
        <3> DEFINE M == L + 1
        <3> HIDE DEF M, L
        <3>1. Len(longer) = M
            BY <2>1 DEF M
        <3>2. /\ next \in [1..M -> new]
              /\ \A i \in new : \E k \in 1..M : next[k] = i
              /\ \A k, l \in 1..M : k < l => next[k] < next[l]
              /\ \A k \in 1..M : longer[k] = list[next[k]]
            BY <2>5, <2>7, <2>8, <2>9 DEF M
        <3> QED
            BY <3>1, <3>2, Zenon DEF Selects
    <2> QED
        BY <1>6, <2>1, <2>10 DEF KeepRound, longer, new
<1> QED
    BY <1>5, <1>6

\* The result of the second loop.
LEMMA KeepResult ==
    ASSUME NEW list, PeerList(list), NEW duplicates
    PROVE  /\ Keep(list, duplicates) \in Seq(PeerSet(list))
           /\ Selects(Keep(list, duplicates), list, Left(duplicates, Len(list)))
<1> DEFINE
      T == PeerSet(list)
      Round(f, i) == IF i = 0 THEN <<>> ELSE KeepRound(list, duplicates, f[i - 1], i)
      Loop(f, n) == f = [i \in 0..n |-> Round(f, i)]
      result == CHOOSE f : Loop(f, Len(list))
<1>1. Len(list) \in Nat /\ \A i \in 1..Len(list) : list[i] \in T
    BY DEF PeerList, PeerSet
<1>2. \A n \in 0..Len(list) : \E f : Loop(f, n)
    <2> DEFINE Bad == {n \in 0..Len(list) : ~\E f : Loop(f, n)}
    <2>1. SUFFICES ASSUME Bad # {} PROVE FALSE
        OBVIOUS
    <2>2. PICK m \in Bad : \A k \in Bad : m <= k
        <3>1. Bad \in SUBSET Nat
            BY <1>1
        <3> HIDE DEF Bad
        <3> QED
            BY <2>1, <3>1, LeastElement
    <2>3. m # 0
        <3>1. Loop([i \in 0..0 |-> <<>>], 0)
            OBVIOUS
        <3> QED
            BY <2>2, <3>1, Zenon
    <2>4. m \in Nat /\ m - 1 \in 0..Len(list) /\ ~(m <= m - 1)
        BY <1>1, <2>2, <2>3
    <2>5. PICK f : Loop(f, m - 1)
        BY <2>2, <2>4, Zenon
    <2> DEFINE g == [i \in 0..m |-> IF i = m THEN Round(f, m) ELSE f[i]]
    <2>6. ASSUME NEW i \in 0..m
          PROVE  g[i] = Round(g, i)
        <3>1. CASE i = 0
            BY <2>3, <2>4, <2>5, <3>1
        <3>2. CASE i # 0
            <4>1. i - 1 \in 0..m /\ i - 1 # m /\ (i # m => i \in 0..(m - 1))
                BY <2>4, <3>2
            <4>2. g[i - 1] = f[i - 1]
                BY <4>1
            <4>3. CASE i = m
                BY <2>3, <4>2, <4>3
            <4>4. CASE i # m
                <5>1. g[i] = f[i] /\ f[i] = Round(f, i)
                    BY <2>5, <4>1, <4>4
                <5> QED
                    BY <3>2, <4>2, <5>1
            <4> QED
                BY <4>3, <4>4
        <3> QED
            BY <3>1, <3>2
    <2>7. Loop(g, m)
        <3>1. g = [i \in 0..m |-> g[i]]
            OBVIOUS
        <3> HIDE DEF g
        <3> QED
            BY <2>6, <3>1, Zenon
    <2> QED
        BY <2>2, <2>7, Zenon
<1>3. Loop(result, Len(list))
    <2>1. Len(list) \in 0..Len(list)
        BY <1>1
    <2> HIDE DEF Loop
    <2> QED
        BY <1>2, <2>1, Zenon
<1>4. Keep(list, duplicates) = result[Len(list)]
    BY Zenon DEF Keep, KeepRound
<1> HIDE DEF result
<1> DEFINE Good(i) == result[i] \in Seq(T) /\ Selects(result[i], list, Left(duplicates, i))
<1>5. Good(0)
    <2>1. result[0] = <<>>
        BY <1>1, <1>3
    <2>2. Left(duplicates, 0) = {}
        BY DEF Left
    <2>3. Selects(<<>>, list, {})
        <3>1. [k \in 1..0 |-> 0] \in [1..0 -> {}]
            OBVIOUS
        <3> QED
            BY <3>1, Zenon DEF Selects
    <2> QED
        BY <2>1, <2>2, <2>3
<1>6. ASSUME NEW i \in 1..Len(list), Good(i - 1)
      PROVE  Good(i)
    <2>1. i \in Nat \ {0} /\ i \in 0..Len(list) /\ list[i] \in T
        BY <1>1
    <2>2. result[i] = KeepRound(list, duplicates, result[i - 1], i)
        BY <1>3, <2>1
    <2> QED
        BY <1>6, <2>1, <2>2, KeepSelects
<1>7. Good(Len(list))
    <2> HIDE DEF Good
    <2> DEFINE Bad == {i \in 0..Len(list) : ~Good(i)}
    <2>1. SUFFICES ASSUME Bad # {} PROVE FALSE
        BY <1>1
    <2>2. PICK m \in Bad : \A k \in Bad : m <= k
        <3>1. Bad \in SUBSET Nat
            BY <1>1
        <3> HIDE DEF Bad
        <3> QED
            BY <2>1, <3>1, LeastElement
    <2>3. m \in 1..Len(list) /\ m - 1 \in 0..Len(list) /\ ~(m <= m - 1)
        BY <1>1, <1>5, <2>2
    <2> QED
        BY <1>6, <2>2, <2>3
<1> QED
    BY <1>4, <1>7
-----------------------------------------------------------------------------
(* Theorems *)

\* SanitizedPeers::from keeps exactly the best peer of each entry IP, in the
\* order of the list, for a list of any length.
THEOREM FromKeepsBest ==
    ASSUME NEW list, PeerList(list)
    PROVE  from(list) \in Seq(PeerSet(list)) /\ Selects(from(list), list, BestPeers(list))
<1>1. Left(Scan(list).duplicates, Len(list)) = BestPeers(list)
    BY ScanResult DEF Scanned, Left, BestPeers
<1> QED
    BY <1>1, KeepResult DEF from

\* No two peers that from keeps have the same entry IP: peer_remove, which goes by
\* address, removes the peer it is meant to remove.
THEOREM FromIsOnePerIp ==
    ASSUME NEW list, PeerList(list)
    PROVE  OnePerIp(from(list))
<1> DEFINE result == from(list)
<1>1. result \in Seq(PeerSet(list)) /\ Selects(result, list, BestPeers(list))
    BY FromKeepsBest
<1> HIDE DEF result
<1>2. Len(result) \in Nat /\ DOMAIN result = 1..Len(result)
    BY <1>1
<1>3. PICK at \in [1..Len(result) -> BestPeers(list)] :
        \A k \in 1..Len(result) : result[k] = list[at[k]]
    BY <1>1 DEF Selects
<1>4. ASSUME NEW i \in BestPeers(list), NEW j \in BestPeers(list),
             list[i].server_ip = list[j].server_ip
      PROVE  i = j
    BY <1>4 DEF BestPeers, Best, PeerList
<1>5. ASSUME NEW k \in 1..Len(result), NEW l \in 1..Len(result),
             result[k].server_ip = result[l].server_ip
      PROVE  result[k] = result[l]
    BY <1>3, <1>4, <1>5
<1>6. OnePerIp(result)
    BY <1>2, <1>5 DEF OnePerIp, PeerSet
<1> QED
    BY <1>6 DEF result

\* No entry IP is lost, and what is left for it is the best of its peers.
THEOREM FromKeepsEveryIp ==
    ASSUME NEW list, PeerList(list), NEW i \in DOMAIN list
    PROVE  \E p \in PeerSet(from(list)) :
              p.server_ip = list[i].server_ip /\ p.priority <= list[i].priority
<1> DEFINE result == from(list)
<1>1. result \in Seq(PeerSet(list)) /\ Selects(result, list, BestPeers(list))
    BY FromKeepsBest
<1> HIDE DEF result
<1>2. Len(list) \in Nat /\ i \in 1..Len(list) /\ Len(list) \in 0..Len(list)
    BY DEF PeerList
<1>3. PICK b \in 1..Len(list) :
        list[b].server_ip = list[i].server_ip /\ Best(list, Len(list), b)
    BY <1>2, BestExists, Zenon
<1>4. list[b].priority <= list[i].priority
    BY <1>2, <1>3 DEF Best, PeerList
<1>5. b \in BestPeers(list)
    BY <1>3 DEF BestPeers
<1>6. PICK k \in 1..Len(result) : result[k] = list[b]
    BY <1>1, <1>5 DEF Selects
<1>7. list[b] \in PeerSet(result)
    BY <1>1, <1>6 DEF PeerSet
<1> QED
    BY <1>3, <1>4, <1>7 DEF result

\* The client has the priority that the application gave exactly when it fits an
\* i16; of any other it has one that is a multiple of 2^16 off, and so the client
\* may prefer another peer than the application and SanitizedPeers (as_peer).
THEOREM PriorityCast ==
    ASSUME NEW p, p.priority \in Int
    PROVE  LET cast == as_peer(p).priority
           IN  /\ cast \in -(2^15)..(2^15 - 1)
               /\ cast = p.priority <=> p.priority \in -(2^15)..(2^15 - 1)
               /\ \E k \in Int : cast = p.priority - 2^16 * k
<1> DEFINE n == p.priority
           half == 2^15
           width == 2^16
           rest == (n + half) % width
           k == (n + half) \div width
<1>1. half \in Nat \ {0} /\ width = 2 * half /\ n \in Int
    OBVIOUS
<1>2. as_peer(p).priority = rest - half
    BY DEF as_peer, AsI16
<1> HIDE DEF n, half, width
<1>3. rest \in 0..(width - 1) /\ k \in Int /\ n + half = width * k + rest
    <2>1. rest \in 0..(width - 1)
        BY <1>1
    <2>2. k \in Int
        BY <1>1
    <2>3. n + half = width * k + rest
        BY <1>1
    <2> QED
        BY <2>1, <2>2, <2>3, Zenon
<1> HIDE DEF rest, k
<1>4. rest - half \in -half..(half - 1) /\ rest - half = n - width * k
    BY <1>1, <1>3
<1>5. n \in -half..(half - 1) => k = 0
    BY <1>1, <1>3
<1>6. rest - half = n <=> n \in -half..(half - 1)
    BY <1>1, <1>3, <1>4, <1>5
<1> QED
    BY <1>2, <1>3, <1>4, <1>6 DEF n, half, width
-----------------------------------------------------------------------------
(* Peers, settings and the client's tunnel *)

\* ClientConfigInSync does not need the thread to have started, and the peers
\* must have different entry IPs, since peer_remove takes an IP and not a peer.
PeersInv ==
    /\ client_peers = {as_peer(p) : p \in PeerSet(peers)}
    /\ client_settings = settings
    /\ OnePerIp(peers)
    /\ tunnel \in Tunnels(client_peers)
    /\ pc = "start" => tunnel = NoTunnel

\* update_peers: removing the peers that are gone, by entry IP, and adding the
\* new ones gives the client the new list, if no two old peers share an IP.
LEMMA ReplacePeersInSync ==
    ASSUME NEW old, NEW new,
           \A p, q \in old : p.server_ip = q.server_ip => p = q
    PROVE  ReplacePeers({as_peer(p) : p \in old}, old \ new, new \ old)
             = {as_peer(p) : p \in new}
<1> DEFINE kept == {c \in {as_peer(p) : p \in old} :
                        \A q \in old \ new : c.addr # q.server_ip}
<1>1. \A p : as_peer(p).addr = p.server_ip
    BY DEF as_peer
<1>2. kept = {as_peer(p) : p \in old \cap new}
    <2>1. ASSUME NEW p \in old, \A q \in old \ new : as_peer(p).addr # q.server_ip
          PROVE  p \in new
        BY <1>1, <2>1
    <2>2. ASSUME NEW p \in old \cap new, NEW q \in old \ new
          PROVE  as_peer(p).addr # q.server_ip
        BY <1>1, <2>2
    <2>3. QED
        BY <2>1, <2>2
<1>3. ReplacePeers({as_peer(p) : p \in old}, old \ new, new \ old)
        = kept \cup {as_peer(p) : p \in new \ old}
    BY DEF ReplacePeers
<1>4. QED
    BY <1>2, <1>3, Zenon

\* A new Connection has the peers it was given, and no tunnel.
LEMMA InitPeers == Init => PeersInv
BY DEF Init, PeersInv, OnePerIp, PeerSet, Tunnels

\* Every step keeps the client's peers and settings those of the last
\* configuration: updates replace both, and nothing else writes them.
LEMMA NextPeers == ApiInv /\ CaptureInv /\ PeersInv /\ [Next]_vars => PeersInv'
<1> SUFFICES ASSUME ApiInv, CaptureInv, PeersInv, [Next]_vars
             PROVE  PeersInv'
    OBVIOUS
<1>1. CASE Start
    <2>1. PICK config \in InitialConfigs :
            /\ peers' = from(config.peers)
            /\ client_peers' = {as_peer(p) : p \in PeerSet(from(config.peers))}
            /\ settings' = config.settings
            /\ client_settings' = config.settings
        BY <1>1, Zenon DEF Start
    <2>2. OnePerIp(peers')
        BY <2>1, PeersAssumption, FromIsOnePerIp, Zenon DEF GivenPeers
    <2>3. tunnel' = NoTunnel /\ pc' # "start"
        BY <1>1 DEF Start, PeersInv
    <2>4. QED
        BY <2>1, <2>2, <2>3, Zenon DEF PeersInv, Tunnels, OnePerIp
<1>2. CASE HandleUpdate
    <2>1. PICK update : /\ update = Head(channel)
                        /\ IF update.peers = None THEN UNCHANGED peerVars
                           ELSE update_peers(from(update.peers))
                        /\ IF update.settings = None THEN UNCHANGED settingVars
                           ELSE update_local_agent_settings(update.settings)
        BY <1>2 DEF HandleUpdate
    <2>2. update \in Messages /\ update.type = "Update" /\ pc' # "start"
        BY <1>2, <2>1 DEF HandleUpdate, Receive, CaptureInv
    <2>3. client_settings' = settings'
        BY <2>1 DEF update_local_agent_settings, settingVars, PeersInv
    <2>4. CASE UNCHANGED peerVars
        BY <2>2, <2>3, <2>4 DEF PeersInv, peerVars, Tunnels, OnePerIp
    <2>5. CASE update.peers # None /\ ~UNCHANGED peerVars
        <3>1. update.peers \in GivenPeers
            BY <2>2, <2>5 DEF Messages, GivenPeers
        <3>2. /\ peers' = from(update.peers)
              /\ client_peers' = ReplacePeers(client_peers,
                                    PeerSet(peers) \ PeerSet(peers'),
                                    PeerSet(peers') \ PeerSet(peers))
              /\ tunnel' = IF tunnel \in Tunnels(client_peers') THEN tunnel ELSE NoTunnel
            BY <2>1, <2>5 DEF update_peers
        <3>3. OnePerIp(peers')
            BY <3>1, <3>2, PeersAssumption, FromIsOnePerIp
        <3>4. client_peers' = {as_peer(p) : p \in PeerSet(peers')}
            BY <3>2, ReplacePeersInSync DEF PeersInv, OnePerIp
        <3>5. tunnel' \in Tunnels(client_peers')
            BY <3>2, Zenon DEF Tunnels
        <3>6. QED
            BY <2>2, <2>3, <3>3, <3>4, <3>5 DEF PeersInv, PeerSet, OnePerIp, Tunnels
    <2>6. QED
        BY <2>1, <2>4, <2>5
<1>3. CASE ClientMoves
    <2>1. PeerSet(peers)' = PeerSet(peers) /\ OnePerIp(peers)' = OnePerIp(peers)
        <3>1. UNCHANGED peers
            BY <1>3, Zenon DEF ClientMoves
        <3> QED
            BY <3>1 DEF PeerSet, OnePerIp
    <2>2. tunnel' \in Tunnels(client_peers')
        BY <1>3 DEF ClientMoves, NextTunnels, Tunnels
    <2>3. pc' # "start"
        BY <1>3 DEF ClientMoves, loopVars
    <2> QED
        BY <1>3, <2>1, <2>2, <2>3 DEF ClientMoves, PeersInv, settingVars
<1>4. CASE UNCHANGED <<peerVars, settingVars>> /\ (pc' = "start" => pc = "start")
    <2>1. PeerSet(peers)' = PeerSet(peers) /\ OnePerIp(peers)' = OnePerIp(peers)
        BY <1>4 DEF peerVars, PeerSet, OnePerIp
    <2> QED
        BY <1>4, <2>1 DEF PeersInv, peerVars, settingVars, Tunnels
<1>5. QED
    BY <1>1, <1>2, <1>3, <1>4, StepFrame DEF Frame
-----------------------------------------------------------------------------
(* The state that was reported, and the timeout *)

\* From update_state on, the state is what get_peer_connection_state gives for
\* the tunnel and the agent as they are, and a connected thread has no network
\* change scheduled.
PollInv ==
    /\ pc \in {"poll", "polling"} =>
         /\ connection_state = get_peer_connection_state(tunnel, agent)
         /\ connection_state.kind = "Connected" => recovery.send_at = None
    /\ deadline \in Option(Nat)
    /\ NeverSleepsPastRecovery

\* The timeout that poll_deadline computes does not pass the recovery timer.
LEMMA DeadlineInTime ==
    ASSUME NEW client_deadline \in Option(Nat), recovery \in RecoveryHandlers
    PROVE  /\ poll_deadline(client_deadline) \in Option(Nat)
           /\ recovery.network_available /\ recovery.send_at # None =>
                /\ poll_deadline(client_deadline) # None
                /\ poll_deadline(client_deadline) <= recovery.send_at
BY DEF poll_deadline, wakeup_delay, Smaller, RecoveryHandlers, Option

\* The thread does not start in poll.
LEMMA InitPoll == Init => PollInv
BY DEF Init, PollInv, NeverSleepsPastRecovery, Option

\* Every step keeps what is known while the thread is blocked in poll: the
\* timeout, the recovery timer and the state that was reported on the way.
LEMMA NextPoll == ApiInv /\ StateInv /\ PollInv /\ [Next]_vars => PollInv'
<1> SUFFICES ASSUME ApiInv, StateInv, PollInv, [Next]_vars
             PROVE  PollInv'
    OBVIOUS
<1>1. CASE UpdateState
    <2>1. connection_state' = get_peer_connection_state(tunnel, agent')
        BY <1>1, SetStateReports DEF UpdateState, StateInv
    <2>2. recovery'.network_available = recovery.network_available
        BY <1>1, RecoveryOpsNetwork DEF UpdateState, StateInv
    <2>3. UNCHANGED <<tunnel, peers, deadline>> /\ pc' = "poll"
        BY <1>1 DEF UpdateState, peerVars, pollVars
    <2>4. connection_state' = get_peer_connection_state(tunnel, agent)'
        BY <2>1, <2>2, <2>3 DEF get_peer_connection_state, TunnelState
    <2>5. connection_state'.kind = "Connected" => recovery'.send_at = None
        BY <1>1 DEF UpdateState, on_connected, Handler
    <2>6. QED
        BY <2>3, <2>4, <2>5 DEF PollInv, NeverSleepsPastRecovery
<1>2. CASE BeginPoll
    <2>1. /\ UNCHANGED <<connection_state, tunnel, agent, peers, recovery>>
          /\ pc = "poll"
        BY <1>2 DEF BeginPoll, dataVars, stateVars, peerVars, agentVars
    <2>2. /\ deadline' \in Option(Nat)
          /\ recovery.network_available /\ recovery.send_at # None =>
                deadline' # None /\ deadline' <= recovery.send_at
        BY <1>2, DeadlineInTime, ConstantAssumption DEF BeginPoll, StateInv
    <2>3. QED
        BY <2>1, <2>2 DEF PollInv, NeverSleepsPastRecovery, get_peer_connection_state, TunnelState
<1>3. CASE Elapse
    <2>1. UNCHANGED <<connection_state, tunnel, agent, peers, pc>>
        BY <1>3 DEF Elapse, stateVars, peerVars, agentVars, loopVars
    <2>2. recovery'.network_available = recovery.network_available
        BY <1>3, RecoveryOpsNetwork DEF Elapse, StateInv
    <2>3. recovery.send_at = None => recovery'.send_at = None
        BY <1>3 DEF Elapse, Elapsed
    <2>4. deadline' \in Option(Nat)
        BY <1>3 DEF Elapse, PollInv, Option
    <2>5. NeverSleepsPastRecovery'
        BY <1>3, <2>1, <2>2, NoneAssumption, DurationAssumption
           DEF Elapse, Elapsed, PollInv, NeverSleepsPastRecovery, StateInv, RecoveryHandlers,
               Option
    <2>6. QED
        BY <2>1, <2>2, <2>3, <2>4, <2>5 DEF PollInv, get_peer_connection_state, TunnelState
<1>4. CASE ThreadUnchanged
    BY <1>4 DEF ThreadUnchanged, loopVars, pollVars, dataVars, stateVars, peerVars, agentVars,
                PollInv, NeverSleepsPastRecovery, get_peer_connection_state, TunnelState
<1>5. CASE pc' \notin {"poll", "polling"} /\ deadline' \in {deadline, None}
    BY <1>5 DEF PollInv, NeverSleepsPastRecovery, Option
<1>6. QED
    BY <1>1, <1>2, <1>3, <1>4, <1>5, StepFrame DEF Frame
-----------------------------------------------------------------------------
(* The local agent's handler *)

\* The part of TypeOK that is about the agent handler, which exists when the
\* thread looks for its messages (handle_local_agent_messages).
AgentInv ==
    agent # None \/ pc = "agent" => agent \in AgentHandlers(agent.last_peer)

\* A message keeps the type of the handler.
LEMMA MessageTypes ==
    ASSUME NEW peer, NEW h \in AgentHandlers(peer), NEW m \in AgentMessages
    PROVE  handle_message(h, m) \in AgentHandlers(peer)
<1>1. CASE m.type = "LocalAgentConnected"
    BY <1>1, Zenon DEF handle_message, AgentHandlers
<1>2. CASE m.type = "SettingsSoftjail"
    <2>1. m.value \in BOOLEAN
        BY <1>2 DEF AgentMessages
    <2>2. handle_message(h, m) = [h EXCEPT !.agent_info.soft_jail = m.value]
        BY <1>2 DEF handle_message
    <2> QED
        BY <2>1, <2>2 DEF AgentHandlers, AgentInfos
<1>3. CASE m.type = "Jails"
    BY <1>3 DEF handle_message, AgentHandlers, AgentMessages
<1>4. CASE m.type = "Restrictions"
    BY <1>4 DEF handle_message, AgentHandlers, AgentMessages
<1>5. CASE m.type = "Other"
    <2>1. m.value \in SUBSET AgentValues
        BY <1>5 DEF AgentMessages
    <2>2. handle_message(h, m) = [h EXCEPT !.agent_info.other = m.value]
        BY <1>5 DEF handle_message
    <2> QED
        BY <2>1, <2>2 DEF AgentHandlers, AgentInfos
<1>6. CASE m.type = "Stats"
    BY <1>6 DEF handle_message, AgentHandlers, AgentMessages, Accumulate
<1>7. CASE m.type \notin {"LocalAgentConnected", "SettingsSoftjail", "Jails", "Restrictions",
                          "Other", "Stats"}
    BY <1>7 DEF handle_message
<1> QED
    BY <1>1, <1>2, <1>3, <1>4, <1>5, <1>6, <1>7

\* A connection to a peer keeps the type of the handler.
LEMMA PeerTypes ==
    ASSUME NEW known, NEW h \in AgentHandlers(known), NEW peer
    PROVE  on_connected_to_peer(h, peer) \in AgentHandlers(peer)
<1>1. CASE h.last_peer # None /\ h.last_peer # peer
    BY <1>1 DEF on_connected_to_peer, AgentHandlers, AgentInfos, DefaultInfo
<1>2. CASE ~(h.last_peer # None /\ h.last_peer # peer)
    BY <1>2, Zenon DEF on_connected_to_peer, AgentHandlers
<1> QED
    BY <1>1, <1>2

\* Every step keeps the type of the handler.
LEMMA NextAgent == ApiInv /\ AgentInv /\ [Next]_vars => AgentInv'
<1> SUFFICES ASSUME ApiInv, AgentInv, [Next]_vars
             PROVE  AgentInv'
    OBVIOUS
<1>1. CASE PullAgentMessage
    <2>1. agent \in AgentHandlers(agent.last_peer)
        BY <1>1, Zenon DEF PullAgentMessage, AgentInv
    <2>2. PICK m \in AgentMessages : agent' = handle_message(agent, m)
        BY <1>1, AgentAssumption DEF PullAgentMessage
    <2>3. agent' \in AgentHandlers(agent.last_peer)
        BY <2>1, <2>2, MessageTypes
    <2>4. agent'.last_peer = agent.last_peer
        BY <2>3 DEF AgentHandlers
    <2> QED
        BY <2>1, <2>3, <2>4, Zenon DEF AgentInv
<1>2. CASE UpdateState
    <2>1. pc' # "agent"
        BY <1>2 DEF UpdateState
    <2>2. CASE agent' = agent
        BY <2>1, <2>2 DEF AgentInv
    <2>3. CASE agent # None /\ agent' = on_connected_to_peer(agent, tunnel.peer)
        <3>1. agent' \in AgentHandlers(tunnel.peer)
            BY <2>3, PeerTypes DEF AgentInv
        <3>2. agent'.last_peer = tunnel.peer
            BY <3>1 DEF AgentHandlers
        <3> QED
            BY <2>1, <3>1, <3>2 DEF AgentInv
    <2> QED
        BY <1>2, <2>2, <2>3 DEF UpdateState, MeetsPeer
<1>3. CASE Start
    <2>1. agent' = None \/ agent' = new_agent
        BY <1>3, Zenon DEF Start
    <2>2. new_agent \in AgentHandlers(new_agent.last_peer)
        BY Zenon DEF new_agent, AgentHandlers, AgentInfos, DefaultInfo
    <2>3. pc' # "agent"
        BY <1>3, Zenon DEF Start
    <2> QED
        BY <2>1, <2>2, <2>3 DEF AgentInv
<1>4. CASE UNCHANGED agent /\ (pc' = "agent" => pc = "agent" \/ agent # None)
    BY <1>4 DEF AgentInv
<1> QED
    BY <1>1, <1>2, <1>3, <1>4, StepFrame DEF Frame

\* The handler has its type in every reachable state.
LEMMA AgentInvariant == Spec => []AgentInv
<1>1. Init => AgentInv
    BY DEF Init, AgentInv
<1> QED
    BY <1>1, NextAgent, Invariant, PTL DEF Spec
-----------------------------------------------------------------------------
(* Theorems *)

\* The invariants of the last two parts hold in every reachable state.
LEMMA PollInvariant == Spec => [](ApiInv /\ StateInv /\ CaptureInv /\ PeersInv /\ PollInv)
BY InitApi, NextApi, InitState, NextState, InitCapture, NextCapture, InitPeers, NextPeers,
   InitPoll, NextPoll, PTL DEF Spec

\* The peers and settings of the client, which update_peers and
\* update_local_agent_settings keep by differences, are those of the last
\* configuration, for every list of peers and every sequence of updates.
THEOREM ConfigInSync == Spec => []ClientConfigInSync
<1>1. PeersInv => ClientConfigInSync
    BY DEF PeersInv, ClientConfigInSync
<1>2. QED
    BY <1>1, PollInvariant, PTL

\* A blocked thread wakes up in time for the delayed network change, whatever
\* deadline the client asks for (poll_deadline).
THEOREM WakesForRecovery == Spec => []NeverSleepsPastRecovery
<1>1. PollInv => NeverSleepsPastRecovery
    BY DEF PollInv
<1>2. QED
    BY <1>1, PollInvariant, PTL

\* The delayed network change never falls due on an established connection
\* (on_connected in update_state).
THEOREM TimerSparesConnection == Spec => []TimerNeverResetsConnection
<1>1. StateInv /\ PollInv => TimerNeverResetsConnection
    BY DEF StateInv, PollInv, TimerNeverResetsConnection, Due
<1>2. QED
    BY <1>1, PollInvariant, PTL

\* When the thread blocks, the application has been told to wait for the
\* network exactly if there is none (get_peer_connection_state).
THEOREM WaitingIsForNetwork == Spec => []WaitingMatchesNetwork
<1>1. StateInv /\ PollInv => WaitingMatchesNetwork
    <2> SUFFICES ASSUME StateInv, PollInv, pc = "polling"
                 PROVE  ReportedState.wait = WaitReason("WaitingForNetwork", {})
                          <=> ~recovery.network_available
        BY DEF WaitingMatchesNetwork
    <2>1. ReportedState = get_peer_connection_state(tunnel, agent)
        BY DEF StateInv, PollInv
    <2>2. CASE ~recovery.network_available
        BY <2>1, <2>2 DEF get_peer_connection_state, network_unavailable_state, ConnState
    <2>3. CASE recovery.network_available
        <3>1. get_wait_reason(agent) # WaitReason("WaitingForNetwork", {})
            BY WaitReasonAssumption, Zenon DEF get_wait_reason, WaitReason
        <3>2. TunnelState(tunnel, agent).wait # WaitReason("WaitingForNetwork", {})
            BY <3>1, WaitReasonAssumption DEF TunnelState, get_state, Disconnected, ConnState
        <3>3. QED
            BY <2>1, <2>3, <3>2 DEF get_peer_connection_state
    <2>4. QED
        BY <2>2, <2>3
<1>2. QED
    BY <1>1, PollInvariant, PTL

\* When the thread blocks with Connected reported, the client has that very
\* tunnel, to one of the peers that the application gave last.
THEOREM ConnectedIsReal == Spec => []ReportedTunnelIsReal
<1>1. StateInv /\ PeersInv /\ PollInv => ReportedTunnelIsReal
    <2> SUFFICES ASSUME StateInv, PeersInv, PollInv,
                        pc = "polling", ReportedState.kind = "Connected"
                 PROVE  /\ tunnel = [kind |-> "Connected", peer |-> ReportedState.peer]
                        /\ \E p \in PeerSet(peers) : p.peer_id = ReportedState.peer.peer_id
        BY DEF ReportedTunnelIsReal
    <2>1. ReportedState = TunnelState(tunnel, agent)
        BY DEF StateInv, PollInv, get_peer_connection_state
    <2>2. /\ tunnel # None /\ tunnel.kind = "Connected"
          /\ ReportedState.peer = tunnel.peer
        BY <2>1 DEF TunnelState, get_state, Disconnected, ConnState
    <2>3. tunnel \in [kind : {"Connecting", "Connected"},
                      peer : [peer_id : {p.tag : p \in client_peers}, protocol : Protocols]]
        BY <2>2 DEF PeersInv, Tunnels, NoTunnel
    <2>4. tunnel = [kind |-> "Connected", peer |-> tunnel.peer]
        BY <2>2, <2>3
    <2>5. PICK c \in client_peers : tunnel.peer.peer_id = c.tag
        BY <2>3
    <2>6. \E p \in PeerSet(peers) : p.peer_id = c.tag
        <3>1. PICK p \in PeerSet(peers) : c = as_peer(p)
            BY Zenon DEF PeersInv
        <3> QED
            BY <3>1 DEF as_peer
    <2>7. QED
        BY <2>2, <2>4, <2>5, <2>6
<1>2. QED
    BY <1>1, PollInvariant, PTL

\* Whatever list of peers the application makes, from keeps the best peer of each
\* entry IP, in the order of the list.
THEOREM FromIsBest == Spec => []FromMatchesReference
<1>1. FromMatchesReference
    BY PeersAssumption, FromKeepsBest DEF FromMatchesReference
<1> QED
    BY <1>1, PTL

\* The variables keep their types; in particular only open streams wait to
\* become writable (set_poll_enable_wait_for_write, close_stream, update_tun)
\* and the recovery delay stays within its maximum (on_resumed).
THEOREM TypeCorrect == Spec => []TypeOK
<1>1. /\ ApiInv /\ StateInv /\ CaptureInv /\ StopInv /\ StreamInv
      /\ PeersInv /\ PollInv /\ TypeInv /\ AgentInv
      => TypeOK
    BY Zenon DEF TypeOK, ApiInv, StateInv, CaptureInv, StopInv, StreamInv, PeersInv, PollInv,
                 TypeInv, Locations, AgentInv
<1> QED
    BY <1>1, AgentInvariant, Invariant, PollInvariant, PTL
-----------------------------------------------------------------------------
(* The agent's session *)

\* from returns peers of the list.
LEMMA FromIsSublist ==
    ASSUME NEW list, PeerList(list)
    PROVE  PeerSet(from(list)) \subseteq PeerSet(list)
<1> DEFINE result == from(list)
<1>1. result \in Seq(PeerSet(list))
    BY FromKeepsBest
<1> HIDE DEF result
<1>2. PeerSet(result) \subseteq PeerSet(list)
    BY <1>1 DEF PeerSet
<1> QED
    BY <1>2 DEF result

\* The candidates are peers that the application gave.
CandidatesAreGiven == PeerSet(peers) \subseteq UNION {PeerSet(list) : list \in PeerLists}

\* Configurations and updates give lists of PeerLists.
LEMMA NextCandidates ==
    ApiInv /\ CaptureInv /\ CandidatesAreGiven /\ [Next]_vars => CandidatesAreGiven'
<1> SUFFICES ASSUME ApiInv, CaptureInv, CandidatesAreGiven, [Next]_vars
             PROVE  CandidatesAreGiven'
    OBVIOUS
<1>1. ASSUME NEW list \in GivenPeers, peers' = from(list)
      PROVE  CandidatesAreGiven'
    BY <1>1, PeersAssumption, FromIsSublist DEF CandidatesAreGiven, PeerSet
<1>2. CASE Start
    BY <1>1, <1>2, Zenon DEF Start, GivenPeers
<1>3. CASE UNCHANGED peers
    BY <1>3 DEF CandidatesAreGiven, PeerSet
<1>4. CASE HandleUpdate
    <2>1. Head(channel) \in Messages /\ Head(channel).type = "Update"
        <3>1. channel # <<>> /\ Head(channel).type = "Update"
            BY <1>4, Zenon DEF HandleUpdate, Receive
        <3> QED
            BY <3>1 DEF CaptureInv
    <2>2. CASE Head(channel).peers # None
        <3>1. Head(channel).peers \in GivenPeers
            BY <2>1, <2>2 DEF Messages, GivenPeers
        <3>2. peers' = from(Head(channel).peers) \/ UNCHANGED peers
            BY <1>4, <2>2, Zenon DEF HandleUpdate, update_peers, peerVars
        <3> QED
            BY <1>1, <1>3, <3>1, <3>2
    <2>3. CASE Head(channel).peers = None
        BY <1>3, <1>4, <2>3, Zenon DEF HandleUpdate, peerVars
    <2> QED
        BY <2>2, <2>3
<1>5. CASE ClientMoves
    BY <1>3, <1>5 DEF ClientMoves
<1> QED
    BY <1>2, <1>3, <1>4, <1>5, StepFrame, Zenon DEF Frame, peerVars

\* A connected tunnel has a peer.
LEMMA ConnectedHasPeer ==
    ASSUME PeersInv, CandidatesAreGiven, IsConnected(tunnel)
    PROVE  tunnel.peer # None
<1>1. tunnel.peer \in [peer_id : {p.tag : p \in client_peers}, protocol : Protocols]
    BY DEF PeersInv, Tunnels, IsConnected, NoTunnel
<1> DEFINE all == UNION {PeerSet(list) : list \in PeerLists}
<1>2. \A p \in client_peers : p.tag \in {q.peer_id : q \in all}
    <2> HIDE DEF all
    <2>1. PeerSet(peers) \subseteq all
        BY DEF CandidatesAreGiven, all
    <2> QED
        BY <2>1 DEF PeersInv, as_peer
<1>3. tunnel.peer \in TunnelPeers
    <2> HIDE DEF all
    <2>1. tunnel.peer \in [peer_id : {q.peer_id : q \in all}, protocol : Protocols]
        BY <1>1, <1>2, Zenon
    <2> QED
        BY <2>1, Zenon DEF TunnelPeers, all
<1> QED
    BY <1>3, TunnelPeersAssumption

\* There is an agent handler; handle_local_agent_messages runs only if there is.
AgentMode == agent # None \/ pc = "agent"

\* A connected session that update_state has met is that of the last peer it met;
\* when the thread is past update_state, that is the peer of the tunnel.
SessionInv ==
    /\ AgentMode /\ agent.is_connected /\ seen => session = agent.last_peer /\ session # None
    /\ pc \in {"poll", "polling"} /\ MeetsPeer => agent.last_peer = tunnel.peer

\* What a message does to the connected flag and the known peer.
LEMMA MessageSessions ==
    ASSUME NEW peer, NEW h \in AgentHandlers(peer), NEW m \in AgentMessages
    PROVE  /\ handle_message(h, m).last_peer = h.last_peer
           /\ handle_message(h, m).is_connected =
                (m.type = "LocalAgentConnected" \/ h.is_connected)
<1>1. CASE m.type = "LocalAgentConnected"
    BY <1>1, Zenon DEF handle_message, AgentHandlers
<1>2. CASE m.type # "LocalAgentConnected"
    BY <1>2, Zenon DEF handle_message, AgentHandlers
<1> QED
    BY <1>1, <1>2

\* Every step keeps SessionInv: update_state either makes the peer of the session
\* the known one or ends the session.
LEMMA NextSession ==
    ApiInv /\ StateInv /\ PeersInv /\ AgentInv /\ CandidatesAreGiven /\ SessionInv /\ [Next]_vars
    => SessionInv'
<1> SUFFICES ASSUME ApiInv, StateInv, PeersInv, AgentInv, CandidatesAreGiven, SessionInv,
                    [Next]_vars
             PROVE  SessionInv'
    OBVIOUS
<1> USE DEF AgentMode
<1>1. CASE PullAgentMessage
    <2>1. agent \in AgentHandlers(agent.last_peer)
        BY <1>1, Zenon DEF PullAgentMessage, AgentInv
    <2>2. PICK m \in AgentMessages :
            /\ AgentCanSend(m) /\ agent' = handle_message(agent, m)
            /\ IF m.type = "LocalAgentConnected"
               THEN session' = tunnel.peer /\ seen' = (agent.last_peer = tunnel.peer)
               ELSE UNCHANGED <<session, seen>>
        BY <1>1, AgentAssumption, Zenon DEF PullAgentMessage
    <2>3. /\ agent'.last_peer = agent.last_peer
          /\ agent'.is_connected = (m.type = "LocalAgentConnected" \/ agent.is_connected)
        BY <2>1, <2>2, MessageSessions, Zenon
    <2>4. pc = "agent" /\ pc' = "agent"
        BY <1>1, Zenon DEF PullAgentMessage
    <2>5. CASE m.type = "LocalAgentConnected"
        <3>1. tunnel.peer # None
            BY <2>2, <2>5, ConnectedHasPeer DEF AgentCanSend
        <3> QED
            BY <2>2, <2>3, <2>4, <2>5, <3>1, Zenon DEF SessionInv
    <2>6. CASE m.type # "LocalAgentConnected"
        <3>1. agent'.is_connected = agent.is_connected /\ UNCHANGED <<session, seen>>
            BY <2>1, <2>2, <2>3, <2>6 DEF AgentHandlers
        <3> QED
            BY <2>3, <2>4, <3>1 DEF SessionInv
    <2> QED
        BY <2>5, <2>6, Zenon
<1>2. CASE UpdateState
    <2>1. UNCHANGED <<tunnel, session>> /\ pc = "update" /\ pc' = "poll"
        BY <1>2, Zenon DEF UpdateState, peerVars
    <2>2. recovery'.network_available = recovery.network_available
        BY <1>2, RecoveryOpsNetwork, Zenon DEF UpdateState, StateInv
    <2>3. CASE MeetsPeer
        <3>1. /\ agent' = on_connected_to_peer(agent, tunnel.peer)
              /\ seen' = (seen \/ session = tunnel.peer)
            BY <1>2, <2>3, Zenon DEF UpdateState
        <3>2. agent \in AgentHandlers(agent.last_peer) /\ tunnel.peer # None
            BY <2>3, ConnectedHasPeer DEF AgentInv, MeetsPeer
        <3>3. agent'.last_peer = tunnel.peer
            BY <3>1, <3>2, PeerTypes DEF AgentHandlers
        <3>4. CASE agent.last_peer # None /\ agent.last_peer # tunnel.peer
            <4>1. ~agent'.is_connected
                BY <3>1, <3>4 DEF on_connected_to_peer
            <4> QED
                BY <2>1, <3>3, <4>1 DEF SessionInv
        <3>5. CASE ~(agent.last_peer # None /\ agent.last_peer # tunnel.peer)
            <4>1. agent'.is_connected = agent.is_connected
                BY <3>1, <3>2, <3>5, Zenon DEF on_connected_to_peer, AgentHandlers
            <4>2. agent.is_connected /\ seen' => session = tunnel.peer
                BY <2>3, <3>1, <3>5, Zenon DEF SessionInv, MeetsPeer
            <4> QED
                BY <2>1, <3>2, <3>3, <4>1, <4>2 DEF SessionInv
        <3> QED
            BY <3>4, <3>5
    <2>4. CASE ~MeetsPeer
        <3>1. UNCHANGED agent /\ (seen' => seen)
            BY <1>2, <2>4, Zenon DEF UpdateState
        <3>2. ~MeetsPeer'
            BY <2>1, <2>2, <2>4, <3>1 DEF MeetsPeer, IsConnected
        <3> QED
            BY <2>1, <3>1, <3>2 DEF SessionInv
    <2> QED
        BY <2>3, <2>4
<1>3. CASE Start
    <2>1. pc' = "messages" /\ (agent' = None \/ agent' = new_agent)
        BY <1>3, Zenon DEF Start
    <2> QED
        BY <2>1 DEF SessionInv, new_agent
<1>4. CASE UNCHANGED <<agent, session, seen>> /\ ~Start /\ ~UpdateState
    <2>1. /\ AgentMode' => AgentMode
          /\ UNCHANGED <<agent.is_connected, agent.last_peer>>
        BY <1>4, StepFrame DEF Frame
    <2>2. CASE pc' \notin {"poll", "polling"}
        BY <1>4, <2>1, <2>2 DEF SessionInv
    <2>3. CASE /\ UNCHANGED tunnel /\ (pc' \in {"poll", "polling"} => pc \in {"poll", "polling"})
               /\ recovery'.network_available = recovery.network_available
        <3>1. MeetsPeer' = MeetsPeer
            BY <1>4, <2>3 DEF MeetsPeer, IsConnected
        <3> QED
            BY <1>4, <2>1, <2>3, <3>1 DEF SessionInv
    <2>4. CASE BeginPoll
        BY <2>3, <2>4 DEF BeginPoll, dataVars, peerVars
    <2>5. CASE Elapse
        <3>1. UNCHANGED <<tunnel, pc>>
            BY <2>5, Zenon DEF Elapse, peerVars, loopVars
        <3>2. recovery'.network_available = recovery.network_available
            BY <2>5, RecoveryOpsNetwork, Zenon DEF Elapse, StateInv
        <3> QED
            BY <2>3, <3>1, <3>2
    <2>6. CASE ThreadUnchanged
        BY <2>3, <2>6 DEF ThreadUnchanged, dataVars, peerVars, loopVars
    <2> QED
        BY <1>4, <2>2, <2>4, <2>5, <2>6, StepFrame DEF Frame
<1> QED
    BY <1>1, <1>2, <1>3, <1>4, StepFrame, Zenon DEF Frame

\* Connected in local agent mode is not reported on the strength of the session of
\* another peer that update_state has met (on_connected_to_peer), however the
\* agents connect, the peers change and the network comes and goes.
THEOREM SessionIsCurrent == Spec => []SeenSessionIsCurrent
<1>1. Init => CandidatesAreGiven /\ SessionInv
    BY DEF Init, CandidatesAreGiven, PeerSet, SessionInv, AgentMode
<1>2. StateInv /\ PollInv /\ SessionInv => SeenSessionIsCurrent
    <2> SUFFICES ASSUME StateInv, PollInv, SessionInv, seen,
                        pc = "polling", agent # None, ReportedState.kind = "Connected"
                 PROVE  session = ReportedState.peer
        BY DEF SeenSessionIsCurrent, AgentSessionIsCurrent
    <2>1. recovery.network_available /\ ReportedState = TunnelState(tunnel, agent)
        BY Zenon DEF StateInv, PollInv, get_peer_connection_state
    <2>2. IsConnected(tunnel) /\ ReportedState = get_state(agent, tunnel.peer)
        BY <2>1, Zenon DEF TunnelState, IsConnected, Disconnected, ConnState
    <2>3. agent.is_connected /\ ReportedState.peer = tunnel.peer
        BY <2>2, Zenon DEF get_state, AgentReady, ConnState
    <2> QED
        BY <2>1, <2>2, <2>3 DEF SessionInv, AgentMode, MeetsPeer
<1> QED
    BY <1>1, <1>2, NextCandidates, NextSession, AgentInvariant, PollInvariant, PTL DEF Spec
-----------------------------------------------------------------------------
(* The agent's jails *)

\* The jails that the agent of the tunnel announced last, and not early, are those
\* that the handler has, and update_state has met no other peer.
JailsInv ==
    /\ pc = "start" => announced = NoJails
    /\ announced.jails # {} /\ ~announced.early /\ IsConnected(tunnel) /\ AgentMode =>
         /\ agent.jails = announced.jails
         /\ agent.last_peer \in {None, tunnel.peer}

\* What a message does to the jails.
LEMMA MessageJails ==
    ASSUME NEW peer, NEW h \in AgentHandlers(peer), NEW m \in AgentMessages
    PROVE  handle_message(h, m).jails = IF m.type = "Jails" THEN m.value ELSE h.jails
<1>1. CASE m.type = "Jails"
    <2>1. handle_message(h, m) = [h EXCEPT !.jails = m.value]
        BY <1>1 DEF handle_message
    <2> QED
        BY <1>1, <2>1, Zenon DEF AgentHandlers
<1>2. CASE m.type # "Jails"
    BY <1>2, Zenon DEF handle_message, AgentHandlers
<1> QED
    BY <1>1, <1>2, Zenon

\* Every step keeps JailsInv: update_state clears the jails of a peer that it has
\* met and not those of the peer that it meets.
LEMMA NextJails == ApiInv /\ AgentInv /\ JailsInv /\ [Next]_vars => JailsInv'
<1> SUFFICES ASSUME ApiInv, AgentInv, JailsInv, [Next]_vars
             PROVE  JailsInv'
    OBVIOUS
<1> USE DEF AgentMode
<1>0. (AgentMode' /\ UNCHANGED agent => AgentMode) /\ (pc' = "start" => pc = "start")
    BY StepFrame DEF Frame
<1>1. CASE PullAgentMessage
    <2>1. agent \in AgentHandlers(agent.last_peer)
        BY <1>1, Zenon DEF PullAgentMessage, AgentInv
    <2>2. PICK m \in AgentMessages :
            /\ agent' = handle_message(agent, m)
            /\ announced' = IF m.type = "Jails"
                  THEN Announcement(m.value, agent.last_peer \notin {None, tunnel.peer})
                  ELSE announced
        BY <1>1, AgentAssumption, Zenon DEF PullAgentMessage
    <2>3. /\ agent'.last_peer = agent.last_peer
          /\ agent'.jails = IF m.type = "Jails" THEN m.value ELSE agent.jails
        BY <2>1, <2>2, MessageSessions, MessageJails, Zenon
    <2>4. pc = "agent" /\ pc' = "agent" /\ UNCHANGED tunnel
        BY <1>1, Zenon DEF PullAgentMessage, peerVars
    <2>5. CASE m.type = "Jails"
        <3>1. /\ announced'.jails = m.value
              /\ ~announced'.early => agent.last_peer \in {None, tunnel.peer}
            BY <2>2, <2>5, Zenon DEF Announcement
        <3> QED
            BY <2>3, <2>4, <2>5, <3>1, Zenon DEF JailsInv
    <2>6. CASE m.type # "Jails"
        BY <2>2, <2>3, <2>4, <2>6 DEF JailsInv, IsConnected
    <2> QED
        BY <2>5, <2>6, Zenon
<1>2. CASE UpdateState
    <2>1. UNCHANGED <<tunnel, announced>> /\ pc = "update" /\ pc' = "poll"
        BY <1>2, Zenon DEF UpdateState, peerVars
    <2>2. CASE MeetsPeer
        <3>1. agent' = on_connected_to_peer(agent, tunnel.peer)
            BY <1>2, <2>2, Zenon DEF UpdateState
        <3>2. agent \in AgentHandlers(agent.last_peer) /\ agent # None
            BY <2>2 DEF AgentInv, MeetsPeer
        <3>3. agent'.last_peer = tunnel.peer
            BY <3>1, <3>2, PeerTypes DEF AgentHandlers
        <3>4. agent.last_peer \in {None, tunnel.peer} => agent'.jails = agent.jails
            BY <3>1, <3>2, Zenon DEF on_connected_to_peer, AgentHandlers
        <3> QED
            BY <2>1, <3>2, <3>3, <3>4 DEF JailsInv, IsConnected
    <2>3. CASE ~MeetsPeer
        <3>1. UNCHANGED agent
            BY <1>2, <2>3, Zenon DEF UpdateState
        <3> QED
            BY <2>1, <3>1 DEF JailsInv, IsConnected
    <2> QED
        BY <2>2, <2>3
<1>3. CASE Start
    <2>1. announced' = NoJails /\ pc' = "messages"
        BY <1>3, Zenon DEF Start, sessionVars, JailsInv
    <2> QED
        BY <2>1 DEF JailsInv, NoJails, Announcement
<1>4. CASE ClientMoves
    BY <1>4 DEF ClientMoves, JailsInv, NoJails, Announcement
<1>5. CASE UNCHANGED <<agent, announced>> /\ (IsConnected(tunnel') => UNCHANGED tunnel)
    BY <1>0, <1>5 DEF JailsInv, IsConnected
<1>6. CASE HandleUpdate
    <2>1. UNCHANGED <<agent, announced>>
        BY <1>6, Zenon DEF HandleUpdate, agentVars, sessionVars
    <2>2. UNCHANGED tunnel \/ tunnel' = NoTunnel
        BY <1>6, Zenon DEF HandleUpdate, update_peers, peerVars
    <2> QED
        BY <1>5, <2>1, <2>2 DEF IsConnected, NoTunnel
<1> QED
    BY <1>1, <1>2, <1>3, <1>4, <1>5, <1>6, StepFrame DEF Frame, peerVars

\* The jails that the agent of the tunnel announced last are reported whenever the
\* thread blocks, in whatever order its messages came (get_wait_reason, get_state);
\* the exception is an announcement that came before update_state met a new peer,
\* which on_connected_to_peer clears.
THEOREM JailIsReported == Spec => []JailsReported
<1>1. Init => JailsInv
    BY DEF Init, JailsInv, NoJails, Announcement
<1>2. StateInv /\ PollInv /\ AgentInv /\ JailsInv => JailsReported
    <2> SUFFICES ASSUME StateInv, PollInv, AgentInv, JailsInv, pc = "polling", MeetsPeer,
                        announced.jails # {}, ~announced.early
                 PROVE  /\ ReportedState.kind = "ConnectingToLocalAgent"
                        /\ ReportedState.wait \in {WaitReason("HardJailed", announced.jails),
                                                   WaitReason("SoftJailed", {})}
        BY Zenon DEF JailsReported
    <2>1. ReportedState = get_state(agent, tunnel.peer)
        BY DEF StateInv, PollInv, get_peer_connection_state, TunnelState, IsConnected, MeetsPeer
    <2>2. agent.jails = announced.jails
        BY Zenon DEF JailsInv, AgentMode, MeetsPeer
    <2>3. get_wait_reason(agent) \in {WaitReason("HardJailed", announced.jails),
                                      WaitReason("SoftJailed", {})}
        BY <2>2 DEF get_wait_reason
    <2>4. announced.jails \in SUBSET JailReasons
        BY <2>2 DEF AgentInv, AgentHandlers, MeetsPeer
    <2>5. ~AgentReady(agent)
        BY <2>3, <2>4, WaitReasonAssumption DEF AgentReady
    <2> QED
        BY <2>1, <2>3, <2>5, Zenon DEF get_state, ConnState
<1> QED
    BY <1>1, <1>2, NextJails, AgentInvariant, PollInvariant, PTL DEF Spec
-----------------------------------------------------------------------------
(* The agent's statistics *)

\* Of the statistics that the application waits for, every field answered since
\* update_state is in the accumulator; a full one is handed over at once.
StatsInv ==
    /\ pc = "start" => ~owed_stats
    /\ AgentMode \/ owed_stats => agent.stats \subseteq StatFields /\ agent.stats # StatFields
    /\ owed_stats => answered \subseteq agent.stats

\* What a message does to the statistics.
LEMMA MessageStats ==
    ASSUME NEW peer, NEW h \in AgentHandlers(peer), NEW m \in AgentMessages
    PROVE  /\ m.type = "Stats" =>
                /\ handle_message(h, m).stats = Accumulate(h.stats, m.field)
                /\ h.stats \cup {m.field} = StatFields =>
                     message_event(h, m) = "LocalAgentStats"
           /\ m.type # "Stats" => handle_message(h, m).stats = h.stats
<1>1. CASE m.type = "Stats"
    <2>1. handle_message(h, m) = [h EXCEPT !.stats = Accumulate(@, m.field)]
        BY <1>1 DEF handle_message
    <2>2. handle_message(h, m).stats = Accumulate(h.stats, m.field)
        BY <2>1, Zenon DEF AgentHandlers
    <2>3. h.stats \cup {m.field} = StatFields => message_event(h, m) = "LocalAgentStats"
        BY <1>1 DEF message_event
    <2> QED
        BY <1>1, <2>2, <2>3
<1>2. CASE m.type # "Stats"
    BY <1>2, Zenon DEF handle_message, AgentHandlers
<1> QED
    BY <1>1, <1>2, Zenon

\* Every step keeps StatsInv.
LEMMA NextStats == ApiInv /\ AgentInv /\ StatsInv /\ [Next]_vars => StatsInv'
<1> SUFFICES ASSUME ApiInv, AgentInv, StatsInv, [Next]_vars
             PROVE  StatsInv'
    OBVIOUS
<1> USE DEF AgentMode
<1>0. /\ pc' = "agent" => pc = "agent" \/ agent # None
      /\ pc' = "start" => pc = "start"
    BY StepFrame DEF Frame
<1>1. CASE PullAgentMessage
    <2>1. agent \in AgentHandlers(agent.last_peer)
        BY <1>1 DEF PullAgentMessage, AgentInv
    <2>2. PICK m \in AgentMessages :
            /\ agent' = handle_message(agent, m)
            /\ IF m.type = "Stats" THEN answered' = answered \cup {m.field}
               ELSE UNCHANGED answered
            /\ owed_stats' = (owed_stats /\ message_event(agent, m) # "LocalAgentStats")
        BY <1>1, AgentAssumption, Zenon DEF PullAgentMessage
    <2>3. pc = "agent" /\ pc' = "agent"
        BY <1>1 DEF PullAgentMessage
    <2>4. CASE m.type = "Stats"
        <3>1. m.field \in StatFields /\ agent.stats \subseteq StatFields
            BY <2>3, <2>4 DEF AgentMessages, StatsInv
        <3>2. agent'.stats = Accumulate(agent.stats, m.field)
            BY <2>1, <2>2, <2>4, MessageStats, Zenon
        <3>3. CASE agent.stats \cup {m.field} = StatFields
            <4>1. agent'.stats = {} /\ ~owed_stats'
                BY <2>1, <2>2, <2>4, <3>2, <3>3, MessageStats, Zenon DEF Accumulate
            <4> QED
                BY <2>3, <4>1, AgentAssumption DEF StatsInv
        <3>4. CASE agent.stats \cup {m.field} # StatFields
            <4>1. /\ agent'.stats = agent.stats \cup {m.field}
                  /\ answered' = answered \cup {m.field} /\ (owed_stats' => owed_stats)
                BY <2>2, <2>4, <3>2, <3>4, Zenon DEF Accumulate
            <4> QED
                BY <2>3, <3>1, <3>4, <4>1, Zenon DEF StatsInv
        <3> QED
            BY <3>3, <3>4, Zenon
    <2>5. CASE m.type # "Stats"
        <3>1. agent'.stats = agent.stats
            BY <2>1, <2>2, <2>5, MessageStats, Zenon
        <3> QED
            BY <2>2, <2>3, <2>5, <3>1, Zenon DEF StatsInv
    <2> QED
        BY <2>4, <2>5, Zenon
<1>2. CASE UpdateState
    <2>1. answered' = {} /\ UNCHANGED owed_stats /\ pc = "update" /\ pc' = "poll"
        BY <1>2, Zenon DEF UpdateState
    <2>2. CASE MeetsPeer
        <3>1. agent' = on_connected_to_peer(agent, tunnel.peer) /\ agent # None
            BY <1>2, <2>2, Zenon DEF UpdateState, MeetsPeer
        <3>2. agent'.stats = {}
            BY <3>1, Zenon DEF on_connected_to_peer, AgentInv, AgentHandlers
        <3> QED
            BY <2>1, <3>2, AgentAssumption DEF StatsInv
    <2>3. CASE ~MeetsPeer
        <3>1. UNCHANGED agent
            BY <1>2, <2>3, Zenon DEF UpdateState
        <3> QED
            BY <2>1, <3>1, Zenon DEF StatsInv
    <2> QED
        BY <2>2, <2>3
<1>3. CASE Start
    <2>1. agent' = None \/ agent' = new_agent
        BY <1>3, Zenon DEF Start
    <2>2. pc = "start" /\ pc' = "messages" /\ UNCHANGED owed_stats
        BY <1>3, Zenon DEF Start, statsVars
    <2> QED
        BY <2>1, <2>2, AgentAssumption DEF StatsInv, new_agent
<1>4. CASE HandleRequestLocalAgentStats
    <2>1. UNCHANGED <<agent, pc>> /\ pc = "messages"
        BY <1>4 DEF HandleRequestLocalAgentStats, Receive
    <2>2. UNCHANGED <<answered, owed_stats>> \/ (agent # None /\ answered' = {})
        BY <1>4, Zenon DEF HandleRequestLocalAgentStats, statsVars
    <2> QED
        BY <2>1, <2>2 DEF StatsInv
<1>5. CASE ClientMoves
    <2>1. UNCHANGED <<agent, pc>> /\ ~owed_stats'
        BY <1>5, Zenon DEF ClientMoves, loopVars
    <2> QED
        BY <2>1 DEF StatsInv
<1>6. CASE UNCHANGED <<agent, answered, owed_stats>>
    BY <1>0, <1>6 DEF StatsInv
<1> QED
    BY <1>1, <1>2, <1>3, <1>4, <1>5, <1>6, StepFrame, Zenon DEF Frame

\* The application never waits for statistics of which every field has been
\* answered since it asked and since update_state (LocalAgentStatsAccumulator),
\* in one pull or in several, whatever an older request has left behind.
THEOREM StatsAreDelivered == Spec => []AnsweredStatsDelivered
<1>1. Init => StatsInv
    BY DEF Init, StatsInv, AgentMode
<1>2. StatsInv => AnsweredStatsDelivered
    BY DEF StatsInv, AnsweredStatsDelivered
<1> QED
    BY <1>1, <1>2, NextStats, AgentInvariant, PollInvariant, PTL DEF Spec
=============================================================================
