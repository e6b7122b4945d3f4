--------------------------- MODULE StreamLoopProofs ---------------------------
(***************************************************************************)
(* What the steps of StreamLoop keep on either platform: types, and where  *)
(* the thread can be while streams are left to write or to read; that the  *)
(* bytes written are on the wire and in the buffer, in order; and that a   *)
(* step that changes either is one of StreamTransport.                     *)
(***************************************************************************)
EXTENDS StreamLoop, SequenceTheorems, WellFoundedInduction, TLAPS

USE IdsAssumption, SizeAssumption

\* A stream that is not open holds nothing, and only TCP streams have a buffer.
Holdings ==
    /\ \A s \in Ids \ open : rx[s] = <<>> /\ status[s] = "up" /\ write_buffer[s] = <<>>
    /\ \A s \in Ids \ TcpIds : write_buffer[s] = <<>>

\* A stream left to read is read before the next poll, and one left to write
\* before that.
Rounds ==
    /\ pc \in {"flush", "set_wait"} => current \in open
    /\ pc = "flush" => current \in TcpIds
    /\ writable \subseteq open
    /\ reading = {} => again = {}
    /\ reading # {} =>
        \/ pc = "results"
        \/ pc \in {"pull", "flush", "set_wait"} /\ pull_to = "results"
        \/ pc \in {"flush", "set_wait"} /\ flush_to = "results"
    /\ writable # {} => pc = "results" \/ (pc \in {"flush", "set_wait"} /\ flush_to = "results")

LoopInv == LoopTypeOK /\ Holdings /\ Rounds

\* Nothing is held or left at first.
LEMMA InitLoop == LoopInit => LoopInv
BY DEF LoopInit, LoopInv, LoopTypeOK, SocketTypeOK, ThreadTypeOK, Holdings, Rounds, Ids

\* What the network does concerns streams that are open, and no step of the thread.
LEMMA NetworkLoop ==
    ASSUME LoopInv, NEW s \in Ids,
           DataArrives(s) \/ RoomGrows(s) \/ PeerFinishes(s) \/ SocketFails(s)
    PROVE  LoopInv'
<1> USE DEF NetUnchanged, tableVars, bufferVars, receiveVars, threadVars, LoopInv, LoopTypeOK
<1>1. SocketTypeOK'
    <2>1. CASE DataArrives(s)
        BY <2>1 DEF DataArrives, Payloads, SocketTypeOK
    <2>2. CASE RoomGrows(s)
        BY <2>2 DEF RoomGrows, SocketTypeOK
    <2>3. CASE PeerFinishes(s)
        BY <2>3 DEF PeerFinishes, SocketTypeOK
    <2>4. CASE SocketFails(s)
        <3>1. rx' \in [Ids -> Seq({"data", "empty"})]
            BY <2>4, EmptySeq DEF SocketFails, SocketTypeOK
        <3>2. QED
            BY <2>4, <3>1 DEF SocketFails, SocketTypeOK
    <2>5. QED
        BY <2>1, <2>2, <2>3, <2>4
<1>2. ThreadTypeOK' /\ Rounds'
    BY DEF DataArrives, RoomGrows, PeerFinishes, SocketFails, ThreadTypeOK, Rounds
<1>3. Holdings'
    BY Zenon DEF DataArrives, RoomGrows, PeerFinishes, SocketFails, SocketTypeOK, Holdings
<1>4. QED
    BY <1>1, <1>2, <1>3

\* Opening, closing and shutting down happen while nothing is left to write.
LEMMA TableLoop ==
    ASSUME LoopInv, NEW s \in Ids,
           OpenSocket(s) \/ OpenFails(s) \/ CloseSocket(s) \/ ShutdownWrite(s)
    PROVE  LoopInv'
<1> USE DEF RestUnchanged, tableVars, bufferVars, receiveVars, socketVars, threadVars, LoopInv,
            LoopTypeOK
<1>1. SocketTypeOK'
    <2>1. CASE OpenSocket(s) \/ OpenFails(s) \/ ShutdownWrite(s)
        BY <2>1 DEF OpenSocket, OpenFails, ShutdownWrite, SocketTypeOK, Ids
    <2>2. CASE CloseSocket(s)
        BY <2>2 DEF CloseSocket, Forget, SocketTypeOK
    <2>3. QED
        BY <2>1, <2>2
<1>2. ThreadTypeOK'
    BY DEF OpenSocket, OpenFails, CloseSocket, ShutdownWrite, ThreadTypeOK
<1>3. Rounds'
    BY DEF OpenSocket, OpenFails, CloseSocket, ShutdownWrite, Rounds
<1>4. Holdings'
    BY Zenon DEF OpenSocket, OpenFails, CloseSocket, ShutdownWrite, Forget, SocketTypeOK, Holdings
<1>5. QED
    BY <1>1, <1>2, <1>3, <1>4

\* A write goes to the buffer of an open TCP stream.
LEMMA WriteLoop ==
    ASSUME LoopInv, NEW s \in Ids, WriteTcp(s)
    PROVE  LoopInv'
<1> USE DEF tableVars, receiveVars, socketVars, LoopInv, LoopTypeOK
<1>1. PICK n \in 1..MaxChunk :
        /\ write_buffer' = [write_buffer EXCEPT ![s] = Append(@, NextBytes(s, n))]
        /\ written' = [written EXCEPT ![s] = @ + n]
    BY Zenon DEF WriteTcp
<1>2. NextBytes(s, n) \in Seq(Nat)
    BY <1>1 DEF NextBytes, SocketTypeOK
<1>3. SocketTypeOK'
    <2>1. write_buffer[s] \in Seq(Seq(Nat)) /\ written[s] + n \in Nat
        BY <1>1 DEF SocketTypeOK
    <2>2. Append(write_buffer[s], NextBytes(s, n)) \in Seq(Seq(Nat))
        BY <1>2, <2>1
    <2>3. write_buffer' \in [Ids -> Seq(Seq(Nat))]
        BY <1>1, <2>2 DEF SocketTypeOK
    <2>4. written' \in [Ids -> Nat]
        BY <1>1, <2>1 DEF SocketTypeOK
    <2>5. QED
        BY <2>3, <2>4, Zenon DEF WriteTcp, SocketTypeOK
<1>4. ThreadTypeOK' /\ Rounds'
    BY DEF WriteTcp, ThreadTypeOK, Rounds
<1>5. Holdings'
    BY <1>1, Zenon DEF WriteTcp, SocketTypeOK, Holdings
<1>6. QED
    BY <1>3, <1>4, <1>5

\* What is left of the buffer is a buffer.
LEMMA RestType ==
    ASSUME NEW buffer \in Seq(Seq(Nat)), buffer # <<>>, NEW n \in Nat, n <= Len(Head(buffer))
    PROVE  /\ Rest(buffer, n) \in Seq(Seq(Nat))
           /\ SubSeq(Head(buffer), 1, n) \in Seq(Nat)
<1>1. Head(buffer) \in Seq(Nat) /\ Tail(buffer) \in Seq(Seq(Nat))
    OBVIOUS
<1>2. SubSeq(Head(buffer), n + 1, Len(Head(buffer))) \in Seq(Nat)
    BY <1>1
<1>3. SubSeq(Head(buffer), 1, n) \in Seq(Nat)
    BY <1>1
<1>4. QED
    BY <1>1, <1>2, <1>3 DEF Rest

\* The element k of buffer is not empty, its bytes are consecutive, it begins where
\* the one before it ends, the first after the bytes in sent, and the last ends
\* with total.
Follows(sent, buffer, total, k) ==
    /\ Len(buffer[k]) > 0
    /\ \A j \in 1..Len(buffer[k]) : buffer[k][j] + 1 = buffer[k][1] + j
    /\ k = 1 => buffer[k][1] = Len(sent) + 1
    /\ k < Len(buffer) => buffer[k + 1][1] = buffer[k][1] + Len(buffer[k])
    /\ k = Len(buffer) => total + 1 = buffer[k][1] + Len(buffer[k])

\* The bytes 1..total, the first of them in sent, the others in buffer.
Consecutive(sent, buffer, total) ==
    /\ \A i \in 1..Len(sent) : sent[i] = i
    /\ \A k \in 1..Len(buffer) : Follows(sent, buffer, total, k)
    /\ buffer = <<>> => Len(sent) = total

\* What is in a buffer.
LEMMA BufferTypes ==
    ASSUME NEW buffer \in Seq(Seq(Nat)), NEW k \in 1..Len(buffer)
    PROVE  /\ buffer[k] \in Seq(Nat) /\ Len(buffer[k]) \in Nat
           /\ \A j \in 1..Len(buffer[k]) : buffer[k][j] \in Nat
<1>1. buffer[k] \in Seq(Nat)
    OBVIOUS
<1>2. QED
    BY <1>1

\* push_back of the bytes that follow.
LEMMA AppendConsecutive ==
    ASSUME NEW sent \in Seq(Nat), NEW buffer \in Seq(Seq(Nat)), NEW total \in Nat,
           NEW n \in Nat \ {0}, Consecutive(sent, buffer, total)
    PROVE  Consecutive(sent, Append(buffer, [i \in 1..n |-> total + i]), total + n)
<1> DEFINE chunk == [i \in 1..n |-> total + i]
           longer == Append(buffer, chunk)
<1>1. chunk \in Seq(Nat) /\ (\A j \in 1..n : chunk[j] = total + j) /\ Len(chunk) = n
    <2>1. chunk \in Seq(Nat)
        OBVIOUS
    <2>2. DOMAIN chunk = 1..n
        OBVIOUS
    <2>3. Len(chunk) = n
        BY <2>1, <2>2, LenProperties
    <2>4. QED
        BY <2>1, <2>3
<1> HIDE DEF chunk
<1>2. /\ Len(longer) = Len(buffer) + 1 /\ Len(buffer) \in Nat
      /\ \A k \in 1..Len(buffer) : longer[k] = buffer[k]
      /\ longer[Len(buffer) + 1] = chunk
      /\ longer # <<>>
    <2>1. buffer \in Seq(Seq(Nat)) /\ chunk \in Seq(Nat)
        BY <1>1
    <2>2. Len(buffer) \in Nat
        OBVIOUS
    <2>3. QED
        <3>1. Len(longer) = Len(buffer) + 1
            BY <2>1, <2>2
        <3>2. \A k \in 1..Len(buffer) : longer[k] = buffer[k]
            BY <2>1, <2>2
        <3>3. longer[Len(buffer) + 1] = chunk
            BY <2>1, <2>2
        <3>4. longer # <<>>
            <4> HIDE DEF longer
            <4>1. Len(longer) # 0
                BY <2>2, <3>1
            <4>2. QED
                BY <4>1
        <3>5. QED
            BY <2>2, <3>1, <3>2, <3>3, <3>4
<1> HIDE DEF longer
<1>3. Len(sent) \in Nat /\ (Len(buffer) = 0 => Len(sent) = total)
    BY DEF Consecutive
<1>4. ASSUME NEW k \in 1..Len(longer)
      PROVE  Follows(sent, longer, total + n, k)
    <2>1. CASE k = Len(buffer) + 1
        <3>1. k = 1 => total = Len(sent)
            BY <1>2, <1>3, <2>1
        <3>2. longer[k] = chunk /\ k = Len(longer)
            BY <1>2, <2>1
        <3>3. chunk[1] = total + 1
            BY <1>1
        <3>4. \A j \in 1..n : chunk[j] + 1 = chunk[1] + j
            BY <1>1, <3>3
        <3>5. k \in Nat /\ n > 0 /\ total + n + 1 = chunk[1] + n
            <4>1. Len(longer) \in Nat
                BY <1>2
            <4>2. QED
                BY <3>3, <4>1
        <3>6. QED
            <4>1. Len(longer[k]) > 0 /\ \A j \in 1..Len(longer[k]) : longer[k][j] + 1 = longer[k][1] + j
                BY <1>1, <3>2, <3>4, <3>5
            <4>2. k = 1 => longer[k][1] = Len(sent) + 1
                BY <3>1, <3>2, <3>3
            <4>3. ~(k < Len(longer)) /\ total + n + 1 = longer[k][1] + Len(longer[k])
                BY <1>1, <3>2, <3>5
            <4>4. QED
                BY <4>1, <4>2, <4>3 DEF Follows
    <2>2. CASE k \in 1..Len(buffer)
        <3>1. /\ Follows(sent, buffer, total, k)
              /\ Len(buffer[k]) \in Nat /\ \A j \in 1..Len(buffer[k]) : buffer[k][j] \in Nat
            BY <2>2, BufferTypes DEF Consecutive
        <3>2. longer[k] = buffer[k] /\ k < Len(longer)
            BY <1>2, <2>2
        <3>3. longer[k + 1][1] = buffer[k][1] + Len(buffer[k])
            <4>1. CASE k = Len(buffer)
                BY <1>1, <1>2, <3>1, <4>1 DEF Follows
            <4>2. CASE k < Len(buffer)
                <5>1. k + 1 \in 1..Len(buffer)
                    BY <1>2, <2>2, <4>2
                <5>2. longer[k + 1] = buffer[k + 1]
                    BY <1>2, <5>1
                <5>3. QED
                    BY <3>1, <4>2, <5>2 DEF Follows
            <4>3. QED
                BY <1>2, <2>2, <4>1, <4>2
        <3>4. k # Len(longer)
            BY <1>2, <2>2
        <3>5. QED
            BY <3>1, <3>2, <3>3, <3>4, Zenon DEF Follows
    <2>3. k = Len(buffer) + 1 \/ k \in 1..Len(buffer)
        BY <1>2
    <2>4. QED
        BY <2>1, <2>2, <2>3
<1>5. \A i \in 1..Len(sent) : sent[i] = i
    BY DEF Consecutive
<1>6. Consecutive(sent, longer, total + n)
    BY <1>2, <1>4, <1>5 DEF Consecutive
<1>7. QED
    BY <1>6 DEF longer, chunk

\* A write of n bytes.
LEMMA RestConsecutive ==
    ASSUME NEW sent \in Seq(Nat), NEW buffer \in Seq(Seq(Nat)), NEW total \in Nat,
           buffer # <<>>, NEW n \in 1..Len(Head(buffer)), Consecutive(sent, buffer, total)
    PROVE  Consecutive(sent \o SubSeq(Head(buffer), 1, n), Rest(buffer, n), total)
<1> DEFINE first == Head(buffer)
           part == SubSeq(first, 1, n)
           more == sent \o part
<1>1. /\ first \in Seq(Nat) /\ first = buffer[1]
      /\ Len(buffer) \in Nat /\ Len(buffer) >= 1 /\ Len(sent) \in Nat
    OBVIOUS
<1> HIDE DEF first
<1>2. /\ Len(first) \in Nat /\ n \in Nat /\ 1 <= n /\ n <= Len(first)
      /\ \A j \in 1..Len(first) : first[j] \in Nat
    <2>1. Len(first) \in Nat /\ \A j \in 1..Len(first) : first[j] \in Nat
        BY <1>1
    <2>2. n \in 1..Len(first)
        BY DEF first
    <2>3. QED
        BY <2>1, <2>2
<1>2a. Len(sent) \in Nat /\ Len(first) \in Nat /\ n \in Nat /\ Len(buffer) \in Nat
    BY <1>1, <1>2
<1>3. \A j \in 1..Len(first) : first[j] = Len(sent) + j
    <2>1. Follows(sent, buffer, total, 1)
        BY <1>1 DEF Consecutive
    <2>2. first[1] = Len(sent) + 1 /\ \A j \in 1..Len(first) : first[j] + 1 = first[1] + j
        BY <1>1, <2>1 DEF Follows
    <2>3. QED
        <3> SUFFICES ASSUME NEW j \in 1..Len(first) PROVE first[j] = Len(sent) + j
            OBVIOUS
        <3>1. j \in Nat /\ first[j] \in Nat /\ first[j] + 1 = Len(sent) + 1 + j
            BY <1>2, <2>2
        <3>2. \A a, b, c \in Nat : a + 1 = b + 1 + c => a = b + c
            OBVIOUS
        <3>3. Len(sent) \in Nat
            BY <1>1
        <3>4. QED
            BY <3>1, <3>2, <3>3, Zenon
<1>4. part \in Seq(Nat) /\ Len(part) = n /\ \A j \in 1..n : part[j] = first[j]
    <2>1. \A i \in 1..n : first[i] \in Nat
        BY <1>2
    <2>2. QED
        BY <1>2, <2>1, SubSeqProperties
<1> HIDE DEF part
<1>5. Len(more) = Len(sent) + n /\ \A i \in 1..Len(more) : more[i] = i
    <2>1. /\ Len(more) = Len(sent) + n
          /\ \A i \in 1..Len(more) : more[i] = IF i <= Len(sent) THEN sent[i] ELSE part[i - Len(sent)]
        <3>1. /\ Len(more) = Len(sent) + Len(part)
              /\ \A i \in 1..Len(sent) + Len(part) :
                    more[i] = IF i <= Len(sent) THEN sent[i] ELSE part[i - Len(sent)]
            <4>1. sent \in Seq(Nat) /\ part \in Seq(Nat)
                BY <1>4
            <4>2. Len(more) = Len(sent) + Len(part)
                BY <4>1
            <4>3. \A i \in 1..Len(sent) + Len(part) :
                    more[i] = IF i <= Len(sent) THEN sent[i] ELSE part[i - Len(sent)]
                BY <4>1
            <4>4. QED
                BY <4>2, <4>3
        <3>2. QED
            BY <1>4, <3>1
    <2>2. \A i \in 1..Len(sent) : sent[i] = i
        BY DEF Consecutive
    <2>3. ASSUME NEW i \in 1..Len(more)
          PROVE  more[i] = i
        <3>1. CASE i <= Len(sent)
            BY <1>1, <1>2, <2>1, <2>2, <3>1
        <3>2. CASE i > Len(sent)
            <4>1. i - Len(sent) \in 1..n
                BY <1>1, <1>2, <2>1, <3>2
            <4>2. i - Len(sent) \in 1..Len(first)
                BY <1>2, <4>1
            <4>3. part[i - Len(sent)] = Len(sent) + (i - Len(sent))
                BY <1>3, <1>4, <4>1, <4>2, Zenon
            <4>4. QED
                BY <1>1, <1>2, <2>1, <3>2, <4>3
        <3>3. QED
            BY <1>1, <1>2, <2>1, <3>1, <3>2
    <2>4. QED
        BY <2>1, <2>3
<1> HIDE DEF more
<1>6. /\ Tail(buffer) \in Seq(Seq(Nat)) /\ Len(Tail(buffer)) = Len(buffer) - 1
      /\ \A k \in 1..Len(Tail(buffer)) : Tail(buffer)[k] = buffer[k + 1]
    BY HeadTailProperties
<1>7. CASE n < Len(first)
    <2> DEFINE left == SubSeq(first, n + 1, Len(first))
               rest == <<left>> \o Tail(buffer)
    <2>1. /\ left \in Seq(Nat) /\ Len(left) = Len(first) - n
          /\ \A j \in 1..Len(left) : left[j] = Len(sent) + n + j
        <3>1. \A i \in n + 1 .. Len(first) : first[i] \in Nat
            BY <1>2
        <3>2. /\ left \in Seq(Nat) /\ Len(left) = Len(first) - n
              /\ \A j \in 1..Len(first) - n : left[j] = first[n + j]
            BY <1>1, <1>2, <1>7
        <3>3. \A j \in 1..Len(first) - n : first[n + j] = Len(sent) + n + j
            <4> SUFFICES ASSUME NEW j \in 1..Len(first) - n PROVE first[n + j] = Len(sent) + n + j
                BY Zenon
            <4>1. n + j \in 1..Len(first)
                BY <1>2
            <4>2. first[n + j] = Len(sent) + (n + j)
                BY <1>3, <4>1
            <4>3. QED
                BY <1>1, <1>2, <4>2
        <3>4. QED
            BY <3>2, <3>3, Zenon
    <2> HIDE DEF left
    <2>2. /\ Len(rest) = Len(buffer) /\ rest[1] = left
          /\ \A k \in 2..Len(buffer) : rest[k] = buffer[k]
          /\ rest # <<>>
        <3>1. Len(rest) = 1 + Len(Tail(buffer)) /\ rest[1] = left
            BY <1>6, <2>1
        <3>2. \A k \in 2..Len(rest) : rest[k] = Tail(buffer)[k - 1]
            BY <1>6, <2>1
        <3> HIDE DEF rest
        <3>3. Len(rest) = Len(buffer)
            BY <1>1, <1>6, <3>1
        <3>4. ASSUME NEW k \in 2..Len(buffer)
              PROVE  rest[k] = buffer[k]
            <4>1. k - 1 \in 1..Len(Tail(buffer)) /\ k - 1 + 1 = k
                BY <1>1, <1>6
            <4>2. QED
                BY <1>6, <3>2, <3>3, <4>1
        <3>5. Len(rest) # 0
            BY <1>1, <3>3
        <3>6. rest # <<>>
            BY <3>5
        <3>7. QED
            BY <3>1, <3>3, <3>4, <3>6
    <2> HIDE DEF rest
    <2>3. ASSUME NEW k \in 1..Len(rest)
          PROVE  Follows(more, rest, total, k)
        <3>0. /\ Follows(sent, buffer, total, k) /\ k \in Nat
              /\ Len(buffer[k]) \in Nat /\ \A j \in 1..Len(buffer[k]) : buffer[k][j] \in Nat
            <4>1. k \in 1..Len(buffer)
                BY <2>2
            <4>2. Follows(sent, buffer, total, k)
                BY <4>1 DEF Consecutive
            <4>3. Len(buffer[k]) \in Nat /\ \A j \in 1..Len(buffer[k]) : buffer[k][j] \in Nat
                BY <4>1, BufferTypes
            <4>4. k \in Nat
                BY <1>2a, <4>1
            <4>5. QED
                BY <4>2, <4>3, <4>4
        <3>1. k < Len(rest) => rest[k + 1] = buffer[k + 1] /\ k < Len(buffer)
            BY <1>1, <2>2, <3>0
        <3>2. CASE k = 1
            <4>1. rest[k] = left /\ buffer[k] = first
                BY <1>1, <2>2, <3>2
            <4>2. /\ left[1] = Len(sent) + n + 1 /\ Len(left) > 0
                  /\ \A j \in 1..Len(left) : left[j] + 1 = left[1] + j
                <5>1. Len(left) \in Nat /\ Len(left) > 0
                    BY <1>2, <1>7, <2>1
                <5>2. left[1] = Len(sent) + n + 1
                    BY <2>1, <5>1
                <5>3. ASSUME NEW j \in 1..Len(left)
                      PROVE  left[j] + 1 = left[1] + j
                    <6>1. left[j] = Len(sent) + n + j
                        BY <2>1
                    <6>2. QED
                        BY <1>2a, <5>1, <5>2, <6>1
                <5>4. QED
                    BY <5>1, <5>2, <5>3
            <4>3. left[1] + Len(left) = first[1] + Len(first)
                <5>1. first[1] = Len(sent) + 1
                    BY <1>2, <1>3
                <5>2. Len(left) = Len(first) - n
                    BY <2>1
                <5>3. QED
                    BY <1>2a, <4>2, <5>1, <5>2
            <4>4. k = 1 => rest[k][1] = Len(more) + 1
                BY <1>5, <4>1, <4>2
            <4>5. k < Len(rest) => rest[k + 1][1] = rest[k][1] + Len(rest[k])
                <5>1. k < Len(buffer) => buffer[k + 1][1] = buffer[k][1] + Len(buffer[k])
                    BY <3>0, Zenon DEF Follows
                <5>2. QED
                    BY <3>1, <4>1, <4>3, <5>1
            <4>6. k = Len(rest) => total + 1 = rest[k][1] + Len(rest[k])
                BY <2>2, <3>0, <4>1, <4>3 DEF Follows
            <4>7. QED
                BY <4>1, <4>2, <4>4, <4>5, <4>6 DEF Follows
        <3>3. CASE k # 1
            <4>1. k \in 2..Len(buffer)
                BY <1>1, <2>2, <3>3
            <4>2. rest[k] = buffer[k]
                BY <2>2, <4>1
            <4>3. QED
                BY <2>2, <3>0, <3>1, <3>3, <4>2 DEF Follows
        <3>4. QED
            BY <3>2, <3>3
    <2>4. Rest(buffer, n) = rest
        BY <1>7 DEF Rest, rest, left, first
    <2>5. Consecutive(more, rest, total)
        BY <1>5, <2>2, <2>3 DEF Consecutive
    <2>6. QED
        BY <2>4, <2>5 DEF more, part, first
<1>8. CASE n = Len(first)
    <2> DEFINE rest == Tail(buffer)
    <2>1. ~(n < Len(first))
        BY <1>2, <1>8
    <2>2. Rest(buffer, n) = rest
        BY <2>1 DEF Rest, first
    <2>3. Follows(sent, buffer, total, 1)
        BY <1>1 DEF Consecutive
    <2>4. first[1] = Len(sent) + 1
        BY <1>1, <2>3 DEF Follows
    <2>4a. Len(rest) = Len(buffer) - 1
        BY <1>6
    <2> HIDE DEF rest
    <2>5. rest = <<>> => Len(more) = total
        <3>1. rest = <<>> => Len(buffer) = 1
            <4>1. rest = <<>> => Len(rest) = 0
                OBVIOUS
            <4>2. QED
                BY <1>2a, <2>4a, <4>1
        <3>2. Len(buffer) = 1 => total + 1 = first[1] + Len(first)
            BY <1>1, <2>3 DEF Follows
        <3>3. QED
            <4>1. Len(more) = Len(sent) + n
                BY <1>5
            <4>2. ASSUME rest = <<>> PROVE total = Len(sent) + n
                <5>1. total + 1 = (Len(sent) + 1) + n
                    BY <1>8, <2>4, <3>1, <3>2, <4>2
                <5>2. \A a, b, c \in Nat : a + 1 = (b + 1) + c => a = b + c
                    OBVIOUS
                <5>3. QED
                    BY <1>2a, <5>1, <5>2, Zenon
            <4>3. QED
                BY <4>1, <4>2
    <2>6. ASSUME NEW k \in 1..Len(rest)
          PROVE  Follows(more, rest, total, k)
        <3>1. /\ k \in Nat /\ k + 1 \in 1..Len(buffer) /\ rest[k] = buffer[k + 1]
              /\ Len(rest) = Len(buffer) - 1
            BY <1>1, <1>6 DEF rest
        <3>2. /\ Follows(sent, buffer, total, k + 1)
              /\ Len(rest[k]) \in Nat /\ \A j \in 1..Len(rest[k]) : rest[k][j] \in Nat
            BY <3>1, BufferTypes, Zenon DEF Consecutive
        <3>3. Len(rest[k]) > 0 /\ \A j \in 1..Len(rest[k]) : rest[k][j] + 1 = rest[k][1] + j
            BY <3>1, <3>2 DEF Follows
        <3>4. k = 1 => rest[k][1] = Len(more) + 1
            <4>1. 1 < Len(buffer) => buffer[1 + 1][1] = first[1] + Len(first)
                BY <1>1, <2>3 DEF Follows
            <4>2. k = 1 => rest[k][1] = first[1] + Len(first)
                BY <1>1, <3>1, <4>1
            <4>3. QED
                <5>1. Len(more) = Len(sent) + n
                    BY <1>5
                <5>2. QED
                    BY <1>2a, <1>8, <2>4, <4>2, <5>1
        <3>5. k < Len(rest) => rest[k + 1][1] = rest[k][1] + Len(rest[k])
            <4>1. k < Len(rest) => k + 1 \in 1..Len(rest) /\ k + 1 < Len(buffer)
                <5>1. Len(rest) = Len(buffer) - 1 /\ k \in Nat /\ k >= 1
                    BY <3>1, <2>4a
                <5>2. \A a, b, c \in Nat :
                        c = b - 1 /\ a >= 1 /\ a < c => a + 1 \in 1..c /\ a + 1 < b
                    OBVIOUS
                <5>3. Len(rest) \in Nat
                    BY <1>2a, <1>6 DEF rest
                <5>4. QED
                    BY <1>2a, <5>1, <5>2, <5>3
            <4>2. k < Len(rest) => rest[k + 1] = buffer[k + 1 + 1]
                BY <1>6, <4>1 DEF rest
            <4>3. k + 1 < Len(buffer) =>
                    buffer[k + 1 + 1][1] = buffer[k + 1][1] + Len(buffer[k + 1])
                BY <3>2, Zenon DEF Follows
            <4>4. rest[k] = buffer[k + 1]
                BY <3>1, Zenon
            <4>5. QED
                BY <4>1, <4>2, <4>3, <4>4, Zenon
        <3>6. k = Len(rest) => total + 1 = rest[k][1] + Len(rest[k])
            <4>1. k = Len(rest) => k + 1 = Len(buffer)
                BY <1>1, <3>1
            <4>2. QED
                BY <3>1, <3>2, <4>1 DEF Follows
        <3>7. QED
            BY <3>3, <3>4, <3>5, <3>6 DEF Follows
    <2>7. Consecutive(more, rest, total)
        BY <1>5, <2>5, <2>6 DEF Consecutive
    <2>8. QED
        BY <2>2, <2>7 DEF more, part, first
<1>9. QED
    BY <1>2, <1>7, <1>8

\* write_from_buffer changes the stream it is called for, and returns to where it
\* was called from.
LEMMA FlushLoop ==
    ASSUME LoopInv,
           FlushWrites \/ (pc \in {"flush", "set_wait"} /\ WriteReturns)
    PROVE  LoopInv'
<1> USE DEF tableVars, bufferVars, receiveVars, socketVars, threadVars, LoopInv, LoopTypeOK
<1>1. CASE FlushWrites
    <2> DEFINE n == Smaller(room[current], Len(Head(Buffer)))
    <2>1. /\ Buffer \in Seq(Seq(Nat)) /\ Buffer # <<>>
          /\ n \in Nat /\ n <= Len(Head(Buffer)) /\ n <= room[current]
        <3>1. Buffer \in Seq(Seq(Nat)) /\ Buffer # <<>> /\ room[current] \in Nat
            BY <1>1 DEF FlushWrites, Buffer, SocketTypeOK, ThreadTypeOK
        <3>2. Head(Buffer) \in Seq(Nat)
            BY <3>1
        <3>3. Len(Head(Buffer)) \in Nat
            BY <3>2
        <3>4. QED
            BY <3>1, <3>3 DEF Smaller
    <2>2. /\ Rest(Buffer, n) \in Seq(Seq(Nat))
          /\ SubSeq(Head(Buffer), 1, n) \in Seq(Nat)
        BY <2>1, RestType
    <2>3. /\ wire' = [wire EXCEPT ![current] = @ \o SubSeq(Head(Buffer), 1, n)]
          /\ write_buffer' = [write_buffer EXCEPT ![current] = Rest(Buffer, n)]
          /\ room' = [room EXCEPT ![current] = @ - n]
        BY <1>1 DEF FlushWrites, Buffer
    <2> HIDE DEF n
    <2>4. SocketTypeOK'
        <3>1. wire' \in [Ids -> Seq(Nat)] /\ write_buffer' \in [Ids -> Seq(Seq(Nat))]
            BY <2>2, <2>3 DEF SocketTypeOK, ThreadTypeOK
        <3>2. room[current] \in 0..MaxRoom /\ room[current] - n \in 0..MaxRoom
            BY <2>1 DEF SocketTypeOK, ThreadTypeOK
        <3>3. room' \in [Ids -> 0..MaxRoom]
            BY <2>3, <3>2 DEF SocketTypeOK, ThreadTypeOK
        <3>4. QED
            BY <1>1, <3>1, <3>3, Zenon DEF FlushWrites, SocketTypeOK
    <2>5. Holdings'
        BY <1>1, <2>3, Zenon DEF FlushWrites, Buffer, SocketTypeOK, ThreadTypeOK, Holdings, Rounds
    <2>6. QED
        BY <1>1, <2>4, <2>5 DEF FlushWrites, ThreadTypeOK, Rounds
<1>2. CASE pc \in {"flush", "set_wait"} /\ WriteReturns
    <2>1. SocketTypeOK' /\ Holdings'
        BY <1>2, Zenon DEF WriteReturns, SocketTypeOK, Holdings
    <2>2. ThreadTypeOK' /\ Rounds'
        BY <1>2 DEF WriteReturns, ThreadTypeOK, Rounds, Ids
    <2>3. QED
        BY <2>1, <2>2, Zenon
<1>3. QED
    BY <1>1, <1>2

\* The rounds of read_from_streams.
LEMMA ReadLoop ==
    ASSUME LoopInv, NEW s \in Ids,
           ReadData(s) \/ ReadEmpty(s) \/ ReadError(s) \/ ReadClosed(s) \/ ReadNothing(s)
    PROVE  LoopInv'
<1> USE DEF tableVars, bufferVars, receiveVars, socketVars, threadVars, LoopInv, LoopTypeOK
<1>1. SocketTypeOK'
    <2>1. CASE ReadData(s) \/ ReadEmpty(s)
        <3>1. rx[s] \in Seq({"data", "empty"}) /\ rx[s] # <<>>
            BY <2>1, Zenon DEF ReadData, ReadEmpty, HasData, SocketTypeOK
        <3>2. Tail(rx[s]) \in Seq({"data", "empty"})
            BY <3>1
        <3>3. rx' \in [Ids -> Seq({"data", "empty"})]
            BY <2>1, <3>2, Zenon DEF ReadData, ReadEmpty, SocketTypeOK
        <3>4. QED
            BY <2>1, <3>3, Zenon DEF ReadData, ReadEmpty, SocketTypeOK
    <2>2. CASE ReadError(s) \/ ReadClosed(s) \/ ReadNothing(s)
        BY <2>2, Zenon DEF ReadError, ReadClosed, ReadNothing, SocketTypeOK
    <2>3. QED
        BY <2>1, <2>2
<1>2. ThreadTypeOK'
    BY DEF ReadData, ReadEmpty, ReadError, ReadClosed, ReadNothing, ReadOn, ThreadTypeOK
<1>3. Rounds'
    BY DEF ReadData, ReadEmpty, ReadError, ReadClosed, ReadNothing, ReadOn, CanRead, Rounds
<1>4. Holdings'
    BY Zenon DEF ReadData, ReadEmpty, ReadError, ReadClosed, ReadNothing, HasData, SocketTypeOK,
       Holdings
<1>5. QED
    BY <1>1, <1>2, <1>3, <1>4

\* The other steps of the thread.
LEMMA ThreadLoop ==
    ASSUME LoopInv,
           MessagesEnd \/ PullEnds \/ ReadsDone \/ (\E s \in Ids : HandleWritable(s))
    PROVE  LoopInv'
<1> USE DEF RestUnchanged, tableVars, bufferVars, receiveVars, socketVars, LoopInv, LoopTypeOK
<1>1. SocketTypeOK' /\ Holdings'
    BY DEF MessagesEnd, PullEnds, ReadsDone, HandleWritable, SocketTypeOK, Holdings
<1>2. ThreadTypeOK' /\ Rounds'
    BY DEF MessagesEnd, PullEnds, ReadsDone, HandleWritable, ThreadTypeOK, Rounds
<1>3. QED
    BY <1>1, <1>2

\* Of every TCP stream, what is on the wire and what is in the buffer is all that
\* was written, in order.
Ordered == \A s \in TcpIds : Consecutive(wire[s], write_buffer[s], written[s])

\* Nothing is written at first.
LEMMA InitOrdered == LoopInit => Ordered
BY DEF LoopInit, Ordered, Consecutive, Ids

\* The steps that change a buffer or the wire.
BufferStep ==
    \/ \E s \in Ids : Forget(s)
    \/ \E s \in TcpIds : WriteTcp(s)
    \/ FlushWrites

\* Only they concern the order, and they keep it.
LEMMA KeepOrder ==
    ASSUME LoopInv, Ordered, BufferStep \/ UNCHANGED bufferVars
    PROVE  Ordered'
<1>1. /\ write_buffer \in [Ids -> Seq(Seq(Nat))] /\ written \in [Ids -> Nat]
      /\ wire \in [Ids -> Seq(Nat)] /\ room \in [Ids -> 0..MaxRoom]
      /\ TcpIds \subseteq Ids /\ current \in Ids /\ (pc = "flush" => current \in TcpIds)
    BY DEF LoopInv, LoopTypeOK, SocketTypeOK, ThreadTypeOK, Rounds, Ids
<1>2. ASSUME NEW s \in TcpIds,
             UNCHANGED <<write_buffer[s], written[s], wire[s]>>
      PROVE  Consecutive(wire[s], write_buffer[s], written[s])'
    BY <1>2 DEF Ordered
<1>3. CASE UNCHANGED bufferVars
    BY <1>3 DEF Ordered, bufferVars
<1>4. ASSUME NEW s \in Ids, Forget(s)
      PROVE  Ordered'
    <2>1. ASSUME NEW t \in TcpIds, t = s
          PROVE  Consecutive(wire[t], write_buffer[t], written[t])'
        <3>1. write_buffer'[t] = <<>> /\ wire'[t] = <<>> /\ written'[t] = 0
            BY <1>1, <1>4, <2>1 DEF Forget
        <3>2. Consecutive(<<>>, <<>>, 0)
            BY DEF Consecutive
        <3>3. QED
            BY <3>1, <3>2
    <2>2. ASSUME NEW t \in TcpIds, t # s
          PROVE  UNCHANGED <<write_buffer[t], written[t], wire[t]>>
        BY <1>1, <1>4, <2>2 DEF Forget
    <2>3. QED
        BY <1>2, <2>1, <2>2 DEF Ordered
<1>5. ASSUME NEW s \in TcpIds, WriteTcp(s)
      PROVE  Ordered'
    <2>1. PICK n \in 1..MaxChunk :
            /\ write_buffer' = [write_buffer EXCEPT ![s] = Append(@, NextBytes(s, n))]
            /\ written' = [written EXCEPT ![s] = @ + n]
        BY <1>5, Zenon DEF WriteTcp
    <2>2. wire' = wire
        BY <1>5 DEF WriteTcp
    <2>3. Consecutive(wire[s], Append(write_buffer[s], NextBytes(s, n)), written[s] + n)
        <3>1. /\ wire[s] \in Seq(Nat) /\ write_buffer[s] \in Seq(Seq(Nat)) /\ written[s] \in Nat
              /\ n \in Nat \ {0}
            BY <1>1
        <3>2. Consecutive(wire[s], write_buffer[s], written[s])
            BY DEF Ordered
        <3>3. QED
            BY <3>1, <3>2, AppendConsecutive DEF NextBytes
    <2>4. /\ write_buffer'[s] = Append(write_buffer[s], NextBytes(s, n))
          /\ written'[s] = written[s] + n /\ wire'[s] = wire[s]
        BY <1>1, <2>1, <2>2
    <2>5. ASSUME NEW t \in TcpIds, t # s
          PROVE  UNCHANGED <<write_buffer[t], written[t], wire[t]>>
        BY <1>1, <2>1, <2>2, <2>5
    <2>6. Consecutive(wire[s], write_buffer[s], written[s])'
        BY <2>3, <2>4
    <2>7. QED
        BY <1>2, <2>5, <2>6 DEF Ordered
<1>6. CASE FlushWrites
    <2> DEFINE n == Smaller(room[current], Len(Head(Buffer)))
    <2>1. /\ wire' = [wire EXCEPT ![current] = @ \o SubSeq(Head(Buffer), 1, n)]
          /\ write_buffer' = [write_buffer EXCEPT ![current] = Rest(Buffer, n)]
          /\ written' = written /\ current \in TcpIds
          /\ Buffer \in Seq(Seq(Nat)) /\ Buffer # <<>>
        BY <1>1, <1>6 DEF FlushWrites, Buffer
    <2>2. /\ wire[current] \in Seq(Nat) /\ written[current] \in Nat
          /\ Consecutive(wire[current], Buffer, written[current])
        BY <1>1, <2>1 DEF Ordered, Buffer
    <2>3. n \in 1..Len(Head(Buffer))
        <3>1. 1 \in 1..Len(Buffer) /\ Head(Buffer) = Buffer[1]
            BY <2>1
        <3>2. Len(Head(Buffer)) \in Nat /\ Len(Head(Buffer)) > 0
            BY <2>1, <2>2, <3>1, BufferTypes DEF Consecutive, Follows
        <3>3. room[current] \in Nat /\ room[current] > 0
            BY <1>1, <1>6 DEF FlushWrites
        <3>4. QED
            BY <3>2, <3>3 DEF Smaller
    <2> HIDE DEF n
    <2>4. Consecutive(wire[current] \o SubSeq(Head(Buffer), 1, n), Rest(Buffer, n), written[current])
        BY <2>1, <2>2, <2>3, RestConsecutive
    <2>5. /\ wire'[current] = wire[current] \o SubSeq(Head(Buffer), 1, n)
          /\ write_buffer'[current] = Rest(Buffer, n) /\ written'[current] = written[current]
        BY <1>1, <2>1, Zenon
    <2>6. current' = current
        BY <1>6 DEF FlushWrites, threadVars
    <2>7. ASSUME NEW t \in TcpIds, t # current
          PROVE  UNCHANGED <<write_buffer[t], written[t], wire[t]>>
        BY <1>1, <2>1, <2>7
    <2>8. ASSUME NEW t \in TcpIds
          PROVE  Consecutive(wire[t], write_buffer[t], written[t])'
        <3>1. CASE t = current
            BY <2>4, <2>5, <3>1, Zenon
        <3>2. CASE t # current
            BY <1>2, <2>7, <3>2
        <3>3. QED
            BY <3>1, <3>2
    <2>9. QED
        BY <2>8 DEF Ordered
<1>7. QED
    BY <1>3, <1>4, <1>5, <1>6 DEF BufferStep

\* What the order says of the wire.
LEMMA OrderedIsSent == LoopInv /\ Ordered => SentInOrder
<1> SUFFICES ASSUME LoopInv, Ordered, NEW s \in TcpIds
             PROVE  /\ \A i \in DOMAIN wire[s] : wire[s][i] = i
                    /\ write_buffer[s] = <<>> => Len(wire[s]) = written[s]
    BY Zenon DEF SentInOrder
<1>1. wire[s] \in Seq(Nat)
    BY DEF LoopInv, LoopTypeOK, SocketTypeOK, Ids
<1>2. DOMAIN wire[s] = 1..Len(wire[s])
    BY <1>1, LenProperties
<1>3. QED
    BY <1>2 DEF Ordered, Consecutive
-----------------------------------------------------------------------------
(* The bytes of a write buffer *)

\* Every set of natural numbers that is not empty has a least element.
LEMMA LeastElement ==
    ASSUME NEW S \in SUBSET Nat, S # {}
    PROVE  \E m \in S : \A k \in S : m <= k
<1> DEFINE R == OpToRel(<, Nat)
<1>1. IsWellFoundedOn(R, Nat)
    BY NatLessThanWellFounded, Zenon
<1>2. \A k, m \in Nat : k < m => <<k, m>> \in R
    BY Zenon DEF OpToRel
<1> HIDE DEF R
<1>3. PICK m \in S : \A k \in S : <<k, m>> \notin R
    BY <1>1, WFMin, Zenon
<1>4. \A k \in S : ~(k < m)
    BY <1>2, <1>3, Zenon
<1> QED
    BY <1>3, <1>4

\* The n numbers after first.
Run(first, n) == [i \in 1..n |-> first + i]

\* A run is a sequence.
LEMMA RunType ==
    ASSUME NEW first \in Nat, NEW n \in Nat
    PROVE  /\ Run(first, n) \in Seq(Nat) /\ Len(Run(first, n)) = n
           /\ \A i \in 1..n : Run(first, n)[i] = first + i
<1>1. Run(first, n) \in Seq(Nat)
    BY DEF Run
<1>2. DOMAIN Run(first, n) = 1..n
    BY DEF Run
<1>3. Len(Run(first, n)) = n
    BY <1>1, <1>2, LenProperties
<1>4. QED
    BY <1>1, <1>3 DEF Run

\* A sequence of consecutive numbers is a run.
LEMMA IsRun ==
    ASSUME NEW seq \in Seq(Nat), NEW first \in Nat, NEW n \in Nat, Len(seq) = n,
           \A i \in 1..n : seq[i] = first + i
    PROVE  seq = Run(first, n)
<1>1. Run(first, n) \in Seq(Nat) /\ Len(Run(first, n)) = n
    BY RunType, Zenon
<1>2. \A i \in 1..n : seq[i] = Run(first, n)[i]
    BY RunType, Zenon
<1>3. QED
    BY <1>1, <1>2, SeqEqual, Zenon

\* Two runs that follow each other are one.
LEMMA RunConcat ==
    ASSUME NEW first \in Nat, NEW m \in Nat, NEW n \in Nat
    PROVE  Run(first, m) \o Run(first + m, n) = Run(first, m + n)
<1> DEFINE front == Run(first, m)
           back == Run(first + m, n)
<1>1. /\ front \in Seq(Nat) /\ Len(front) = m /\ \A i \in 1..m : front[i] = first + i
      /\ back \in Seq(Nat) /\ Len(back) = n /\ \A i \in 1..n : back[i] = first + m + i
    <2>1. first + m \in Nat
        OBVIOUS
    <2>2. QED
        BY <2>1, RunType, Zenon
<1> HIDE DEF front, back
<1>2. /\ front \o back \in Seq(Nat) /\ Len(front \o back) = m + n
      /\ \A i \in 1..(m + n) : (front \o back)[i] = IF i <= m THEN front[i] ELSE back[i - m]
    <2>1. front \in Seq(Nat) /\ back \in Seq(Nat)
        BY <1>1, Zenon
    <2>2. /\ front \o back \in Seq(Nat) /\ Len(front \o back) = Len(front) + Len(back)
          /\ \A i \in 1..(Len(front) + Len(back)) :
                (front \o back)[i] = IF i <= Len(front) THEN front[i] ELSE back[i - Len(front)]
        BY <2>1, ConcatProperties, Zenon
    <2>3. Len(front) = m /\ Len(back) = n
        BY <1>1, Zenon
    <2>4. QED
        BY <2>2, <2>3
<1>3. ASSUME NEW i \in 1..(m + n) PROVE (front \o back)[i] = first + i
    <2>1. CASE i <= m
        BY <1>1, <1>2, <2>1
    <2>2. CASE ~(i <= m)
        <3>1. i - m \in 1..n
            BY <2>2
        <3>2. back[i - m] = first + m + (i - m)
            BY <1>1, <3>1
        <3>3. QED
            BY <1>2, <2>2, <3>2
    <2>3. QED
        BY <2>1, <2>2, Zenon
<1>4. m + n \in Nat
    OBVIOUS
<1>5. QED
    BY <1>2, <1>3, <1>4, IsRun, Zenon DEF front, back

\* The first numbers of a run are a run.
LEMMA RunFront ==
    ASSUME NEW first \in Nat, NEW m \in Nat, NEW n \in Nat, n <= m
    PROVE  SubSeq(Run(first, m), 1, n) = Run(first, n)
<1> DEFINE whole == Run(first, m)
<1>1. whole \in Seq(Nat) /\ Len(whole) = m /\ \A i \in 1..m : whole[i] = first + i
    BY RunType
<1> HIDE DEF whole
<1>2. /\ SubSeq(whole, 1, n) \in Seq(Nat) /\ Len(SubSeq(whole, 1, n)) = n
      /\ \A i \in 1..n : SubSeq(whole, 1, n)[i] = first + i
    BY <1>1
<1>3. QED
    BY <1>2, IsRun, Zenon DEF whole

\* So are those that are left.
LEMMA RunRest ==
    ASSUME NEW first \in Nat, NEW m \in Nat, NEW n \in Nat, n <= m
    PROVE  SubSeq(Run(first, m), n + 1, m) = Run(first + n, m - n)
<1> DEFINE whole == Run(first, m)
<1>1. whole \in Seq(Nat) /\ Len(whole) = m /\ \A i \in 1..m : whole[i] = first + i
    BY RunType
<1> HIDE DEF whole
<1>2. m - n \in Nat /\ first + n \in Nat
    OBVIOUS
<1>3. /\ SubSeq(whole, n + 1, m) \in Seq(Nat) /\ Len(SubSeq(whole, n + 1, m)) = m - n
      /\ \A i \in 1..(m - n) : SubSeq(whole, n + 1, m)[i] = whole[n + i]
    BY <1>1
<1>4. \A i \in 1..(m - n) : n + i \in 1..m /\ first + (n + i) = (first + n) + i
    OBVIOUS
<1>5. \A i \in 1..(m - n) : SubSeq(whole, n + 1, m)[i] = (first + n) + i
    BY <1>1, <1>3, <1>4
<1>6. QED
    BY <1>2, <1>3, <1>5, IsRun, Zenon DEF whole

\* The bytes of the write buffer are those that were written and are not on the
\* wire: the elements of the buffer follow each other.
LEMMA BytesAre ==
    ASSUME NEW sent \in Seq(Nat), NEW buffer \in Seq(Seq(Nat)), NEW total \in Nat,
           Consecutive(sent, buffer, total)
    PROVE  Len(sent) <= total /\ Bytes(buffer) = Run(Len(sent), total - Len(sent))
<1> DEFINE
      a == Len(sent)
      N == Len(buffer)
      start == [k \in 1..N |-> buffer[k][1]]
      size == [k \in 1..N |-> Len(buffer[k])]
<1>1. a \in Nat /\ N \in Nat
    OBVIOUS
<1>2. ASSUME NEW k \in 1..N
      PROVE  /\ buffer[k] \in Seq(Nat) /\ start[k] \in Nat /\ size[k] \in Nat /\ size[k] > 0
             /\ Len(buffer[k]) = size[k]
             /\ \A j \in 1..size[k] : buffer[k][j] \in Nat /\ buffer[k][j] + 1 = start[k] + j
             /\ k = 1 => start[k] = a + 1
             /\ k < N => start[k + 1] = start[k] + size[k]
             /\ k = N => total + 1 = start[k] + size[k]
    <2>1. Follows(sent, buffer, total, k)
        BY DEF Consecutive
    <2>2. /\ buffer[k] \in Seq(Nat) /\ Len(buffer[k]) \in Nat
          /\ \A j \in 1..Len(buffer[k]) : buffer[k][j] \in Nat
        BY BufferTypes
    <2>3. start[k] = buffer[k][1] /\ size[k] = Len(buffer[k])
        OBVIOUS
    <2>4. k < N => k + 1 \in 1..N
        BY <1>1
    <2>5. k < N => start[k + 1] = buffer[k + 1][1]
        BY <2>4
    <2> HIDE DEF start, size
    <2>6. Len(buffer[k]) > 0
        BY <2>1 DEF Follows
    <2>7. 1 \in 1..Len(buffer[k])
        BY <2>2, <2>6
    <2>8. start[k] \in Nat
        BY <2>2, <2>3, <2>7
    <2>9. QED
        BY <2>1, <2>2, <2>3, <2>5, <2>6, <2>8 DEF Follows
<1>3. N = 0 => a = total
    BY DEF Consecutive
<1> HIDE DEF a, N, start, size
<1>4. \A k \in 1..N : start[k] > a
    <2> DEFINE Bad == {k \in 1..N : ~(start[k] > a)}
    <2>1. SUFFICES ASSUME Bad # {} PROVE FALSE
        BY Zenon
    <2>2. Bad \in SUBSET Nat
        BY <1>1
    <2>3. PICK m \in Bad : \A k \in Bad : m <= k
        BY <2>1, <2>2, LeastElement, Zenon
    <2>4. m \in 1..N /\ ~(start[m] > a) /\ m # 1
        <3>1. m \in 1..N /\ ~(start[m] > a)
            BY <2>3, Zenon
        <3>2. m = 1 => start[m] = a + 1
            BY <1>2, <3>1, Zenon
        <3>3. a + 1 > a
            BY <1>1
        <3>4. QED
            BY <3>1, <3>2, <3>3, Zenon
    <2>5. m - 1 \in 1..N /\ m - 1 < N /\ m - 1 < m /\ (m - 1) + 1 = m
        BY <1>1, <2>4
    <2>6. start[m - 1] > a
        BY <1>1, <2>3, <2>5
    <2>7. start[m] = start[m - 1] + size[m - 1]
        BY <1>2, <2>5
    <2>8. start[m - 1] \in Nat /\ size[m - 1] \in Nat
        BY <1>2, <2>5
    <2>9. QED
        BY <1>1, <2>4, <2>6, <2>7, <2>8
<1> DEFINE end == [k \in 0..N |-> IF k = 0 THEN 0 ELSE (start[k] + size[k]) - (a + 1)]
<1>5. ASSUME NEW k \in 1..N
      PROVE  /\ k \in 0..N /\ k - 1 \in 0..N /\ k # 0
             /\ end[k] \in Nat /\ end[k - 1] \in Nat
             /\ end[k] = end[k - 1] + size[k]
             /\ \A j \in 1..size[k] : buffer[k][j] = (a + end[k - 1]) + j
    <2>1. k \in 0..N /\ k - 1 \in 0..N /\ k # 0 /\ (k # 1 => k - 1 \in 1..N /\ k - 1 < N /\ (k - 1) + 1 = k)
        BY <1>1
    <2>2. end[k] = (start[k] + size[k]) - (a + 1)
        BY <2>1
    <2>3. end[k - 1] = IF k = 1 THEN 0 ELSE (start[k - 1] + size[k - 1]) - (a + 1)
        BY <2>1
    <2> HIDE DEF end
    <2>4. start[k] = a + 1 + end[k - 1] /\ end[k - 1] \in Nat
        <3>1. CASE k = 1
            BY <1>1, <1>2, <2>3, <3>1
        <3>2. CASE k # 1
            <4>1. start[k] = start[k - 1] + size[k - 1]
                BY <1>2, <2>1, <3>2
            <4>2. start[k - 1] \in Nat /\ size[k - 1] \in Nat /\ start[k - 1] > a
                BY <1>2, <1>4, <2>1, <3>2
            <4>3. QED
                BY <1>1, <2>3, <3>2, <4>1, <4>2
        <3>3. QED
            BY <3>1, <3>2
    <2>5. start[k] \in Nat /\ size[k] \in Nat
        BY <1>2
    <2>6. end[k] = end[k - 1] + size[k] /\ end[k] \in Nat
        <3> DEFINE e == end[k - 1]
                   first == start[k]
                   n == size[k]
        <3>1. /\ e \in Nat /\ first \in Nat /\ n \in Nat /\ first = a + 1 + e
              /\ end[k] = (first + n) - (a + 1)
            BY <2>2, <2>4, <2>5, Zenon
        <3> HIDE DEF e, first, n
        <3>2. (first + n) - (a + 1) = e + n /\ e + n \in Nat
            BY <1>1, <3>1
        <3>3. QED
            BY <3>1, <3>2, Zenon DEF e, n
    <2>7. ASSUME NEW j \in 1..size[k] PROVE buffer[k][j] = (a + end[k - 1]) + j
        <3>1. buffer[k][j] \in Nat /\ buffer[k][j] + 1 = start[k] + j
            BY <1>2, Zenon
        <3>2. j \in Int
            BY <2>5
        <3> DEFINE x == buffer[k][j]
                   y == start[k]
                   e == end[k - 1]
        <3>3. x \in Int /\ y \in Int /\ e \in Int /\ x + 1 = y + j /\ y = a + 1 + e
            <4>1. x \in Nat /\ y \in Nat /\ e \in Nat
                BY <2>4, <2>5, <3>1, Zenon
            <4>2. x + 1 = y + j /\ y = a + 1 + e
                BY <2>4, <3>1, Zenon
            <4>3. QED
                BY <4>1, <4>2
        <3> HIDE DEF x, y, e
        <3>4. x = (a + e) + j
            BY <1>1, <3>2, <3>3
        <3>5. QED
            BY <3>4 DEF x, e
    <2>8. QED
        BY <2>1, <2>4, <2>6, <2>7
<1>6. end[0] = 0 /\ 0 \in 0..N
    BY <1>1
<1> HIDE DEF end
<1>7. end[N] = total - a /\ end[N] \in Nat
    <2>1. CASE N = 0
        BY <1>1, <1>3, <1>6, <2>1
    <2>2. CASE N # 0
        <3>1. N \in 1..N
            BY <1>1, <2>2
        <3>2. total + 1 = start[N] + size[N] /\ start[N] \in Nat /\ size[N] \in Nat
            BY <1>2, <3>1
        <3>3. end[N] = (start[N] + size[N]) - (a + 1)
            BY <3>1 DEF end
        <3>4. QED
            BY <1>1, <1>5, <3>1, <3>2, <3>3
    <2>3. QED
        BY <2>1, <2>2
<1> DEFINE
      closed == [k \in 0..N |-> Run(a, end[k])]
      Loop(f) == f = [k \in 0..N |-> IF k = 0 THEN <<>> ELSE f[k - 1] \o buffer[k]]
      upto == CHOOSE f : Loop(f)
<1>8. ASSUME NEW k \in 1..N PROVE Run(a, end[k]) = Run(a, end[k - 1]) \o buffer[k]
    <2>0. end[k - 1] \in Nat /\ size[k] \in Nat /\ buffer[k] \in Seq(Nat) /\ Len(buffer[k]) = size[k]
        BY <1>2, <1>5, Zenon
    <2>1. buffer[k] = Run(a + end[k - 1], size[k])
        <3>1. a + end[k - 1] \in Nat
            BY <1>1, <2>0
        <3>2. \A j \in 1..size[k] : buffer[k][j] = (a + end[k - 1]) + j
            BY <1>5, Zenon
        <3>3. QED
            BY <2>0, <3>1, <3>2, IsRun, Zenon
    <2>2. Run(a, end[k - 1]) \o Run(a + end[k - 1], size[k]) = Run(a, end[k - 1] + size[k])
        <3>1. a \in Nat /\ end[k - 1] \in Nat /\ size[k] \in Nat
            BY <1>1, <2>0, Zenon
        <3>2. QED
            BY <3>1, RunConcat, Zenon
    <2>3. end[k] = end[k - 1] + size[k]
        BY <1>5
    <2>4. QED
        BY <2>1, <2>2, <2>3, Zenon
<1>9. Run(a, 0) = <<>>
    BY DEF Run
<1>10. Loop(closed)
    <2>1. ASSUME NEW k \in 0..N
          PROVE  Run(a, end[k]) = IF k = 0 THEN <<>> ELSE closed[k - 1] \o buffer[k]
        <3>1. CASE k = 0
            BY <1>6, <1>9, <3>1
        <3>2. CASE k # 0
            <4>1. k \in 1..N /\ k - 1 \in 0..N
                BY <1>1, <3>2
            <4>2. closed[k - 1] = Run(a, end[k - 1])
                BY <4>1
            <4>3. QED
                BY <1>8, <3>2, <4>1, <4>2, Zenon
        <3>3. QED
            BY <3>1, <3>2, Zenon
    <2>2. QED
        BY <2>1, Zenon
<1>11. Loop(upto)
    BY <1>10, Zenon
<1>12. \A k \in 0..N : closed[k] = Run(a, end[k])
    OBVIOUS
<1>13. \A k \in 0..N : upto[k] = IF k = 0 THEN <<>> ELSE upto[k - 1] \o buffer[k]
    <2> HIDE DEF upto
    <2>1. QED
        BY <1>11, Zenon
<1>14. Bytes(buffer) = upto[N]
    BY Zenon DEF Bytes, N
<1> HIDE DEF closed, upto, Loop
<1>15. \A k \in 0..N : upto[k] = Run(a, end[k])
    <2> DEFINE Bad == {k \in 0..N : upto[k] # Run(a, end[k])}
    <2>1. SUFFICES ASSUME Bad # {} PROVE FALSE
        BY Zenon
    <2>2. Bad \in SUBSET Nat
        BY <1>1
    <2>3. PICK m \in Bad : \A k \in Bad : m <= k
        BY <2>1, <2>2, LeastElement, Zenon
    <2>4. m \in 0..N /\ upto[m] # Run(a, end[m])
        BY <2>3
    <2>5. m # 0
        BY <1>6, <1>9, <1>13, <2>4
    <2>6. m \in 1..N /\ m - 1 \in 0..N /\ ~(m <= m - 1)
        BY <1>1, <2>4, <2>5
    <2>7. upto[m - 1] = Run(a, end[m - 1])
        BY <2>3, <2>6
    <2>8. upto[m] = upto[m - 1] \o buffer[m]
        BY <1>13, <2>4, <2>5, Zenon
    <2>9. QED
        BY <1>8, <2>4, <2>6, <2>7, <2>8, Zenon
<1>16. N \in 0..N
    BY <1>1
<1>17. Bytes(buffer) = Run(a, end[N])
    BY <1>14, <1>15, <1>16, Zenon
<1>18. a <= total
    BY <1>1, <1>7
<1>19. QED
    BY <1>7, <1>17, <1>18 DEF a
-----------------------------------------------------------------------------
(* The transport *)

\* What a step can do to what the transport sees.
StreamStep ==
    \/ UNCHANGED <<open, bufferVars, rx>>
    \/ \E s \in Ids : OpenSocket(s)
    \/ \E s \in Ids : Forget(s) /\ open' \in {open \cup {s}, open \ {s}}
    \/ \E s \in TcpIds : WriteTcp(s)
    \/ FlushWrites
    \/ \E s \in Ids : DataArrives(s) \/ SocketFails(s) \/ ReadData(s) \/ ReadEmpty(s)

\* A stream that is not open has sent nothing.
Fresh == \A s \in Ids \ open : wire[s] = <<>>

\* Only an open stream sends.
LEMMA KeepFresh ==
    ASSUME LoopInv, Fresh, StreamStep
    PROVE  Fresh'
<1>1. /\ open \subseteq Ids /\ wire \in [Ids -> Seq(Nat)]
      /\ pc = "flush" => current \in open
    BY DEF LoopInv, LoopTypeOK, SocketTypeOK, Rounds
<1>2. CASE open \subseteq open' /\ wire' = wire
    BY <1>2 DEF Fresh
<1>3. ASSUME NEW s \in Ids, Forget(s), open' \in {open \cup {s}, open \ {s}}
      PROVE  Fresh'
    <2>1. wire' = [wire EXCEPT ![s] = <<>>]
        BY <1>3, Zenon DEF Forget
    <2>2. QED
        BY <1>1, <1>3, <2>1 DEF Fresh
<1>4. CASE FlushWrites
    <2>1. /\ open' = open /\ current \in open
          /\ \E x : wire' = [wire EXCEPT ![current] = x]
        BY <1>1, <1>4, Zenon DEF FlushWrites, tableVars
    <2>2. QED
        BY <1>1, <2>1 DEF Fresh
<1>5. CASE \E s \in Ids : OpenSocket(s)
    BY <1>2, <1>5 DEF OpenSocket, bufferVars
<1>6. CASE \E s \in TcpIds : WriteTcp(s)
    BY <1>2, <1>6 DEF WriteTcp, tableVars
<1>7. CASE \E s \in Ids : DataArrives(s) \/ SocketFails(s)
    BY <1>2, <1>7 DEF DataArrives, SocketFails, NetUnchanged, tableVars, bufferVars
<1>8. CASE \E s \in Ids : ReadData(s) \/ ReadEmpty(s)
    BY <1>2, <1>8, Zenon DEF ReadData, ReadEmpty, tableVars, bufferVars
<1>9. CASE UNCHANGED <<open, bufferVars, rx>>
    BY <1>2, <1>9 DEF bufferVars
<1>10. QED
    BY <1>3, <1>4, <1>5, <1>6, <1>7, <1>8, <1>9 DEF StreamStep

\* Each of them keeps the order, and leaves a stream that is not open as new.
LEMMA StreamKeeps ==
    ASSUME LoopInv, Ordered, Fresh, StreamStep
    PROVE  Ordered' /\ Fresh'
<1>1. BufferStep \/ UNCHANGED bufferVars
    <2>1. CASE \E s \in Ids : OpenSocket(s)
        BY <2>1, Zenon DEF OpenSocket
    <2>2. CASE \E s \in Ids : DataArrives(s) \/ SocketFails(s)
        BY <2>2 DEF DataArrives, SocketFails, NetUnchanged
    <2>3. CASE \E s \in Ids : ReadData(s) \/ ReadEmpty(s)
        BY <2>3, Zenon DEF ReadData, ReadEmpty
    <2>4. CASE UNCHANGED <<open, bufferVars, rx>>
        BY <2>4
    <2>5. QED
        BY <2>1, <2>2, <2>3, <2>4, Zenon DEF StreamStep, BufferStep
<1>2. QED
    BY <1>1, KeepOrder, KeepFresh, Zenon

\* An empty buffer has no bytes.
LEMMA NoBytes == Bytes(<<>>) = <<>>
<1> DEFINE Loop(f) == f = [k \in 0..Len(<<>>) |-> IF k = 0 THEN <<>> ELSE f[k - 1] \o <<>>[k]]
           upto == CHOOSE f : Loop(f)
<1>1. Len(<<>>) = 0 /\ 0 \in 0..Len(<<>>)
    OBVIOUS
<1>2. Loop([k \in 0..Len(<<>>) |-> <<>>])
    BY <1>1
<1>3. Loop(upto)
    BY <1>2, Zenon
<1>4. Bytes(<<>>) = upto[Len(<<>>)]
    BY Zenon DEF Bytes
<1> HIDE DEF upto
<1>5. upto[0] = <<>>
    BY <1>1, <1>3
<1>6. QED
    BY <1>1, <1>4, <1>5, Zenon

\* At first there is the tun, and nothing is queued.
LEMMA InitTransport == LoopInit => Transport!Init /\ Fresh
<1> SUFFICES ASSUME LoopInit PROVE Transport!Init /\ Fresh
    OBVIOUS
<1>1. open \subseteq Ids /\ wire = [s \in Ids |-> <<>>] /\ rx = [s \in Ids |-> <<>>]
      /\ write_buffer = [s \in Ids |-> <<>>]
    BY DEF LoopInit, Ids
<1>2. Queue = [s \in Ids |-> <<>>]
    BY <1>1, NoBytes DEF Queue
<1>3. QED
    BY <1>1, <1>2 DEF Transport!Init, Fresh

\* A write puts the next bytes behind the queue.
LEMMA WriteAccepts ==
    ASSUME LoopInv, Ordered, Ordered', LoopInv', NEW s \in TcpIds, WriteTcp(s)
    PROVE  Transport!Accept(s)
<1>1. /\ write_buffer \in [Ids -> Seq(Seq(Nat))] /\ written \in [Ids -> Nat]
      /\ wire \in [Ids -> Seq(Nat)] /\ write_buffer' \in [Ids -> Seq(Seq(Nat))]
      /\ s \in Ids /\ s \in open
    BY Zenon DEF LoopInv, LoopTypeOK, SocketTypeOK, Ids, WriteTcp
<1>2. PICK n \in 1..MaxChunk :
        /\ write_buffer' = [write_buffer EXCEPT ![s] = Append(@, NextBytes(s, n))]
        /\ written' = [written EXCEPT ![s] = @ + n]
    BY Zenon DEF WriteTcp
<1>3. UNCHANGED <<open, wire, rx>>
    BY Zenon DEF WriteTcp, tableVars, socketVars, receiveVars
<1> DEFINE sent == Len(wire[s])
           total == written[s]
<1>4. sent \in Nat /\ total \in Nat /\ n \in Nat /\ total + n \in Nat
    BY <1>1
<1>5. sent <= total /\ Bytes(write_buffer[s]) = Run(sent, total - sent)
    <2>1. Consecutive(wire[s], write_buffer[s], written[s])
        BY DEF Ordered
    <2>2. wire[s] \in Seq(Nat) /\ write_buffer[s] \in Seq(Seq(Nat)) /\ written[s] \in Nat
        BY <1>1
    <2>3. QED
        BY <2>1, <2>2, BytesAre
<1>6. Bytes(write_buffer'[s]) = Run(sent, (total + n) - sent)
    <2>1. Consecutive(wire'[s], write_buffer'[s], written'[s])
        BY DEF Ordered
    <2>2. wire'[s] = wire[s] /\ written'[s] = total + n
        BY <1>1, <1>2, <1>3
    <2>3. Consecutive(wire[s], write_buffer'[s], total + n)
        BY <2>1, <2>2
    <2>4. wire[s] \in Seq(Nat) /\ write_buffer'[s] \in Seq(Seq(Nat))
        BY <1>1
    <2>5. QED
        BY <1>4, <2>3, <2>4, BytesAre, Zenon
<1> HIDE DEF sent, total
<1>7. Run(sent, (total + n) - sent) = Run(sent, total - sent) \o Run(total, n)
    <2>1. total - sent \in Nat /\ (total + n) - sent = (total - sent) + n /\ sent + (total - sent) = total
        BY <1>4, <1>5
    <2> DEFINE m == total - sent
    <2>2. m \in Nat
        BY <2>1
    <2> HIDE DEF m
    <2>3. sent \in Nat /\ m \in Nat /\ n \in Nat
        BY <1>4, <2>2, Zenon
    <2>4. Run(sent, m) \o Run(sent + m, n) = Run(sent, m + n)
        BY <2>3, RunConcat, Zenon
    <2>5. QED
        BY <2>1, <2>4, Zenon DEF m
<1>8. sent + Len(Queue[s]) = total /\ Queue[s] = Run(sent, total - sent)
    <2>1. Queue[s] = Run(sent, total - sent)
        BY <1>1, <1>5 DEF Queue
    <2>2. total - sent \in Nat /\ sent + (total - sent) = total
        BY <1>4, <1>5
    <2>3. Len(Run(sent, total - sent)) = total - sent
        BY <1>4, <2>2, RunType, Zenon
    <2>4. QED
        BY <2>1, <2>2, <2>3
<1>9. Queue' = [Queue EXCEPT ![s] = @ \o Run(total, n)]
    <2>1. \A t \in Ids \ {s} : write_buffer'[t] = write_buffer[t]
        BY <1>1, <1>2
    <2>2. Bytes(write_buffer'[s]) = Bytes(write_buffer[s]) \o Run(total, n)
        BY <1>5, <1>6, <1>7
    <2>3. QED
        BY <1>1, <2>1, <2>2, Zenon DEF Queue
<1>10. Queue' = [Queue EXCEPT ![s] = @ \o [i \in 1..n |-> (Len(wire[s]) + Len(Queue[s])) + i]]
    BY <1>8, <1>9, Zenon DEF Run, sent
<1>11. QED
    BY <1>1, <1>3, <1>10, Zenon DEF Transport!Accept

\* A write to the socket takes bytes from the front of the queue.
LEMMA FlushTransmits ==
    ASSUME LoopInv, Ordered, Ordered', LoopInv', FlushWrites
    PROVE  Transport!Transmit(current)
<1>1. /\ write_buffer \in [Ids -> Seq(Seq(Nat))] /\ written \in [Ids -> Nat]
      /\ wire \in [Ids -> Seq(Nat)] /\ write_buffer' \in [Ids -> Seq(Seq(Nat))]
      /\ wire' \in [Ids -> Seq(Nat)] /\ room \in [Ids -> 0..MaxRoom]
    BY DEF LoopInv, LoopTypeOK, SocketTypeOK
<1>2. current \in TcpIds /\ current \in open /\ current \in Ids /\ current' = current
    BY DEF LoopInv, Rounds, FlushWrites, Ids, threadVars
<1>3. UNCHANGED <<open, written, rx>>
    BY Zenon DEF FlushWrites, tableVars, receiveVars
<1> DEFINE s == current
           n == Smaller(room[s], Len(Head(Buffer)))
           sent == Len(wire[s])
           total == written[s]
<1>4. /\ wire' = [wire EXCEPT ![s] = @ \o SubSeq(Head(Buffer), 1, n)]
      /\ write_buffer' = [write_buffer EXCEPT ![s] = Rest(@, n)]
    BY Zenon DEF FlushWrites
<1>5. sent \in Nat /\ total \in Nat
    BY <1>1, <1>2
<1>6. /\ Consecutive(wire[s], write_buffer[s], written[s])
      /\ wire[s] \in Seq(Nat) /\ write_buffer[s] \in Seq(Seq(Nat)) /\ written[s] \in Nat
    BY <1>1, <1>2 DEF Ordered
<1>7. sent <= total /\ Bytes(write_buffer[s]) = Run(sent, total - sent)
    BY <1>6, BytesAre
<1>8. Buffer # <<>> /\ Buffer = write_buffer[s] /\ room[s] \in Nat /\ room[s] > 0
    BY <1>1, <1>2 DEF FlushWrites, Buffer
<1>9. /\ n \in Nat /\ n > 0 /\ SubSeq(Head(Buffer), 1, n) = Run(sent, n)
    <2>1. 1 \in 1..Len(Buffer) /\ Head(Buffer) = Buffer[1]
        BY <1>6, <1>8
    <2>2. Head(Buffer) \in Seq(Nat) /\ Len(Head(Buffer)) \in Nat
        BY <1>6, <1>8, <2>1
    <2>3. Follows(wire[s], Buffer, written[s], 1)
        BY <1>6, <1>8, <2>1 DEF Consecutive
    <2>4. /\ Len(Head(Buffer)) > 0
          /\ \A j \in 1..Len(Head(Buffer)) : Head(Buffer)[j] + 1 = (sent + 1) + j
        BY <2>1, <2>3 DEF Follows
    <2>5. n \in Nat /\ n > 0 /\ n <= Len(Head(Buffer))
        BY <1>8, <2>2, <2>4 DEF Smaller
    <2> DEFINE head == Head(Buffer)
    <2> HIDE DEF n, head
    <2>6. /\ SubSeq(head, 1, n) \in Seq(Nat) /\ Len(SubSeq(head, 1, n)) = n
          /\ \A i \in 1..n : SubSeq(head, 1, n)[i] = head[i]
        BY <2>2, <2>5 DEF head
    <2>7. ASSUME NEW i \in 1..n PROVE head[i] = sent + i
        <3>1. i \in 1..Len(head) /\ i \in Int
            BY <2>2, <2>5 DEF head
        <3>2. head[i] \in Nat
            BY <2>2, <3>1 DEF head
        <3>3. head[i] + 1 = (sent + 1) + i
            BY <2>4, <3>1, Zenon DEF head
        <3> DEFINE x == head[i]
        <3>4. x \in Nat /\ x + 1 = (sent + 1) + i
            BY <3>2, <3>3
        <3> HIDE DEF x
        <3>5. x = sent + i
            BY <1>5, <3>1, <3>4
        <3>6. QED
            BY <3>5 DEF x
    <2>8. SubSeq(head, 1, n) = Run(sent, n)
        <3>1. \A i \in 1..n : SubSeq(head, 1, n)[i] = sent + i
            BY <2>6, <2>7, Zenon
        <3>2. QED
            BY <1>5, <2>5, <2>6, <3>1, IsRun, Zenon
    <2>9. QED
        BY <2>5, <2>8 DEF head
<1> HIDE DEF n
<1>10. wire'[s] = wire[s] \o Run(sent, n) /\ Len(wire'[s]) = sent + n
    <2>1. wire'[s] = wire[s] \o Run(sent, n)
        BY <1>1, <1>2, <1>4, <1>9, Zenon
    <2>2. Run(sent, n) \in Seq(Nat) /\ Len(Run(sent, n)) = n
        BY <1>5, <1>9, RunType, Zenon
    <2>3. Len(wire[s] \o Run(sent, n)) = Len(wire[s]) + Len(Run(sent, n))
        <3>1. wire[s] \in Seq(Nat) /\ Run(sent, n) \in Seq(Nat)
            BY <1>6, <2>2, Zenon
        <3>2. QED
            BY <3>1, ConcatProperties, Zenon
    <2>4. QED
        BY <2>1, <2>2, <2>3, Zenon
<1>11. sent + n <= total /\ Bytes(write_buffer'[s]) = Run(sent + n, total - (sent + n))
    <2>1. Consecutive(wire'[s], write_buffer'[s], written'[s])
        BY <1>2 DEF Ordered
    <2>2. wire'[s] \in Seq(Nat) /\ write_buffer'[s] \in Seq(Seq(Nat)) /\ written'[s] = total
        BY <1>1, <1>2, <1>3
    <2>3. Len(wire'[s]) <= total /\ Bytes(write_buffer'[s]) = Run(Len(wire'[s]), total - Len(wire'[s]))
        BY <1>5, <2>1, <2>2, BytesAre
    <2>4. QED
        BY <1>10, <2>3
<1> HIDE DEF sent, total
<1> DEFINE m == total - sent
<1>12. /\ m \in Nat /\ n \in 1..m /\ n <= m
       /\ total - (sent + n) = m - n
    BY <1>5, <1>7, <1>9, <1>11
<1> HIDE DEF m
<1>13. Queue[s] = Run(sent, m) /\ Len(Queue[s]) = m
    <2>1. Queue[s] = Run(sent, m)
        BY <1>2, <1>7 DEF Queue, m
    <2>2. QED
        BY <1>5, <1>12, <2>1, RunType
<1>14. /\ SubSeq(Queue[s], 1, n) = Run(sent, n)
       /\ SubSeq(Queue[s], n + 1, Len(Queue[s])) = Run(sent + n, m - n)
    <2>1. /\ SubSeq(Run(sent, m), 1, n) = Run(sent, n)
          /\ SubSeq(Run(sent, m), n + 1, m) = Run(sent + n, m - n)
        <3>1. sent \in Nat /\ m \in Nat /\ n \in Nat /\ n <= m
            BY <1>5, <1>9, <1>12, Zenon
        <3>2. SubSeq(Run(sent, m), 1, n) = Run(sent, n)
            BY <3>1, RunFront
        <3>3. SubSeq(Run(sent, m), n + 1, m) = Run(sent + n, m - n)
            BY <3>1, RunRest, Zenon
        <3>4. QED
            BY <3>2, <3>3
    <2>2. QED
        BY <1>13, <2>1, Zenon
<1>15. Queue' = [Queue EXCEPT ![s] = SubSeq(@, n + 1, Len(@))]
    <2>1. \A t \in Ids \ {s} : write_buffer'[t] = write_buffer[t]
        BY <1>1, <1>4
    <2>2. Bytes(write_buffer'[s]) = SubSeq(Bytes(write_buffer[s]), n + 1, Len(Bytes(write_buffer[s])))
        <3>1. Queue[s] = Bytes(write_buffer[s])
            BY <1>2 DEF Queue
        <3>2. QED
            BY <1>11, <1>12, <1>14, <3>1
    <2>3. QED
        BY <1>2, <2>1, <2>2, Zenon DEF Queue
<1>16. wire' = [wire EXCEPT ![s] = @ \o SubSeq(Queue[s], 1, n)]
    BY <1>4, <1>9, <1>14, Zenon
<1>17. n \in 1..Len(Queue[s])
    BY <1>12, <1>13
<1>18. QED
    BY <1>2, <1>3, <1>15, <1>16, <1>17, Zenon DEF Transport!Transmit

\* The other steps that the transport sees: a stream is opened or dropped, and
\* a payload arrives or is read.
LEMMA TableRenews ==
    ASSUME LoopInv, Fresh, NEW s \in Ids,
           OpenSocket(s) \/ (Forget(s) /\ open' \in {open \cup {s}, open \ {s}})
    PROVE  Transport!Renew(s)
<1>1. /\ write_buffer \in [Ids -> Seq(Seq(Nat))] /\ wire \in [Ids -> Seq(Nat)]
      /\ rx \in [Ids -> Seq({"data", "empty"})]
    BY DEF LoopInv, LoopTypeOK, SocketTypeOK
<1>2. CASE OpenSocket(s)
    <2>1. s \notin open /\ open' = open \cup {s} /\ UNCHANGED <<write_buffer, wire, rx>>
        BY <1>2 DEF LoopInv, LoopTypeOK, SocketTypeOK, OpenSocket, bufferVars, socketVars,
           receiveVars
    <2>2. write_buffer[s] = <<>> /\ wire[s] = <<>> /\ rx[s] = <<>>
        BY <2>1 DEF LoopInv, Holdings, Fresh
    <2>3. Queue' = Queue /\ Queue = [Queue EXCEPT ![s] = <<>>]
        BY <2>1, <2>2, NoBytes DEF Queue
    <2>4. wire = [wire EXCEPT ![s] = <<>>] /\ rx = [rx EXCEPT ![s] = <<>>]
        BY <1>1, <2>2
    <2>5. QED
        BY <2>1, <2>3, <2>4, Zenon DEF Transport!Renew
<1>3. CASE Forget(s) /\ open' \in {open \cup {s}, open \ {s}}
    <2>1. /\ write_buffer' = [write_buffer EXCEPT ![s] = <<>>]
          /\ wire' = [wire EXCEPT ![s] = <<>>] /\ rx' = [rx EXCEPT ![s] = <<>>]
        BY <1>3, Zenon DEF Forget
    <2>2. Queue' = [Queue EXCEPT ![s] = <<>>]
        BY <1>1, <2>1, NoBytes, Zenon DEF Queue
    <2>3. QED
        BY <1>3, <2>1, <2>2, Zenon DEF Transport!Renew
<1>4. QED
    BY <1>2, <1>3, Zenon

\* What arrives, is read or is lost with a failing socket changes the inbox only.
LEMMA ReceiveTransports ==
    ASSUME LoopInv, NEW s \in Ids,
           DataArrives(s) \/ SocketFails(s) \/ ReadData(s) \/ ReadEmpty(s)
    PROVE  Transport!Step(s) \/ UNCHANGED Transport!vars
<1>1. UNCHANGED <<open, write_buffer, wire>> /\ s \in open
    BY Zenon DEF DataArrives, SocketFails, ReadData, ReadEmpty, NetUnchanged, HasData, tableVars,
       bufferVars
<1>2. Queue' = Queue
    BY <1>1 DEF Queue
<1>3. CASE DataArrives(s)
    <2>1. \E payload \in {"data", "empty"} : rx' = [rx EXCEPT ![s] = Append(@, payload)]
        BY <1>3, Zenon DEF DataArrives, Payloads
    <2>2. QED
        BY <1>1, <1>2, <2>1, Zenon DEF Transport!Step, Transport!Arrive
<1>4. CASE SocketFails(s)
    <2>1. rx' = rx \/ rx' = [rx EXCEPT ![s] = <<>>]
        BY <1>4 DEF SocketFails
    <2>2. QED
        BY <1>1, <1>2, <2>1 DEF Transport!Step, Transport!Reset, Transport!vars
<1>5. CASE ReadData(s) \/ ReadEmpty(s)
    <2>1. rx[s] # <<>> /\ rx' = [rx EXCEPT ![s] = Tail(@)]
        BY <1>5, Zenon DEF ReadData, ReadEmpty, HasData
    <2>2. QED
        BY <1>1, <1>2, <2>1, Zenon DEF Transport!Step, Transport!HandOver
<1>6. QED
    BY <1>3, <1>4, <1>5

\* Every step of a platform is a step of the transport, or is not seen there.
LEMMA StepTransports ==
    ASSUME LoopInv, LoopInv', Ordered, Ordered', Fresh, StreamStep
    PROVE  [Transport!Next]_(Transport!vars)
<1>1. CASE UNCHANGED <<open, bufferVars, rx>>
    BY <1>1 DEF bufferVars, Queue, Transport!vars
<1>2. ASSUME NEW s \in Ids, Transport!Step(s) \/ UNCHANGED Transport!vars
      PROVE  [Transport!Next]_(Transport!vars)
    BY <1>2, Zenon DEF Transport!Next
<1>3. CASE \E s \in Ids : OpenSocket(s)
    BY <1>2, <1>3, TableRenews, Zenon DEF Transport!Step
<1>4. CASE \E s \in Ids : Forget(s) /\ open' \in {open \cup {s}, open \ {s}}
    BY <1>2, <1>4, TableRenews, Zenon DEF Transport!Step
<1>5. CASE \E s \in TcpIds : WriteTcp(s)
    BY <1>2, <1>5, WriteAccepts, Zenon DEF Transport!Step, Ids
<1>6. CASE FlushWrites
    <2>1. current \in Ids
        BY DEF LoopInv, LoopTypeOK, ThreadTypeOK
    <2>2. QED
        BY <1>2, <1>6, <2>1, FlushTransmits, Zenon DEF Transport!Step
<1>7. CASE \E s \in Ids : DataArrives(s) \/ SocketFails(s) \/ ReadData(s) \/ ReadEmpty(s)
    BY <1>2, <1>7, ReceiveTransports, Zenon
<1>8. QED
    BY <1>1, <1>3, <1>4, <1>5, <1>6, <1>7, Zenon DEF StreamStep
=============================================================================
