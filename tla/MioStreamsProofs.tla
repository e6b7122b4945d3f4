--------------------------- MODULE MioStreamsProofs ---------------------------
(***************************************************************************)
(* Proofs about MioStreams, for any streams, sizes and results of          *)
(* reregister: no readiness is lost between the thread and the system, and *)
(* the transport is implemented.                                           *)
(***************************************************************************)
EXTENDS MioStreams, StreamLoopProofs

USE IdsAssumption, SizeAssumption, ReregistersAssumption

Kinds == {"r", "w"}

\* The types of the variables of MioStreams.
MioTypes ==
    /\ interest \in [Ids -> SUBSET Kinds] /\ registered \in [Ids -> SUBSET Kinds]
    /\ edges \in [Ids -> SUBSET Kinds]
    /\ wait_for_write \in BOOLEAN /\ stopped \subseteq Ids
    /\ pc # "reset"

\* Streams are registered for reading as long as they are open.
Registrations ==
    /\ \A s \in open : "r" \in registered[s]
    /\ \A s \in Ids \ open : interest[s] = {} /\ registered[s] = {} /\ edges[s] = {}

\* What SetPollEnableWaitForWrite relies on, if it finds the interest as it is or
\* reregister fails: since the write that blocked, an event has been raised for
\* a stream that is registered for writing.
WaitIsSet ==
    pc = "set_wait" /\ write_buffer[current] # <<>> /\ status[current] # "failed"
            /\ current \notin shut =>
        /\ wait_for_write
        /\ room[current] > 0 /\ "w" \in registered[current] => "w" \in edges[current]

MioInv == LoopInv /\ MioTypes /\ Registrations /\ WaitIsSet /\ ReadinessKept /\ PendingIsWatched

\* At first the tun is registered, and nothing has happened.
LEMMA InitMio == Init => MioInv
<1> SUFFICES ASSUME Init PROVE MioInv
    OBVIOUS
<1>1. LoopInv
    BY InitLoop DEF Init
<1>2. MioTypes /\ Registrations
    BY Zenon DEF Init, LoopInit, MioTypes, Registrations, Kinds, READABLE, Ids
<1>3. WaitIsSet /\ ReadinessKept /\ PendingIsWatched
    BY DEF Init, LoopInit, WaitIsSet, ReadinessKept, PendingIsWatched, Readable, Ids
<1>4. QED
    BY <1>1, <1>2, <1>3 DEF MioInv

\* What becomes ready raises an event, since streams are registered for reading
\* all the time and for writing while data is pending.
LEMMA NetworkMio ==
    ASSUME MioInv, NEW s \in open, Arrive(s) \/ Drain(s) \/ Finish(s) \/ Fail(s)
    PROVE  MioInv'
<1> USE DEF MioInv, mioVars, NetUnchanged, tableVars, bufferVars, receiveVars, threadVars
<1>0. s \in Ids /\ LoopTypeOK
    BY DEF LoopInv, LoopTypeOK, SocketTypeOK
<1>1. LoopInv'
    BY <1>0, NetworkLoop DEF Arrive, Drain, Finish, Fail
<1>2. MioTypes' /\ Registrations'
    BY <1>0 DEF Arrive, Drain, Finish, Fail, Raise, DataArrives, RoomGrows, PeerFinishes,
       SocketFails, MioTypes, Registrations, Kinds
<1>3. \A t \in Ids :
        /\ edges[t] \subseteq edges'[t]
        /\ t # s => rx'[t] = rx[t] /\ status'[t] = status[t] /\ room'[t] = room[t]
    BY <1>0 DEF Arrive, Drain, Finish, Fail, Raise, DataArrives, RoomGrows, PeerFinishes,
       SocketFails, MioTypes, LoopTypeOK, SocketTypeOK
<1>4. UNCHANGED <<open, write_buffer, shut, threadVars, interest, registered, wait_for_write>>
    BY DEF Arrive, Drain, Finish, Fail, DataArrives, RoomGrows, PeerFinishes, SocketFails
<1>5. \/ "r" \in edges'[s]
      \/ stopped' = stopped /\ (Readable(s)' => Readable(s))
    <2>1. CASE Arrive(s) \/ Finish(s)
        BY <1>0, <2>1 DEF Arrive, Finish, Raise, Registrations, MioTypes
    <2>2. CASE Drain(s)
        BY <2>2 DEF Drain, RoomGrows, Readable
    <2>3. CASE Fail(s)
        BY <1>0, <2>3 DEF Fail, SocketFails, Raise, Readable, Registrations, MioTypes
    <2>4. QED
        BY <2>1, <2>2, <2>3
<1>6. stopped \ {s} \subseteq stopped' /\ stopped' \subseteq stopped
    BY DEF Arrive, Drain, Finish, Fail
<1>7. ReadinessKept'
    <2> SUFFICES ASSUME NEW t \in open', Readable(t)', ~WillRead(t)', t \notin stopped'
                 PROVE  "r" \in edges'[t]
        BY DEF ReadinessKept
    <2>1. t \in open /\ t \in Ids /\ ~WillRead(t)
        BY <1>4 DEF WillRead, LoopInv, LoopTypeOK, SocketTypeOK
    <2>2. CASE t = s
        BY <1>3, <1>5, <2>1, <2>2 DEF ReadinessKept
    <2>3. CASE t # s
        <3>1. Readable(t) /\ t \notin stopped
            BY <1>3, <1>4, <1>6, <2>1, <2>3 DEF Readable
        <3>2. QED
            BY <1>3, <2>1, <3>1 DEF ReadinessKept
    <2>4. QED
        BY <2>2, <2>3
<1>8. \/ "w" \in registered[s] => "w" \in edges'[s]
      \/ room'[s] > 0 => room[s] > 0
    <2>1. CASE Drain(s)
        BY <1>0, <2>1 DEF Drain, RoomGrows, Raise, MioTypes, LoopTypeOK, SocketTypeOK
    <2>2. CASE Arrive(s) \/ Finish(s) \/ Fail(s)
        BY <2>2 DEF Arrive, Finish, Fail, DataArrives, PeerFinishes, SocketFails
    <2>3. QED
        BY <2>1, <2>2
<1>9. status'[s] # "failed" => status[s] # "failed"
    BY <1>0 DEF Arrive, Drain, Finish, Fail, DataArrives, RoomGrows, PeerFinishes, SocketFails,
                LoopTypeOK, SocketTypeOK
<1>10. WaitIsSet'
    BY <1>0, <1>3, <1>4, <1>8, <1>9 DEF WaitIsSet, LoopTypeOK, ThreadTypeOK
<1>11. PendingIsWatched'
    <2> SUFFICES ASSUME NEW t \in open', write_buffer'[t] # <<>>, ~WillWrite(t)',
                        status'[t] # "failed", t \notin shut'
                 PROVE  /\ interest'[t] = READABLE_WRITABLE
                        /\ registered'[t] = interest'[t] /\ room'[t] > 0 => "w" \in edges'[t]
        BY DEF PendingIsWatched
    <2>1. t \in open /\ t \in Ids /\ ~WillWrite(t)
        BY <1>4 DEF WillWrite, LoopInv, LoopTypeOK, SocketTypeOK
    <2>2. status[t] # "failed"
        BY <1>3, <1>9, <2>1
    <2>3. /\ interest[t] = READABLE_WRITABLE
          /\ registered[t] = interest[t] /\ room[t] > 0 => "w" \in edges[t]
        BY <1>4, <2>1, <2>2 DEF PendingIsWatched
    <2>4. QED
        BY <1>3, <1>4, <1>8, <2>1, <2>3 DEF READABLE_WRITABLE
<1>12. QED
    BY <1>1, <1>2, <1>7, <1>10, <1>11

\* A stream that is opened has nothing to read or to write, and one that is
\* closed is no longer watched.
LEMMA TableMio ==
    ASSUME MioInv, NEW s \in Ids,
           Open(s) \/ OpenError(s) \/ Close(s)
    PROVE  MioInv'
<1> USE DEF MioInv, mioVars, RestUnchanged, tableVars, bufferVars, receiveVars, socketVars
<1>0. LoopTypeOK /\ Holdings /\ Rounds /\ pc = "pull" /\ writable = {}
    BY DEF LoopInv, Rounds, Open, OpenSocket, OpenError, OpenFails, Close, CloseSocket
<1>1. LoopInv'
    BY TableLoop DEF Open, OpenError, Close
<1>2. MioTypes'
    BY <1>0 DEF Open, OpenSocket, OpenError, OpenFails, Close, CloseSocket, deregister,
       Interests, MioTypes, Kinds, READABLE, READABLE_WRITABLE
<1>3. Registrations'
    <2>1. CASE Open(s)
        BY <1>0, <2>1 DEF Open, OpenSocket, Interests, MioTypes, Registrations, LoopTypeOK,
                          SocketTypeOK, READABLE, READABLE_WRITABLE
    <2>2. CASE OpenError(s)
        BY <2>2 DEF OpenError, OpenFails, Registrations
    <2>3. CASE Close(s)
        BY <1>0, <2>3 DEF Close, CloseSocket, deregister, MioTypes, Registrations, LoopTypeOK,
                          SocketTypeOK
    <2>4. QED
        BY <2>1, <2>2, <2>3
<1>4. /\ pc' = "pull" /\ UNCHANGED <<reading, again, writable>>
      /\ \A t \in open' :
            \/ t \in open /\ UNCHANGED <<rx[t], status[t], room[t], write_buffer[t], interest[t],
                                          registered[t], edges[t], t \in shut, t \in stopped>>
            \/ rx'[t] = <<>> /\ status'[t] = "up" /\ write_buffer'[t] = <<>>
    <2>1. CASE Open(s)
        BY <1>0, <2>1 DEF Open, OpenSocket, Holdings, MioTypes, LoopTypeOK, SocketTypeOK
    <2>2. CASE OpenError(s)
        BY <1>0, <2>2 DEF OpenError, OpenFails
    <2>3. CASE Close(s)
        BY <1>0, <2>3 DEF Close, CloseSocket, Forget, deregister, MioTypes, LoopTypeOK, SocketTypeOK
    <2>4. QED
        BY <2>1, <2>2, <2>3
<1>5. ReadinessKept'
    BY <1>4, Zenon DEF ReadinessKept, Readable, WillRead
<1>6. WaitIsSet' /\ PendingIsWatched'
    BY <1>0, <1>4 DEF WaitIsSet, PendingIsWatched, WillWrite
<1>7. QED
    BY <1>1, <1>2, <1>3, <1>5, <1>6

\* The new tun is registered like the first one.
LEMMA UpdateTunMio == MioInv /\ UpdateTun => MioInv'
<1> SUFFICES ASSUME MioInv, UpdateTun PROVE MioInv'
    OBVIOUS
<1> USE DEF MioInv, RestUnchanged
<1>0. /\ LoopTypeOK /\ Holdings /\ Rounds /\ TUN \in Ids
      /\ pc = "messages" /\ writable = {} /\ reading = {}
    BY DEF LoopInv, Rounds, UpdateTun, Ids
<1>1. LoopInv'
    <2>1. SocketTypeOK'
        <3>1. rx' \in [Ids -> Seq({"data", "empty"})] /\ wire' \in [Ids -> Seq(Nat)]
            BY <1>0, EmptySeq DEF UpdateTun, Forget, LoopTypeOK, SocketTypeOK
        <3>2. write_buffer' \in [Ids -> Seq(Seq(Nat))] /\ written' \in [Ids -> Nat]
            BY <1>0, EmptySeq DEF UpdateTun, Forget, LoopTypeOK, SocketTypeOK
        <3>3. /\ status' \in [Ids -> {"up", "finished", "failed"}]
              /\ room' \in [Ids -> 0..MaxRoom] /\ shut' \subseteq TcpIds
            BY <1>0 DEF UpdateTun, Forget, LoopTypeOK, SocketTypeOK
        <3>4. open' \subseteq Ids /\ open' \cap unused' = {}
            BY <1>0 DEF UpdateTun, LoopTypeOK, SocketTypeOK
        <3>5. QED
            BY <1>0, <3>1, <3>2, <3>3, <3>4 DEF UpdateTun, LoopTypeOK, SocketTypeOK
    <2>2. ThreadTypeOK' /\ Rounds'
        BY <1>0 DEF UpdateTun, LoopTypeOK, ThreadTypeOK, Rounds
    <2>3. Holdings'
        BY <1>0 DEF UpdateTun, Forget, LoopTypeOK, SocketTypeOK, Holdings
    <2>4. QED
        BY <2>1, <2>2, <2>3 DEF LoopInv, LoopTypeOK
<1>2. MioTypes' /\ Registrations'
    BY <1>0 DEF UpdateTun, MioTypes, Registrations, Kinds, READABLE
<1>3. /\ pc' = "pull" /\ UNCHANGED <<reading, again, writable>>
      /\ \A t \in open' :
            \/ t \in open /\ UNCHANGED <<rx[t], status[t], room[t], write_buffer[t], interest[t],
                                          registered[t], edges[t], t \in shut, t \in stopped>>
            \/ rx'[t] = <<>> /\ status'[t] = "up" /\ write_buffer'[t] = <<>>
    BY <1>0 DEF UpdateTun, Forget, MioTypes, LoopTypeOK, SocketTypeOK
<1>4. ReadinessKept'
    BY <1>3, Zenon DEF ReadinessKept, Readable, WillRead
<1>5. WaitIsSet' /\ PendingIsWatched'
    BY <1>0, <1>3 DEF WaitIsSet, PendingIsWatched, WillWrite
<1>6. QED
    BY <1>1, <1>2, <1>4, <1>5

\* A write is followed by write_from_buffer or by SetPollEnableWaitForWrite, and
\* a stream that is shut down does not wait.
LEMMA WriteMio ==
    ASSUME MioInv, NEW s \in open, Write(s) \/ WriteUdpOrTun(s) \/ Shutdown(s)
    PROVE  MioInv'
<1> USE DEF MioInv, mioVars, RestUnchanged, tableVars, bufferVars, receiveVars, socketVars
<1>0. /\ LoopTypeOK /\ Holdings /\ Rounds /\ pc = "pull" /\ writable = {}
      /\ s \in Ids
    BY Zenon DEF LoopInv, LoopTypeOK, SocketTypeOK, Rounds, Write, WriteTcp, WriteUdpOrTun,
       WriteDatagram, Shutdown, ShutdownWrite
<1>1. CASE Write(s)
    <2>1. LoopInv'
        BY <1>0, <1>1, WriteLoop DEF Write
    <2>2. MioTypes' /\ Registrations' /\ WaitIsSet'
        BY <1>1 DEF Write, WriteTcp, MioTypes, Registrations, WaitIsSet
    <2>3. ReadinessKept'
        BY <1>1 DEF Write, WriteTcp, ReadinessKept, Readable, WillRead
    <2>4. PendingIsWatched'
        BY <1>0, <1>1 DEF Write, WriteTcp, PendingIsWatched, WillWrite, LoopTypeOK, SocketTypeOK
    <2>5. QED
        BY <2>1, <2>2, <2>3, <2>4
<1>2. CASE WriteUdpOrTun(s)
    <2>1. LoopInv'
        BY <1>0, <1>2, Zenon DEF WriteUdpOrTun, WriteDatagram, LoopInv, LoopTypeOK, SocketTypeOK,
                          ThreadTypeOK, Holdings, Rounds
    <2>2. MioTypes' /\ Registrations' /\ WaitIsSet'
        BY <1>0, <1>2 DEF WriteUdpOrTun, WriteDatagram, MioTypes, Registrations, WaitIsSet, Holdings
    <2>3. ReadinessKept'
        BY <1>0, <1>2 DEF WriteUdpOrTun, WriteDatagram, ReadinessKept, Readable, WillRead,
           LoopTypeOK, SocketTypeOK
    <2>4. PendingIsWatched'
        BY <1>0, <1>2 DEF WriteUdpOrTun, WriteDatagram, PendingIsWatched, WillWrite, LoopTypeOK,
                          SocketTypeOK, Holdings
    <2>5. QED
        BY <2>1, <2>2, <2>3, <2>4
<1>3. CASE Shutdown(s)
    <2>1. LoopInv'
        BY <1>0, <1>3, TableLoop DEF Shutdown
    <2>2. MioTypes' /\ Registrations' /\ WaitIsSet'
        BY <1>0, <1>3 DEF Shutdown, ShutdownWrite, Raise, MioTypes, Registrations, WaitIsSet, Kinds
    <2>3. /\ pc' = "pull" /\ UNCHANGED <<reading, again, writable>>
          /\ \A t \in open' :
                /\ t \in open /\ UNCHANGED <<rx[t], status[t], room[t], write_buffer[t], interest[t],
                                              registered[t], t \in stopped>>
                /\ edges[t] \subseteq edges'[t] /\ (t \in shut => t \in shut')
        BY <1>0, <1>3 DEF Shutdown, ShutdownWrite, Raise, MioTypes, LoopTypeOK, SocketTypeOK
    <2>4. ReadinessKept' /\ PendingIsWatched'
        BY <1>0, <2>3 DEF ReadinessKept, Readable, WillRead, PendingIsWatched, WillWrite
    <2>5. QED
        BY <2>1, <2>2, <2>4
<1>4. QED
    BY <1>1, <1>2, <1>3

\* write_from_buffer ends when the buffer is empty, when the socket has no room,
\* or when the stream cannot be written to any more.
LEMMA FlushMio == MioInv /\ WriteFromBuffer => MioInv'
<1> SUFFICES ASSUME MioInv, WriteFromBuffer PROVE MioInv'
    OBVIOUS
<1> USE DEF MioInv, mioVars, RestUnchanged, tableVars, bufferVars, receiveVars, socketVars, threadVars
<1>0. /\ LoopTypeOK /\ Holdings /\ Rounds /\ pc = "flush"
      /\ current \in open /\ current \in Ids /\ open \subseteq Ids
    BY Zenon DEF LoopInv, LoopTypeOK, SocketTypeOK, Rounds, WriteFromBuffer, FlushWrites,
       FlushEmpty, FlushBlocked, FlushError
<1>1. CASE FlushWrites /\ UNCHANGED mioVars
    <2>1. LoopInv'
        BY <1>1, FlushLoop
    <2>2. MioTypes' /\ Registrations' /\ WaitIsSet' /\ ReadinessKept'
        BY <1>0, <1>1 DEF FlushWrites, MioTypes, Registrations, WaitIsSet, ReadinessKept, Readable,
                          WillRead
    <2>3. UNCHANGED <<pc, current, writable, open, status, shut>>
        BY <1>1 DEF FlushWrites
    <2>4. \A t \in Ids : t # current => write_buffer'[t] = write_buffer[t] /\ room'[t] = room[t]
        BY <1>0, <1>1 DEF FlushWrites, LoopTypeOK, SocketTypeOK
    <2>5. PendingIsWatched'
        BY <1>0, <1>1, <2>3, <2>4 DEF PendingIsWatched, WillWrite
    <2>6. QED
        BY <2>1, <2>2, <2>5
<1>2. CASE /\ FlushEmpty \/ FlushBlocked
           /\ pc' = "set_wait" /\ wait_for_write' = FlushBlocked
           /\ UNCHANGED <<tableVars, bufferVars, socketVars, interest, registered, edges, stopped>>
           /\ RestUnchanged
    <2>1. LoopInv'
        BY <1>0, <1>2, Zenon DEF LoopInv, LoopTypeOK, SocketTypeOK, ThreadTypeOK, Holdings, Rounds
    <2>2. wait_for_write' \in BOOLEAN
        BY <1>2, Zenon DEF FlushBlocked
    <2>3. MioTypes' /\ Registrations'
        BY <1>0, <1>2, <2>2 DEF MioTypes, Registrations
    <2>4. WaitIsSet'
        <3>1. write_buffer[current] # <<>> => FlushBlocked
            BY <1>2 DEF FlushEmpty, Buffer
        <3>2. FlushBlocked => wait_for_write'
            BY <1>2, Zenon
        <3>3. FlushBlocked => ~(room[current] > 0)
            BY DEF FlushBlocked
        <3>4. QED
            BY <1>2, <3>1, <3>2, <3>3 DEF WaitIsSet
    <2>5. ReadinessKept' /\ PendingIsWatched'
        BY <1>0, <1>2 DEF ReadinessKept, Readable, WillRead, PendingIsWatched, WillWrite
    <2>6. QED
        BY <2>1, <2>3, <2>4, <2>5
<1>3. CASE FlushError /\ WriteReturns /\ UNCHANGED mioVars
    <2>1. LoopInv'
        BY <1>0, <1>3, FlushLoop
    <2>2. pc' \in {"pull", "results"}
        BY <1>0, <1>3 DEF WriteReturns, LoopTypeOK, ThreadTypeOK
    <2>3. MioTypes' /\ Registrations' /\ WaitIsSet' /\ ReadinessKept'
        BY <1>3, <2>2 DEF WriteReturns, MioTypes, Registrations, WaitIsSet, ReadinessKept, Readable,
                          WillRead
    <2>4. PendingIsWatched'
        BY <1>0, <1>3, <2>2 DEF WriteReturns, FlushError, CanWrite, PendingIsWatched, WillWrite
    <2>5. QED
        BY <2>1, <2>3, <2>4
<1>4. QED
    BY <1>1, <1>2, <1>3 DEF WriteFromBuffer

\* set_poll_enable_wait_for_write leaves a stream with data in its buffer
\* registered for writing, unless reregister fails.
LEMMA SetWaitMio == MioInv /\ SetPollEnableWaitForWrite => MioInv'
<1> SUFFICES ASSUME MioInv, SetPollEnableWaitForWrite PROVE MioInv'
    OBVIOUS
<1> USE DEF MioInv, tableVars, bufferVars, receiveVars, socketVars
<1> DEFINE new == WaitInterest(wait_for_write)
<1>0. /\ LoopTypeOK /\ Holdings /\ Rounds /\ pc = "set_wait" /\ WriteReturns
      /\ current \in open /\ current \in Ids /\ open \subseteq Ids
    BY DEF LoopInv, LoopTypeOK, SocketTypeOK, Rounds, SetPollEnableWaitForWrite
<1>1. LoopInv'
    BY <1>0, FlushLoop
<1>2. /\ pc' \in {"pull", "results"} /\ wait_for_write' = FALSE
      /\ UNCHANGED <<open, rx, status, room, shut, write_buffer, writable, reading, again, stopped>>
    BY <1>0 DEF WriteReturns, SetPollEnableWaitForWrite, LoopTypeOK, ThreadTypeOK
<1>3. new \subseteq Kinds /\ "r" \in new /\ (wait_for_write => new = READABLE_WRITABLE)
    BY DEF WaitInterest, READABLE, READABLE_WRITABLE, Kinds
<1>4. /\ interest' \in [Ids -> SUBSET Kinds] /\ registered' \in [Ids -> SUBSET Kinds]
      /\ edges' \in [Ids -> SUBSET Kinds]
      /\ interest'[current] = new
      /\ \/ registered'[current] = registered[current] /\ edges'[current] = edges[current]
         \/ registered'[current] = new /\ edges'[current] = Ready(current) \cap new
      /\ \A t \in Ids : t # current =>
            UNCHANGED <<interest[t], registered[t], edges[t]>>
    <2> HIDE DEF new
    <2>1. CASE interest[current] = new /\ UNCHANGED <<interest, registered, edges>>
        BY <2>1 DEF MioTypes
    <2>2. CASE /\ interest' = [interest EXCEPT ![current] = new]
               /\ \E ok \in Reregisters : reregister(current, new, ok)
        <3>1. PICK ok \in Reregisters : reregister(current, new, ok)
            BY <2>2
        <3>2. CASE ok
            BY <1>0, <1>3, <2>2, <3>1, <3>2 DEF reregister, MioTypes
        <3>3. CASE ~ok
            BY <1>0, <1>3, <2>2, <3>1, <3>3 DEF reregister, MioTypes
        <3>4. QED
            BY <3>2, <3>3
    <2>3. QED
        BY <2>1, <2>2 DEF SetPollEnableWaitForWrite, new
<1> HIDE DEF new
<1>5. MioTypes' /\ WaitIsSet'
    BY <1>2, <1>4, Zenon DEF MioTypes, WaitIsSet
<1>6. Registrations'
    BY <1>0, <1>2, <1>3, <1>4, Zenon DEF Registrations
<1>7. ReadinessKept'
    BY <1>0, <1>2, <1>3, <1>4 DEF ReadinessKept, Readable, WillRead, Ready
<1>8. PendingIsWatched'
    <2> SUFFICES ASSUME NEW t \in open, write_buffer[t] # <<>>, ~WillWrite(t)',
                        status[t] # "failed", t \notin shut
                 PROVE  /\ interest'[t] = READABLE_WRITABLE
                        /\ registered'[t] = interest'[t] /\ room[t] > 0 => "w" \in edges'[t]
        BY <1>2 DEF PendingIsWatched
    <2>1. CASE t = current
        <3>1. /\ wait_for_write
              /\ room[t] > 0 /\ "w" \in registered[t] => "w" \in edges[t]
            BY <1>0, <2>1 DEF WaitIsSet
        <3>2. room[t] > 0 => "w" \in Ready(t)
            BY <1>0, <2>1 DEF Ready, Writable, Holdings
        <3>3. QED
            BY <1>3, <1>4, <2>1, <3>1, <3>2 DEF READABLE_WRITABLE
    <2>2. CASE t # current
        BY <1>0, <1>2, <1>4, <2>2 DEF PendingIsWatched, WillWrite
    <2>3. QED
        BY <2>1, <2>2
<1>9. QED
    BY <1>1, <1>5, <1>6, <1>7, <1>8

\* A poll returns every stream that has an event, and there is nothing left to
\* read or to write when it is called.
LEMMA PollMio == MioInv /\ PollReturns => MioInv'
<1> SUFFICES ASSUME MioInv, PollReturns PROVE MioInv'
    OBVIOUS
<1> USE DEF MioInv, tableVars, bufferVars, receiveVars, socketVars
<1>0. /\ LoopTypeOK /\ Holdings /\ Rounds /\ pc = "poll" /\ open \subseteq Ids
      /\ reading = {} /\ again = {} /\ writable = {}
    BY DEF LoopInv, LoopTypeOK, SocketTypeOK, Rounds, PollReturns
<1>1. PICK report \in [Ids -> SUBSET {"r", "w"}] :
        /\ \A s \in Ids : report[s] \in Reports(s)
        /\ reading' = {s \in Ids : "r" \in report[s]}
        /\ writable' = {s \in Ids : "w" \in report[s]}
    BY DEF PollReturns
<1>2. \A s \in Ids :
        /\ report[s] \subseteq Ready(s)
        /\ \A kind \in edges[s] \cap Ready(s) \cap registered[s] : kind \in report[s]
    BY <1>1 DEF Reports, Events
<1>3. /\ pc' = "results" /\ edges' = [s \in Ids |-> {}]
      /\ UNCHANGED <<open, unused, bufferVars, socketVars, pull_to, flush_to, current, again, interest,
                     registered, wait_for_write, stopped>>
    BY DEF PollReturns
<1>4. writable' \subseteq open \cap TcpIds
    BY <1>1, <1>2 DEF Ready, Writable
<1>5. LoopInv'
    <2>1. SocketTypeOK' /\ Holdings'
        BY <1>0, <1>3 DEF LoopTypeOK, SocketTypeOK, Holdings
    <2>2. ThreadTypeOK' /\ Rounds'
        BY <1>0, <1>1, <1>3, <1>4 DEF LoopTypeOK, ThreadTypeOK, Rounds
    <2>3. QED
        BY <2>1, <2>2 DEF LoopInv, LoopTypeOK
<1>6. MioTypes' /\ Registrations' /\ WaitIsSet'
    BY <1>0, <1>3 DEF MioTypes, Registrations, WaitIsSet
<1>7. ReadinessKept'
    <2> SUFFICES ASSUME NEW s \in open, Readable(s), s \notin stopped
                 PROVE  s \in reading'
        BY <1>3 DEF ReadinessKept, Readable, WillRead
    <2>1. s \in Ids /\ "r" \in edges[s] /\ "r" \in registered[s] /\ "r" \in Ready(s)
        BY <1>0 DEF ReadinessKept, WillRead, Registrations, Ready
    <2>2. QED
        BY <1>1, <1>2, <2>1, Zenon
<1>8. PendingIsWatched'
    <2> SUFFICES ASSUME NEW s \in open, write_buffer[s] # <<>>, s \notin writable',
                        status[s] # "failed", s \notin shut
                 PROVE  /\ interest[s] = READABLE_WRITABLE
                        /\ ~(registered[s] = interest[s] /\ room[s] > 0)
        BY <1>3, Zenon DEF PendingIsWatched, WillWrite
    <2>1. /\ s \in Ids /\ interest[s] = READABLE_WRITABLE
          /\ registered[s] = interest[s] /\ room[s] > 0 => "w" \in edges[s]
        BY <1>0 DEF PendingIsWatched, WillWrite
    <2>2. room[s] > 0 => "w" \in Ready(s)
        BY <1>0, <2>1 DEF Ready, Writable, Holdings
    <2>3. QED
        BY <1>1, <1>2, <2>1, <2>2, Zenon DEF READABLE_WRITABLE
<1>9. QED
    BY <1>5, <1>6, <1>7, <1>8

\* A stream leaves the rounds of read_from_streams when it has nothing to read,
\* or is one of those that have stopped.
LEMMA ReadMio == MioInv /\ ReadFromStreams => MioInv'
<1> SUFFICES ASSUME MioInv, ReadFromStreams PROVE MioInv'
    OBVIOUS
<1> USE DEF MioInv, mioVars, tableVars, bufferVars, receiveVars, socketVars
<1>0. /\ LoopTypeOK /\ Holdings /\ Rounds /\ pc = "results" /\ open \subseteq Ids
      /\ reading \subseteq Ids /\ writable = {}
    BY Zenon DEF LoopInv, LoopTypeOK, SocketTypeOK, ThreadTypeOK, ReadFromStreams, ReadsDone,
       ReadStops, ReadData, ReadNothing, ReadEmpty, ReadError, ReadClosed, CanRead
<1>1. CASE ReadsDone /\ UNCHANGED mioVars
    <2>1. LoopInv'
        BY <1>1, ThreadLoop
    <2>2. QED
        BY <1>0, <1>1, <2>1 DEF ReadsDone, MioTypes, Registrations, WaitIsSet, ReadinessKept,
           Readable, WillRead, PendingIsWatched, WillWrite
<1>2. ASSUME NEW s \in reading, ((ReadData(s) \/ ReadNothing(s)) /\ UNCHANGED mioVars) \/ ReadStops(s)
      PROVE  MioInv'
    <2>1. LoopInv'
        BY <1>0, <1>2, ReadLoop, Zenon DEF ReadStops
    <2>2. /\ pc' \in {"results", "pull"}
          /\ UNCHANGED <<open, shut, write_buffer, room, current, writable, interest, registered, edges,
                         wait_for_write>>
        BY <1>0, <1>2, Zenon DEF ReadData, ReadNothing, ReadStops, ReadEmpty, ReadError, ReadClosed
    <2>3. MioTypes' /\ Registrations' /\ WaitIsSet'
        BY <1>0, <1>2, <2>2, Zenon DEF ReadStops, MioTypes, Registrations, WaitIsSet
    <2>4. \A t \in Ids : t # s =>
            /\ rx'[t] = rx[t] /\ status'[t] = status[t]
            /\ WillRead(t) => WillRead(t)'
            /\ t \in stopped' <=> t \in stopped
        BY <1>0, <1>2, Zenon DEF ReadData, ReadNothing, ReadStops, ReadEmpty, ReadError,
           ReadClosed, ReadOn, WillRead, LoopTypeOK, SocketTypeOK
    <2>5. WillRead(s)' \/ s \in stopped' \/ ~Readable(s)'
        BY <1>0, <1>2 DEF ReadData, ReadNothing, ReadStops, ReadOn, WillRead, Readable
    <2>6. ReadinessKept'
        BY <1>0, <2>2, <2>4, <2>5, Zenon DEF ReadinessKept, Readable
    <2>7. \A t \in TcpIds : status'[t] = status[t]
        BY <1>0, <1>2, Zenon DEF ReadData, ReadNothing, ReadStops, ReadEmpty, ReadError, ReadClosed,
                          LoopTypeOK, SocketTypeOK, Ids
    <2>8. PendingIsWatched'
        BY <1>0, <2>2, <2>7, Zenon DEF PendingIsWatched, WillWrite, Holdings
    <2>9. QED
        BY <2>1, <2>3, <2>6, <2>8
<1>3. QED
    BY <1>1, <1>2, Zenon DEF ReadFromStreams

\* The other steps of the thread touch no stream.
LEMMA ThreadMio ==
    ASSUME MioInv,
           \/ (MessagesEnd \/ PullEnds \/ (\E s \in writable : HandleWritable(s))) /\ UNCHANGED mioVars
           \/ PollFails
    PROVE  MioInv'
<1> USE DEF MioInv, mioVars, RestUnchanged, tableVars, bufferVars, receiveVars, socketVars
<1>0. LoopTypeOK /\ Rounds /\ writable \subseteq Ids
    BY DEF LoopInv, LoopTypeOK, ThreadTypeOK, Ids
<1>1. LoopInv'
    <2>1. CASE PollFails
        BY <1>0, <2>1 DEF PollFails, LoopInv, LoopTypeOK, SocketTypeOK, ThreadTypeOK, Holdings,
           Rounds
    <2>2. CASE MessagesEnd \/ PullEnds \/ (\E s \in writable : HandleWritable(s))
        BY <1>0, <2>2, ThreadLoop, Zenon
    <2>3. QED
        BY <2>1, <2>2, Zenon
<1>2. MioTypes' /\ Registrations' /\ WaitIsSet' /\ ReadinessKept'
    BY <1>0, Zenon DEF MessagesEnd, PullEnds, HandleWritable, PollFails, LoopTypeOK,
       ThreadTypeOK, MioTypes, Registrations, WaitIsSet, ReadinessKept, Readable, WillRead
<1>3. PendingIsWatched'
    <2>1. UNCHANGED <<open, write_buffer, status, shut, interest, registered, edges, room>>
        BY DEF MessagesEnd, PullEnds, HandleWritable, PollFails
    <2>2. \A t \in open : WillWrite(t) => WillWrite(t)'
        <3>1. CASE MessagesEnd \/ PullEnds \/ PollFails
            BY <3>1 DEF MessagesEnd, PullEnds, PollFails, WillWrite
        <3>2. CASE \E s \in writable : HandleWritable(s)
            BY <3>2 DEF HandleWritable, WillWrite
        <3>3. QED
            BY <3>1, <3>2, Zenon
    <2>3. QED
        BY <2>1, <2>2, Zenon DEF PendingIsWatched
<1>4. QED
    BY <1>1, <1>2, <1>3

\* Every step of the thread and of the network keeps the invariant.
LEMMA NextMio == MioInv /\ [Next]_vars => MioInv'
<1> SUFFICES ASSUME MioInv, [Next]_vars PROVE MioInv'
    OBVIOUS
<1>0. open \subseteq Ids /\ unused \subseteq Ids
    BY DEF MioInv, LoopInv, LoopTypeOK, SocketTypeOK, Ids
<1>1. CASE Network
    BY <1>1, NetworkMio DEF Network
<1>2. CASE UpdateTun
    BY <1>2, UpdateTunMio
<1>3. CASE Pull
    BY <1>0, <1>3, TableMio, WriteMio DEF Pull
<1>4. CASE PullDone \/ PollFails
    BY <1>4, ThreadMio DEF PullDone
<1>5. CASE Thread
    BY <1>5, FlushMio, SetWaitMio, ReadMio, ThreadMio DEF Thread
<1>6. CASE PollReady \/ PollWoken
    BY <1>6, PollMio DEF PollReady, PollWoken
<1>7. CASE UNCHANGED vars
    <2> USE <1>7 DEF vars, mioVars, loopVars, tableVars, bufferVars, receiveVars, socketVars, threadVars
    <2>1. LoopInv'
        BY Zenon DEF MioInv, LoopInv, LoopTypeOK, SocketTypeOK, ThreadTypeOK, Holdings, Rounds
    <2>2. MioTypes' /\ Registrations' /\ WaitIsSet'
        BY DEF MioInv, MioTypes, Registrations, WaitIsSet
    <2>3. ReadinessKept' /\ PendingIsWatched'
        BY DEF MioInv, ReadinessKept, Readable, WillRead, PendingIsWatched, WillWrite
    <2>4. QED
        BY <2>1, <2>2, <2>3, Zenon DEF MioInv
<1>8. QED
    BY <1>1, <1>2, <1>3, <1>4, <1>5, <1>6, <1>7 DEF Next

\* The invariant holds in every state.
LEMMA MioInvariant == Spec => []MioInv
BY InitMio, NextMio, PTL DEF Spec

\* Types, and closed streams are not registered, for any streams and sizes.
THEOREM TypeCorrect == Spec => []TypeOK
<1>1. MioInv => TypeOK
    BY DEF MioInv, LoopInv, MioTypes, Registrations, Kinds, TypeOK
<1>2. QED
    BY <1>1, MioInvariant, PTL

\* What can be read is read before the next poll or reported by it, although mio
\* reports it once: for any number of streams, however the network interleaves
\* with the reads.
THEOREM ReadinessIsKept == Spec => []ReadinessKept
<1>1. MioInv => ReadinessKept
    BY DEF MioInv
<1>2. QED
    BY <1>1, MioInvariant, PTL

\* Data in a write buffer is watched, also when the socket gets room between the
\* write that blocked and set_poll_enable_wait_for_write.
THEOREM PendingWritesAreWatched == Spec => []PendingIsWatched
<1>1. MioInv => PendingIsWatched
    BY DEF MioInv
<1>2. QED
    BY <1>1, MioInvariant, PTL

\* Every step is one that the transport knows, or does not concern it.
LEMMA NextStreams == MioInv /\ [Next]_vars => StreamStep
<1> SUFFICES ASSUME MioInv, [Next]_vars PROVE StreamStep
    OBVIOUS
<1> USE DEF tableVars, bufferVars, receiveVars, socketVars
<1>0. open \subseteq Ids /\ unused \subseteq Ids /\ reading \subseteq Ids
    BY DEF MioInv, LoopInv, LoopTypeOK, SocketTypeOK, ThreadTypeOK, Ids
<1>0a. ASSUME UNCHANGED <<open, write_buffer, written, wire, rx>> PROVE StreamStep
    BY <1>0a, Zenon DEF StreamStep
<1>1. CASE Network
    <2>1. CASE \E s \in open : DataArrives(s) \/ SocketFails(s)
        BY <1>0, <2>1, Zenon DEF StreamStep
    <2>2. CASE \E s \in open : RoomGrows(s) \/ PeerFinishes(s)
        BY <1>0a, <2>2 DEF RoomGrows, PeerFinishes, NetUnchanged
    <2>3. QED
        BY <1>1, <2>1, <2>2, Zenon DEF Network, Arrive, Drain, Finish, Fail
<1>2. CASE UpdateTun
    <2>1. Forget(TUN) /\ open' \in {open \cup {TUN}, open \ {TUN}} /\ TUN \in Ids
        BY <1>2 DEF UpdateTun, Ids
    <2>2. QED
        BY <2>1, Zenon DEF StreamStep
<1>3. CASE Pull
    <2>1. CASE \E s \in unused : OpenSocket(s)
        BY <1>0, <2>1, Zenon DEF StreamStep
    <2>2. CASE \E s \in open : CloseSocket(s)
        <3>1. PICK s \in Ids : Forget(s) /\ open' \in {open \cup {s}, open \ {s}}
            BY <1>0, <2>2 DEF CloseSocket
        <3>2. QED
            BY <3>1, Zenon DEF StreamStep
    <2>3. CASE \E s \in open : WriteTcp(s)
        <3>1. \E s \in TcpIds : WriteTcp(s)
            BY <2>3, Zenon DEF WriteTcp
        <3>2. QED
            BY <3>1, Zenon DEF StreamStep
    <2>4. CASE \/ \E s \in unused : OpenFails(s)
               \/ \E s \in open : ShutdownWrite(s) \/ WriteDatagram(s)
        BY <1>0a, <2>4, Zenon DEF OpenFails, ShutdownWrite, WriteDatagram
    <2>5. QED
        BY <1>3, <2>1, <2>2, <2>3, <2>4, Zenon
           DEF Pull, Open, OpenError, Close, Shutdown, Write, WriteUdpOrTun
<1>4. CASE PullDone \/ PollReady \/ PollWoken \/ PollFails
    BY <1>4, <1>0a DEF PullDone, PullEnds, PollReady, PollWoken, PollReturns, PollFails
<1>5. CASE Thread
    <2>1. CASE WriteFromBuffer
        <3>1. CASE FlushWrites
            BY <3>1, Zenon DEF StreamStep
        <3>2. CASE ~FlushWrites
            BY <2>1, <3>2, <1>0a DEF WriteFromBuffer, WriteReturns
        <3>3. QED
            BY <3>1, <3>2, Zenon
    <2>2. CASE ReadFromStreams
        <3>1. CASE \E s \in reading : ReadData(s) \/ ReadEmpty(s)
            BY <1>0, <3>1, Zenon DEF StreamStep
        <3>2. CASE ReadsDone \/ \E s \in reading : ReadError(s) \/ ReadClosed(s) \/ ReadNothing(s)
            BY <3>2, <1>0a, Zenon DEF ReadsDone, ReadError, ReadClosed, ReadNothing
        <3>3. QED
            BY <2>2, <3>1, <3>2, Zenon DEF ReadFromStreams, ReadStops
    <2>3. CASE MessagesEnd \/ SetPollEnableWaitForWrite \/ (\E s \in writable : HandleWritable(s))
        BY <2>3, <1>0a DEF SetPollEnableWaitForWrite, WriteReturns, MessagesEnd, HandleWritable
    <2>4. QED
        BY <1>5, <2>1, <2>2, <2>3, Zenon DEF Thread
<1>6. CASE UNCHANGED vars
    BY <1>6, <1>0a, Zenon DEF vars, loopVars
<1>7. QED
    BY <1>1, <1>2, <1>3, <1>4, <1>5, <1>6, Zenon DEF Next

\* So it keeps the order of the bytes.
LEMMA StepKeepsOrder == MioInv /\ Ordered /\ Fresh /\ [Next]_vars => Ordered' /\ Fresh'
    BY NextStreams, StreamKeeps, Zenon DEF MioInv

\* In every reachable state wire and write buffers are in order, and a stream that
\* is not open has sent nothing.
LEMMA OrderInvariant == Spec => [](Ordered /\ Fresh)
<1>1. Init => Ordered /\ Fresh
    BY InitOrdered, InitTransport, Zenon DEF Init
<1>2. QED
    BY <1>1, StepKeepsOrder, MioInvariant, PTL DEF Spec

\* What leaves a TCP stream is what was written to it, in order and without gaps or
\* repetitions, and an empty write buffer has kept nothing back: for every number
\* of streams, size of a write and room in the socket.
THEOREM BytesLeaveInOrder == Spec => []SentInOrder
<1>1. MioInv /\ Ordered => SentInOrder
    BY OrderedIsSent, Zenon DEF MioInv
<1>2. QED
    BY <1>1, OrderInvariant, MioInvariant, PTL

\* The streams over mio implement the transport, for any streams and sizes: with the
\* bytes of the write buffers as its queue every step of the thread, the system
\* or the network is a step of the transport or leaves it as it is.
THEOREM StreamsImplementTransport == Spec => ImplementsTransport
<1>1. Init => Transport!Init
    BY InitTransport, Zenon DEF Init
<1>2. MioInv /\ MioInv' /\ Ordered /\ Ordered' /\ Fresh /\ [Next]_vars
        => [Transport!Next]_(Transport!vars)
    BY NextStreams, StepTransports, Zenon DEF MioInv
<1>3. QED
    BY <1>1, <1>2, OrderInvariant, MioInvariant, PTL DEF Spec, ImplementsTransport, Transport!Spec
=============================================================================
