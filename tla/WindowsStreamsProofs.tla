------------------------- MODULE WindowsStreamsProofs -------------------------
(***************************************************************************)
(* Proofs about WindowsStreams, for any streams, sizes and messages: no    *)
(* event is lost between Winsock and the thread, and no wake-up between    *)
(* the callers and the thread, and the transport is implemented.           *)
(***************************************************************************)
EXTENDS WindowsStreams, StreamLoopProofs

USE IdsAssumption, SizeAssumption, PostsAssumption

Kinds == {"r", "w"}

\* The types of the variables of WindowsStreams.
WinTypes ==
    /\ handles = open
    /\ events \in [Ids -> SUBSET Kinds] /\ armed \in [Ids -> SUBSET Kinds]
    /\ is_readable \subseteq open \cap Sockets /\ is_writable \subseteq open \cap Sockets
    /\ stopped \subseteq {TUN}
    /\ waker \in BOOLEAN /\ queued \in BOOLEAN /\ poster \in {"idle", "posting"}
    /\ posts \in 0..MaxPosts
    /\ pc # "set_wait"

\* FD_READ is enabled, unless it is recorded or the socket is about to be read.
ReadsAreArmed ==
    \A s \in open \cap Sockets : "r" \in armed[s] \cup events[s] \/ WillRead(s)

WinInv ==
    LoopInv /\ WinTypes /\ ReadsAreArmed /\ ReadinessKept /\ PendingIsWatched /\ PostedIsSeen

\* At first there is the tun, and nothing has happened.
LEMMA InitWin == Init => WinInv
<1> SUFFICES ASSUME Init PROVE WinInv
    OBVIOUS
<1>1. LoopInv
    BY InitLoop DEF Init
<1>2. WinTypes
    <2>1. waker \in BOOLEAN /\ queued \in BOOLEAN
        BY Zenon DEF Init
    <2>2. posts \in 0..MaxPosts
        BY DEF Init
    <2>3. QED
        BY <2>1, <2>2 DEF Init, LoopInit, WinTypes
<1>3. ReadsAreArmed /\ ReadinessKept /\ PendingIsWatched /\ PostedIsSeen
    BY DEF Init, LoopInit, ReadsAreArmed, ReadinessKept, PendingIsWatched, PostedIsSeen, Sockets,
       Ids
<1>4. QED
    BY <1>1, <1>2, <1>3 DEF WinInv

\* What arrives is recorded or about to be read, and room is recorded for a
\* stream that waits for it.
LEMMA NetworkWin ==
    ASSUME WinInv, NEW s \in open, Arrive(s) \/ Drain(s) \/ Finish(s) \/ Fail(s)
    PROVE  WinInv'
<1> USE DEF WinInv, winVars, streamVars, postVars, NetUnchanged, tableVars, bufferVars, receiveVars,
            threadVars
<1>0. /\ LoopTypeOK /\ s \in Ids /\ open \subseteq Ids
      /\ s # TUN => s \in Sockets
    BY DEF LoopInv, LoopTypeOK, SocketTypeOK, Sockets, Ids
<1>1. LoopInv'
    BY <1>0, NetworkLoop DEF Arrive, Drain, Finish, Fail
<1>2. UNCHANGED <<open, handles, write_buffer, shut, threadVars, is_readable, is_writable, waker,
                  queued, poster, posts>>
    BY DEF Arrive, Drain, Finish, Fail, DataArrives, RoomGrows, PeerFinishes, SocketFails
<1>3. WinTypes' /\ PostedIsSeen'
    BY <1>0, <1>2 DEF Arrive, Drain, Finish, Fail, Record, WinTypes, PostedIsSeen, Kinds
<1>4. \A t \in Ids :
        /\ events[t] \subseteq events'[t]
        /\ armed[t] \subseteq armed'[t] \cup events'[t]
        /\ t # s => UNCHANGED <<rx[t], status[t], room[t], armed[t]>>
    <2>1. \A t \in Ids :
            /\ events[t] \subseteq events'[t]
            /\ armed[t] \subseteq armed'[t] \cup events'[t]
            /\ t # s => armed'[t] = armed[t]
        <3>1. CASE Record(s, "r") \/ Record(s, "w")
            BY <1>0, <3>1 DEF Record, WinTypes
        <3>2. CASE UNCHANGED <<events, armed>>
            BY <3>2, Zenon
        <3>3. QED
            BY <3>1, <3>2 DEF Arrive, Drain, Finish, Fail
    <2>2. \A t \in Ids : t # s => UNCHANGED <<rx[t], status[t], room[t]>>
        BY <1>0 DEF Arrive, Drain, Finish, Fail, DataArrives, RoomGrows, PeerFinishes, SocketFails,
                    LoopTypeOK, SocketTypeOK
    <2>3. QED
        BY <2>1, <2>2
<1>5. ReadsAreArmed'
    BY <1>0, <1>2, <1>4 DEF ReadsAreArmed, WillRead
<1>6. "r" \in events'[s] \/ WillRead(s) \/ (stopped' = stopped /\ (rx'[s] # <<>> => rx[s] # <<>>))
    <2>1. CASE Arrive(s)
        BY <1>0, <2>1, Zenon DEF Arrive, Record, ReadsAreArmed, WinTypes
    <2>2. CASE Drain(s) \/ Finish(s) \/ Fail(s)
        BY <1>0, <2>2 DEF Drain, Finish, Fail, RoomGrows, PeerFinishes, SocketFails, LoopTypeOK,
                          SocketTypeOK
    <2>3. QED
        BY <2>1, <2>2
<1>7. stopped \ {s} \subseteq stopped'
    BY DEF Arrive, Drain, Finish, Fail
<1>8. ReadinessKept'
    <2> SUFFICES ASSUME NEW t \in open, rx'[t] # <<>>, ~WillRead(t), t \notin stopped'
                 PROVE  "r" \in events'[t]
        BY <1>2, Zenon DEF ReadinessKept, WillRead
    <2>1. CASE t = s
        BY <1>0, <1>4, <1>6, <2>1 DEF ReadinessKept
    <2>2. CASE t # s
        BY <1>0, <1>4, <1>7, <2>2 DEF ReadinessKept
    <2>3. QED
        BY <2>1, <2>2, Zenon
<1>9. PendingIsWatched'
    <2> SUFFICES ASSUME NEW t \in open \cap TcpIds, write_buffer[t] # <<>>, ~WillWrite(t),
                        status'[t] # "failed", t \notin shut
                 PROVE  IF room'[t] > 0 THEN "w" \in events'[t] ELSE "w" \in armed'[t]
        BY <1>2, Zenon DEF PendingIsWatched, WillWrite
    <2>1. status[t] # "failed"
        <3>1. CASE t # s
            BY <1>0, <1>4, <3>1
        <3>2. CASE t = s
            BY <1>0, <3>2 DEF Arrive, Drain, Finish, Fail, DataArrives, RoomGrows, PeerFinishes,
                              SocketFails, LoopTypeOK, SocketTypeOK
        <3>3. QED
            BY <3>1, <3>2, Zenon
    <2>2. IF room[t] > 0 THEN "w" \in events[t] ELSE "w" \in armed[t]
        BY <2>1 DEF PendingIsWatched
    <2>3. CASE t # s
        BY <1>0, <1>4, <2>2, <2>3
    <2>4. CASE t = s /\ Drain(s)
        BY <1>0, <2>2, <2>4 DEF Drain, RoomGrows, Record, WinTypes, LoopTypeOK, SocketTypeOK
    <2>5. CASE t = s /\ ~Drain(s)
        BY <1>0, <1>4, <2>2, <2>5 DEF Arrive, Finish, Fail, Record, DataArrives, PeerFinishes,
                                      SocketFails, WinTypes
    <2>6. QED
        BY <2>3, <2>4, <2>5
<1>10. QED
    BY <1>1, <1>3, <1>5, <1>8, <1>9

\* A stream that is opened has nothing to read or to write.
LEMMA TableWin ==
    ASSUME WinInv, NEW s \in Ids,
           Open(s) \/ OpenError(s) \/ Close(s)
    PROVE  WinInv'
<1> USE DEF WinInv, winVars, streamVars, postVars, RestUnchanged, tableVars, bufferVars, receiveVars,
            socketVars
<1>0. LoopTypeOK /\ Holdings /\ Rounds /\ pc = "pull" /\ writable = {} /\ open \subseteq Ids
    BY DEF LoopInv, LoopTypeOK, SocketTypeOK, Rounds, Open, OpenSocket, OpenError, OpenFails,
       Close, CloseSocket
<1>1. LoopInv'
    BY TableLoop DEF Open, OpenError, Close
<1>2. WinTypes'
    <2>1. CASE Open(s)
        BY <1>0, <2>1 DEF Open, OpenSocket, reset_handles, FD_READ_WRITE, WinTypes, Kinds
    <2>2. CASE OpenError(s)
        BY <2>2 DEF OpenError, OpenFails, WinTypes
    <2>3. CASE Close(s)
        BY <1>0, <2>3 DEF Close, CloseSocket, reset_handles, WinTypes
    <2>4. QED
        BY <2>1, <2>2, <2>3
<1>3. /\ pc' = "pull" /\ UNCHANGED <<reading, again, writable, waker, queued, poster, stopped>>
      /\ \A t \in open' :
            \/ t \in open /\ UNCHANGED <<rx[t], status[t], room[t], write_buffer[t], events[t],
                                          armed[t], t \in shut>>
            \/ rx'[t] = <<>> /\ write_buffer'[t] = <<>> /\ "r" \in armed'[t]
    <2>1. CASE Open(s)
        BY <1>0, <2>1 DEF Open, OpenSocket, FD_READ_WRITE, Holdings, WinTypes, LoopTypeOK,
           SocketTypeOK
    <2>2. CASE OpenError(s)
        BY <1>0, <2>2 DEF OpenError, OpenFails
    <2>3. CASE Close(s)
        BY <1>0, <2>3 DEF Close, CloseSocket, Forget, WinTypes, LoopTypeOK, SocketTypeOK
    <2>4. QED
        BY <2>1, <2>2, <2>3
<1>4. ReadsAreArmed' /\ ReadinessKept'
    BY <1>3 DEF ReadsAreArmed, ReadinessKept, WillRead
<1>5. PendingIsWatched' /\ PostedIsSeen'
    BY <1>0, <1>3 DEF PendingIsWatched, WillWrite, PostedIsSeen
<1>6. QED
    BY <1>1, <1>2, <1>4, <1>5

\* A write is followed by write_from_buffer.
LEMMA WriteWin ==
    ASSUME WinInv, NEW s \in open, Write(s) \/ WriteUdpOrTun(s) \/ Shutdown(s)
    PROVE  WinInv'
<1> USE DEF WinInv, winVars, streamVars, postVars, RestUnchanged, tableVars, bufferVars, receiveVars,
            socketVars
<1>0. LoopTypeOK /\ Holdings /\ Rounds /\ pc = "pull" /\ writable = {} /\ s \in Ids
    BY Zenon DEF LoopInv, LoopTypeOK, SocketTypeOK, Rounds, Write, WriteTcp, WriteUdpOrTun,
       WriteDatagram, Shutdown, ShutdownWrite
<1>1. LoopInv'
    <2>1. CASE Write(s)
        BY <1>0, <2>1, WriteLoop DEF Write
    <2>2. CASE WriteUdpOrTun(s)
        BY <1>0, <2>2, Zenon DEF WriteUdpOrTun, WriteDatagram, LoopInv, LoopTypeOK, SocketTypeOK,
                          ThreadTypeOK, Holdings, Rounds
    <2>3. CASE Shutdown(s)
        BY <1>0, <2>3, TableLoop DEF Shutdown
    <2>4. QED
        BY <2>1, <2>2, <2>3
<1>2. /\ UNCHANGED <<open, rx, room, reading, again, writable, handles, events, armed, is_readable,
                     stopped, waker, postVars>>
      /\ pc' \in {"pull", "flush"}
      /\ is_writable' \subseteq is_writable \cup (open \cap Sockets)
    <2>1. CASE Write(s)
        BY <1>0, <2>1, Zenon DEF Write, WriteTcp
    <2>2. CASE WriteUdpOrTun(s)
        BY <1>0, <2>2 DEF WriteUdpOrTun, WriteDatagram, Ids, Sockets
    <2>3. CASE Shutdown(s)
        BY <1>0, <2>3, Zenon DEF Shutdown, ShutdownWrite
    <2>4. QED
        BY <2>1, <2>2, <2>3, Zenon
<1>3. WinTypes' /\ ReadsAreArmed' /\ ReadinessKept' /\ PostedIsSeen'
    BY <1>0, <1>2 DEF WinTypes, ReadsAreArmed, ReadinessKept, WillRead, PostedIsSeen
<1>4. PendingIsWatched'
    <2>1. CASE Write(s)
        BY <1>0, <1>2, <2>1, Zenon
           DEF Write, WriteTcp, PendingIsWatched, WillWrite, LoopTypeOK, SocketTypeOK
    <2>2. CASE WriteUdpOrTun(s) \/ Shutdown(s)
        BY <1>0, <1>2, <2>2, Zenon DEF WriteUdpOrTun, WriteDatagram, Shutdown, ShutdownWrite,
                PendingIsWatched, WillWrite, LoopTypeOK, SocketTypeOK
    <2>3. QED
        BY <2>1, <2>2, Zenon
<1>5. QED
    BY <1>1, <1>3, <1>4

\* write_from_buffer goes on until the buffer is empty or send fails; a send that
\* blocks enables FD_WRITE.
LEMMA FlushWin == WinInv /\ WriteFromBuffer => WinInv'
<1> SUFFICES ASSUME WinInv, WriteFromBuffer PROVE WinInv'
    OBVIOUS
<1> USE DEF WinInv, winVars, streamVars, postVars, tableVars, bufferVars, receiveVars, socketVars,
            threadVars
<1>0. /\ LoopTypeOK /\ Holdings /\ Rounds /\ pc = "flush"
      /\ current \in open /\ current \in Ids /\ open \subseteq Ids
    BY Zenon DEF LoopInv, LoopTypeOK, SocketTypeOK, Rounds, WriteFromBuffer, FlushWrites,
       FlushEmpty, FlushBlocked, FlushError
<1>1. LoopInv'
    BY <1>0, FlushLoop DEF WriteFromBuffer
<1>2. UNCHANGED <<open, handles, rx, status, shut, reading, again, writable, events, is_readable,
                  stopped, waker, postVars>>
    BY DEF WriteFromBuffer, FlushWrites, WriteReturns
<1>3. \/ pc' = "flush" /\ current' = current
      \/ pc' \in {"pull", "results"}
    BY <1>0 DEF WriteFromBuffer, FlushWrites, WriteReturns, LoopTypeOK, ThreadTypeOK
<1>4. /\ armed' \in [Ids -> SUBSET Kinds]
      /\ \A t \in Ids : armed[t] \subseteq armed'[t] /\ (t # current => armed'[t] = armed[t])
    BY <1>0 DEF WriteFromBuffer, WinTypes, Kinds
<1>5. WinTypes'
    <2>1. is_writable' \subseteq open \cap Sockets
        BY <1>0 DEF WriteFromBuffer, WinTypes, Rounds, Sockets
    <2>2. QED
        BY <1>2, <1>3, <1>4, <2>1 DEF WinTypes
<1>6. ReadsAreArmed' /\ ReadinessKept'
    BY <1>0, <1>2, <1>4 DEF ReadsAreArmed, ReadinessKept, WillRead
<1>7. PostedIsSeen'
    BY <1>0, <1>2, <1>3 DEF PostedIsSeen
<1>8. PendingIsWatched'
    <2> SUFFICES ASSUME NEW t \in open \cap TcpIds, write_buffer'[t] # <<>>, ~WillWrite(t)',
                        status[t] # "failed", t \notin shut
                 PROVE  IF room'[t] > 0 THEN "w" \in events[t] ELSE "w" \in armed'[t]
        BY <1>2 DEF PendingIsWatched
    <2>1. CASE t # current
        <3>1. write_buffer'[t] = write_buffer[t] /\ room'[t] = room[t]
            BY <1>0, <2>1, Zenon DEF WriteFromBuffer, FlushWrites, WriteReturns, LoopTypeOK,
               SocketTypeOK
        <3>2. ~WillWrite(t)
            BY <1>2, <2>1, Zenon DEF WillWrite
        <3>3. QED
            BY <1>0, <1>4, <2>1, <3>1, <3>2, Zenon DEF PendingIsWatched
    <2>2. CASE t = current
        <3>1. ~FlushWrites /\ WriteReturns
            BY <1>0, <1>3, <2>2, Zenon DEF WriteFromBuffer, FlushWrites, WillWrite
        <3>2. FlushBlocked /\ armed' = [armed EXCEPT ![current] = @ \cup {"w"}]
            BY <2>2, <3>1 DEF WriteFromBuffer, WriteReturns, FlushEmpty, FlushError, CanWrite,
               Buffer
        <3>3. QED
            <4>1. room'[t] = 0
                BY <2>2, <3>1, <3>2, Zenon DEF FlushBlocked, WriteReturns
            <4>2. ~(room'[t] > 0)
                BY <4>1
            <4>3. "w" \in armed'[t]
                BY <1>0, <2>2, <3>2 DEF WinTypes, LoopTypeOK, ThreadTypeOK
            <4>4. QED
                BY <4>2, <4>3, Zenon
    <2>3. QED
        BY <2>1, <2>2
<1>9. QED
    BY <1>1, <1>5, <1>6, <1>7, <1>8

\* A poll that ends with the event of a stream takes the events of all of them.
LEMMA PollWin == WinInv /\ (PollReady \/ PollFails) => WinInv'
<1> SUFFICES ASSUME WinInv, NEW tun \in SUBSET Kinds, GetStates(tun) PROVE WinInv'
    BY DEF PollReady, PollFails, WinInv, WinTypes, Ids
<1> USE DEF WinInv, streamVars, postVars, tableVars, bufferVars, receiveVars, socketVars
<1>0. /\ LoopTypeOK /\ Holdings /\ Rounds /\ pc = "poll" /\ open \subseteq Ids
      /\ reading = {} /\ again = {} /\ writable = {}
    BY Zenon DEF LoopInv, LoopTypeOK, SocketTypeOK, Rounds, GetStates
<1>1. /\ pc' = "results"
      /\ is_readable' = is_readable \cup {s \in open \cap Sockets : "r" \in events[s]}
      /\ is_writable' = is_writable \cup {s \in open \cap Sockets : "w" \in events[s]}
      /\ reading' = is_readable' \cup (open \cap {TUN})
      /\ writable' = is_writable' \cap TcpIds
      /\ events' = [s \in Ids |-> IF s = TUN THEN tun ELSE {}]
      /\ UNCHANGED <<open, unused, bufferVars, socketVars, pull_to, flush_to, current, again, handles,
                     armed, stopped, waker, postVars>>
    BY DEF GetStates, get_events
<1>2. /\ is_readable' \subseteq open \cap Sockets /\ is_writable' \subseteq open \cap Sockets
      /\ events' \in [Ids -> SUBSET Kinds]
    BY <1>1 DEF WinTypes
<1>3. LoopInv'
    <2>1. SocketTypeOK' /\ Holdings'
        BY <1>0, <1>1 DEF LoopTypeOK, SocketTypeOK, Holdings
    <2>2. ThreadTypeOK' /\ Rounds'
        BY <1>0, <1>1, <1>2 DEF LoopTypeOK, ThreadTypeOK, Rounds
    <2>3. QED
        BY <2>1, <2>2, Zenon DEF LoopInv, LoopTypeOK
<1>4. WinTypes'
    BY <1>1, <1>2 DEF WinTypes
<1>5. PostedIsSeen'
    BY <1>0, <1>1 DEF PostedIsSeen
<1>6. ReadsAreArmed'
    BY <1>0, <1>1 DEF ReadsAreArmed, WillRead
<1>7. ReadinessKept'
    <2> SUFFICES ASSUME NEW s \in open, rx[s] # <<>>, s \notin stopped
                 PROVE  s \in reading'
        BY <1>1 DEF ReadinessKept, WillRead
    <2>1. "r" \in events[s] /\ (s = TUN \/ s \in Sockets)
        BY <1>0 DEF ReadinessKept, WillRead, Ids, Sockets
    <2>2. QED
        BY <1>1, <2>1
<1>8. PendingIsWatched'
    BY <1>0, <1>1 DEF PendingIsWatched, WillWrite, Sockets
<1>9. QED
    BY <1>3, <1>4, <1>5, <1>6, <1>7, <1>8

\* A read enables FD_READ, and records it if there is more to read.
LEMMA ReadWin ==
    ASSUME WinInv, NEW s \in reading, ReadGood(s) \/ ReadBad(s)
    PROVE  WinInv'
<1> USE DEF WinInv, winVars, streamVars, postVars, tableVars, bufferVars, receiveVars, socketVars
<1>0. /\ LoopTypeOK /\ Holdings /\ Rounds /\ pc = "results" /\ open \subseteq Ids
      /\ s \in Ids /\ writable = {}
    BY Zenon DEF LoopInv, LoopTypeOK, SocketTypeOK, ThreadTypeOK, ReadGood, ReadBad, ReadData,
       ReadNothing, ReadEmpty, ReadError, ReadClosed, CanRead
<1>1. LoopInv'
    BY <1>0, ReadLoop DEF ReadGood, ReadBad
<1>2. /\ pc' \in {"results", "pull"}
      /\ UNCHANGED <<open, shut, write_buffer, room, current, writable, handles, is_writable, waker,
                     queued, poster, posts>>
    BY <1>0, Zenon DEF ReadGood, ReadBad, ReadData, ReadNothing, ReadEmpty, ReadError, ReadClosed
<1>3. s \in open => recv(s)
    BY DEF ReadGood, ReadBad
<1>4. s \notin open => UNCHANGED <<events, armed>>
    BY Zenon DEF ReadGood, ReadBad, ReadData, ReadEmpty, HasData
<1>5. /\ events' \in [Ids -> SUBSET Kinds] /\ armed' \in [Ids -> SUBSET Kinds]
      /\ \A t \in Ids : events[t] \subseteq events'[t] /\ (t # s => armed'[t] = armed[t])
      /\ "w" \in armed'[s] <=> "w" \in armed[s]
      /\ s \in open /\ s # TUN =>
            IF rx'[s] # <<>> THEN "r" \in events'[s] ELSE "r" \in armed'[s]
    <2>1. CASE s \in open /\ s # TUN /\ rx'[s] # <<>>
        BY <1>0, <1>3, <2>1 DEF recv, WinTypes, Kinds
    <2>2. CASE s \in open /\ s # TUN /\ rx'[s] = <<>>
        BY <1>0, <1>3, <2>2 DEF recv, WinTypes, Kinds
    <2>3. CASE s \notin open \/ s = TUN
        <3>1. UNCHANGED <<events, armed>>
            BY <1>3, <1>4, <2>3 DEF recv
        <3>2. QED
            BY <2>3, <3>1 DEF WinTypes
    <2>4. QED
        BY <2>1, <2>2, <2>3
<1>6. WinTypes'
    <2>1. is_readable' \subseteq open \cap Sockets
        BY <1>0, Zenon DEF ReadGood, ReadBad, ReadData, ReadEmpty, HasData, WinTypes, Ids, Sockets
    <2>2. stopped' \subseteq {TUN}
        BY DEF ReadGood, ReadBad, WinTypes
    <2>3. QED
        BY <1>2, <1>5, <2>1, <2>2 DEF WinTypes
<1>7. PostedIsSeen'
    BY <1>0, <1>2 DEF PostedIsSeen
<1>8. \A t \in Ids : t # s =>
        /\ rx'[t] = rx[t] /\ status'[t] = status[t]
        /\ WillRead(t) => WillRead(t)'
        /\ t \in stopped => t \in stopped'
        /\ t \in stopped' => t \in stopped
    BY <1>0, Zenon DEF ReadGood, ReadBad, ReadData, ReadNothing, ReadEmpty, ReadError,
       ReadClosed, ReadOn, WillRead, LoopTypeOK, SocketTypeOK
<1>9. ReadsAreArmed'
    BY <1>0, <1>2, <1>5, <1>8, Zenon DEF ReadsAreArmed, Sockets
<1>10. s = TUN /\ s \in open => WillRead(s)' \/ s \in stopped' \/ rx'[s] = <<>>
    <2>1. ASSUME ReadData(s) PROVE WillRead(s)'
        BY <2>1, Zenon DEF ReadData, ReadOn, WillRead
    <2>2. ASSUME ReadEmpty(s), s = TUN PROVE s \in stopped'
        BY <2>2, Zenon DEF ReadEmpty, CanRead, ReadGood, ReadBad, ReadError, ReadClosed,
           ReadNothing, HasData
    <2>3. ASSUME ReadError(s), s = TUN PROVE s \in stopped'
        BY <2>3 DEF ReadError, ReadGood, ReadBad, ReadData, ReadEmpty, HasData
    <2>4. ASSUME ReadClosed(s) \/ ReadNothing(s), s \in open PROVE rx'[s] = <<>>
        BY <2>4, Zenon DEF ReadClosed, ReadNothing
    <2>5. QED
        BY <2>1, <2>2, <2>3, <2>4 DEF ReadGood, ReadBad
<1>11. ReadinessKept'
    <2> SUFFICES ASSUME NEW t \in open, rx'[t] # <<>>, ~WillRead(t)', t \notin stopped'
                 PROVE  "r" \in events'[t]
        BY <1>2, Zenon DEF ReadinessKept
    <2>1. CASE t = s
        BY <1>5, <1>10, <2>1
    <2>2. CASE t # s
        BY <1>0, <1>5, <1>8, <2>2, Zenon DEF ReadinessKept
    <2>3. QED
        BY <2>1, <2>2
<1>12. \A t \in TcpIds : status'[t] = status[t]
    BY <1>0, Zenon DEF ReadGood, ReadBad, ReadData, ReadNothing, ReadEmpty, ReadError,
       ReadClosed, LoopTypeOK, SocketTypeOK, Ids
<1>13. PendingIsWatched'
    BY <1>0, <1>2, <1>5, <1>12, Zenon DEF PendingIsWatched, WillWrite
<1>14. QED
    BY <1>1, <1>6, <1>7, <1>9, <1>11, <1>13, Zenon

\* The other steps of the thread touch no stream.
LEMMA ThreadWin ==
    ASSUME WinInv,
           \/ (PullEnds \/ ReadsDone \/ (\E s \in writable : HandleWritable(s))) /\ UNCHANGED winVars
           \/ HandleMessages \/ PollTimeout \/ PollWaker \/ WakerReset
    PROVE  WinInv'
<1> USE DEF WinInv, winVars, streamVars, postVars, RestUnchanged, tableVars, bufferVars, receiveVars,
            socketVars
<1>0. LoopTypeOK /\ Rounds /\ writable \subseteq Ids
    BY DEF LoopInv, LoopTypeOK, ThreadTypeOK, Ids
<1>1. LoopInv'
    <2>1. CASE PollTimeout \/ PollWaker \/ WakerReset
        BY <1>0, <2>1, Zenon DEF PollTimeout, PollWaker, WakerReset, LoopInv, LoopTypeOK,
           SocketTypeOK, ThreadTypeOK, Holdings, Rounds
    <2>2. CASE HandleMessages \/ PullEnds \/ ReadsDone \/ (\E s \in writable : HandleWritable(s))
        <3>1. MessagesEnd \/ PullEnds \/ ReadsDone \/ (\E s \in writable : HandleWritable(s))
            BY <2>2, Zenon DEF HandleMessages
        <3>2. QED
            BY <1>0, <3>1, ThreadLoop, Zenon
    <2>3. QED
        BY <2>1, <2>2, Zenon
<1>2. /\ UNCHANGED <<open, rx, status, room, shut, write_buffer, reading, again, streamVars, poster, posts>>
      /\ pc' # "set_wait"
    BY <1>0, Zenon DEF PullEnds, ReadsDone, HandleWritable, HandleMessages, MessagesEnd,
       PollTimeout, PollWaker, WakerReset, LoopTypeOK, ThreadTypeOK
<1>3. WinTypes'
    <2>1. waker' \in BOOLEAN
        BY Zenon DEF WinTypes, HandleMessages, PollTimeout, PollWaker, WakerReset
    <2>2. queued' \in BOOLEAN
        BY Zenon DEF WinTypes, HandleMessages, PollTimeout, PollWaker, WakerReset
    <2>3. QED
        BY <1>2, <2>1, <2>2 DEF WinTypes
<1>4. ReadsAreArmed' /\ ReadinessKept'
    BY <1>2, Zenon DEF ReadsAreArmed, ReadinessKept, WillRead
<1>5. PostedIsSeen'
    BY <1>0, Zenon DEF PullEnds, ReadsDone, HandleWritable, HandleMessages, MessagesEnd,
       PollTimeout, PollWaker, WakerReset, LoopTypeOK, ThreadTypeOK, PostedIsSeen
<1>6. PendingIsWatched'
    BY <1>0, <1>2, Zenon DEF PullEnds, ReadsDone, HandleWritable, HandleMessages, MessagesEnd,
       PollTimeout, PollWaker, WakerReset, LoopTypeOK, ThreadTypeOK, PendingIsWatched, WillWrite
<1>7. QED
    BY <1>1, <1>3, <1>4, <1>5, <1>6

\* A caller puts its message in the queue before it sets the waker.
LEMMA PostWin == WinInv /\ (Post \/ Wake) => WinInv'
<1> SUFFICES ASSUME WinInv, Post \/ Wake PROVE WinInv'
    OBVIOUS
<1> USE DEF WinInv, streamVars, loopVars, tableVars, bufferVars, receiveVars, socketVars, threadVars
<1>1. UNCHANGED <<loopVars, streamVars>>
    BY DEF Post, Wake
<1>2. LoopInv'
    <2>1. SocketTypeOK' /\ Holdings'
        BY <1>1, Zenon DEF LoopInv, LoopTypeOK, SocketTypeOK, Holdings
    <2>2. ThreadTypeOK' /\ Rounds'
        BY <1>1, Zenon DEF LoopInv, LoopTypeOK, ThreadTypeOK, Rounds
    <2>3. QED
        BY <2>1, <2>2, Zenon DEF LoopInv, LoopTypeOK
<1>3. ReadsAreArmed' /\ ReadinessKept' /\ PendingIsWatched'
    BY <1>1, Zenon DEF ReadsAreArmed, ReadinessKept, WillRead, PendingIsWatched, WillWrite
<1>4. WinTypes'
    <2>1. waker' \in BOOLEAN /\ queued' \in BOOLEAN /\ poster' \in {"idle", "posting"}
        BY Zenon DEF Post, Wake, Send, WinTypes
    <2>2. posts' \in 0..MaxPosts
        BY DEF Post, Wake, WinTypes
    <2>3. QED
        BY <1>1, <2>1, <2>2 DEF WinTypes
<1>5. PostedIsSeen'
    <2>1. CASE Post
        BY <2>1, Zenon DEF Post, PostedIsSeen
    <2>2. CASE Wake
        <3>1. waker' = TRUE
            BY <2>2, 2 # 1, Zenon DEF Wake, Send
        <3>2. QED
            BY <3>1, Zenon DEF PostedIsSeen
    <2>3. QED
        BY <2>1, <2>2
<1>6. QED
    BY <1>2, <1>3, <1>4, <1>5

\* Every step of the thread, the callers and the network keeps the invariant.
LEMMA NextWin == WinInv /\ [Next]_vars => WinInv'
<1> SUFFICES ASSUME WinInv, [Next]_vars PROVE WinInv'
    OBVIOUS
<1>0. open \subseteq Ids /\ unused \subseteq Ids
    BY DEF WinInv, LoopInv, LoopTypeOK, SocketTypeOK, Ids
<1>1. CASE Network
    BY <1>1, NetworkWin DEF Network
<1>2. CASE Post \/ Wake
    BY <1>2, PostWin
<1>3. CASE Pull
    BY <1>0, <1>3, TableWin, WriteWin DEF Pull
<1>4. CASE PullDone \/ PollTimeout
    BY <1>4, ThreadWin DEF PullDone
<1>5. CASE Thread
    BY <1>5, FlushWin, ReadWin, ThreadWin, Zenon DEF Thread
<1>6. CASE PollReady \/ PollFails
    BY <1>6, PollWin
<1>7. CASE UNCHANGED vars
    <2> USE <1>7 DEF vars, winVars, streamVars, postVars, loopVars, tableVars, bufferVars, receiveVars,
                     socketVars, threadVars
    <2>1. LoopInv'
        BY Zenon DEF WinInv, LoopInv, LoopTypeOK, SocketTypeOK, ThreadTypeOK, Holdings, Rounds
    <2>2. WinTypes' /\ PostedIsSeen'
        BY DEF WinInv, WinTypes, PostedIsSeen
    <2>3. ReadsAreArmed' /\ ReadinessKept' /\ PendingIsWatched'
        BY DEF WinInv, ReadsAreArmed, ReadinessKept, WillRead, PendingIsWatched, WillWrite
    <2>4. QED
        BY <2>1, <2>2, <2>3, Zenon DEF WinInv
<1>8. QED
    BY <1>1, <1>2, <1>3, <1>4, <1>5, <1>6, <1>7 DEF Next

\* The invariant holds in every state.
LEMMA WinInvariant == Spec => []WinInv
BY InitWin, NextWin, PTL DEF Spec

\* Types, and the handles that a poll waits for are those of the open streams.
THEOREM TypeCorrect == Spec => []TypeOK
<1>1. WinInv => TypeOK
    BY DEF WinInv, LoopInv, WinTypes, Kinds, TypeOK
<1>2. QED
    BY <1>1, WinInvariant, PTL

\* What has arrived at a socket or the tun ends the next wait, for any number of
\* streams, also if the waker ended the last one.
THEOREM ReadinessIsKept == Spec => []ReadinessKept
<1>1. WinInv => ReadinessKept
    BY DEF WinInv
<1>2. QED
    BY <1>1, WinInvariant, PTL

\* Data in a write buffer gets its event when there is room.
THEOREM PendingWritesAreWatched == Spec => []PendingIsWatched
<1>1. WinInv => PendingIsWatched
    BY DEF WinInv
<1>2. QED
    BY <1>1, WinInvariant, PTL

\* No wake-up is lost between SetEvent of a caller and ResetEvent of the thread.
THEOREM PostedMessagesAreSeen == Spec => []PostedIsSeen
<1>1. WinInv => PostedIsSeen
    BY DEF WinInv
<1>2. QED
    BY <1>1, WinInvariant, PTL

\* Every step is one that the transport knows, or does not concern it.
LEMMA NextStreams == WinInv /\ [Next]_vars => StreamStep
<1> SUFFICES ASSUME WinInv, [Next]_vars PROVE StreamStep
    OBVIOUS
<1> USE DEF tableVars, bufferVars, receiveVars, socketVars
<1>0. open \subseteq Ids /\ unused \subseteq Ids /\ reading \subseteq Ids
    BY DEF WinInv, LoopInv, LoopTypeOK, SocketTypeOK, ThreadTypeOK, Ids
<1>0a. ASSUME UNCHANGED <<open, write_buffer, written, wire, rx>> PROVE StreamStep
    BY <1>0a, Zenon DEF StreamStep
<1>1. CASE Network
    <2>1. CASE \E s \in open : DataArrives(s) \/ SocketFails(s)
        BY <1>0, <2>1, Zenon DEF StreamStep
    <2>2. CASE \E s \in open : RoomGrows(s) \/ PeerFinishes(s)
        BY <1>0a, <2>2 DEF RoomGrows, PeerFinishes, NetUnchanged
    <2>3. QED
        BY <1>1, <2>1, <2>2, Zenon DEF Network, Arrive, Drain, Finish, Fail
<1>2. CASE Post \/ Wake
    BY <1>2, <1>0a DEF Post, Wake, loopVars
<1>3. CASE Pull
    <2>1. CASE \E s \in unused : OpenSocket(s)
        BY <1>0, <2>1, Zenon DEF StreamStep
    <2>2. CASE \E s \in open : CloseSocket(s)
        <3>1. PICK s \in Ids : Forget(s) /\ open' \in {open \cup {s}, open \ {s}}
            BY <1>0, <2>2 DEF CloseSocket
        <3>2. QED
            BY <3>1, Zenon DEF StreamStep
    <2>3. CASE \E s \in open : WriteTcp(s)
        <3>1. \E s \in TcpIds : WriteTcp(s)
            BY <2>3, Zenon DEF WriteTcp
        <3>2. QED
            BY <3>1, Zenon DEF StreamStep
    <2>4. CASE \/ \E s \in unused : OpenFails(s)
               \/ \E s \in open : ShutdownWrite(s) \/ WriteDatagram(s)
        BY <1>0a, <2>4, Zenon DEF OpenFails, ShutdownWrite, WriteDatagram
    <2>5. QED
        BY <1>3, <2>1, <2>2, <2>3, <2>4, Zenon
           DEF Pull, Open, OpenError, Close, Shutdown, Write, WriteUdpOrTun
<1>4. CASE PullDone \/ PollReady \/ PollFails \/ PollTimeout
    BY <1>4, <1>0a, Zenon DEF PullDone, PullEnds, PollReady, PollFails, GetStates, PollTimeout
<1>5. CASE Thread
    <2>1. CASE WriteFromBuffer
        <3>1. CASE FlushWrites
            BY <3>1, Zenon DEF StreamStep
        <3>2. CASE ~FlushWrites
            BY <2>1, <3>2, <1>0a, Zenon DEF WriteFromBuffer, WriteReturns
        <3>3. QED
            BY <3>1, <3>2, Zenon
    <2>2. CASE ReadsDone \/ \E s \in reading : ReadGood(s) \/ ReadBad(s)
        <3>1. CASE \E s \in reading : ReadData(s) \/ ReadEmpty(s)
            BY <1>0, <3>1, Zenon DEF StreamStep
        <3>2. CASE ReadsDone \/ \E s \in reading : ReadError(s) \/ ReadClosed(s) \/ ReadNothing(s)
            BY <3>2, <1>0a, Zenon DEF ReadsDone, ReadError, ReadClosed, ReadNothing
        <3>3. QED
            BY <2>2, <3>1, <3>2, Zenon DEF ReadGood, ReadBad
    <2>3. CASE HandleMessages \/ PollWaker \/ WakerReset \/ \E s \in writable : HandleWritable(s)
        BY <2>3, <1>0a DEF HandleMessages, PollWaker, WakerReset, MessagesEnd, HandleWritable
    <2>4. QED
        BY <1>5, <2>1, <2>2, <2>3, Zenon DEF Thread
<1>6. CASE UNCHANGED vars
    BY <1>6, <1>0a, Zenon DEF vars, loopVars
<1>7. QED
    BY <1>1, <1>2, <1>3, <1>4, <1>5, <1>6, Zenon DEF Next

\* So it keeps the order of the bytes.
LEMMA StepKeepsOrder == WinInv /\ Ordered /\ Fresh /\ [Next]_vars => Ordered' /\ Fresh'
    BY NextStreams, StreamKeeps, Zenon DEF WinInv

\* In every reachable state wire and write buffers are in order, and a stream that
\* is not open has sent nothing.
LEMMA OrderInvariant == Spec => [](Ordered /\ Fresh)
<1>1. Init => Ordered /\ Fresh
    BY InitOrdered, InitTransport, Zenon DEF Init
<1>2. QED
    BY <1>1, StepKeepsOrder, WinInvariant, PTL DEF Spec

\* What leaves a TCP stream is what was written to it, in order and without gaps or
\* repetitions, and an empty write buffer has kept nothing back: for every number
\* of streams, size of a write and room in the socket.
THEOREM BytesLeaveInOrder == Spec => []SentInOrder
<1>1. WinInv /\ Ordered => SentInOrder
    BY OrderedIsSent, Zenon DEF WinInv
<1>2. QED
    BY <1>1, OrderInvariant, WinInvariant, PTL

\* The streams on Windows implement the transport, for any streams and sizes: with the
\* bytes of the write buffers as its queue every step of the thread, the system
\* or the network is a step of the transport or leaves it as it is.
THEOREM StreamsImplementTransport == Spec => ImplementsTransport
<1>1. Init => Transport!Init
    BY InitTransport, Zenon DEF Init
<1>2. WinInv /\ WinInv' /\ Ordered /\ Ordered' /\ Fresh /\ [Next]_vars
        => [Transport!Next]_(Transport!vars)
    BY NextStreams, StepTransports, Zenon DEF WinInv
<1>3. QED
    BY <1>1, <1>2, OrderInvariant, WinInvariant, PTL DEF Spec, ImplementsTransport, Transport!Spec
=============================================================================
