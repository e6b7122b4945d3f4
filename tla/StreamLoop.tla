------------------------------ MODULE StreamLoop ------------------------------
(***************************************************************************)
(* The streams of the connection thread, apart from how a platform learns  *)
(* that one is ready: what the operating system holds for each stream, the *)
(* write buffer of TcpSocketStream (mio/tcp.rs), and the part of           *)
(* pvpn_connection.rs that pulls actions, writes and reads.                *)
(*                                                                         *)
(* The thread goes through pc:                                             *)
(*                                                                         *)
(*   messages -> pull -> poll -> results -> messages                       *)
(*                                                                         *)
(* with flush inside pull and results for every write_from_buffer, and     *)
(* pull inside results for every read that brought data.  One step is one  *)
(* call of the operating system, so that the network acts between any two. *)
(*                                                                         *)
(* The definitions here are parts of actions: MioStreams and               *)
(* WindowsStreams add what happens to their own variables.                 *)
(***************************************************************************)
EXTENDS Naturals, Sequences

CONSTANTS
    TcpIds, UdpIds,     \* stream ids the client gives to its sockets
    MaxWritten,         \* bound on the bytes written to a TCP stream
    MaxChunk,           \* bound on the bytes of one write
    MaxRoom,            \* size of a socket's send buffer, in bytes
    MaxArrivals         \* bound on the payloads that arrive, at all streams

TUN == "TUN_STREAM_ID"
Ids == TcpIds \cup UdpIds \cup {TUN}

ASSUME IdsAssumption == TUN \notin TcpIds \cup UdpIds /\ TcpIds \cap UdpIds = {}

ASSUME SizeAssumption ==
    /\ MaxWritten \in Nat /\ MaxChunk \in Nat /\ MaxRoom \in Nat \ {0} /\ MaxArrivals \in Nat

VARIABLES
    open, unused,           \* streams in the table; ids not given out yet
    write_buffer, written,  \* TcpSocketStream; bytes the client has written
    wire,                   \* bytes the system has taken, in order
    rx, arrived, status,    \* what is there to read, and the socket's state
    room, shut,             \* free bytes of the send buffer; write side shut
    pc, pull_to, flush_to, current, writable, reading, again

bufferVars == <<write_buffer, written, wire>>
receiveVars == <<rx, arrived, status>>
socketVars == <<receiveVars, room, shut>>
tableVars == <<open, unused>>
threadVars == <<pc, pull_to, flush_to, current, writable, reading, again>>
loopVars == <<tableVars, bufferVars, socketVars, threadVars>>

LoopInit ==
    /\ open = {TUN} /\ unused = TcpIds \cup UdpIds
    /\ write_buffer = [s \in Ids |-> <<>>] /\ written = [s \in Ids |-> 0]
    /\ wire = [s \in Ids |-> <<>>]
    /\ rx = [s \in Ids |-> <<>>] /\ arrived = 0
    /\ status = [s \in Ids |-> "up"] /\ room = [s \in Ids |-> 0] /\ shut = {}
    /\ pc = "messages" /\ pull_to = "poll" /\ flush_to = "pull" /\ current = TUN
    /\ writable = {} /\ reading = {} /\ again = {}

SocketTypeOK ==
    /\ open \subseteq Ids /\ unused \subseteq TcpIds \cup UdpIds /\ open \cap unused = {}
    /\ write_buffer \in [Ids -> Seq(Seq(Nat))] /\ written \in [Ids -> Nat]
    /\ wire \in [Ids -> Seq(Nat)]
    /\ rx \in [Ids -> Seq({"data", "empty"})] /\ arrived \in Nat
    /\ status \in [Ids -> {"up", "finished", "failed"}]
    /\ room \in [Ids -> 0..MaxRoom] /\ shut \subseteq TcpIds

ThreadTypeOK ==
    /\ pc \in {"messages", "pull", "flush", "set_wait", "poll", "reset", "results"}
    /\ pull_to \in {"poll", "results"} /\ flush_to \in {"pull", "results"} /\ current \in Ids
    /\ writable \subseteq TcpIds /\ reading \subseteq Ids /\ again \subseteq Ids

LoopTypeOK == SocketTypeOK /\ ThreadTypeOK
-----------------------------------------------------------------------------
(* The network and the other end *)

NetUnchanged == UNCHANGED <<tableVars, bufferVars, threadVars>>

\* A UDP datagram and a tun packet can be without payload.
Payloads(s) == IF s \in TcpIds THEN {"data"} ELSE {"data", "empty"}

DataArrives(s) ==
    /\ s \in open /\ status[s] = "up" /\ arrived < MaxArrivals
    /\ \E payload \in Payloads(s) : rx' = [rx EXCEPT ![s] = Append(@, payload)]
    /\ arrived' = arrived + 1
    /\ UNCHANGED <<status, room, shut>> /\ NetUnchanged

\* The send buffer of a TCP socket gets room when the connection is
\* established, and whenever the other end acknowledges.
RoomGrows(s) ==
    /\ s \in open \cap TcpIds /\ status[s] # "failed" /\ room[s] < MaxRoom
    /\ room' = [room EXCEPT ![s] = @ + 1]
    /\ UNCHANGED <<receiveVars, shut>> /\ NetUnchanged

\* The other end closes a TCP connection, after what it has sent.
PeerFinishes(s) ==
    /\ s \in open \cap TcpIds /\ status[s] = "up"
    /\ status' = [status EXCEPT ![s] = "finished"]
    /\ UNCHANGED <<rx, arrived, room, shut>> /\ NetUnchanged

\* The next read or write returns an error.  A reset TCP connection loses what
\* it has received.
SocketFails(s) ==
    /\ s \in open /\ status[s] # "failed"
    /\ status' = [status EXCEPT ![s] = "failed"]
    /\ rx' = IF s \in TcpIds THEN [rx EXCEPT ![s] = <<>>] ELSE rx
    /\ UNCHANGED <<arrived, room, shut>> /\ NetUnchanged

\* A poll reports s as readable: data, or the end of a TCP connection.  A failed
\* UDP socket or tun is reported as an error, which is only logged.
Readable(s) == s \in open /\ (rx[s] # <<>> \/ (s \in TcpIds /\ status[s] # "up"))

\* A write to the socket does not block.
Writable(s) == s \in open \cap TcpIds /\ (room[s] > 0 \/ status[s] = "failed" \/ s \in shut)
-----------------------------------------------------------------------------
(* pull_from_client: one step per action *)

RestUnchanged == UNCHANGED <<pull_to, flush_to, current, writable, reading, again>>

\* External: the client gives every socket a new id.
OpenSocket(s) ==
    /\ pc = "pull" /\ s \in unused
    /\ open' = open \cup {s}
    /\ unused' = unused \ {s}
    /\ UNCHANGED <<pc, bufferVars, socketVars>> /\ RestUnchanged

\* handle_open when the socket cannot be created or registered.
OpenFails(s) ==
    /\ pc = "pull" /\ s \in unused
    /\ unused' = unused \ {s}
    /\ UNCHANGED <<open, pc, bufferVars, socketVars>> /\ RestUnchanged

\* Everything about a stream that is dropped is forgotten.
Forget(s) ==
    /\ write_buffer' = [write_buffer EXCEPT ![s] = <<>>]
    /\ written' = [written EXCEPT ![s] = 0]
    /\ wire' = [wire EXCEPT ![s] = <<>>]
    /\ rx' = [rx EXCEPT ![s] = <<>>]
    /\ status' = [status EXCEPT ![s] = "up"]
    /\ room' = [room EXCEPT ![s] = 0]
    /\ shut' = shut \ {s}

CloseSocket(s) ==
    /\ pc = "pull" /\ s \in open \ {TUN}
    /\ open' = open \ {s}
    /\ Forget(s)
    /\ UNCHANGED <<unused, arrived, pc>> /\ RestUnchanged

\* shutdown_write looks neither at the buffer nor at the result.
ShutdownWrite(s) ==
    /\ pc = "pull" /\ s \in open \cap TcpIds
    /\ shut' = shut \cup {s}
    /\ UNCHANGED <<tableVars, bufferVars, receiveVars, room, pc>> /\ RestUnchanged

\* The next bytes of a stream: they are numbered as they are written.
NextBytes(s, n) == [i \in 1..n |-> written[s] + i]

\* TcpSocketStream::write: push_back, then write_from_buffer.
WriteTcp(s) ==
    /\ pc = "pull" /\ s \in open \cap TcpIds
    /\ \E n \in 1..MaxChunk :
        /\ written[s] + n <= MaxWritten
        /\ write_buffer' = [write_buffer EXCEPT ![s] = Append(@, NextBytes(s, n))]
        /\ written' = [written EXCEPT ![s] = @ + n]
    /\ pc' = "flush" /\ flush_to' = "pull" /\ current' = s
    /\ UNCHANGED <<tableVars, wire, socketVars, pull_to, writable, reading, again>>

\* write of a UDP socket or the tun: nothing is kept, whether or not the system
\* takes the data; an error is gone with it.
WriteDatagram(s) ==
    /\ pc = "pull" /\ s \in open \ TcpIds
    /\ status' = [status EXCEPT ![s] = "up"]
    /\ UNCHANGED <<tableVars, bufferVars, rx, arrived, room, shut>>

\* need_pull is false.
PullEnds ==
    /\ pc = "pull" /\ pc' = pull_to
    /\ pull_to' = "poll"
    /\ UNCHANGED <<tableVars, bufferVars, socketVars, flush_to, current, writable,
                   reading, again>>
-----------------------------------------------------------------------------
(* write_from_buffer: one step per call of socket.write *)

Smaller(m, n) == IF m < n THEN m ELSE n

Buffer == write_buffer[current]

CanWrite == status[current] # "failed" /\ current \notin shut

\* Mutant: what is left of a partial write goes to the end of the queue.
Rest_at_back(buffer, n) ==
    IF n < Len(Head(buffer)) THEN Append(Tail(buffer), SubSeq(Head(buffer), n + 1, Len(Head(buffer))))
    ELSE Tail(buffer)

\* The buffer once n bytes of its first element were written: what is left of
\* it goes back to the front.
Rest(buffer, n) ==
    IF n < Len(Head(buffer))
    THEN <<SubSeq(Head(buffer), n + 1, Len(Head(buffer)))>> \o Tail(buffer)
    ELSE Tail(buffer)

\* The system takes what it has room for.
FlushWrites ==
    /\ pc = "flush" /\ Buffer # <<>> /\ CanWrite /\ room[current] > 0
    /\ LET n == Smaller(room[current], Len(Head(Buffer)))
       IN  /\ wire' = [wire EXCEPT ![current] = @ \o SubSeq(Head(Buffer), 1, n)]
           /\ write_buffer' = [write_buffer EXCEPT ![current] = Rest(@, n)]
           /\ room' = [room EXCEPT ![current] = @ - n]
    /\ UNCHANGED <<tableVars, written, receiveVars, shut, threadVars>>

FlushEmpty == pc = "flush" /\ Buffer = <<>>

FlushBlocked == pc = "flush" /\ Buffer # <<>> /\ CanWrite /\ room[current] = 0

FlushError == pc = "flush" /\ Buffer # <<>> /\ ~CanWrite

\* handle_stream_write_result has returned; current and flush_to are its
\* caller's no more.
WriteReturns ==
    /\ pc' = flush_to
    /\ current' = TUN /\ flush_to' = "pull"
    /\ UNCHANGED <<tableVars, bufferVars, socketVars, pull_to, writable, reading, again>>
-----------------------------------------------------------------------------
(* handle_poll_results and read_from_streams: one step per stream *)

\* One writable stream: write_from_buffer.  It is a TCP stream: the others have
\* no buffer to write from.
HandleWritable(s) ==
    /\ pc = "results" /\ s \in writable
    /\ writable' = writable \ {s}
    /\ pc' = "flush" /\ flush_to' = "results" /\ current' = s
    /\ UNCHANGED <<tableVars, bufferVars, socketVars, pull_to, reading, again>>

\* The reads follow the writes.
CanRead(s) == pc = "results" /\ writable = {} /\ s \in reading

\* Mutant: one read for each event, as with level-triggered events.
ReadOn_once(s, more) == reading' = reading \ {s} /\ UNCHANGED again

\* Mutant: the streams of this round that were not read yet are forgotten.
ReadOn_first(s, more) == reading' = (IF more THEN {s} ELSE {}) /\ again' = {}

\* s has been read in this round; with more to read it is in the next one.
\* The rounds follow each other without a poll.
ReadOn(s, more) ==
    LET left == reading \ {s}
        next == IF more THEN again \cup {s} ELSE again
    IN  IF left = {} THEN reading' = next /\ again' = {}
        ELSE reading' = left /\ again' = next

HasData(s) == s \in open /\ status[s] # "failed" /\ rx[s] # <<>>

\* A read that brought data.  The client is pulled before the next stream.
ReadData(s) ==
    /\ CanRead(s) /\ HasData(s) /\ Head(rx[s]) = "data"
    /\ rx' = [rx EXCEPT ![s] = Tail(@)]
    /\ ReadOn(s, TRUE)
    /\ pc' = "pull" /\ pull_to' = "results"
    /\ UNCHANGED <<tableVars, bufferVars, arrived, status, room, shut, flush_to,
                   current, writable>>

\* bytes_read is 0 although the read did not block.
ReadEmpty(s) ==
    /\ CanRead(s) /\ HasData(s) /\ Head(rx[s]) = "empty"
    /\ rx' = [rx EXCEPT ![s] = Tail(@)]
    /\ ReadOn(s, FALSE)
    /\ UNCHANGED <<tableVars, bufferVars, arrived, status, room, shut, pc, pull_to,
                   flush_to, current, writable>>

\* An error: the client is told.  On a UDP socket and the tun it is gone then.
ReadError(s) ==
    /\ CanRead(s) /\ s \in open /\ status[s] = "failed"
    /\ status' = IF s \in TcpIds THEN status ELSE [status EXCEPT ![s] = "up"]
    /\ ReadOn(s, FALSE)
    /\ UNCHANGED <<tableVars, bufferVars, rx, arrived, room, shut, pc, pull_to,
                   flush_to, current, writable>>

\* StreamClosed: the other end has closed, and the client is told.
ReadClosed(s) ==
    /\ CanRead(s) /\ s \in open /\ status[s] = "finished" /\ rx[s] = <<>>
    /\ ReadOn(s, FALSE)
    /\ UNCHANGED <<tableVars, bufferVars, socketVars, pc, pull_to, flush_to, current,
                   writable>>

\* The read blocks, or the stream has been closed since poll.
ReadNothing(s) ==
    /\ CanRead(s)
    /\ s \in open => status[s] = "up" /\ rx[s] = <<>>
    /\ ReadOn(s, FALSE)
    /\ UNCHANGED <<tableVars, bufferVars, socketVars, pc, pull_to, flush_to, current,
                   writable>>

ReadsDone ==
    /\ pc = "results" /\ writable = {} /\ reading = {}
    /\ pc' = "messages"
    /\ UNCHANGED <<tableVars, bufferVars, socketVars, pull_to, flush_to, current,
                   writable, reading, again>>

\* handle_messages without a message that concerns streams.
MessagesEnd ==
    /\ pc = "messages"
    /\ pc' = "pull"
    /\ UNCHANGED <<tableVars, bufferVars, socketVars>> /\ RestUnchanged
-----------------------------------------------------------------------------
\* The bytes the system has taken are the first that were written, each once and
\* in the order of the writes, and those missing are in the write buffer
\* (write_from_buffer puts the rest of a partial write back in front).
SentInOrder ==
    \A s \in TcpIds :
        /\ \A i \in DOMAIN wire[s] : wire[s][i] = i
        /\ write_buffer[s] = <<>> => Len(wire[s]) = written[s]
-----------------------------------------------------------------------------
(* The streams as the connection thread sees them *)

\* The bytes of a write buffer, of one element after the other.
Bytes(buffer) ==
    LET upto[k \in 0..Len(buffer)] == IF k = 0 THEN <<>> ELSE upto[k - 1] \o buffer[k]
    IN  upto[Len(buffer)]

Queue == [s \in Ids |-> Bytes(write_buffer[s])]

Transport == INSTANCE StreamTransport WITH
    Data <- {"data", "empty"}, queue <- Queue, inbox <- rx

\* The streams of a platform do what the trait promises: the write buffer keeps
\* the order of the bytes through partial writes (write_from_buffer), nothing is
\* read twice or out of order, and a stream that is closed leaves nothing to the
\* next one.
ImplementsTransport == Transport!Spec
=============================================================================
