---------------------------- MODULE WindowsStreams ----------------------------
(***************************************************************************)
(* The streams on Windows (src/src/connection/windows/streams.rs).  A poll *)
(* waits for the event of the waker, of the tun or of a socket, and then   *)
(* asks every stream for its state.  Winsock records an event of a socket  *)
(* once, until a call of recv or a failed call of send enables it again.   *)
(*                                                                         *)
(* events are the events that are recorded and not fetched, armed the ones *)
(* that are enabled; is_readable and is_writable are the fields of the     *)
(* stream.  The tun has an auto-reset event and no flags.                  *)
(***************************************************************************)
EXTENDS StreamLoop

CONSTANT MaxPosts   \* bound on the messages posted to the connection

ASSUME PostsAssumption == MaxPosts \in Nat

VARIABLES handles, events, armed, is_readable, is_writable,
    stopped,                    \* a read of the tun failed or brought an empty packet
    waker, queued, poster, posts \* the event of the waker; the callers of the API

streamVars == <<handles, events, armed, is_readable, is_writable, stopped>>
postVars == <<queued, poster, posts>>
winVars == <<streamVars, waker, postVars>>
vars == <<loopVars, winVars>>

Sockets == TcpIds \cup UdpIds

\* The events that SocketHandle::new selects.
FD_READ_WRITE == {"r", "w"}

Init ==
    /\ LoopInit
    /\ handles = {TUN}
    /\ events = [s \in Ids |-> {}] /\ armed = [s \in Ids |-> {}]
    /\ is_readable = {} /\ is_writable = {} /\ stopped = {}
    /\ waker = FALSE /\ queued = FALSE /\ poster = "idle" /\ posts = 0
-----------------------------------------------------------------------------
(* External: Winsock, Wintun and the other ends *)

Record(s, kind) ==
    /\ events' = IF kind \in armed[s] \/ s = TUN THEN [events EXCEPT ![s] = @ \cup {kind}]
                 ELSE events
    /\ armed' = [armed EXCEPT ![s] = @ \ {kind}]

Arrive(s) ==
    /\ DataArrives(s) /\ Record(s, "r")
    /\ stopped' = stopped \ {s}
    /\ UNCHANGED <<handles, is_readable, is_writable, waker, postVars>>

\* A connection is established, or a send buffer has room again.
Drain(s) ==
    /\ RoomGrows(s)
    /\ IF room[s] = 0 THEN Record(s, "w") ELSE UNCHANGED <<events, armed>>
    /\ UNCHANGED <<handles, is_readable, is_writable, stopped, waker, postVars>>

\* SocketHandle selects FD_READ and FD_WRITE: the end of a connection is no event.
Finish(s) == PeerFinishes(s) /\ UNCHANGED winVars
Fail(s) == SocketFails(s) /\ UNCHANGED winVars

\* recv enables FD_READ, and records it again if there is more.
recv(s) ==
    IF s = TUN THEN UNCHANGED <<events, armed>>
    ELSE IF rx'[s] # <<>> THEN /\ events' = [events EXCEPT ![s] = @ \cup {"r"}]
                               /\ armed' = [armed EXCEPT ![s] = @ \ {"r"}]
    ELSE armed' = [armed EXCEPT ![s] = @ \cup {"r"}] /\ UNCHANGED events
-----------------------------------------------------------------------------
(* The table of streams *)

\* The handles, kept between the polls.
reset_handles == handles' = open'

\* open_new_tcp_stream and open_new_udp_stream: register_stream; WSAEventSelect
\* enables both events.
Open(s) ==
    /\ OpenSocket(s) /\ reset_handles
    /\ armed' = [armed EXCEPT ![s] = FD_READ_WRITE]
    /\ UNCHANGED <<events, is_readable, is_writable, stopped, waker, postVars>>

\* No internet interface, or the socket or its event cannot be made: nothing is kept.
OpenError(s) == OpenFails(s) /\ UNCHANGED winVars

\* close_stream.
Close(s) ==
    /\ CloseSocket(s) /\ reset_handles
    /\ events' = [events EXCEPT ![s] = {}] /\ armed' = [armed EXCEPT ![s] = {}]
    /\ is_readable' = is_readable \ {s} /\ is_writable' = is_writable \ {s}
    /\ UNCHANGED <<stopped, waker, postVars>>
-----------------------------------------------------------------------------
(* Writing *)

Write(s) == WriteTcp(s) /\ UNCHANGED winVars

\* A datagram that is not sent is dropped; the UDP stream remembers whether it
\* was.  set_poll_enable_wait_for_write does nothing.
WriteUdpOrTun(s) ==
    /\ WriteDatagram(s)
    /\ \E sent \in BOOLEAN :
        /\ status[s] = "failed" => ~sent
        /\ is_writable' = IF s = TUN THEN is_writable
                          ELSE IF sent THEN is_writable \cup {s} ELSE is_writable \ {s}
    /\ UNCHANGED <<pc, handles, events, armed, is_readable, stopped, waker, postVars>>
    /\ RestUnchanged

Shutdown(s) == ShutdownWrite(s) /\ UNCHANGED winVars

\* The result of write_from_buffer.  A send that blocks enables FD_WRITE.
WriteFromBuffer ==
    \/ FlushWrites /\ UNCHANGED winVars
    \/ FlushEmpty /\ WriteReturns
       /\ is_writable' = is_writable \cup {current}
       /\ UNCHANGED <<handles, events, armed, is_readable, stopped, waker, postVars>>
    \/ FlushBlocked /\ WriteReturns
       /\ is_writable' = is_writable \ {current}
       /\ armed' = [armed EXCEPT ![current] = @ \cup {"w"}]
       /\ UNCHANGED <<handles, events, is_readable, stopped, waker, postVars>>
    \/ FlushError /\ WriteReturns
       /\ is_writable' = is_writable \ {current}
       /\ UNCHANGED <<handles, events, armed, is_readable, stopped, waker, postVars>>
-----------------------------------------------------------------------------
(* poll *)

Signalled == {s \in handles : events[s] # {}}

\* The sockets of which WSAEnumNetworkEvents fetches an event of this kind.
get_events(kind) == {s \in open \cap Sockets : kind \in events[s]}

\* get_all_streams_as_poll_results.  The tun is always reported.
GetStates(tun) ==
    /\ pc = "poll" /\ pc' = "results"
    /\ is_readable' = is_readable \cup get_events("r")
    /\ is_writable' = is_writable \cup get_events("w")
    /\ reading' = is_readable' \cup (open \cap {TUN})
    /\ writable' = is_writable' \cap TcpIds
    /\ events' = [s \in Ids |-> IF s = TUN THEN tun ELSE {}]
    /\ UNCHANGED <<tableVars, bufferVars, socketVars, pull_to, flush_to, current, again,
                   handles, armed, stopped, waker, postVars>>

\* The wait ends with the first handle that is signalled; the tun has the first
\* after the waker, and its event is reset by it.
PollReady == pc = "poll" /\ ~waker /\ Signalled # {} /\ GetStates({})

\* WAIT_FAILED is handled like an event of a stream.
PollFails == GetStates(events[TUN])

\* The deadline.
PollTimeout ==
    /\ pc = "poll" /\ ~waker /\ Signalled = {}
    /\ pc' = "messages"
    /\ UNCHANGED <<tableVars, bufferVars, socketVars, winVars>> /\ RestUnchanged

\* Mutant: the streams are asked for their state, and the waker returns nothing.
PollWaker_drains ==
    /\ pc = "poll" /\ waker
    /\ pc' = "reset"
    /\ events' = [s \in Ids |-> {}]
    /\ UNCHANGED <<tableVars, bufferVars, socketVars, handles, armed, is_readable,
                   is_writable, stopped, waker, postVars>> /\ RestUnchanged

\* The waker: no stream is looked at.
PollWaker ==
    /\ pc = "poll" /\ waker
    /\ pc' = "reset"
    /\ UNCHANGED <<tableVars, bufferVars, socketVars, winVars>> /\ RestUnchanged

WakerReset ==
    /\ pc = "reset" /\ pc' = "messages"
    /\ waker' = FALSE
    /\ UNCHANGED <<tableVars, bufferVars, socketVars, streamVars, postVars>> /\ RestUnchanged
-----------------------------------------------------------------------------
(* Reading *)

\* A read that brought a payload leaves is_readable set, any other one does not.
ReadGood(s) ==
    /\ ReadData(s) \/ ReadEmpty(s)
    /\ recv(s)
    /\ is_readable' = is_readable \cup ({s} \ {TUN})
    /\ stopped' = IF s = TUN /\ Head(rx[s]) = "empty" THEN stopped \cup {s} ELSE stopped
    /\ UNCHANGED <<handles, is_writable, waker, postVars>>

ReadBad(s) ==
    /\ ReadError(s) \/ ReadClosed(s) \/ ReadNothing(s)
    /\ IF s \in open THEN recv(s) ELSE UNCHANGED <<events, armed>>
    /\ is_readable' = is_readable \ {s}
    /\ stopped' = IF s = TUN /\ status[s] = "failed" THEN stopped \cup {s} ELSE stopped
    /\ UNCHANGED <<handles, is_writable, waker, postVars>>
-----------------------------------------------------------------------------
(* The callers: ConnectionMessenger::send *)

\* Mutant: the thread is woken before the message is there.
Send_wake_first(step) ==
    IF step = 1 THEN waker' = TRUE /\ UNCHANGED queued ELSE queued' = TRUE /\ UNCHANGED waker

Send(step) ==
    IF step = 1 THEN queued' = TRUE /\ UNCHANGED waker ELSE waker' = TRUE /\ UNCHANGED queued

Post ==
    /\ poster = "idle" /\ posts < MaxPosts
    /\ Send(1)
    /\ poster' = "posting" /\ posts' = posts + 1
    /\ UNCHANGED <<loopVars, streamVars>>

Wake ==
    /\ poster = "posting"
    /\ Send(2)
    /\ poster' = "idle"
    /\ UNCHANGED <<loopVars, streamVars, posts>>

\* handle_messages takes every message there is.
HandleMessages ==
    /\ MessagesEnd
    /\ queued' = FALSE
    /\ UNCHANGED <<streamVars, waker, poster, posts>>
-----------------------------------------------------------------------------
Pull ==
    \/ \E s \in unused : Open(s) \/ OpenError(s)
    \/ \E s \in open : Close(s) \/ Shutdown(s) \/ Write(s) \/ WriteUdpOrTun(s)

PullDone == PullEnds /\ UNCHANGED winVars

\* The steps of the thread that it takes without waiting for anyone.
Thread ==
    \/ HandleMessages \/ WriteFromBuffer \/ PollWaker \/ WakerReset
    \/ \E s \in writable : HandleWritable(s) /\ UNCHANGED winVars
    \/ \E s \in reading : ReadGood(s) \/ ReadBad(s)
    \/ ReadsDone /\ UNCHANGED winVars

Network == \E s \in open : Arrive(s) \/ Drain(s) \/ Finish(s) \/ Fail(s)

Next == Network \/ Post \/ Wake \/ Pull \/ PullDone \/ Thread \/ PollReady \/ PollFails \/ PollTimeout

Spec == Init /\ [][Next]_vars

\* The thread runs; the client has nothing more to ask at some time of every
\* pull; a wait that can be answered is; the other ends take what is sent.
FairSpec ==
    /\ Spec
    /\ WF_<<bufferVars, threadVars>>(Thread) /\ SF_pc(PullDone) /\ WF_pc(PollReady)
    /\ \A s \in TcpIds : WF_room(Drain(s))
-----------------------------------------------------------------------------
(* Properties *)

\* Types, and that the poll waits for the streams there are (reset_handles).
TypeOK ==
    /\ LoopTypeOK /\ pc # "set_wait"
    /\ handles = open
    /\ events \in [Ids -> SUBSET {"r", "w"}] /\ armed \in [Ids -> SUBSET {"r", "w"}]
    /\ is_readable \subseteq open \cap Sockets /\ is_writable \subseteq open \cap Sockets
    /\ stopped \subseteq {TUN}
    /\ waker \in BOOLEAN /\ queued \in BOOLEAN /\ poster \in {"idle", "posting"}
    /\ posts \in 0..MaxPosts

\* s is read before the next poll.
WillRead(s) == s \in reading \cup again

\* What has arrived is read before the next poll, or its event ends the next
\* wait (get_state fetches the events, read_from_streams reads until a stream
\* blocks), a poll that the waker ended in between included.  Only a tun whose
\* read failed keeps packets until the next one.
ReadinessKept ==
    \A s \in open : rx[s] # <<>> /\ ~WillRead(s) /\ s \notin stopped => "r" \in events[s]

\* s is written from its buffer before the next poll.
WillWrite(s) == s \in writable \/ (s = current /\ pc = "flush")

\* A stream with data in its write buffer, unless it has failed or has been shut
\* down, gets an event when there is room, and has it if there is room already
\* (write_from_buffer goes on until send blocks).
PendingIsWatched ==
    \A s \in open \cap TcpIds :
        write_buffer[s] # <<>> /\ ~WillWrite(s) /\ status[s] # "failed" /\ s \notin shut =>
            IF room[s] > 0 THEN "w" \in events[s] ELSE "w" \in armed[s]

\* A thread that waits in poll with a message in its queue is about to be woken
\* (ConnectionMessenger sends before it wakes, poll resets the waker before the
\* queue is read).
PostedIsSeen == queued /\ pc \in {"pull", "flush", "poll", "results"} => waker \/ poster = "posting"
=============================================================================
