------------------------------ MODULE MioStreams ------------------------------
(***************************************************************************)
(* The streams over mio (src/src/connection/mio/streams.rs).  mio reports  *)
(* a stream when it becomes ready and not again while it stays so: what    *)
(* the thread leaves unread or unwritten must be reported by a later       *)
(* event, or wait for ever.                                                *)
(*                                                                         *)
(* interest is the field of MioStreamInfo, registered what the operating   *)
(* system has.  edges are the events it will return to the next poll.      *)
(* Tokens are left out: an event is of the registration it was made for.   *)
(***************************************************************************)
EXTENDS StreamLoop

CONSTANT Reregisters    \* results of registry.reregister, of BOOLEAN

ASSUME ReregistersAssumption == Reregisters \subseteq BOOLEAN /\ TRUE \in Reregisters

VARIABLES interest, registered, edges, wait_for_write,
    stopped     \* reading ended with an error, the end of a connection or an
                \* empty payload, and nothing has happened to the stream since

mioVars == <<interest, registered, edges, wait_for_write, stopped>>
vars == <<loopVars, mioVars>>

READABLE == {"r"}
READABLE_WRITABLE == {"r", "w"}

Init ==
    /\ LoopInit
    /\ interest = [s \in Ids |-> IF s = TUN THEN READABLE ELSE {}]
    /\ registered = interest
    /\ edges = [s \in Ids |-> {}]
    /\ wait_for_write = FALSE
    /\ stopped = {}

\* External: what epoll or kqueue would report of s now.
Ready(s) ==
    (IF Readable(s) THEN {"r"} ELSE {}) \cup (IF Writable(s) THEN {"w"} ELSE {})

\* External: an event is kept if the stream is registered for it.
Raise(s, kinds) == edges' = [edges EXCEPT ![s] = @ \cup (kinds \cap registered[s])]
-----------------------------------------------------------------------------
(* The network *)

Arrive(s) ==
    /\ DataArrives(s) /\ Raise(s, {"r"})
    /\ stopped' = stopped \ {s}
    /\ UNCHANGED <<interest, registered, wait_for_write>>

\* Only a send buffer without room becomes writable.
Drain(s) ==
    /\ RoomGrows(s)
    /\ IF room[s] = 0 THEN Raise(s, {"w"}) ELSE UNCHANGED edges
    /\ UNCHANGED <<interest, registered, wait_for_write, stopped>>

Finish(s) ==
    /\ PeerFinishes(s) /\ Raise(s, {"r"})
    /\ UNCHANGED <<interest, registered, wait_for_write, stopped>>

Fail(s) ==
    /\ SocketFails(s)
    /\ IF s \in TcpIds THEN Raise(s, {"r", "w"}) /\ stopped' = stopped \ {s}
       ELSE UNCHANGED <<edges, stopped>>
    /\ UNCHANGED <<interest, registered, wait_for_write>>
-----------------------------------------------------------------------------
(* The table of streams *)

\* open_new_tcp_stream waits for the connection, open_new_udp_stream does not.
Interests(s) == IF s \in TcpIds THEN READABLE_WRITABLE ELSE READABLE

\* register_stream; a new socket is not ready.  The set_poll_enable_wait_for_write
\* of handle_open finds the interest of a TCP stream as it is.
Open(s) ==
    /\ OpenSocket(s)
    /\ interest' = [interest EXCEPT ![s] = Interests(s)]
    /\ registered' = [registered EXCEPT ![s] = Interests(s)]
    /\ UNCHANGED <<edges, wait_for_write, stopped>>

\* new_tcp_socket or new_udp_socket fails, or register: nothing is kept.
OpenError(s) == OpenFails(s) /\ UNCHANGED mioVars

\* deregister drops the events with the registration.
deregister(s) ==
    /\ interest' = [interest EXCEPT ![s] = {}]
    /\ registered' = [registered EXCEPT ![s] = {}]
    /\ edges' = [edges EXCEPT ![s] = {}]
    /\ stopped' = stopped \ {s}

Close(s) == CloseSocket(s) /\ deregister(s) /\ UNCHANGED wait_for_write

\* update_tun: the old tun is closed first; the new one may be none, or fail to
\* register.
UpdateTun ==
    /\ pc = "messages" /\ pc' = "pull"
    /\ \E up \in BOOLEAN :
        /\ open' = IF up THEN open \cup {TUN} ELSE open \ {TUN}
        /\ interest' = [interest EXCEPT ![TUN] = IF up THEN READABLE ELSE {}]
        /\ registered' = [registered EXCEPT ![TUN] = IF up THEN READABLE ELSE {}]
    /\ edges' = [edges EXCEPT ![TUN] = {}]
    /\ stopped' = stopped \ {TUN}
    /\ Forget(TUN)
    /\ UNCHANGED <<unused, arrived, wait_for_write>> /\ RestUnchanged

\* registry.reregister: the system looks whether the stream is ready now.  A
\* failure is logged.
reregister(s, new, ok) ==
    /\ registered' = IF ok THEN [registered EXCEPT ![s] = new] ELSE registered
    /\ edges' = IF ok THEN [edges EXCEPT ![s] = Ready(s) \cap new] ELSE edges

\* Mutant: a stream is not waited for once it is connected.
WaitInterest_never(wait) == READABLE

WaitInterest(wait) == IF wait THEN READABLE_WRITABLE ELSE READABLE

\* set_poll_enable_wait_for_write, at the end of handle_stream_write_result.
SetPollEnableWaitForWrite ==
    /\ pc = "set_wait" /\ WriteReturns
    /\ LET new == WaitInterest(wait_for_write)
       IN  IF interest[current] = new THEN UNCHANGED <<interest, registered, edges>>
           ELSE /\ interest' = [interest EXCEPT ![current] = new]
                /\ \E ok \in Reregisters : reregister(current, new, ok)
    /\ wait_for_write' = FALSE
    /\ UNCHANGED stopped
-----------------------------------------------------------------------------
(* Writing *)

Write(s) == WriteTcp(s) /\ UNCHANGED mioVars

\* pending_write is No for a datagram that is sent and for one that is dropped.
WriteUdpOrTun(s) ==
    /\ WriteDatagram(s)
    /\ IF status[s] = "failed" THEN UNCHANGED <<pc, current>>
       ELSE pc' = "set_wait" /\ current' = s
    /\ UNCHANGED <<pull_to, flush_to, writable, reading, again, mioVars>>

Shutdown(s) ==
    /\ ShutdownWrite(s) /\ Raise(s, {"w"})
    /\ UNCHANGED <<interest, registered, wait_for_write, stopped>>

\* The result of write_from_buffer, to handle_stream_write_result.
WriteFromBuffer ==
    \/ FlushWrites /\ UNCHANGED mioVars
    \/ /\ FlushEmpty \/ FlushBlocked
       /\ pc' = "set_wait" /\ wait_for_write' = FlushBlocked
       /\ UNCHANGED <<tableVars, bufferVars, socketVars, interest, registered, edges, stopped>>
       /\ RestUnchanged
    \/ FlushError /\ WriteReturns /\ UNCHANGED mioVars
-----------------------------------------------------------------------------
(* poll *)

\* The streams that have events.  Of one that is ready no more nothing is
\* reported; epoll reports all that a stream is ready for, kqueue only what has
\* changed.
Events(s) == edges[s] \cap Ready(s)
Reports(s) == {Events(s), IF Events(s) = {} THEN {} ELSE Ready(s) \cap registered[s]}

\* There are fewer streams than EVENTS_CAPACITY: every event is returned.
PollReturns ==
    /\ pc = "poll" /\ pc' = "results"
    /\ \E report \in [Ids -> SUBSET {"r", "w"}] :
        /\ \A s \in Ids : report[s] \in Reports(s)
        /\ reading' = {s \in Ids : "r" \in report[s]}
        /\ writable' = {s \in Ids : "w" \in report[s]}
    /\ edges' = [s \in Ids |-> {}]
    /\ UNCHANGED <<tableVars, bufferVars, socketVars, pull_to, flush_to, current, again,
                   interest, registered, wait_for_write, stopped>>

PollReady == pc = "poll" /\ (\E s \in Ids : Events(s) # {}) /\ PollReturns

\* The deadline or the waker: an event may be there, and is returned then.
PollWoken == pc = "poll" /\ (\A s \in Ids : Events(s) = {}) /\ PollReturns

\* EINTR: nothing is handled, the events stay.
PollFails ==
    /\ pc = "poll" /\ pc' = "messages"
    /\ UNCHANGED <<tableVars, bufferVars, socketVars, pull_to, flush_to, current,
                   writable, reading, again, mioVars>>
-----------------------------------------------------------------------------
(* Reading *)

\* A stream whose reading ends here may have more to read.
ReadStops(s) ==
    /\ ReadEmpty(s) \/ ReadError(s) \/ ReadClosed(s)
    /\ stopped' = stopped \cup {s}
    /\ UNCHANGED <<interest, registered, edges, wait_for_write>>

ReadFromStreams ==
    \/ ReadsDone /\ UNCHANGED mioVars
    \/ \E s \in reading : (ReadData(s) \/ ReadNothing(s)) /\ UNCHANGED mioVars
    \/ \E s \in reading : ReadStops(s)
-----------------------------------------------------------------------------
Pull ==
    \/ \E s \in unused : Open(s) \/ OpenError(s)
    \/ \E s \in open : Close(s) \/ Shutdown(s) \/ Write(s) \/ WriteUdpOrTun(s)

PullDone == PullEnds /\ UNCHANGED mioVars

\* The steps of the thread that it takes without waiting for anyone.
Thread ==
    \/ MessagesEnd /\ UNCHANGED mioVars
    \/ SetPollEnableWaitForWrite \/ WriteFromBuffer
    \/ \E s \in writable : HandleWritable(s) /\ UNCHANGED mioVars
    \/ ReadFromStreams

Network == \E s \in open : Arrive(s) \/ Drain(s) \/ Finish(s) \/ Fail(s)

Next ==
    \/ Network \/ UpdateTun \/ Pull \/ PullDone \/ Thread
    \/ PollReady \/ PollWoken \/ PollFails

Spec == Init /\ [][Next]_vars

\* The thread runs; the client has nothing more to ask at some time of every
\* pull; not every poll is interrupted; the other ends take what is sent.
FairSpec ==
    /\ Spec
    /\ WF_<<bufferVars, threadVars>>(Thread) /\ SF_pc(PullDone) /\ SF_pc(PollReady)
    /\ \A s \in TcpIds : WF_room(Drain(s))
-----------------------------------------------------------------------------
(* Properties *)

\* Types, and that a stream which is not open is not registered (close_stream,
\* update_tun).
TypeOK ==
    /\ LoopTypeOK /\ pc # "reset"
    /\ interest \in [Ids -> SUBSET {"r", "w"}] /\ registered \in [Ids -> SUBSET {"r", "w"}]
    /\ edges \in [Ids -> SUBSET {"r", "w"}]
    /\ wait_for_write \in BOOLEAN /\ stopped \subseteq Ids
    /\ \A s \in Ids \ open : interest[s] = {} /\ registered[s] = {} /\ edges[s] = {}

\* s is read before the next poll.
WillRead(s) == s \in reading \cup again

\* What can be read, the end of a connection included, is read before the next
\* poll or reported by it (read_from_streams reads until a stream blocks).  Only
\* a read that failed or brought an empty payload leaves data to wait for the
\* next arrival.
ReadinessKept ==
    \A s \in open : Readable(s) /\ ~WillRead(s) /\ s \notin stopped => "r" \in edges[s]

\* s is written from its buffer, or its interest is set, before the next poll.
WillWrite(s) ==
    \/ s \in writable
    \/ s = current /\ pc \in {"flush", "set_wait"}

\* A stream with data in its write buffer, unless it has failed or has been shut
\* down, waits to become writable; if it is writable already, the next poll says
\* so (handle_stream_write_result, set_poll_enable_wait_for_write).  The one
\* exception is a reregister that failed.
PendingIsWatched ==
    \A s \in open :
        write_buffer[s] # <<>> /\ ~WillWrite(s) /\ status[s] # "failed" /\ s \notin shut =>
            /\ interest[s] = READABLE_WRITABLE
            /\ registered[s] = interest[s] /\ room[s] > 0 => "w" \in edges[s]
=============================================================================
