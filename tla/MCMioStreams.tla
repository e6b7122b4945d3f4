---------------------------- MODULE MCMioStreams ----------------------------
(*****************************************************************************)
(* The streams over mio: what may stay behind, and that nothing else does.   *)
(*****************************************************************************)
EXTENDS MioStreams

\* Streams that are closed or broken by the other end, that the client has shut
\* down, whose reregister failed, or whose reading has stopped.
Excused ==
    {s \in Ids : status[s] = "failed"} \cup shut \cup stopped
        \cup {s \in Ids : registered[s] # interest[s]}

\* A byte that a stream accepts is on the wire in the end, unless the stream is
\* closed or excused (set_poll_enable_wait_for_write).
AcceptedIsSent == \A s \in TcpIds : []<>(Queue[s] = <<>> \/ s \in Excused)

\* A payload that arrives is read in the end, unless the stream is closed or
\* excused (read_from_streams).
ArrivedIsRead == \A s \in Ids : []<>(rx[s] = <<>> \/ s \in Excused)
=============================================================================
