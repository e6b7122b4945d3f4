--------------------------- MODULE MCWindowsStreams ---------------------------
(*****************************************************************************)
(* The streams on Windows: what may stay behind, and that nothing else does. *)
(*****************************************************************************)
EXTENDS WindowsStreams

\* Streams that are broken by the other end, that the client has shut down, or
\* whose reading has stopped.
Excused == {s \in Ids : status[s] = "failed"} \cup shut \cup stopped

\* A byte that a stream accepts is on the wire in the end, unless the stream is
\* closed or excused (get_state, write_from_buffer).
AcceptedIsSent == \A s \in TcpIds : []<>(Queue[s] = <<>> \/ s \in Excused)

\* A payload that arrives is read in the end, unless the stream is closed or
\* excused (get_state, read_from_streams).
ArrivedIsRead == \A s \in Ids : []<>(rx[s] = <<>> \/ s \in Excused)
=============================================================================
