--------------------------- MODULE LocalAgentHandler ---------------------------
(***************************************************************************)
(* The methods of LocalAgentHandler                                        *)
(* (src/src/connection/local_agent_handler.rs), each as a function from    *)
(* the handler before the call to the handler after it.                    *)
(*                                                                         *)
(* agent_info is cut down to the fields the properties tell apart:         *)
(* settings.soft_jail (the only field the handler itself reads), the       *)
(* restrictions, and one field that stands for all the others, which the   *)
(* handler copies alike.  established_ts and exit_label are written and    *)
(* never read; they are left out.                                          *)
(***************************************************************************)
EXTENDS Optional

CONSTANTS
    StatFields,     \* the fields of LocalAgentStatsAccumulator (six in the code)
    JailReasons,    \* WaitJailReason
    AgentValues     \* values of the remaining fields, and of restrictions

\* AgentConnectionInfo::default()
DefaultInfo == [soft_jail |-> FALSE, restrictions |-> {}, other |-> {}]

AgentInfos == [soft_jail : BOOLEAN, restrictions : SUBSET AgentValues,
               other : SUBSET AgentValues]

\* LocalAgentMessage.  A server error is "policy_refused" (the six settings a
\* policy can refuse) or "logged" (every error that is only logged).
AgentMessages ==
    [type : {"LocalAgentConnected", "MuonForkSelectorNeeded"}]
    \cup [type : {"SettingsSoftjail"}, value : BOOLEAN]
    \cup [type : {"Jails"}, value : SUBSET JailReasons]
    \cup [type : {"Restrictions", "Other"}, value : SUBSET AgentValues]
    \cup [type : {"Stats"}, field : StatFields]
    \cup [type : {"Error"},
          error : {"MuonAuth", "CertRefresh", "policy_refused", "logged"}]

\* LocalAgentHandler, with the peer it knows.
AgentHandlers(known_peer) ==
    [is_connected : BOOLEAN, last_peer : {known_peer}, agent_info : AgentInfos,
     jails : SUBSET JailReasons, restrictions : SUBSET AgentValues,
     stats : SUBSET StatFields]

new_agent ==
    [is_connected |-> FALSE, last_peer |-> None, agent_info |-> DefaultInfo,
     jails |-> {}, restrictions |-> {}, stats |-> {}]

\* AgentConnectionWaitReason, with the jails of a HardJailed.
WaitReason(reason, jails) == [reason |-> reason, jails |-> jails]

\* Mutant: the jails are looked at only until the agent is connected.
get_wait_reason_unless_connected(h) ==
    IF h.agent_info.soft_jail THEN WaitReason("SoftJailed", {})
    ELSE IF h.jails # {} /\ ~h.is_connected THEN WaitReason("HardJailed", h.jails)
    ELSE None

get_wait_reason(h) ==
    IF h.agent_info.soft_jail THEN WaitReason("SoftJailed", {})
    ELSE IF h.jails # {} THEN WaitReason("HardJailed", h.jails)
    ELSE None

\* Whether get_state(peer) is Connected; it is ConnectingToLocalAgent with
\* get_wait_reason otherwise.
AgentReady(h) == get_wait_reason(h) = None /\ h.is_connected

\* Mutant: a new peer inherits the agent session of the previous one.
on_connected_to_peer_keeps_session(h, peer) ==
    [h EXCEPT !.last_peer = peer, !.stats = {}]

on_connected_to_peer(h, peer) ==
    IF h.last_peer # None /\ h.last_peer # peer
    THEN [is_connected |-> FALSE, last_peer |-> peer, agent_info |-> DefaultInfo,
          jails |-> {}, restrictions |-> h.restrictions, stats |-> {}]
    ELSE [h EXCEPT !.last_peer = peer, !.stats = {}]

\* LocalAgentStatsAccumulator: storing the last missing field emits the event
\* and starts over.
Accumulate(stats, field) ==
    IF stats \cup {field} = StatFields THEN {} ELSE stats \cup {field}

\* handle_message, with handle_value, handle_jails and handle_error.
handle_message(h, m) ==
    CASE m.type = "LocalAgentConnected" -> [h EXCEPT !.is_connected = TRUE]
      [] m.type = "SettingsSoftjail" -> [h EXCEPT !.agent_info.soft_jail = m.value]
      [] m.type = "Jails" -> [h EXCEPT !.jails = m.value]
      [] m.type = "Restrictions" -> [h EXCEPT !.restrictions = m.value]
      [] m.type = "Other" -> [h EXCEPT !.agent_info.other = m.value]
      [] m.type = "Stats" -> [h EXCEPT !.stats = Accumulate(@, m.field)]
      [] OTHER -> h

\* Mutant: the accumulator is looked at before the field is stored.
message_event_before_storing(h, m) ==
    IF m.type = "Stats" /\ h.stats = StatFields THEN "LocalAgentStats" ELSE None

\* The event handle_message returns.
message_event(h, m) ==
    CASE m.type = "MuonForkSelectorNeeded" -> "ApiSessionExpired"
      [] m.type = "Stats" /\ h.stats \cup {m.field} = StatFields -> "LocalAgentStats"
      [] m.type = "Error" /\ m.error = "MuonAuth" -> "ApiSessionExpired"
      [] m.type = "Error" /\ m.error = "CertRefresh" -> "CertificateRefreshFatalError"
      [] m.type = "Error" /\ m.error = "policy_refused" -> "LocalAgentSettingPolicyRefused"
      [] OTHER -> None
=============================================================================
