--------------------------- MODULE MCPvpnConnection ---------------------------
(***************************************************************************)
(* Instances of PvpnConnection for TLC.  Each configuration opens one part *)
(* of the connection fully and keeps the others small.                     *)
(***************************************************************************)
EXTENDS PvpnConnection, TLC

CONSTANTS c1, c2, j1, v1, f1, f2

CallerSymmetry == Permutations(Callers)

Peer(id, ip, priority) == [peer_id |-> id, server_ip |-> ip, priority |-> priority]

\* "a2" has the entry IP of "a", so it can replace it under the same address.
ThreePeers == <<Peer("a", 1, 1), Peer("b", 2, 0), Peer("a2", 1, 0)>>

OnePeer == <<Peer("a", 1, 0)>>
TwoPeers == <<Peer("a", 1, 0), Peer("b", 2, 0)>>

Config(peer_list, network_available, pcap_file, config_settings, tun) ==
    [peers |-> peer_list, network_available |-> network_available,
     pcap_file |-> pcap_file, settings |-> config_settings, tun |-> tun]

Update(peer_list, new_settings, tun) ==
    [type |-> "Update", peers |-> peer_list, settings |-> new_settings, tun |-> tun]

Connectivity == [type : {"ConnectivityChange"}, event : ConnectivityEvents]
NetworkDown == [type |-> "ConnectivityChange", event |-> "Down"]
NetworkUp == [type |-> "ConnectivityChange", event |-> "Up"]

Nothing == {}
NoDeadline == {None}
SomeDeadlines == {None, 2}
OneErrorKind == AllStreamResults \ {"Other"}
QuickResults == {"done"}
DataResults == {"data", "done"}

\* Peers, network, packet capture and the life of the thread.
CaptureActions == {"Pcap"}
PeersCalls ==
    {Update(<<>>, None, None), Update(ThreePeers, "s2", None), NetworkDown, NetworkUp,
     [type |-> "StopPacketCapture"], [type |-> "StartPacketCapture", file |-> f1]}
PeersConfigs == {Config(<<>>, TRUE, f2, None, FALSE), Config(OnePeer, FALSE, None, None, FALSE)}

\* The lists of at most MaxPeers peers with two entry IPs and three priorities.
PeerInfos == [peer_id : {"a", "b"}, server_ip : {1, 2}, priority : 0..2]
MaxPeers == 4
ManyLists == GivenPeers \cup UNION {[1..n -> PeerInfos] : n \in 0..MaxPeers}
OnlyGiven == GivenPeers

\* The local agent.
AgentCalls == {[type |-> "RequestLocalAgentStats"], NetworkDown, NetworkUp}
AgentConfigs == {Config(TwoPeers, TRUE, None, "s1", TRUE)}
SessionInputs ==
    {[type |-> "LocalAgentConnected"], [type |-> "MuonForkSelectorNeeded"],
     [type |-> "Error", error |-> "MuonAuth"]}
    \cup [type : {"SettingsSoftjail"}, value : BOOLEAN]
    \cup [type : {"Jails"}, value : SUBSET JailReasons]
StatsInputs == {[type |-> "LocalAgentConnected"]} \cup [type : {"Stats"}, field : StatFields]
AgentInputsAll == SessionInputs \cup StatsInputs
OnlyConnects == {[type |-> "LocalAgentConnected"]}
StatsCalls == {[type |-> "RequestLocalAgentStats"]}

\* Streams, their errors and recovery from them, and replacing the tun.
StreamActions == {"Open", "Write", "Close", "Other"}
StreamCalls == {[type |-> "ClientRequest"], NetworkDown, NetworkUp,
                Update(None, None, "TunFd")}
StreamConfigs == {Config(OnePeer, TRUE, None, None, TRUE)}

\* Liveness.
LivenessConfigs == {Config(OnePeer, TRUE, None, None, FALSE)}
LivenessCalls == {NetworkDown, NetworkUp}
RecoveryResults == {"data", "done", "NetworkDown"}
OpenActions == {"Open"}
=============================================================================
