---------------------- MODULE MCAndroidConnectionManager ----------------------
(***************************************************************************)
(* AndroidConnectionManager with two interface configurations.  ModeIntents*)
(* vary mode and interface of connect; ConfigIntents are those that change *)
(* the tun and the capture of a connection with local agent.  No network   *)
(* is told from another.                                                   *)
(***************************************************************************)
EXTENDS AndroidConnectionManager, TLC

NetworkSymmetry == Permutations(Networks)

Connect(mode, interface, pcap) ==
    [type |-> "Connect",
     config |-> [mode |-> mode, interface |-> interface, pcap |-> pcap]]

ModeIntents ==
    {Connect("LocalAgent", "full", None), Connect("LocalAgent", "split", None),
     Connect("NoLocalAgent", "full", None),
     [type |-> "Interface", interface |-> "split"],
     [type |-> "PacketCapture", pcap |-> "file"],
     [type |-> "Disconnect"], [type |-> "Update"]}

ConfigIntents ==
    {i \in Intents : i.type = "Connect" => i.config.mode = "LocalAgent"}
=============================================================================
