------------------------- MODULE MCConnectionRecovery -------------------------
(***************************************************************************)
(* ConnectionRecovery with the small sets of MCPvpnConnection.             *)
(***************************************************************************)
EXTENDS MCPvpnConnection, ConnectionRecovery
=============================================================================
