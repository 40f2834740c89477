------------------------- MODULE MC_BackendConfig -------------------------
(* Model-checking instance of BackendConfig: this replica and two peers.  *)
EXTENDS BackendConfig

MCPeers == {2, 3}

=============================================================================
