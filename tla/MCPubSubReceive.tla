--------------------------- MODULE MCPubSubReceive ---------------------------
(* Small instances of PubSubReceive for TLC. *)
EXTENDS PubSubReceive
=============================================================================
