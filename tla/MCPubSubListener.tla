-------------------------- MODULE MCPubSubListener --------------------------
(* Small instances of PubSubListener for TLC: the configurations name every *)
(* model value, and no set is symmetric, as liveness is checked.            *)
EXTENDS PubSubListener
=============================================================================
