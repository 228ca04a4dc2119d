---------------------------- MODULE MCSecretStore ----------------------------
(* Small instances of SecretStore for TLC. *)
EXTENDS SecretStore
=============================================================================
