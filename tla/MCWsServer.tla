----------------------------- MODULE MCWsServer -----------------------------
(* WsServer on small instances: the constants are given by each .cfg. *)
EXTENDS WsServerInvariant
=============================================================================
