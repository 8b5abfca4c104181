----------------------------- MODULE MCWsClient -----------------------------
(* Instances of WsClient for TLC. *)
EXTENDS WsClient

Heard == {"open", "message", "error"}
=============================================================================
