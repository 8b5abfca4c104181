----------------------------- MODULE MCExtension -----------------------------
(* Extension on small instances: the constants are given by each .cfg. *)
EXTENDS Extension
=============================================================================
