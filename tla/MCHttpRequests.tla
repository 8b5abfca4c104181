--------------------------- MODULE MCHttpRequests ---------------------------
(* HttpRequests on small instances: the constants are given by each .cfg. *)
EXTENDS HttpInvariant
=============================================================================
