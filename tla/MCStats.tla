------------------------------- MODULE MCStats -------------------------------
(* Stats on a small instance: cells of four values, counters beyond two of their ranges. *)
EXTENDS Stats
=============================================================================
