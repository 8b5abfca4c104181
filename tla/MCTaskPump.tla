----------------------------- MODULE MCTaskPump -----------------------------
(* TaskPump on small instances: the constants are given by each .cfg. *)
EXTENDS TaskPumpInvariant

(* Clients are interchangeable: no step orders them. *)
ClientSymmetry == Permutations(Clients)
=============================================================================
