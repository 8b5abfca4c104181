------------------------------ MODULE MCOptions ------------------------------
(* Instances of Options for TLC: 2 is a file that is not there. *)
EXTENDS Options

FilesThere(t) == t["cert"] # 2 /\ t["ca"] # 2

Keys == <<"name", "user">>
=============================================================================
