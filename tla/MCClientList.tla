---------------------------- MODULE MCClientList -----------------------------
(* ClientList on small instances: ids in decimal, around the second digit. *)
EXTENDS ClientList

Digits(c) == IF c < 10 THEN 1 ELSE 2

Leading(c, n) ==
  IF n >= Digits(c) THEN c ELSE IF n = 0 THEN 0 ELSE c \div 10
=============================================================================
