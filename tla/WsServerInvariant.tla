-------------------------- MODULE WsServerInvariant --------------------------
(***************************************************************************)
(* Why m_connectionHeaders of WsServer is right but for what was reported  *)
(* during a drain: the inductive invariant, for a plugin that sets all     *)
(* callbacks, as ws_server.inc:66 asks.                                    *)
(***************************************************************************)
EXTENDS WsServer

OpenPending(c) == \E t \in Pending : t.conn = c /\ t.event = "open"
EndPending(c) == \E t \in Pending : t.conn = c /\ t.event \in {"close", "error"}

(* The order in which a connection reports. *)
Rank(t) == IF t.event = "open" THEN 0 ELSE IF t.event = "message" THEN 1 ELSE 2

(* Only a task pushed during a drain may be run before those reported      *)
(* earlier.                                                                *)
MustFollow(t, u) == t.conn = u.conn /\ Rank(u) < Rank(t) /\ ~t.late

InOrder(s) == \A i, j \in DOMAIN s : i < j => ~MustFollow(s[i], s[j])

(* What is held is older than the queue, and is put back behind it. *)
HeldOrder ==
  /\ game = "drain" => \A t \in ToSet(held), u \in ToSet(queue) : ~MustFollow(t, u)
  /\ game = "repush" => \A t \in ToSet(queue), u \in ToSet(held) : ~MustFollow(t, u)

GameShape ==
  /\ ~Draining => held = <<>>
  /\ game = "idle" => task = NoTask

(* Callbacks are not changed any more once there was a connection. *)
CallbacksSet == up \/ (\E c \in Connections : conn[c] # "absent") => cb = Callbacks

(* The life of a connection and what is there of it. *)
NothingYet ==
  \A c \in Connections : conn[c] \in {"absent", "connecting"} =>
    c \notin headers /\ \A t \in Pending : t.conn # c
EndsAreOver ==
  \A t \in Pending : t.event \in {"close", "error"} =>
    conn[t.conn] \in {"ended", "gone"} /\ (t.late => t.conn \in endLate)
OpenIsKnown ==
  \A c \in Connections : conn[c] = "open" => c \in headers \/ OpenPending(c)
MessageIsKnown ==
  \A t \in Pending : t.event = "message" /\ ~t.late /\ t.conn \notin endLate =>
    t.conn \in headers \/ OpenPending(t.conn)
CallbackIsKnown ==
  task # NoTask /\ task.event = "message" /\ ~task.late /\ task.conn \notin endLate =>
    task.conn \in headers
EndIsDue ==
  \A c \in Connections :
    (c \in headers \/ OpenPending(c)) /\ conn[c] \in {"ended", "gone"} =>
      c \in endLate \/ EndPending(c)

(* m_connectionHeaders (ws_server.cpp:198-243) fits the events that are    *)
(* still to be handled: an entry comes with Open and goes with Close or    *)
(* Error, in that order unless one was pushed during a drain.              *)
IInv ==
  /\ TypeOK
  /\ GameShape
  /\ CallbacksSet
  /\ InOrder(queue) /\ InOrder(held) /\ HeldOrder
  /\ NothingYet /\ EndsAreOver /\ OpenIsKnown /\ EndIsDue
  /\ MessageIsKnown /\ CallbackIsKnown
=============================================================================
