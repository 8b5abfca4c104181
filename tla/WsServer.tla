------------------------------ MODULE WsServer ------------------------------
(***************************************************************************)
(* One WebSocketServer (ws_server.cpp) from its start on: the threads of   *)
(* its connections (ix::WebSocketServer, external) report events, the game *)
(* thread runs their tasks and keeps m_connectionHeaders, and destructors  *)
(* of other objects, the wrapper of a message callback among them, take    *)
(* the tasks out of g_TaskQueue and put them back.  ~WebSocketServer is    *)
(* part of TaskPump.                                                       *)
(*                                                                         *)
(* Callbacks are set before Start, as ws_server.inc:66 asks.               *)
(***************************************************************************)
EXTENDS Naturals, Sequences, SequencesExt

CONSTANTS
  Connections,  \* the connections that ever come; an id is never used twice
  Callbacks,    \* the events the plugin sets a callback for
  MaxOthers,    \* bound: other WebSocket objects that plugins delete meanwhile
  MaxMessages   \* bound: messages the connections send

Events == {"open", "message", "close", "error"}

ASSUME ServerAssumption ==
  /\ Callbacks \subseteq Events
  /\ MaxOthers \in Nat
  /\ MaxMessages \in Nat

VARIABLES
  cb,       \* the events whose forward exists and has a function
  up,       \* whether the server listens
  conn,     \* what each connection is doing
  got,      \* the messages received
  queue,    \* this server's tasks in g_TaskQueue
  held,     \* this server's tasks in another object's other_tasks
  headers,  \* the keys of m_connectionHeaders
  others,   \* the other WebSocket objects there are
  game,     \* what the game thread is doing
  task,     \* the task whose callback runs
  endLate   \* connections whose end was reported while a destructor drained

vars == <<cb, up, conn, got, queue, held, headers, others, game, task, endLate>>

Task == [conn : Connections, event : Events, late : BOOLEAN]
NoTask == [event |-> "none"]

(* In getClients: from the handshake until the thread of the connection    *)
(* has left the handler, after the end was reported.                       *)
Listed(c) == conn[c] \in {"connecting", "open", "ended"}

Draining == game \in {"drain", "repush"}
InPlugin == game \in {"idle", "callback"}

Pending == ToSet(queue) \cup ToSet(held)

Init ==
  /\ cb = {}
  /\ up = FALSE
  /\ conn = [c \in Connections |-> "absent"]
  /\ got = 0
  /\ queue = <<>>
  /\ held = <<>>
  /\ headers = {}
  /\ others = MaxOthers
  /\ game = "idle"
  /\ task = NoTask
  /\ endLate = {}

-----------------------------------------------------------------------------
(* The threads of the connections. *)

(* OnOpen, OnMessage, OnClose and OnError: an event without a callback is  *)
(* dropped here.                                                           *)
Report(c, event) ==
  queue' = IF event \in cb
             THEN Append(queue, [conn |-> c, event |-> event, late |-> Draining])
             ELSE queue

Accept(c) ==
  /\ up
  /\ game # "stop"
  /\ conn[c] = "absent"
  /\ conn' = [conn EXCEPT ![c] = "connecting"]
  /\ UNCHANGED <<cb, up, got, queue, held, headers, others, game, task, endLate>>

OnOpen(c) ==
  /\ conn[c] = "connecting"
  /\ conn' = [conn EXCEPT ![c] = "open"]
  /\ Report(c, "open")
  /\ UNCHANGED <<cb, up, got, held, headers, others, game, task, endLate>>

OnMessage(c) ==
  /\ conn[c] = "open"
  /\ got < MaxMessages
  /\ got' = got + 1
  /\ Report(c, "message")
  /\ UNCHANGED <<cb, up, conn, held, headers, others, game, task, endLate>>

(* The peer, the network, DisconnectClient or Stop ended the connection. *)
OnEnd(c, event) ==
  /\ conn[c] = "open" \/ (conn[c] = "connecting" /\ event = "error")
  /\ conn' = [conn EXCEPT ![c] = "ended"]
  /\ Report(c, event)
  /\ endLate' = IF Draining THEN endLate \cup {c} ELSE endLate
  /\ UNCHANGED <<cb, up, got, held, headers, others, game, task>>

(* The thread ends, and with it the ix::WebSocket.  A handshake that fails *)
(* reports nothing.                                                        *)
Leave(c) ==
  /\ conn[c] \in {"ended", "connecting"}
  /\ conn' = [conn EXCEPT ![c] = "gone"]
  /\ UNCHANGED <<cb, up, got, queue, held, headers, others, game, task, endLate>>

-----------------------------------------------------------------------------
(* Natives. *)

(* Set...Callback: the old forward is released.  When no new one can be    *)
(* made, or it does not take the function, the event is not heard.         *)
(* Plugins do this before the server has had a connection (see above).     *)
SetCallback(event) ==
  /\ InPlugin
  /\ \A c \in Connections : conn[c] = "absent"
  /\ ~up
  /\ event \in Callbacks
  /\ cb' \in {cb \cup {event}, cb \ {event}}
  /\ UNCHANGED <<up, conn, got, queue, held, headers, others, game, task, endLate>>

(* The plugin sets its callbacks first. *)
Start ==
  /\ InPlugin
  /\ ~up
  /\ cb = Callbacks
  /\ up' = TRUE
  /\ UNCHANGED <<cb, conn, got, queue, held, headers, others, game, task, endLate>>

(* stop() accepts no more, closes every connection and joins its thread. *)
Stop ==
  /\ InPlugin
  /\ up
  /\ game' = "stop"
  /\ UNCHANGED <<cb, up, conn, got, queue, held, headers, others, task, endLate>>

Resume == game' = IF task = NoTask THEN "idle" ELSE "callback"

StopEnd ==
  /\ game = "stop"
  /\ \A c \in Connections : ~Listed(c)
  /\ up' = FALSE
  /\ Resume
  /\ UNCHANGED <<cb, conn, got, queue, held, headers, others, task, endLate>>

-----------------------------------------------------------------------------
(* Tasks. *)

(* Mutant: the map keyed by the address and not by the connection's id. *)
HeadersByAddress(t) ==
  IF t.event = "open" THEN headers \cup {"address"} ELSE headers \ {"address"}

(* Mutant: the headers of a closed connection are kept. *)
HeadersKept(t) == IF t.event = "open" THEN headers \cup {t.conn} ELSE headers

(* Each OnCompleted: the map first, then the callback.  A message task     *)
(* leaves the map alone, and returns early when it gets no wrapper handle. *)
Headers(t) ==
  CASE t.event = "open" -> headers \cup {t.conn}
    [] t.event = "message" -> headers
    [] t.event \in {"close", "error"} -> headers \ {t.conn}

OnCompleted ==
  /\ game = "idle"
  /\ queue # <<>>
  /\ queue' = Tail(queue)
  /\ headers' = Headers(Head(queue))
  /\ \/ task' = Head(queue) /\ game' = "callback"
     \/ Head(queue).event = "message" /\ UNCHANGED <<task, game>>
  /\ UNCHANGED <<cb, up, conn, got, held, others, endLate>>

(* Execute returns; the wrapper of a message is freed, and its destructor  *)
(* drains the queue.                                                       *)
CallbackReturn ==
  /\ game = "callback"
  /\ task' = NoTask
  /\ game' = IF task.event = "message" THEN "drain" ELSE "idle"
  /\ UNCHANGED <<cb, up, conn, got, queue, held, headers, others, endLate>>

(* A plugin deletes another WebSocket or WebSocketServer. *)
DeleteOther ==
  /\ InPlugin
  /\ others > 0
  /\ others' = others - 1
  /\ game' = "drain"
  /\ UNCHANGED <<cb, up, conn, got, queue, held, headers, task, endLate>>

(* The drain, which goes on until it finds the queue empty ... *)
DrainKeep ==
  /\ game = "drain"
  /\ queue # <<>>
  /\ held' = Append(held, Head(queue))
  /\ queue' = Tail(queue)
  /\ UNCHANGED <<cb, up, conn, got, headers, others, game, task, endLate>>

DrainEmpty ==
  /\ game = "drain"
  /\ queue = <<>>
  /\ game' = "repush"
  /\ UNCHANGED <<cb, up, conn, got, queue, held, headers, others, task, endLate>>

(* Mutant: the tasks go back in reverse. *)
RepushReversed ==
  /\ game = "repush"
  /\ held # <<>>
  /\ queue' = Append(queue, Last(held))
  /\ held' = Front(held)
  /\ UNCHANGED <<cb, up, conn, got, headers, others, game, task, endLate>>

(* ... and the tasks go back, behind what was reported meanwhile. *)
Repush ==
  /\ game = "repush"
  /\ held # <<>>
  /\ queue' = Append(queue, Head(held))
  /\ held' = Tail(held)
  /\ UNCHANGED <<cb, up, conn, got, headers, others, game, task, endLate>>

DrainEnd ==
  /\ game = "repush"
  /\ held = <<>>
  /\ Resume
  /\ UNCHANGED <<cb, up, conn, got, queue, held, headers, others, task, endLate>>

-----------------------------------------------------------------------------
Thread(c) ==
  \/ Accept(c) \/ OnOpen(c) \/ OnMessage(c) \/ Leave(c)
  \/ \E event \in {"close", "error"} : OnEnd(c, event)

Engine == StopEnd \/ DrainKeep \/ DrainEmpty \/ Repush \/ DrainEnd

Next ==
  \/ Engine
  \/ Start \/ Stop \/ DeleteOther
  \/ \E event \in Events : SetCallback(event)
  \/ OnCompleted
  \/ CallbackReturn
  \/ \E c \in Connections : Thread(c)

Spec == Init /\ [][Next]_vars

(* The game thread goes on, frames come and callbacks return - strongly    *)
(* fair, as natives may come first.  A connection that ended leaves, and   *)
(* one that Stop closes ends.                                              *)
Fairness ==
  /\ WF_vars(Engine)
  /\ SF_vars(OnCompleted)
  /\ SF_vars(CallbackReturn)
  /\ \A c \in Connections :
       /\ WF_vars(Leave(c))
       /\ WF_vars(game = "stop" /\ OnEnd(c, "close"))

FairSpec == Spec /\ Fairness

-----------------------------------------------------------------------------
TypeOK ==
  /\ cb \subseteq Callbacks
  /\ up \in BOOLEAN
  /\ conn \in [Connections -> {"absent", "connecting", "open", "ended", "gone"}]
  /\ got \in 0..MaxMessages
  /\ queue \in Seq(Task)
  /\ held \in Seq(Task)
  /\ headers \subseteq Connections
  /\ others \in 0..MaxOthers
  /\ game \in {"idle", "callback", "stop", "drain", "repush"}
  /\ task \in Task \cup {NoTask}
  /\ endLate \subseteq Connections

(* A message callback for whose connection m_connectionHeaders has nothing.*)
Blind == game = "callback" /\ task.event = "message" /\ task.conn \notin headers

(* The headers of a connection are erased by the task of its end, at       *)
(* ws_server.cpp:216 and 234.  They are left behind for the life of the    *)
(* server only when that end was reported while a destructor held the      *)
(* queue's tasks, so that its task may have overtaken the one that stores  *)
(* them.                                                                   *)
LeakNeedsDrain ==
  \A c \in headers :
    (conn[c] = "gone" /\ \A t \in Pending : t.conn # c) => c \in endLate

(* A message callback runs without headers for its connection only when    *)
(* the message, or the connection's end, was reported while a destructor   *)
(* held the queue's tasks (ws_server.cpp:182).                             *)
BlindNeedsDrain == Blind => (task.late \/ task.conn \in endLate)

(* The map does not grow for ever: what it holds of a connection is erased *)
(* once the connection is gone, and does not come back, also across Stop   *)
(* and Start, unless its end was reported while a destructor drained       *)
(* (ws_server.cpp:202, 216, 234).                                          *)
HeadersErased ==
  \A c \in Connections :
    (conn[c] = "gone" /\ c \notin endLate) ~> [](c \notin headers)

(* "websocket client handle" (ws_server.inc:26), the client parameter of a *)
(* message callback: the socket behind the handle exists.  The task holds  *)
(* a raw pointer to it (ws_server.cpp:23, 172).                            *)
ClientHandleValid ==
  (game = "callback" /\ task.event = "message") => conn[task.conn] # "gone"
=============================================================================
