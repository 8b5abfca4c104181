------------------------------ MODULE WsClient ------------------------------
(***************************************************************************)
(* One WebSocketClient (ws_client.cpp) and the natives a plugin drives it  *)
(* with (ws_natives_client.cpp): the socket's thread (ix::WebSocket,       *)
(* external) makes connections and reports events, the game thread runs    *)
(* the tasks and calls Connect, Disconnect, Set...Callback and so on in    *)
(* between.  Creation and ~WebSocketClient are part of TaskPump.           *)
(***************************************************************************)
EXTENDS Naturals, Sequences, SequencesExt

CONSTANTS
  Callbacks,     \* the events the plugin sets callbacks for
  Json,          \* WebSocket_JSON and not WebSocket_STRING
  AutoReconnect, \* whether the plugin uses automatic reconnection
  SetAgain,      \* whether it sets callbacks again between two connections
  Reordered,     \* whether other destructors reorder the queue (see TaskPump)
  MaxAttempts,   \* bound: connections attempted
  MaxMessages,   \* bound: messages in a connection
  MaxLoads       \* bound: times the JSON extension is loaded

Events == {"open", "message", "close", "error"}

ASSUME ClientAssumption ==
  /\ Callbacks \subseteq Events
  /\ {Json, AutoReconnect, SetAgain, Reordered} \subseteq BOOLEAN
  /\ MaxAttempts \in Nat /\ MaxMessages \in Nat /\ MaxLoads \in Nat

VARIABLES
  sock,      \* getReadyState
  thread,    \* the socket's thread: "none", about to connect, or "busy"
  report,    \* the event it is in the middle of reporting
  conn,      \* the connections attempted; the last one is the current one
  got,       \* the messages of the current connection
  auto,      \* isAutomaticReconnectionEnabled
  headers,   \* m_headers: the connection they are from, 0 for none
  fwd,       \* the forward of each event
  queue,     \* this client's tasks in g_TaskQueue
  game,      \* what the game thread is doing
  task,      \* the task whose callback runs, or none
  json,      \* the JSON extension: which load of it runs, 0 for none
  loads,     \* how often it was loaded
  manager,   \* g_pJsonManager: the load it is from, 0 for nullptr
  values,    \* the JsonValues and handles this client has to free
  wanted,    \* the last accepted of Connect and Disconnect was Connect
  cut,       \* the connections during which Disconnect called stop()
  told,      \* the connections whose outcome reached a callback
  lost       \* the events whose forward went and no new one could be made

socket == <<sock, thread, report, conn, got, headers>>
bridge == <<json, loads, manager, values>>
history == <<wanted, cut, told, lost>>
vars == <<socket, auto, fwd, queue, game, task, bridge, history>>

NoReport == [event |-> "none"]
NoTask == [event |-> "none"]
Task == [event : Events, conn : 1..MaxAttempts]
Report == [event : Events, at : {"headers", "test", "push"}]

InPlugin == game \in {"idle", "callback"}
Resume == game' = IF task = NoTask THEN "idle" ELSE "callback"

(* WebSocket.Connected, and the test of Connect and Disconnect. *)
IsConnected == sock = "open"

Init ==
  /\ sock = "closed"
  /\ thread = "none"
  /\ report = NoReport
  /\ conn = 0
  /\ got = 0
  /\ auto = FALSE
  /\ headers = 0
  /\ fwd = [e \in Events |-> "null"]
  /\ queue = <<>>
  /\ game = "idle"
  /\ task = NoTask
  /\ json = 0
  /\ loads = 0
  /\ manager = 0
  /\ values = 0
  /\ wanted = FALSE
  /\ cut = {}
  /\ told = {}
  /\ lost = {}

-----------------------------------------------------------------------------
(* The socket's thread. *)

Reporting(event, at) == report' = [event |-> event, at |-> at]

Attempt ==
  /\ thread = "connect"
  /\ conn < MaxAttempts
  /\ thread' = "busy"
  /\ sock' = "connecting"
  /\ conn' = conn + 1
  /\ got' = 0
  /\ UNCHANGED <<report, headers, auto, fwd, queue, game, task,
                 bridge, history>>

(* The headers of the handshake are stored before the event is reported.   *)
Opened ==
  /\ sock = "connecting"
  /\ report = NoReport
  /\ sock' = "open"
  /\ Reporting("open", "headers")
  /\ UNCHANGED <<thread, conn, got, headers, auto, fwd, queue, game, task,
                 bridge, history>>

Received ==
  /\ sock = "open"
  /\ report = NoReport
  /\ got < MaxMessages
  /\ got' = got + 1
  /\ Reporting("message", "test")
  /\ UNCHANGED <<sock, thread, conn, headers, auto, fwd, queue, game, task,
                 bridge, history>>

(* An attempt fails, or the peer, the network or stop() ends a connection. *)
Ended(event) ==
  /\ report = NoReport
  /\ sock = "open" \/ (sock = "connecting" /\ event = "error")
  /\ sock' = "closed"
  /\ Reporting(event, "test")
  /\ UNCHANGED <<thread, conn, got, headers, auto, fwd, queue, game, task,
                 bridge, history>>

(* stop() breaks off an attempt. *)
Aborted ==
  /\ game = "stop"
  /\ sock = "connecting"
  /\ report = NoReport
  /\ sock' = "closed"
  /\ UNCHANGED <<thread, report, conn, got, headers, auto, fwd, queue, game,
                 task, bridge, history>>

(* The connection is over: the thread tries again, or ends. *)
ThreadEnd ==
  /\ \/ thread = "busy" /\ sock = "closed" /\ report = NoReport
     \/ thread = "connect" /\ game = "stop"
  /\ thread' = IF auto /\ game # "stop" THEN "connect" ELSE "none"
  /\ UNCHANGED <<sock, report, conn, got, headers, auto, fwd, queue, game, task,
                 bridge, history>>

(* Mutant: the headers stored only when there is an open callback. *)
StoreHeadersIfHeard ==
  /\ report # NoReport /\ report.at = "headers"
  /\ headers' = IF fwd["open"] = "bound" THEN conn ELSE headers
  /\ report' = [report EXCEPT !.at = "test"]
  /\ UNCHANGED <<sock, thread, conn, got, auto, fwd, queue, game, task,
                 bridge, history>>

StoreHeaders ==
  /\ report # NoReport /\ report.at = "headers"
  /\ headers' = conn
  /\ report' = [report EXCEPT !.at = "test"]
  /\ UNCHANGED <<sock, thread, conn, got, auto, fwd, queue, game, task,
                 bridge, history>>

(* Mutant: a forward looked at, and not whether it is there. *)
TestCount ==
  /\ report # NoReport /\ report.at = "test"
  /\ report' = IF fwd[report.event] # "empty" THEN [report EXCEPT !.at = "push"]
               ELSE NoReport
  /\ UNCHANGED <<sock, thread, conn, got, headers, auto, fwd, queue, game, task,
                 bridge, history>>

(* Mutant: every event tested against the message forward. *)
TestMessage ==
  /\ report # NoReport /\ report.at = "test"
  /\ report' = IF fwd["message"] = "bound" THEN [report EXCEPT !.at = "push"]
               ELSE NoReport
  /\ UNCHANGED <<sock, thread, conn, got, headers, auto, fwd, queue, game, task,
                 bridge, history>>

(* OnOpen, OnMessage, OnClose, OnError look at the forward: without one,   *)
(* or with one that has no function, the event is dropped.                 *)
Test ==
  /\ report # NoReport /\ report.at = "test"
  /\ report' = IF fwd[report.event] = "bound" THEN [report EXCEPT !.at = "push"]
               ELSE NoReport
  /\ UNCHANGED <<sock, thread, conn, got, headers, auto, fwd, queue, game, task,
                 bridge, history>>

Push ==
  /\ report # NoReport /\ report.at = "push"
  /\ queue' = Append(queue, [event |-> report.event, conn |-> conn])
  /\ report' = NoReport
  /\ UNCHANGED <<sock, thread, conn, got, headers, auto, fwd, game, task,
                 bridge, history>>

-----------------------------------------------------------------------------
(* The natives, and the JSON extension. *)

(* Set...Callback: the old forward is released, a new one may not be made, *)
(* and AddFunction may fail.  Callbacks are set while there is no          *)
(* connection (ws_client.inc:62), so that no other thread is looking, and  *)
(* not the one that Execute is working on.                                 *)
SetCallback(e) ==
  /\ InPlugin
  /\ thread = "none"
  /\ fwd[e] = "null" \/ SetAgain
  /\ task.event # e
  /\ \E f \in {"bound", "empty", "null"} :
       /\ fwd' = [fwd EXCEPT ![e] = f]
       /\ lost' = IF f = "null" THEN lost \cup {e} ELSE lost \ {e}
  /\ UNCHANGED <<socket, auto, queue, game, task, bridge, wanted, cut, told>>

(* Connect is refused on an open connection; what the test saw may have    *)
(* changed by the time of start().  The plugin has set its callbacks by    *)
(* then (ws_client.inc:62).                                                *)
ConnectTest ==
  /\ InPlugin
  /\ \A e \in Callbacks : fwd[e] # "null"
  /\ game' = IF IsConnected THEN game ELSE "connect"
  /\ UNCHANGED <<socket, auto, fwd, queue, task, bridge, history>>

(* start() on a socket whose thread runs does nothing. *)
ConnectStart ==
  /\ game = "connect"
  /\ thread' = IF thread = "none" THEN "connect" ELSE thread
  /\ wanted' = TRUE
  /\ Resume
  /\ UNCHANGED <<sock, report, conn, got, headers, auto, fwd, queue, task,
                 bridge, cut, told, lost>>

(* Disconnect is refused on a connection that is not open, and has lost    *)
(* sight of it by the time of stop(): it may be over, and a new attempt be *)
(* under way.                                                              *)
DisconnectTest ==
  /\ InPlugin
  /\ game' = IF IsConnected THEN "disconnect" ELSE game
  /\ UNCHANGED <<socket, auto, fwd, queue, task, bridge, history>>

DisconnectStop ==
  /\ game = "disconnect"
  /\ game' = "stop"
  /\ UNCHANGED <<socket, auto, fwd, queue, task, bridge, history>>

(* Mutant: close() without waiting for the thread. *)
DisconnectNoJoin ==
  /\ game = "stop"
  /\ wanted' = FALSE
  /\ cut' = cut \cup {conn}
  /\ Resume
  /\ UNCHANGED <<socket, auto, fwd, queue, task, bridge, told, lost>>

(* Mutant: the thread left to end by itself. *)
DisconnectDetach ==
  /\ game = "stop"
  /\ thread' = "none"
  /\ wanted' = FALSE
  /\ cut' = cut \cup {conn}
  /\ Resume
  /\ UNCHANGED <<sock, report, conn, got, headers, auto, fwd, queue, task,
                 bridge, told, lost>>

(* stop() returns when the thread has ended. *)
DisconnectEnd ==
  /\ game = "stop"
  /\ thread = "none"
  /\ wanted' = FALSE
  /\ cut' = cut \cup {conn}
  /\ Resume
  /\ UNCHANGED <<socket, auto, fwd, queue, task, bridge, told, lost>>

SetAutoReconnect ==
  /\ InPlugin
  /\ AutoReconnect
  /\ auto' = ~auto
  /\ UNCHANGED <<socket, fwd, queue, game, task, bridge, history>>

(* GetHeader looks a key up in the headers there are at the moment.        *)
GetHeader == headers

GetJsonManager == manager' = IF manager = 0 THEN json ELSE manager

WriteJSON ==
  /\ InPlugin
  /\ GetJsonManager
  /\ UNCHANGED <<socket, auto, fwd, queue, game, task, json, loads,
                 values, history>>

JsonLoad ==
  /\ game = "idle"
  /\ json = 0
  /\ loads < MaxLoads
  /\ loads' = loads + 1
  /\ json' = loads + 1
  /\ UNCHANGED <<socket, auto, fwd, queue, game, task, manager,
                 values, history>>

(* Mutant: the pointer not reset. *)
DependencyForgotten ==
  /\ game = "idle"
  /\ json # 0
  /\ json' = 0
  /\ UNCHANGED <<socket, auto, fwd, queue, game, task, loads, manager,
                 values, history>>

OnDependenciesDropped ==
  /\ game = "idle"
  /\ json # 0
  /\ json' = 0
  /\ manager' = 0
  /\ UNCHANGED <<socket, auto, fwd, queue, game, task, loads, values,
                 history>>

-----------------------------------------------------------------------------
(* The tasks. *)

Take(i) == queue' = RemoveAt(queue, i)

(* The next task; destructors of other objects may have changed the order. *)
Ready == IF Reordered THEN DOMAIN queue ELSE {1} \cap DOMAIN queue

IsJson(t) == Json /\ t.event = "message"

(* No JSON extension, or text that is no JSON: the message is dropped. *)
MessageDropped(i) ==
  /\ game = "idle"
  /\ IsJson(queue[i])
  /\ Take(i)
  /\ GetJsonManager
  /\ UNCHANGED <<socket, auto, fwd, game, task, json, loads, values,
                 history>>

ParseJSON(i) ==
  /\ game = "idle"
  /\ IsJson(queue[i])
  /\ Take(i)
  /\ GetJsonManager
  /\ manager' # 0
  /\ values' = values + 1
  /\ game' = "parsed"
  /\ task' = queue[i]
  /\ UNCHANGED <<socket, auto, fwd, json, loads, history>>

(* Mutant: the value not released when there is no handle for it. *)
HandleFailedKept ==
  /\ game = "parsed"
  /\ game' = "idle"
  /\ task' = NoTask
  /\ UNCHANGED <<socket, auto, fwd, queue, bridge, history>>

(* No handle could be made for the value. *)
HandleFailed ==
  /\ game = "parsed"
  /\ values' = values - 1
  /\ game' = "idle"
  /\ task' = NoTask
  /\ UNCHANGED <<socket, auto, fwd, queue, json, loads, manager, history>>

(* Push... and Execute through a null pointer: the process is gone, with   *)
(* the thread.                                                             *)
ThroughNull(t) ==
  /\ fwd[t.event] = "null"
  /\ game' = "crashed"
  /\ sock' = "closed" /\ thread' = "none" /\ report' = NoReport
  /\ UNCHANGED <<conn, got, headers, told>>

(* Execute returns at once from a forward without functions. *)
Called(t) ==
  /\ fwd[t.event] # "null"
  /\ game' = IF fwd[t.event] = "bound" THEN "callback" ELSE "return"
  /\ told' = IF t.event \in {"open", "error"} /\ fwd[t.event] = "bound"
             THEN told \cup {t.conn} ELSE told
  /\ UNCHANGED socket

MessageCallback ==
  /\ game = "parsed"
  /\ ThroughNull(task) \/ Called(task)
  /\ UNCHANGED <<auto, fwd, queue, task, bridge, wanted, cut, lost>>

OnCompleted(i) ==
  /\ game = "idle"
  /\ ~IsJson(queue[i])
  /\ Take(i)
  /\ task' = queue[i]
  /\ ThroughNull(queue[i]) \/ Called(queue[i])
  /\ UNCHANGED <<auto, fwd, bridge, wanted, cut, lost>>

(* Execute returns, and the handle of a JSON value is freed. *)
CallbackReturn ==
  /\ game \in {"callback", "return"}
  /\ values' = IF IsJson(task) THEN values - 1 ELSE values
  /\ game' = "idle"
  /\ task' = NoTask
  /\ UNCHANGED <<socket, auto, fwd, queue, json, loads, manager, history>>

Crashed == game = "crashed" /\ UNCHANGED vars

Thread ==
  \/ Attempt \/ Opened \/ Received \/ Aborted \/ ThreadEnd
  \/ StoreHeaders \/ Test \/ Push
  \/ \E event \in {"close", "error"} : Ended(event)

Native ==
  \/ \E e \in Callbacks : SetCallback(e)
  \/ ConnectTest \/ ConnectStart
  \/ DisconnectTest \/ DisconnectStop \/ DisconnectEnd
  \/ SetAutoReconnect \/ WriteJSON

Next ==
  \/ Thread
  \/ Native
  \/ JsonLoad \/ OnDependenciesDropped
  \/ \E i \in Ready : MessageDropped(i) \/ ParseJSON(i) \/ OnCompleted(i)
  \/ HandleFailed \/ MessageCallback
  \/ CallbackReturn
  \/ Crashed

Spec == Init /\ [][Next]_vars

(* The game thread runs frames whatever plugins do, and natives return; an *)
(* attempt comes to an end and so does a connection that is being stopped; *)
(* the thread does not stop in the middle of an event.                     *)
Fairness ==
  /\ WF_vars(Attempt)
  /\ WF_vars(Opened \/ (sock = "connecting" /\ Ended("error")))
  /\ WF_vars(Aborted \/ (game = "stop" /\ \E event \in {"close", "error"} : Ended(event)))
  /\ WF_vars(ThreadEnd)
  /\ WF_vars(StoreHeaders \/ Test \/ Push)
  /\ WF_vars(ConnectStart \/ DisconnectStop \/ DisconnectEnd)
  /\ SF_vars(\E i \in Ready : MessageDropped(i) \/ ParseJSON(i) \/ OnCompleted(i))
  /\ WF_vars(HandleFailed \/ MessageCallback)
  /\ SF_vars(CallbackReturn)

LiveSpec == Spec /\ Fairness

-----------------------------------------------------------------------------
TypeOK ==
  /\ sock \in {"closed", "connecting", "open"}
  /\ thread \in {"none", "connect", "busy"}
  /\ report \in Report \cup {NoReport}
  /\ report # NoReport => thread = "busy" /\ conn # 0
  /\ sock # "closed" => thread = "busy" /\ conn # 0
  /\ conn \in 0..MaxAttempts
  /\ got \in 0..MaxMessages
  /\ auto \in BOOLEAN
  /\ headers \in 0..conn
  /\ fwd \in [Events -> {"null", "bound", "empty"}]
  /\ queue \in Seq(Task)
  /\ game \in {"idle", "parsed", "callback", "return", "connect", "disconnect",
               "stop", "crashed"}
  /\ task \in Task \cup {NoTask}
  /\ json \in 0..loads
  /\ loads \in 0..MaxLoads
  /\ manager \in 0..loads
  /\ values \in Nat
  /\ wanted \in BOOLEAN
  /\ cut \subseteq 1..MaxAttempts /\ told \subseteq 1..MaxAttempts
  /\ lost \subseteq Events

(* The tasks not yet done, with the one whose callback runs. *)
Undone == ToSet(queue) \cup ({task} \ {NoTask})

(* What GetHeader reads in a callback of a connection that was opened is   *)
(* never of an earlier connection: the thread stores the headers before it *)
(* reports anything of the connection (ws_client.cpp:22-26), however long  *)
(* the task waits.  An error may be of an attempt that had no headers.     *)
HeadersNotOlder ==
  \A t \in Undone : t.event # "error" => t.conn <= GetHeader

(* OnCompleted uses the forward of its event without looking at it         *)
(* (ws_client.cpp:134, 169, 182, 188, 196).  It finds a null pointer only  *)
(* where Set...Callback gave up the forward of a waiting task and could    *)
(* not make another (ws_natives_client.cpp:46-56): what the thread tested  *)
(* before it pushed the task is otherwise still there.                     *)
NullOnlyIfLost == \A t \in Undone : fwd[t.event] = "null" => t.event \in lost

(* g_pJsonManager never points into a JSON extension that has gone         *)
(* (extension.cpp:59-71), however it comes, goes and is used.              *)
NoStaleManager == manager # 0 => manager = json

(* Every JsonValue a message is parsed into is freed by the time the task  *)
(* is over: with its handle after the callback, with or without a function *)
(* to call, or by Release when no handle could be made                     *)
(* (ws_client.cpp:150-174).                                                *)
ValuesReleased == task = NoTask => values = 0

(* No connection is attempted between a Disconnect that was accepted and   *)
(* the next Connect, whatever the socket was doing at the time and with    *)
(* automatic reconnection on (ws_natives_client.cpp:134-140, 151-157).     *)
AttemptsWanted == [][conn' # conn => wanted]_vars

(* The plugin hears of every connection it asked for, that it is open or   *)
(* that it failed, unless it disconnected during it, gave up a callback    *)
(* before the task ran, or lost the process to a forward it gave up        *)
(* (ws_client.cpp:82-124, 180-199, extension.cpp:19-34).                   *)
AttemptAnswered ==
  \A n \in 1..MaxAttempts :
    (/\ conn = n /\ sock = "connecting"
     /\ fwd["open"] = "bound" /\ fwd["error"] = "bound")
      ~> \/ n \in told \cup cut
         \/ fwd["open"] # "bound" \/ fwd["error"] # "bound"
         \/ game = "crashed"

-----------------------------------------------------------------------------
(* The inductive invariant behind HeadersNotOlder, NullOnlyIfLost,         *)
(* AttemptsWanted, NoStaleManager and ValuesReleased.                      *)

GameShape ==
  /\ game = "idle" => task = NoTask
  /\ game \in {"parsed", "callback", "return"} => task # NoTask
  /\ game = "parsed" => IsJson(task)
  /\ game \in {"disconnect", "stop"} => conn # 0

(* While the socket's thread lives, the last word was Connect. *)
ThreadWanted == thread # "none" => wanted

(* Headers are stored first, so whatever else is reported of an opened     *)
(* connection finds its own.                                               *)
HeadersFirst ==
  /\ sock = "open" /\ report = NoReport => headers = conn
  /\ report # NoReport =>
       /\ report.at = "headers" => report.event = "open"
       /\ report.at # "headers" /\ (report.event # "error" \/ sock = "open")
            => headers = conn

(* Between the test and Push nobody sets callbacks. *)
TestHolds == report # NoReport /\ report.at = "push" => fwd[report.event] = "bound"

OneValue == values = IF IsJson(task) THEN 1 ELSE 0

(* From the thread's report through g_TaskQueue to the callback            *)
(* (ws_client.cpp:12-124, 126-199), what a task relies on was there before *)
(* it and stays: a thread that was asked for, headers, a forward, a value. *)
IInv ==
  /\ TypeOK /\ GameShape /\ ThreadWanted /\ HeadersFirst /\ TestHolds /\ OneValue
  /\ HeadersNotOlder /\ NullOnlyIfLost /\ NoStaleManager
=============================================================================
