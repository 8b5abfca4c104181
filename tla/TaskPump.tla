------------------------------ MODULE TaskPump ------------------------------
(***************************************************************************)
(* The path every event takes from the background threads to the plugins:  *)
(* g_TaskQueue (queue.h), OnGameFrame (extension.cpp) and the destructors  *)
(* of WebSocketClient and WebSocketServer, which drain the queue.          *)
(*                                                                         *)
(* Background threads only Push.  Everything else runs on the game thread, *)
(* whose calls nest: a frame runs a task, the task runs a plugin callback, *)
(* the callback may delete a handle, whose destructor pops the queue, runs *)
(* the callbacks of its own tasks and puts the other tasks back.  "stack"  *)
(* is that nest of calls, the innermost last.                              *)
(***************************************************************************)
EXTENDS Naturals, Sequences, SequencesExt

CONSTANTS
  Clients,       \* the WebSocketClient objects plugins create
  Servers,       \* the WebSocketServer objects plugins create
  NoOwner,       \* nullptr, the default ITaskContext::GetOwner
  Wrapper,       \* the WebSocketClient that exists while a server's message
                 \* callback runs; its destructor drains the queue as well
  MaxProcess,    \* MAX_PROCESS
  MaxTasks,      \* bound: tasks ever pushed
  NestedDestroy  \* whether callbacks run by a drain delete further objects

Owners == Clients \cup Servers

ASSUME ConstantsAssumption ==
  /\ Clients \cap Servers = {}
  /\ NoOwner \notin Owners
  /\ Wrapper \notin Owners \cup {NoOwner}
  /\ MaxProcess \in Nat \ {0}
  /\ MaxTasks \in Nat
  /\ NestedDestroy \in BOOLEAN

VARIABLES
  queue,    \* g_TaskQueue
  stack,    \* the game thread's calls in progress
  count,    \* OnGameFrame's local count
  kept,     \* other_tasks, the local vector of each object's destructor
  obj,      \* the life of each object
  thr,      \* thr[o]: a background thread of o may still report events
  nextId,   \* the identity of the next task
  done      \* the identities of the tasks whose OnCompleted was called

vars == <<queue, stack, count, kept, obj, thr, nextId, done>>

Drainers == Owners \cup {Wrapper}

Life == {"absent", "live", "destroying", "deleted"}

(* Message tasks differ from the others: they may return before the        *)
(* callback, and a server's creates and frees a wrapper.  "late" records   *)
(* that the task was pushed while a destructor held tasks of the queue.    *)
Task == [id : Nat, owner : Owners \cup {NoOwner},
         kind : {"message", "event"}, late : BOOLEAN]

(* A call in progress.  "event" and "message": the plugin callback of a    *)
(* task; "halt": a Disconnect or Stop native joining the threads of who;   *)
(* "stop", "drain", "repush": the three parts of the destructor of who.    *)
Call ==
  [op : {"frame"}, who : {NoOwner}]
    \cup [op : {"event", "message"}, who : Owners \cup {NoOwner}]
    \cup [op : {"halt", "stop"}, who : Owners]
    \cup [op : {"drain", "repush"}, who : Drainers]

Running(op) == stack # <<>> /\ Last(stack).op = op
Top == Last(stack)
Enter(op, who) == stack' = Append(stack, [op |-> op, who |-> who])
Become(op, who) ==
  stack' = [stack EXCEPT ![Len(stack)] = [op |-> op, who |-> who]]
Return == stack' = Front(stack)

(* Plugin code runs between frames and inside callbacks. *)
InPlugin == stack = <<>> \/ Running("event") \/ Running("message")

Draining == \E i \in DOMAIN stack : stack[i].op \in {"drain", "repush"}

(* No task is twice in a list; two lists share no task. *)
Distinct(s) == \A i, j \in DOMAIN s : s[i].id = s[j].id => i = j
Apart(s, r) == \A t \in ToSet(s), u \in ToSet(r) : t.id # u.id

(* Every task that was pushed and whose OnCompleted was not called yet. *)
Pending == ToSet(queue) \cup UNION {ToSet(kept[d]) : d \in Drainers}

Init ==
  /\ queue = <<>>
  /\ stack = <<>>
  /\ count = 0
  /\ kept = [d \in Drainers |-> <<>>]
  /\ obj = [o \in Owners |-> "absent"]
  /\ thr = [o \in Owners |-> FALSE]
  /\ nextId = 1
  /\ done = {}

-----------------------------------------------------------------------------
(* Background threads. *)

NewTask(owner, kind) ==
  [id |-> nextId, owner |-> owner, kind |-> kind, late |-> Draining]

Push(owner, kind) ==
  /\ nextId <= MaxTasks
  /\ queue' = Append(queue, NewTask(owner, kind))
  /\ nextId' = nextId + 1
  /\ UNCHANGED <<stack, count, kept, obj, thr, done>>

(* OnMessage, OnOpen, OnClose and OnError of a client or a server. *)
Post(o, kind) == thr[o] /\ Push(o, kind)

(* HttpRequest::onResponse: its task names no owner. *)
PostResponse == Push(NoOwner, "event")

Joining(o) ==
  /\ Running("halt") \/ Running("stop")
  /\ Top.who = o

(* A client's thread ends by itself when its connection does (automatic    *)
(* reconnection is off); a server's ends only when it is stopped.          *)
ThreadExit(o) ==
  /\ thr[o]
  /\ o \in Clients \/ Joining(o)
  /\ thr' = [thr EXCEPT ![o] = FALSE]
  /\ UNCHANGED <<queue, stack, count, kept, obj, nextId, done>>

-----------------------------------------------------------------------------
(* Natives called by plugin code. *)

Create(o) ==
  /\ InPlugin
  /\ obj[o] = "absent"
  /\ obj' = [obj EXCEPT ![o] = "live"]
  /\ UNCHANGED <<queue, stack, count, kept, thr, nextId, done>>

(* WebSocket.Connect, WebSocketServer.Start *)
Start(o) ==
  /\ InPlugin
  /\ obj[o] = "live"
  /\ ~thr[o]
  /\ thr' = [thr EXCEPT ![o] = TRUE]
  /\ UNCHANGED <<queue, stack, count, kept, obj, nextId, done>>

(* WebSocket.Disconnect, WebSocketServer.Stop: stop() joins the threads. *)
Halt(o) ==
  /\ InPlugin
  /\ obj[o] = "live"
  /\ thr[o]
  /\ Enter("halt", o)
  /\ UNCHANGED <<queue, count, kept, obj, thr, nextId, done>>

HaltEnd ==
  /\ Running("halt")
  /\ ~thr[Top.who]
  /\ Return
  /\ UNCHANGED <<queue, count, kept, obj, thr, nextId, done>>

-----------------------------------------------------------------------------
(* OnGameFrame *)

FrameBegin ==
  /\ stack = <<>>
  /\ Enter("frame", NoOwner)
  /\ count' = 0
  /\ UNCHANGED <<queue, kept, obj, thr, nextId, done>>

(* context->OnCompleted(): the plugin callback runs, or a message task     *)
(* returns early - no JSON manager, a parse error or no JSON handle for a  *)
(* client's, no wrapper handle for a server's.                             *)
OnCompleted(t) ==
  /\ done' = done \cup {t.id}
  /\ \/ Enter(t.kind, t.owner)
     \/ t.kind = "message" /\ UNCHANGED stack

(* Mutant: the task is looked at and not popped. *)
FramePopPeek ==
  /\ Running("frame")
  /\ count < MaxProcess
  /\ queue # <<>>
  /\ OnCompleted(Head(queue))
  /\ count' = count + 1
  /\ UNCHANGED <<queue, kept, obj, thr, nextId>>

FramePop ==
  /\ Running("frame")
  /\ count < MaxProcess
  /\ queue # <<>>
  /\ OnCompleted(Head(queue))
  /\ queue' = Tail(queue)
  /\ count' = count + 1
  /\ UNCHANGED <<kept, obj, thr, nextId>>

FrameEnd ==
  /\ Running("frame")
  /\ count = MaxProcess \/ queue = <<>>
  /\ Return
  /\ UNCHANGED <<queue, count, kept, obj, thr, nextId, done>>

(* Execute returns.  A server's message task then frees the handle of its  *)
(* wrapper, and ~WebSocketClient of the wrapper goes straight to the drain.*)
CallbackReturn ==
  /\ Running("event") \/ Running("message")
  /\ IF Top.op = "message" /\ Top.who \in Servers
       THEN Become("drain", Wrapper)
       ELSE Return
  /\ UNCHANGED <<queue, count, kept, obj, thr, nextId, done>>

-----------------------------------------------------------------------------
(* OnHandleDestroy: ~WebSocketClient and ~WebSocketServer *)

DestroyBegin(o) ==
  /\ InPlugin
  /\ NestedDestroy \/ ~Draining
  /\ obj[o] = "live"
  /\ obj' = [obj EXCEPT ![o] = "destroying"]
  /\ Enter("stop", o)
  /\ UNCHANGED <<queue, count, kept, thr, nextId, done>>

(* Mutant: the drain starts while threads of the object may still report.  *)
StopWithoutJoin ==
  /\ Running("stop")
  /\ Become("drain", Top.who)
  /\ UNCHANGED <<queue, count, kept, obj, thr, nextId, done>>

(* Mutant: a destructor without the drain. *)
StopWithoutDrain ==
  /\ Running("stop")
  /\ ~thr[Top.who]
  /\ Become("repush", Top.who)
  /\ UNCHANGED <<queue, count, kept, obj, thr, nextId, done>>

StopJoin ==
  /\ Running("stop")
  /\ ~thr[Top.who]
  /\ Become("drain", Top.who)
  /\ UNCHANGED <<queue, count, kept, obj, thr, nextId, done>>

(* Mutant: the "else" of the drain forgotten, an own task is run and kept. *)
DrainRunAndKeep ==
  /\ Running("drain")
  /\ queue # <<>>
  /\ Head(queue).owner = Top.who
  /\ OnCompleted(Head(queue))
  /\ kept' = [kept EXCEPT ![Top.who] = Append(@, Head(queue))]
  /\ queue' = Tail(queue)
  /\ UNCHANGED <<count, obj, thr, nextId>>

DrainRun ==
  /\ Running("drain")
  /\ queue # <<>>
  /\ Head(queue).owner = Top.who
  /\ OnCompleted(Head(queue))
  /\ queue' = Tail(queue)
  /\ UNCHANGED <<count, kept, obj, thr, nextId>>

(* Mutant: the drain throws the tasks of others away. *)
DrainDiscard ==
  /\ Running("drain")
  /\ queue # <<>>
  /\ Head(queue).owner # Top.who
  /\ queue' = Tail(queue)
  /\ UNCHANGED <<stack, count, kept, obj, thr, nextId, done>>

(* Mutant: the tasks of others are put back in reverse. *)
DrainKeepReversed ==
  /\ Running("drain")
  /\ queue # <<>>
  /\ Head(queue).owner # Top.who
  /\ kept' = [kept EXCEPT ![Top.who] = <<Head(queue)>> \o @]
  /\ queue' = Tail(queue)
  /\ UNCHANGED <<stack, count, obj, thr, nextId, done>>

(* Mutant: without other_tasks, each one is pushed back at once. *)
DrainRotate ==
  /\ Running("drain")
  /\ queue # <<>>
  /\ Head(queue).owner # Top.who
  /\ queue' = Append(Tail(queue), Head(queue))
  /\ UNCHANGED <<stack, count, kept, obj, thr, nextId, done>>

DrainKeep ==
  /\ Running("drain")
  /\ queue # <<>>
  /\ Head(queue).owner # Top.who
  /\ kept' = [kept EXCEPT ![Top.who] = Append(@, Head(queue))]
  /\ queue' = Tail(queue)
  /\ UNCHANGED <<stack, count, obj, thr, nextId, done>>

DrainEmpty ==
  /\ Running("drain")
  /\ queue = <<>>
  /\ Become("repush", Top.who)
  /\ UNCHANGED <<queue, count, kept, obj, thr, nextId, done>>

Repush ==
  /\ Running("repush")
  /\ kept[Top.who] # <<>>
  /\ queue' = Append(queue, Head(kept[Top.who]))
  /\ kept' = [kept EXCEPT ![Top.who] = Tail(@)]
  /\ UNCHANGED <<stack, count, obj, thr, nextId, done>>

DestroyEnd ==
  /\ Running("repush")
  /\ kept[Top.who] = <<>>
  /\ obj' = [o \in Owners |-> IF o = Top.who THEN "deleted" ELSE obj[o]]
  /\ Return
  /\ UNCHANGED <<queue, count, kept, thr, nextId, done>>

-----------------------------------------------------------------------------
(* The steps the game thread takes by itself, without plugin code. *)
Engine ==
  \/ HaltEnd \/ FramePop \/ FrameEnd \/ StopJoin
  \/ DrainRun \/ DrainKeep \/ DrainEmpty \/ Repush \/ DestroyEnd

Next ==
  \/ Engine
  \/ FrameBegin
  \/ CallbackReturn
  \/ PostResponse
  \/ \E o \in Owners :
       \/ Create(o) \/ Start(o) \/ Halt(o) \/ DestroyBegin(o)
       \/ ThreadExit(o)
       \/ \E kind \in {"message", "event"} : Post(o, kind)

Spec == Init /\ [][Next]_vars

-----------------------------------------------------------------------------
TypeOK ==
  /\ queue \in Seq(Task)
  /\ stack \in Seq(Call)
  /\ count \in 0..MaxProcess
  /\ kept \in [Drainers -> Seq(Task)]
  /\ obj \in [Owners -> Life]
  /\ thr \in [Owners -> BOOLEAN]
  /\ nextId \in Nat \ {0}
  /\ done \subseteq Nat

(* "Drain the queue for tasks belonging to this client" (ws_client.cpp:54, *)
(* ws_server.cpp:48): the owner of a task still to be run is an object     *)
(* that exists, in the queue and in every destructor's other_tasks alike.  *)
NoStaleTask ==
  \A t \in Pending :
    t.owner # NoOwner => obj[t.owner] \in {"live", "destroying"}

(* Drains and re-pushes neither lose nor duplicate a task: each task ever  *)
(* pushed is pending in exactly one place - the queue or one other_tasks - *)
(* or was run, and never both (ws_client.cpp:58-69, extension.cpp:24-31).  *)
TaskConservation ==
  /\ {t.id : t \in Pending} \cup done = 1..(nextId - 1)
  /\ \A t \in Pending : t.id \notin done
  /\ Distinct(queue)
  /\ \A d \in Drainers :
       /\ Distinct(kept[d])
       /\ Apart(queue, kept[d])
       /\ \A e \in Drainers \ {d} : Apart(kept[d], kept[e])

(* Tasks of one owner run in the order they were pushed, except that a     *)
(* task pushed while a destructor held the queue's tasks (ws_client.cpp:58 *)
(* to 69) may overtake those it puts back behind it.                       *)
OvertakingNeedsDrain ==
  [][\A t, u \in Pending :
       (t.id \in done' \ done /\ u.owner = t.owner /\ u.id < t.id)
         => t.late]_vars

(* A destructor comes to its end: the join, the drain and the re-push      *)
(* terminate once the producers have stopped.                              *)
DestroyEnds ==
  \A o \in Owners : (obj[o] = "destroying") ~> (obj[o] = "deleted")

(* The queue, the frame and the drains implement Delivery: each step hands *)
(* over one event, destroys an object with nothing pending, or stutters.   *)
D == INSTANCE Delivery WITH
       Ids <- 1..MaxTasks,
       pending <- {[id |-> t.id, owner |-> t.owner] : t \in Pending}

Delivers == D!Spec
=============================================================================
