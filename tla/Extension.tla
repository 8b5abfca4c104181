------------------------------ MODULE Extension ------------------------------
(***************************************************************************)
(* The life of the extension (extension.cpp) around the pump: SDK_OnLoad   *)
(* registers the handle types and the frame hook, SDK_OnUnload removes the *)
(* types one after the other - the handle system destroys what is left of  *)
(* each, and the destructors drain the queue and call plugins - and the    *)
(* frame hook last.  HTTP requests are here only as what a response needs. *)
(*                                                                         *)
(* The handle system (external) destroys every object of a type that is    *)
(* removed and makes no handle of it from then on.  The game thread is in  *)
(* no callback when the extension is unloaded.                             *)
(***************************************************************************)
EXTENDS TaskPump, FiniteSets

CONSTANT Requests  \* the HttpRequest objects plugins create, one call each

VARIABLES
  phase,   \* which type SDK_OnUnload is removing, or "out", "loaded", "gone"
  request  \* the life of each HttpRequest

lifeVars == <<phase, request>>
allVars == <<vars, lifeVars>>

Types == {"clients", "servers", "requests"}
Phases == {"out", "loaded", "gone"} \cup Types

(* A "lost" request got no handle: nothing can call or destroy it, and its *)
(* worker is never joined.                                                 *)
RequestLife == {"absent", "live", "answered", "lost", "deleted"}

(* The types SDK_OnUnload has not come to, in its order. *)
Registered ==
  CASE phase = "loaded" -> Types
    [] phase = "clients" -> {"servers", "requests"}
    [] phase = "servers" -> {"requests"}
    [] OTHER -> {}

TypeOf(o) == IF o \in Clients THEN "clients" ELSE "servers"

(* The hook is there, and plugin code runs from it or from the game. *)
Loaded == phase = "loaded"

(* Plugin code is run by the game, or by a callback of a destructor.       *)
PluginRuns == Loaded \/ stack # <<>>

LifeInit ==
  /\ Init
  /\ phase = "out"
  /\ request = [r \in Requests |-> "absent"]

-----------------------------------------------------------------------------
SDK_OnLoad ==
  /\ phase = "out"
  /\ phase' = "loaded"
  /\ UNCHANGED <<vars, request>>

(* Natives.  CreateHandleEx may fail at any time, and does for a type that *)
(* is no longer registered.  The object that was made is then forgotten: a *)
(* WebSocket has no thread yet and is as good as absent, an HttpRequest    *)
(* has its worker.                                                         *)
CreateObject(o) ==
  /\ PluginRuns
  /\ TypeOf(o) \in Registered
  /\ Create(o)
  /\ UNCHANGED lifeVars

CreateRequest(r) ==
  /\ PluginRuns
  /\ InPlugin
  /\ request[r] = "absent"
  /\ \E life \in {"live", "lost"} :
       /\ life = "live" => "requests" \in Registered
       /\ request' = [request EXCEPT ![r] = life]
  /\ UNCHANGED <<vars, phase>>

OtherNative(o) ==
  /\ PluginRuns
  /\ Start(o) \/ Halt(o) \/ DestroyBegin(o)
  /\ UNCHANGED lifeVars

(* The threads of the objects go on all the time. *)
Background(o) ==
  /\ ThreadExit(o) \/ \E kind \in {"message", "event"} : Post(o, kind)
  /\ UNCHANGED lifeVars

(* HttpRequest::onResponse on the worker of r. *)
Respond(r) ==
  /\ request[r] = "live"
  /\ PostResponse
  /\ request' = [request EXCEPT ![r] = "answered"]
  /\ UNCHANGED phase

(* OnGameFrame, called while it is hooked. *)
Frame ==
  /\ Loaded
  /\ FrameBegin
  /\ UNCHANGED lifeVars

(* A callback ends.  A response's then frees the handle of its request.    *)
ObjectReturn ==
  /\ InPlugin /\ stack # <<>>
  /\ Top.op = "event" => Top.who # NoOwner
  /\ CallbackReturn
  /\ UNCHANGED lifeVars

ResponseReturn(r) ==
  /\ Running("event")
  /\ Top.who = NoOwner
  /\ request[r] = "answered"
  /\ CallbackReturn
  /\ request' = [request EXCEPT ![r] = "deleted"]
  /\ UNCHANGED phase

-----------------------------------------------------------------------------
(* SDK_OnUnload *)

UnloadBegin ==
  /\ Loaded
  /\ stack = <<>>
  /\ phase' = "clients"
  /\ UNCHANGED <<vars, request>>

(* Mutant: "delete object" without the cast, no destructor runs. *)
RemoveObjectUncast(o) ==
  /\ phase = TypeOf(o)
  /\ stack = <<>>
  /\ obj[o] = "live"
  /\ obj' = [obj EXCEPT ![o] = "deleted"]
  /\ UNCHANGED <<queue, stack, count, kept, thr, nextId, done, lifeVars>>

(* RemoveType destroys the objects of the type one by one. *)
RemoveObject(o) ==
  /\ phase = TypeOf(o)
  /\ stack = <<>>
  /\ DestroyBegin(o)
  /\ UNCHANGED lifeVars

(* ~HttpRequest joins its worker, which goes on pushing until then. *)
RemoveRequest(r) ==
  /\ phase = "requests"
  /\ request[r] \in {"live", "answered"}
  /\ request' = [request EXCEPT ![r] = "deleted"]
  /\ UNCHANGED <<vars, phase>>

(* Mutant: the clients' type is removed twice, the servers' not at all. *)
RemovedClientsTwice ==
  /\ stack = <<>>
  /\ \/ /\ phase = "clients"
        /\ \A o \in Clients : obj[o] # "live"
        /\ phase' = "servers"
     \/ /\ phase = "servers"
        /\ phase' = "requests"
     \/ /\ phase = "requests"
        /\ \A r \in Requests : request[r] \notin {"live", "answered"}
        /\ phase' = "gone"
  /\ UNCHANGED <<vars, request>>

(* RemoveType returns, and the next one is called or the hook removed. *)
Removed ==
  /\ stack = <<>>
  /\ \/ /\ phase = "clients"
        /\ \A o \in Clients : obj[o] # "live"
        /\ phase' = "servers"
     \/ /\ phase = "servers"
        /\ \A o \in Servers : obj[o] # "live"
        /\ phase' = "requests"
     \/ /\ phase = "requests"
        /\ \A r \in Requests : request[r] \notin {"live", "answered"}
        /\ phase' = "gone"
  /\ UNCHANGED <<vars, request>>

-----------------------------------------------------------------------------
EngineStep == Engine /\ UNCHANGED lifeVars

Unloading ==
  \/ Removed
  \/ \E o \in Owners : RemoveObject(o)
  \/ \E r \in Requests : RemoveRequest(r)

LifeReturn == ObjectReturn \/ \E r \in Requests : ResponseReturn(r)

LifeNext ==
  \/ SDK_OnLoad
  \/ EngineStep
  \/ Frame
  \/ LifeReturn
  \/ UnloadBegin
  \/ Unloading
  \/ \E o \in Owners : CreateObject(o) \/ OtherNative(o) \/ Background(o)
  \/ \E r \in Requests : CreateRequest(r) \/ Respond(r)

LifeSpec == LifeInit /\ [][LifeNext]_allVars

(* As in TaskPump; nothing says that the extension is ever unloaded.       *)
LifeFairness ==
  /\ WF_allVars(EngineStep)
  /\ SF_allVars(Frame)
  /\ SF_allVars(LifeReturn)
  /\ WF_allVars(Unloading)
  /\ \A o \in Owners : WF_allVars(Joining(o) /\ ThreadExit(o) /\ UNCHANGED lifeVars)

FairLifeSpec == LifeSpec /\ LifeFairness

-----------------------------------------------------------------------------
LifeTypeOK ==
  /\ TypeOK
  /\ phase \in Phases
  /\ request \in [Requests -> RequestLife]

(* SDK_OnUnload (extension.cpp:73) leaves nothing that could still run the *)
(* extension's code, which is about to go, but the worker of a request     *)
(* that never got its handle (http_natives.cpp:29-33): no object, no       *)
(* thread of one, no request that plugins could call, no call in progress; *)
(* of the queue only responses are left, whose requests are gone and which *)
(* nobody will run.                                                        *)
CleanAfterUnload ==
  phase = "gone" =>
    /\ stack = <<>>
    /\ \A o \in Owners : obj[o] \in {"absent", "deleted"} /\ ~thr[o]
    /\ \A r \in Requests : request[r] \in {"absent", "deleted", "lost"}
    /\ \A t \in Pending : t.owner = NoOwner

(* A type that is removed has no objects any more, whatever the callbacks  *)
(* of the destructors that follow do (extension.cpp:75-77).                *)
RemovedForGood ==
  /\ phase \in {"servers", "requests", "gone"} =>
       \A o \in Clients : obj[o] \in {"absent", "deleted"}
  /\ phase \in {"requests", "gone"} =>
       \A o \in Servers : obj[o] \in {"absent", "deleted"}

(* An object marked as being destroyed has its destructor running. *)
DestroyingRuns ==
  \A o \in Owners : obj[o] = "destroying" =>
    \E n \in DOMAIN stack :
      stack[n].op \in {"stop", "drain", "repush"} /\ stack[n].who = o

(* No callback runs once the requests' turn has come, so that none is made *)
(* behind its back.                                                        *)
UnloadShape ==
  /\ phase \in {"out", "requests", "gone"} => stack = <<>>
  /\ phase = "gone" => \A r \in Requests : request[r] \notin {"live", "answered"}

(* The inductive invariant, which stands on the pump's own. *)
LifeInv == LifeTypeOK /\ DestroyingRuns /\ UnloadShape /\ RemovedForGood

(* Unloading comes to its end, however callbacks create further objects    *)
(* and threads push further tasks (extension.cpp:73-80).                   *)
UnloadEnds == (phase = "clients") ~> (phase = "gone")

(* Every task is run, whatever else happens, if the extension stays: the   *)
(* budget of a frame, drains and re-pushes delay it but never starve it    *)
(* (extension.cpp:23, ws_client.cpp:67-69).                                *)
PendingIsRunWhileLoaded ==
  \A id \in 1..MaxTasks : (id < nextId) ~> (id \in done \/ ~Loaded)
=============================================================================
