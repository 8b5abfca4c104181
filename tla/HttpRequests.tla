---------------------------- MODULE HttpRequests ----------------------------
(***************************************************************************)
(* The HttpRequest objects (http_request.cpp) and the natives that drive   *)
(* them (http_natives.cpp).  Each object has a worker thread of its own    *)
(* (ix::HttpClient, external), which performs the calls queued on it one   *)
(* after the other and reports each response from that thread.             *)
(*                                                                         *)
(* All calls made on one object share one pResponseForward and one         *)
(* m_responseHeaders, and the first response frees the object.  They share *)
(* m_request as well; what is in it is in Options.                         *)
(***************************************************************************)
EXTENDS Naturals, Sequences, SequencesExt

CONSTANTS
  Requests,       \* the HttpRequest objects plugins create
  MaxCalls,       \* bound: Get, PostJson, PutJson, PatchJson, PostForm, Delete
  Reuse,          \* whether a plugin makes a second call on an object
  DeleteInFlight  \* whether a plugin deletes an object it has made a call on

ASSUME HttpAssumption ==
  /\ MaxCalls \in Nat
  /\ Reuse \in BOOLEAN
  /\ DeleteInFlight \in BOOLEAN

VARIABLES
  obj,       \* the life of each object and of its handle
  fwd,       \* pResponseForward: the call it was created for, 0 for nullptr
  forwards,  \* the life of each call's forward
  jobs,      \* the calls queued in m_httpclient
  worker,    \* what the thread of m_httpclient is doing, for which call
  headers,   \* m_responseHeaders: the call whose response they are from
  queue,     \* the response tasks in g_TaskQueue
  game,      \* the game thread's calls in progress, the innermost last
  calls,     \* the object of each call made so far
  answers    \* which call's forward was given which response

vars == <<obj, fwd, forwards, jobs, worker, headers, queue, game, calls, answers>>

Life == {"absent", "live", "destroying", "deleted"}

Calls == 1..Len(calls)
CallsOn(r) == {c \in Calls : calls[c] = r}

Running(op) == game # <<>> /\ Last(game).op = op
Top == Last(game)
Enter(op, r, c) == game' = Append(game, [op |-> op, req |-> r, call |-> c])
Return == game' = Front(game)
InPlugin == game = <<>> \/ Running("callback")

Init ==
  /\ obj = [r \in Requests |-> "absent"]
  /\ fwd = [r \in Requests |-> 0]
  /\ forwards = <<>>
  /\ jobs = [r \in Requests |-> <<>>]
  /\ worker = [r \in Requests |-> [at |-> "idle", call |-> 0]]
  /\ headers = [r \in Requests |-> 0]
  /\ queue = <<>>
  /\ game = <<>>
  /\ calls = <<>>
  /\ answers = {}

-----------------------------------------------------------------------------
(* Natives. *)

Create(r) ==
  /\ InPlugin
  /\ obj[r] = "absent"
  /\ obj' = [obj EXCEPT ![r] = "live"]
  /\ UNCHANGED <<fwd, forwards, jobs, worker, headers, queue, game, calls, answers>>

(* GetResponseHeader finds the header under the lock and returns a          *)
(* reference to it, to an empty string for 0...                            *)
ReadHeader(r) ==
  /\ InPlugin
  /\ obj[r] = "live"
  /\ Enter("read", r, headers[r])
  /\ UNCHANGED <<obj, fwd, forwards, jobs, worker, headers, queue, calls, answers>>

(* ... which the native copies to the plugin once the lock is released.    *)
ReadHeaderEnd ==
  /\ Running("read")
  /\ Return
  /\ UNCHANGED <<obj, fwd, forwards, jobs, worker, headers, queue, calls, answers>>

ReleaseForward(r) ==
  forwards' = [c \in Calls |-> IF c = fwd[r] THEN "released" ELSE forwards[c]]

(* The first half of every verb native: an old forward is released, and    *)
(* pResponseForward still points at it.                                    *)
CallBegin(r) ==
  /\ InPlugin
  /\ obj[r] = "live"
  /\ Len(calls) < MaxCalls
  /\ Reuse \/ CallsOn(r) = {}
  /\ LET c == Len(calls) + 1
     IN /\ calls' = Append(calls, r)
        /\ forwards' = Append([d \in Calls |-> IF d = fwd[r] THEN "released"
                                               ELSE forwards[d]], "none")
        /\ Enter("call", r, c)
  /\ UNCHANGED <<obj, fwd, jobs, worker, headers, queue, answers>>

(* Mutant: one forward for all objects. *)
CallPerformShared ==
  /\ Running("call")
  /\ LET r == Top.req
         c == Top.call
     IN /\ fwd' = [q \in Requests |-> c]
        /\ forwards' = [forwards EXCEPT ![c] = "bound"]
        /\ jobs' = [jobs EXCEPT ![r] = Append(@, c)]
  /\ Return
  /\ UNCHANGED <<obj, worker, headers, queue, calls, answers>>

(* The second half: a new forward, and performRequest with one of the six  *)
(* verbs, which queues the call for the worker.                            *)
CallPerform ==
  /\ Running("call")
  /\ LET r == Top.req
         c == Top.call
     IN /\ fwd' = [fwd EXCEPT ![r] = c]
        /\ forwards' = [forwards EXCEPT ![c] = "bound"]
        /\ jobs' = [jobs EXCEPT ![r] = Append(@, c)]
  /\ Return
  /\ UNCHANGED <<obj, worker, headers, queue, calls, answers>>

(* The native reports an error and returns: no forward could be created,   *)
(* or the callback is not a function of the plugin and an empty forward    *)
(* stays behind.                                                           *)
CallReject ==
  /\ Running("call")
  /\ \/ /\ fwd' = [fwd EXCEPT ![Top.req] = 0]
        /\ UNCHANGED forwards
     \/ /\ fwd' = [fwd EXCEPT ![Top.req] = Top.call]
        /\ forwards' = [forwards EXCEPT ![Top.call] = "empty"]
  /\ Return
  /\ UNCHANGED <<obj, jobs, worker, headers, queue, calls, answers>>

(* "delete request" in a plugin: the handle's object is destroyed. *)
DeleteHandle(r) ==
  /\ InPlugin
  /\ obj[r] = "live"
  /\ DeleteInFlight \/ CallsOn(r) = {}
  /\ obj' = [obj EXCEPT ![r] = "destroying"]
  /\ ReleaseForward(r)
  /\ Enter("destroy", r, 0)
  /\ UNCHANGED <<fwd, jobs, worker, headers, queue, calls, answers>>

(* ~HttpRequest, whose last member to go is m_httpclient: its destructor   *)
(* waits for the worker, and calls not taken yet are forgotten.            *)
DestroyEnd ==
  /\ Running("destroy")
  /\ worker[Top.req].at = "idle"
  /\ obj' = [obj EXCEPT ![Top.req] = "deleted"]
  /\ jobs' = [jobs EXCEPT ![Top.req] = <<>>]
  /\ Return
  /\ UNCHANGED <<fwd, forwards, worker, headers, queue, calls, answers>>

-----------------------------------------------------------------------------
(* The worker thread of ix::HttpClient. *)

(* Mutant: the call stays queued and is performed again. *)
WorkerTakeAgain(r) ==
  /\ worker[r].at = "idle"
  /\ jobs[r] # <<>>
  /\ worker' = [worker EXCEPT ![r] = [at |-> "performing", call |-> Head(jobs[r])]]
  /\ UNCHANGED <<obj, fwd, forwards, jobs, headers, queue, game, calls, answers>>

(* A call is taken, and its request goes out. *)
WorkerTake(r) ==
  /\ worker[r].at = "idle"
  /\ jobs[r] # <<>>
  /\ worker' = [worker EXCEPT ![r] = [at |-> "performing", call |-> Head(jobs[r])]]
  /\ jobs' = [jobs EXCEPT ![r] = Tail(@)]
  /\ UNCHANGED <<obj, fwd, forwards, headers, queue, game, calls, answers>>

(* A response, or a response that carries an error, always comes. *)
WorkerAnswered(r) ==
  /\ worker[r].at = "performing"
  /\ worker' = [worker EXCEPT ![r].at = "answering"]
  /\ UNCHANGED <<obj, fwd, forwards, jobs, headers, queue, game, calls, answers>>

(* Mutant: the test of the forward inverted, its response is dropped. *)
WorkerCheckInverted(r) ==
  /\ worker[r].at = "answering"
  /\ worker' = [worker EXCEPT ![r] = [at |-> "idle", call |-> 0]]
  /\ UNCHANGED <<obj, fwd, forwards, jobs, headers, queue, game, calls, answers>>

(* onResponse looks at the forward.  A forward that was released is memory *)
(* of another use by now: the test may go either way.                      *)
WorkerCheck(r) ==
  /\ worker[r].at = "answering"
  /\ \E go \in BOOLEAN :
       /\ fwd[r] = 0 => ~go
       /\ fwd[r] # 0 /\ forwards[fwd[r]] = "bound" => go
       /\ fwd[r] # 0 /\ forwards[fwd[r]] = "empty" => ~go
       /\ worker' = [worker EXCEPT ![r] = IF go THEN [@ EXCEPT !.at = "recording"]
                                          ELSE [at |-> "idle", call |-> 0]]
  /\ UNCHANGED <<obj, fwd, forwards, jobs, headers, queue, game, calls, answers>>

(* Mutant: the test of the response inverted, its headers are not kept. *)
WorkerRecordNoHeaders(r) ==
  /\ worker[r].at = "recording"
  /\ queue' = Append(queue, [req |-> r, call |-> worker[r].call])
  /\ worker' = [worker EXCEPT ![r] = [at |-> "idle", call |-> 0]]
  /\ UNCHANGED <<obj, fwd, forwards, headers, jobs, game, calls, answers>>

(* The rest of onResponse: the headers are kept and the task is pushed. *)
WorkerRecord(r) ==
  /\ worker[r].at = "recording"
  /\ headers' = [headers EXCEPT ![r] = worker[r].call]
  /\ queue' = Append(queue, [req |-> r, call |-> worker[r].call])
  /\ worker' = [worker EXCEPT ![r] = [at |-> "idle", call |-> 0]]
  /\ UNCHANGED <<obj, fwd, forwards, jobs, game, calls, answers>>

-----------------------------------------------------------------------------
(* The game frame. *)

(* Mutant: the handle is freed before the callback runs. *)
OnCompletedFreed ==
  /\ game = <<>>
  /\ queue # <<>>
  /\ obj[Head(queue).req] # "deleted"
  /\ obj' = [obj EXCEPT ![Head(queue).req] = "deleted"]
  /\ queue' = Tail(queue)
  /\ answers' = answers \cup {[call |-> Head(queue).call,
                               callback |-> fwd[Head(queue).req]]}
  /\ Enter("callback", Head(queue).req, Head(queue).call)
  /\ UNCHANGED <<fwd, forwards, jobs, worker, headers, calls>>

(* The response goes to the forward the object has by now, if it has one.  *)
(* A response task whose object is gone is not run here: what would happen *)
(* is undefined, and RequestOutlivesAnswer is already false.               *)
OnCompleted ==
  /\ game = <<>>
  /\ queue # <<>>
  /\ obj[Head(queue).req] # "deleted"
  /\ queue' = Tail(queue)
  /\ answers' = answers \cup {[call |-> Head(queue).call,
                               callback |-> fwd[Head(queue).req]]}
  /\ Enter("callback", Head(queue).req, Head(queue).call)
  /\ UNCHANGED <<obj, fwd, forwards, jobs, worker, headers, calls>>

(* Mutant: the handle is left to the plugin. *)
KeepHandle ==
  /\ Running("callback")
  /\ Return
  /\ UNCHANGED <<obj, fwd, forwards, jobs, worker, headers, queue, calls, answers>>

(* Execute returned: the task frees the handle of its object. *)
FreeHandle ==
  /\ Running("callback")
  /\ obj[Top.req] = "live"
  /\ obj' = [obj EXCEPT ![Top.req] = "destroying"]
  /\ ReleaseForward(Top.req)
  /\ game' = [game EXCEPT ![Len(game)] =
                [op |-> "destroy", req |-> Top.req, call |-> 0]]
  /\ UNCHANGED <<fwd, jobs, worker, headers, queue, calls, answers>>

-----------------------------------------------------------------------------
Worker(r) == WorkerTake(r) \/ WorkerAnswered(r) \/ WorkerCheck(r) \/ WorkerRecord(r)

CallEnd == CallPerform \/ CallReject

Next ==
  \/ CallEnd
  \/ ReadHeaderEnd
  \/ DestroyEnd
  \/ OnCompleted
  \/ FreeHandle
  \/ \E r \in Requests :
       \/ Create(r) \/ ReadHeader(r) \/ DeleteHandle(r)
       \/ CallBegin(r) \/ Worker(r)

Spec == Init /\ [][Next]_vars

(* Frames go on, natives and callbacks return, threads are scheduled.      *)
(* Strong fairness where plugin code may come first.                       *)
Fairness ==
  /\ WF_vars(CallEnd)
  /\ WF_vars(ReadHeaderEnd)
  /\ WF_vars(DestroyEnd)
  /\ SF_vars(OnCompleted)
  /\ SF_vars(FreeHandle)
  /\ \A r \in Requests : WF_vars(Worker(r))

FairSpec == Spec /\ Fairness

-----------------------------------------------------------------------------
TypeOK ==
  /\ obj \in [Requests -> Life]
  /\ fwd \in [Requests -> 0..MaxCalls]
  /\ calls \in Seq(Requests)
  /\ Len(calls) <= MaxCalls
  /\ forwards \in [Calls -> {"none", "bound", "empty", "released"}]
  /\ jobs \in [Requests -> Seq(Calls)]
  /\ worker \in [Requests ->
       [at : {"idle", "performing", "answering", "recording"}, call : 0..MaxCalls]]
  /\ headers \in [Requests -> 0..MaxCalls]
  /\ queue \in Seq([req : Requests, call : Calls])
  /\ game \in Seq([op : {"call", "read", "callback", "destroy"}, req : Requests,
                   call : 0..MaxCalls])
  /\ answers \subseteq [call : Calls, callback : 0..MaxCalls]

(* "Function to call when an HTTP response is received" (http.inc:29),     *)
(* with the "HTTP request object" as its first parameter (http.inc:7): a   *)
(* response waiting to be run, or being run, has its object.               *)
RequestOutlivesAnswer ==
  /\ \A t \in ToSet(queue) : obj[t.req] # "deleted"
  /\ \A f \in ToSet(game) : f.op = "callback" => obj[f.req] # "deleted"

(* onResponse reads pResponseForward on the worker thread, at              *)
(* http_request.cpp:98, while the game thread releases and replaces it, at *)
(* http_natives.cpp:45: the worker never looks at a released forward.      *)
WorkerSeesForward ==
  \A r \in Requests :
    (worker[r].at = "answering" /\ fwd[r] # 0) => forwards[fwd[r]] # "released"

(* "Get a response header from the HTTP request" (http.inc:107): what a    *)
(* callback reads are the headers of the response it was called with, and  *)
(* those a native holds a reference into (http_request.cpp:217) are not    *)
(* replaced before it has copied what it found (http_natives.cpp:263).     *)
HeadersOfAnswer ==
  /\ \A f \in ToSet(game) : f.op = "callback" => headers[f.req] = f.call
  /\ \A f \in ToSet(game) : f.op = "read" /\ f.call # 0 => headers[f.req] = f.call

(* "Function to call when an HTTP response is received" (http.inc:29): the *)
(* function passed with a call is the one called with its response.        *)
AnswerToOwnCallback == \A a \in answers : a.callback = a.call

Performed(c) == c \in Calls /\ c \in ToSet(jobs[calls[c]])
Answered(c) == [call |-> c, callback |-> c] \in answers

(* A call that performRequest accepted has its response handed over, and   *)
(* its object is freed afterwards without the plugin's doing.              *)
EveryCallAnswered ==
  \A c \in 1..MaxCalls :
    Performed(c) ~> (Answered(c) /\ obj[calls[c]] = "deleted")
=============================================================================
