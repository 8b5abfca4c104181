---------------------------- MODULE HttpInvariant ----------------------------
(***************************************************************************)
(* Why HttpRequests keeps its promises to a plugin that makes one call on  *)
(* an object and leaves it alone: the inductive invariant.                 *)
(***************************************************************************)
EXTENDS HttpRequests

(* The game thread is in a callback, which the frame runs, and in a native *)
(* or destructor that plugin code or the frame called.                     *)
NoFrame == [op |-> "none"]
Outer == IF game # <<>> /\ game[1].op = "callback" THEN game[1] ELSE NoFrame
Inner == IF game # <<>> /\ Top.op # "callback" THEN Top ELSE NoFrame

GameShape ==
  /\ Len(game) <= 2
  /\ Len(game) = 2 => game[1].op = "callback" /\ game[2].op # "callback"

(* Where the call made on an object is. *)
Calling == {r \in Requests : Inner.op = "call" /\ Inner.req = r}
Queued == {r \in Requests : jobs[r] # <<>>}
Working == {r \in Requests : worker[r].at # "idle"}
Responded == {t.req : t \in ToSet(queue)}
Called == {r \in Requests : Outer.op = "callback" /\ Outer.req = r}

(* It is in one place at a time, once, and the object is there until it    *)
(* has been through all of them.                                           *)
OnePlace ==
  /\ Calling \cap (Queued \cup Working \cup Responded \cup Called) = {}
  /\ Queued \cap (Working \cup Responded \cup Called) = {}
  /\ Working \cap (Responded \cup Called) = {}
  /\ Responded \cap Called = {}
Once ==
  /\ \A r \in Requests : Len(jobs[r]) <= 1
  /\ \A i, j \in DOMAIN queue : queue[i].req = queue[j].req => i = j
Alive ==
  /\ \A r \in Calling \cup Queued \cup Working \cup Responded \cup Called :
       obj[r] = "live"
  /\ Inner.op = "destroy" => obj[Inner.req] = "destroying"

(* There is one call on an object, and what an object has is of it. *)
OneCall == \A c, d \in Calls : calls[c] = calls[d] => c = d
Of(r, c) == c \in Calls /\ calls[c] = r
FramesOwn ==
  /\ Inner.op = "call" => Of(Inner.req, Inner.call)
  /\ Outer.op = "callback" => Of(Outer.req, Outer.call)
JobsOwn == \A r \in Requests : \A c \in ToSet(jobs[r]) : Of(r, c)
WorkersOwn == \A r \in Working : Of(r, worker[r].call)
AnswersOwn == \A t \in ToSet(queue) : Of(t.req, t.call)
FieldsOwn ==
  /\ \A r \in Requests : fwd[r] # 0 => Of(r, fwd[r])
  /\ \A r \in Requests : headers[r] # 0 => Of(r, headers[r])

(* While the call is queued or performed, its forward can be tested, and   *)
(* it is there until the response is handed over.                          *)
ForwardBound ==
  /\ \A r \in Queued \cup Working \cup Responded : fwd[r] # 0
  /\ \A r \in Queued \cup Working : forwards[fwd[r]] = "bound"

(* Headers come with the response, and then stay. *)
HeadersKept ==
  /\ \A r \in Calling \cup Queued \cup Working : headers[r] = 0
  /\ \A t \in ToSet(queue) : headers[t.req] = t.call
  /\ Outer.op = "callback" => headers[Outer.req] = Outer.call
  /\ Inner.op = "read" /\ Inner.call # 0 => headers[Inner.req] = Inner.call

CallInv ==
  /\ TypeOK
  /\ GameShape
  /\ OnePlace /\ Once /\ Alive
  /\ OneCall
  /\ FramesOwn /\ JobsOwn /\ WorkersOwn /\ AnswersOwn /\ FieldsOwn
  /\ ForwardBound /\ HeadersKept
  /\ AnswerToOwnCallback

(* An object whose call was answered has none to come. *)
Handed == {a.call : a \in answers}
Busy == Calling \cup Queued \cup Working \cup Responded
AnsweredOver == \A c \in Handed : calls[c] \notin Busy

(* From the native to the callback (http_natives.cpp:38-211,               *)
(* http_request.cpp:96-124) a call is in one place at a time with an       *)
(* object, a forward and headers of its own, and afterwards in none.       *)
IInv == CallInv /\ AnsweredOver

-----------------------------------------------------------------------------
(* A call that performRequest accepted is in m_httpclient, with its thread *)
(* or in g_TaskQueue until its response is handed over.                    *)
InHand(c, r) ==
  \/ c \in ToSet(jobs[r])
  \/ worker[r].at # "idle" /\ worker[r].call = c
  \/ [req |-> r, call |-> c] \in ToSet(queue)

Pending == {e \in [id : 1..MaxCalls, owner : Requests] : InHand(e.id, e.owner)}

Promise == INSTANCE Delivery WITH
             Owners <- Requests, NoOwner <- "none", Ids <- 1..MaxCalls,
             pending <- Pending, done <- Handed

(* What Delivery promises holds of calls and responses: every call         *)
(* accepted is in hand until its response is handed over once, whichever   *)
(* test of the forward comes in between (http_request.cpp:98), and the     *)
(* destructor never finds one to forget (http_request.cpp:13).             *)
DeliversAnswers == Promise!Spec
=============================================================================
