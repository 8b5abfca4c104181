------------------------- MODULE TaskPumpInvariant --------------------------
(***************************************************************************)
(* Why TaskPump keeps its promises when no callback of a drain destroys a  *)
(* further object: the inductive invariants the proofs rest on.            *)
(***************************************************************************)
EXTENDS TaskPump

(* A join, a re-push and a wrapper's destructor run no plugin code, so     *)
(* nothing is called from inside them; the drain of an object calls its    *)
(* callbacks, which end at most in a join or in a wrapper's drain.         *)
CallShape ==
  \A i, j \in DOMAIN stack : i < j =>
    /\ stack[i].op \notin {"halt", "stop", "repush"}
    /\ stack[i].who # Wrapper
    /\ stack[i].op = "drain" =>
         stack[j].op \in {"event", "message", "halt"} \/ stack[j].who = Wrapper

(* An object being destroyed is marked so, and after the join it is mute.  *)
DestructorCalls ==
  \A i \in DOMAIN stack :
    (stack[i].op \in {"stop", "drain", "repush"} /\ stack[i].who \in Owners) =>
      /\ obj[stack[i].who] = "destroying"
      /\ stack[i].op # "stop" => ~thr[stack[i].who]

(* Only objects that exist have threads. *)
ThreadsOwned == \A o \in Owners : thr[o] => obj[o] \in {"live", "destroying"}

DrainOf(d) ==
  \E i \in DOMAIN stack : stack[i].op \in {"drain", "repush"} /\ stack[i].who = d

(* other_tasks is empty but inside its destructor, and holds no own task.  *)
KeptInDrain == \A d \in Drainers : kept[d] # <<>> => DrainOf(d)
KeptForOthers == \A d \in Drainers : \A t \in ToSet(kept[d]) : t.owner # d

(* Once the drain has found the queue empty, no own task comes back.       *)
Drained ==
  \A i \in DOMAIN stack : stack[i].op = "repush" =>
    \A t \in ToSet(queue) : t.owner # stack[i].who

(* Of two tasks, the first in the list is the older one or was pushed late.*)
Before(t, u) == t.id > u.id => t.late
InOrder(s) == \A i, j \in DOMAIN s : i < j => Before(s[i], s[j])
AllBefore(s, r) == \A t \in ToSet(s), u \in ToSet(r) : Before(t, u)

(* A drain takes tasks from the head of the queue, so what it keeps goes   *)
(* before what is left; a re-push appends, so it goes after what is there. *)
QueueOrder ==
  /\ InOrder(queue)
  /\ \A d \in Drainers : InOrder(kept[d])
  /\ \A i \in DOMAIN stack :
       /\ stack[i].op = "drain" =>
            /\ AllBefore(kept[stack[i].who], queue)
            /\ stack[i].who # Wrapper =>
                 AllBefore(kept[stack[i].who], kept[Wrapper])
       /\ stack[i].op = "repush" => AllBefore(queue, kept[stack[i].who])

(* Through frames, drains and re-pushes (extension.cpp:19-34,              *)
(* ws_client.cpp:47-75) tasks have an owner, are somewhere once and keep   *)
(* their order but for those pushed late.                                  *)
IInv ==
  /\ TypeOK
  /\ CallShape
  /\ DestructorCalls
  /\ ThreadsOwned
  /\ KeptInDrain
  /\ KeptForOthers
  /\ Drained
  /\ NoStaleTask
  /\ TaskConservation
  /\ QueueOrder
=============================================================================
