------------------------------ MODULE Delivery ------------------------------
(***************************************************************************)
(* What the extension promises about the events its background threads     *)
(* report: every event that was queued is handed to the plugin exactly     *)
(* once, and never after the object it belongs to has been destroyed.      *)
(* There is no queue, no game frame and no drain here; TaskPump is the     *)
(* code that is shown to implement this.                                   *)
(***************************************************************************)
CONSTANTS Owners,   \* the WebSocket and WebSocketServer objects
          NoOwner,  \* what GetOwner answers for a task of no such object
          Ids       \* the identities of events

VARIABLES pending,  \* the events reported and not yet handed over
          obj,      \* the life of each object
          done      \* the identities of the events handed over

vars == <<pending, obj, done>>

Life == {"absent", "live", "destroying", "deleted"}
Event == [id : Ids, owner : Owners \cup {NoOwner}]

(* What keeps an object's events valid: the object exists. *)
Exists(o) == o = NoOwner \/ obj[o] \in {"live", "destroying"}

Init ==
  /\ pending = {}
  /\ obj = [o \in Owners |-> "absent"]
  /\ done = {}

Create(o) ==
  /\ obj[o] = "absent"
  /\ obj' = [obj EXCEPT ![o] = "live"]
  /\ UNCHANGED <<pending, done>>

Report(e) ==
  /\ Exists(e.owner)
  /\ e.id \notin done
  /\ \A p \in pending : p.id # e.id
  /\ pending' = pending \cup {e}
  /\ UNCHANGED <<obj, done>>

HandOver(e) ==
  /\ e \in pending
  /\ Exists(e.owner)
  /\ pending' = pending \ {e}
  /\ done' = done \cup {e.id}
  /\ UNCHANGED obj

BeginDestroy(o) ==
  /\ obj[o] = "live"
  /\ obj' = [obj EXCEPT ![o] = "destroying"]
  /\ UNCHANGED <<pending, done>>

EndDestroy(o) ==
  /\ obj[o] = "destroying"
  /\ \A e \in pending : e.owner # o
  /\ obj' = [obj EXCEPT ![o] = "deleted"]
  /\ UNCHANGED <<pending, done>>

Next ==
  \/ \E o \in Owners : Create(o) \/ BeginDestroy(o) \/ EndDestroy(o)
  \/ \E e \in Event : Report(e)
  \/ \E e \in pending : HandOver(e)

Spec == Init /\ [][Next]_vars
=============================================================================
