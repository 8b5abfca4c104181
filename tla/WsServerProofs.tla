--------------------------- MODULE WsServerProofs ----------------------------
(***************************************************************************)
(* Theorems about WsServer: for any connections and messages and any       *)
(* number of destructors, m_connectionHeaders is wrong only about what was *)
(* reported while a destructor drained the queue.                          *)
(***************************************************************************)
EXTENDS WsServerInvariant, SequenceLemmas

Conns == {"absent", "connecting", "open", "ended", "gone"}

-----------------------------------------------------------------------------
(* The order of tasks in a sequence. *)

LEMMA AppendInOrder ==
  ASSUME NEW s \in Seq(Task), NEW t \in Task, InOrder(s),
         \A u \in ToSet(s) : ~MustFollow(u, t)
  PROVE  InOrder(Append(s, t))
  <1>1. /\ \A i \in 1..Len(s) : Append(s, t)[i] = s[i]
        /\ Append(s, t)[Len(s) + 1] = t
        /\ DOMAIN Append(s, t) = 1..(Len(s) + 1) /\ DOMAIN s = 1..Len(s)
        /\ Len(s) \in Nat
    BY AppendFacts
  <1>2. \A i \in DOMAIN s : s[i] \in ToSet(s)
    BY DEF ToSet
  <1>3. SUFFICES ASSUME NEW i \in 1..(Len(s) + 1), NEW j \in 1..(Len(s) + 1), i < j
                 PROVE  ~MustFollow(Append(s, t)[i], Append(s, t)[j])
    BY <1>1 DEF InOrder
  <1>4. i \in 1..Len(s)
    BY <1>1, <1>3
  <1>5. CASE j = Len(s) + 1
    BY <1>1, <1>2, <1>4, <1>5
  <1>6. CASE j # Len(s) + 1
    BY <1>1, <1>3, <1>4, <1>6 DEF InOrder
  <1> QED BY <1>5, <1>6

LEMMA TailInOrder ==
  ASSUME NEW s \in Seq(Task), s # <<>>, InOrder(s)
  PROVE  /\ InOrder(Tail(s))
         /\ \A u \in ToSet(Tail(s)) : ~MustFollow(Head(s), u)
  <1>1. /\ Len(s) \in Nat \ {0}
        /\ Head(s) = s[1]
        /\ \A i \in 1..(Len(s) - 1) : Tail(s)[i] = s[i + 1]
        /\ DOMAIN Tail(s) = 1..(Len(s) - 1) /\ DOMAIN s = 1..Len(s)
    BY TailFacts
  <1>2. \A i \in 1..(Len(s) - 1) : i + 1 \in 1..Len(s) /\ 1 < i + 1
    BY <1>1
  <1>3. InOrder(Tail(s))
    <2>1. SUFFICES ASSUME NEW i \in 1..(Len(s) - 1), NEW j \in 1..(Len(s) - 1), i < j
                   PROVE  ~MustFollow(Tail(s)[i], Tail(s)[j])
      BY <1>1 DEF InOrder
    <2>2. i + 1 < j + 1
      BY <2>1
    <2> QED BY <1>1, <1>2, <2>2 DEF InOrder
  <1>4. \A u \in ToSet(Tail(s)) : ~MustFollow(Head(s), u)
    <2>1. SUFFICES ASSUME NEW i \in 1..(Len(s) - 1)
                   PROVE  ~MustFollow(Head(s), Tail(s)[i])
      BY <1>1 DEF ToSet
    <2>2. 1 \in 1..Len(s)
      BY <1>1
    <2> QED BY <1>1, <1>2, <2>2 DEF InOrder
  <1> QED BY <1>3, <1>4

-----------------------------------------------------------------------------
(* The threads of the connections. *)

(* An event with a callback is pushed, to the end of the queue. *)
LEMMA Reported ==
  ASSUME IInv, Callbacks = Events, up \/ (\E d \in Connections : conn[d] # "absent"),
         NEW c \in Connections, NEW event \in Events, Report(c, event),
         UNCHANGED <<cb, held, game>>
  PROVE  LET t == [conn |-> c, event |-> event, late |-> Draining] IN
         /\ t \in Task
         /\ queue' \in Seq(Task)
         /\ queue' = Append(queue, t)
         /\ Pending' = Pending \cup {t}
  <1> DEFINE t == [conn |-> c, event |-> event, late |-> Draining]
  <1>1. t \in Task
    BY DEF Task, Draining
  <1>2. queue \in Seq(Task) /\ cb = Events
    BY DEF IInv, TypeOK, CallbacksSet
  <1>3. queue' = Append(queue, t)
    BY <1>2 DEF Report
  <1> HIDE DEF t
  <1>4. queue' \in Seq(Task) /\ ToSet(queue') = ToSet(queue) \cup {t}
    BY <1>1, <1>2, <1>3, AppendFacts
  <1>5. Pending' = Pending \cup {t}
    BY <1>4 DEF Pending
  <1> QED BY <1>1, <1>3, <1>4, <1>5 DEF t

(* It may follow everything that is there. *)
LEMMA ReportedInOrder ==
  ASSUME IInv, NEW t \in Task, queue' = Append(queue, t), UNCHANGED <<held, game>>,
         t.late = Draining, \A u \in Pending : ~MustFollow(u, t)
  PROVE  InOrder(queue)' /\ InOrder(held)' /\ HeldOrder'
  <1>1. queue \in Seq(Task) /\ held \in Seq(Task)
    BY DEF IInv, TypeOK
  <1>2. InOrder(queue')
    BY <1>1, AppendInOrder DEF IInv, Pending
  <1>3. ToSet(queue') = ToSet(queue) \cup {t}
    BY <1>1, AppendFacts
  <1>4. HeldOrder'
    BY <1>3 DEF IInv, HeldOrder, Pending, MustFollow, Draining
  <1> QED BY <1>2, <1>4 DEF IInv

LEMMA PendingTasks == ASSUME IInv PROVE Pending \subseteq Task
  BY DEF IInv, TypeOK, Pending, ToSet

LEMMA AcceptStep ==
  ASSUME IInv, NEW c \in Connections, Accept(c)
  PROVE  IInv'
  <1>1. Pending' = Pending
    BY DEF Accept, Pending
  <1>2. /\ conn \in [Connections -> Conns]
        /\ conn' = [conn EXCEPT ![c] = "connecting"] /\ conn[c] = "absent"
    BY DEF Accept, IInv, TypeOK, Conns
  <1>3. TypeOK' /\ GameShape' /\ CallbacksSet'
    BY <1>2 DEF Accept, IInv, TypeOK, Conns, GameShape, Draining, CallbacksSet
  <1>4. NothingYet' /\ EndsAreOver'
    BY <1>1, <1>2 DEF Accept, IInv, NothingYet, EndsAreOver
  <1>5. OpenIsKnown' /\ EndIsDue' /\ MessageIsKnown' /\ CallbackIsKnown'
    BY <1>1, <1>2
    DEF Accept, IInv, OpenIsKnown, EndIsDue, MessageIsKnown, CallbackIsKnown,
        OpenPending, EndPending
  <1>6. InOrder(queue)' /\ InOrder(held)' /\ HeldOrder'
    BY DEF Accept, IInv, HeldOrder
  <1> QED BY <1>3, <1>4, <1>5, <1>6 DEF IInv

LEMMA OnOpenStep ==
  ASSUME IInv, Callbacks = Events, NEW c \in Connections, OnOpen(c)
  PROVE  IInv'
  <1> DEFINE t == [conn |-> c, event |-> "open", late |-> Draining]
  <1>1. /\ conn \in [Connections -> Conns]
        /\ conn' = [conn EXCEPT ![c] = "open"] /\ conn[c] = "connecting"
        /\ UNCHANGED <<cb, up, got, held, headers, others, game, task, endLate>>
    BY DEF OnOpen, IInv, TypeOK, Conns
  <1>2. /\ t \in Task /\ queue' \in Seq(Task)
        /\ queue' = Append(queue, t) /\ Pending' = Pending \cup {t}
    BY <1>1, Reported DEF OnOpen, Events
  <1>3. t.conn = c /\ t.event = "open" /\ t.late = Draining
    OBVIOUS
  <1> HIDE DEF t
  <1>4. c \notin headers /\ \A u \in Pending : u.conn # c
    BY <1>1 DEF IInv, NothingYet
  <1>5. InOrder(queue)' /\ InOrder(held)' /\ HeldOrder'
    BY <1>1, <1>2, <1>3, <1>4, ReportedInOrder DEF MustFollow
  <1>6. TypeOK' /\ GameShape' /\ CallbacksSet'
    BY <1>1, <1>2 DEF IInv, TypeOK, Conns, GameShape, Draining, CallbacksSet
  <1>7. NothingYet' /\ EndsAreOver'
    BY <1>1, <1>2, <1>3 DEF IInv, NothingYet, EndsAreOver
  <1>8. OpenIsKnown' /\ EndIsDue' /\ MessageIsKnown' /\ CallbackIsKnown'
    BY <1>1, <1>2, <1>3
    DEF IInv, OpenIsKnown, EndIsDue, MessageIsKnown, CallbackIsKnown,
        OpenPending, EndPending
  <1> QED BY <1>5, <1>6, <1>7, <1>8 DEF IInv

LEMMA OnMessageStep ==
  ASSUME IInv, Callbacks = Events, NEW c \in Connections, OnMessage(c)
  PROVE  IInv'
  <1> DEFINE t == [conn |-> c, event |-> "message", late |-> Draining]
  <1>1. /\ conn[c] = "open" /\ got \in Nat /\ got < MaxMessages /\ got' = got + 1
        /\ MaxMessages \in Nat
        /\ UNCHANGED <<cb, up, conn, held, headers, others, game, task, endLate>>
    BY ServerAssumption DEF OnMessage, IInv, TypeOK
  <1>2. /\ t \in Task /\ queue' \in Seq(Task)
        /\ queue' = Append(queue, t) /\ Pending' = Pending \cup {t}
    BY <1>1, Reported DEF OnMessage, Events
  <1>3. t.conn = c /\ t.event = "message" /\ t.late = Draining
    OBVIOUS
  <1> HIDE DEF t
  <1>4. \A u \in Pending : u.event \in {"close", "error"} => u.conn # c
    BY <1>1 DEF IInv, EndsAreOver
  <1>5. \A u \in Pending : ~MustFollow(u, t)
    BY <1>3, <1>4, PendingTasks DEF MustFollow, Rank, Task, Events
  <1>6. InOrder(queue)' /\ InOrder(held)' /\ HeldOrder'
    BY <1>1, <1>2, <1>3, <1>5, ReportedInOrder
  <1>7. TypeOK' /\ GameShape' /\ CallbacksSet'
    BY <1>1, <1>2 DEF IInv, TypeOK, GameShape, Draining, CallbacksSet
  <1>8. NothingYet' /\ EndsAreOver'
    BY <1>1, <1>2, <1>3 DEF IInv, NothingYet, EndsAreOver
  <1>9. OpenIsKnown' /\ EndIsDue' /\ MessageIsKnown' /\ CallbackIsKnown'
    BY <1>1, <1>2, <1>3
    DEF IInv, OpenIsKnown, EndIsDue, MessageIsKnown, CallbackIsKnown,
        OpenPending, EndPending
  <1> QED BY <1>6, <1>7, <1>8, <1>9 DEF IInv

LEMMA OnEndStep ==
  ASSUME IInv, Callbacks = Events, NEW c \in Connections,
         NEW event \in {"close", "error"}, OnEnd(c, event)
  PROVE  IInv'
  <1> DEFINE t == [conn |-> c, event |-> event, late |-> Draining]
  <1>1. /\ conn \in [Connections -> Conns]
        /\ conn' = [conn EXCEPT ![c] = "ended"] /\ conn[c] \in {"connecting", "open"}
        /\ endLate \subseteq Connections
        /\ endLate' = IF Draining THEN endLate \cup {c} ELSE endLate
        /\ UNCHANGED <<cb, up, got, held, headers, others, game, task>>
    BY DEF OnEnd, IInv, TypeOK, Conns
  <1>2. /\ t \in Task /\ queue' \in Seq(Task)
        /\ queue' = Append(queue, t) /\ Pending' = Pending \cup {t}
    BY <1>1, Reported DEF OnEnd, Events
  <1>3. t.conn = c /\ t.event = event /\ t.late = Draining
    OBVIOUS
  <1> HIDE DEF t
  <1>4. \A u \in Pending : ~MustFollow(u, t)
    BY <1>3 DEF MustFollow, Rank
  <1>5. InOrder(queue)' /\ InOrder(held)' /\ HeldOrder'
    BY <1>1, <1>2, <1>3, <1>4, ReportedInOrder
  <1>6. TypeOK' /\ GameShape' /\ CallbacksSet'
    BY <1>1, <1>2 DEF IInv, TypeOK, Conns, GameShape, Draining, CallbacksSet
  <1>7. NothingYet' /\ EndsAreOver'
    BY <1>1, <1>2, <1>3 DEF IInv, NothingYet, EndsAreOver
  <1>8. OpenIsKnown' /\ EndIsDue' /\ MessageIsKnown' /\ CallbackIsKnown'
    BY <1>1, <1>2, <1>3
    DEF IInv, OpenIsKnown, EndIsDue, MessageIsKnown, CallbackIsKnown,
        OpenPending, EndPending
  <1> QED BY <1>5, <1>6, <1>7, <1>8 DEF IInv

LEMMA LeaveStep ==
  ASSUME IInv, NEW c \in Connections, Leave(c)
  PROVE  IInv'
  <1>1. Pending' = Pending
    BY DEF Leave, Pending
  <1>2. /\ conn \in [Connections -> Conns]
        /\ conn' = [conn EXCEPT ![c] = "gone"] /\ conn[c] \in {"ended", "connecting"}
        /\ UNCHANGED <<cb, up, got, queue, held, headers, others, game, task, endLate>>
    BY DEF Leave, IInv, TypeOK, Conns
  <1>3. TypeOK' /\ GameShape' /\ CallbacksSet'
    BY <1>2 DEF IInv, TypeOK, Conns, GameShape, Draining, CallbacksSet
  <1>4. NothingYet' /\ EndsAreOver'
    BY <1>1, <1>2 DEF IInv, NothingYet, EndsAreOver
  <1>5. OpenIsKnown' /\ MessageIsKnown' /\ CallbackIsKnown'
    BY <1>1, <1>2
    DEF IInv, OpenIsKnown, MessageIsKnown, CallbackIsKnown, OpenPending
  <1>6. EndIsDue'
    BY <1>1, <1>2 DEF IInv, EndIsDue, NothingYet, OpenPending, EndPending
  <1>7. InOrder(queue)' /\ InOrder(held)' /\ HeldOrder'
    BY <1>2 DEF IInv, HeldOrder
  <1> QED BY <1>3, <1>4, <1>5, <1>6, <1>7 DEF IInv

-----------------------------------------------------------------------------
(* The natives, and the ends of calls, change no task and no header. *)

LEMMA NativeStep ==
  ASSUME IInv,
         \/ \E event \in Events : SetCallback(event)
         \/ Start \/ Stop \/ StopEnd \/ DeleteOther \/ DrainEnd \/ CallbackReturn
  PROVE  IInv'
  <1>1. /\ UNCHANGED <<conn, got, queue, held, headers, endLate>>
        /\ Pending' = Pending
    BY DEF SetCallback, Start, Stop, StopEnd, DeleteOther, DrainEnd, CallbackReturn,
           Pending
  <1>2. task' \in {task, NoTask}
    BY DEF SetCallback, Start, Stop, StopEnd, DeleteOther, DrainEnd, CallbackReturn
  <1>3. TypeOK'
    <2>1. /\ cb' \subseteq Callbacks /\ up' \in BOOLEAN
          /\ game' \in {"idle", "callback", "stop", "drain", "repush"}
      BY DEF IInv, TypeOK, SetCallback, Start, Stop, StopEnd, DeleteOther, DrainEnd,
             CallbackReturn, Resume
    <2>2. others' \in 0..MaxOthers
      BY ServerAssumption
      DEF IInv, TypeOK, SetCallback, Start, Stop, StopEnd, DeleteOther, DrainEnd,
          CallbackReturn
    <2> QED BY <1>1, <1>2, <2>1, <2>2 DEF IInv, TypeOK
  <1>4. GameShape'
    BY <1>1
    DEF IInv, GameShape, Draining, InPlugin, SetCallback, Start, Stop, StopEnd,
        DeleteOther, DrainEnd, CallbackReturn, Resume
  <1>5. CallbacksSet'
    BY <1>1
    DEF IInv, CallbacksSet, SetCallback, Start, Stop, StopEnd, DeleteOther, DrainEnd,
        CallbackReturn
  <1>6. HeldOrder'
    <2>1. held' = <<>> \/ game' \notin {"drain", "repush"}
      BY <1>1
      DEF IInv, GameShape, Draining, InPlugin, SetCallback, Start, Stop, StopEnd,
          DeleteOther, DrainEnd, CallbackReturn, Resume
    <2> QED BY <2>1 DEF HeldOrder, ToSet
  <1>7. NothingYet' /\ EndsAreOver' /\ OpenIsKnown' /\ EndIsDue' /\ MessageIsKnown'
    BY <1>1
    DEF IInv, NothingYet, EndsAreOver, OpenIsKnown, EndIsDue, MessageIsKnown,
        OpenPending, EndPending
  <1>8. CallbackIsKnown'
    BY <1>1, <1>2 DEF IInv, CallbackIsKnown
  <1>9. InOrder(queue)' /\ InOrder(held)'
    BY <1>1 DEF IInv
  <1> QED BY <1>3, <1>4, <1>5, <1>6, <1>7, <1>8, <1>9 DEF IInv

-----------------------------------------------------------------------------
(* Drains move tasks and keep their order. *)

(* What holds of the pending tasks holds wherever they are. *)
LEMMA TasksMoved ==
  ASSUME IInv, Pending' = Pending, UNCHANGED <<cb, up, conn, headers, task, endLate>>
  PROVE  /\ CallbacksSet' /\ NothingYet' /\ EndsAreOver' /\ OpenIsKnown' /\ EndIsDue'
         /\ MessageIsKnown' /\ CallbackIsKnown'
  BY DEF IInv, CallbacksSet, NothingYet, EndsAreOver, OpenIsKnown, EndIsDue,
         MessageIsKnown, CallbackIsKnown, OpenPending, EndPending

LEMMA DrainKeepStep == ASSUME IInv, DrainKeep PROVE IInv'
  <1>1. /\ queue \in Seq(Task) /\ held \in Seq(Task) /\ queue # <<>>
        /\ queue' = Tail(queue) /\ held' = Append(held, Head(queue))
        /\ game = "drain"
        /\ UNCHANGED <<cb, up, conn, got, headers, others, game, task, endLate>>
    BY DEF DrainKeep, IInv, TypeOK
  <1>2. /\ Head(queue) \in Task /\ queue' \in Seq(Task) /\ held' \in Seq(Task)
        /\ ToSet(queue) = {Head(queue)} \cup ToSet(queue')
        /\ ToSet(held') = ToSet(held) \cup {Head(queue)}
    BY <1>1, TailFacts, AppendFacts
  <1>3. InOrder(queue') /\ \A u \in ToSet(queue') : ~MustFollow(Head(queue), u)
    BY <1>1, TailInOrder DEF IInv
  <1>4. InOrder(held')
    BY <1>1, <1>2, AppendInOrder DEF IInv, HeldOrder
  <1>5. HeldOrder'
    BY <1>1, <1>2, <1>3 DEF IInv, HeldOrder
  <1>6. Pending' = Pending
    BY <1>2 DEF Pending
  <1>7. TypeOK' /\ GameShape'
    BY <1>1, <1>2 DEF IInv, TypeOK, GameShape, Draining
  <1> QED BY <1>1, <1>3, <1>4, <1>5, <1>6, <1>7, TasksMoved DEF IInv

LEMMA DrainEmptyStep == ASSUME IInv, DrainEmpty PROVE IInv'
  <1>1. Pending' = Pending /\ ToSet(queue') = {}
    BY DEF DrainEmpty, Pending, ToSet
  <1>2. TypeOK' /\ GameShape' /\ HeldOrder'
    BY <1>1 DEF DrainEmpty, IInv, TypeOK, GameShape, Draining, HeldOrder
  <1> QED BY <1>1, <1>2, TasksMoved DEF DrainEmpty, IInv

LEMMA RepushStep == ASSUME IInv, Repush PROVE IInv'
  <1>1. /\ queue \in Seq(Task) /\ held \in Seq(Task) /\ held # <<>>
        /\ held' = Tail(held) /\ queue' = Append(queue, Head(held))
        /\ game = "repush"
        /\ UNCHANGED <<cb, up, conn, got, headers, others, game, task, endLate>>
    BY DEF Repush, IInv, TypeOK
  <1>2. /\ Head(held) \in Task /\ held' \in Seq(Task) /\ queue' \in Seq(Task)
        /\ ToSet(held) = {Head(held)} \cup ToSet(held')
        /\ ToSet(queue') = ToSet(queue) \cup {Head(held)}
    BY <1>1, TailFacts, AppendFacts
  <1>3. InOrder(held') /\ \A u \in ToSet(held') : ~MustFollow(Head(held), u)
    BY <1>1, TailInOrder DEF IInv
  <1>4. InOrder(queue')
    BY <1>1, <1>2, AppendInOrder DEF IInv, HeldOrder
  <1>5. HeldOrder'
    BY <1>1, <1>2, <1>3 DEF IInv, HeldOrder
  <1>6. Pending' = Pending
    BY <1>2 DEF Pending
  <1>7. TypeOK' /\ GameShape'
    BY <1>1, <1>2 DEF IInv, TypeOK, GameShape, Draining
  <1> QED BY <1>1, <1>3, <1>4, <1>5, <1>6, <1>7, TasksMoved DEF IInv

-----------------------------------------------------------------------------
(* A task is run: what it does to the headers fits what is still pending,  *)
(* because nothing that had to be run before it is.                        *)
LEMMA OnCompletedStep == ASSUME IInv, OnCompleted PROVE IInv'
  <1> DEFINE t == Head(queue)
  <1>1. /\ queue \in Seq(Task) /\ queue # <<>> /\ queue' = Tail(queue)
        /\ held = <<>> /\ game = "idle" /\ task = NoTask
        /\ headers' = Headers(t) /\ headers \subseteq Connections
        /\ game' \in {"idle", "callback"}
        /\ \/ task' = t /\ game' = "callback"
           \/ task' = NoTask /\ game' = "idle"
        /\ UNCHANGED <<cb, up, conn, got, held, others, endLate>>
    BY DEF OnCompleted, IInv, TypeOK, GameShape, Draining
  <1>2. /\ t \in Task /\ queue' \in Seq(Task)
        /\ ToSet(queue) = {t} \cup ToSet(queue')
    BY <1>1, TailFacts
  <1>3. Pending = {t} \cup Pending'
    BY <1>1, <1>2 DEF Pending
  <1>4. InOrder(queue') /\ \A u \in Pending' : ~MustFollow(t, u)
    <2>1. ToSet(held) = {}
      BY <1>1 DEF ToSet
    <2> QED BY <1>1, <2>1, TailInOrder DEF IInv, Pending
  <1>5. t.conn \in Connections /\ t.event \in Events /\ t.late \in BOOLEAN
    BY <1>2 DEF Task
  <1>6. \A u \in Pending' : u.conn \in Connections /\ u.event \in Events
    BY <1>3, PendingTasks DEF Task
  <1> HIDE DEF t
  <1>7. /\ t.event = "open" => headers' = headers \cup {t.conn}
        /\ t.event = "message" => headers' = headers
        /\ t.event \in {"close", "error"} => headers' = headers \ {t.conn}
    BY <1>1 DEF Headers
  <1>8. TypeOK' /\ GameShape' /\ CallbacksSet'
    BY <1>1, <1>2, <1>5, <1>7
    DEF IInv, TypeOK, GameShape, Draining, CallbacksSet, Events
  <1>9. HeldOrder' /\ InOrder(queue)' /\ InOrder(held)'
    BY <1>1, <1>4 DEF IInv, HeldOrder
  <1>10. NothingYet' /\ EndsAreOver'
    BY <1>1, <1>3, <1>5, <1>7 DEF IInv, NothingYet, EndsAreOver, Events
  (* An end that was reported in time is the last task of its connection.  *)
  <1>11. t.event \in {"close", "error"} =>
           \/ t.conn \in endLate
           \/ \A u \in Pending' : u.conn = t.conn => u.event \in {"close", "error"}
    BY <1>3, <1>4, <1>5, <1>6 DEF IInv, EndsAreOver, MustFollow, Rank, Events
  (* A message that was reported in time comes after the opening.          *)
  <1>12. t.event = "message" /\ ~t.late =>
           \A u \in Pending' : u.conn = t.conn => u.event # "open"
    BY <1>4, <1>5, <1>6 DEF MustFollow, Rank
  <1>13. OpenIsKnown'
    <2>1. SUFFICES ASSUME NEW c \in Connections, conn[c] = "open"
                   PROVE  c \in headers' \/ \E u \in Pending' : u.conn = c /\ u.event = "open"
      BY <1>1 DEF OpenIsKnown, OpenPending
    <2>2. c \in headers \/ \E u \in {t} \cup Pending' : u.conn = c /\ u.event = "open"
      BY <1>3, <2>1 DEF IInv, OpenIsKnown, OpenPending
    <2>3. t.event \in {"close", "error"} => t.conn # c
      BY <1>3, <2>1 DEF IInv, EndsAreOver
    <2> QED BY <1>5, <1>7, <2>2, <2>3 DEF Events
  <1>14. EndIsDue'
    <2>1. SUFFICES ASSUME NEW c \in Connections, conn[c] \in {"ended", "gone"},
                          c \in headers' \/ (\E u \in Pending' : u.conn = c /\ u.event = "open"),
                          c \notin endLate
                   PROVE  \E u \in Pending' : u.conn = c /\ u.event \in {"close", "error"}
      BY <1>1 DEF EndIsDue, OpenPending, EndPending
    <2>2. c \in headers \/ \E u \in Pending : u.conn = c /\ u.event = "open"
      BY <1>3, <1>5, <1>7, <2>1 DEF Events
    <2>3. \E u \in {t} \cup Pending' : u.conn = c /\ u.event \in {"close", "error"}
      BY <1>3, <2>1, <2>2 DEF IInv, EndIsDue, OpenPending, EndPending
    <2>4. ~(t.conn = c /\ t.event \in {"close", "error"})
      BY <1>7, <1>11, <2>1
    <2> QED BY <2>3, <2>4
  <1>15. MessageIsKnown'
    <2>1. SUFFICES ASSUME NEW m \in Pending', m.event = "message", ~m.late,
                          m.conn \notin endLate
                   PROVE  m.conn \in headers'
                            \/ \E u \in Pending' : u.conn = m.conn /\ u.event = "open"
      BY <1>1 DEF MessageIsKnown, OpenPending
    <2>2. m.conn \in headers
            \/ \E u \in {t} \cup Pending' : u.conn = m.conn /\ u.event = "open"
      BY <1>3, <2>1 DEF IInv, MessageIsKnown, OpenPending
    <2>3. t.event \in {"close", "error"} => t.conn # m.conn
      BY <1>11, <2>1
    <2> QED BY <1>5, <1>7, <2>2, <2>3 DEF Events
  <1>16. CallbackIsKnown'
    <2>1. SUFFICES ASSUME task' = t, t.event = "message", ~t.late, t.conn \notin endLate
                   PROVE  t.conn \in headers'
      BY <1>1 DEF CallbackIsKnown
    <2>2. t.conn \in headers \/ \E u \in Pending : u.conn = t.conn /\ u.event = "open"
      BY <1>3, <2>1 DEF IInv, MessageIsKnown, OpenPending
    <2> QED BY <1>3, <1>7, <1>12, <2>1, <2>2
  <1> QED
    BY <1>8, <1>9, <1>10, <1>13, <1>14, <1>15, <1>16 DEF IInv

-----------------------------------------------------------------------------
LEMMA InitIInv == Init => IInv
  <1> SUFFICES ASSUME Init PROVE IInv
    OBVIOUS
  <1>1. Pending = {} /\ queue = <<>> /\ held = <<>>
    BY DEF Init, Pending, ToSet
  <1>2. others \in 0..MaxOthers /\ got \in 0..MaxMessages
    BY ServerAssumption DEF Init
  <1>3. TypeOK
    <2>1. conn \in [Connections -> {"absent", "connecting", "open", "ended", "gone"}]
      BY DEF Init
    <2>2. queue \in Seq(Task) /\ held \in Seq(Task)
      BY <1>1
    <2> QED BY <1>2, <2>1, <2>2 DEF Init, TypeOK
  <1>4. GameShape /\ CallbacksSet
    BY DEF Init, GameShape, Draining, CallbacksSet
  <1>5. InOrder(queue) /\ InOrder(held) /\ HeldOrder
    BY <1>1 DEF Init, InOrder, HeldOrder
  <1>6. /\ NothingYet /\ EndsAreOver /\ OpenIsKnown /\ EndIsDue
        /\ MessageIsKnown /\ CallbackIsKnown
    BY <1>1
    DEF Init, NothingYet, EndsAreOver, OpenIsKnown, EndIsDue, MessageIsKnown,
        CallbackIsKnown, OpenPending, EndPending
  <1> QED BY <1>3, <1>4, <1>5, <1>6 DEF IInv

LEMMA NextIInv ==
  ASSUME IInv, Callbacks = Events, [Next]_vars
  PROVE  IInv'
  <1>1. CASE UNCHANGED vars
    <2>1. UNCHANGED <<held, queue, game, got, others>> /\ Pending' = Pending
      BY <1>1 DEF vars, Pending
    <2> QED
      BY <1>1, <2>1, TasksMoved
      DEF vars, IInv, TypeOK, GameShape, Draining, HeldOrder
  <1>2. CASE Next
    BY <1>2, AcceptStep, OnOpenStep, OnMessageStep, OnEndStep, LeaveStep, NativeStep,
       DrainKeepStep, DrainEmptyStep, RepushStep, OnCompletedStep
    DEF Next, Engine, Thread
  <1> QED BY <1>1, <1>2

(* The inductive invariant: tasks of a connection are run in the order in  *)
(* which it reported them, but for those pushed during a drain             *)
(* (ws_client.cpp:58-69), and m_connectionHeaders fits what is pending     *)
(* (ws_server.cpp:198-243).                                                *)
THEOREM Invariance == ASSUME Callbacks = Events PROVE Spec => []IInv
  <1>1. IInv /\ [Next]_vars => IInv'
    BY NextIInv
  <1> QED BY <1>1, InitIInv, PTL DEF Spec

(* What natives, threads and tasks write stays in range.                   *)
THEOREM TypeCorrect == ASSUME Callbacks = Events PROVE Spec => []TypeOK
  <1>1. IInv => TypeOK
    BY DEF IInv
  <1> QED BY <1>1, Invariance, PTL

(* Headers are left behind for ever only of a connection whose end was     *)
(* reported during a drain (ws_server.cpp:216, 234).                       *)
THEOREM LeaksNeedDrains == ASSUME Callbacks = Events PROVE Spec => []LeakNeedsDrain
  <1>1. IInv => LeakNeedsDrain
    BY DEF IInv, TypeOK, EndIsDue, EndPending, LeakNeedsDrain
  <1> QED BY <1>1, Invariance, PTL

(* A message callback finds no headers only if its message or the          *)
(* connection's end was reported during a drain (ws_server.cpp:182).       *)
THEOREM BlindnessNeedsDrains == ASSUME Callbacks = Events PROVE Spec => []BlindNeedsDrain
  <1>1. IInv => BlindNeedsDrain
    BY DEF IInv, CallbackIsKnown, BlindNeedsDrain, Blind, NoTask
  <1> QED BY <1>1, Invariance, PTL
=============================================================================
