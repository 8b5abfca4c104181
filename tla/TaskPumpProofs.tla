--------------------------- MODULE TaskPumpProofs ---------------------------
(***************************************************************************)
(* Theorems about TaskPump, for every set of clients and servers, every    *)
(* budget of a frame and every number of tasks.                            *)
(***************************************************************************)
EXTENDS TaskPumpInvariant, SequenceLemmas

-----------------------------------------------------------------------------
(* What a call entered, replaced or left does to the stack. *)

LEMMA EnterFacts ==
  ASSUME stack \in Seq(Call), NEW op, NEW who,
         [op |-> op, who |-> who] \in Call, Enter(op, who)
  PROVE  /\ stack' \in Seq(Call)
         /\ Len(stack') = Len(stack) + 1
         /\ \A i \in 1..Len(stack) : stack'[i] = stack[i]
         /\ stack'[Len(stack) + 1] = [op |-> op, who |-> who]
  BY AppendFacts DEF Enter

LEMMA BecomeFacts ==
  ASSUME stack \in Seq(Call), stack # <<>>, NEW op, NEW who,
         [op |-> op, who |-> who] \in Call, Become(op, who)
  PROVE  /\ stack' \in Seq(Call)
         /\ Len(stack') = Len(stack)
         /\ Len(stack) \in Nat \ {0}
         /\ \A i \in 1..(Len(stack) - 1) : stack'[i] = stack[i]
         /\ stack'[Len(stack)] = [op |-> op, who |-> who]
  BY ExceptLastFacts, FrontFacts DEF Become

LEMMA ReturnFacts ==
  ASSUME stack \in Seq(Call), stack # <<>>, Return
  PROVE  /\ stack' \in Seq(Call)
         /\ Len(stack) \in Nat \ {0}
         /\ Len(stack') = Len(stack) - 1
         /\ \A i \in 1..(Len(stack) - 1) : stack'[i] = stack[i]
  BY FrontFacts DEF Return

LEMMA TopFacts ==
  ASSUME stack \in Seq(Call), stack # <<>>
  PROVE  /\ Top = stack[Len(stack)]
         /\ Last(stack) = stack[Len(stack)]
         /\ Len(stack) \in Nat \ {0}
         /\ Len(stack) \in DOMAIN stack
         /\ Top \in Call
         /\ Top.op \in {"halt", "stop"} => Top.who \in Owners
         /\ Top.op \in {"drain", "repush"} => Top.who \in Drainers
  <1>1. /\ Top = stack[Len(stack)]
        /\ Last(stack) = stack[Len(stack)]
        /\ Len(stack) \in Nat \ {0}
        /\ Len(stack) \in DOMAIN stack
        /\ Top \in Call
    BY FrontFacts DEF Top
  <1> QED BY <1>1 DEF Call

-----------------------------------------------------------------------------
(* Type correctness. *)

LEMMA TaskCall ==
  ASSUME NEW t \in Task
  PROVE  [op |-> t.kind, who |-> t.owner] \in Call
  BY DEF Task, Call

LEMMA CompletedType ==
  ASSUME stack \in Seq(Call), done \subseteq Nat, NEW t \in Task, OnCompleted(t)
  PROVE  stack' \in Seq(Call) /\ done' \subseteq Nat
  <1>1. done' \subseteq Nat
    BY DEF OnCompleted, Task
  <1>2. CASE Enter(t.kind, t.owner)
    BY <1>1, <1>2, TaskCall, EnterFacts
  <1>3. CASE UNCHANGED stack
    BY <1>1, <1>3
  <1> QED BY <1>2, <1>3 DEF OnCompleted

LEMMA PushType ==
  ASSUME TypeOK, NEW o \in Owners \cup {NoOwner}, NEW k \in {"message", "event"},
         Push(o, k)
  PROVE  TypeOK'
  <1>1. Draining \in BOOLEAN
    BY DEF Draining
  <1>2. NewTask(o, k) \in Task
    BY <1>1 DEF NewTask, Task, TypeOK
  <1> QED BY <1>2, AppendFacts DEF TypeOK, Push

LEMMA TypeStep ==
  ASSUME ConstantsAssumption, TypeOK, [Next]_vars
  PROVE  TypeOK'
  <1> USE DEF TypeOK
  <1>1. CASE HaltEnd
    BY <1>1, ReturnFacts DEF HaltEnd, Running
  <1>2. CASE FramePop
    <2>1. Head(queue) \in Task /\ Tail(queue) \in Seq(Task)
      BY <1>2, TailFacts DEF FramePop
    <2>2. stack' \in Seq(Call) /\ done' \subseteq Nat
      BY <1>2, <2>1, CompletedType DEF FramePop
    <2>3. count' \in 0..MaxProcess
      BY <1>2 DEF FramePop, ConstantsAssumption
    <2> QED BY <1>2, <2>1, <2>2, <2>3 DEF FramePop
  <1>3. CASE FrameEnd
    BY <1>3, ReturnFacts DEF FrameEnd, Running
  <1>4. CASE StopJoin
    <2>1. [op |-> "drain", who |-> Top.who] \in Call
      BY <1>4, TopFacts DEF StopJoin, Running, Call, Drainers
    <2> QED BY <1>4, <2>1, BecomeFacts DEF StopJoin, Running
  <1>5. CASE DrainRun
    <2>1. Head(queue) \in Task /\ Tail(queue) \in Seq(Task)
      BY <1>5, TailFacts DEF DrainRun
    <2>2. stack' \in Seq(Call) /\ done' \subseteq Nat
      BY <1>5, <2>1, CompletedType DEF DrainRun
    <2> QED BY <1>5, <2>1, <2>2 DEF DrainRun
  <1>6. CASE DrainKeep
    <2>1. Head(queue) \in Task /\ Tail(queue) \in Seq(Task)
      BY <1>6, TailFacts DEF DrainKeep
    <2>2. Top.who \in Drainers
      BY <1>6, TopFacts DEF DrainKeep, Running
    <2>3. Append(kept[Top.who], Head(queue)) \in Seq(Task)
      BY <2>1, <2>2, AppendFacts
    <2> QED BY <1>6, <2>1, <2>2, <2>3 DEF DrainKeep
  <1>7. CASE DrainEmpty
    <2>1. [op |-> "repush", who |-> Top.who] \in Call
      BY <1>7, TopFacts DEF DrainEmpty, Running, Call
    <2> QED BY <1>7, <2>1, BecomeFacts DEF DrainEmpty, Running
  <1>8. CASE Repush
    <2>1. Top.who \in Drainers
      BY <1>8, TopFacts DEF Repush, Running
    <2>2. Head(kept[Top.who]) \in Task /\ Tail(kept[Top.who]) \in Seq(Task)
      BY <1>8, <2>1, TailFacts DEF Repush
    <2>3. Append(queue, Head(kept[Top.who])) \in Seq(Task)
      BY <2>2, AppendFacts
    <2> QED BY <1>8, <2>1, <2>2, <2>3 DEF Repush
  <1>9. CASE DestroyEnd
    <2>1. obj' \in [Owners -> Life]
      BY <1>9 DEF DestroyEnd, Life
    <2> QED BY <1>9, <2>1, ReturnFacts DEF DestroyEnd, Running
  <1>10. CASE FrameBegin
    <2>1. [op |-> "frame", who |-> NoOwner] \in Call
      BY DEF Call
    <2>2. 0 \in 0..MaxProcess
      BY DEF ConstantsAssumption
    <2> QED BY <1>10, <2>1, <2>2, EnterFacts DEF FrameBegin
  <1>11. CASE CallbackReturn
    <2>1. CASE Become("drain", Wrapper)
      <3>1. [op |-> "drain", who |-> Wrapper] \in Call
        BY DEF Call, Drainers
      <3> QED BY <1>11, <2>1, <3>1, BecomeFacts DEF CallbackReturn, Running
    <2>2. CASE Return
      BY <1>11, <2>2, ReturnFacts DEF CallbackReturn, Running
    <2> QED BY <1>11, <2>1, <2>2 DEF CallbackReturn
  <1>12. CASE PostResponse
    BY <1>12, PushType DEF PostResponse
  <1>13. ASSUME NEW o \in Owners, Create(o) PROVE TypeOK'
    BY <1>13 DEF Create, Life
  <1>14. ASSUME NEW o \in Owners, Start(o) PROVE TypeOK'
    BY <1>14 DEF Start
  <1>15. ASSUME NEW o \in Owners, Halt(o) PROVE TypeOK'
    <2>1. [op |-> "halt", who |-> o] \in Call
      BY DEF Call
    <2> QED BY <1>15, <2>1, EnterFacts DEF Halt
  <1>16. ASSUME NEW o \in Owners, DestroyBegin(o) PROVE TypeOK'
    <2>1. [op |-> "stop", who |-> o] \in Call
      BY DEF Call
    <2>2. obj' \in [Owners -> Life]
      BY <1>16 DEF DestroyBegin, Life
    <2> QED BY <1>16, <2>1, <2>2, EnterFacts DEF DestroyBegin
  <1>17. ASSUME NEW o \in Owners, ThreadExit(o) PROVE TypeOK'
    BY <1>17 DEF ThreadExit
  <1>18. ASSUME NEW o \in Owners, NEW k \in {"message", "event"}, Post(o, k)
         PROVE TypeOK'
    BY <1>18, PushType DEF Post
  <1>19. CASE UNCHANGED vars
    BY <1>19 DEF vars
  <1> QED
    BY <1>1, <1>2, <1>3, <1>4, <1>5, <1>6, <1>7, <1>8, <1>9, <1>10, <1>11,
       <1>12, <1>13, <1>14, <1>15, <1>16, <1>17, <1>18, <1>19
       DEF Next, Engine

(* Every variable keeps its type: in particular the calls in progress are  *)
(* well formed and a frame never exceeds its budget.                       *)
THEOREM TypeCorrect == Spec => []TypeOK
  <1>1. Init => TypeOK
    BY ConstantsAssumption DEF Init, TypeOK, Life, ConstantsAssumption
  <1>2. TypeOK /\ [Next]_vars => TypeOK'
    BY ConstantsAssumption, TypeStep
  <1> QED BY <1>1, <1>2, PTL DEF Spec

-----------------------------------------------------------------------------
(* The shape of the nest of calls. *)

LEMMA ShapeEnter ==
  ASSUME TypeOK, CallShape, NEW op, NEW who, [op |-> op, who |-> who] \in Call,
         Enter(op, who),
         stack # <<>> => Top.op \notin {"halt", "stop", "repush"} /\ Top.who # Wrapper,
         op \in {"event", "message", "halt"}
           \/ \A i \in DOMAIN stack : stack[i].op # "drain"
  PROVE  CallShape'
  <1>1. /\ Len(stack') = Len(stack) + 1
        /\ \A i \in 1..Len(stack) : stack'[i] = stack[i]
        /\ stack'[Len(stack) + 1] = [op |-> op, who |-> who]
        /\ stack' \in Seq(Call)
    BY EnterFacts DEF TypeOK
  <1>2. SUFFICES ASSUME NEW i \in DOMAIN stack', NEW j \in DOMAIN stack', i < j
                 PROVE  /\ stack'[i].op \notin {"halt", "stop", "repush"}
                        /\ stack'[i].who # Wrapper
                        /\ stack'[i].op = "drain" =>
                             \/ stack'[j].op \in {"event", "message", "halt"}
                             \/ stack'[j].who = Wrapper
    BY DEF CallShape
  <1>3. i \in 1..Len(stack) /\ stack'[i] = stack[i] /\ i \in DOMAIN stack
    BY <1>1, <1>2 DEF TypeOK
  <1>4. CASE j \in 1..Len(stack)
    BY <1>1, <1>2, <1>3, <1>4 DEF CallShape, TypeOK
  <1>5. CASE j = Len(stack) + 1
    <2>1. stack[i].op \notin {"halt", "stop", "repush"} /\ stack[i].who # Wrapper
      <3>1. CASE i = Len(stack)
        BY <1>3, <3>1, TopFacts DEF TypeOK
      <3>2. CASE i < Len(stack)
        BY <1>3, <3>2 DEF CallShape, TypeOK
      <3> QED BY <1>3, <3>1, <3>2 DEF TypeOK
    <2> QED BY <1>1, <1>3, <1>5, <2>1
  <1> QED BY <1>1, <1>2, <1>4, <1>5 DEF TypeOK

LEMMA ShapeBecome ==
  ASSUME TypeOK, CallShape, stack # <<>>, NEW op, NEW who,
         [op |-> op, who |-> who] \in Call, Become(op, who),
         \/ op \in {"event", "message", "halt"} \/ who = Wrapper
         \/ \A i \in 1..(Len(stack) - 1) : stack[i].op # "drain"
  PROVE  CallShape'
  <1>1. /\ Len(stack') = Len(stack)
        /\ Len(stack) \in Nat \ {0}
        /\ \A i \in 1..(Len(stack) - 1) : stack'[i] = stack[i]
        /\ stack'[Len(stack)] = [op |-> op, who |-> who]
        /\ stack' \in Seq(Call)
    BY BecomeFacts DEF TypeOK
  <1>2. SUFFICES ASSUME NEW i \in DOMAIN stack', NEW j \in DOMAIN stack', i < j
                 PROVE  /\ stack'[i].op \notin {"halt", "stop", "repush"}
                        /\ stack'[i].who # Wrapper
                        /\ stack'[i].op = "drain" =>
                             \/ stack'[j].op \in {"event", "message", "halt"}
                             \/ stack'[j].who = Wrapper
    BY DEF CallShape
  <1>3. DOMAIN stack' = 1..Len(stack) /\ DOMAIN stack = 1..Len(stack)
    BY <1>1 DEF TypeOK
  <1>4. i \in 1..(Len(stack) - 1) /\ stack'[i] = stack[i]
    BY <1>1, <1>2, <1>3
  <1>5. CASE j \in 1..(Len(stack) - 1)
    BY <1>1, <1>2, <1>3, <1>4, <1>5 DEF CallShape
  <1>6. CASE j = Len(stack)
    BY <1>1, <1>2, <1>3, <1>4, <1>6 DEF CallShape
  <1> QED BY <1>1, <1>2, <1>3, <1>5, <1>6

LEMMA ShapeReturn ==
  ASSUME TypeOK, CallShape, stack # <<>>, Return
  PROVE  CallShape'
  <1>1. /\ Len(stack') = Len(stack) - 1
        /\ Len(stack) \in Nat \ {0}
        /\ \A i \in 1..(Len(stack) - 1) : stack'[i] = stack[i]
        /\ stack' \in Seq(Call)
    BY ReturnFacts DEF TypeOK
  <1>2. DOMAIN stack' = 1..(Len(stack) - 1) /\ DOMAIN stack = 1..Len(stack)
    BY <1>1 DEF TypeOK
  <1>3. \A i \in DOMAIN stack' : i \in DOMAIN stack /\ stack'[i] = stack[i]
    BY <1>1, <1>2
  <1> QED BY <1>3 DEF CallShape

(* Where plugin code runs, a native may be called. *)
LEMMA PluginTop ==
  ASSUME ConstantsAssumption, TypeOK, InPlugin, stack # <<>>
  PROVE  Top.op \in {"event", "message"} /\ Top.who # Wrapper
  <1>1. Top.op \in {"event", "message"}
    BY DEF InPlugin, Running, Top
  <1> QED BY <1>1, TopFacts DEF TypeOK, Call, ConstantsAssumption

(* A frame or a drain runs the first task of the queue. *)
LEMMA ShapeCompleted ==
  ASSUME ConstantsAssumption, TypeOK, CallShape, stack # <<>>, queue # <<>>,
         Top.op \in {"frame", "drain"}, Top.who # Wrapper,
         OnCompleted(Head(queue))
  PROVE  CallShape'
  <1>1. Head(queue) \in Task
    BY TailFacts DEF TypeOK
  <1>2. CASE Enter(Head(queue).kind, Head(queue).owner)
    <2>1. Head(queue).kind \in {"event", "message"}
      BY <1>1 DEF Task
    <2>2. [op |-> Head(queue).kind, who |-> Head(queue).owner] \in Call
      BY <1>1, TaskCall
    <2> QED BY <1>2, <2>1, <2>2, ShapeEnter
  <1>3. CASE UNCHANGED stack
    BY <1>3 DEF CallShape
  <1> QED BY <1>2, <1>3 DEF OnCompleted

LEMMA ShapeStep ==
  ASSUME ConstantsAssumption, ~NestedDestroy, TypeOK, CallShape, [Next]_vars
  PROVE  CallShape'
  <1>1. CASE HaltEnd
    BY <1>1, ShapeReturn DEF HaltEnd, Running
  <1>2. CASE FramePop
    <2>1. Top.op = "frame" /\ Top.who # Wrapper /\ stack # <<>>
      BY <1>2, TopFacts DEF FramePop, Running, Top, TypeOK, Call, ConstantsAssumption
    <2> QED BY <1>2, <2>1, ShapeCompleted DEF FramePop
  <1>3. CASE FrameEnd
    BY <1>3, ShapeReturn DEF FrameEnd, Running
  <1>4. CASE StopJoin
    <2>1. stack # <<>> /\ Top.op = "stop" /\ Top.who \in Owners
      BY <1>4, TopFacts DEF StopJoin, Running, Top, TypeOK
    <2>2. [op |-> "drain", who |-> Top.who] \in Call
      BY <2>1 DEF Call, Drainers
    <2>3. Top.who # Wrapper
      BY <2>1 DEF ConstantsAssumption
    <2>4. \A i \in 1..(Len(stack) - 1) : stack[i].op # "drain"
      BY <2>1, <2>3, TopFacts DEF CallShape, TypeOK
    <2> QED BY <1>4, <2>1, <2>2, <2>4, ShapeBecome DEF StopJoin
  <1>5. CASE DrainRun
    <2>1. stack # <<>> /\ Top.op = "drain"
      BY <1>5 DEF DrainRun, Running, Top
    <2>2. Head(queue) \in Task /\ Top.who = Head(queue).owner
      BY <1>5, TailFacts DEF DrainRun, TypeOK
    <2>3. Top.who # Wrapper
      BY <2>2 DEF Task, ConstantsAssumption
    <2> QED BY <1>5, <2>1, <2>3, ShapeCompleted DEF DrainRun
  <1>6. CASE DrainKeep
    BY <1>6 DEF DrainKeep, CallShape
  <1>7. CASE DrainEmpty
    <2>1. stack # <<>> /\ Top.op = "drain" /\ Top.who \in Drainers
      BY <1>7, TopFacts DEF DrainEmpty, Running, Top, TypeOK
    <2>2. [op |-> "repush", who |-> Top.who] \in Call
      BY <2>1 DEF Call
    <2>3. Top.who = Wrapper \/ \A i \in 1..(Len(stack) - 1) : stack[i].op # "drain"
      BY <2>1, TopFacts DEF CallShape, TypeOK
    <2> QED BY <1>7, <2>1, <2>2, <2>3, ShapeBecome DEF DrainEmpty
  <1>8. CASE Repush
    BY <1>8 DEF Repush, CallShape
  <1>9. CASE DestroyEnd
    BY <1>9, ShapeReturn DEF DestroyEnd, Running
  <1>10. CASE FrameBegin
    <2>1. [op |-> "frame", who |-> NoOwner] \in Call
      BY DEF Call
    <2> QED BY <1>10, <2>1, ShapeEnter DEF FrameBegin
  <1>11. CASE CallbackReturn
    <2>1. CASE Become("drain", Wrapper)
      <3>1. [op |-> "drain", who |-> Wrapper] \in Call
        BY DEF Call, Drainers
      <3> QED BY <1>11, <2>1, <3>1, ShapeBecome DEF CallbackReturn, Running
    <2>2. CASE Return
      BY <1>11, <2>2, ShapeReturn DEF CallbackReturn, Running
    <2> QED BY <1>11, <2>1, <2>2 DEF CallbackReturn
  <1>12. CASE PostResponse
    BY <1>12 DEF PostResponse, Push, CallShape
  <1>13. ASSUME NEW o \in Owners, Create(o) \/ Start(o) \/ ThreadExit(o)
         PROVE  CallShape'
    BY <1>13 DEF Create, Start, ThreadExit, CallShape
  <1>14. ASSUME NEW o \in Owners, Halt(o) PROVE CallShape'
    <2>1. [op |-> "halt", who |-> o] \in Call
      BY DEF Call
    <2> QED BY <1>14, <2>1, PluginTop, ShapeEnter DEF Halt
  <1>15. ASSUME NEW o \in Owners, DestroyBegin(o) PROVE CallShape'
    <2>1. [op |-> "stop", who |-> o] \in Call
      BY DEF Call
    <2>2. \A i \in DOMAIN stack : stack[i].op # "drain"
      BY <1>15 DEF DestroyBegin, Draining
    <2> QED BY <1>15, <2>1, <2>2, PluginTop, ShapeEnter DEF DestroyBegin
  <1>16. ASSUME NEW o \in Owners, NEW k \in {"message", "event"}, Post(o, k)
         PROVE  CallShape'
    BY <1>16 DEF Post, Push, CallShape
  <1>17. CASE UNCHANGED vars
    BY <1>17 DEF vars, CallShape
  <1> QED
    BY <1>1, <1>2, <1>3, <1>4, <1>5, <1>6, <1>7, <1>8, <1>9, <1>10, <1>11,
       <1>12, <1>13, <1>14, <1>15, <1>16, <1>17 DEF Next, Engine

-----------------------------------------------------------------------------
(* A call after a step was there before it or is the one just entered.     *)

LEMMA EnterIn ==
  ASSUME stack \in Seq(Call), NEW op, NEW who,
         [op |-> op, who |-> who] \in Call, Enter(op, who)
  PROVE  \A i \in DOMAIN stack' :
           \/ i \in DOMAIN stack /\ stack'[i] = stack[i]
           \/ stack'[i] = [op |-> op, who |-> who]
  <1>1. DOMAIN stack' = 1..(Len(stack) + 1) /\ DOMAIN stack = 1..Len(stack)
    BY EnterFacts
  <1> QED BY <1>1, EnterFacts

LEMMA BecomeIn ==
  ASSUME stack \in Seq(Call), stack # <<>>, NEW op, NEW who,
         [op |-> op, who |-> who] \in Call, Become(op, who)
  PROVE  \A i \in DOMAIN stack' :
           \/ i \in 1..(Len(stack) - 1) /\ i \in DOMAIN stack /\ stack'[i] = stack[i]
           \/ i = Len(stack) /\ stack'[i] = [op |-> op, who |-> who]
  <1>1. DOMAIN stack' = 1..Len(stack) /\ DOMAIN stack = 1..Len(stack)
    BY BecomeFacts
  <1> QED BY <1>1, BecomeFacts

LEMMA ReturnIn ==
  ASSUME stack \in Seq(Call), stack # <<>>, Return
  PROVE  \A i \in DOMAIN stack' :
           i \in 1..(Len(stack) - 1) /\ i \in DOMAIN stack /\ stack'[i] = stack[i]
  <1>1. DOMAIN stack' = 1..(Len(stack) - 1) /\ DOMAIN stack = 1..Len(stack)
    BY ReturnFacts
  <1> QED BY <1>1, ReturnFacts

LEMMA CompletedIn ==
  ASSUME TypeOK, queue # <<>>, OnCompleted(Head(queue))
  PROVE  \A i \in DOMAIN stack' :
           \/ i \in DOMAIN stack /\ stack'[i] = stack[i]
           \/ stack'[i].op \in {"event", "message"}
  <1>1. Head(queue) \in Task
    BY TailFacts DEF TypeOK
  <1>2. CASE Enter(Head(queue).kind, Head(queue).owner)
    <2>1. Head(queue).kind \in {"event", "message"}
      BY <1>1 DEF Task
    <2>2. [op |-> Head(queue).kind, who |-> Head(queue).owner] \in Call
      BY <1>1, TaskCall
    <2>3. \A i \in DOMAIN stack' :
            \/ i \in DOMAIN stack /\ stack'[i] = stack[i]
            \/ stack'[i] = [op |-> Head(queue).kind, who |-> Head(queue).owner]
      BY <1>2, <2>2, EnterIn DEF TypeOK
    <2> QED BY <2>1, <2>3
  <1>3. CASE UNCHANGED stack
    BY <1>3
  <1> QED BY <1>2, <1>3 DEF OnCompleted

-----------------------------------------------------------------------------
(* After the join an object being destroyed has no thread that reports.    *)

LEMMA MuteStep ==
  ASSUME ConstantsAssumption, ~NestedDestroy, TypeOK, CallShape,
         DestructorCalls, ThreadsOwned, [Next]_vars
  PROVE  DestructorCalls' /\ ThreadsOwned'
  <1> DEFINE Destructor(c) == c.op \in {"stop", "drain", "repush"} /\ c.who \in Owners
  <1>1. CASE HaltEnd
    BY <1>1, ReturnIn DEF HaltEnd, Running, TypeOK, DestructorCalls, ThreadsOwned
  <1>2. CASE FramePop
    BY <1>2, CompletedIn DEF FramePop, DestructorCalls, ThreadsOwned
  <1>3. CASE FrameEnd
    BY <1>3, ReturnIn DEF FrameEnd, Running, TypeOK, DestructorCalls, ThreadsOwned
  <1>4. CASE StopJoin
    <2>1. stack # <<>> /\ Top.op = "stop" /\ Top.who \in Owners /\ ~thr[Top.who]
      BY <1>4, TopFacts DEF StopJoin, Running, Top, TypeOK
    <2>2. obj[Top.who] = "destroying"
      BY <2>1, TopFacts DEF DestructorCalls, TypeOK
    <2>3. [op |-> "drain", who |-> Top.who] \in Call
      BY <2>1 DEF Call, Drainers
    <2> QED
      BY <1>4, <2>1, <2>2, <2>3, BecomeIn
         DEF StopJoin, TypeOK, DestructorCalls, ThreadsOwned
  <1>5. CASE DrainRun
    BY <1>5, CompletedIn DEF DrainRun, DestructorCalls, ThreadsOwned
  <1>6. CASE DrainKeep
    BY <1>6 DEF DrainKeep, DestructorCalls, ThreadsOwned
  <1>7. CASE DrainEmpty
    <2>1. stack # <<>> /\ Top.op = "drain" /\ Top.who \in Drainers
      BY <1>7, TopFacts DEF DrainEmpty, Running, Top, TypeOK
    <2>2. Top.who \in Owners => obj[Top.who] = "destroying" /\ ~thr[Top.who]
      BY <2>1, TopFacts DEF DestructorCalls, TypeOK
    <2>3. [op |-> "repush", who |-> Top.who] \in Call
      BY <2>1 DEF Call
    <2> QED
      BY <1>7, <2>1, <2>2, <2>3, BecomeIn
         DEF DrainEmpty, TypeOK, DestructorCalls, ThreadsOwned
  <1>8. CASE Repush
    BY <1>8 DEF Repush, DestructorCalls, ThreadsOwned
  <1>9. CASE DestroyEnd
    <2>1. stack # <<>> /\ Top.op = "repush" /\ Top.who \in Drainers
      BY <1>9, TopFacts DEF DestroyEnd, Running, Top, TypeOK
    <2>2. Top.who \in Owners => ~thr[Top.who]
      BY <2>1, TopFacts DEF DestructorCalls, TypeOK
    <2>3. ASSUME NEW i \in 1..(Len(stack) - 1), Destructor(stack[i])
          PROVE  stack[i].who # Top.who
      <3>1. i \in DOMAIN stack /\ i < Len(stack)
        BY <2>1, <2>3, TopFacts DEF TypeOK
      <3>2. stack[i].op = "drain" /\ stack[i].who # Wrapper
        BY <2>1, <2>3, <3>1, TopFacts DEF CallShape, TypeOK
      <3>3. Top.who = Wrapper
        BY <2>1, <3>1, <3>2, TopFacts DEF CallShape, TypeOK
      <3> QED BY <3>2, <3>3
    <2>4. ThreadsOwned'
      BY <1>9, <2>2 DEF DestroyEnd, ThreadsOwned
    <2>5. \A i \in DOMAIN stack' :
            i \in 1..(Len(stack) - 1) /\ i \in DOMAIN stack /\ stack'[i] = stack[i]
      BY <1>9, <2>1, ReturnIn DEF DestroyEnd, TypeOK
    <2>6. DestructorCalls'
      BY <1>9, <2>3, <2>5 DEF DestroyEnd, DestructorCalls
    <2> QED BY <2>4, <2>6
  <1>10. CASE FrameBegin
    <2>1. [op |-> "frame", who |-> NoOwner] \in Call
      BY DEF Call
    <2> QED
      BY <1>10, <2>1, EnterIn DEF FrameBegin, TypeOK, DestructorCalls, ThreadsOwned
  <1>11. CASE CallbackReturn
    <2>1. CASE Become("drain", Wrapper)
      <3>1. [op |-> "drain", who |-> Wrapper] \in Call /\ Wrapper \notin Owners
        BY DEF Call, Drainers, ConstantsAssumption
      <3> QED
        BY <1>11, <2>1, <3>1, BecomeIn
           DEF CallbackReturn, Running, TypeOK, DestructorCalls, ThreadsOwned
    <2>2. CASE Return
      BY <1>11, <2>2, ReturnIn
         DEF CallbackReturn, Running, TypeOK, DestructorCalls, ThreadsOwned
    <2> QED BY <1>11, <2>1, <2>2 DEF CallbackReturn
  <1>12. CASE PostResponse
    BY <1>12 DEF PostResponse, Push, DestructorCalls, ThreadsOwned
  <1>13. ASSUME NEW o \in Owners, Create(o)
         PROVE  DestructorCalls' /\ ThreadsOwned'
    BY <1>13 DEF Create, TypeOK, DestructorCalls, ThreadsOwned
  <1>14. ASSUME NEW o \in Owners, Start(o)
         PROVE  DestructorCalls' /\ ThreadsOwned'
    BY <1>14 DEF Start, TypeOK, DestructorCalls, ThreadsOwned
  <1>15. ASSUME NEW o \in Owners, ThreadExit(o)
         PROVE  DestructorCalls' /\ ThreadsOwned'
    BY <1>15 DEF ThreadExit, TypeOK, DestructorCalls, ThreadsOwned
  <1>16. ASSUME NEW o \in Owners, Halt(o)
         PROVE  DestructorCalls' /\ ThreadsOwned'
    <2>1. [op |-> "halt", who |-> o] \in Call
      BY DEF Call
    <2> QED
      BY <1>16, <2>1, EnterIn DEF Halt, TypeOK, DestructorCalls, ThreadsOwned
  <1>17. ASSUME NEW o \in Owners, DestroyBegin(o)
         PROVE  DestructorCalls' /\ ThreadsOwned'
    <2>1. [op |-> "stop", who |-> o] \in Call
      BY DEF Call
    <2>2. ThreadsOwned'
      BY <1>17 DEF DestroyBegin, TypeOK, ThreadsOwned
    <2>3. obj'[o] = "destroying" /\ \A p \in Owners \ {o} : obj'[p] = obj[p]
      BY <1>17 DEF DestroyBegin, TypeOK
    <2>4. DestructorCalls'
      BY <1>17, <2>1, <2>3, EnterIn DEF DestroyBegin, TypeOK, DestructorCalls
    <2> QED BY <2>2, <2>4
  <1>18. ASSUME NEW o \in Owners, NEW k \in {"message", "event"}, Post(o, k)
         PROVE  DestructorCalls' /\ ThreadsOwned'
    BY <1>18 DEF Post, Push, DestructorCalls, ThreadsOwned
  <1>19. CASE UNCHANGED vars
    BY <1>19 DEF vars, DestructorCalls, ThreadsOwned
  <1> QED
    BY <1>1, <1>2, <1>3, <1>4, <1>5, <1>6, <1>7, <1>8, <1>9, <1>10, <1>11,
       <1>12, <1>13, <1>14, <1>15, <1>16, <1>17, <1>18, <1>19 DEF Next, Engine

-----------------------------------------------------------------------------
(* A drain goes on while calls are entered, replaced and left above it.    *)

LEMMA DrainOfEnter ==
  ASSUME stack \in Seq(Call), NEW op, NEW who,
         [op |-> op, who |-> who] \in Call, Enter(op, who), NEW d, DrainOf(d)
  PROVE  DrainOf(d)'
  <1>1. DOMAIN stack' = 1..(Len(stack) + 1) /\ DOMAIN stack = 1..Len(stack)
    BY EnterFacts
  <1>2. \A i \in DOMAIN stack : i \in DOMAIN stack' /\ stack'[i] = stack[i]
    BY <1>1, EnterFacts
  <1> QED BY <1>2 DEF DrainOf

LEMMA DrainOfReturn ==
  ASSUME stack \in Seq(Call), stack # <<>>, Return, NEW d, DrainOf(d),
         Top.op \notin {"drain", "repush"} \/ Top.who # d
  PROVE  DrainOf(d)'
  <1>1. DOMAIN stack' = 1..(Len(stack) - 1) /\ DOMAIN stack = 1..Len(stack)
    BY ReturnFacts
  <1>2. PICK i \in DOMAIN stack :
          stack[i].op \in {"drain", "repush"} /\ stack[i].who = d
    BY DEF DrainOf
  <1>3. i # Len(stack)
    BY <1>2, TopFacts
  <1>4. i \in DOMAIN stack' /\ stack'[i] = stack[i]
    BY <1>1, <1>3, ReturnFacts
  <1> QED BY <1>2, <1>4 DEF DrainOf

LEMMA DrainOfBecome ==
  ASSUME stack \in Seq(Call), stack # <<>>, NEW op \in {"drain", "repush"}, NEW who,
         [op |-> op, who |-> who] \in Call, Become(op, who), NEW d,
         \/ d = who
         \/ DrainOf(d) /\ Top.op \notin {"drain", "repush"}
         \/ DrainOf(d) /\ Top.who = who
  PROVE  DrainOf(d)'
  <1>1. DOMAIN stack' = 1..Len(stack) /\ DOMAIN stack = 1..Len(stack)
    BY BecomeFacts
  <1>2. Len(stack) \in DOMAIN stack' /\ stack'[Len(stack)] = [op |-> op, who |-> who]
    BY <1>1, BecomeFacts
  <1>3. CASE d = who
    BY <1>2, <1>3 DEF DrainOf
  <1>4. CASE DrainOf(d) /\ d # who
    <2>1. PICK i \in DOMAIN stack :
            stack[i].op \in {"drain", "repush"} /\ stack[i].who = d
      BY <1>4 DEF DrainOf
    <2>2. i # Len(stack)
      BY <1>4, <2>1, TopFacts
    <2>3. i \in DOMAIN stack' /\ stack'[i] = stack[i]
      BY <1>1, <2>2, BecomeFacts
    <2> QED BY <2>1, <2>3 DEF DrainOf
  <1> QED BY <1>3, <1>4

LEMMA DrainOfCompleted ==
  ASSUME TypeOK, queue # <<>>, OnCompleted(Head(queue)), NEW d, DrainOf(d)
  PROVE  DrainOf(d)'
  <1>1. [op |-> Head(queue).kind, who |-> Head(queue).owner] \in Call
    BY TailFacts, TaskCall DEF TypeOK
  <1>2. CASE UNCHANGED stack
    BY <1>2 DEF DrainOf
  <1> QED BY <1>1, <1>2, DrainOfEnter DEF OnCompleted, TypeOK

(* What a drain and a re-push do to other_tasks. *)
LEMMA KeepFacts ==
  ASSUME TypeOK, DrainKeep
  PROVE  /\ Top.who \in Drainers
         /\ Head(queue) \in Task
         /\ ToSet(queue) = {Head(queue)} \cup ToSet(queue')
         /\ kept'[Top.who] = Append(kept[Top.who], Head(queue))
         /\ ToSet(kept'[Top.who]) = ToSet(kept[Top.who]) \cup {Head(queue)}
         /\ \A d \in Drainers \ {Top.who} : kept'[d] = kept[d]
  <1>1. Top.who \in Drainers
    BY TopFacts DEF DrainKeep, Running, Top, TypeOK
  <1>2. Head(queue) \in Task /\ ToSet(queue) = {Head(queue)} \cup ToSet(queue')
    BY TailFacts DEF DrainKeep, TypeOK
  <1>3. /\ kept'[Top.who] = Append(kept[Top.who], Head(queue))
        /\ \A d \in Drainers \ {Top.who} : kept'[d] = kept[d]
    BY <1>1 DEF DrainKeep, TypeOK
  <1>4. kept[Top.who] \in Seq(Task)
    BY <1>1 DEF TypeOK
  <1> QED BY <1>1, <1>2, <1>3, <1>4, AppendFacts

LEMMA RepushFacts ==
  ASSUME TypeOK, Repush
  PROVE  /\ Top.who \in Drainers
         /\ kept[Top.who] \in Seq(Task)
         /\ Head(kept[Top.who]) \in Task
         /\ ToSet(queue') = ToSet(queue) \cup {Head(kept[Top.who])}
         /\ kept'[Top.who] = Tail(kept[Top.who])
         /\ ToSet(kept[Top.who]) = {Head(kept[Top.who])} \cup ToSet(kept'[Top.who])
         /\ \A d \in Drainers \ {Top.who} : kept'[d] = kept[d]
  <1>1. Top.who \in Drainers
    BY TopFacts DEF Repush, Running, Top, TypeOK
  <1>2. kept[Top.who] \in Seq(Task) /\ kept[Top.who] # <<>>
    BY <1>1 DEF TypeOK, Repush
  <1>3. /\ kept'[Top.who] = Tail(kept[Top.who])
        /\ \A d \in Drainers \ {Top.who} : kept'[d] = kept[d]
    BY <1>1 DEF Repush, TypeOK
  <1>4. /\ Head(kept[Top.who]) \in Task
        /\ ToSet(kept[Top.who]) = {Head(kept[Top.who])} \cup ToSet(kept'[Top.who])
    BY <1>2, <1>3, TailFacts
  <1>5. ToSet(queue') = ToSet(queue) \cup {Head(kept[Top.who])}
    BY <1>4, AppendFacts DEF Repush, TypeOK
  <1> QED BY <1>1, <1>2, <1>3, <1>4, <1>5

LEMMA KeptStep ==
  ASSUME ConstantsAssumption, TypeOK, KeptInDrain, KeptForOthers, [Next]_vars
  PROVE  KeptInDrain' /\ KeptForOthers'
  <1>1. CASE HaltEnd
    <2>1. stack # <<>> /\ Top.op = "halt"
      BY <1>1 DEF HaltEnd, Running, Top
    <2> QED
      BY <1>1, <2>1, DrainOfReturn DEF HaltEnd, TypeOK, KeptInDrain, KeptForOthers
  <1>2. CASE FramePop
    BY <1>2, DrainOfCompleted DEF FramePop, KeptInDrain, KeptForOthers
  <1>3. CASE FrameEnd
    <2>1. stack # <<>> /\ Top.op = "frame"
      BY <1>3 DEF FrameEnd, Running, Top
    <2> QED
      BY <1>3, <2>1, DrainOfReturn DEF FrameEnd, TypeOK, KeptInDrain, KeptForOthers
  <1>4. CASE StopJoin
    <2>1. stack # <<>> /\ Top.op = "stop"
      BY <1>4 DEF StopJoin, Running, Top
    <2>2. [op |-> "drain", who |-> Top.who] \in Call
      BY <2>1, TopFacts DEF TypeOK, Call, Drainers
    <2> QED
      BY <1>4, <2>1, <2>2, DrainOfBecome
         DEF StopJoin, TypeOK, KeptInDrain, KeptForOthers
  <1>5. CASE DrainRun
    BY <1>5, DrainOfCompleted DEF DrainRun, KeptInDrain, KeptForOthers
  <1>6. CASE DrainKeep
    <2>1. stack # <<>> /\ Top.op = "drain"
      BY <1>6 DEF DrainKeep, Running, Top
    <2>2. DrainOf(Top.who) /\ \A d \in Drainers : DrainOf(d)' = DrainOf(d)
      BY <1>6, <2>1, TopFacts DEF DrainKeep, DrainOf, TypeOK
    <2>3. Head(queue).owner # Top.who
      BY <1>6 DEF DrainKeep
    <2>4. KeptInDrain'
      BY <1>6, <2>2, KeepFacts DEF KeptInDrain
    <2>5. KeptForOthers'
      BY <1>6, <2>3, KeepFacts DEF KeptForOthers
    <2> QED BY <2>4, <2>5
  <1>7. CASE DrainEmpty
    <2>1. stack # <<>> /\ Top.op = "drain"
      BY <1>7 DEF DrainEmpty, Running, Top
    <2>2. [op |-> "repush", who |-> Top.who] \in Call
      BY <2>1, TopFacts DEF TypeOK, Call
    <2> QED
      BY <1>7, <2>1, <2>2, DrainOfBecome
         DEF DrainEmpty, TypeOK, KeptInDrain, KeptForOthers
  <1>8. CASE Repush
    <2>1. stack # <<>> /\ Top.op = "repush"
      BY <1>8 DEF Repush, Running, Top
    <2>2. DrainOf(Top.who) /\ \A d \in Drainers : DrainOf(d)' = DrainOf(d)
      BY <1>8, <2>1, TopFacts DEF Repush, DrainOf, TypeOK
    <2>3. KeptInDrain'
      BY <1>8, <2>2, RepushFacts DEF KeptInDrain
    <2>4. KeptForOthers'
      BY <1>8, RepushFacts DEF KeptForOthers
    <2> QED BY <2>3, <2>4
  <1>9. CASE DestroyEnd
    <2>1. stack # <<>> /\ kept[Top.who] = <<>>
      BY <1>9 DEF DestroyEnd, Running
    <2> QED
      BY <1>9, <2>1, DrainOfReturn DEF DestroyEnd, TypeOK, KeptInDrain, KeptForOthers
  <1>10. CASE FrameBegin
    <2>1. [op |-> "frame", who |-> NoOwner] \in Call
      BY DEF Call
    <2> QED
      BY <1>10, <2>1, DrainOfEnter DEF FrameBegin, TypeOK, KeptInDrain, KeptForOthers
  <1>11. CASE CallbackReturn
    <2>1. stack # <<>> /\ Top.op \in {"event", "message"}
      BY <1>11 DEF CallbackReturn, Running, Top
    <2>2. CASE Become("drain", Wrapper)
      <3>1. [op |-> "drain", who |-> Wrapper] \in Call
        BY DEF Call, Drainers
      <3> QED
        BY <1>11, <2>1, <2>2, <3>1, DrainOfBecome
           DEF CallbackReturn, TypeOK, KeptInDrain, KeptForOthers
    <2>3. CASE Return
      BY <1>11, <2>1, <2>3, DrainOfReturn
         DEF CallbackReturn, TypeOK, KeptInDrain, KeptForOthers
    <2> QED BY <1>11, <2>2, <2>3 DEF CallbackReturn
  <1>12. CASE PostResponse
    BY <1>12 DEF PostResponse, Push, KeptInDrain, KeptForOthers, DrainOf
  <1>13. ASSUME NEW o \in Owners, Create(o) \/ Start(o) \/ ThreadExit(o)
         PROVE  KeptInDrain' /\ KeptForOthers'
    BY <1>13 DEF Create, Start, ThreadExit, KeptInDrain, KeptForOthers, DrainOf
  <1>14. ASSUME NEW o \in Owners, Halt(o) \/ DestroyBegin(o)
         PROVE  KeptInDrain' /\ KeptForOthers'
    <2>1. /\ [op |-> "halt", who |-> o] \in Call
          /\ [op |-> "stop", who |-> o] \in Call
      BY DEF Call
    <2> QED
      BY <1>14, <2>1, DrainOfEnter
         DEF Halt, DestroyBegin, TypeOK, KeptInDrain, KeptForOthers
  <1>15. ASSUME NEW o \in Owners, NEW k \in {"message", "event"}, Post(o, k)
         PROVE  KeptInDrain' /\ KeptForOthers'
    BY <1>15 DEF Post, Push, KeptInDrain, KeptForOthers, DrainOf
  <1>16. CASE UNCHANGED vars
    BY <1>16 DEF vars, KeptInDrain, KeptForOthers, DrainOf
  <1> QED
    BY <1>1, <1>2, <1>3, <1>4, <1>5, <1>6, <1>7, <1>8, <1>9, <1>10, <1>11,
       <1>12, <1>13, <1>14, <1>15, <1>16 DEF Next, Engine

-----------------------------------------------------------------------------
(* What each step does to the set of pending tasks.                        *)

LEMMA PendingTasks ==
  ASSUME TypeOK
  PROVE  /\ ToSet(queue) \subseteq Task
         /\ \A d \in Drainers : ToSet(kept[d]) \subseteq Task
         /\ Pending \subseteq Task
         /\ \A t : t \in Pending <=>
              t \in ToSet(queue) \/ \E d \in Drainers : t \in ToSet(kept[d])
  <1>1. ToSet(queue) \subseteq Task
    BY DEF TypeOK, ToSet
  <1>2. \A d \in Drainers : ToSet(kept[d]) \subseteq Task
    BY DEF TypeOK, ToSet
  <1> QED BY <1>1, <1>2 DEF Pending

LEMMA PushFacts ==
  ASSUME TypeOK, NEW o \in Owners \cup {NoOwner}, NEW k \in {"message", "event"},
         Push(o, k)
  PROVE  /\ NewTask(o, k) \in Task
         /\ NewTask(o, k).id = nextId
         /\ NewTask(o, k).owner = o
         /\ NewTask(o, k).late = Draining
         /\ queue' = Append(queue, NewTask(o, k))
         /\ ToSet(queue') = ToSet(queue) \cup {NewTask(o, k)}
         /\ Pending' = Pending \cup {NewTask(o, k)}
  <1>1. Draining \in BOOLEAN
    BY DEF Draining
  <1>2. /\ NewTask(o, k) \in Task
        /\ NewTask(o, k).id = nextId
        /\ NewTask(o, k).owner = o
        /\ NewTask(o, k).late = Draining
    BY <1>1 DEF NewTask, Task, TypeOK
  <1>3. queue' = Append(queue, NewTask(o, k)) /\ kept' = kept
    BY DEF Push
  <1>4. ToSet(queue') = ToSet(queue) \cup {NewTask(o, k)}
    BY <1>2, <1>3, AppendFacts DEF TypeOK
  <1> QED BY <1>2, <1>3, <1>4 DEF Pending

LEMMA PopFacts ==
  ASSUME TypeOK, queue # <<>>, queue' = Tail(queue), UNCHANGED kept
  PROVE  /\ Head(queue) \in Task
         /\ ToSet(queue) = {Head(queue)} \cup ToSet(queue')
         /\ Pending = {Head(queue)} \cup Pending'
  <1>1. /\ Head(queue) \in Task
        /\ ToSet(queue) = {Head(queue)} \cup ToSet(queue')
    BY TailFacts DEF TypeOK
  <1> QED BY <1>1 DEF Pending

LEMMA KeepPending ==
  ASSUME TypeOK, DrainKeep
  PROVE  Pending' = Pending
  BY KeepFacts DEF Pending

LEMMA RepushPending ==
  ASSUME TypeOK, Repush
  PROVE  Pending' = Pending
  BY RepushFacts DEF Pending

-----------------------------------------------------------------------------
(* Between the end of the drain and the end of the destructor no task of   *)
(* the object comes back into the queue.                                   *)

LEMMA DrainedStep ==
  ASSUME ConstantsAssumption, TypeOK, CallShape, DestructorCalls, KeptForOthers,
         Drained, [Next]_vars
  PROVE  Drained'
  <1> DEFINE New(i) == /\ i \in DOMAIN stack'
                       /\ stack'[i].op = "repush"
                       /\ ~(i \in DOMAIN stack /\ stack'[i] = stack[i])
  <1>1. ASSUME \A i : ~New(i), ToSet(queue') \subseteq ToSet(queue)
        PROVE  Drained'
    BY <1>1 DEF Drained
  <1>2. ASSUME \A i : ~New(i), UNCHANGED queue
        PROVE  Drained'
    BY <1>1, <1>2
  <1> HIDE DEF New
  <1>3. CASE HaltEnd \/ FrameEnd \/ DestroyEnd
    <2>1. \A i : ~New(i)
      BY <1>3, ReturnIn DEF HaltEnd, FrameEnd, DestroyEnd, Running, TypeOK, New
    <2> QED BY <1>2, <1>3, <2>1 DEF HaltEnd, FrameEnd, DestroyEnd
  <1>4. CASE FramePop \/ DrainRun
    <2>1. ToSet(queue') \subseteq ToSet(queue)
      BY <1>4, PopFacts DEF FramePop, DrainRun
    <2>2. \A i : ~New(i)
      BY <1>4, CompletedIn DEF FramePop, DrainRun, New
    <2> QED BY <1>1, <2>1, <2>2
  <1>5. CASE StopJoin
    <2>1. stack # <<>> /\ [op |-> "drain", who |-> Top.who] \in Call
      BY <1>5, TopFacts DEF StopJoin, Running, Top, TypeOK, Call, Drainers
    <2>2. \A i : ~New(i)
      BY <1>5, <2>1, BecomeIn DEF StopJoin, TypeOK, New
    <2> QED BY <1>2, <1>5, <2>2 DEF StopJoin
  <1>6. CASE DrainKeep
    <2>1. ToSet(queue') \subseteq ToSet(queue)
      BY <1>6, KeepFacts
    <2>2. \A i : ~New(i)
      BY <1>6 DEF DrainKeep, New
    <2> QED BY <1>1, <2>1, <2>2
  <1>7. CASE DrainEmpty
    <2>1. ToSet(queue') = {}
      BY <1>7 DEF DrainEmpty, ToSet
    <2> QED BY <2>1 DEF Drained
  <1>8. CASE Repush
    <2>1. stack # <<>> /\ Top.op = "repush"
      BY <1>8 DEF Repush, Running, Top
    <2>2. ASSUME NEW i \in DOMAIN stack, stack[i].op = "repush"
          PROVE  i = Len(stack)
      BY <2>1, <2>2, TopFacts DEF CallShape, TypeOK
    <2>3. Head(kept[Top.who]).owner # Top.who
      BY <1>8, RepushFacts DEF KeptForOthers
    <2>4. \A t \in ToSet(queue') : t.owner # Top.who
      BY <1>8, <2>1, <2>3, RepushFacts, TopFacts DEF Drained, TypeOK
    <2>5. stack' = stack
      BY <1>8 DEF Repush
    <2> QED BY <2>1, <2>2, <2>4, <2>5, TopFacts DEF Drained, TypeOK
  <1>9. CASE FrameBegin
    <2>1. [op |-> "frame", who |-> NoOwner] \in Call
      BY DEF Call
    <2>2. \A i : ~New(i)
      BY <1>9, <2>1, EnterIn DEF FrameBegin, TypeOK, New
    <2> QED BY <1>2, <1>9, <2>2 DEF FrameBegin
  <1>10. CASE CallbackReturn
    <2>1. [op |-> "drain", who |-> Wrapper] \in Call
      BY DEF Call, Drainers
    <2>2. \A i : ~New(i)
      BY <1>10, <2>1, BecomeIn, ReturnIn DEF CallbackReturn, Running, TypeOK, New
    <2> QED BY <1>2, <1>10, <2>2 DEF CallbackReturn
  <1>11. CASE PostResponse
    <2>1. \A t \in ToSet(queue') : t \in ToSet(queue) \/ t.owner = NoOwner
      BY <1>11, PushFacts DEF PostResponse
    <2>2. ASSUME NEW i \in DOMAIN stack, stack[i].op = "repush"
          PROVE  stack[i].who # NoOwner
      <3>1. stack[i] \in Call
        BY DEF TypeOK
      <3> QED BY <2>2, <3>1 DEF Call, Drainers, ConstantsAssumption
    <2>3. stack' = stack
      BY <1>11 DEF PostResponse, Push
    <2> QED BY <2>1, <2>2, <2>3 DEF Drained
  <1>12. ASSUME NEW o \in Owners, Create(o) \/ Start(o) \/ ThreadExit(o)
         PROVE  Drained'
    BY <1>12 DEF Create, Start, ThreadExit, Drained
  <1>13. ASSUME NEW o \in Owners, Halt(o) \/ DestroyBegin(o)
         PROVE  Drained'
    <2>1. /\ [op |-> "halt", who |-> o] \in Call
          /\ [op |-> "stop", who |-> o] \in Call
      BY DEF Call
    <2>2. \A i : ~New(i)
      BY <1>13, <2>1, EnterIn DEF Halt, DestroyBegin, TypeOK, New
    <2> QED BY <1>2, <1>13, <2>2 DEF Halt, DestroyBegin
  <1>14. ASSUME NEW o \in Owners, NEW k \in {"message", "event"}, Post(o, k)
         PROVE  Drained'
    <2>1. \A t \in ToSet(queue') : t \in ToSet(queue) \/ t.owner = o
      BY <1>14, PushFacts DEF Post
    <2>2. \A i \in DOMAIN stack : stack[i].op = "repush" => stack[i].who # o
      BY <1>14 DEF Post, DestructorCalls
    <2>3. stack' = stack
      BY <1>14 DEF Post, Push
    <2> QED BY <2>1, <2>2, <2>3 DEF Drained
  <1>15. CASE UNCHANGED vars
    BY <1>15 DEF vars, Drained
  <1> QED
    BY <1>3, <1>4, <1>5, <1>6, <1>7, <1>8, <1>9, <1>10, <1>11, <1>12, <1>13,
       <1>14, <1>15 DEF Next, Engine

(* When the destructor of an object ends, nothing of it is pending: not in *)
(* the queue, which was drained, and not in another destructor's vector,   *)
(* for no other drain is in progress.                                      *)
LEMMA NothingLeft ==
  ASSUME ConstantsAssumption, TypeOK, CallShape, KeptInDrain, Drained, DestroyEnd,
         Top.who \in Owners, NEW t \in Pending
  PROVE  t.owner # Top.who
  <1>1. stack # <<>> /\ Top.op = "repush"
    BY DEF DestroyEnd, Running, Top
  <1>2. CASE t \in ToSet(queue)
    BY <1>1, <1>2, TopFacts DEF Drained, TypeOK
  <1>3. ASSUME NEW d \in Drainers, t \in ToSet(kept[d]) PROVE FALSE
    <2>1. kept[d] # <<>>
      BY <1>3 DEF ToSet
    <2>2. d # Top.who
      BY <2>1 DEF DestroyEnd
    <2>3. PICK i \in DOMAIN stack :
            stack[i].op \in {"drain", "repush"} /\ stack[i].who = d
      BY <2>1 DEF KeptInDrain, DrainOf
    <2>4. i < Len(stack) /\ Len(stack) \in DOMAIN stack
      BY <1>1, <2>2, <2>3, TopFacts DEF TypeOK
    <2>5. stack[i].op = "drain"
      BY <2>3, <2>4 DEF CallShape
    <2>6. Top.who = Wrapper
      BY <1>1, <2>4, <2>5, TopFacts DEF CallShape, TypeOK
    <2> QED BY <2>6 DEF ConstantsAssumption
  <1> QED BY <1>2, <1>3, PendingTasks

LEMMA StaleStep ==
  ASSUME ConstantsAssumption, TypeOK, CallShape, ThreadsOwned, KeptInDrain, Drained,
         NoStaleTask, [Next]_vars
  PROVE  NoStaleTask'
  <1>1. ASSUME Pending' \subseteq Pending, UNCHANGED obj PROVE NoStaleTask'
    BY <1>1 DEF NoStaleTask
  <1>2. CASE FramePop \/ DrainRun
    BY <1>1, <1>2, PopFacts DEF FramePop, DrainRun
  <1>3. CASE DrainKeep
    BY <1>1, <1>3, KeepPending DEF DrainKeep
  <1>4. CASE Repush
    BY <1>1, <1>4, RepushPending DEF Repush
  <1>5. CASE HaltEnd \/ FrameEnd \/ StopJoin \/ DrainEmpty
    BY <1>1, <1>5 DEF HaltEnd, FrameEnd, StopJoin, DrainEmpty, Pending
  <1>6. CASE FrameBegin \/ CallbackReturn
    BY <1>1, <1>6 DEF FrameBegin, CallbackReturn, Pending
  <1>7. CASE DestroyEnd
    <2>1. Pending' = Pending
      BY <1>7 DEF DestroyEnd, Pending
    <2>2. ASSUME NEW t \in Pending, t.owner # NoOwner
          PROVE  obj'[t.owner] \in {"live", "destroying"}
      <3>1. t.owner \in Owners
        BY <2>2, PendingTasks DEF Task
      <3>2. t.owner # Top.who
        BY <1>7, <2>2, <3>1, NothingLeft
      <3> QED BY <1>7, <2>2, <3>1, <3>2 DEF DestroyEnd, NoStaleTask
    <2> QED BY <2>1, <2>2 DEF NoStaleTask
  <1>8. CASE PostResponse
    <2>1. \A t \in Pending' : t \in Pending \/ t.owner = NoOwner
      BY <1>8, PushFacts DEF PostResponse
    <2> QED BY <1>8, <2>1 DEF PostResponse, Push, NoStaleTask
  <1>9. ASSUME NEW o \in Owners, NEW k \in {"message", "event"}, Post(o, k)
        PROVE  NoStaleTask'
    <2>1. \A t \in Pending' : t \in Pending \/ t.owner = o
      BY <1>9, PushFacts DEF Post
    <2>2. obj[o] \in {"live", "destroying"}
      BY <1>9 DEF Post, ThreadsOwned
    <2> QED BY <1>9, <2>1, <2>2 DEF Post, Push, NoStaleTask
  <1>10. ASSUME NEW o \in Owners, Create(o) \/ DestroyBegin(o)
         PROVE  NoStaleTask'
    <2>1. Pending' = Pending
      BY <1>10 DEF Create, DestroyBegin, Pending
    <2>2. \A p \in Owners : obj[p] \in {"live", "destroying"}
                              => obj'[p] \in {"live", "destroying"}
      BY <1>10 DEF Create, DestroyBegin, TypeOK
    <2>3. \A t \in Pending : t.owner # NoOwner => t.owner \in Owners
      BY PendingTasks DEF Task
    <2> QED BY <2>1, <2>2, <2>3 DEF NoStaleTask
  <1>11. ASSUME NEW o \in Owners, Start(o) \/ Halt(o) \/ ThreadExit(o)
         PROVE  NoStaleTask'
    BY <1>1, <1>11 DEF Start, Halt, ThreadExit, Pending
  <1>12. CASE UNCHANGED vars
    BY <1>1, <1>12 DEF vars, Pending
  <1> QED
    BY <1>2, <1>3, <1>4, <1>5, <1>6, <1>7, <1>8, <1>9, <1>10, <1>11, <1>12
       DEF Next, Engine

-----------------------------------------------------------------------------
(* Lists of distinct tasks, and lists in order. *)

LEMMA AppendList ==
  ASSUME NEW s \in Seq(Task), NEW t \in Task
  PROVE  /\ (Distinct(s) /\ \A u \in ToSet(s) : u.id # t.id) => Distinct(Append(s, t))
         /\ (InOrder(s) /\ \A u \in ToSet(s) : Before(u, t)) => InOrder(Append(s, t))
  <1>1. /\ DOMAIN s = 1..Len(s)
        /\ DOMAIN Append(s, t) = 1..(Len(s) + 1)
        /\ Append(s, t)[Len(s) + 1] = t
        /\ \A i \in 1..Len(s) : Append(s, t)[i] = s[i] /\ s[i] \in ToSet(s)
    BY AppendFacts DEF ToSet
  <1>2. ASSUME Distinct(s), \A u \in ToSet(s) : u.id # t.id
        PROVE  Distinct(Append(s, t))
    BY <1>1, <1>2 DEF Distinct
  <1>3. ASSUME InOrder(s), \A u \in ToSet(s) : Before(u, t)
        PROVE  InOrder(Append(s, t))
    <2>1. SUFFICES ASSUME NEW i \in 1..(Len(s) + 1), NEW j \in 1..(Len(s) + 1), i < j
                   PROVE  Before(Append(s, t)[i], Append(s, t)[j])
      BY <1>1 DEF InOrder
    <2>2. i \in 1..Len(s)
      BY <2>1
    <2>3. CASE j \in 1..Len(s)
      BY <1>1, <1>3, <2>1, <2>2, <2>3 DEF InOrder
    <2>4. CASE j = Len(s) + 1
      BY <1>1, <1>3, <2>2, <2>4
    <2> QED BY <2>1, <2>3, <2>4
  <1> QED BY <1>2, <1>3

LEMMA TailList ==
  ASSUME NEW s \in Seq(Task), s # <<>>
  PROVE  /\ Distinct(s) => /\ Distinct(Tail(s))
                           /\ \A u \in ToSet(Tail(s)) : u.id # Head(s).id
         /\ InOrder(s) => /\ InOrder(Tail(s))
                          /\ \A u \in ToSet(Tail(s)) : Before(Head(s), u)
  <1>1. /\ Len(s) \in Nat \ {0}
        /\ DOMAIN s = 1..Len(s)
        /\ DOMAIN Tail(s) = 1..(Len(s) - 1)
        /\ Head(s) = s[1]
        /\ \A i \in 1..(Len(s) - 1) : Tail(s)[i] = s[i + 1] /\ i + 1 \in 1..Len(s)
    BY TailFacts
  <1>2. ASSUME Distinct(s)
        PROVE  Distinct(Tail(s)) /\ \A u \in ToSet(Tail(s)) : u.id # Head(s).id
    <2>1. Distinct(Tail(s))
      BY <1>1, <1>2 DEF Distinct
    <2>2. \A i \in 1..(Len(s) - 1) : Tail(s)[i].id # Head(s).id
      BY <1>1, <1>2 DEF Distinct
    <2> QED BY <1>1, <2>1, <2>2 DEF ToSet
  <1>3. ASSUME InOrder(s)
        PROVE  InOrder(Tail(s)) /\ \A u \in ToSet(Tail(s)) : Before(Head(s), u)
    <2>1. InOrder(Tail(s))
      BY <1>1, <1>3 DEF InOrder
    <2>2. \A i \in 1..(Len(s) - 1) : Before(Head(s), Tail(s)[i])
      BY <1>1, <1>3 DEF InOrder
    <2> QED BY <1>1, <2>1, <2>2 DEF ToSet
  <1> QED BY <1>2, <1>3

-----------------------------------------------------------------------------
(* No task is lost, run twice or duplicated. *)

LEMMA ConservationPush ==
  ASSUME TypeOK, TaskConservation,
         NEW o \in Owners \cup {NoOwner}, NEW k \in {"message", "event"}, Push(o, k)
  PROVE  TaskConservation'
  <1> DEFINE n == NewTask(o, k)
  <1>1. /\ n \in Task /\ n.id = nextId
        /\ queue' = Append(queue, n)
        /\ ToSet(queue') = ToSet(queue) \cup {n}
        /\ Pending' = Pending \cup {n}
    BY PushFacts
  <1>2. nextId' = nextId + 1 /\ done' = done /\ kept' = kept
    BY DEF Push
  <1>3. nextId \in Nat \ {0} /\ queue \in Seq(Task) /\ done \subseteq Nat
    BY DEF TypeOK
  <1> HIDE DEF n
  <1>4. /\ \A t \in Pending : t.id \in 1..(nextId - 1)
        /\ done \subseteq 1..(nextId - 1)
    BY DEF TaskConservation
  <1>5. nextId \notin 1..(nextId - 1) /\ 1..nextId = 1..(nextId - 1) \cup {nextId}
    BY <1>3
  <1>6. {t.id : t \in Pending'} \cup done' = 1..(nextId' - 1)
    <2>1. {t.id : t \in Pending'} = {t.id : t \in Pending} \cup {nextId}
      BY <1>1
    <2>2. nextId' - 1 = nextId
      BY <1>2, <1>3
    <2> QED BY <1>2, <1>5, <2>1, <2>2 DEF TaskConservation
  <1>7. \A t \in Pending' : t.id \notin done'
    BY <1>1, <1>2, <1>4, <1>5 DEF TaskConservation
  <1>8. \A t \in Pending : t.id # n.id
    BY <1>1, <1>4, <1>5
  <1>9. Distinct(queue)'
    <2>1. \A t \in ToSet(queue) : t.id # n.id
      BY <1>8, PendingTasks
    <2> QED BY <1>1, <1>3, <2>1, AppendList DEF TaskConservation, Distinct
  <1>10. \A d \in Drainers : Apart(queue, kept[d])'
    BY <1>1, <1>2, <1>8, PendingTasks DEF TaskConservation, Apart
  <1> QED BY <1>2, <1>6, <1>7, <1>9, <1>10 DEF TaskConservation, Distinct, Apart

LEMMA ConservationPop ==
  ASSUME TypeOK, TaskConservation, queue # <<>>, queue' = Tail(queue),
         done' = done \cup {Head(queue).id}, UNCHANGED <<kept, nextId>>
  PROVE  TaskConservation'
  <1>1. /\ ToSet(queue) = {Head(queue)} \cup ToSet(queue')
        /\ Pending = {Head(queue)} \cup Pending'
    BY PopFacts
  <1>2. Distinct(queue)' /\ \A u \in ToSet(queue') : u.id # Head(queue).id
    BY TailList DEF TypeOK, TaskConservation, Distinct
  <1>3. \A d \in Drainers : \A u \in ToSet(kept[d]) : u.id # Head(queue).id
    BY <1>1 DEF TaskConservation, Apart
  <1>4. \A u \in Pending' : u.id # Head(queue).id
    BY <1>2, <1>3 DEF Pending
  <1>5. {t.id : t \in Pending'} \cup done' = 1..(nextId' - 1)
    BY <1>1 DEF TaskConservation
  <1>6. \A t \in Pending' : t.id \notin done'
    BY <1>1, <1>4 DEF TaskConservation
  <1>7. \A d \in Drainers : Apart(queue, kept[d])'
    BY <1>1 DEF TaskConservation, Apart
  <1> QED BY <1>2, <1>5, <1>6, <1>7 DEF TaskConservation, Distinct, Apart

LEMMA ConservationKeep ==
  ASSUME TypeOK, TaskConservation, DrainKeep
  PROVE  TaskConservation'
  <1> DEFINE h == Head(queue)
             w == Top.who
  <1>1. /\ w \in Drainers /\ h \in Task
        /\ ToSet(queue) = {h} \cup ToSet(queue')
        /\ kept'[w] = Append(kept[w], h)
        /\ ToSet(kept'[w]) = ToSet(kept[w]) \cup {h}
        /\ \A d \in Drainers \ {w} : kept'[d] = kept[d]
    BY KeepFacts
  <1>2. Distinct(queue)' /\ \A u \in ToSet(queue') : u.id # h.id
    BY TailList DEF DrainKeep, TypeOK, TaskConservation, Distinct
  <1> HIDE DEF h, w
  <1>3. \A d \in Drainers : \A u \in ToSet(kept[d]) : u.id # h.id
    BY <1>1 DEF TaskConservation, Apart
  <1>4. \A d \in Drainers : Distinct(kept'[d])
    <2>1. Distinct(kept'[w])
      BY <1>1, <1>3, AppendList DEF TypeOK, TaskConservation
    <2> QED BY <1>1, <2>1 DEF TaskConservation
  <1>5. \A d \in Drainers : Apart(queue', kept'[d])
    <2>1. Apart(queue', kept'[w])
      BY <1>1, <1>2 DEF TaskConservation, Apart
    <2> QED BY <1>1, <2>1 DEF TaskConservation, Apart
  <1>6. \A d \in Drainers : \A e \in Drainers \ {d} : Apart(kept'[d], kept'[e])
    <2> TAKE d \in Drainers
    <2> TAKE e \in Drainers \ {d}
    <2>1. CASE d = w
      BY <1>1, <1>3, <2>1 DEF TaskConservation, Apart
    <2>2. CASE e = w
      BY <1>1, <1>3, <2>2 DEF TaskConservation, Apart
    <2>3. CASE d # w /\ e # w
      BY <1>1, <2>3 DEF TaskConservation, Apart
    <2> QED BY <2>1, <2>2, <2>3
  <1>7. Pending' = Pending /\ UNCHANGED <<done, nextId>>
    BY KeepPending DEF DrainKeep
  <1> QED BY <1>2, <1>4, <1>5, <1>6, <1>7 DEF TaskConservation, Distinct, Apart

LEMMA ConservationRepush ==
  ASSUME TypeOK, TaskConservation, Repush
  PROVE  TaskConservation'
  <1> DEFINE w == Top.who
             h == Head(kept[w])
  <1>1. /\ w \in Drainers /\ h \in Task
        /\ ToSet(queue') = ToSet(queue) \cup {h}
        /\ kept'[w] = Tail(kept[w])
        /\ ToSet(kept[w]) = {h} \cup ToSet(kept'[w])
        /\ \A d \in Drainers \ {w} : kept'[d] = kept[d]
    BY RepushFacts
  <1>2. Distinct(kept'[w]) /\ \A u \in ToSet(kept'[w]) : u.id # h.id
    BY <1>1, RepushFacts, TailList DEF Repush, TaskConservation
  <1>3. queue' = Append(queue, h)
    BY DEF Repush
  <1> HIDE DEF h, w
  <1>4. Distinct(queue')
    <2>1. \A u \in ToSet(queue) : u.id # h.id
      BY <1>1 DEF TaskConservation, Apart
    <2> QED BY <1>1, <1>3, <2>1, AppendList DEF TypeOK, TaskConservation
  <1>5. \A d \in Drainers : Distinct(kept'[d])
    BY <1>1, <1>2 DEF TaskConservation
  <1>6. \A d \in Drainers : Apart(queue', kept'[d])
    <2>1. Apart(queue', kept'[w])
      BY <1>1, <1>2 DEF TaskConservation, Apart
    <2> QED BY <1>1, <2>1 DEF TaskConservation, Apart
  <1>7. \A d \in Drainers : \A e \in Drainers \ {d} : Apart(kept'[d], kept'[e])
    BY <1>1 DEF TaskConservation, Apart
  <1>8. Pending' = Pending /\ UNCHANGED <<done, nextId>>
    BY RepushPending DEF Repush
  <1> QED BY <1>4, <1>5, <1>6, <1>7, <1>8 DEF TaskConservation, Distinct, Apart

LEMMA ConservationStep ==
  ASSUME TypeOK, TaskConservation, [Next]_vars
  PROVE  TaskConservation'
  <1>1. ASSUME UNCHANGED <<queue, kept, done, nextId>> PROVE TaskConservation'
    BY <1>1 DEF TaskConservation, Pending, Distinct, Apart
  <1>2. CASE FramePop \/ DrainRun
    BY <1>2, ConservationPop DEF FramePop, DrainRun, OnCompleted
  <1>3. CASE DrainKeep
    BY <1>3, ConservationKeep
  <1>4. CASE Repush
    BY <1>4, ConservationRepush
  <1>5. CASE HaltEnd \/ FrameEnd \/ StopJoin \/ DrainEmpty \/ DestroyEnd
    BY <1>1, <1>5 DEF HaltEnd, FrameEnd, StopJoin, DrainEmpty, DestroyEnd
  <1>6. CASE FrameBegin \/ CallbackReturn
    BY <1>1, <1>6 DEF FrameBegin, CallbackReturn
  <1>7. CASE PostResponse
    BY <1>7, ConservationPush DEF PostResponse
  <1>8. ASSUME NEW o \in Owners, NEW k \in {"message", "event"}, Post(o, k)
        PROVE  TaskConservation'
    BY <1>8, ConservationPush DEF Post
  <1>9. ASSUME NEW o \in Owners,
               Create(o) \/ Start(o) \/ Halt(o) \/ DestroyBegin(o) \/ ThreadExit(o)
        PROVE  TaskConservation'
    BY <1>1, <1>9 DEF Create, Start, Halt, DestroyBegin, ThreadExit
  <1>10. CASE UNCHANGED vars
    BY <1>1, <1>10 DEF vars
  <1> QED
    BY <1>2, <1>3, <1>4, <1>5, <1>6, <1>7, <1>8, <1>9, <1>10 DEF Next, Engine

-----------------------------------------------------------------------------
(* The order of the queue and of what drains hold. *)

LEMMA WrapperKeptEmpty ==
  ASSUME ConstantsAssumption, TypeOK, CallShape, KeptInDrain, stack # <<>>,
         Top.op \notin {"drain", "repush"} \/ Top.who # Wrapper
  PROVE  kept[Wrapper] = <<>>
  <1> SUFFICES ASSUME kept[Wrapper] # <<>> PROVE FALSE
    OBVIOUS
  <1>1. PICK i \in DOMAIN stack :
          stack[i].op \in {"drain", "repush"} /\ stack[i].who = Wrapper
    BY DEF KeptInDrain, DrainOf, Drainers
  <1>2. i = Len(stack)
    BY <1>1, TopFacts DEF CallShape, TypeOK
  <1> QED BY <1>1, <1>2, TopFacts DEF TypeOK

LEMMA StopKeptEmpty ==
  ASSUME ConstantsAssumption, TypeOK, CallShape, KeptInDrain, stack # <<>>,
         Top.op = "stop"
  PROVE  kept[Top.who] = <<>>
  <1> SUFFICES ASSUME kept[Top.who] # <<>> PROVE FALSE
    OBVIOUS
  <1>1. Top.who \in Owners /\ Top.who # Wrapper
    BY TopFacts DEF TypeOK, ConstantsAssumption
  <1>2. PICK i \in DOMAIN stack :
          stack[i].op \in {"drain", "repush"} /\ stack[i].who = Top.who
    BY <1>1 DEF KeptInDrain, DrainOf, Drainers
  <1>3. i < Len(stack) /\ Len(stack) \in DOMAIN stack /\ Top = stack[Len(stack)]
    BY <1>2, TopFacts DEF TypeOK
  <1>4. stack[i].op = "drain"
    BY <1>2, <1>3 DEF CallShape
  <1> QED BY <1>1, <1>3, <1>4 DEF CallShape

LEMMA OrderPush ==
  ASSUME TypeOK, TaskConservation, QueueOrder,
         NEW o \in Owners \cup {NoOwner}, NEW k \in {"message", "event"}, Push(o, k)
  PROVE  QueueOrder'
  <1> DEFINE n == NewTask(o, k)
  <1>1. /\ n \in Task /\ n.id = nextId /\ n.late = Draining
        /\ queue' = Append(queue, n)
        /\ ToSet(queue') = ToSet(queue) \cup {n}
    BY PushFacts
  <1>2. stack' = stack /\ kept' = kept
    BY DEF Push
  <1> HIDE DEF n
  <1>3. \A u \in Pending : u.id \in 1..(nextId - 1)
    BY DEF TaskConservation
  <1>4. \A u \in Pending : Before(u, n)
    BY <1>1, <1>3 DEF Before, TypeOK
  <1>5. InOrder(queue')
    BY <1>1, <1>4, PendingTasks, AppendList DEF TypeOK, QueueOrder
  <1>6. ASSUME NEW i \in DOMAIN stack, stack[i].op = "drain"
        PROVE  AllBefore(kept[stack[i].who], queue')
    <2>1. stack[i].who \in Drainers
      <3>1. stack[i] \in Call
        BY DEF TypeOK
      <3> QED BY <1>6, <3>1 DEF Call
    <2> QED BY <1>1, <1>4, <1>6, <2>1, PendingTasks DEF QueueOrder, AllBefore
  <1>7. ASSUME NEW i \in DOMAIN stack, stack[i].op = "repush"
        PROVE  AllBefore(queue', kept[stack[i].who])
    <2>1. \A u : Before(n, u)
      BY <1>1, <1>7 DEF Draining, Before
    <2> QED BY <1>1, <1>7, <2>1 DEF QueueOrder, AllBefore
  <1> QED BY <1>2, <1>5, <1>6, <1>7 DEF QueueOrder, InOrder, AllBefore

LEMMA OrderPop ==
  ASSUME TypeOK, QueueOrder, queue # <<>>, queue' = Tail(queue),
         OnCompleted(Head(queue)), UNCHANGED kept
  PROVE  QueueOrder'
  <1>1. InOrder(queue') /\ ToSet(queue') \subseteq ToSet(queue)
    BY PopFacts, TailList DEF TypeOK, QueueOrder
  <1>2. \A i \in DOMAIN stack' :
          \/ i \in DOMAIN stack /\ stack'[i] = stack[i]
          \/ stack'[i].op \in {"event", "message"}
    BY CompletedIn
  <1> QED BY <1>1, <1>2 DEF QueueOrder, InOrder, AllBefore

LEMMA OrderKeep ==
  ASSUME ConstantsAssumption, TypeOK, CallShape, KeptInDrain, QueueOrder, DrainKeep
  PROVE  QueueOrder'
  <1> DEFINE h == Head(queue)
             w == Top.who
  <1>1. /\ w \in Drainers /\ h \in Task
        /\ ToSet(queue) = {h} \cup ToSet(queue')
        /\ kept'[w] = Append(kept[w], h)
        /\ ToSet(kept'[w]) = ToSet(kept[w]) \cup {h}
        /\ \A d \in Drainers \ {w} : kept'[d] = kept[d]
    BY KeepFacts
  <1>2. InOrder(queue') /\ \A u \in ToSet(queue') : Before(h, u)
    BY TailList DEF DrainKeep, TypeOK, QueueOrder
  <1>3. /\ stack # <<>> /\ Top.op = "drain" /\ Len(stack) \in DOMAIN stack
        /\ stack[Len(stack)] = Top /\ stack' = stack
    BY TopFacts DEF DrainKeep, Running, Top, TypeOK
  <1>4. w # Wrapper => kept[Wrapper] = <<>>
    BY <1>3, WrapperKeptEmpty
  <1>5. AllBefore(kept[w], queue)
    BY <1>3 DEF QueueOrder
  <1> HIDE DEF h, w
  <1>6. \A d \in Drainers : InOrder(kept'[d])
    <2>1. InOrder(kept'[w])
      BY <1>1, <1>5, AppendList DEF TypeOK, QueueOrder, AllBefore
    <2> QED BY <1>1, <2>1 DEF QueueOrder
  <1>7. ASSUME NEW i \in DOMAIN stack, stack[i].op = "drain"
        PROVE  /\ AllBefore(kept'[stack[i].who], queue')
               /\ stack[i].who # Wrapper =>
                    AllBefore(kept'[stack[i].who], kept'[Wrapper])
    <2>1. stack[i].who \in Drainers
      <3>1. stack[i] \in Call
        BY DEF TypeOK
      <3> QED BY <1>7, <3>1 DEF Call
    <2>2. CASE stack[i].who = w
      <3>1. AllBefore(kept'[w], queue')
        BY <1>1, <1>2, <1>5 DEF AllBefore
      <3>2. w # Wrapper => ToSet(kept'[Wrapper]) = {}
        BY <1>1, <1>4 DEF Drainers, ToSet
      <3> QED BY <2>2, <3>1, <3>2 DEF AllBefore
    <2>3. CASE stack[i].who # w
      <3>1. kept'[stack[i].who] = kept[stack[i].who]
        BY <1>1, <2>1, <2>3
      <3>2. ToSet(kept'[Wrapper]) \subseteq ToSet(kept[Wrapper]) \cup ToSet(queue)
        BY <1>1 DEF Drainers
      <3> QED BY <1>1, <1>7, <3>1, <3>2 DEF QueueOrder, AllBefore
    <2> QED BY <2>2, <2>3
  <1>8. \A i \in DOMAIN stack : stack[i].op # "repush"
    BY <1>3 DEF CallShape, TypeOK
  <1> QED BY <1>2, <1>3, <1>6, <1>7, <1>8 DEF QueueOrder, InOrder, AllBefore

LEMMA OrderRepush ==
  ASSUME ConstantsAssumption, TypeOK, CallShape, QueueOrder, Repush
  PROVE  QueueOrder'
  <1> DEFINE w == Top.who
             h == Head(kept[w])
  <1>1. /\ w \in Drainers /\ h \in Task
        /\ ToSet(queue') = ToSet(queue) \cup {h}
        /\ kept'[w] = Tail(kept[w])
        /\ ToSet(kept[w]) = {h} \cup ToSet(kept'[w])
        /\ \A d \in Drainers \ {w} : kept'[d] = kept[d]
    BY RepushFacts
  <1>2. InOrder(kept'[w]) /\ \A u \in ToSet(kept'[w]) : Before(h, u)
    BY <1>1, RepushFacts, TailList DEF Repush, QueueOrder
  <1>3. /\ stack # <<>> /\ Top.op = "repush" /\ Len(stack) \in DOMAIN stack
        /\ stack[Len(stack)] = Top /\ stack' = stack /\ queue' = Append(queue, h)
    BY TopFacts DEF Repush, Running, Top, TypeOK
  <1>4. AllBefore(queue, kept[w])
    BY <1>3 DEF QueueOrder
  <1>5. stack[Len(stack)].who = w /\ stack[Len(stack)].op = "repush"
    BY <1>3
  <1> HIDE DEF h, w
  <1>6. InOrder(queue')
    BY <1>1, <1>3, <1>4, AppendList DEF TypeOK, QueueOrder, AllBefore
  <1>7. \A d \in Drainers : InOrder(kept'[d])
    BY <1>1, <1>2 DEF QueueOrder
  <1>8. ASSUME NEW i \in DOMAIN stack, stack[i].op = "repush"
        PROVE  AllBefore(queue', kept'[stack[i].who])
    <2>1. i = Len(stack)
      BY <1>3, <1>8 DEF CallShape, TypeOK
    <2> QED BY <1>1, <1>2, <1>4, <1>5, <2>1 DEF AllBefore
  <1>9. ASSUME NEW i \in DOMAIN stack, stack[i].op = "drain"
        PROVE  /\ AllBefore(kept'[stack[i].who], queue')
               /\ stack[i].who # Wrapper =>
                    AllBefore(kept'[stack[i].who], kept'[Wrapper])
    <2>1. i < Len(stack)
      BY <1>3, <1>5, <1>9 DEF TypeOK
    <2>2. w = Wrapper /\ stack[i].who # Wrapper
      BY <1>3, <1>5, <1>9, <2>1 DEF CallShape
    <2>3. stack[i].who \in Drainers
      <3>1. stack[i] \in Call
        BY DEF TypeOK
      <3> QED BY <1>9, <3>1 DEF Call
    <2>4. kept'[stack[i].who] = kept[stack[i].who]
      BY <1>1, <2>2, <2>3
    <2>5. /\ AllBefore(kept[stack[i].who], queue)
          /\ AllBefore(kept[stack[i].who], kept[Wrapper])
      BY <1>9, <2>2 DEF QueueOrder
    <2> QED BY <1>1, <2>2, <2>4, <2>5 DEF AllBefore
  <1> QED BY <1>3, <1>6, <1>7, <1>8, <1>9 DEF QueueOrder, InOrder, AllBefore

LEMMA OrderStep ==
  ASSUME ConstantsAssumption, TypeOK, CallShape, KeptInDrain, TaskConservation,
         QueueOrder, [Next]_vars
  PROVE  QueueOrder'
  <1>1. ASSUME UNCHANGED <<queue, kept>>,
               \A i \in DOMAIN stack' :
                 \/ i \in DOMAIN stack /\ stack'[i] = stack[i]
                 \/ stack'[i].op \notin {"drain", "repush"}
                 \/ stack'[i].op = "drain" /\ kept[stack'[i].who] = <<>>
                 \/ stack'[i].op = "repush" /\ queue = <<>>
        PROVE  QueueOrder'
    <2>1. ToSet(<<>>) = {}
      BY DEF ToSet
    <2> QED BY <1>1, <2>1 DEF QueueOrder, InOrder, AllBefore
  <1>2. CASE FramePop \/ DrainRun
    BY <1>2, OrderPop DEF FramePop, DrainRun
  <1>3. CASE DrainKeep
    BY <1>3, OrderKeep
  <1>4. CASE Repush
    BY <1>4, OrderRepush
  <1>5. CASE HaltEnd \/ FrameEnd \/ DestroyEnd
    BY <1>1, <1>5, ReturnIn DEF HaltEnd, FrameEnd, DestroyEnd, Running, TypeOK
  <1>6. CASE StopJoin
    <2>1. stack # <<>> /\ Top.op = "stop"
      BY <1>6 DEF StopJoin, Running, Top
    <2>2. [op |-> "drain", who |-> Top.who] \in Call /\ kept[Top.who] = <<>>
      BY <2>1, TopFacts, StopKeptEmpty DEF TypeOK, Call, Drainers
    <2>3. \A i \in DOMAIN stack' :
            \/ i \in DOMAIN stack /\ stack'[i] = stack[i]
            \/ stack'[i] = [op |-> "drain", who |-> Top.who]
      BY <1>6, <2>1, <2>2, BecomeIn DEF StopJoin, TypeOK
    <2> QED BY <1>1, <1>6, <2>2, <2>3 DEF StopJoin
  <1>7. CASE DrainEmpty
    <2>1. stack # <<>> /\ [op |-> "repush", who |-> Top.who] \in Call
      BY <1>7, TopFacts DEF DrainEmpty, Running, Top, TypeOK, Call
    <2>2. \A i \in DOMAIN stack' :
            \/ i \in DOMAIN stack /\ stack'[i] = stack[i]
            \/ stack'[i] = [op |-> "repush", who |-> Top.who]
      BY <1>7, <2>1, BecomeIn DEF DrainEmpty, TypeOK
    <2> QED BY <1>1, <1>7, <2>2 DEF DrainEmpty
  <1>8. CASE FrameBegin
    <2>1. [op |-> "frame", who |-> NoOwner] \in Call
      BY DEF Call
    <2> QED BY <1>1, <1>8, <2>1, EnterIn DEF FrameBegin, TypeOK
  <1>9. CASE CallbackReturn
    <2>1. stack # <<>> /\ Top.op \in {"event", "message"}
      BY <1>9 DEF CallbackReturn, Running, Top
    <2>2. CASE Become("drain", Wrapper)
      <3>1. [op |-> "drain", who |-> Wrapper] \in Call /\ kept[Wrapper] = <<>>
        BY <2>1, WrapperKeptEmpty DEF Call, Drainers
      <3>2. \A i \in DOMAIN stack' :
              \/ i \in DOMAIN stack /\ stack'[i] = stack[i]
              \/ stack'[i] = [op |-> "drain", who |-> Wrapper]
        BY <2>1, <2>2, <3>1, BecomeIn DEF TypeOK
      <3> QED BY <1>1, <1>9, <3>1, <3>2 DEF CallbackReturn
    <2>3. CASE Return
      BY <1>1, <1>9, <2>1, <2>3, ReturnIn DEF CallbackReturn, TypeOK
    <2> QED BY <1>9, <2>2, <2>3 DEF CallbackReturn
  <1>10. CASE PostResponse
    BY <1>10, OrderPush DEF PostResponse
  <1>11. ASSUME NEW o \in Owners, NEW k \in {"message", "event"}, Post(o, k)
         PROVE  QueueOrder'
    BY <1>11, OrderPush DEF Post
  <1>12. ASSUME NEW o \in Owners, Create(o) \/ Start(o) \/ ThreadExit(o)
         PROVE  QueueOrder'
    BY <1>1, <1>12 DEF Create, Start, ThreadExit
  <1>13. ASSUME NEW o \in Owners, Halt(o) \/ DestroyBegin(o)
         PROVE  QueueOrder'
    <2>1. /\ [op |-> "halt", who |-> o] \in Call
          /\ [op |-> "stop", who |-> o] \in Call
      BY DEF Call
    <2> QED BY <1>1, <1>13, <2>1, EnterIn DEF Halt, DestroyBegin, TypeOK
  <1>14. CASE UNCHANGED vars
    BY <1>1, <1>14 DEF vars
  <1> QED
    BY <1>2, <1>3, <1>4, <1>5, <1>6, <1>7, <1>8, <1>9, <1>10, <1>11, <1>12,
       <1>13, <1>14 DEF Next, Engine

-----------------------------------------------------------------------------
(* The inductive invariant. *)

LEMMA InvInit ==
  ASSUME ConstantsAssumption, Init
  PROVE  IInv
  <1>1. ToSet(<<>>) = {}
    BY DEF ToSet
  <1>2. \A d \in Drainers : kept[d] = <<>>
    BY DEF Init
  <1>3. queue = <<>> /\ stack = <<>> /\ done = {} /\ nextId = 1
    BY DEF Init
  <1>4. Pending = {}
    BY <1>1, <1>2, <1>3 DEF Pending
  <1>5. TypeOK
    BY DEF Init, TypeOK, Life, ConstantsAssumption
  <1>6. CallShape /\ DestructorCalls /\ Drained
    BY <1>3 DEF CallShape, DestructorCalls, Drained
  <1>7. ThreadsOwned
    BY DEF Init, ThreadsOwned
  <1>8. KeptInDrain /\ KeptForOthers
    BY <1>1, <1>2 DEF KeptInDrain, KeptForOthers
  <1>9. NoStaleTask
    BY <1>4 DEF NoStaleTask
  <1>10. TaskConservation
    <2>1. {t.id : t \in Pending} \cup done = 1..(nextId - 1)
      BY <1>3, <1>4
    <2> QED BY <1>1, <1>2, <1>3, <1>4, <2>1 DEF TaskConservation, Distinct, Apart
  <1>11. QueueOrder
    BY <1>1, <1>2, <1>3 DEF QueueOrder, InOrder, AllBefore
  <1> QED
    BY <1>5, <1>6, <1>7, <1>8, <1>9, <1>10, <1>11 DEF IInv

LEMMA InvStep ==
  ASSUME ConstantsAssumption, ~NestedDestroy, IInv, [Next]_vars
  PROVE  IInv'
  BY TypeStep, ShapeStep, MuteStep, KeptStep, DrainedStep, StaleStep,
     ConservationStep, OrderStep DEF IInv

(* If callbacks run by a drain destroy no further object, TaskPump stays   *)
(* within the inductive invariant.                                         *)
THEOREM Invariance ==
  ASSUME ~NestedDestroy
  PROVE  Spec => []IInv
  <1>1. Init => IInv
    BY ConstantsAssumption, InvInit
  <1>2. IInv /\ [Next]_vars => IInv'
    BY ConstantsAssumption, InvStep
  <1> QED BY <1>1, <1>2, PTL DEF Spec

(* No task outlives its owner: when ~WebSocketClient or ~WebSocketServer   *)
(* ends, no task of the object is left anywhere.                           *)
THEOREM NoTaskOutlivesItsOwner ==
  ASSUME ~NestedDestroy
  PROVE  Spec => []NoStaleTask
  <1>1. IInv => NoStaleTask
    BY DEF IInv
  <1> QED BY <1>1, Invariance, PTL

(* Whatever the callbacks do, nested destruction included, a drain and a   *)
(* re-push neither lose nor duplicate a task.                              *)
THEOREM TasksConserved == Spec => []TaskConservation
  <1>1. Init => TypeOK /\ TaskConservation
    BY ConstantsAssumption, InvInit DEF IInv
  <1>2. TypeOK /\ TaskConservation /\ [Next]_vars => TypeOK' /\ TaskConservation'
    BY ConstantsAssumption, TypeStep, ConservationStep
  <1> QED BY <1>1, <1>2, PTL DEF Spec

-----------------------------------------------------------------------------
(* The order in which tasks run. *)

(* A task that runs is the first of the queue. *)
LEMMA RunIsHead ==
  ASSUME TypeOK, TaskConservation, [Next]_vars,
         NEW t \in Pending, t.id \in done' \ done
  PROVE  /\ FramePop \/ DrainRun
         /\ t = Head(queue)
  <1>1. FramePop \/ DrainRun
    BY DEF Next, Engine, HaltEnd, FrameEnd, StopJoin, DrainKeep, DrainEmpty, Repush,
           DestroyEnd, FrameBegin, CallbackReturn, PostResponse, Post, Push, Create,
           Start, Halt, DestroyBegin, ThreadExit, vars
  <1>2. t.id = Head(queue).id /\ queue # <<>>
    BY <1>1 DEF FramePop, DrainRun, OnCompleted
  <1>3. queue \in Seq(Task) /\ Head(queue) \in ToSet(queue)
    BY <1>2, TailFacts DEF TypeOK
  <1>4. t \in ToSet(queue)
    BY <1>2, <1>3, PendingTasks DEF TaskConservation, Apart
  <1>5. t = Head(queue)
    <2>1. \A u \in ToSet(Tail(queue)) : u.id # Head(queue).id
      BY <1>2, <1>3, TailList DEF TaskConservation
    <2> QED BY <1>2, <1>3, <1>4, <2>1, TailFacts
  <1> QED BY <1>1, <1>5

LEMMA OvertakingStep ==
  ASSUME ConstantsAssumption, IInv, [Next]_vars,
         NEW t \in Pending, NEW u \in Pending,
         t.id \in done' \ done, u.owner = t.owner, u.id < t.id
  PROVE  t.late
  <1> USE DEF IInv
  <1>1. (FramePop \/ DrainRun) /\ t = Head(queue)
    BY RunIsHead
  <1>2. queue # <<>> /\ queue \in Seq(Task) /\ stack # <<>> /\ t \in Task /\ u \in Task
    BY <1>1, PendingTasks DEF FramePop, DrainRun, Running, TypeOK
  <1>3. t.id > u.id /\ u # t
    BY <1>2 DEF Task
  <1>4. CASE u \in ToSet(queue)
    <2>1. u \in ToSet(Tail(queue))
      BY <1>1, <1>2, <1>3, <1>4, TailFacts
    <2> QED BY <1>1, <1>2, <1>3, <2>1, TailList DEF QueueOrder, Before
  <1>5. ASSUME NEW d \in Drainers, u \in ToSet(kept[d]) PROVE FALSE
    <2>1. kept[d] # <<>>
      BY <1>5 DEF ToSet
    <2>2. PICK i \in DOMAIN stack :
            stack[i].op \in {"drain", "repush"} /\ stack[i].who = d
      BY <2>1 DEF KeptInDrain, DrainOf
    <2>3. /\ Top = stack[Len(stack)] /\ Len(stack) \in DOMAIN stack /\ Top \in Call
          /\ i \in 1..Len(stack) /\ Len(stack) \in Nat
      BY <1>2, TopFacts DEF TypeOK
    <2>4. u.owner # d
      BY <1>5 DEF KeptForOthers
    <2>5. i < Len(stack)
      <3>1. CASE FramePop
        BY <2>2, <2>3, <3>1 DEF FramePop, Running, Top
      <3>2. CASE DrainRun
        BY <1>1, <2>2, <2>3, <2>4, <3>2 DEF DrainRun
      <3> QED BY <1>1, <3>1, <3>2
    <2>6. stack[i].op = "drain"
      BY <2>2, <2>3, <2>5 DEF CallShape
    <2>7. Top.op \in {"event", "message", "halt"} \/ Top.who = Wrapper
      BY <2>3, <2>5, <2>6 DEF CallShape
    <2>8. CASE FramePop
      BY <2>3, <2>7, <2>8 DEF FramePop, Running, Top, Call, ConstantsAssumption
    <2>9. CASE DrainRun
      <3>1. Top.op = "drain" /\ Top.who = t.owner
        BY <1>1, <2>9 DEF DrainRun, Running, Top
      <3>2. t.owner # Wrapper
        BY <1>2 DEF Task, ConstantsAssumption
      <3> QED BY <2>7, <3>1, <3>2
    <2> QED BY <1>1, <2>8, <2>9
  <1> QED BY <1>4, <1>5, PendingTasks

(* Of two tasks of one object the older runs first, unless the newer one   *)
(* was pushed while a destructor held tasks of the queue.                  *)
THEOREM OrderKept ==
  ASSUME ~NestedDestroy
  PROVE  Spec => OvertakingNeedsDrain
  <1>1. IInv /\ [Next]_vars =>
          [\A t, u \in Pending :
             (t.id \in done' \ done /\ u.owner = t.owner /\ u.id < t.id)
               => t.late]_vars
    BY ConstantsAssumption, OvertakingStep
  <1> QED BY <1>1, Invariance, PTL DEF Spec, OvertakingNeedsDrain

-----------------------------------------------------------------------------
(* The code implements Delivery. *)

LEMMA DeliveryPush ==
  ASSUME IInv, NEW o \in Owners \cup {NoOwner}, NEW k \in {"message", "event"},
         Push(o, k), ConstantsAssumption,
         o = NoOwner \/ obj[o] \in {"live", "destroying"}
  PROVE  D!Next
  <1> DEFINE v == [id |-> nextId, owner |-> o]
  <1>1. nextId \in 1..MaxTasks
    BY DEF IInv, TypeOK, Push, ConstantsAssumption
  <1>2. v \in D!Event
    BY <1>1 DEF D!Event
  <1>3. /\ \A t \in Pending : t.id # nextId
        /\ nextId \notin done
    BY DEF IInv, TypeOK, TaskConservation
  <1>4. Pending' = Pending \cup {NewTask(o, k)}
    BY PushFacts DEF IInv
  <1>5. [id |-> NewTask(o, k).id, owner |-> NewTask(o, k).owner] = v
    BY DEF NewTask
  <1>6. D!Report(v)
    BY <1>3, <1>4, <1>5 DEF D!Report, D!Exists, Push
  <1> HIDE DEF v
  <1> QED BY <1>2, <1>6 DEF D!Next, D!Report

LEMMA DeliveryPop ==
  ASSUME IInv, queue # <<>>, queue' = Tail(queue),
         done' = done \cup {Head(queue).id}, UNCHANGED <<kept, obj>>
  PROVE  D!Next
  <1> DEFINE h == Head(queue)
             v == [id |-> h.id, owner |-> h.owner]
  <1>1. h \in Task /\ Pending = {h} \cup Pending' /\ h \in Pending
    BY PopFacts DEF IInv
  <1>2. \A u \in Pending' : u.id # h.id
    <2>1. \A u \in ToSet(queue') : u.id # h.id
      BY TailList DEF IInv, TypeOK, TaskConservation
    <2>2. h \in ToSet(queue)
      BY PopFacts DEF IInv
    <2>3. \A d \in Drainers : \A u \in ToSet(kept[d]) : u.id # h.id
      BY <2>2 DEF IInv, TaskConservation, Apart
    <2> QED BY <2>1, <2>3 DEF Pending
  <1>3. h.owner = NoOwner \/ obj[h.owner] \in {"live", "destroying"}
    BY <1>1 DEF IInv, NoStaleTask
  <1> HIDE DEF h
  <1> DEFINE P == {[id |-> t.id, owner |-> t.owner] : t \in Pending}
             Q == {[id |-> t.id, owner |-> t.owner] : t \in Pending'}
  <1>4. v \in P
    BY <1>1
  <1>5. Q = P \ {v}
    BY <1>1, <1>2
  <1>6. done' = done \cup {v.id}
    BY DEF h
  <1>7. D!HandOver(v)
    BY <1>3, <1>4, <1>5, <1>6 DEF D!HandOver, D!Exists
  <1>8. v \in {[id |-> t.id, owner |-> t.owner] : t \in Pending}
    BY <1>4
  <1> HIDE DEF v
  <1> QED BY <1>7, <1>8 DEF D!Next, D!HandOver

LEMMA DeliveryStep ==
  ASSUME ConstantsAssumption, IInv, [Next]_vars
  PROVE  [D!Next]_(D!vars)
  <1>1. ASSUME Pending' = Pending, UNCHANGED <<obj, done>>
        PROVE  UNCHANGED D!vars
    BY <1>1 DEF D!vars
  <1>2. CASE FramePop \/ DrainRun
    BY <1>2, DeliveryPop DEF FramePop, DrainRun, OnCompleted
  <1>3. CASE DrainKeep
    BY <1>1, <1>3, KeepPending DEF DrainKeep, IInv
  <1>4. CASE Repush
    BY <1>1, <1>4, RepushPending DEF Repush, IInv
  <1>5. CASE HaltEnd \/ FrameEnd \/ StopJoin \/ DrainEmpty
    BY <1>1, <1>5 DEF HaltEnd, FrameEnd, StopJoin, DrainEmpty, Pending
  <1>6. CASE FrameBegin \/ CallbackReturn
    BY <1>1, <1>6 DEF FrameBegin, CallbackReturn, Pending
  <1>7. CASE DestroyEnd
    <2>1. Pending' = Pending /\ done' = done
      BY <1>7 DEF DestroyEnd, Pending
    <2>2. CASE Top.who \in Owners
      <3>1. obj[Top.who] = "destroying"
        BY <1>7, <2>2, TopFacts
           DEF DestroyEnd, Running, Top, IInv, TypeOK, DestructorCalls
      <3>2. obj' = [obj EXCEPT ![Top.who] = "deleted"]
        BY <1>7, <2>2 DEF DestroyEnd, IInv, TypeOK
      <3>3. \A t \in Pending : t.owner # Top.who
        BY <1>7, <2>2, NothingLeft DEF IInv
      <3>4. D!EndDestroy(Top.who)
        BY <2>1, <3>1, <3>2, <3>3 DEF D!EndDestroy
      <3> QED BY <2>2, <3>4 DEF D!Next
    <2>3. CASE Top.who \notin Owners
      <3>1. obj' = obj
        BY <1>7, <2>3 DEF DestroyEnd, IInv, TypeOK
      <3> QED BY <1>1, <2>1, <3>1
    <2> QED BY <2>2, <2>3
  <1>8. CASE PostResponse
    BY <1>8, DeliveryPush DEF PostResponse
  <1>9. ASSUME NEW o \in Owners, NEW k \in {"message", "event"}, Post(o, k)
        PROVE  D!Next
    BY <1>9, DeliveryPush DEF Post, IInv, ThreadsOwned
  <1>10. ASSUME NEW o \in Owners, Create(o) PROVE D!Next
    <2>1. Pending' = Pending
      BY <1>10 DEF Create, Pending
    <2>2. D!Create(o)
      BY <1>10, <2>1 DEF Create, D!Create
    <2> QED BY <2>2 DEF D!Next
  <1>11. ASSUME NEW o \in Owners, DestroyBegin(o) PROVE D!Next
    <2>1. Pending' = Pending
      BY <1>11 DEF DestroyBegin, Pending
    <2>2. D!BeginDestroy(o)
      BY <1>11, <2>1 DEF DestroyBegin, D!BeginDestroy
    <2> QED BY <2>2 DEF D!Next
  <1>12. ASSUME NEW o \in Owners, Start(o) \/ Halt(o) \/ ThreadExit(o)
         PROVE  UNCHANGED D!vars
    BY <1>1, <1>12 DEF Start, Halt, ThreadExit, Pending
  <1>13. CASE UNCHANGED vars
    BY <1>1, <1>13 DEF vars, Pending
  <1> QED
    BY <1>2, <1>3, <1>4, <1>5, <1>6, <1>7, <1>8, <1>9, <1>10, <1>11, <1>12, <1>13
       DEF Next, Engine

(* Queue, frame and drains together deliver every reported event at most   *)
(* once and never after its owner is gone.                                 *)
THEOREM ImplementsDelivery ==
  ASSUME ~NestedDestroy
  PROVE  Spec => Delivers
  <1>1. Init => D!Init
    <2>1. SUFFICES ASSUME Init PROVE D!Init
      OBVIOUS
    <2>2. Pending = {}
      BY <2>1 DEF Init, Pending, ToSet
    <2> QED BY <2>1, <2>2 DEF Init, D!Init
  <1>2. IInv /\ [Next]_vars => [D!Next]_(D!vars)
    BY ConstantsAssumption, DeliveryStep
  <1> QED BY <1>1, <1>2, Invariance, PTL DEF Spec, Delivers, D!Spec
=============================================================================
