--------------------------- MODULE ExtensionProofs ---------------------------
(***************************************************************************)
(* Theorems about Extension: what unloading leaves behind.  For any        *)
(* objects, requests, budget and tasks.                                    *)
(***************************************************************************)
EXTENDS Extension, TaskPumpProofs

-----------------------------------------------------------------------------
(* Each step is a step of the pump, or leaves the pump alone. *)

LEMMA PumpStep ==
  ASSUME [LifeNext]_allVars
  PROVE  [Next]_vars
  <1>1. CASE EngineStep
    BY <1>1 DEF EngineStep, Next
  <1>2. CASE Frame
    BY <1>2 DEF Frame, Next
  <1>3. CASE LifeReturn
    BY <1>3 DEF LifeReturn, ObjectReturn, ResponseReturn, Next
  <1>4. CASE \E o \in Owners : CreateObject(o) \/ OtherNative(o) \/ Background(o)
    BY <1>4 DEF CreateObject, OtherNative, Background, Next
  <1>5. CASE \E r \in Requests : CreateRequest(r) \/ Respond(r)
    BY <1>5 DEF CreateRequest, Respond, Next
  <1>6. CASE Unloading
    BY <1>6 DEF Unloading, Removed, RemoveObject, RemoveRequest, Next
  <1>7. CASE SDK_OnLoad \/ UnloadBegin \/ UNCHANGED allVars
    BY <1>7 DEF SDK_OnLoad, UnloadBegin, allVars
  <1> QED BY <1>1, <1>2, <1>3, <1>4, <1>5, <1>6, <1>7 DEF LifeNext

(* What TaskPump's theorems say holds of the extension. *)
LEMMA LifeIsPump == LifeSpec => Spec
  <1>1. LifeInit => Init
    BY DEF LifeInit
  <1>2. [LifeNext]_allVars => [Next]_vars
    BY PumpStep
  <1> QED BY <1>1, <1>2, PTL DEF LifeSpec, Spec

-----------------------------------------------------------------------------
(* Destructors. *)

Destructor(c, o) == c.op \in {"stop", "drain", "repush"} /\ c.who = o

(* A call that is entered takes no other from the stack. *)
LEMMA EnterKeeps ==
  ASSUME stack \in Seq(Call), NEW op, NEW who,
         [op |-> op, who |-> who] \in Call, Enter(op, who)
  PROVE  \A n \in DOMAIN stack : n \in DOMAIN stack' /\ stack'[n] = stack[n]
  <1>1. DOMAIN stack' = 1..(Len(stack) + 1) /\ DOMAIN stack = 1..Len(stack)
    BY EnterFacts
  <1> QED BY <1>1, EnterFacts

(* A call that ends or is replaced is the innermost. *)
LEMMA ReturnKeeps ==
  ASSUME stack \in Seq(Call), stack # <<>>, Return
  PROVE  \A n \in DOMAIN stack :
           n = Len(stack) \/ (n \in DOMAIN stack' /\ stack'[n] = stack[n])
  <1>1. DOMAIN stack' = 1..(Len(stack) - 1) /\ DOMAIN stack = 1..Len(stack)
    BY ReturnFacts
  <1> QED BY <1>1, ReturnFacts

LEMMA BecomeKeeps ==
  ASSUME stack \in Seq(Call), stack # <<>>, NEW op, NEW who,
         [op |-> op, who |-> who] \in Call, Become(op, who)
  PROVE  /\ \A n \in DOMAIN stack :
              n = Len(stack) \/ (n \in DOMAIN stack' /\ stack'[n] = stack[n])
         /\ Len(stack) \in DOMAIN stack'
         /\ stack'[Len(stack)] = [op |-> op, who |-> who]
  <1>1. DOMAIN stack' = 1..Len(stack) /\ DOMAIN stack = 1..Len(stack)
    BY BecomeFacts
  <1> QED BY <1>1, BecomeFacts

LEMMA CompletedKeeps ==
  ASSUME TypeOK, queue # <<>>, OnCompleted(Head(queue))
  PROVE  \A n \in DOMAIN stack : n \in DOMAIN stack' /\ stack'[n] = stack[n]
  <1>1. Head(queue) \in Task
    BY TailFacts DEF TypeOK
  <1>2. [op |-> Head(queue).kind, who |-> Head(queue).owner] \in Call
    BY <1>1, TaskCall
  <1> QED BY <1>2, EnterKeeps DEF OnCompleted, TypeOK

LEMMA DestroyingStep ==
  ASSUME ConstantsAssumption, TypeOK, DestroyingRuns, [Next]_vars
  PROVE  DestroyingRuns'
  <1> USE DEF TypeOK
  <1>1. CASE HaltEnd \/ FrameEnd
    <2>1. stack # <<>> /\ Top.op \in {"halt", "frame"} /\ Return /\ obj' = obj
      BY <1>1 DEF HaltEnd, FrameEnd, Running, Top
    <2> QED BY <2>1, ReturnKeeps, TopFacts DEF DestroyingRuns
  <1>2. CASE FramePop \/ DrainRun
    <2>1. queue # <<>> /\ OnCompleted(Head(queue)) /\ obj' = obj
      BY <1>2 DEF FramePop, DrainRun
    <2> QED BY <2>1, CompletedKeeps DEF DestroyingRuns
  <1>3. CASE StopJoin \/ DrainEmpty
    <2>1. /\ stack # <<>>
          /\ Top.op \in {"stop", "drain"}
          /\ Become("drain", Top.who) \/ Become("repush", Top.who)
          /\ obj' = obj
      BY <1>3 DEF StopJoin, DrainEmpty, Running, Top
    <2>2. PICK op \in {"drain", "repush"} : Become(op, Top.who)
      BY <2>1
    <2>3. [op |-> op, who |-> Top.who] \in Call
      BY <2>1, <2>2, TopFacts DEF Call, Drainers
    <2>4. /\ \A n \in DOMAIN stack :
                n = Len(stack) \/ (n \in DOMAIN stack' /\ stack'[n] = stack[n])
          /\ Len(stack) \in DOMAIN stack'
          /\ stack'[Len(stack)] = [op |-> op, who |-> Top.who]
      BY <2>1, <2>2, <2>3, BecomeKeeps
    <2>5. SUFFICES ASSUME NEW o \in Owners, obj[o] = "destroying"
                   PROVE  \E n \in DOMAIN stack' : Destructor(stack'[n], o)
      BY <2>1 DEF DestroyingRuns, Destructor
    <2>6. PICK n \in DOMAIN stack : Destructor(stack[n], o)
      BY <2>5 DEF DestroyingRuns, Destructor
    <2>7. CASE n = Len(stack)
      <3>1. Top.who = o
        BY <2>1, <2>6, <2>7, TopFacts DEF Destructor
      <3>2. Destructor(stack'[Len(stack)], o)
        BY <2>4, <3>1 DEF Destructor
      <3> QED BY <2>4, <3>2
    <2>8. CASE n # Len(stack)
      BY <2>4, <2>6, <2>8
    <2> QED BY <2>7, <2>8
  <1>4. CASE DestroyEnd
    <2>1. stack # <<>> /\ Return
      BY <1>4 DEF DestroyEnd, Running
    <2>2. obj' = [o \in Owners |-> IF o = Top.who THEN "deleted" ELSE obj[o]]
      BY <1>4 DEF DestroyEnd
    <2>3. SUFFICES ASSUME NEW o \in Owners, obj'[o] = "destroying"
                   PROVE  \E n \in DOMAIN stack' : Destructor(stack'[n], o)
      BY DEF DestroyingRuns, Destructor
    <2>4. o # Top.who /\ obj[o] = "destroying"
      BY <2>2, <2>3
    <2>5. PICK n \in DOMAIN stack : Destructor(stack[n], o)
      BY <2>4 DEF DestroyingRuns, Destructor
    <2>6. n # Len(stack)
      BY <2>1, <2>4, <2>5, TopFacts DEF Destructor
    <2> QED BY <2>1, <2>5, <2>6, ReturnKeeps
  <1>5. CASE FrameBegin
    <2>1. Enter("frame", NoOwner) /\ obj' = obj
      BY <1>5 DEF FrameBegin
    <2>2. [op |-> "frame", who |-> NoOwner] \in Call
      BY DEF Call
    <2> QED BY <2>1, <2>2, EnterKeeps DEF DestroyingRuns
  <1>6. CASE CallbackReturn
    <2>1. stack # <<>> /\ Top.op \in {"event", "message"} /\ obj' = obj
      BY <1>6 DEF CallbackReturn, Running, Top
    <2>2. Return \/ Become("drain", Wrapper)
      BY <1>6 DEF CallbackReturn
    <2>3. [op |-> "drain", who |-> Wrapper] \in Call
      BY DEF Call, Drainers
    <2>4. \A n \in DOMAIN stack :
            n = Len(stack) \/ (n \in DOMAIN stack' /\ stack'[n] = stack[n])
      BY <2>1, <2>2, <2>3, ReturnKeeps, BecomeKeeps
    <2> QED BY <2>1, <2>4, TopFacts DEF DestroyingRuns
  <1>7. ASSUME NEW o \in Owners, Halt(o)
        PROVE  DestroyingRuns'
    <2>1. Enter("halt", o) /\ obj' = obj
      BY <1>7 DEF Halt
    <2>2. [op |-> "halt", who |-> o] \in Call
      BY DEF Call
    <2> QED BY <2>1, <2>2, EnterKeeps DEF DestroyingRuns
  <1>8. ASSUME NEW o \in Owners, DestroyBegin(o)
        PROVE  DestroyingRuns'
    <2>1. Enter("stop", o) /\ obj' = [obj EXCEPT ![o] = "destroying"]
      BY <1>8 DEF DestroyBegin
    <2>2. [op |-> "stop", who |-> o] \in Call
      BY DEF Call
    <2>3. /\ Len(stack) + 1 \in DOMAIN stack'
          /\ stack'[Len(stack) + 1] = [op |-> "stop", who |-> o]
      BY <2>1, <2>2, EnterFacts
    <2>4. \A n \in DOMAIN stack : n \in DOMAIN stack' /\ stack'[n] = stack[n]
      BY <2>1, <2>2, EnterKeeps
    <2> QED BY <2>1, <2>3, <2>4 DEF DestroyingRuns
  <1>9. ASSUME NEW o \in Owners, Create(o)
        PROVE  DestroyingRuns'
    BY <1>9 DEF Create, DestroyingRuns
  <1>10. CASE \/ DrainKeep \/ Repush \/ PostResponse \/ UNCHANGED vars
              \/ \E o \in Owners :
                   \/ Start(o) \/ ThreadExit(o)
                   \/ \E kind \in {"message", "event"} : Post(o, kind)
    <2>1. UNCHANGED <<stack, obj>>
      BY <1>10 DEF DrainKeep, Repush, PostResponse, Start, ThreadExit, Post, Push, vars
    <2> QED BY <2>1 DEF DestroyingRuns
  <1> QED
    BY <1>1, <1>2, <1>3, <1>4, <1>5, <1>6, <1>7, <1>8, <1>9, <1>10
       DEF Next, Engine

-----------------------------------------------------------------------------
(* The invariant of loading and unloading. *)

LEMMA LifeInvInit ==
  ASSUME ConstantsAssumption, LifeInit
  PROVE  LifeInv
  <1>1. TypeOK
    BY InvInit DEF LifeInit, IInv
  <1> QED
    BY <1>1 DEF LifeInit, Init, LifeInv, LifeTypeOK, Phases, RequestLife,
                DestroyingRuns, UnloadShape, RemovedForGood

LEMMA LifeTypeStep ==
  ASSUME ConstantsAssumption, LifeTypeOK, [LifeNext]_allVars
  PROVE  LifeTypeOK'
  <1>1. TypeOK'
    BY PumpStep, TypeStep DEF LifeTypeOK
  <1>2. phase' \in Phases
    BY DEF LifeTypeOK, Phases, Types, LifeNext, SDK_OnLoad, EngineStep, Frame,
           LifeReturn, ObjectReturn, ResponseReturn, UnloadBegin, Unloading, Removed,
           RemoveObject, RemoveRequest, CreateObject, OtherNative, Background,
           CreateRequest, Respond, lifeVars, allVars
  <1>3. request' \in [Requests -> RequestLife]
    BY DEF LifeTypeOK, RequestLife, LifeNext, SDK_OnLoad, EngineStep, Frame,
           LifeReturn, ObjectReturn, ResponseReturn, UnloadBegin, Unloading, Removed,
           RemoveObject, RemoveRequest, CreateObject, OtherNative, Background,
           CreateRequest, Respond, lifeVars, allVars
  <1> QED BY <1>1, <1>2, <1>3 DEF LifeTypeOK

(* With no call in progress the game thread does nothing by itself. *)
LEMMA QuietEngine ==
  ASSUME stack = <<>>
  PROVE  ~EngineStep /\ ~LifeReturn
  BY DEF EngineStep, Engine, HaltEnd, FramePop, FrameEnd, StopJoin, DrainRun,
         DrainKeep, DrainEmpty, Repush, DestroyEnd, Running, LifeReturn,
         ObjectReturn, ResponseReturn

LEMMA ShapeOfUnload ==
  ASSUME LifeTypeOK, UnloadShape, [LifeNext]_allVars
  PROVE  UnloadShape'
  <1>1. CASE EngineStep \/ LifeReturn
    <2>1. stack # <<>>
      BY <1>1, QuietEngine
    <2>2. phase' = phase /\ phase \notin {"out", "requests", "gone"}
      BY <1>1, <2>1 DEF UnloadShape, EngineStep, LifeReturn, ObjectReturn,
                        ResponseReturn, lifeVars
    <2> QED BY <2>2 DEF UnloadShape
  <1>2. CASE Frame
    BY <1>2 DEF Frame, Loaded, UnloadShape, lifeVars
  <1>3. CASE SDK_OnLoad \/ UnloadBegin \/ UNCHANGED allVars
    BY <1>3 DEF SDK_OnLoad, UnloadBegin, UnloadShape, allVars, vars, lifeVars
  <1>4. CASE \E r \in Requests : RemoveRequest(r)
    BY <1>4 DEF RemoveRequest, UnloadShape, LifeTypeOK, vars
  <1>5. CASE \E o \in Owners : RemoveObject(o)
    BY <1>5 DEF RemoveObject, TypeOf, UnloadShape, lifeVars
  <1>6. CASE Removed
    BY <1>6 DEF Removed, UnloadShape, LifeTypeOK, RequestLife, vars
  <1>7. ASSUME NEW o \in Owners, CreateObject(o) \/ OtherNative(o)
        PROVE  UnloadShape'
    <2>1. Loaded \/ stack # <<>>
      BY <1>7 DEF CreateObject, OtherNative, PluginRuns
    <2> QED BY <1>7, <2>1 DEF CreateObject, OtherNative, Loaded, UnloadShape, lifeVars
  <1>8. ASSUME NEW o \in Owners, Background(o)
        PROVE  UnloadShape'
    <2>1. UNCHANGED stack
      BY <1>8 DEF Background, ThreadExit, Post, Push
    <2> QED BY <1>8, <2>1 DEF Background, UnloadShape, lifeVars
  <1>9. ASSUME NEW r \in Requests, CreateRequest(r)
        PROVE  UnloadShape'
    <2>1. phase \notin {"out", "requests", "gone"}
      BY <1>9 DEF CreateRequest, PluginRuns, Loaded, UnloadShape
    <2> QED BY <1>9, <2>1 DEF CreateRequest, UnloadShape, vars
  <1>10. ASSUME NEW r \in Requests, Respond(r)
         PROVE  UnloadShape'
    <2>1. UNCHANGED stack
      BY <1>10 DEF Respond, PostResponse, Push
    <2> QED BY <1>10, <2>1 DEF Respond, UnloadShape, LifeTypeOK
  <1> QED
    BY <1>1, <1>2, <1>3, <1>4, <1>5, <1>6, <1>7, <1>8, <1>9, <1>10
       DEF LifeNext, Unloading

(* Only Create makes an object that was not there. *)
LEMMA ObjectsStep ==
  ASSUME TypeOK, [Next]_vars, NEW p \in Owners,
         obj[p] \in {"absent", "deleted"}, obj'[p] \notin {"absent", "deleted"}
  PROVE  Create(p)
  <1>1. SUFFICES ASSUME ~Create(p)
                 PROVE  obj'[p] \in {"absent", "deleted"}
    OBVIOUS
  <1>2. CASE DestroyEnd
    BY <1>2 DEF DestroyEnd
  <1>3. ASSUME NEW o \in Owners, Create(o) \/ DestroyBegin(o)
        PROVE  obj'[p] \in {"absent", "deleted"}
    BY <1>1, <1>3 DEF Create, DestroyBegin, TypeOK
  <1>4. CASE UNCHANGED obj
    BY <1>4
  <1> QED
    BY <1>2, <1>3, <1>4
       DEF Next, Engine, HaltEnd, FramePop, FrameEnd, StopJoin, DrainRun, DrainKeep,
           DrainEmpty, Repush, FrameBegin, CallbackReturn, PostResponse, Start, Halt,
           ThreadExit, Post, Push, vars

(* A step that makes an object finds its type registered. *)
LEMMA CreatedRegistered ==
  ASSUME ConstantsAssumption, LifeTypeOK, DestroyingRuns, NEW p \in Owners,
         obj[p] \in {"absent", "deleted"}, obj'[p] \notin {"absent", "deleted"},
         [LifeNext]_allVars
  PROVE  TypeOf(p) \in Registered
  <1>1. Create(p)
    BY PumpStep, ObjectsStep DEF LifeTypeOK
  <1>2. InPlugin /\ obj[p] = "absent" /\ obj'[p] = "live"
    BY <1>1 DEF Create, LifeTypeOK, TypeOK
  <1>3. UNCHANGED <<stack, queue>>
    BY <1>1 DEF Create
  <1>4. CASE \E o \in Owners : CreateObject(o)
    BY <1>2, <1>4 DEF CreateObject, Create, LifeTypeOK, TypeOK
  <1>5. CASE EngineStep
    <2>1. ~(Running("halt") \/ Running("frame") \/ Running("stop")
              \/ Running("drain") \/ Running("repush"))
      BY <1>2 DEF InPlugin, Running
    <2> QED
      BY <1>5, <2>1 DEF EngineStep, Engine, HaltEnd, FramePop, FrameEnd, StopJoin,
                        DrainRun, DrainKeep, DrainEmpty, Repush, DestroyEnd
  <1>6. CASE \E o \in Owners : OtherNative(o) \/ RemoveObject(o)
    BY <1>2, <1>6 DEF OtherNative, RemoveObject, Start, Halt, DestroyBegin,
                      LifeTypeOK, TypeOK
  <1>7. CASE UNCHANGED obj
    BY <1>2, <1>7
  <1> QED
    BY <1>4, <1>5, <1>6, <1>7
       DEF LifeNext, SDK_OnLoad, Frame, FrameBegin, LifeReturn, ObjectReturn,
           ResponseReturn, CallbackReturn, UnloadBegin, Unloading, Removed,
           RemoveRequest, Background, ThreadExit, Post, Push, PostResponse,
           CreateRequest, Respond, vars, allVars

LEMMA RemovedStep ==
  ASSUME ConstantsAssumption, LifeInv, [LifeNext]_allVars
  PROVE  RemovedForGood'
  <1> USE DEF LifeInv
  <1>1. CASE phase' = phase
    <2>1. ASSUME NEW p \in Owners, TypeOf(p) \notin Registered,
                 obj[p] \in {"absent", "deleted"}
          PROVE  obj'[p] \in {"absent", "deleted"}
      BY <2>1, CreatedRegistered
    <2>2. phase \in {"servers", "requests", "gone"} =>
            \A o \in Clients : TypeOf(o) \notin Registered
      BY DEF TypeOf, Registered, Types
    <2>3. phase \in {"requests", "gone"} =>
            \A o \in Servers : TypeOf(o) \notin Registered
      BY DEF TypeOf, Registered, Types
    <2>4. Clients \subseteq Owners /\ Servers \subseteq Owners
      BY DEF Owners
    <2> QED BY <1>1, <2>1, <2>2, <2>3, <2>4 DEF RemovedForGood
  <1>2. CASE Removed
    <2>1. stack = <<>> /\ obj' = obj
      BY <1>2 DEF Removed, vars
    <2>2. \A o \in Owners : obj[o] # "destroying"
      BY <2>1 DEF DestroyingRuns
    <2>3. \A o \in Owners : obj[o] # "live" => obj[o] \in {"absent", "deleted"}
      BY <2>2 DEF LifeTypeOK, TypeOK, Life
    <2> QED BY <1>2, <2>1, <2>3 DEF Removed, RemovedForGood, Owners
  <1>3. CASE SDK_OnLoad \/ UnloadBegin
    BY <1>3 DEF SDK_OnLoad, UnloadBegin, RemovedForGood
  <1> QED
    BY <1>1, <1>2, <1>3
       DEF LifeNext, EngineStep, Frame, LifeReturn, ObjectReturn, ResponseReturn,
           Unloading, RemoveObject, RemoveRequest, CreateObject, OtherNative,
           Background, CreateRequest, Respond, lifeVars, allVars

(* The extension stays within its invariant, whatever callbacks destroy.   *)
THEOREM LifeInvariance == LifeSpec => []LifeInv
  <1>1. LifeInit => LifeInv
    BY ConstantsAssumption, LifeInvInit
  <1>2. LifeInv /\ [LifeNext]_allVars => LifeInv'
    <2> SUFFICES ASSUME LifeInv, [LifeNext]_allVars
                 PROVE  LifeInv'
      OBVIOUS
    <2>1. LifeTypeOK'
      BY ConstantsAssumption, LifeTypeStep DEF LifeInv
    <2>2. DestroyingRuns'
      BY ConstantsAssumption, PumpStep, DestroyingStep DEF LifeInv, LifeTypeOK
    <2>3. UnloadShape'
      BY ShapeOfUnload DEF LifeInv
    <2>4. RemovedForGood'
      BY ConstantsAssumption, RemovedStep
    <2> QED BY <2>1, <2>2, <2>3, <2>4 DEF LifeInv
  <1> QED BY <1>1, <1>2, PTL DEF LifeSpec

(* After SDK_OnUnload (extension.cpp:73) nothing is left that could run    *)
(* the extension's code but workers of requests that never got a handle    *)
(* (http_natives.cpp:29-33), and no task of an object is in the queue.     *)
THEOREM NothingLeftBehind ==
  ASSUME ~NestedDestroy
  PROVE  LifeSpec => []CleanAfterUnload
  <1>1. IInv /\ LifeInv => CleanAfterUnload
    <2> SUFFICES ASSUME IInv, LifeInv, phase = "gone"
                 PROVE  /\ stack = <<>>
                        /\ \A o \in Owners : obj[o] \in {"absent", "deleted"} /\ ~thr[o]
                        /\ \A r \in Requests : request[r] \in {"absent", "deleted", "lost"}
                        /\ \A t \in Pending : t.owner = NoOwner
      BY DEF CleanAfterUnload
    <2>1. stack = <<>> /\ \A r \in Requests : request[r] \in {"absent", "deleted", "lost"}
      BY DEF LifeInv, UnloadShape, LifeTypeOK, RequestLife
    <2>2. \A o \in Owners : obj[o] \in {"absent", "deleted"}
      BY DEF LifeInv, RemovedForGood, Owners
    <2>3. \A o \in Owners : ~thr[o]
      BY <2>2 DEF IInv, ThreadsOwned
    <2>4. \A t \in Pending : t.owner = NoOwner
      <3>1. \A t \in Pending : t \in Task
        BY PendingTasks DEF IInv
      <3> QED BY <2>2, <3>1 DEF IInv, NoStaleTask, Task
    <2> QED BY <2>1, <2>2, <2>3, <2>4
  <1>2. Spec => []IInv
    BY Invariance
  <1>3. LifeSpec => Spec
    BY LifeIsPump
  <1> QED BY <1>1, <1>2, <1>3, LifeInvariance, PTL
=============================================================================
