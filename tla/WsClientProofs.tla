--------------------------- MODULE WsClientProofs ---------------------------
(* Theorems of WsClient, for any callbacks, any number of connections and  *)
(* messages, and tasks run in any order, and of the statistics in Stats,   *)
(* for any counters, any traffic and cells of any width.                   *)
EXTENDS WsClient, Stats, SequenceLemmas

-----------------------------------------------------------------------------
(* The inductive invariant. *)

LEMMA InitInv == Init => IInv
<1> SUFFICES ASSUME Init PROVE IInv
  OBVIOUS
<1>1. Undone = {}
  BY DEF Init, Undone, ToSet
<1>2. TypeOK
  <2>1. /\ 0 \in 0..MaxAttempts /\ 0 \in 0..MaxMessages /\ 0 \in 0..MaxLoads /\ 0 \in 0..0
        /\ <<>> \in Seq(Task)
    BY ClientAssumption
  <2>2. QED
    BY <2>1 DEF Init, TypeOK
<1>3. QED
  BY <1>1, <1>2
  DEF Init, IInv, GameShape, ThreadWanted, HeadersFirst, TestHolds, OneValue,
      HeadersNotOlder, NullOnlyIfLost, NoStaleManager, IsJson, NoReport, NoTask

(* A step that leaves the tasks alone, takes no headers back, and no       *)
(* forward but one it counts as lost, keeps what holds of the tasks.       *)
LEMMA TasksKept ==
  ASSUME IInv, Undone' \subseteq Undone, headers <= headers',
         \A e \in Events : fwd'[e] = "null" =>
                           e \in lost' \/ (fwd[e] = "null" /\ e \notin lost),
         headers' \in Nat
  PROVE  HeadersNotOlder' /\ NullOnlyIfLost'
<1>1. Undone \subseteq Task
  BY DEF IInv, TypeOK, Undone, ToSet
<1>2. headers \in Nat
  BY DEF IInv, TypeOK
<1>3. QED
  BY <1>1, <1>2
  DEF IInv, HeadersNotOlder, NullOnlyIfLost, GetHeader, Task

LEMMA ThreadStep ==
  ASSUME IInv, Thread, ~Push
  PROVE  IInv'
<1> USE ClientAssumption DEF socket, bridge, history, Task, Report, NoReport, NoTask
<1>1. /\ UNCHANGED <<auto, fwd, queue, game, task, json, loads, manager,
                     values, wanted, cut, told, lost>>
      /\ Undone' = Undone
  BY DEF Thread, Attempt, Opened, Received, Ended, Aborted, ThreadEnd, StoreHeaders,
         Test, Undone
<1>2. /\ TypeOK' /\ ThreadWanted' /\ HeadersFirst' /\ TestHolds'
      /\ headers <= headers' /\ headers' \in Nat
  <2>1. CASE Attempt
    BY <1>1, <2>1 DEF IInv, TypeOK, ThreadWanted, HeadersFirst, TestHolds, Attempt
  <2>2. CASE Opened
    BY <1>1, <2>2
    DEF IInv, TypeOK, ThreadWanted, HeadersFirst, TestHolds, Opened, Reporting, Events
  <2>3. CASE Received
    BY <1>1, <2>3
    DEF IInv, TypeOK, ThreadWanted, HeadersFirst, TestHolds, Received, Reporting, Events
  <2>4. CASE \E event \in {"close", "error"} : Ended(event)
    BY <1>1, <2>4
    DEF IInv, TypeOK, ThreadWanted, HeadersFirst, TestHolds, Ended, Reporting, Events
  <2>5. CASE Aborted
    BY <1>1, <2>5 DEF IInv, TypeOK, ThreadWanted, HeadersFirst, TestHolds, Aborted
  <2>6. CASE ThreadEnd
    BY <1>1, <2>6 DEF IInv, TypeOK, ThreadWanted, HeadersFirst, TestHolds, ThreadEnd
  <2>7. CASE StoreHeaders
    BY <1>1, <2>7 DEF IInv, TypeOK, ThreadWanted, HeadersFirst, TestHolds, StoreHeaders
  <2>8. CASE Test
    <3>1. /\ report \in Report /\ report.at = "test"
          /\ report' = NoReport \/ (report' = [report EXCEPT !.at = "push"]
                                      /\ fwd[report.event] = "bound")
          /\ UNCHANGED <<sock, thread, conn, got, headers>>
      BY <2>8 DEF Test, IInv, TypeOK
    <3>2. report' \in Report \cup {NoReport} /\ TestHolds' /\ HeadersFirst'
      BY <1>1, <3>1 DEF TestHolds, HeadersFirst, IInv
    <3>3. TypeOK'
      <4>1. thread = "busy" /\ conn # 0
        BY <2>8 DEF Test, IInv, TypeOK
      <4>2. QED
        BY <1>1, <3>1, <3>2, <4>1, SMTT(30) DEF IInv, TypeOK
    <3>4. ThreadWanted' /\ headers <= headers' /\ headers' \in Nat
      BY <1>1, <3>1 DEF IInv, TypeOK, ThreadWanted
    <3>5. QED
      BY <3>2, <3>3, <3>4
  <2>9. QED
    BY <2>1, <2>2, <2>3, <2>4, <2>5, <2>6, <2>7, <2>8 DEF Thread
<1>3. HeadersNotOlder' /\ NullOnlyIfLost'
  BY <1>1, <1>2, TasksKept
<1>4. conn # 0 => conn' # 0
  BY DEF IInv, TypeOK, Thread, Attempt, Opened, Received, Ended, Aborted, ThreadEnd,
         StoreHeaders, Test
<1>5. QED
  BY <1>1, <1>2, <1>3, <1>4 DEF IInv, GameShape, OneValue, IsJson, NoStaleManager

(* What is pushed is of the current connection, whose headers are there,   *)
(* and its forward is.                                                     *)
LEMMA PushStep == ASSUME IInv, Push PROVE IInv'
<1> USE ClientAssumption DEF bridge, history, Report, NoReport, NoTask
<1> DEFINE t == [event |-> report.event, conn |-> conn]
<1>1. /\ report \in Report /\ report.at = "push" /\ report # NoReport /\ t \in Task /\ queue \in Seq(Task)
      /\ conn \in Nat /\ headers \in Nat
  BY DEF IInv, TypeOK, Push, Task
<1>2. queue' \in Seq(Task) /\ Undone' = Undone \cup {t}
  <2>1. queue' = Append(queue, t) /\ task' = task
    BY DEF Push
  <2>2. QED
    BY <1>1, <2>1, AppendFacts DEF Undone
<1>3. /\ t.event # "error" => t.conn <= headers
      /\ fwd[t.event] # "null"
  BY <1>1 DEF IInv, HeadersFirst, TestHolds
<1>4. HeadersNotOlder' /\ NullOnlyIfLost'
  BY <1>2, <1>3 DEF IInv, HeadersNotOlder, NullOnlyIfLost, GetHeader, Push
<1>5. TypeOK'
  BY <1>2 DEF IInv, TypeOK, Push
<1>6. HeadersFirst' /\ TestHolds'
  BY <1>1 DEF IInv, HeadersFirst, TestHolds, Push
<1>7. GameShape' /\ ThreadWanted' /\ OneValue' /\ NoStaleManager'
  BY DEF IInv, GameShape, ThreadWanted, OneValue, IsJson, NoStaleManager, Push
<1>8. QED
  BY <1>4, <1>5, <1>6, <1>7 DEF IInv

LEMMA NativeStep == ASSUME IInv, Native PROVE IInv'
<1> USE ClientAssumption DEF socket, bridge, history, Report, NoReport, NoTask
<1>1. Undone' = Undone /\ UNCHANGED <<queue, task, headers>>
  BY DEF Native, SetCallback, ConnectTest, ConnectStart, DisconnectTest, DisconnectStop, DisconnectEnd,
         SetAutoReconnect, WriteJSON, Undone
<1>2. \A e \in Events : fwd'[e] = "null" =>
                         e \in lost' \/ (fwd[e] = "null" /\ e \notin lost)
  <2>1. CASE \E e \in Callbacks : SetCallback(e)
    BY <2>1 DEF SetCallback, IInv, TypeOK
  <2>2. CASE UNCHANGED <<fwd, lost>>
    BY <2>2
  <2>3. QED
    BY <2>1, <2>2
    DEF Native, ConnectTest, ConnectStart, DisconnectTest, DisconnectStop, DisconnectEnd,
        SetAutoReconnect, WriteJSON
<1>3. HeadersNotOlder' /\ NullOnlyIfLost'
  BY <1>1, <1>2, TasksKept DEF IInv, TypeOK
<1>4. /\ TypeOK' /\ GameShape' /\ ThreadWanted' /\ HeadersFirst' /\ TestHolds'
      /\ NoStaleManager'
  <2>1. CASE \E e \in Callbacks : SetCallback(e)
    BY <2>1
    DEF SetCallback, InPlugin, IInv, TypeOK, GameShape, ThreadWanted, HeadersFirst,
        TestHolds, NoStaleManager
  <2>2. CASE ConnectTest
    BY <2>2
    DEF ConnectTest, InPlugin, IInv, TypeOK, GameShape, ThreadWanted, HeadersFirst,
        TestHolds, NoStaleManager
  <2>3. CASE ConnectStart
    <3>1. TypeOK' /\ GameShape'
      BY <2>3 DEF ConnectStart, Resume, IInv, TypeOK, GameShape
    <3>2. QED
      BY <2>3, <3>1
      DEF ConnectStart, IInv, ThreadWanted, HeadersFirst, TestHolds, NoStaleManager
  <2>4. CASE DisconnectTest
    BY <2>4
    DEF DisconnectTest, InPlugin, IsConnected, IInv, TypeOK, GameShape, ThreadWanted, HeadersFirst,
        TestHolds, NoStaleManager
  <2>5. CASE DisconnectEnd
    <3>0. conn \in 1..MaxAttempts
      BY <2>5 DEF DisconnectEnd, IInv, TypeOK, GameShape
    <3>1. TypeOK' /\ GameShape'
      BY <2>5, <3>0 DEF DisconnectEnd, Resume, IInv, TypeOK, GameShape
    <3>2. QED
      BY <2>5, <3>1
      DEF DisconnectEnd, IInv, ThreadWanted, HeadersFirst, TestHolds, NoStaleManager
  <2>6. CASE SetAutoReconnect
    BY <2>6
    DEF SetAutoReconnect, IInv, TypeOK, GameShape, ThreadWanted, HeadersFirst,
        TestHolds, NoStaleManager
  <2>7. CASE WriteJSON
    BY <2>7
    DEF WriteJSON, GetJsonManager, IInv, TypeOK, GameShape, ThreadWanted, HeadersFirst,
        TestHolds, NoStaleManager
  <2>8. CASE DisconnectStop
    BY <2>8
    DEF DisconnectStop, IInv, TypeOK, GameShape, ThreadWanted, HeadersFirst, TestHolds,
        NoStaleManager
  <2>9. QED
    BY <2>1, <2>2, <2>3, <2>4, <2>5, <2>6, <2>7, <2>8 DEF Native
<1>5. OneValue'
  BY <1>1
  DEF IInv, OneValue, IsJson, Native, SetCallback, ConnectTest, ConnectStart,
      DisconnectTest, DisconnectStop, DisconnectEnd, SetAutoReconnect, WriteJSON
<1>6. QED
  BY <1>3, <1>4, <1>5 DEF IInv

(* What the tasks of the queue hold is what a task taken from it holds.    *)
LEMMA TakeStep ==
  ASSUME IInv, NEW i \in Ready, game = "idle", Take(i)
  PROVE  /\ queue[i] \in Task
         /\ queue' \in Seq(Task)
         /\ ToSet(queue') \cup {queue[i]} \subseteq Undone
         /\ Undone \subseteq Task
         /\ task = NoTask
<1>1. queue \in Seq(Task) /\ i \in DOMAIN queue
  BY DEF IInv, TypeOK, Ready
<1>2. task = NoTask
  BY DEF IInv, GameShape
<1>3. Undone \subseteq Task
  BY DEF IInv, TypeOK, Undone, ToSet
<1>4. QED
  BY <1>1, <1>2, <1>3, RemoveFacts DEF Take, Undone

LEMMA MessageDroppedStep ==
  ASSUME IInv, NEW i \in Ready, MessageDropped(i)
  PROVE  IInv'
<1> USE ClientAssumption DEF socket, bridge, history, Report, NoReport, NoTask
<1>1. /\ queue' \in Seq(Task)
      /\ Undone' \subseteq Undone
      /\ UNCHANGED <<headers, fwd, lost>>
  BY TakeStep DEF MessageDropped, Undone
<1>2. HeadersNotOlder' /\ NullOnlyIfLost'
  BY <1>1, TasksKept DEF IInv, TypeOK
<1>3. TypeOK' /\ NoStaleManager'
  BY <1>1 DEF IInv, TypeOK, NoStaleManager, MessageDropped, GetJsonManager
<1>4. QED
  BY <1>2, <1>3
  DEF IInv, GameShape, ThreadWanted, HeadersFirst, TestHolds, OneValue, IsJson,
      MessageDropped

LEMMA ParseJSONStep ==
  ASSUME IInv, NEW i \in Ready, ParseJSON(i)
  PROVE  IInv'
<1> USE ClientAssumption DEF socket, bridge, history, Report, NoReport
<1>1. /\ queue' \in Seq(Task)
      /\ task' = queue[i] /\ task' \in Task
      /\ task = NoTask /\ IsJson(task')
      /\ Undone' \subseteq Undone
      /\ UNCHANGED <<headers, fwd, lost>>
  BY TakeStep DEF ParseJSON, Undone, IsJson
<1>2. HeadersNotOlder' /\ NullOnlyIfLost'
  BY <1>1, TasksKept DEF IInv, TypeOK
<1>3. task' # NoTask
  BY <1>1 DEF Task, Events, NoTask
<1>4. /\ values' = 1
      /\ manager' \in {manager, json}
      /\ manager = 0 \/ manager' = manager
  BY <1>1 DEF IInv, TypeOK, OneValue, IsJson, ParseJSON, GetJsonManager, NoTask
<1>5. TypeOK'
  BY <1>1, <1>4 DEF IInv, TypeOK, ParseJSON
<1>6. NoStaleManager'
  BY <1>4 DEF IInv, NoStaleManager, ParseJSON
<1>7. GameShape' /\ ThreadWanted' /\ HeadersFirst' /\ TestHolds' /\ OneValue'
  BY <1>1, <1>3, <1>4
  DEF IInv, GameShape, ThreadWanted, HeadersFirst, TestHolds, OneValue, ParseJSON
<1>8. QED
  BY <1>2, <1>5, <1>6, <1>7 DEF IInv

(* The task runs: its forward is called, or was given up and is null.      *)
LEMMA ExecuteStep ==
  ASSUME IInv, task' \in Task, ThroughNull(task') \/ Called(task'),
         queue' \in Seq(Task), Undone' \subseteq Undone,
         values' = IF IsJson(task') THEN 1 ELSE 0,
         UNCHANGED <<auto, fwd, json, loads, manager, wanted, cut, lost>>
  PROVE  IInv'
<1> USE ClientAssumption DEF socket, Report, NoReport
<1>1. UNCHANGED <<headers, conn, got>>
  BY DEF ThroughNull, Called
<1>2. HeadersNotOlder' /\ NullOnlyIfLost'
  BY <1>1, TasksKept DEF IInv, TypeOK
<1>3. task' # NoTask /\ task'.conn \in 1..MaxAttempts
  BY DEF Task, Events, NoTask
<1>4. /\ told' \subseteq 1..MaxAttempts
      /\ game' \in {"callback", "return", "crashed"}
      /\ \/ UNCHANGED <<sock, thread, report>>
         \/ sock' = "closed" /\ thread' = "none" /\ report' = NoReport
  BY <1>3 DEF ThroughNull, Called, IInv, TypeOK
<1>5. values' \in Nat
  OBVIOUS
<1>6. TypeOK'
  BY <1>1, <1>4, <1>5 DEF IInv, TypeOK
<1>7. GameShape' /\ OneValue' /\ NoStaleManager'
  BY <1>3, <1>4 DEF IInv, GameShape, OneValue, NoStaleManager
<1>8. ThreadWanted' /\ HeadersFirst' /\ TestHolds'
  BY <1>1, <1>4 DEF IInv, ThreadWanted, HeadersFirst, TestHolds
<1>9. QED
  BY <1>2, <1>6, <1>7, <1>8 DEF IInv

LEMMA OnCompletedStep ==
  ASSUME IInv, NEW i \in Ready, OnCompleted(i)
  PROVE  IInv'
<1>1. /\ queue' \in Seq(Task)
      /\ task' = queue[i] /\ task' \in Task
      /\ task = NoTask
      /\ Undone' \subseteq Undone
  BY TakeStep DEF OnCompleted, Undone
<1>2. /\ values' = IF IsJson(task') THEN 1 ELSE 0
      /\ ThroughNull(task') \/ Called(task')
      /\ UNCHANGED <<auto, fwd, json, loads, manager, wanted, cut, lost>>
  BY <1>1 DEF IInv, OneValue, IsJson, OnCompleted, bridge, NoTask
<1>3. QED
  BY <1>1, <1>2, ExecuteStep

LEMMA MessageCallbackStep == ASSUME IInv, MessageCallback PROVE IInv'
<1>1. /\ queue' \in Seq(Task)
      /\ task' = task /\ task' \in Task
      /\ Undone' \subseteq Undone
  BY DEF MessageCallback, Undone, IInv, TypeOK, GameShape
<1>2. /\ values' = IF IsJson(task') THEN 1 ELSE 0
      /\ ThroughNull(task') \/ Called(task')
      /\ UNCHANGED <<auto, fwd, json, loads, manager, wanted, cut, lost>>
  BY <1>1 DEF IInv, OneValue, IsJson, MessageCallback, bridge
<1>3. QED
  BY <1>1, <1>2, ExecuteStep

LEMMA CallbackReturnStep == ASSUME IInv, CallbackReturn \/ HandleFailed PROVE IInv'
<1> USE ClientAssumption DEF socket, bridge, history, Report, NoReport
<1>1. Undone' \subseteq Undone /\ UNCHANGED <<headers, fwd, lost>>
  BY DEF CallbackReturn, HandleFailed, Undone
<1>2. HeadersNotOlder' /\ NullOnlyIfLost'
  BY <1>1, TasksKept DEF IInv, TypeOK
<1>3. values' = 0 /\ ~IsJson(task')
  BY DEF CallbackReturn, HandleFailed, IInv, GameShape, OneValue, IsJson, NoTask
<1>4. TypeOK'
  BY <1>3 DEF IInv, TypeOK, CallbackReturn, HandleFailed
<1>5. QED
  BY <1>2, <1>3, <1>4
  DEF IInv, GameShape, ThreadWanted, HeadersFirst, TestHolds, OneValue, NoStaleManager,
      CallbackReturn, HandleFailed

LEMMA JsonStep == ASSUME IInv, JsonLoad \/ OnDependenciesDropped PROVE IInv'
<1> USE ClientAssumption DEF socket, history, Report, NoReport
<1>1. Undone' \subseteq Undone /\ UNCHANGED <<headers, fwd, lost>>
  BY DEF JsonLoad, OnDependenciesDropped, Undone
<1>2. HeadersNotOlder' /\ NullOnlyIfLost'
  BY <1>1, TasksKept DEF IInv, TypeOK
<1>3. TypeOK'
  <2>1. CASE JsonLoad
    <3>1. /\ loads \in Nat /\ loads < MaxLoads /\ MaxLoads \in Nat
          /\ manager \in 0..loads /\ loads' = loads + 1 /\ manager' = manager
          /\ json' = loads + 1
      BY <2>1 DEF JsonLoad, IInv, TypeOK
    <3>2. json' \in 0..loads' /\ loads' \in 0..MaxLoads /\ manager' \in 0..loads'
      BY <3>1
    <3>3. QED
      BY <2>1, <3>2 DEF JsonLoad, IInv, TypeOK
  <2>2. CASE OnDependenciesDropped
    BY <2>2 DEF IInv, TypeOK, OnDependenciesDropped
  <2>3. QED
    BY <2>1, <2>2
<1>4. NoStaleManager'
  BY DEF IInv, TypeOK, JsonLoad, OnDependenciesDropped, NoStaleManager
<1>5. QED
  BY <1>2, <1>3, <1>4
  DEF IInv, GameShape, ThreadWanted, HeadersFirst, TestHolds, OneValue, IsJson,
      JsonLoad, OnDependenciesDropped

LEMMA NextInv == IInv /\ [Next]_vars => IInv'
<1> SUFFICES ASSUME IInv, [Next]_vars PROVE IInv'
  OBVIOUS
<1>1. CASE Thread
  BY <1>1, ThreadStep, PushStep
<1>2. CASE Native
  BY <1>2, NativeStep
<1>3. CASE JsonLoad \/ OnDependenciesDropped
  BY <1>3, JsonStep
<1>4. CASE \E i \in Ready : MessageDropped(i) \/ ParseJSON(i) \/ OnCompleted(i)
  BY <1>4, MessageDroppedStep, ParseJSONStep, OnCompletedStep
<1>5. CASE MessageCallback \/ CallbackReturn \/ HandleFailed
  BY <1>5, MessageCallbackStep, CallbackReturnStep
<1>6. CASE UNCHANGED vars
  BY <1>6
  DEF vars, socket, bridge, history, IInv, TypeOK, GameShape, ThreadWanted,
      HeadersFirst, TestHolds, OneValue, IsJson, HeadersNotOlder, NullOnlyIfLost,
      NoStaleManager, Undone, GetHeader
<1>7. QED
  BY <1>1, <1>2, <1>3, <1>4, <1>5, <1>6 DEF Next, Crashed

(* The inductive invariant holds. *)
THEOREM Invariance == Spec => []IInv
<1>1. QED
  BY InitInv, NextInv, PTL DEF Spec

(* Types: any number of connections, messages and loads of JSON.           *)
THEOREM TypeCorrect == Spec => []TypeOK
<1>1. IInv => TypeOK
  BY DEF IInv
<1>2. QED
  BY <1>1, Invariance, PTL

(* A callback of a connection never reads headers older than it.           *)
THEOREM HeadersNeverOlder == Spec => []HeadersNotOlder
<1>1. IInv => HeadersNotOlder
  BY DEF IInv
<1>2. QED
  BY <1>1, Invariance, PTL

(* A task finds a null pointer only where Set...Callback gave up its       *)
(* forward and made no other (ws_natives_client.cpp:46-56).                *)
THEOREM NullForwardsWereLost == Spec => []NullOnlyIfLost
<1>1. IInv => NullOnlyIfLost
  BY DEF IInv
<1>2. QED
  BY <1>1, Invariance, PTL

(* The cached JSON interface is that of the extension that is loaded.      *)
THEOREM ManagerFresh == Spec => []NoStaleManager
<1>1. IInv => NoStaleManager
  BY DEF IInv
<1>2. QED
  BY <1>1, Invariance, PTL

(* Each parsed value is freed with its task, whichever step fails         *)
(* (ws_client.cpp:150-174).                                                *)
THEOREM ValuesFreed == Spec => []ValuesReleased
<1>1. IInv => ValuesReleased
  BY DEF IInv, OneValue, IsJson, ValuesReleased, NoTask
<1>2. QED
  BY <1>1, Invariance, PTL

(* After an accepted Disconnect nothing is attempted before Connect.       *)
THEOREM AttemptsAreWanted == Spec => AttemptsWanted
<1>1. IInv /\ [Next]_vars => [conn' # conn => wanted]_vars
  <2>1. SUFFICES ASSUME IInv, Next, conn' # conn PROVE wanted
    OBVIOUS
  <2>2. Attempt
    BY <2>1
    DEF Next, Thread, Native, Opened, Received, Ended, Aborted, ThreadEnd, StoreHeaders,
        Test, Push, SetCallback, ConnectTest, ConnectStart, DisconnectTest,
        DisconnectStop, DisconnectEnd, SetAutoReconnect, WriteJSON, JsonLoad, OnDependenciesDropped,
        MessageDropped, ParseJSON, HandleFailed, MessageCallback, OnCompleted,
        ThroughNull, Called, CallbackReturn, Crashed, vars, socket
  <2>3. QED
    BY <2>1, <2>2 DEF IInv, ThreadWanted, Attempt
<1>2. QED
  BY <1>1, Invariance, PTL DEF Spec, AttemptsWanted
-----------------------------------------------------------------------------
(* The statistics. *)

LEMMA Division ==
  ASSUME NEW a \in Int, NEW m \in Nat \ {0}
  PROVE  a % m \in 0..(m - 1) /\ a \div m \in Int /\ a = m * (a \div m) + (a % m)
  OBVIOUS

LEMMA DivisionUnique ==
  ASSUME NEW m \in Nat \ {0}, NEW p \in Int, NEW q \in Int,
         NEW r \in 0..(m - 1), NEW s \in 0..(m - 1),
         m * p + r = m * q + s
  PROVE  r = s
<1>1. m * (p - q) = s - r /\ m * (q - p) = r - s
  OBVIOUS
<1>2. ASSUME p > q PROVE FALSE
  <2>1. p - q >= 1
    BY <1>2
  <2>2. m * (p - q) >= m
    BY <2>1
  <2>3. QED
    BY <1>1, <2>2
<1>3. ASSUME q > p PROVE FALSE
  <2>1. q - p >= 1
    BY <1>3
  <2>2. m * (q - p) >= m
    BY <2>1
  <2>3. QED
    BY <1>1, <2>2
<1>4. p = q
  BY <1>2, <1>3
<1>5. QED
  BY <1>1, <1>4

(* A cell is its counter but for a multiple of the number of cells.        *)
LEMMA CellFacts ==
  ASSUME Cells \in Nat \ {0}, NEW x \in Int
  PROVE  Cell(x) \in Int /\ \E k \in Int : Cell(x) = x + Cells * k
<1> DEFINE q == x \div Cells
           r == x % Cells
<1>1. r \in Int /\ q \in Int /\ x = Cells * q + r
  BY Division
<1>2. Cell(x) \in {r, r - Cells}
  BY DEF Cell
<1> HIDE DEF q, r
<1>3. r = x + Cells * (-q)
  BY <1>1
<1>4. r - Cells = x + Cells * (-q - 1)
  BY <1>1
<1>5. -q \in Int /\ -q - 1 \in Int
  BY <1>1
<1>6. Cell(x) \in Int
  BY <1>1, <1>2
<1>7. r = x + Cells * (-q) /\ r - Cells = x + Cells * (-q - 1)
  BY <1>3, <1>4
<1>8. \E k \in Int : Cell(x) = x + Cells * k
  BY <1>2, <1>5, <1>7, Zenon
<1>9. QED
  BY <1>6, <1>8

(* Subtracting two cells and taking the remainder subtracts the counters.  *)
LEMMA CellDifference ==
  ASSUME Cells \in Nat \ {0}, NEW x \in Int, NEW p \in 0..(Cells - 1)
  PROVE  (Cell(x) - Cell(x - p)) % Cells = p
<1> DEFINE d == Cell(x) - Cell(x - p)
<1>1. PICK j \in Int : Cell(x) = x + Cells * j
  BY CellFacts
<1>2. x - p \in Int
  OBVIOUS
<1>3. PICK k \in Int : Cell(x - p) = (x - p) + Cells * k
  BY <1>2, CellFacts
<1>4. d \in Int /\ d = Cells * (j - k) + p /\ j - k \in Int
  BY <1>1, <1>3
<1> HIDE DEF d
<1>5. d % Cells \in 0..(Cells - 1) /\ d \div Cells \in Int
      /\ d = Cells * (d \div Cells) + (d % Cells)
  BY <1>4, Division
<1>6. d % Cells = p
  BY <1>4, <1>5, DivisionUnique
<1>7. QED
  BY <1>6 DEF d

(* What the plugin read last is the cell of the counter as it was before   *)
(* what passed since, unless the counter was reset.                        *)
LastIsThen ==
  \A c \in Counters \ reset :
    passed[c] <= stats[c] /\ last[c] = Cell(stats[c] - passed[c])

StatsInv ==
  /\ stats \in [Counters -> Nat]
  /\ last \in [Counters -> Int]
  /\ passed \in [Counters -> Nat]
  /\ LastIsThen

LEMMA StatsStep ==
  ASSUME StatsInv, [StatsNext]_(statsVars)
  PROVE  StatsInv'
<1> USE DEF StatsInv, LastIsThen
<1>1. Cells \in Nat \ {0} /\ Sizes \subseteq Nat
  BY StatsAssumption
<1>2. CASE ResetStats
  BY <1>2 DEF ResetStats
<1>3. ASSUME NEW c \in Counters, Read(c)
      PROVE  StatsInv'
  <2>1. Cell(stats[c]) \in Int
    BY <1>1, CellFacts
  <2>2. stats[c] - 0 = stats[c] /\ 0 <= stats[c]
    OBVIOUS
  <2>3. /\ stats' = stats
        /\ last' = [last EXCEPT ![c] = Cell(stats[c])]
        /\ passed' = [passed EXCEPT ![c] = 0]
        /\ reset' = reset \ {c}
    BY <1>3 DEF Read
  <2>4. last' \in [Counters -> Int] /\ passed' \in [Counters -> Nat]
    BY <2>1, <2>3
  <2>5. ASSUME NEW d \in Counters \ reset'
        PROVE  passed'[d] <= stats'[d] /\ last'[d] = Cell(stats'[d] - passed'[d])
    BY <2>2, <2>3
  <2>6. QED
    BY <2>3, <2>4, <2>5
<1>4. ASSUME NEW c \in Counters, NEW n \in Sizes, Traffic(c, n)
      PROVE  StatsInv'
  <2>1. /\ stats' = [stats EXCEPT ![c] = stats[c] + n]
        /\ passed' = [passed EXCEPT ![c] = passed[c] + n]
        /\ last' = last /\ reset' = reset /\ n \in Nat
    BY <1>1, <1>4 DEF Traffic
  <2>2. (stats[c] + n) - (passed[c] + n) = stats[c] - passed[c]
    BY <2>1
  <2>3. QED
    BY <2>1, <2>2
<1>5. CASE UNCHANGED statsVars
  BY <1>5 DEF statsVars
<1>6. QED
  BY <1>2, <1>3, <1>4, <1>5 DEF StatsNext

(* Two reads of a statistic tell what passed between them, however often   *)
(* the cell overflowed before (ws_natives_client.cpp:503).                 *)
THEOREM DifferencesRight == StatsSpec => DifferenceRight
<1>1. Cells \in Nat \ {0}
  BY StatsAssumption
<1>2. StatsInit => StatsInv
  <2>1. SUFFICES ASSUME StatsInit PROVE StatsInv
    OBVIOUS
  <2>2. Cell(0 - 0) = 0
    <3>1. 0 % Cells = 0
      <4>1. Cells * 0 + 0 = Cells * (0 \div Cells) + (0 % Cells)
        BY <1>1, Division
      <4>2. 0 \div Cells \in Int /\ 0 % Cells \in 0..(Cells - 1) /\ 0 \in 0..(Cells - 1)
        BY <1>1, Division
      <4>3. QED
        BY <1>1, <4>1, <4>2, DivisionUnique
    <3>2. 0 < Cells \div 2
      BY StatsAssumption
    <3>3. QED
      BY <3>1, <3>2 DEF Cell
  <2>3. QED
    BY <2>1, <2>2 DEF StatsInit, StatsInv, LastIsThen
<1>3. StatsInv /\ [StatsNext]_(statsVars) => StatsInv'
  BY StatsStep
<1>4. StatsInv /\ [StatsNext]_(statsVars) =>
        [\A c \in Counters :
           (Read(c) /\ c \notin reset /\ passed[c] < Cells)
             => (last'[c] - last[c]) % Cells = passed[c]]_(statsVars)
  <2>1. SUFFICES ASSUME StatsInv, NEW c \in Counters, Read(c),
                        c \notin reset, passed[c] < Cells
                 PROVE  (last'[c] - last[c]) % Cells = passed[c]
    OBVIOUS
  <2>2. /\ last[c] = Cell(stats[c] - passed[c])
        /\ last'[c] = Cell(stats[c])
    BY <2>1 DEF StatsInv, LastIsThen, Read
  <2>3. stats[c] \in Int /\ passed[c] \in 0..(Cells - 1)
    BY <1>1, <2>1 DEF StatsInv
  <2>4. QED
    BY <1>1, <2>2, <2>3, CellDifference
<1>5. QED
  BY <1>2, <1>3, <1>4, PTL DEF StatsSpec, DifferenceRight
=============================================================================
