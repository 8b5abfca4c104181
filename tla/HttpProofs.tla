----------------------------- MODULE HttpProofs ------------------------------
(***************************************************************************)
(* Theorems about HttpRequests: for any number of objects and calls, a     *)
(* plugin that makes one call on each object and does not delete it after  *)
(* has its answer handed over on an object that is there, with its own     *)
(* headers.                                                                *)
(***************************************************************************)
EXTENDS HttpInvariant, SequenceLemmas

Frame == [op : {"call", "read", "callback", "destroy"}, req : Requests,
          call : 0..MaxCalls]
ForwardLife == {"none", "bound", "empty", "released"}
Answer == [req : Requests, call : Calls]

-----------------------------------------------------------------------------
(* The nest of calls on the game thread. *)

LEMMA TopFacts ==
  ASSUME TypeOK, game # <<>>
  PROVE  /\ Top = game[Len(game)]
         /\ Last(game) = game[Len(game)]
         /\ Len(game) \in Nat \ {0}
         /\ Top \in Frame
         /\ game[1] \in Frame
  <1>1. game \in Seq(Frame)
    BY DEF TypeOK, Frame
  <1> QED BY <1>1, FrontFacts DEF Top

LEMMA OneOrTwo == \A n \in Nat \ {0} : n <= 2 => n \in {1, 2}
  OBVIOUS

LEMMA FrameFacts ==
  ASSUME TypeOK
  PROVE  Outer \in Frame \cup {NoFrame} /\ Inner \in Frame \cup {NoFrame}
  BY TopFacts DEF Outer, Inner

LEMMA PluginGame ==
  ASSUME TypeOK, GameShape, InPlugin
  PROVE  /\ Inner = NoFrame
         /\ game = <<>> \/ (Len(game) = 1 /\ game[1].op = "callback")
  <1>1. game # <<>> => Len(game) \in Nat \ {0} /\ Top = game[Len(game)]
    BY TopFacts
  <1>2. game # <<>> => Top.op = "callback"
    BY DEF InPlugin, Running, Top
  <1>3. game # <<>> => Len(game) \in {1, 2}
    BY <1>1, OneOrTwo DEF GameShape
  <1>4. Len(game) # 2
    BY <1>1, <1>2 DEF GameShape
  <1>5. game # <<>> => Len(game) = 1 /\ game[1].op = "callback"
    BY <1>1, <1>2, <1>3, <1>4
  <1> QED BY <1>2, <1>5 DEF Inner

LEMMA GameEnter ==
  ASSUME TypeOK, GameShape, InPlugin, NEW op \in {"call", "read", "destroy"},
         NEW r \in Requests, NEW c \in 0..MaxCalls, Enter(op, r, c)
  PROVE  /\ game' \in Seq(Frame)
         /\ GameShape'
         /\ Outer' = Outer
         /\ Inner = NoFrame
         /\ Inner' = [op |-> op, req |-> r, call |-> c]
  <1> DEFINE f == [op |-> op, req |-> r, call |-> c]
  <1>1. game \in Seq(Frame) /\ f \in Frame /\ game' = Append(game, f)
    BY DEF TypeOK, Frame, Enter
  <1>2. f.op # "callback"
    OBVIOUS
  <1> HIDE DEF f
  <1>3. /\ game' \in Seq(Frame) /\ game' # <<>>
        /\ Len(game') = Len(game) + 1
        /\ \A i \in 1..Len(game) : game'[i] = game[i]
        /\ game'[Len(game) + 1] = f
    BY <1>1, AppendFacts
  <1>4. Last(game') = f
    BY <1>3, FrontFacts
  <1>5. /\ Inner = NoFrame
        /\ game = <<>> \/ (Len(game) = 1 /\ game[1].op = "callback")
    BY PluginGame
  <1>6. Inner' = f
    BY <1>2, <1>3, <1>4 DEF Inner, Top
  <1>7. CASE game = <<>>
    <2>1. Len(game) = 0 /\ game'[1] = f /\ Len(game') = 1
      BY <1>3, <1>7
    <2> QED BY <1>2, <1>3, <1>5, <1>6, <1>7, <2>1 DEF Outer, GameShape, f
  <1>8. CASE game # <<>>
    <2>1. Len(game) = 1 /\ game'[1] = game[1] /\ game'[2] = f /\ Len(game') = 2
      BY <1>3, <1>5, <1>8
    <2> QED BY <1>2, <1>3, <1>5, <1>6, <1>8, <2>1 DEF Outer, GameShape, f
  <1> QED BY <1>7, <1>8

LEMMA GameReturn ==
  ASSUME TypeOK, GameShape, game # <<>>, Top.op # "callback", Return
  PROVE  /\ game' \in Seq(Frame)
         /\ GameShape'
         /\ Outer' = Outer
         /\ Inner = Top
         /\ Inner' = NoFrame
  <1>1. /\ game \in Seq(Frame)
        /\ game' \in Seq(Frame)
        /\ Len(game) \in Nat \ {0}
        /\ Len(game') = Len(game) - 1
        /\ \A i \in 1..(Len(game) - 1) : game'[i] = game[i]
        /\ Top = game[Len(game)]
    BY FrontFacts, TopFacts DEF TypeOK, Frame, Return
  <1>2. Inner = Top
    BY DEF Inner
  <1>3. CASE Len(game) = 1
    <2>1. game' = <<>> /\ game[1].op # "callback"
      BY <1>1, <1>3
    <2> QED BY <1>1, <1>2, <1>3, <2>1 DEF Outer, Inner, GameShape
  <1>4. CASE Len(game) = 2
    <2>1. Len(game') = 1 /\ game'[1] = game[1] /\ game' # <<>>
      <3>1. Len(game) - 1 = 1 /\ 1 \in 1..(Len(game) - 1)
        BY <1>4
      <3>2. Len(game') = 1 /\ game'[1] = game[1]
        BY <1>1, <3>1
      <3> QED BY <3>2
    <2>2. game'[1].op = "callback"
      BY <1>4, <2>1 DEF GameShape
    <2>3. Top' = game'[1]
      BY <1>1, <2>1, FrontFacts DEF Top
    <2> QED BY <1>1, <1>2, <1>4, <2>1, <2>2, <2>3 DEF Outer, Inner, GameShape
  <1> QED BY <1>1, <1>3, <1>4 DEF GameShape

LEMMA GameCallback ==
  ASSUME TypeOK, game = <<>>, NEW r \in Requests, NEW c \in 0..MaxCalls,
         Enter("callback", r, c)
  PROVE  /\ game' \in Seq(Frame)
         /\ GameShape'
         /\ Outer = NoFrame /\ Inner = NoFrame
         /\ Outer' = [op |-> "callback", req |-> r, call |-> c]
         /\ Inner' = NoFrame
  <1> DEFINE f == [op |-> "callback", req |-> r, call |-> c]
  <1>1. f \in Frame /\ f.op = "callback" /\ game' = <<f>>
    BY DEF Frame, Enter
  <1> HIDE DEF f
  <1>2. game' \in Seq(Frame) /\ game' # <<>> /\ game'[1] = f /\ Len(game') = 1
    BY <1>1
  <1>3. Last(game') = f
    BY <1>2, FrontFacts
  <1> QED BY <1>1, <1>2, <1>3 DEF Outer, Inner, Top, GameShape, f

LEMMA GameFree ==
  ASSUME TypeOK, GameShape, Running("callback"), NEW r \in Requests,
         game' = [game EXCEPT ![Len(game)] = [op |-> "destroy", req |-> r, call |-> 0]]
  PROVE  /\ game' \in Seq(Frame)
         /\ GameShape'
         /\ Outer = Top /\ Inner = NoFrame
         /\ Outer' = NoFrame
         /\ Inner' = [op |-> "destroy", req |-> r, call |-> 0]
  <1> DEFINE f == [op |-> "destroy", req |-> r, call |-> 0]
  <1>1. f \in Frame /\ f.op = "destroy" /\ game' = [game EXCEPT ![Len(game)] = f]
    BY HttpAssumption DEF Frame
  <1> HIDE DEF f
  <1>2. /\ game # <<>> /\ game \in Seq(Frame)
        /\ Top.op = "callback" /\ Top = game[Len(game)] /\ Len(game) \in Nat \ {0}
    BY TopFacts DEF Running, Top, TypeOK, Frame
  <1>3. Len(game) = 1
    <2>1. Len(game) \in {1, 2}
      BY <1>2, OneOrTwo DEF GameShape
    <2>2. Len(game) # 2
      BY <1>2 DEF GameShape
    <2> QED BY <2>1, <2>2
  <1>4. game' \in Seq(Frame) /\ Len(game') = 1 /\ game'[1] = f
    BY <1>1, <1>2, <1>3, ExceptLastFacts
  <1>5. game' # <<>> /\ Last(game') = f
    <2>1. game' # <<>>
      BY <1>4
    <2> QED BY <1>4, <2>1, FrontFacts
  <1> QED BY <1>1, <1>2, <1>3, <1>4, <1>5 DEF Outer, Inner, Top, GameShape, f

LEMMA GameSame ==
  ASSUME UNCHANGED game
  PROVE  UNCHANGED <<Outer, Inner, Calling, Called>> /\ (GameShape <=> GameShape')
  BY DEF Outer, Inner, Top, Calling, Called, GameShape

-----------------------------------------------------------------------------
(* Steps that move no call. *)

LEMMA AnswersAre ==
  ASSUME TypeOK
  PROVE  ToSet(queue) \subseteq Answer /\ Responded \subseteq Requests
  <1>1. queue \in Seq(Answer) /\ DOMAIN queue = 1..Len(queue)
    BY DEF TypeOK, Answer
  <1>2. ToSet(queue) \subseteq Answer
    BY <1>1 DEF ToSet
  <1> QED BY <1>2 DEF Responded, Answer

(* What only looks at the calls stays when they and the answers do. *)
LEMMA CallsSame ==
  ASSUME CallInv, UNCHANGED calls
  PROVE  /\ OneCall'
         /\ \A r, c : Of(r, c)' <=> Of(r, c)
         /\ UNCHANGED answers => AnswerToOwnCallback'
  BY DEF CallInv, OneCall, Of, Calls, AnswerToOwnCallback

LEMMA CreateStep ==
  ASSUME CallInv, NEW r \in Requests, Create(r)
  PROVE  CallInv'
  <1>1. /\ UNCHANGED <<fwd, forwards, jobs, worker, headers, queue, game, calls,
                       answers, Calls>>
        /\ obj' = [obj EXCEPT ![r] = "live"] /\ obj[r] = "absent"
        /\ obj \in [Requests -> Life]
    BY DEF Create, CallInv, TypeOK, Calls
  <1>2. UNCHANGED <<Outer, Inner, Calling, Queued, Working, Responded, Called>>
    BY <1>1, GameSame DEF Queued, Working, Responded
  <1>3. TypeOK' /\ GameShape'
    BY <1>1, GameSame DEF CallInv, TypeOK, Life
  <1>4. OnePlace' /\ Once' /\ Alive'
    BY <1>1, <1>2 DEF CallInv, OnePlace, Once, Alive
  <1>5. FramesOwn' /\ JobsOwn' /\ WorkersOwn' /\ AnswersOwn' /\ FieldsOwn'
    BY <1>1, <1>2, CallsSame
    DEF CallInv, FramesOwn, JobsOwn, WorkersOwn, AnswersOwn, FieldsOwn
  <1>6. ForwardBound' /\ HeadersKept'
    BY <1>1, <1>2 DEF CallInv, ForwardBound, HeadersKept
  <1> QED BY <1>1, <1>3, <1>4, <1>5, <1>6, CallsSame DEF CallInv

(* A native that only reads: the frame is of the plugin or of none. *)
LEMMA ReadHeaderStep ==
  ASSUME CallInv, NEW r \in Requests, ReadHeader(r)
  PROVE  CallInv'
  <1>1. /\ UNCHANGED <<obj, fwd, forwards, jobs, worker, headers, queue, calls,
                       answers, Calls>>
        /\ Enter("read", r, headers[r]) /\ InPlugin
        /\ headers[r] \in 0..MaxCalls
    BY DEF ReadHeader, CallInv, TypeOK, Calls
  <1>2. /\ game' \in Seq(Frame) /\ GameShape' /\ Outer' = Outer /\ Inner = NoFrame
        /\ Inner' = [op |-> "read", req |-> r, call |-> headers[r]]
    BY <1>1, GameEnter DEF CallInv
  <1>3. UNCHANGED <<Calling, Queued, Working, Responded, Called>>
    BY <1>1, <1>2 DEF Calling, Queued, Working, Responded, Called, NoFrame
  <1>4. TypeOK'
    BY <1>1, <1>2 DEF CallInv, TypeOK, Frame
  <1>5. OnePlace' /\ Once' /\ Alive'
    BY <1>1, <1>2, <1>3 DEF CallInv, OnePlace, Once, Alive
  <1>6. FramesOwn' /\ JobsOwn' /\ WorkersOwn' /\ AnswersOwn' /\ FieldsOwn'
    BY <1>1, <1>2, <1>3, CallsSame
    DEF CallInv, FramesOwn, JobsOwn, WorkersOwn, AnswersOwn, FieldsOwn
  <1>7. ForwardBound' /\ HeadersKept'
    BY <1>1, <1>2, <1>3 DEF CallInv, ForwardBound, HeadersKept
  <1> QED BY <1>1, <1>2, <1>4, <1>5, <1>6, <1>7, CallsSame DEF CallInv

LEMMA ReadHeaderEndStep == ASSUME CallInv, ReadHeaderEnd PROVE CallInv'
  <1>1. /\ UNCHANGED <<obj, fwd, forwards, jobs, worker, headers, queue, calls,
                       answers, Calls>>
        /\ Return /\ game # <<>> /\ Top.op = "read"
    BY DEF ReadHeaderEnd, Running, Top, Calls
  <1>2. /\ game' \in Seq(Frame) /\ GameShape' /\ Outer' = Outer
        /\ Inner.op = "read" /\ Inner' = NoFrame
    BY <1>1, GameReturn DEF CallInv
  <1>3. UNCHANGED <<Calling, Queued, Working, Responded, Called>>
    BY <1>1, <1>2 DEF Calling, Queued, Working, Responded, Called, NoFrame
  <1>4. TypeOK'
    BY <1>1, <1>2 DEF CallInv, TypeOK, Frame
  <1>5. OnePlace' /\ Once' /\ Alive'
    BY <1>1, <1>2, <1>3 DEF CallInv, OnePlace, Once, Alive, NoFrame
  <1>6. FramesOwn' /\ JobsOwn' /\ WorkersOwn' /\ AnswersOwn' /\ FieldsOwn'
    BY <1>1, <1>2, <1>3, CallsSame
    DEF CallInv, FramesOwn, JobsOwn, WorkersOwn, AnswersOwn, FieldsOwn, NoFrame
  <1>7. ForwardBound' /\ HeadersKept'
    BY <1>1, <1>2, <1>3 DEF CallInv, ForwardBound, HeadersKept, NoFrame
  <1> QED BY <1>1, <1>2, <1>4, <1>5, <1>6, <1>7, CallsSame DEF CallInv

-----------------------------------------------------------------------------
(* The worker. *)

LEMMA TailOfOne ==
  ASSUME NEW S, NEW s \in Seq(S), s # <<>>, Len(s) <= 1
  PROVE  Tail(s) = <<>>
  <1>1. Tail(s) \in Seq(S) /\ Len(s) \in Nat \ {0} /\ Len(Tail(s)) = Len(s) - 1
    BY TailFacts
  <1>2. Len(Tail(s)) = 0
    BY <1>1
  <1> QED BY <1>1, <1>2, EmptySeq

LEMMA WorkerTypes ==
  ASSUME TypeOK
  PROVE  worker \in [Requests ->
           [at : {"idle", "performing", "answering", "recording"}, call : 0..MaxCalls]]
  BY DEF TypeOK

LEMMA WorkerAnsweredStep ==
  ASSUME CallInv, NEW r \in Requests, WorkerAnswered(r)
  PROVE  CallInv'
  <1>1. /\ UNCHANGED <<obj, fwd, forwards, jobs, headers, queue, game, calls,
                       answers, Calls>>
        /\ worker' = [worker EXCEPT ![r].at = "answering"]
        /\ worker[r].at = "performing"
    BY DEF WorkerAnswered, Calls
  <1>2. /\ worker' \in [Requests ->
             [at : {"idle", "performing", "answering", "recording"}, call : 0..MaxCalls]]
        /\ \A q \in Requests : /\ worker'[q].call = worker[q].call
                               /\ worker'[q].at # "idle" <=> worker[q].at # "idle"
    BY <1>1, WorkerTypes DEF CallInv
  <1>3. UNCHANGED <<Outer, Inner, Calling, Queued, Working, Responded, Called>>
    BY <1>1, <1>2, GameSame DEF Queued, Working, Responded
  <1>4. TypeOK' /\ GameShape'
    BY <1>1, <1>2, GameSame DEF CallInv, TypeOK
  <1>5. OnePlace' /\ Once' /\ Alive'
    BY <1>1, <1>3 DEF CallInv, OnePlace, Once, Alive
  <1>6. FramesOwn' /\ JobsOwn' /\ WorkersOwn' /\ AnswersOwn' /\ FieldsOwn'
    BY <1>1, <1>2, <1>3, CallsSame
    DEF CallInv, FramesOwn, JobsOwn, WorkersOwn, AnswersOwn, FieldsOwn, Working
  <1>7. ForwardBound' /\ HeadersKept'
    BY <1>1, <1>3 DEF CallInv, ForwardBound, HeadersKept
  <1> QED BY <1>1, <1>4, <1>5, <1>6, <1>7, CallsSame DEF CallInv

LEMMA WorkerTakeStep ==
  ASSUME CallInv, NEW r \in Requests, WorkerTake(r)
  PROVE  CallInv'
  <1> DEFINE c == Head(jobs[r])
  <1>1. /\ UNCHANGED <<obj, fwd, forwards, headers, queue, game, calls, answers, Calls>>
        /\ worker[r].at = "idle" /\ jobs[r] # <<>>
        /\ jobs' = [jobs EXCEPT ![r] = Tail(@)]
        /\ worker' = [worker EXCEPT ![r] = [at |-> "performing", call |-> c]]
    BY DEF WorkerTake, Calls
  <1>2. /\ jobs \in [Requests -> Seq(Calls)]
        /\ Len(calls) <= MaxCalls /\ Len(calls) \in Nat
    BY DEF CallInv, TypeOK
  <1>3. /\ c \in Calls /\ c \in ToSet(jobs[r])
        /\ Tail(jobs[r]) \in Seq(Calls)
        /\ Len(Tail(jobs[r])) = Len(jobs[r]) - 1 /\ Len(jobs[r]) \in Nat \ {0}
    BY <1>1, <1>2, TailFacts
  <1>4. Len(jobs[r]) <= 1
    BY DEF CallInv, Once
  <1>5. Tail(jobs[r]) = <<>>
    BY <1>1, <1>2, <1>4, TailOfOne
  <1> HIDE DEF c
  <1>6. c \in 0..MaxCalls
    BY <1>2, <1>3, HttpAssumption DEF Calls
  <1>7. /\ jobs' \in [Requests -> Seq(Calls)]
        /\ jobs'[r] = <<>>
        /\ \A q \in Requests \ {r} : jobs'[q] = jobs[q]
    BY <1>1, <1>2, <1>3, <1>5
  <1>8. /\ worker' \in [Requests ->
             [at : {"idle", "performing", "answering", "recording"}, call : 0..MaxCalls]]
        /\ worker'[r].at = "performing" /\ worker'[r].call = c
        /\ \A q \in Requests \ {r} : worker'[q] = worker[q]
    BY <1>1, <1>6, WorkerTypes DEF CallInv
  <1>9. /\ UNCHANGED <<Outer, Inner, Calling, Responded, Called>>
        /\ Queued' = Queued \ {r} /\ Working' = Working \cup {r} /\ r \in Queued
    BY <1>1, <1>7, <1>8, GameSame DEF Queued, Working, Responded
  <1>10. TypeOK' /\ GameShape'
    BY <1>1, <1>2, <1>7, <1>8, GameSame DEF CallInv, TypeOK
  <1>11. OnePlace' /\ Once' /\ Alive'
    BY <1>1, <1>7, <1>9 DEF CallInv, OnePlace, Once, Alive
  <1>12. JobsOwn'
    <2>1. ToSet(jobs'[r]) = {}
      BY <1>7 DEF ToSet
    <2> QED BY <1>1, <1>7, <2>1, CallsSame DEF CallInv, JobsOwn
  <1>13. FramesOwn' /\ WorkersOwn' /\ AnswersOwn' /\ FieldsOwn'
    <2>1. Of(r, c)
      BY <1>3 DEF CallInv, JobsOwn
    <2> QED
      BY <1>1, <1>8, <1>9, <2>1, CallsSame
      DEF CallInv, FramesOwn, WorkersOwn, AnswersOwn, FieldsOwn
  <1>14. ForwardBound' /\ HeadersKept'
    BY <1>1, <1>9 DEF CallInv, ForwardBound, HeadersKept
  <1> QED BY <1>1, <1>10, <1>11, <1>12, <1>13, <1>14, CallsSame DEF CallInv

LEMMA WorkerCheckStep ==
  ASSUME CallInv, NEW r \in Requests, WorkerCheck(r)
  PROVE  CallInv'
  <1>1. /\ UNCHANGED <<obj, fwd, forwards, jobs, headers, queue, game, calls,
                       answers, Calls>>
        /\ worker[r].at = "answering"
        /\ \/ worker' = [worker EXCEPT ![r] = [@ EXCEPT !.at = "recording"]]
           \/ worker' = [worker EXCEPT ![r] = [at |-> "idle", call |-> 0]]
    BY DEF WorkerCheck, Calls
  <1>2. /\ worker' \in [Requests ->
             [at : {"idle", "performing", "answering", "recording"}, call : 0..MaxCalls]]
        /\ \A q \in Requests : \/ worker'[q].at = "idle"
                               \/ /\ worker[q].at # "idle"
                                  /\ worker'[q].call = worker[q].call
    BY <1>1, WorkerTypes, HttpAssumption DEF CallInv
  <1>3. /\ UNCHANGED <<Outer, Inner, Calling, Queued, Responded, Called>>
        /\ Working' \subseteq Working
        /\ \A q \in Working' : worker'[q].call = worker[q].call
    BY <1>1, <1>2, GameSame DEF Queued, Working, Responded
  <1>4. TypeOK' /\ GameShape'
    BY <1>1, <1>2, GameSame DEF CallInv, TypeOK
  <1>5. OnePlace' /\ Once' /\ Alive'
    BY <1>1, <1>3 DEF CallInv, OnePlace, Once, Alive
  <1>6. FramesOwn' /\ JobsOwn' /\ WorkersOwn' /\ AnswersOwn' /\ FieldsOwn'
    BY <1>1, <1>3, CallsSame
    DEF CallInv, FramesOwn, JobsOwn, WorkersOwn, AnswersOwn, FieldsOwn
  <1>7. ForwardBound' /\ HeadersKept'
    BY <1>1, <1>3 DEF CallInv, ForwardBound, HeadersKept
  <1> QED BY <1>1, <1>4, <1>5, <1>6, <1>7, CallsSame DEF CallInv

LEMMA WorkerRecordStep ==
  ASSUME CallInv, NEW r \in Requests, WorkerRecord(r)
  PROVE  CallInv'
  <1> DEFINE c == worker[r].call
             t == [req |-> r, call |-> c]
  <1>1. /\ UNCHANGED <<obj, fwd, forwards, jobs, game, calls, answers, Calls>>
        /\ worker[r].at = "recording"
        /\ headers' = [headers EXCEPT ![r] = c]
        /\ queue' = Append(queue, t)
        /\ worker' = [worker EXCEPT ![r] = [at |-> "idle", call |-> 0]]
        /\ headers \in [Requests -> 0..MaxCalls]
        /\ queue \in Seq(Answer)
    BY DEF WorkerRecord, CallInv, TypeOK, Calls, Answer
  <1>2. r \in Working /\ Of(r, c) /\ c \in Calls /\ c \in 0..MaxCalls
    BY <1>1, WorkerTypes DEF CallInv, Working, WorkersOwn, Of
  <1>3. t \in Answer /\ t.req = r /\ t.call = c
    BY <1>2 DEF Answer
  <1> HIDE DEF c, t
  <1>4. /\ queue' \in Seq(Answer)
        /\ ToSet(queue') = ToSet(queue) \cup {t}
        /\ DOMAIN queue' = 1..(Len(queue) + 1) /\ DOMAIN queue = 1..Len(queue)
        /\ \A i \in 1..Len(queue) : queue'[i] = queue[i]
        /\ queue'[Len(queue) + 1] = t
        /\ Len(queue) \in Nat
    BY <1>1, <1>3, AppendFacts
  <1>5. /\ worker' \in [Requests ->
             [at : {"idle", "performing", "answering", "recording"}, call : 0..MaxCalls]]
        /\ worker'[r].at = "idle"
        /\ \A q \in Requests \ {r} : worker'[q] = worker[q]
    BY <1>1, WorkerTypes, HttpAssumption DEF CallInv
  <1>6. /\ headers' \in [Requests -> 0..MaxCalls] /\ headers'[r] = c
        /\ \A q \in Requests \ {r} : headers'[q] = headers[q]
    BY <1>1, <1>2
  <1>7. /\ UNCHANGED <<Outer, Inner, Calling, Queued, Called>>
        /\ Working' = Working \ {r} /\ Responded' = Responded \cup {r}
    BY <1>1, <1>3, <1>4, <1>5, GameSame DEF Queued, Working, Responded
  <1>8. r \notin Responded /\ r \notin Called /\ r \notin Queued /\ r \notin Calling
    BY <1>2 DEF CallInv, OnePlace
  <1>9. TypeOK' /\ GameShape'
    BY <1>1, <1>4, <1>5, <1>6, GameSame DEF CallInv, TypeOK, Answer
  <1>10. OnePlace' /\ Alive'
    BY <1>1, <1>2, <1>7 DEF CallInv, OnePlace, Alive
  <1>11. Once'
    <2>1. \A i \in 1..Len(queue) : queue[i].req # r
      BY <1>4, <1>8 DEF Responded, ToSet
    <2>2. \A i, j \in 1..Len(queue) : queue[i].req = queue[j].req => i = j
      BY <1>4 DEF CallInv, Once
    <2>3. \A i, j \in DOMAIN queue' : queue'[i].req = queue'[j].req => i = j
      BY <1>3, <1>4, <2>1, <2>2
    <2> QED BY <1>1, <2>3 DEF CallInv, Once
  <1>12. WorkersOwn'
    BY <1>2, <1>5, <1>7, CallsSame, <1>1 DEF CallInv, WorkersOwn
  <1>13. FramesOwn' /\ JobsOwn' /\ AnswersOwn' /\ FieldsOwn'
    BY <1>1, <1>2, <1>3, <1>4, <1>6, <1>7, CallsSame
    DEF CallInv, FramesOwn, JobsOwn, AnswersOwn, FieldsOwn
  <1>14. ForwardBound'
    BY <1>1, <1>2, <1>7 DEF CallInv, ForwardBound
  <1>15. HeadersKept'
    <2>1. \A q \in Calling \cup Queued \cup Working : q \in Requests
      BY DEF Calling, Queued, Working
    <2>2. \A q \in Calling' \cup Queued' \cup Working' : headers'[q] = 0
      BY <1>6, <1>7, <1>8, <2>1 DEF CallInv, HeadersKept
    <2>3. \A u \in ToSet(queue') : headers'[u.req] = u.call
      <3>1. \A u \in ToSet(queue) : u.req \in Requests /\ u.req # r
        BY <1>8, AnswersAre DEF CallInv, Responded
      <3> QED BY <1>3, <1>4, <1>6, <3>1 DEF CallInv, HeadersKept
    <2>4. Outer.op = "callback" => Outer.req \in Requests /\ Outer.req # r
      BY <1>8, FrameFacts DEF Called, Frame, NoFrame, CallInv
    <2>5. Inner.op = "read" => Inner.req \in Requests
      BY FrameFacts DEF Frame, NoFrame, CallInv
    <2>6. headers[r] = 0
      BY <1>2 DEF CallInv, HeadersKept
    <2> QED
      BY <1>6, <1>7, <2>2, <2>3, <2>4, <2>5, <2>6 DEF CallInv, HeadersKept
  <1> QED
    BY <1>1, <1>9, <1>10, <1>11, <1>12, <1>13, <1>14, <1>15, CallsSame DEF CallInv

-----------------------------------------------------------------------------
(* The game frame. *)

LEMMA OnCompletedStep == ASSUME CallInv, OnCompleted PROVE CallInv'
  <1> DEFINE t == Head(queue)
             r == t.req
             c == t.call
  <1>1. /\ UNCHANGED <<obj, fwd, forwards, jobs, worker, headers, calls, Calls>>
        /\ game = <<>> /\ queue # <<>>
        /\ queue' = Tail(queue)
        /\ answers' = answers \cup {[call |-> c, callback |-> fwd[r]]}
        /\ Enter("callback", r, c)
        /\ queue \in Seq(Answer)
        /\ answers \subseteq [call : Calls, callback : 0..MaxCalls]
        /\ fwd \in [Requests -> 0..MaxCalls]
    BY DEF OnCompleted, CallInv, TypeOK, Calls, Answer
  <1>2. /\ t \in Answer /\ queue' \in Seq(Answer)
        /\ Len(queue) \in Nat \ {0} /\ Len(queue') = Len(queue) - 1
        /\ \A i \in 1..(Len(queue) - 1) : queue'[i] = queue[i + 1]
        /\ t = queue[1]
        /\ ToSet(queue) = {t} \cup ToSet(queue')
        /\ DOMAIN queue = 1..Len(queue) /\ DOMAIN queue' = 1..(Len(queue) - 1)
    BY <1>1, TailFacts
  <1>3. r \in Requests /\ c \in Calls
    BY <1>2 DEF Answer
  <1>4. c \in 0..MaxCalls
    <2>1. Len(calls) <= MaxCalls /\ Len(calls) \in Nat
      BY DEF CallInv, TypeOK
    <2> HIDE DEF c
    <2> QED BY <1>3, <2>1, HttpAssumption DEF Calls
  <1>5. Of(r, c) /\ headers[r] = c /\ r \in Responded
    BY <1>2 DEF CallInv, AnswersOwn, HeadersKept, Responded
  <1>6. \A i \in 1..(Len(queue) - 1) :
          i \in 1..Len(queue) /\ i + 1 \in 1..Len(queue) /\ i + 1 # 1 /\ 1 \in 1..Len(queue)
    BY <1>2
  <1>7. \A u \in ToSet(queue') : u.req # r
    <2>1. SUFFICES ASSUME NEW i \in 1..(Len(queue) - 1), queue'[i].req = r
                   PROVE  FALSE
      BY <1>2 DEF ToSet
    <2>2. queue[i + 1].req = queue[1].req /\ i + 1 \in DOMAIN queue /\ 1 \in DOMAIN queue
      BY <1>2, <1>6, <2>1
    <2>3. i + 1 = 1
      BY <2>2 DEF CallInv, Once
    <2> QED BY <1>6, <2>3
  <1> HIDE DEF t, r, c
  <1>8. /\ game' \in Seq(Frame) /\ GameShape'
        /\ Outer = NoFrame /\ Inner = NoFrame /\ Inner' = NoFrame
        /\ Outer' = [op |-> "callback", req |-> r, call |-> c]
    BY <1>1, <1>3, <1>4, GameCallback DEF CallInv
  <1>9. /\ Calling' = Calling
        /\ UNCHANGED <<Queued, Working>>
        /\ Called' = {r} /\ Responded' = Responded \ {r}
    <2>1. Calling' = Calling /\ UNCHANGED <<Queued, Working>> /\ Called' = {r}
      BY <1>1, <1>3, <1>8 DEF Calling, Queued, Working, Called, NoFrame
    <2>2. Responded = {r} \cup Responded'
      BY <1>2 DEF Responded, r
    <2>3. r \notin Responded'
      BY <1>7 DEF Responded
    <2> QED BY <2>1, <2>2, <2>3
  <1>10. fwd[r] = c
    <2>1. fwd[r] # 0 /\ Of(r, fwd[r])
      BY <1>3, <1>5 DEF CallInv, ForwardBound, FieldsOwn
    <2> QED BY <1>5, <2>1 DEF CallInv, OneCall, Of
  <1>11. /\ AnswerToOwnCallback'
         /\ answers' \subseteq [call : Calls, callback : 0..MaxCalls]
    BY <1>1, <1>3, <1>4, <1>10 DEF CallInv, AnswerToOwnCallback
  <1>12. TypeOK'
    BY <1>1, <1>2, <1>8, <1>11 DEF CallInv, TypeOK, Frame, Answer
  <1>13. OnePlace' /\ Alive'
    BY <1>1, <1>5, <1>8, <1>9 DEF CallInv, OnePlace, Alive, NoFrame
  <1>14. Once'
    BY <1>1, <1>2, <1>6 DEF CallInv, Once
  <1>15. FramesOwn' /\ JobsOwn' /\ WorkersOwn' /\ AnswersOwn' /\ FieldsOwn'
    BY <1>1, <1>2, <1>5, <1>8, <1>9, CallsSame
    DEF CallInv, FramesOwn, JobsOwn, WorkersOwn, AnswersOwn, FieldsOwn, NoFrame
  <1>16. ForwardBound' /\ HeadersKept'
    BY <1>1, <1>2, <1>5, <1>8, <1>9 DEF CallInv, ForwardBound, HeadersKept, NoFrame
  <1> QED BY <1>1, <1>8, <1>11, <1>12, <1>13, <1>14, <1>15, <1>16, CallsSame DEF CallInv

(* A forward that is released is of no other object. *)
LEMMA Release ==
  ASSUME CallInv, NEW r \in Requests, ReleaseForward(r), UNCHANGED <<fwd, calls>>
  PROVE  /\ forwards' \in [Calls' -> ForwardLife]
         /\ \A q \in Requests \ {r} : fwd[q] # 0 => forwards'[fwd[q]] = forwards[fwd[q]]
  <1>1. /\ forwards \in [Calls -> ForwardLife] /\ Calls' = Calls
        /\ forwards' = [c \in Calls |-> IF c = fwd[r] THEN "released" ELSE forwards[c]]
    BY DEF ReleaseForward, CallInv, TypeOK, ForwardLife, Calls
  <1>2. forwards' \in [Calls' -> ForwardLife]
    BY <1>1 DEF ForwardLife
  <1>3. ASSUME NEW q \in Requests \ {r}, fwd[q] # 0
        PROVE  forwards'[fwd[q]] = forwards[fwd[q]]
    <2>1. Of(q, fwd[q]) /\ (fwd[r] # 0 => Of(r, fwd[r]))
      BY <1>3 DEF CallInv, FieldsOwn
    <2>2. fwd[q] \in Calls /\ fwd[q] # fwd[r]
      BY <1>3, <2>1 DEF Of
    <2> QED BY <1>1, <2>2
  <1> QED BY <1>2, <1>3

LEMMA FreeHandleStep == ASSUME CallInv, FreeHandle PROVE CallInv'
  <1> DEFINE r == Top.req
  <1>1. /\ UNCHANGED <<fwd, jobs, worker, headers, queue, calls, answers, Calls>>
        /\ Running("callback") /\ obj[r] = "live"
        /\ obj' = [obj EXCEPT ![r] = "destroying"]
        /\ ReleaseForward(r)
        /\ game' = [game EXCEPT ![Len(game)] = [op |-> "destroy", req |-> r, call |-> 0]]
        /\ obj \in [Requests -> Life]
    BY DEF FreeHandle, CallInv, TypeOK, Calls
  <1>2. r \in Requests /\ Top.op = "callback"
    BY <1>1, TopFacts DEF CallInv, Running, Top, Frame
  <1>3. /\ game' \in Seq(Frame) /\ GameShape'
        /\ Outer = Top /\ Inner = NoFrame /\ Outer' = NoFrame
        /\ Inner' = [op |-> "destroy", req |-> r, call |-> 0]
    BY <1>1, <1>2, GameFree DEF CallInv
  <1>4. r \in Called
    BY <1>2, <1>3 DEF Called
  <1> HIDE DEF r
  <1>5. /\ UNCHANGED <<Calling, Queued, Working, Responded>>
        /\ Called' = {}
    BY <1>1, <1>3 DEF Calling, Queued, Working, Responded, Called, NoFrame
  <1>6. r \notin Calling \cup Queued \cup Working \cup Responded
    BY <1>4 DEF CallInv, OnePlace
  <1>7. /\ forwards' \in [Calls -> ForwardLife]
        /\ \A q \in Requests \ {r} : fwd[q] # 0 => forwards'[fwd[q]] = forwards[fwd[q]]
    BY <1>1, <1>2, Release
  <1>8. TypeOK'
    BY <1>1, <1>2, <1>3, <1>7 DEF CallInv, TypeOK, Frame, Life, ForwardLife
  <1>9. Queued \subseteq Requests /\ Working \subseteq Requests
    BY DEF Queued, Working
  <1>10. OnePlace' /\ Once'
    BY <1>1, <1>5 DEF CallInv, OnePlace, Once
  <1>11. Alive'
    <2>1. \A q \in Calling \cup Queued \cup Working \cup Responded : q \in Requests
      BY AnswersAre DEF Calling, Queued, Working, CallInv
    <2> QED BY <1>1, <1>2, <1>3, <1>5, <1>6, <2>1 DEF CallInv, Alive
  <1>12. FramesOwn' /\ JobsOwn' /\ WorkersOwn' /\ AnswersOwn' /\ FieldsOwn'
    BY <1>1, <1>3, <1>5, CallsSame
    DEF CallInv, FramesOwn, JobsOwn, WorkersOwn, AnswersOwn, FieldsOwn, NoFrame
  <1>13. ForwardBound'
    BY <1>1, <1>5, <1>6, <1>7, <1>9 DEF CallInv, ForwardBound
  <1>14. HeadersKept'
    BY <1>1, <1>3, <1>5 DEF CallInv, HeadersKept, NoFrame
  <1> QED
    BY <1>1, <1>3, <1>8, <1>10, <1>11, <1>12, <1>13, <1>14, CallsSame DEF CallInv

(* The rest of ~HttpRequest: there is no call to forget. *)
LEMMA DestroyEndStep == ASSUME CallInv, DestroyEnd PROVE CallInv'
  <1> DEFINE r == Top.req
  <1>1. /\ UNCHANGED <<fwd, forwards, worker, headers, queue, calls, answers, Calls>>
        /\ Return /\ game # <<>> /\ Top.op = "destroy"
        /\ obj' = [obj EXCEPT ![r] = "deleted"]
        /\ jobs' = [jobs EXCEPT ![r] = <<>>]
        /\ obj \in [Requests -> Life] /\ jobs \in [Requests -> Seq(Calls)]
    BY DEF DestroyEnd, Running, Top, Calls, CallInv, TypeOK
  <1>2. /\ game' \in Seq(Frame) /\ GameShape' /\ Outer' = Outer
        /\ Inner = Top /\ Inner.op = "destroy" /\ Inner' = NoFrame
        /\ Inner.req = r /\ r \in Requests
    BY <1>1, GameReturn, TopFacts DEF CallInv, Frame
  <1> HIDE DEF r
  <1>3. r \notin Calling \cup Queued \cup Working \cup Responded \cup Called
    <2>1. obj[r] # "live"
      BY <1>2 DEF CallInv, Alive
    <2> QED BY <2>1 DEF CallInv, Alive
  <1>4. /\ jobs' \in [Requests -> Seq(Calls)] /\ jobs'[r] = <<>>
        /\ \A q \in Requests \ {r} : jobs'[q] = jobs[q]
        /\ jobs[r] = <<>>
    BY <1>1, <1>2, <1>3 DEF Queued
  <1>5. jobs' = jobs
    BY <1>1, <1>4
  <1>6. UNCHANGED <<Calling, Queued, Working, Responded, Called>>
    BY <1>1, <1>2, <1>5 DEF Calling, Queued, Working, Responded, Called, NoFrame
  <1>7. TypeOK'
    BY <1>1, <1>2, <1>5 DEF CallInv, TypeOK, Frame, Life
  <1>8. OnePlace' /\ Once'
    BY <1>1, <1>5, <1>6 DEF CallInv, OnePlace, Once
  <1>9. Alive'
    <2>1. \A q \in Calling \cup Queued \cup Working \cup Responded \cup Called : q \in Requests
      BY AnswersAre DEF Calling, Queued, Working, Called, CallInv
    <2> QED BY <1>1, <1>2, <1>3, <1>6, <2>1 DEF CallInv, Alive, NoFrame
  <1>10. FramesOwn' /\ JobsOwn' /\ WorkersOwn' /\ AnswersOwn' /\ FieldsOwn'
    BY <1>1, <1>2, <1>5, <1>6, CallsSame
    DEF CallInv, FramesOwn, JobsOwn, WorkersOwn, AnswersOwn, FieldsOwn, NoFrame
  <1>11. ForwardBound' /\ HeadersKept'
    BY <1>1, <1>2, <1>5, <1>6 DEF CallInv, ForwardBound, HeadersKept, NoFrame
  <1> QED BY <1>1, <1>2, <1>7, <1>8, <1>9, <1>10, <1>11, CallsSame DEF CallInv

-----------------------------------------------------------------------------
(* The natives that make a call or delete the object. *)

(* An object on which no call was made has nothing of one. *)
LEMMA NoCall ==
  ASSUME CallInv, NEW r \in Requests, CallsOn(r) = {}
  PROVE  /\ \A c : ~Of(r, c)
         /\ r \notin Calling \cup Queued \cup Working \cup Responded \cup Called
         /\ fwd[r] = 0 /\ headers[r] = 0
  <1>1. \A c : ~Of(r, c)
    BY DEF Of, CallsOn
  <1>2. r \notin Calling /\ r \notin Called
    BY <1>1 DEF CallInv, FramesOwn, Calling, Called
  <1>3. r \notin Queued
    <2>1. SUFFICES ASSUME jobs[r] # <<>> PROVE FALSE
      BY DEF Queued
    <2>2. Head(jobs[r]) \in ToSet(jobs[r])
      BY <2>1, TailFacts DEF CallInv, TypeOK
    <2> QED BY <1>1, <2>2 DEF CallInv, JobsOwn
  <1>4. r \notin Working
    BY <1>1 DEF CallInv, WorkersOwn
  <1>5. r \notin Responded
    BY <1>1 DEF CallInv, AnswersOwn, Responded
  <1>6. fwd[r] = 0 /\ headers[r] = 0
    BY <1>1 DEF CallInv, FieldsOwn
  <1> QED BY <1>1, <1>2, <1>3, <1>4, <1>5, <1>6

LEMMA DeleteHandleStep ==
  ASSUME CallInv, ~DeleteInFlight, NEW r \in Requests, DeleteHandle(r)
  PROVE  CallInv'
  <1>1. /\ UNCHANGED <<fwd, jobs, worker, headers, queue, calls, answers, Calls>>
        /\ InPlugin /\ obj[r] = "live" /\ CallsOn(r) = {}
        /\ obj' = [obj EXCEPT ![r] = "destroying"]
        /\ ReleaseForward(r)
        /\ Enter("destroy", r, 0) /\ 0 \in 0..MaxCalls
        /\ obj \in [Requests -> Life]
    BY HttpAssumption DEF DeleteHandle, CallInv, TypeOK, Calls
  <1>2. /\ game' \in Seq(Frame) /\ GameShape' /\ Outer' = Outer /\ Inner = NoFrame
        /\ Inner' = [op |-> "destroy", req |-> r, call |-> 0]
    BY <1>1, GameEnter DEF CallInv
  <1>3. UNCHANGED <<Calling, Queued, Working, Responded, Called>>
    BY <1>1, <1>2 DEF Calling, Queued, Working, Responded, Called, NoFrame
  <1>4. r \notin Calling \cup Queued \cup Working \cup Responded \cup Called
    BY <1>1, NoCall
  <1>5. /\ forwards' \in [Calls -> ForwardLife]
        /\ \A q \in Requests \ {r} : fwd[q] # 0 => forwards'[fwd[q]] = forwards[fwd[q]]
    BY <1>1, Release
  <1>6. TypeOK'
    BY <1>1, <1>2, <1>5 DEF CallInv, TypeOK, Frame, Life, ForwardLife
  <1>7. OnePlace' /\ Once'
    BY <1>1, <1>3 DEF CallInv, OnePlace, Once
  <1>8. \A q \in Calling \cup Queued \cup Working \cup Responded \cup Called : q \in Requests
    BY AnswersAre DEF Calling, Queued, Working, Called, CallInv
  <1>9. Alive'
    BY <1>1, <1>2, <1>3, <1>4, <1>8 DEF CallInv, Alive
  <1>10. FramesOwn' /\ JobsOwn' /\ WorkersOwn' /\ AnswersOwn' /\ FieldsOwn'
    BY <1>1, <1>2, <1>3, CallsSame
    DEF CallInv, FramesOwn, JobsOwn, WorkersOwn, AnswersOwn, FieldsOwn
  <1>11. ForwardBound'
    BY <1>1, <1>3, <1>4, <1>5, <1>8 DEF CallInv, ForwardBound
  <1>12. HeadersKept'
    BY <1>1, <1>2, <1>3 DEF CallInv, HeadersKept
  <1> QED
    BY <1>1, <1>2, <1>6, <1>7, <1>9, <1>10, <1>11, <1>12, CallsSame DEF CallInv

LEMMA CallRejectStep == ASSUME CallInv, CallReject PROVE CallInv'
  <1> DEFINE r == Top.req
             c == Top.call
  <1>1. /\ UNCHANGED <<obj, jobs, worker, headers, queue, calls, answers, Calls>>
        /\ Return /\ game # <<>> /\ Top.op = "call"
        /\ \E d \in {0, c} : fwd' = [fwd EXCEPT ![r] = d]
        /\ UNCHANGED forwards \/ forwards' = [forwards EXCEPT ![c] = "empty"]
        /\ fwd \in [Requests -> 0..MaxCalls] /\ forwards \in [Calls -> ForwardLife]
    BY DEF CallReject, Running, Top, Calls, CallInv, TypeOK, ForwardLife
  <1>2. /\ game' \in Seq(Frame) /\ GameShape' /\ Outer' = Outer
        /\ Inner = Top /\ Inner' = NoFrame
        /\ r \in Requests /\ c \in 0..MaxCalls
    BY <1>1, GameReturn, TopFacts DEF CallInv, Frame
  <1>3. Of(r, c) /\ r \in Calling
    BY <1>1, <1>2 DEF CallInv, FramesOwn, Calling
  <1>4. c \in Calls
    BY <1>3 DEF Of
  <1> HIDE DEF r, c
  <1>5. /\ fwd' \in [Requests -> 0..MaxCalls] /\ fwd'[r] \in {0, c}
        /\ \A q \in Requests \ {r} : fwd'[q] = fwd[q]
    BY <1>1, <1>2, HttpAssumption
  <1>6. /\ forwards' \in [Calls -> ForwardLife]
        /\ \A d \in Calls \ {c} : forwards'[d] = forwards[d]
    BY <1>1, <1>4 DEF ForwardLife
  <1>7. /\ UNCHANGED <<Queued, Working, Responded, Called>> /\ Calling' = {}
    BY <1>1, <1>2 DEF Calling, Queued, Working, Responded, Called, NoFrame
  <1>8. r \notin Queued \cup Working \cup Responded
    BY <1>3 DEF CallInv, OnePlace
  <1>9. TypeOK'
    BY <1>1, <1>2, <1>5, <1>6 DEF CallInv, TypeOK, Frame, ForwardLife
  <1>10. OnePlace' /\ Once' /\ Alive'
    BY <1>1, <1>2, <1>7 DEF CallInv, OnePlace, Once, Alive, NoFrame
  <1>11. FramesOwn' /\ JobsOwn' /\ WorkersOwn' /\ AnswersOwn'
    BY <1>1, <1>2, <1>7, CallsSame
    DEF CallInv, FramesOwn, JobsOwn, WorkersOwn, AnswersOwn, NoFrame
  <1>12. FieldsOwn'
    BY <1>1, <1>3, <1>5, CallsSame DEF CallInv, FieldsOwn
  <1>13. ForwardBound'
    <2>1. ASSUME NEW q \in Queued \cup Working \cup Responded
          PROVE  q \in Requests \ {r} /\ fwd'[q] = fwd[q] /\ fwd[q] # 0
                   /\ fwd[q] \in Calls \ {c}
      <3>1. q \in Requests \ {r}
        BY <1>8, AnswersAre DEF Queued, Working, CallInv
      <3>2. fwd[q] # 0 /\ Of(q, fwd[q])
        BY <3>1 DEF CallInv, ForwardBound, FieldsOwn
      <3> QED BY <1>3, <1>5, <3>1, <3>2 DEF Of
    <2> QED BY <1>6, <1>7, <2>1 DEF CallInv, ForwardBound
  <1>14. HeadersKept'
    BY <1>1, <1>2, <1>7 DEF CallInv, HeadersKept, NoFrame
  <1> QED
    BY <1>1, <1>2, <1>9, <1>10, <1>11, <1>12, <1>13, <1>14, CallsSame DEF CallInv

LEMMA CallPerformStep == ASSUME CallInv, CallPerform PROVE CallInv'
  <1> DEFINE r == Top.req
             c == Top.call
  <1>1. /\ UNCHANGED <<obj, worker, headers, queue, calls, answers, Calls>>
        /\ Return /\ game # <<>> /\ Top.op = "call"
        /\ fwd' = [fwd EXCEPT ![r] = c]
        /\ forwards' = [forwards EXCEPT ![c] = "bound"]
        /\ jobs' = [jobs EXCEPT ![r] = Append(@, c)]
        /\ fwd \in [Requests -> 0..MaxCalls] /\ forwards \in [Calls -> ForwardLife]
        /\ jobs \in [Requests -> Seq(Calls)]
    BY DEF CallPerform, Running, Top, Calls, CallInv, TypeOK, ForwardLife
  <1>2. /\ game' \in Seq(Frame) /\ GameShape' /\ Outer' = Outer
        /\ Inner = Top /\ Inner' = NoFrame
        /\ r \in Requests /\ c \in 0..MaxCalls
    BY <1>1, GameReturn, TopFacts DEF CallInv, Frame
  <1>3. Of(r, c) /\ r \in Calling
    BY <1>1, <1>2 DEF CallInv, FramesOwn, Calling
  <1>4. c \in Calls /\ c # 0
    <2> HIDE DEF c
    <2> QED BY <1>3 DEF Of, Calls
  <1>5. r \notin Queued \cup Working \cup Responded \cup Called
    BY <1>3 DEF CallInv, OnePlace
  <1>6. jobs[r] = <<>>
    BY <1>2, <1>5 DEF Queued
  <1> HIDE DEF r, c
  <1>7. /\ fwd' \in [Requests -> 0..MaxCalls] /\ fwd'[r] = c
        /\ \A q \in Requests \ {r} : fwd'[q] = fwd[q]
    BY <1>1, <1>2
  <1>8. /\ forwards' \in [Calls -> ForwardLife] /\ forwards'[c] = "bound"
        /\ \A d \in Calls \ {c} : forwards'[d] = forwards[d]
    BY <1>1, <1>4 DEF ForwardLife
  <1>9. /\ jobs' \in [Requests -> Seq(Calls)]
        /\ jobs'[r] = <<c>>
        /\ \A q \in Requests \ {r} : jobs'[q] = jobs[q]
    BY <1>1, <1>2, <1>4, <1>6
  <1>10. ToSet(jobs'[r]) = {c} /\ Len(jobs'[r]) = 1 /\ jobs'[r] # <<>>
    BY <1>9 DEF ToSet
  <1>11. /\ UNCHANGED <<Working, Responded, Called>>
         /\ Calling' = {} /\ Queued' = Queued \cup {r}
    BY <1>1, <1>2, <1>9, <1>10
    DEF Calling, Queued, Working, Responded, Called, NoFrame
  <1>12. TypeOK'
    BY <1>1, <1>2, <1>7, <1>8, <1>9 DEF CallInv, TypeOK, Frame, ForwardLife
  <1>13. OnePlace'
    BY <1>5, <1>11 DEF CallInv, OnePlace
  <1>14. Once'
    BY <1>1, <1>9, <1>10 DEF CallInv, Once
  <1>15. Alive'
    BY <1>1, <1>2, <1>3, <1>11 DEF CallInv, Alive, NoFrame
  <1>16. JobsOwn'
    BY <1>1, <1>3, <1>9, <1>10, CallsSame DEF CallInv, JobsOwn
  <1>17. FramesOwn' /\ WorkersOwn' /\ AnswersOwn'
    BY <1>1, <1>2, <1>11, CallsSame DEF CallInv, FramesOwn, WorkersOwn, AnswersOwn, NoFrame
  <1>18. FieldsOwn'
    BY <1>1, <1>3, <1>7, CallsSame DEF CallInv, FieldsOwn
  <1>19. ForwardBound'
    <2>1. ASSUME NEW q \in Queued \cup Working \cup Responded
          PROVE  q \in Requests \ {r} /\ fwd'[q] = fwd[q] /\ fwd[q] # 0
                   /\ fwd[q] \in Calls \ {c}
      <3>1. q \in Requests \ {r}
        BY <1>5, AnswersAre DEF Queued, Working, CallInv
      <3>2. fwd[q] # 0 /\ Of(q, fwd[q])
        BY <3>1 DEF CallInv, ForwardBound, FieldsOwn
      <3> QED BY <1>3, <1>7, <3>1, <3>2 DEF Of
    <2> QED BY <1>4, <1>7, <1>8, <1>11, <2>1 DEF CallInv, ForwardBound
  <1>20. HeadersKept'
    BY <1>1, <1>2, <1>3, <1>11 DEF CallInv, HeadersKept, NoFrame
  <1> QED
    BY <1>1, <1>2, <1>12, <1>13, <1>14, <1>15, <1>16, <1>17, <1>18, <1>19, <1>20,
       CallsSame
    DEF CallInv

LEMMA CallBeginStep ==
  ASSUME CallInv, ~Reuse, NEW r \in Requests, CallBegin(r)
  PROVE  CallInv'
  <1> DEFINE c == Len(calls) + 1
  <1>1. /\ UNCHANGED <<obj, fwd, jobs, worker, headers, queue, answers>>
        /\ InPlugin /\ obj[r] = "live" /\ CallsOn(r) = {} /\ Len(calls) < MaxCalls
        /\ calls' = Append(calls, r)
        /\ forwards' = Append([d \in Calls |-> IF d = fwd[r] THEN "released"
                                               ELSE forwards[d]], "none")
        /\ Enter("call", r, c)
    BY DEF CallBegin
  <1>3. /\ calls \in Seq(Requests) /\ Len(calls) \in Nat
        /\ forwards \in [Calls -> ForwardLife]
        /\ c \in 0..MaxCalls /\ c <= MaxCalls /\ c \notin Calls /\ c \in Nat
    BY <1>1, HttpAssumption DEF CallInv, TypeOK, ForwardLife, Calls
  <1>4. /\ \A q : ~Of(r, q)
        /\ r \notin Calling \cup Queued \cup Working \cup Responded \cup Called
        /\ fwd[r] = 0 /\ headers[r] = 0
    BY <1>1, NoCall
  <1>5. /\ calls' \in Seq(Requests) /\ Len(calls') = c
        /\ \A d \in Calls : calls'[d] = calls[d]
        /\ calls'[c] = r
    BY <1>1, <1>3, AppendFacts DEF Calls
  <1>6. Calls' = Calls \cup {c}
    BY <1>3, <1>5 DEF Calls
  <1>7. /\ forwards' \in [Calls' -> ForwardLife]
        /\ \A d \in Calls : forwards'[d] = forwards[d]
    <2> DEFINE f == [d \in Calls |-> IF d = fwd[r] THEN "released" ELSE forwards[d]]
    <2>1. 0 \notin Calls
      BY <1>3 DEF Calls
    <2>2. f \in [1..Len(calls) -> ForwardLife] /\ \A d \in Calls : f[d] = forwards[d]
      BY <1>3, <1>4, <2>1 DEF Calls
    <2> HIDE DEF f
    <2>3. f \in Seq(ForwardLife) /\ Len(f) = Len(calls) /\ "none" \in ForwardLife
      BY <1>3, <2>2, IsASeq DEF ForwardLife
    <2>4. /\ Append(f, "none") \in Seq(ForwardLife)
          /\ Len(Append(f, "none")) = c
          /\ \A d \in 1..Len(calls) : Append(f, "none")[d] = f[d]
      BY <2>3, AppendFacts
    <2>5. forwards' = Append(f, "none")
      BY <1>1 DEF f
    <2>6. forwards' \in [1..c -> ForwardLife]
      <3>1. \A g \in Seq(ForwardLife) : g \in [1..Len(g) -> ForwardLife]
        BY LenProperties
      <3> QED BY <2>4, <2>5, <3>1
    <2> QED BY <1>5, <2>2, <2>4, <2>5, <2>6 DEF Calls
  <1>8. /\ game' \in Seq(Frame) /\ GameShape' /\ Outer' = Outer /\ Inner = NoFrame
        /\ Inner' = [op |-> "call", req |-> r, call |-> c]
    BY <1>1, <1>3, GameEnter DEF CallInv
  <1>9. \A q, d : Of(q, d)' <=> (Of(q, d) \/ (q = r /\ d = c))
    BY <1>3, <1>5, <1>6 DEF Of
  <1>10. /\ UNCHANGED <<Queued, Working, Responded, Called>>
         /\ Calling' = {r} /\ Calling = {}
    BY <1>1, <1>8 DEF Calling, Queued, Working, Responded, Called, NoFrame
  <1> HIDE DEF c
  <1>11. TypeOK'
    <2>1. jobs' \in [Requests -> Seq(Calls')]
      <3>1. jobs \in [Requests -> Seq(Calls)]
        BY DEF CallInv, TypeOK
      <3>2. Seq(Calls) \subseteq Seq(Calls')
        BY <1>6, SeqMonotonic
      <3> QED BY <1>1, <3>1, <3>2
    <2>2. queue' \in Seq(Answer')
      <3>1. queue \in Seq(Answer) /\ Answer \subseteq Answer'
        BY <1>6 DEF CallInv, TypeOK, Answer
      <3> QED BY <1>1, <3>1, SeqMonotonic
    <2>3. answers' \subseteq [call : Calls', callback : 0..MaxCalls]
      BY <1>1, <1>6 DEF CallInv, TypeOK
    <2>4. calls' \in Seq(Requests) /\ Len(calls') <= MaxCalls
      BY <1>3, <1>5
    <2>5. /\ obj' \in [Requests -> Life]
          /\ fwd' \in [Requests -> 0..MaxCalls] /\ headers' \in [Requests -> 0..MaxCalls]
      BY <1>1 DEF CallInv, TypeOK
    <2>6. worker' \in [Requests ->
            [at : {"idle", "performing", "answering", "recording"}, call : 0..MaxCalls]]
      BY <1>1, WorkerTypes DEF CallInv
    <2> QED
      BY <1>7, <1>8, <2>1, <2>2, <2>3, <2>4, <2>5, <2>6 DEF TypeOK, Frame, Answer, ForwardLife
  <1>12. OnePlace'
    BY <1>4, <1>10 DEF CallInv, OnePlace
  <1>13. Once' /\ Alive'
    BY <1>1, <1>8, <1>10 DEF CallInv, Once, Alive
  <1>14. OneCall'
    <2>1. \A d \in Calls : calls[d] # r
      BY <1>4 DEF Of
    <2> QED BY <1>5, <1>6, <2>1 DEF CallInv, OneCall
  <1>15. FramesOwn'
    BY <1>8, <1>9 DEF CallInv, FramesOwn
  <1>16. JobsOwn' /\ WorkersOwn' /\ AnswersOwn'
    BY <1>1, <1>9, <1>10 DEF CallInv, JobsOwn, WorkersOwn, AnswersOwn
  <1>17. FieldsOwn'
    BY <1>1, <1>9 DEF CallInv, FieldsOwn
  <1>18. ForwardBound'
    <2>1. \A q \in Queued \cup Working \cup Responded : fwd[q] \in Calls
      BY AnswersAre DEF CallInv, ForwardBound, FieldsOwn, Of, Queued, Working
    <2> QED BY <1>1, <1>7, <1>10, <2>1 DEF CallInv, ForwardBound
  <1>20. HeadersKept'
    BY <1>1, <1>4, <1>8, <1>10 DEF CallInv, HeadersKept
  <1>22. AnswerToOwnCallback'
    BY <1>1 DEF CallInv, AnswerToOwnCallback
  <1> QED
    BY <1>8, <1>11, <1>12, <1>13, <1>14, <1>15, <1>16, <1>17, <1>18, <1>20, <1>22
    DEF CallInv

-----------------------------------------------------------------------------
LEMMA InitCallInv == Init => CallInv
  <1> SUFFICES ASSUME Init PROVE CallInv
    OBVIOUS
  <1>1. /\ game = <<>> /\ queue = <<>> /\ calls = <<>> /\ forwards = <<>>
        /\ Calls = {} /\ ToSet(queue) = {} /\ answers = {}
    BY DEF Init, Calls, ToSet
  <1>2. Outer = NoFrame /\ Inner = NoFrame
    BY <1>1 DEF Outer, Inner
  <1>3. Calling = {} /\ Queued = {} /\ Working = {} /\ Responded = {} /\ Called = {}
    BY <1>1, <1>2 DEF Init, Calling, Queued, Working, Responded, Called, NoFrame
  <1>4. TypeOK
    <2>1. /\ obj \in [Requests -> Life]
          /\ fwd \in [Requests -> 0..MaxCalls] /\ headers \in [Requests -> 0..MaxCalls]
      BY HttpAssumption DEF Init, Life
    <2>2. calls \in Seq(Requests) /\ Len(calls) <= MaxCalls
      BY <1>1, HttpAssumption
    <2>3. forwards \in [Calls -> {"none", "bound", "empty", "released"}]
      BY <1>1
    <2>4. jobs \in [Requests -> Seq(Calls)]
      BY DEF Init
    <2>5. worker \in [Requests ->
            [at : {"idle", "performing", "answering", "recording"}, call : 0..MaxCalls]]
      BY HttpAssumption DEF Init
    <2>6. /\ queue \in Seq([req : Requests, call : Calls])
          /\ game \in Seq([op : {"call", "read", "callback", "destroy"}, req : Requests,
                           call : 0..MaxCalls])
          /\ answers \subseteq [call : Calls, callback : 0..MaxCalls]
      BY <1>1
    <2> QED BY <2>1, <2>2, <2>3, <2>4, <2>5, <2>6 DEF TypeOK
  <1>5. GameShape /\ OnePlace /\ Alive /\ OneCall
    BY <1>1, <1>2, <1>3 DEF GameShape, OnePlace, Alive, OneCall, NoFrame
  <1>6. Once
    BY <1>1 DEF Init, Once
  <1>7. \A r \in Requests : ToSet(jobs[r]) = {}
    BY DEF Init, ToSet
  <1>8. FramesOwn /\ JobsOwn /\ WorkersOwn /\ AnswersOwn
    BY <1>1, <1>2, <1>3, <1>7 DEF FramesOwn, JobsOwn, WorkersOwn, AnswersOwn, NoFrame
  <1>9. FieldsOwn
    BY DEF Init, FieldsOwn
  <1>10. ForwardBound /\ HeadersKept
    BY <1>1, <1>2, <1>3 DEF ForwardBound, HeadersKept, NoFrame
  <1>11. AnswerToOwnCallback
    BY <1>1 DEF AnswerToOwnCallback
  <1> QED BY <1>4, <1>5, <1>6, <1>8, <1>9, <1>10, <1>11 DEF CallInv

LEMMA NextCallInv ==
  ASSUME CallInv, ~Reuse, ~DeleteInFlight, [Next]_vars
  PROVE  CallInv'
  <1>1. CASE UNCHANGED vars
    <2>1. /\ UNCHANGED <<obj, fwd, forwards, jobs, worker, headers, queue, game,
                         calls, answers, Calls>>
      BY <1>1 DEF vars, Calls
    <2>2. UNCHANGED <<Outer, Inner, Calling, Queued, Working, Responded, Called>>
      BY <2>1, GameSame DEF Queued, Working, Responded
    <2>3. TypeOK' /\ GameShape'
      BY <2>1, GameSame DEF CallInv, TypeOK
    <2>4. OnePlace' /\ Once' /\ Alive'
      BY <2>1, <2>2 DEF CallInv, OnePlace, Once, Alive
    <2>5. FramesOwn' /\ JobsOwn' /\ WorkersOwn' /\ AnswersOwn' /\ FieldsOwn'
      BY <2>1, <2>2, CallsSame
      DEF CallInv, FramesOwn, JobsOwn, WorkersOwn, AnswersOwn, FieldsOwn
    <2>6. ForwardBound' /\ HeadersKept'
      BY <2>1, <2>2 DEF CallInv, ForwardBound, HeadersKept
    <2> QED BY <2>1, <2>3, <2>4, <2>5, <2>6, CallsSame DEF CallInv
  <1>2. CASE Next
    BY <1>2, CreateStep, ReadHeaderStep, ReadHeaderEndStep, CallBeginStep,
       CallPerformStep, CallRejectStep, DeleteHandleStep, DestroyEndStep,
       WorkerTakeStep, WorkerAnsweredStep, WorkerCheckStep, WorkerRecordStep,
       OnCompletedStep, FreeHandleStep
    DEF Next, CallEnd, Worker
  <1> QED BY <1>1, <1>2

-----------------------------------------------------------------------------
(* An object whose call was answered has none to come. *)

LEMMA HandedAreCalls ==
  ASSUME CallInv
  PROVE  Handed \subseteq Calls
  BY DEF CallInv, TypeOK, Handed

LEMMA NoMoreBusy ==
  ASSUME CallInv, AnsweredOver, UNCHANGED answers, Busy' \subseteq Busy,
         \A c \in Calls : calls'[c] = calls[c]
  PROVE  AnsweredOver'
  <1>1. Handed' = Handed
    BY DEF Handed
  <1> QED BY <1>1, HandedAreCalls DEF AnsweredOver

LEMMA AnsweredOverEnd ==
  ASSUME CallInv, AnsweredOver, CallEnd \/ ReadHeaderEnd \/ DestroyEnd
  PROVE  AnsweredOver'
  <1>1. /\ UNCHANGED <<worker, queue, answers, calls>>
        /\ game # <<>> /\ Top.op \in {"call", "read", "destroy"} /\ Return
    BY DEF CallEnd, CallPerform, CallReject, ReadHeaderEnd, DestroyEnd, Running, Top
  <1>2. Inner = Top /\ Inner' = NoFrame
    BY <1>1, GameReturn DEF CallInv
  <1>3. Calling' = {} /\ UNCHANGED <<Working, Responded>>
    BY <1>1, <1>2 DEF Calling, Working, Responded, NoFrame
  <1>4. Queued' \subseteq Queued \cup Calling
    <2>1. /\ jobs \in [Requests -> Seq(Calls)]
          /\ Top.req \in Requests
      BY <1>1, TopFacts DEF CallInv, TypeOK, Frame
    <2>2. \/ UNCHANGED jobs
          \/ jobs' = [jobs EXCEPT ![Top.req] = <<>>]
          \/ Top.op = "call" /\ jobs' = [jobs EXCEPT ![Top.req] = Append(@, Top.call)]
      BY DEF CallEnd, CallPerform, CallReject, ReadHeaderEnd, DestroyEnd, Running, Top
    <2>3. \A q \in Requests : jobs'[q] # <<>> => jobs[q] # <<>> \/ q \in Calling
      BY <1>2, <2>1, <2>2 DEF Calling
    <2> QED BY <2>3 DEF Queued
  <1>5. Busy' \subseteq Busy
    BY <1>3, <1>4 DEF Busy
  <1> QED BY <1>1, <1>5, NoMoreBusy

LEMMA AnsweredOverWorker ==
  ASSUME CallInv, AnsweredOver, NEW r \in Requests, Worker(r)
  PROVE  AnsweredOver'
  <1>1. UNCHANGED <<game, answers>> /\ Calling' = Calling
    BY GameSame DEF Worker, WorkerTake, WorkerAnswered, WorkerCheck, WorkerRecord
  <1>2. UNCHANGED calls
    BY DEF Worker, WorkerTake, WorkerAnswered, WorkerCheck, WorkerRecord
  <1>3. r \in Queued \cup Working
    BY DEF Worker, WorkerTake, WorkerAnswered, WorkerCheck, WorkerRecord, Queued, Working
  <1>4. Queued' \subseteq Queued
    BY DEF Worker, WorkerTake, WorkerAnswered, WorkerCheck, WorkerRecord, Queued,
           CallInv, TypeOK
  <1>5. Working' \subseteq Working \cup {r}
    BY WorkerTypes
    DEF Worker, WorkerTake, WorkerAnswered, WorkerCheck, WorkerRecord, Working, CallInv
  <1>6. Responded' \subseteq Responded \cup {r}
    <2>1. CASE WorkerRecord(r)
      <3>1. r \in Working /\ worker[r].call \in Calls
        BY <2>1 DEF WorkerRecord, Working, CallInv, WorkersOwn, Of
      <3>2. [req |-> r, call |-> worker[r].call] \in Answer /\ queue \in Seq(Answer)
        BY <3>1 DEF Answer, CallInv, TypeOK
      <3>3. ToSet(queue') = ToSet(queue) \cup {[req |-> r, call |-> worker[r].call]}
        BY <2>1, <3>2, AppendFacts DEF WorkerRecord
      <3> QED BY <3>3 DEF Responded
    <2>2. CASE ~WorkerRecord(r)
      BY <2>2 DEF Worker, WorkerTake, WorkerAnswered, WorkerCheck, Responded
    <2> QED BY <2>1, <2>2
  <1>7. Busy' \subseteq Busy
    BY <1>1, <1>3, <1>4, <1>5, <1>6 DEF Busy
  <1> QED BY <1>1, <1>2, <1>7, NoMoreBusy

(* The response handed over is the object's only call. *)
LEMMA AnsweredOverCompleted ==
  ASSUME CallInv, CallInv', AnsweredOver, OnCompleted
  PROVE  AnsweredOver'
  <1> DEFINE t == Head(queue)
  <1>1. /\ UNCHANGED <<jobs, worker, calls>> /\ game = <<>> /\ queue # <<>>
        /\ queue' = Tail(queue)
        /\ answers' = answers \cup {[call |-> t.call, callback |-> fwd[t.req]]}
        /\ Enter("callback", t.req, t.call)
        /\ queue \in Seq(Answer)
    BY DEF OnCompleted, CallInv, TypeOK, Answer
  <1>2. t \in Answer /\ t \in ToSet(queue) /\ ToSet(queue') \subseteq ToSet(queue)
    BY <1>1, TailFacts
  <1>3. Of(t.req, t.call) /\ t.req \in Requests /\ t.call \in Calls
    BY <1>2 DEF CallInv, AnswersOwn, Answer
  <1> HIDE DEF t
  <1>4. t.call \in 0..MaxCalls
    <2>1. Len(calls) <= MaxCalls /\ Len(calls) \in Nat
      BY DEF CallInv, TypeOK
    <2> QED BY <1>3, <2>1, HttpAssumption DEF Calls
  <1>5. /\ Inner = NoFrame /\ Inner' = NoFrame
        /\ Outer' = [op |-> "callback", req |-> t.req, call |-> t.call]
    BY <1>1, <1>3, <1>4, GameCallback DEF CallInv
  <1>6. Busy' \subseteq Busy
    BY <1>1, <1>2, <1>5 DEF Busy, Calling, Queued, Working, Responded
  <1>7. t.req \in Called'
    BY <1>3, <1>5 DEF Called
  <1>8. t.req \notin Busy'
    BY <1>7 DEF CallInv, OnePlace, Busy
  <1>9. Handed' = Handed \cup {t.call}
    <2> DEFINE a == [call |-> t.call, callback |-> fwd[t.req]]
    <2>1. a.call = t.call
      OBVIOUS
    <2> HIDE DEF a
    <2>2. answers' = answers \cup {a}
      BY <1>1 DEF a
    <2> QED BY <2>1, <2>2 DEF Handed
  <1>10. calls[t.call] = t.req
    BY <1>3 DEF Of
  <1> QED BY <1>1, <1>6, <1>8, <1>9, <1>10 DEF AnsweredOver

LEMMA AnsweredOverPlugin ==
  ASSUME CallInv, AnsweredOver, NEW r \in Requests,
         Create(r) \/ ReadHeader(r) \/ DeleteHandle(r)
  PROVE  AnsweredOver'
  <1>1. UNCHANGED <<jobs, worker, queue, answers, calls>>
    BY DEF Create, ReadHeader, DeleteHandle
  <1>2. Calling' \subseteq Calling
    <2>1. CASE Create(r)
      BY <2>1, GameSame DEF Create
    <2>2. CASE ReadHeader(r)
      <3>1. InPlugin /\ Enter("read", r, headers[r]) /\ headers[r] \in 0..MaxCalls
        BY <2>2 DEF ReadHeader, CallInv, TypeOK
      <3>2. Inner' = [op |-> "read", req |-> r, call |-> headers[r]]
        BY <3>1, GameEnter DEF CallInv
      <3> QED BY <3>2 DEF Calling
    <2>3. CASE DeleteHandle(r)
      <3>1. InPlugin /\ Enter("destroy", r, 0) /\ 0 \in 0..MaxCalls
        BY <2>3, HttpAssumption DEF DeleteHandle
      <3>2. Inner' = [op |-> "destroy", req |-> r, call |-> 0]
        BY <3>1, GameEnter DEF CallInv
      <3> QED BY <3>2 DEF Calling
    <2> QED BY <2>1, <2>2, <2>3
  <1>3. Busy' \subseteq Busy
    BY <1>1, <1>2 DEF Busy, Queued, Working, Responded
  <1> QED BY <1>1, <1>3, NoMoreBusy

LEMMA AnsweredOverFree ==
  ASSUME CallInv, AnsweredOver, FreeHandle
  PROVE  AnsweredOver'
  <1>1. UNCHANGED <<jobs, worker, queue, answers, calls>>
    BY DEF FreeHandle
  <1>2. /\ Running("callback") /\ Top.req \in Requests
        /\ game' = [game EXCEPT ![Len(game)] =
                      [op |-> "destroy", req |-> Top.req, call |-> 0]]
    BY TopFacts DEF FreeHandle, Running, CallInv, Frame
  <1>3. Inner' = [op |-> "destroy", req |-> Top.req, call |-> 0]
    BY <1>2, GameFree DEF CallInv
  <1>4. Busy' \subseteq Busy
    BY <1>1, <1>3 DEF Busy, Calling, Queued, Working, Responded
  <1> QED BY <1>1, <1>4, NoMoreBusy

(* A call is begun on an object that has none, answered or not. *)
LEMMA AnsweredOverBegin ==
  ASSUME CallInv, ~Reuse, AnsweredOver, NEW r \in Requests, CallBegin(r)
  PROVE  AnsweredOver'
  <1> DEFINE c == Len(calls) + 1
  <1>1. /\ UNCHANGED <<jobs, worker, queue, answers>>
        /\ InPlugin /\ CallsOn(r) = {} /\ Len(calls) < MaxCalls
        /\ calls' = Append(calls, r)
        /\ Enter("call", r, c)
        /\ calls \in Seq(Requests) /\ c \in 0..MaxCalls
    BY HttpAssumption DEF CallBegin, CallInv, TypeOK
  <1> HIDE DEF c
  <1>3. \A d \in Calls : calls'[d] = calls[d] /\ calls[d] # r
    BY <1>1, AppendFacts DEF Calls, CallsOn
  <1>4. Inner' = [op |-> "call", req |-> r, call |-> c]
    BY <1>1, GameEnter DEF CallInv
  <1>5. Busy' \subseteq Busy \cup {r}
    BY <1>1, <1>4 DEF Busy, Calling, Queued, Working, Responded
  <1>6. Handed' = Handed
    BY <1>1 DEF Handed
  <1> QED BY <1>3, <1>5, <1>6, HandedAreCalls DEF AnsweredOver

LEMMA NextAnsweredOver ==
  ASSUME CallInv, CallInv', AnsweredOver, ~Reuse, [Next]_vars
  PROVE  AnsweredOver'
  <1>1. CASE UNCHANGED vars
    <2>1. UNCHANGED <<game, jobs, worker, queue, answers, calls>>
      BY <1>1 DEF vars
    <2>2. Busy' = Busy
      BY <2>1, GameSame DEF Busy, Queued, Working, Responded
    <2> QED BY <2>1, <2>2, NoMoreBusy
  <1>2. CASE Next
    BY <1>2, AnsweredOverEnd, AnsweredOverWorker, AnsweredOverCompleted,
       AnsweredOverPlugin, AnsweredOverFree, AnsweredOverBegin
    DEF Next
  <1> QED BY <1>1, <1>2

(* The inductive invariant: the call made on an object is in one place at  *)
(* a time, the native, m_httpclient, its thread, g_TaskQueue or the        *)
(* callback (http_natives.cpp:38-61, http_request.cpp:96-133), the object  *)
(* lives until it has been through all of them, and what was handed over   *)
(* is in none of them any more.                                            *)
THEOREM Invariance == ASSUME ~Reuse, ~DeleteInFlight PROVE Spec => []IInv
  <1>1. Init => IInv
    <2>1. Init => AnsweredOver
      BY DEF Init, AnsweredOver, Handed
    <2> QED BY <2>1, InitCallInv DEF IInv
  <1>2. IInv /\ [Next]_vars => IInv'
    BY NextCallInv, NextAnsweredOver DEF IInv
  <1> QED BY <1>1, <1>2, PTL DEF Spec

LEMMA CallInvariance == ASSUME ~Reuse, ~DeleteInFlight PROVE Spec => []CallInv
  <1>1. IInv => CallInv
    BY DEF IInv
  <1> QED BY <1>1, Invariance, PTL

-----------------------------------------------------------------------------
LEMMA FramesOfGame ==
  ASSUME TypeOK, GameShape, NEW f \in ToSet(game)
  PROVE  /\ game # <<>> /\ f \in Frame
         /\ f = game[1] \/ f = Top
         /\ f.op # "callback" => f = Top
         /\ f.op = "callback" => f = game[1]
  <1>1. game \in Seq(Frame) /\ DOMAIN game = 1..Len(game)
    BY DEF TypeOK, Frame
  <1>2. PICK i \in 1..Len(game) : f = game[i]
    BY <1>1 DEF ToSet
  <1>3. game # <<>> /\ f \in Frame
    BY <1>1, <1>2
  <1>4. Top = game[Len(game)] /\ Len(game) \in Nat \ {0}
    BY <1>3, TopFacts
  <1>5. CASE Len(game) = 1
    BY <1>2, <1>3, <1>4, <1>5
  <1>6. CASE Len(game) = 2
    <2>1. i = 1 \/ i = 2
      BY <1>2, <1>6
    <2> QED BY <1>2, <1>3, <1>4, <1>6, <2>1 DEF GameShape
  <1> QED BY <1>4, <1>5, <1>6, OneOrTwo DEF GameShape

LEMMA CallbackFrame ==
  ASSUME CallInv, NEW f \in ToSet(game), f.op = "callback"
  PROVE  f = Outer /\ f.req \in Requests
  BY FramesOfGame DEF CallInv, Outer, Frame

LEMMA ReadFrame ==
  ASSUME CallInv, NEW f \in ToSet(game), f.op = "read"
  PROVE  f = Inner
  BY FramesOfGame DEF CallInv, Inner

(* What natives, workers and the frame write stays in range.               *)
THEOREM TypeCorrect == ASSUME ~Reuse, ~DeleteInFlight PROVE Spec => []TypeOK
  <1>1. CallInv => TypeOK
    BY DEF CallInv
  <1> QED BY <1>1, CallInvariance, PTL

(* A response task finds its object (http_request.cpp:112-124): nothing    *)
(* but the task frees it.                                                  *)
THEOREM ObjectsOutliveAnswers ==
  ASSUME ~Reuse, ~DeleteInFlight PROVE Spec => []RequestOutlivesAnswer
  <1>1. ASSUME CallInv PROVE RequestOutlivesAnswer
    <2>1. \A t \in ToSet(queue) : obj[t.req] # "deleted"
      BY <1>1 DEF CallInv, Alive, Responded
    <2>2. ASSUME NEW f \in ToSet(game), f.op = "callback" PROVE obj[f.req] # "deleted"
      <3>1. f = Outer /\ f.req \in Requests
        BY <1>1, <2>2, CallbackFrame
      <3> QED BY <1>1, <2>2, <3>1 DEF CallInv, Alive, Called
    <2> QED BY <2>1, <2>2 DEF RequestOutlivesAnswer
  <1> QED BY <1>1, CallInvariance, PTL

(* The test of pResponseForward on the worker's thread                     *)
(* (http_request.cpp:98) never sees a forward that was released.           *)
THEOREM WorkersSeeForwards ==
  ASSUME ~Reuse, ~DeleteInFlight PROVE Spec => []WorkerSeesForward
  <1>1. CallInv => WorkerSeesForward
    BY DEF CallInv, ForwardBound, Working, WorkerSeesForward
  <1> QED BY <1>1, CallInvariance, PTL

(* GetResponseHeader reads the headers of the response its callback was    *)
(* called with, and what it returns a reference to stays                   *)
(* (http_request.cpp:103-106, 217).                                        *)
THEOREM HeadersAreOfAnswer ==
  ASSUME ~Reuse, ~DeleteInFlight PROVE Spec => []HeadersOfAnswer
  <1>1. ASSUME CallInv PROVE HeadersOfAnswer
    <2>1. ASSUME NEW f \in ToSet(game), f.op = "callback" PROVE headers[f.req] = f.call
      <3>1. f = Outer
        BY <1>1, <2>1, CallbackFrame
      <3> QED BY <1>1, <2>1, <3>1 DEF CallInv, HeadersKept
    <2>2. ASSUME NEW f \in ToSet(game), f.op = "read", f.call # 0
          PROVE  headers[f.req] = f.call
      <3>1. f = Inner
        BY <1>1, <2>2, ReadFrame
      <3> QED BY <1>1, <2>2, <3>1 DEF CallInv, HeadersKept
    <2> QED BY <2>1, <2>2 DEF HeadersOfAnswer
  <1> QED BY <1>1, CallInvariance, PTL

(* The callback that was passed with a call is the one that gets its       *)
(* response (http_request.cpp:112-124).                                    *)
THEOREM AnswersToOwnCallbacks ==
  ASSUME ~Reuse, ~DeleteInFlight PROVE Spec => []AnswerToOwnCallback
  <1>1. CallInv => AnswerToOwnCallback
    BY DEF CallInv
  <1> QED BY <1>1, CallInvariance, PTL

-----------------------------------------------------------------------------
(* Calls and responses keep the promise of Delivery: the step that maps to *)
(* each of its actions, and the steps that it does not see.                *)

LEMMA InHandFacts ==
  ASSUME CallInv, NEW r \in Requests, NEW c, InHand(c, r)
  PROVE  Of(r, c) /\ r \in Queued \cup Working \cup Responded
  <1>1. CASE c \in ToSet(jobs[r])
    <2>1. jobs[r] # <<>>
      BY <1>1 DEF ToSet
    <2> QED BY <1>1, <2>1 DEF CallInv, JobsOwn, Queued
  <1>2. CASE worker[r].at # "idle" /\ worker[r].call = c
    BY <1>2 DEF CallInv, WorkersOwn, Working
  <1>3. CASE [req |-> r, call |-> c] \in ToSet(queue)
    <2> DEFINE t == [req |-> r, call |-> c]
    <2>1. t.req = r /\ t.call = c
      OBVIOUS
    <2> HIDE DEF t
    <2>2. t \in ToSet(queue)
      BY <1>3 DEF t
    <2> QED BY <2>1, <2>2 DEF CallInv, AnswersOwn, Responded
  <1> QED BY <1>1, <1>2, <1>3 DEF InHand

LEMMA PendingSame ==
  ASSUME \A r \in Requests : \A c \in 1..MaxCalls : InHand(c, r)' <=> InHand(c, r)
  PROVE  Pending' = Pending
  BY DEF Pending

LEMMA HandsSame ==
  ASSUME UNCHANGED <<jobs, worker, queue, answers>>
  PROVE  Pending' = Pending /\ Handed' = Handed
  BY PendingSame DEF InHand, Handed

LEMMA CreateDelivers ==
  ASSUME NEW r \in Requests, Create(r)
  PROVE  Promise!Create(r)
  BY HandsSame DEF Create, Promise!Create

LEMMA DeleteDelivers ==
  ASSUME NEW r \in Requests, DeleteHandle(r)
  PROVE  Promise!BeginDestroy(r)
  BY HandsSame DEF DeleteHandle, Promise!BeginDestroy

LEMMA FreeDelivers ==
  ASSUME CallInv, FreeHandle
  PROVE  Top.req \in Requests /\ Promise!BeginDestroy(Top.req)
  BY HandsSame, TopFacts DEF FreeHandle, Promise!BeginDestroy, Running, CallInv, Frame

(* ~HttpRequest never has a call to forget. *)
LEMMA DestroyDelivers ==
  ASSUME CallInv, DestroyEnd
  PROVE  Top.req \in Requests /\ Promise!EndDestroy(Top.req)
  <1> DEFINE r == Top.req
  <1>1. /\ UNCHANGED <<worker, queue, answers>>
        /\ Return /\ game # <<>> /\ Top.op = "destroy"
        /\ obj' = [obj EXCEPT ![r] = "deleted"]
        /\ jobs' = [jobs EXCEPT ![r] = <<>>]
        /\ jobs \in [Requests -> Seq(Calls)]
    BY DEF DestroyEnd, Running, Top, CallInv, TypeOK
  <1>2. Inner = Top /\ r \in Requests
    BY <1>1, GameReturn, TopFacts DEF CallInv, Frame
  <1> HIDE DEF r
  <1>3. obj[r] = "destroying"
    BY <1>1, <1>2 DEF CallInv, Alive, r
  <1>4. r \notin Queued \cup Working \cup Responded
    BY <1>3 DEF CallInv, Alive
  <1>5. jobs' = jobs
    BY <1>1, <1>2, <1>4 DEF Queued
  <1>6. \A e \in Pending : e.owner # r
    BY <1>4, InHandFacts DEF Pending
  <1>7. Pending' = Pending /\ Handed' = Handed
    BY <1>1, <1>5, HandsSame
  <1> QED BY <1>1, <1>2, <1>3, <1>6, <1>7 DEF Promise!EndDestroy, r

(* The call is accepted: it was not in hand, nor answered. *)
LEMMA PerformDelivers ==
  ASSUME IInv, CallPerform
  PROVE  \E e \in Promise!Event : Promise!Report(e)
  <1> DEFINE r == Top.req
             c == Top.call
             e == [id |-> c, owner |-> r]
  <1>1. /\ UNCHANGED <<obj, worker, queue, answers>>
        /\ Return /\ game # <<>> /\ Top.op = "call"
        /\ jobs' = [jobs EXCEPT ![r] = Append(@, c)]
    BY DEF CallPerform, Running, Top
  <1>2. /\ Inner = Top /\ r \in Requests
        /\ jobs \in [Requests -> Seq(Calls)]
        /\ Len(calls) \in Nat /\ Len(calls) <= MaxCalls
    <2>1. Inner = Top /\ r \in Requests
      BY <1>1, GameReturn, TopFacts DEF IInv, CallInv, Frame
    <2>2. /\ jobs \in [Requests -> Seq(Calls)]
          /\ Len(calls) \in Nat /\ Len(calls) <= MaxCalls
      BY DEF IInv, CallInv, TypeOK
    <2> QED BY <2>1, <2>2
  <1>3. Of(r, c) /\ r \in Calling
    BY <1>1, <1>2 DEF IInv, CallInv, FramesOwn, Calling
  <1> HIDE DEF r, c
  <1>4. c \in Calls /\ c \in 1..MaxCalls
    BY <1>2, <1>3, HttpAssumption DEF Of, Calls
  <1>5. obj[r] = "live" /\ r \notin Queued \cup Working \cup Responded
    BY <1>3 DEF IInv, CallInv, Alive, OnePlace
  <1>6. c \notin Handed
    BY <1>3 DEF IInv, AnsweredOver, Busy, Of
  <1>7. \A q \in Requests : ~InHand(c, q)
    <2>1. SUFFICES ASSUME NEW q \in Requests, InHand(c, q) PROVE FALSE
      OBVIOUS
    <2>2. Of(q, c) /\ q \in Queued \cup Working \cup Responded
      BY <2>1, InHandFacts DEF IInv
    <2> QED BY <1>3, <1>5, <2>2 DEF Of
  <1>8. /\ ToSet(jobs'[r]) = ToSet(jobs[r]) \cup {c}
        /\ \A q \in Requests \ {r} : jobs'[q] = jobs[q]
    BY <1>1, <1>2, <1>4, AppendFacts
  <1>9. \A q \in Requests : \A d \in 1..MaxCalls :
          InHand(d, q)' <=> (InHand(d, q) \/ (d = c /\ q = r))
    BY <1>1, <1>2, <1>8 DEF InHand
  <1>10. Pending' = Pending \cup {e} /\ e \in [id : 1..MaxCalls, owner : Requests]
    <2>1. e \in [id : 1..MaxCalls, owner : Requests] /\ e.id = c /\ e.owner = r
      BY <1>2, <1>4
    <2>2. \A f \in [id : 1..MaxCalls, owner : Requests] :
            f = e <=> f.id = c /\ f.owner = r
      OBVIOUS
    <2> HIDE DEF e
    <2> QED BY <1>9, <2>1, <2>2 DEF Pending
  <1>11. Handed' = Handed
    BY <1>1 DEF Handed
  <1>12. \A p \in Pending : p.id # c
    BY <1>7 DEF Pending
  <1>13. e \in Promise!Event /\ e.id = c /\ e.owner = r
    BY <1>10 DEF Promise!Event
  <1> HIDE DEF e
  <1>14. Promise!Report(e)
    BY <1>1, <1>5, <1>6, <1>10, <1>11, <1>12, <1>13 DEF Promise!Report, Promise!Exists
  <1> QED BY <1>13, <1>14

(* The worker keeps what it took, whichever way it goes on. *)
LEMMA WorkerDelivers ==
  ASSUME CallInv, NEW r \in Requests, Worker(r)
  PROVE  UNCHANGED <<Pending, obj, Handed>>
  <1>1. UNCHANGED <<obj, answers>> /\ Handed' = Handed
    BY DEF Worker, WorkerTake, WorkerAnswered, WorkerCheck, WorkerRecord, Handed
  <1>2. CASE WorkerTake(r)
    <2> DEFINE c == Head(jobs[r])
    <2>1. /\ UNCHANGED queue
          /\ worker[r].at = "idle" /\ jobs[r] # <<>>
          /\ jobs' = [jobs EXCEPT ![r] = Tail(@)]
          /\ worker' = [worker EXCEPT ![r] = [at |-> "performing", call |-> c]]
          /\ jobs \in [Requests -> Seq(Calls)] /\ Len(jobs[r]) <= 1
      BY <1>2 DEF WorkerTake, CallInv, TypeOK, Once
    <2>2. Tail(jobs[r]) = <<>> /\ ToSet(jobs[r]) = {c} \cup ToSet(Tail(jobs[r]))
      BY <2>1, TailFacts, TailOfOne
    <2>3. ToSet(jobs[r]) = {c} /\ ToSet(jobs'[r]) = {}
      BY <2>1, <2>2 DEF ToSet
    <2> HIDE DEF c
    <2>4. /\ worker'[r].at = "performing" /\ worker'[r].call = c
          /\ \A q \in Requests \ {r} : worker'[q] = worker[q] /\ jobs'[q] = jobs[q]
      BY <2>1, WorkerTypes DEF CallInv
    <2>5. \A q \in Requests : \A d \in 1..MaxCalls : InHand(d, q)' <=> InHand(d, q)
      BY <2>1, <2>3, <2>4 DEF InHand
    <2> QED BY <1>1, <2>5, PendingSame
  <1>3. CASE WorkerAnswered(r)
    <2>1. /\ UNCHANGED <<jobs, queue>>
          /\ \A q \in Requests : /\ worker'[q].call = worker[q].call
                                 /\ worker'[q].at # "idle" <=> worker[q].at # "idle"
      BY <1>3, WorkerTypes DEF WorkerAnswered, CallInv
    <2> QED BY <1>1, <2>1, PendingSame DEF InHand
  <1>4. CASE WorkerCheck(r)
    <2>1. r \in Working /\ fwd[r] # 0 /\ forwards[fwd[r]] = "bound"
      BY <1>4 DEF WorkerCheck, Working, CallInv, ForwardBound
    <2>2. UNCHANGED <<jobs, queue>>
          /\ worker' = [worker EXCEPT ![r] = [@ EXCEPT !.at = "recording"]]
      BY <1>4, <2>1 DEF WorkerCheck
    <2>3. \A q \in Requests : /\ worker'[q].call = worker[q].call
                             /\ worker'[q].at # "idle" <=> worker[q].at # "idle"
      BY <1>4, <2>2, WorkerTypes DEF CallInv, WorkerCheck
    <2> QED BY <1>1, <2>2, <2>3, PendingSame DEF InHand
  <1>5. CASE WorkerRecord(r)
    <2> DEFINE c == worker[r].call
               t == [req |-> r, call |-> c]
    <2>1. /\ UNCHANGED jobs
          /\ worker[r].at = "recording" /\ r \in Working
          /\ queue' = Append(queue, t)
          /\ worker' = [worker EXCEPT ![r] = [at |-> "idle", call |-> 0]]
          /\ queue \in Seq(Answer)
      BY <1>5 DEF WorkerRecord, Working, CallInv, TypeOK, Answer
    <2>2. c \in Calls
      BY <2>1 DEF CallInv, WorkersOwn, Of
    <2>3. \A q \in Requests, d \in 1..MaxCalls :
            [req |-> q, call |-> d] = t <=> q = r /\ d = c
      OBVIOUS
    <2>4. t \in Answer
      BY <2>2 DEF Answer
    <2> HIDE DEF c, t
    <2>5. ToSet(queue') = ToSet(queue) \cup {t}
      BY <2>1, <2>4, AppendFacts
    <2>6. /\ worker'[r].at = "idle"
          /\ \A q \in Requests \ {r} : worker'[q] = worker[q]
      BY <2>1, WorkerTypes DEF CallInv
    <2>7. ASSUME NEW q \in Requests, NEW d \in 1..MaxCalls
          PROVE  InHand(d, q)' <=> InHand(d, q)
      BY <2>1, <2>3, <2>5, <2>6 DEF InHand, c
    <2> QED BY <1>1, <2>7, PendingSame
  <1> QED BY <1>2, <1>3, <1>4, <1>5 DEF Worker

(* The response is handed over, and its call is nowhere any more. *)
LEMMA CompletedDelivers ==
  ASSUME CallInv, CallInv', OnCompleted
  PROVE  \E e \in Pending : Promise!HandOver(e)
  <1> DEFINE t == Head(queue)
             r == t.req
             c == t.call
             e == [id |-> c, owner |-> r]
  <1>1. /\ UNCHANGED <<obj, jobs, worker, calls>> /\ game = <<>> /\ queue # <<>>
        /\ queue' = Tail(queue)
        /\ answers' = answers \cup {[call |-> c, callback |-> fwd[r]]}
        /\ Enter("callback", r, c)
        /\ queue \in Seq(Answer)
        /\ Len(calls) \in Nat /\ Len(calls) <= MaxCalls
    BY DEF OnCompleted, CallInv, TypeOK, Answer
  <1>2. t \in Answer /\ t \in ToSet(queue) /\ ToSet(queue) = {t} \cup ToSet(queue')
    BY <1>1, TailFacts
  <1>3. /\ r \in Requests /\ c \in Calls /\ r \in Responded
        /\ t = [req |-> r, call |-> c]
    BY <1>2 DEF Answer, Responded
  <1>4. \A q, d : [req |-> q, call |-> d] = t <=> q = r /\ d = c
    BY <1>3
  <1> HIDE DEF t, r, c
  <1>5. c \in 0..MaxCalls /\ c \in 1..MaxCalls
    BY <1>1, <1>3, HttpAssumption DEF Calls
  <1>6. Outer' = [op |-> "callback", req |-> r, call |-> c]
    BY <1>1, <1>3, <1>5, GameCallback DEF CallInv
  <1>7. r \notin (Queued \cup Working \cup Responded)'
    <2>1. r \in Called'
      BY <1>3, <1>6 DEF Called
    <2> QED BY <2>1 DEF CallInv, OnePlace
  <1>8. ASSUME NEW q \in Requests, q = r, NEW d \in 1..MaxCalls PROVE ~InHand(d, q)'
    <2>1. /\ jobs'[q] = <<>> /\ worker'[q].at = "idle"
          /\ \A u \in ToSet(queue') : u.req # q
      BY <1>7, <1>8 DEF Queued, Working, Responded
    <2>2. ToSet(jobs'[q]) = {}
      BY <2>1 DEF ToSet
    <2> QED BY <2>1, <2>2 DEF InHand
  <1>9. \A q \in Requests : \A d \in 1..MaxCalls :
          InHand(d, q)' <=> (InHand(d, q) /\ ~(d = c /\ q = r))
    <2>1. SUFFICES ASSUME NEW q \in Requests, NEW d \in 1..MaxCalls
                   PROVE  InHand(d, q)' <=> (InHand(d, q) /\ ~(d = c /\ q = r))
      OBVIOUS
    <2>2. CASE q = r /\ d = c
      BY <1>8, <2>2
    <2>3. CASE q # r \/ d # c
      <3>1. [req |-> q, call |-> d] # t
        BY <1>4, <2>3
      <3>2. [req |-> q, call |-> d] \in ToSet(queue)
              <=> [req |-> q, call |-> d] \in ToSet(queue')
        BY <1>2, <3>1
      <3>3. InHand(d, q)' <=> InHand(d, q)
        BY <1>1, <3>2 DEF InHand
      <3> QED BY <2>3, <3>3
    <2> QED BY <2>2, <2>3
  <1>10. e \in [id : 1..MaxCalls, owner : Requests] /\ e.id = c /\ e.owner = r
    BY <1>3, <1>5
  <1>11. \A f \in [id : 1..MaxCalls, owner : Requests] :
           f = e <=> f.id = c /\ f.owner = r
    OBVIOUS
  <1> HIDE DEF e
  <1>12. Pending' = Pending \ {e} /\ e \in Pending
    <2>1. InHand(c, r)
      BY <1>2, <1>3 DEF InHand
    <2> QED BY <1>9, <1>10, <1>11, <2>1 DEF Pending
  <1>13. Handed' = Handed \cup {c}
    <2> DEFINE a == [call |-> c, callback |-> fwd[r]]
    <2>1. a.call = c
      OBVIOUS
    <2> HIDE DEF a
    <2>2. answers' = answers \cup {a}
      BY <1>1 DEF a
    <2> QED BY <2>1, <2>2 DEF Handed
  <1>14. obj[r] = "live"
    BY <1>3 DEF CallInv, Alive
  <1>15. Promise!HandOver(e)
    BY <1>1, <1>10, <1>12, <1>13, <1>14 DEF Promise!HandOver, Promise!Exists
  <1> QED BY <1>12, <1>15

LEMMA NextDelivers ==
  ASSUME IInv, IInv', [Next]_vars
  PROVE  [Promise!Next]_(Promise!vars)
  <1> USE DEF IInv
  <1>1. CASE UNCHANGED vars
    BY <1>1, HandsSame DEF vars, Promise!vars
  <1>2. CASE CallReject \/ ReadHeaderEnd
    BY <1>2, HandsSame DEF CallReject, ReadHeaderEnd, Promise!vars
  <1>3. CASE CallPerform
    BY <1>3, PerformDelivers DEF Promise!Next
  <1>4. CASE DestroyEnd
    BY <1>4, DestroyDelivers DEF Promise!Next
  <1>5. CASE OnCompleted
    BY <1>5, CompletedDelivers DEF Promise!Next
  <1>6. CASE FreeHandle
    BY <1>6, FreeDelivers DEF Promise!Next
  <1>7. ASSUME NEW r \in Requests, Create(r) \/ DeleteHandle(r) PROVE Promise!Next
    BY <1>7, CreateDelivers, DeleteDelivers DEF Promise!Next
  <1>8. ASSUME NEW r \in Requests, ReadHeader(r) PROVE UNCHANGED Promise!vars
    BY <1>8, HandsSame DEF ReadHeader, Promise!vars
  <1>9. ASSUME NEW r \in Requests, CallBegin(r)
        PROVE  UNCHANGED Promise!vars
    BY <1>9, HandsSame DEF CallBegin, Promise!vars
  <1>10. ASSUME NEW r \in Requests, Worker(r) PROVE UNCHANGED Promise!vars
    BY <1>10, WorkerDelivers DEF Promise!vars
  <1> QED
    BY <1>1, <1>2, <1>3, <1>4, <1>5, <1>6, <1>7, <1>8, <1>9, <1>10 DEF Next, CallEnd

(* What Delivery promises holds of HTTP calls: every call that             *)
(* performRequest took (http_request.cpp:126-189) is in hand until its     *)
(* response is handed over, once, and to an object that exists             *)
(* (http_request.cpp:96-124).                                              *)
THEOREM AnswersDelivered ==
  ASSUME ~Reuse, ~DeleteInFlight
  PROVE  Spec => DeliversAnswers
  <1>1. Init => Promise!Init
    <2>1. SUFFICES ASSUME Init PROVE Promise!Init
      OBVIOUS
    <2>2. Handed = {}
      BY <2>1 DEF Init, Handed
    <2>3. \A r \in Requests : \A c : ~InHand(c, r)
      BY <2>1 DEF Init, InHand, ToSet
    <2>4. Pending = {}
      BY <2>3 DEF Pending
    <2> QED BY <2>1, <2>2, <2>4 DEF Init, Promise!Init
  <1>2. IInv /\ IInv' /\ [Next]_vars => [Promise!Next]_(Promise!vars)
    BY NextDelivers
  <1> QED BY <1>1, <1>2, Invariance, PTL DEF Spec, DeliversAnswers, Promise!Spec
=============================================================================
