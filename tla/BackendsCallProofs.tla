------------------------- MODULE BackendsCallProofs -------------------------
(***************************************************************************)
(* Theorems about BackendsCall, for any number of backends, any list of    *)
(* them, and any iterators, callbacks, waiters, stoppers and holders.      *)
(*                                                                         *)
(* No property is inductive alone.  IInv adds to TypeOK where each task    *)
(* is (in the queue, taken by one thread, or finished), that               *)
(* unfinished_tasks counts the tasks that are not finished, that every     *)
(* stored response is in the queue or was handed out, and what a loop      *)
(* knows once it read zero unfinished tasks.  LockInv, LateInv, ErrorsInv, *)
(* OrderInv and WaitInv rest on IInv, and the refinement of ResultStream   *)
(* on OrderInv.                                                            *)
(***************************************************************************)
EXTENDS BackendsCall, FiniteSetTheorems, TLAPS

(* A thread that took a task, and one that has not called task_done() yet. *)
Busy(t)    == pc[t] \notin {"new", "get"}
Working(t) == Busy(t) /\ pc[t] \notin {"release", "end"}

(* Where each task is: queued once, or taken by one thread, or finished.   *)
TasksInv ==
  /\ built <= started
  /\ finished \subseteq 1..built
  /\ \A i \in DOMAIN tasks : tasks[i] \in (1..built) \ finished
  /\ \A i, j \in DOMAIN tasks : tasks[i] = tasks[j] => i = j
  /\ \A t \in Threads : Busy(t) =>
       taken[t] \in 1..built /\ \A i \in DOMAIN tasks : tasks[i] # taken[t]
  /\ \A t, u \in Threads : Busy(t) /\ Busy(u) /\ taken[t] = taken[u] => t = u
  /\ \A t \in Threads : Working(t) => taken[t] \notin finished

CountInv == unfinished = Cardinality((1..built) \ finished)

ResultsInv == produced = delivered \cup Stored

(* What the program counter of a consumer tells.                           *)
LoopsInv ==
  /\ \A c \in Consumers : cpc[c] # "idle" => Ready
  /\ \A c \in Loopers : cpc[c] # "join"
  /\ \A c \in Loopers : cpc[c] = "peek" => finished = Tasks
  /\ \A c \in Loopers : LeftLoop(c) /\ ~stopped => finished = Tasks /\ responses = <<>>

(* Only a callback thread pops errors, and it gives what it popped.        *)
PoppedInv ==
  \A c \in Consumers :
    /\ cpc[c] \in {"pop", "errback"} => c \in Callbacks
    /\ cpc[c] = "errback" => popped[c] \in Tasks
    /\ c \in Callbacks /\ cpc[c] # "errback" => popped[c] = 0

(* The threads that the constructor has not started.                      *)
NewInv == \A t \in Threads : t > started => pc[t] = "new"

IInv == NewInv /\ TypeOK /\ TasksInv /\ CountInv /\ ResultsInv /\ LoopsInv /\ PoppedInv

(* Whoever is inside a backend owns its lock.                              *)
LockInv ==
  /\ \A t \in Threads : Running(t) => lock[BackendOf[taken[t]]] = t
  /\ \A h \in Holders : hpc[h] \in Backends => lock[hpc[h]] = h

(* A task stores after stop() at most once, then its thread leaves.        *)
LateInv ==
  /\ ~stopped => \A k \in Tasks : late[k] = 0
  /\ \A k \in Tasks : late[k] <= 1
  /\ \A k \in (1..N) : (\A t \in Threads : Busy(t) => taken[t] # k) => late[k] = 0
  /\ \A t \in Threads : pc[t] \in {"lock", "call", "iter"} => late[taken[t]] = 0

(* A consumer that ends although no error of the call may be lost to it.   *)
Informed(c) ==
  /\ cpc[c] \in IF c \in Callbacks THEN {"finishback", "returned"}
               ELSE {"returned", "raised"}
  /\ c \in Callbacks => HasErrback
  /\ c \in Waiters \/ (c \in Loopers /\ ~stopped)

(* What was raised is in the list, in the hands of a callback thread or    *)
(* reported, and nothing is raised any more when a consumer is informed.   *)
ErrorsInv ==
  /\ failed \subseteq reported \cup InHands \cup Raised
  /\ \A c \in Consumers :
       /\ c \notin Callbacks => cpc[c] # "finishback"
       /\ c \in Callbacks => cpc[c] \notin {"raise", "raised"}
       /\ c \in Waiters => cpc[c] \in {"idle", "join"} \/ AllEnded
       /\ Informed(c) => failed \subseteq reported \cup InHands

(* The responses of one task are numbered in the order it gave them.       *)
OrderInv ==
  /\ \A i, j \in DOMAIN responses :
       i < j /\ responses[i].task = responses[j].task
         => responses[i].item < responses[j].item
  /\ \A d \in delivered, r \in Stored : d.task = r.task => d.item < r.item
  /\ \A r \in produced : r.item <= drawn[r.task]
-----------------------------------------------------------------------------
(* What consumers, threads and holders leave alone.                        *)
LEMMA ConsumerFrame ==
  ASSUME NEW c \in Consumers, Begin(c) \/ Stop(c) \/ Consume(c)
  PROVE  UNCHANGED ThreadSide
BY DEF Begin, Stop, Consume, ReadStop, ReadUnfinished, ReadEmpty, GetResponse,
   GetTimesOut, Resume, CloseIterator, CallbackRaises, JoinThreads, RaiseErrors,
   ReadErrors, TestErrors, PopError, PopEmptyList, CallErrback, CallFinishback, Move

LEMMA WorkFrame ==
  ASSUME NEW t \in Threads, Work(t)
  PROVE  UNCHANGED <<ctorVars, consumerVars, stopped, hpc>>
BY DEF Work, TakeTask, LockBackend, CallRaises, CallReturnsValue,
   CallReturnsIterable, CallExits, NextItem, IterationEnds, CheckStop, TaskDone,
   Release, Go, lockVars

LEMMA HolderFrame ==
  ASSUME NEW h \in Holders,
         HolderReleases(h) \/ \E b \in Backends : HolderLocks(h, b)
  PROVE  UNCHANGED <<ctorVars, queueVars, taken, resultVars, errorVars,
                     consumerVars, pc, stopped>>
BY DEF HolderLocks, HolderReleases

LEMMA TypeInit == Init => TypeOK
<1> SUFFICES ASSUME Init PROVE TypeOK
  OBVIOUS
<1> USE CallAssumption DEF CallAssumption, Init, Tasks, Threads
<1>1. /\ tasks \in Seq(Tasks) /\ responses \in Seq(Response)
      /\ errors \in Seq(Tasks)
  OBVIOUS
<1>2. lock \in [Backends -> {Free} \cup Threads \cup Holders]
  BY DEF Free
<1>3. cpc \in [Consumers -> ConsumerPC]
  BY DEF ConsumerPC
<1>4. hpc \in [Holders -> Backends \cup {"idle", "done"}]
  OBVIOUS
<1>5. pc \in [Threads -> ThreadPC]
  BY DEF ThreadPC
<1>6. taken \in [Threads -> 0..N] /\ drawn \in [Tasks -> 0..MaxItems]
  OBVIOUS
<1>7. late \in [Tasks -> Nat]
  OBVIOUS
<1>8. /\ started \in 0..N /\ built \in 0..N /\ unfinished \in Nat
  OBVIOUS
<1>9. /\ stopped \in BOOLEAN
      /\ produced \subseteq Response
      /\ failed \subseteq Tasks /\ reported \subseteq Tasks
      /\ finished \subseteq Tasks
  <2> HIDE DEF Tasks, CallAssumption
  <2> QED
    BY Zenon
<1>10. handed \in [Tasks -> Seq(1..MaxItems)] /\ popped \in [Callbacks -> 0..N]
  OBVIOUS
<1>11. QED
  <2> HIDE DEF Init, Tasks, Threads
  <2> QED
    BY <1>1, <1>2, <1>3, <1>4, <1>5, <1>6, <1>7, <1>8, <1>9, <1>10 DEF TypeOK

LEMMA TasksInit == Init => TasksInv /\ CountInv /\ ResultsInv /\ LoopsInv
<1> SUFFICES ASSUME Init PROVE TasksInv /\ CountInv /\ ResultsInv /\ LoopsInv
  OBVIOUS
<1> USE CallAssumption DEF CallAssumption, Init
<1>1. TasksInv
  BY DEF TasksInv, Busy, Working
<1>2. CountInv
  <2>1. (1..built) \ finished = {}
    OBVIOUS
  <2>2. QED
    BY <2>1, FS_EmptySet DEF CountInv
<1>3. ResultsInv
  BY DEF ResultsInv, Stored, delivered, Response
<1>4. LoopsInv
  BY DEF LoopsInv, LeftLoop, ErrorsPC, Loopers, Consumers
<1>5. QED
  BY <1>1, <1>2, <1>3, <1>4

LEMMA TasksNext == TasksInv /\ TypeOK /\ [Next]_vars => TasksInv'
<1> SUFFICES ASSUME TasksInv, TypeOK, [Next]_vars PROVE TasksInv'
  OBVIOUS
<1> USE CallAssumption DEF CallAssumption, ctorVars, queueVars, TasksInv, Busy, Working
<1>1. CASE StartThread
  BY <1>1 DEF StartThread, lockVars, TypeOK, ThreadPC
<1>2. CASE PutTask
  BY SMTT(30), <1>2 DEF PutTask, lockVars, TypeOK
<1>3. ASSUME NEW t \in Threads, TakeTask(t) PROVE TasksInv'
  <2> DEFINE k == Head(tasks)
  <2>1. /\ tasks # <<>> /\ tasks \in Seq(Tasks)
        /\ taken' = [taken EXCEPT ![t] = k] /\ tasks' = Tail(tasks)
        /\ pc' = [pc EXCEPT ![t] = "lock"] /\ pc[t] = "get"
        /\ UNCHANGED <<started, built, finished>>
        /\ taken \in [Threads -> 0..N] /\ pc \in [Threads -> ThreadPC]
    BY <1>3 DEF TakeTask, Goto, TypeOK
  <2>2. /\ 1 \in DOMAIN tasks /\ k = tasks[1]
        /\ \A i \in DOMAIN tasks' :
             i + 1 \in DOMAIN tasks /\ tasks'[i] = tasks[i + 1] /\ i \in Nat /\ i + 1 # 1
    BY <2>1
  <2>3. k \in (1..built) \ finished /\ \A i \in DOMAIN tasks' : tasks'[i] # k
    BY <2>2
  <2>4. \A u \in Threads : (Busy(u))' =>
          IF u = t THEN taken'[u] = k ELSE Busy(u) /\ taken'[u] = taken[u]
    BY <2>1
  <2>5. \A u \in Threads : u # t /\ Busy(u) => taken[u] # k
    BY <2>2
  <2>6. \A i \in DOMAIN tasks' : tasks'[i] \in (1..built') \ finished'
    BY <2>1, <2>2
  <2>7. \A i, j \in DOMAIN tasks' : tasks'[i] = tasks'[j] => i = j
    BY <2>2
  <2>8. \A u \in Threads : (Busy(u))' =>
          taken'[u] \in 1..built' /\ \A i \in DOMAIN tasks' : tasks'[i] # taken'[u]
    BY <2>1, <2>2, <2>3, <2>4
  <2>9. \A u, v \in Threads : (Busy(u))' /\ (Busy(v))' /\ taken'[u] = taken'[v] => u = v
    BY <2>4, <2>5
  <2>10. \A u \in Threads : (Working(u))' => taken'[u] \notin finished'
    BY <2>1, <2>3, <2>4
  <2>11. QED
    BY <2>1, <2>6, <2>7, <2>8, <2>9, <2>10
<1>4. ASSUME NEW t \in Threads, Work(t), ~TakeTask(t) PROVE TasksInv'
  <2>1. UNCHANGED <<ctorVars, tasks, taken>>
    BY <1>4 DEF Work, LockBackend, CallRaises, CallReturnsValue,
       CallReturnsIterable, CallExits, NextItem, IterationEnds, CheckStop,
       TaskDone, Release, Go, lockVars
  <2>2. CASE TaskDone(t)
    <3>1. /\ pc[t] = "done" /\ pc' = [pc EXCEPT ![t] = "release"]
          /\ finished' = finished \cup {taken[t]}
          /\ pc \in [Threads -> ThreadPC]
      BY <2>2 DEF TaskDone, Goto, TypeOK
    <3>2. taken[t] \in 1..built /\ \A i \in DOMAIN tasks : tasks[i] # taken[t]
      BY <3>1
    <3>3. \A u \in Threads :
            /\ (Busy(u))' <=> Busy(u)
            /\ (Working(u))' => Working(u) /\ u # t
      BY <3>1
    <3>4. \A u \in Threads : (Working(u))' => taken[u] # taken[t] /\ taken[u] \notin finished
      BY <3>1, <3>3
    <3>5. QED
      BY <2>1, <3>1, <3>2, <3>3, <3>4
  <2>3. CASE ~TaskDone(t)
    <3>1. UNCHANGED finished
      BY <1>4, <2>3 DEF Work, LockBackend, CallRaises, CallReturnsValue,
         CallReturnsIterable, CallExits, NextItem, IterationEnds, CheckStop,
         Release, Go
    <3>2. \E to \in ThreadPC :
            /\ pc[t] \notin {"new", "get", "end"}
            /\ pc' = [pc EXCEPT ![t] = to] /\ to \notin {"new", "get"}
            /\ pc[t] = "release" => to = "end"
      BY <1>4, <2>3 DEF Work, LockBackend, CallRaises, CallReturnsValue,
         CallReturnsIterable, CallExits, NextItem, IterationEnds, CheckStop,
         Release, Go, Goto, ThreadPC
    <3>3. QED
      BY <2>1, <3>1, <3>2 DEF TypeOK
  <2>4. QED
    BY <2>2, <2>3
<1>5. ASSUME UNCHANGED <<ctorVars, queueVars, pc, taken>> PROVE TasksInv'
  BY <1>5
<1>6. QED
  BY <1>1, <1>2, <1>3, <1>4, <1>5, ConsumerFrame, HolderFrame
     DEF Next, Terminated, vars, lockVars, ThreadSide

(* TypeOK in parts, one for each group of variables that steps share.      *)
CtorType     == started \in 0..N /\ built \in 0..N
QueueType    == tasks \in Seq(Tasks) /\ unfinished \in Nat /\ finished \subseteq Tasks
LockType     == /\ lock \in [Backends -> {Free} \cup Threads \cup Holders]
                /\ taken \in [Threads -> 0..N]
                /\ hpc \in [Holders -> Backends \cup {"idle", "done"}]
ResponseType == responses \in Seq(Response)
ResultType   == /\ produced \subseteq Response
                /\ drawn \in [Tasks -> 0..MaxItems]
                /\ late \in [Tasks -> Nat]
ErrorType    == errors \in Seq(Tasks) /\ failed \subseteq Tasks
ConsumerType == /\ cpc \in [Consumers -> ConsumerPC]
                /\ handed \in [Tasks -> Seq(1..MaxItems)]
                /\ popped \in [Callbacks -> 0..N]
                /\ reported \subseteq Tasks
PCType       == pc \in [Threads -> ThreadPC]
StopType     == stopped \in BOOLEAN

LEMMA TypeParts ==
  TypeOK <=> /\ CtorType /\ QueueType /\ LockType /\ ResponseType /\ ResultType
             /\ ErrorType /\ ConsumerType /\ PCType /\ StopType
BY Zenon DEF TypeOK, CtorType, QueueType, LockType, ResponseType, ResultType,
   ErrorType, ConsumerType, PCType, StopType

LEMMA TypePartsPrimed ==
  TypeOK' <=> /\ CtorType' /\ QueueType' /\ LockType' /\ ResponseType' /\ ResultType'
              /\ ErrorType' /\ ConsumerType' /\ PCType' /\ StopType'
BY TypeParts, PTL

LEMMA TypeFrame ==
  ASSUME TypeOK
  PROVE  /\ UNCHANGED ctorVars => CtorType'
         /\ UNCHANGED queueVars => QueueType'
         /\ UNCHANGED lockVars => LockType'
         /\ UNCHANGED responses => ResponseType'
         /\ UNCHANGED <<produced, drawn, late>> => ResultType'
         /\ UNCHANGED resultVars => ResponseType' /\ ResultType'
         /\ UNCHANGED errorVars => ErrorType'
         /\ UNCHANGED consumerVars => ConsumerType'
         /\ UNCHANGED pc => PCType'
         /\ UNCHANGED stopped => StopType'
<1>1. UNCHANGED ctorVars => CtorType'
  BY TypeParts DEF ctorVars, CtorType
<1>2. UNCHANGED queueVars => QueueType'
  BY TypeParts DEF queueVars, QueueType
<1>3. UNCHANGED lockVars => LockType'
  BY TypeParts DEF lockVars, LockType
<1>4. UNCHANGED responses => ResponseType'
  BY TypeParts DEF ResponseType
<1>5. UNCHANGED <<produced, drawn, late>> => ResultType'
  BY TypeParts DEF ResultType
<1>6. UNCHANGED resultVars => ResponseType' /\ ResultType'
  BY <1>4, <1>5 DEF resultVars
<1>7. UNCHANGED errorVars => ErrorType'
  BY TypeParts DEF errorVars, ErrorType
<1>8. UNCHANGED consumerVars => ConsumerType'
  BY TypeParts DEF consumerVars, ConsumerType
<1>9. UNCHANGED pc => PCType'
  BY TypeParts DEF PCType
<1>10. UNCHANGED stopped => StopType'
  BY TypeParts, Zenon DEF StopType
<1>11. QED
  BY <1>1, <1>2, <1>3, <1>4, <1>5, <1>6, <1>7, <1>8, <1>9, <1>10

LEMMA BuiltFinite ==
  ASSUME TypeOK
  PROVE  IsFiniteSet((1..built) \ finished)
<1>1. built \in Int
  BY TypeParts, CallAssumption DEF CtorType, CallAssumption
<1>2. IsFiniteSet(1..built)
  BY <1>1, FS_Interval
<1>3. QED
  BY <1>2, FS_Difference

LEMMA TypeNext == TasksInv /\ CountInv /\ PoppedInv /\ TypeOK /\ [Next]_vars => TypeOK'
<1> SUFFICES ASSUME TasksInv, CountInv, PoppedInv, TypeOK, [Next]_vars PROVE TypeOK'
  OBVIOUS
<1>1. CASE StartThread
  <2>1. CtorType' /\ PCType'
    BY <1>1, CallAssumption, TypeParts
       DEF CallAssumption, StartThread, CtorType, PCType, ThreadPC, Threads
  <2>2. QED
    BY <1>1, <2>1, TypeFrame, TypePartsPrimed DEF StartThread
<1>2. CASE PutTask
  <2>1. CtorType' /\ QueueType'
    BY <1>2, CallAssumption, TypeParts
       DEF CallAssumption, PutTask, CtorType, QueueType, Tasks
  <2>2. QED
    BY <1>2, <2>1, TypeFrame, TypePartsPrimed DEF PutTask, resultVars
<1>3. ASSUME NEW t \in Threads, Work(t) PROVE TypeOK'
  <2>1. PCType'
    BY <1>3, TypeParts DEF Work, TakeTask, LockBackend, CallRaises,
       CallReturnsValue, CallReturnsIterable, CallExits, NextItem,
       IterationEnds, CheckStop, TaskDone, Release, Go, Goto, PCType, ThreadPC
  <2>2. CtorType' /\ ConsumerType' /\ StopType'
    BY <1>3, WorkFrame, TypeFrame DEF ctorVars, consumerVars
  <2>3. ~TakeTask(t) => taken[t] \in Tasks
    <3>1. ~TakeTask(t) => Busy(t)
      BY <1>3 DEF Work, LockBackend, CallRaises, CallReturnsValue,
         CallReturnsIterable, CallExits, NextItem, IterationEnds, CheckStop,
         TaskDone, Release, Go, Goto, Busy
    <3>2. Busy(t) => taken[t] \in 1..built
      BY DEF TasksInv
    <3>3. QED
      BY <3>1, <3>2, TypeParts, CallAssumption DEF CtorType, CallAssumption, Tasks
  <2>4. CASE TakeTask(t)
    <3>1. QueueType' /\ LockType'
      BY <2>4, CallAssumption, TypeParts
         DEF TakeTask, QueueType, LockType, CallAssumption, Tasks
    <3>2. QED
      BY <2>1, <2>2, <2>4, <3>1, TypeFrame, TypePartsPrimed DEF TakeTask
  <2>5. CASE LockBackend(t)
    <3>1. LockType'
      BY <2>5, TypeParts DEF LockBackend, LockType
    <3>2. QED
      BY <2>1, <2>2, <2>5, <3>1, TypeFrame, TypePartsPrimed DEF LockBackend
  <2>6. CASE CallRaises(t)
    <3>1. ErrorType'
      BY <2>3, <2>6, TypeParts DEF CallRaises, StoreError, ErrorType, Goto, TakeTask
    <3>2. QED
      BY <2>1, <2>2, <2>6, <3>1, TypeFrame, TypePartsPrimed DEF CallRaises
  <2>7. CASE CallReturnsValue(t) \/ NextItem(t)
    <3>1. taken[t] \in Tasks
      BY <2>3, <2>7 DEF CallReturnsValue, NextItem, Goto, TakeTask
    <3>2. StoreResult(taken[t]) \/ DropNone(taken[t])
      BY <2>7 DEF CallReturnsValue, NextItem
    <3>3. ResponseType' /\ ResultType'
      <4>1. CASE StoreResult(taken[t])
        <5>1. /\ drawn[taken[t]] + 1 \in 1..MaxItems
              /\ drawn[taken[t]] + 1 \in 0..MaxItems
          BY <3>1, <4>1, TypeParts, CallAssumption DEF StoreResult, ResultType, CallAssumption
        <5>2. [task |-> taken[t], item |-> drawn[taken[t]] + 1] \in Response
          BY <3>1, <5>1 DEF Response
        <5>3. QED
          BY <3>1, <4>1, <5>1, <5>2, TypeParts DEF StoreResult, ResponseType, ResultType
      <4>2. CASE DropNone(taken[t])
        BY <3>1, <4>2, TypeParts, CallAssumption
           DEF DropNone, ResponseType, ResultType, CallAssumption
      <4>3. QED
        BY <3>2, <4>1, <4>2
    <3>4. QED
      BY <2>1, <2>2, <2>7, <3>3, TypeFrame, TypePartsPrimed DEF CallReturnsValue, NextItem
  <2>8. CASE CallReturnsIterable(t) \/ CallExits(t) \/ IterationEnds(t) \/ CheckStop(t)
    BY <2>1, <2>2, <2>8, TypeFrame, TypePartsPrimed
       DEF CallReturnsIterable, CallExits, IterationEnds, CheckStop, Go
  <2>9. CASE TaskDone(t)
    <3>1. taken[t] \in (1..built) \ finished
      BY <2>9 DEF TasksInv, Working, Busy, TaskDone, Goto
    <3>2. IsFiniteSet((1..built) \ finished)
      BY BuiltFinite
    <3>3. unfinished # 0
      BY <3>1, <3>2, FS_EmptySet DEF CountInv
    <3>4. QueueType'
      BY <2>3, <2>9, <3>3, TypeParts DEF TaskDone, QueueType, Goto, TakeTask
    <3>5. QED
      BY <2>1, <2>2, <2>9, <3>4, TypeFrame, TypePartsPrimed DEF TaskDone
  <2>10. CASE Release(t)
    <3>1. LockType'
      BY <2>10, TypeParts DEF Release, LockType
    <3>2. QED
      BY <2>1, <2>2, <2>10, <3>1, TypeFrame, TypePartsPrimed DEF Release
  <2>11. QED
    BY <1>3, <2>4, <2>5, <2>6, <2>7, <2>8, <2>9, <2>10 DEF Work
<1>4. ASSUME NEW c \in Consumers, Begin(c) \/ Stop(c) \/ Consume(c) PROVE TypeOK'
  <2>1. CtorType' /\ QueueType' /\ LockType' /\ ResultType' /\ PCType'
    BY <1>4, ConsumerFrame, TypeFrame DEF ThreadSide
  <2>2. \E from : \E to \in ConsumerPC : Step(c, from, to)
    BY <1>4 DEF Begin, Stop, Consume, ReadStop, ReadUnfinished, ReadEmpty,
      GetResponse, GetTimesOut, Resume, CloseIterator, CallbackRaises,
      JoinThreads, RaiseErrors, ReadErrors, TestErrors, PopError, PopEmptyList, CallErrback,
      CallFinishback, Move, ConsumerPC, EndPC, LooperPC, ErrorsPC
  <2>3. cpc' \in [Consumers -> ConsumerPC]
    BY <2>2, TypeParts DEF Step, ConsumerType
  <2>4. /\ \/ UNCHANGED responses
           \/ responses # <<>> /\ responses' = Tail(responses)
        /\ \/ UNCHANGED handed
           \/ responses # <<>> /\ Hand(Head(responses))
    BY <1>4 DEF Begin, Stop, Consume, ReadStop, ReadUnfinished, ReadEmpty,
      GetResponse, GetTimesOut, Resume, CloseIterator, CallbackRaises,
      JoinThreads, RaiseErrors, ReadErrors, TestErrors, PopError, PopEmptyList, CallErrback,
      CallFinishback, Move
  <2>5. /\ \/ UNCHANGED errors
           \/ errors # <<>> /\ errors' = Tail(errors)
        /\ \/ UNCHANGED <<reported, popped>>
           \/ UNCHANGED popped /\ reported' = reported \cup Raised
           \/ /\ UNCHANGED reported /\ errors # <<>>
              /\ popped' = [popped EXCEPT ![c] = Head(errors)]
           \/ /\ cpc[c] = "errback" /\ reported' = reported \cup {popped[c]}
              /\ popped' = [popped EXCEPT ![c] = 0]
        /\ UNCHANGED failed
    BY <1>4, ConsumerFrame DEF Begin, Stop, Consume, ReadStop, ReadUnfinished, ReadEmpty,
      GetResponse, GetTimesOut, Resume, CloseIterator, CallbackRaises,
      JoinThreads, RaiseErrors, ReadErrors, TestErrors, PopError, PopEmptyList, CallErrback,
      CallFinishback, Move, Step, ThreadSide
  <2>6. stopped' = stopped \/ stopped' = TRUE
    BY <1>4 DEF Begin, Stop, Consume, ReadStop, ReadUnfinished, ReadEmpty,
      GetResponse, GetTimesOut, Resume, CloseIterator, CallbackRaises,
      JoinThreads, RaiseErrors, ReadErrors, TestErrors, PopError, PopEmptyList, CallErrback,
      CallFinishback, Move
  <2>7. ResponseType' /\ handed' \in [Tasks -> Seq(1..MaxItems)]
    <3>1. /\ ResponseType' /\ handed \in [Tasks -> Seq(1..MaxItems)]
          /\ responses # <<>> => Head(responses) \in Response
      <4>1. responses \in Seq(Response) /\ handed \in [Tasks -> Seq(1..MaxItems)]
        BY TypeParts DEF ResponseType, ConsumerType
      <4>2. \/ responses' = responses
            \/ responses # <<>> /\ responses' = Tail(responses)
        BY <2>4
      <4>3. responses # <<>> => Head(responses) \in Response /\ Tail(responses) \in Seq(Response)
        <5> HIDE DEF Response
        <5> QED
          BY <4>1
      <4> QED
        BY <4>1, <4>2, <4>3 DEF ResponseType
    <3>2. ASSUME NEW r \in Response, Hand(r) PROVE handed' \in [Tasks -> Seq(1..MaxItems)]
      <4>1. r.task \in Tasks /\ r.item \in 1..MaxItems
        BY <3>2 DEF Response
      <4>2. Append(handed[r.task], r.item) \in Seq(1..MaxItems)
        BY <3>1, <4>1
      <4> QED
        BY <3>1, <3>2, <4>2 DEF Hand
    <3> QED
      BY <2>4, <3>1, <3>2
  <2>8. Raised \subseteq Tasks
    BY TypeParts DEF Raised, ErrorType
  <2>9. /\ ErrorType' /\ reported' \subseteq Tasks
        /\ popped' \in [Callbacks -> 0..N]
    <3>1. ErrorType' /\ (errors # <<>> => Head(errors) \in Tasks)
      BY <2>5, TypeParts DEF ErrorType
    <3>2. reported' \subseteq Tasks
      BY <2>5, <2>8, TypeParts DEF ConsumerType, PoppedInv
    <3>3. popped' \in [Callbacks -> 0..N]
      <4>1. popped \in [Callbacks -> 0..N] /\ Tasks \subseteq 0..N /\ 0 \in 0..N
        BY CallAssumption, TypeParts DEF ConsumerType, CallAssumption, Tasks
      <4>2. \/ popped' = popped
            \/ errors # <<>> /\ popped' = [popped EXCEPT ![c] = Head(errors)]
            \/ popped' = [popped EXCEPT ![c] = 0]
        BY <2>5
      <4> HIDE DEF Tasks
      <4> QED
        BY <3>1, <4>1, <4>2
    <3> QED
      BY <3>1, <3>2, <3>3
  <2>10. StopType'
    BY <2>6, TypeParts, Zenon DEF StopType
  <2>11. QED
    BY <2>1, <2>3, <2>7, <2>9, <2>10, TypePartsPrimed DEF ConsumerType
<1>5. ASSUME NEW h \in Holders,
             HolderReleases(h) \/ \E b \in Backends : HolderLocks(h, b)
      PROVE  TypeOK'
  <2>1. LockType'
    BY <1>5, TypeParts DEF HolderReleases, HolderLocks, LockType
  <2>2. QED
    BY <1>5, <2>1, HolderFrame, TypeFrame, TypePartsPrimed
<1>6. CASE UNCHANGED vars
  BY <1>6, TypeFrame, TypePartsPrimed DEF vars
<1>7. QED
  BY <1>1, <1>2, <1>3, <1>4, <1>5, <1>6 DEF Next, Terminated

-----------------------------------------------------------------------------
(* unfinished_tasks counts the queued tasks that are not done: put() and   *)
(* task_done() are the only calls that change either side.                 *)
LEMMA CountNext == TasksInv /\ CountInv /\ TypeOK /\ [Next]_vars => CountInv'
<1> SUFFICES ASSUME TasksInv, CountInv, TypeOK, [Next]_vars PROVE CountInv'
  OBVIOUS
<1> DEFINE Open == (1..built) \ finished
<1>1. IsFiniteSet(Open) /\ Cardinality(Open) \in Nat
  BY BuiltFinite, FS_CardinalityType
<1>2. CASE PutTask
  <2>1. built \in Nat /\ built + 1 \notin 1..built /\ finished \subseteq 1..built
    BY CallAssumption, TypeParts DEF CtorType, TasksInv, CallAssumption
  <2>2. 1..(built + 1) = (1..built) \cup {built + 1}
    BY <2>1
  <2>3. Open' = Open \cup {built + 1} /\ built + 1 \notin Open
    BY <1>2, <2>1, <2>2 DEF PutTask
  <2>4. Cardinality(Open') = Cardinality(Open) + 1
    BY <1>1, <2>3, FS_AddElement
  <2>5. QED
    BY <1>2, <2>4 DEF PutTask, CountInv
<1>3. ASSUME NEW t \in Threads, TaskDone(t) PROVE CountInv'
  <2>1. taken[t] \in Open
    BY <1>3 DEF TasksInv, Working, Busy, TaskDone, Goto
  <2>2. Open' = Open \ {taken[t]}
    BY <1>3 DEF TaskDone, ctorVars
  <2>3. Cardinality(Open \ {taken[t]}) = Cardinality(Open) - 1
    <3> HIDE DEF Open
    <3> QED
      BY <1>1, <2>1, FS_RemoveElement
  <2>4. QED
    BY <1>3, <2>2, <2>3 DEF TaskDone, CountInv
<1>4. CASE UNCHANGED <<built, unfinished, finished>>
  BY <1>4 DEF CountInv
<1>5. ASSUME NEW t \in Threads, Work(t), ~TaskDone(t)
      PROVE  UNCHANGED <<built, unfinished, finished>>
  BY <1>5 DEF Work, TakeTask, LockBackend, CallRaises, CallReturnsValue,
     CallReturnsIterable, CallExits, NextItem, IterationEnds, CheckStop,
     Release, Go, ctorVars, queueVars
<1>6. QED
  BY <1>2, <1>3, <1>4, <1>5, ConsumerFrame, HolderFrame
     DEF Next, Terminated, StartThread, vars, ctorVars, queueVars, ThreadSide

(* What a response queue holds after a put() and after a get().            *)
LEMMA StoredAppend ==
  ASSUME NEW S, NEW q \in Seq(S), NEW e \in S
  PROVE  {Append(q, e)[i] : i \in DOMAIN Append(q, e)} = {q[i] : i \in DOMAIN q} \cup {e}
<1> DEFINE r == Append(q, e)
<1>1. /\ r \in Seq(S) /\ Len(r) = Len(q) + 1 /\ r[Len(q) + 1] = e
      /\ \A i \in 1..Len(q) : r[i] = q[i]
  OBVIOUS
<1>2. DOMAIN r = 1..(Len(q) + 1) /\ DOMAIN q = 1..Len(q) /\ Len(q) \in Nat
  BY <1>1
<1>3. 1..(Len(q) + 1) = (1..Len(q)) \cup {Len(q) + 1}
  BY <1>2
<1> HIDE DEF r
<1>4. QED
  BY <1>1, <1>2, <1>3

LEMMA StoredTail ==
  ASSUME NEW S, NEW q \in Seq(S), q # <<>>
  PROVE  {q[i] : i \in DOMAIN q} = {Head(q)} \cup {Tail(q)[i] : i \in DOMAIN Tail(q)}
<1> DEFINE r == Tail(q)
<1>1. /\ Len(q) \in Nat \ {0} /\ Head(q) = q[1] /\ DOMAIN q = 1..Len(q)
      /\ DOMAIN r = 1..(Len(q) - 1)
      /\ \A i \in 1..(Len(q) - 1) : r[i] = q[i + 1]
  OBVIOUS
<1>2. ASSUME NEW i \in DOMAIN q, i # 1 PROVE i - 1 \in DOMAIN r /\ q[i] = r[i - 1]
  BY <1>1, <1>2
<1>3. ASSUME NEW i \in DOMAIN r PROVE i + 1 \in DOMAIN q /\ r[i] = q[i + 1]
  BY <1>1
<1>4. 1 \in DOMAIN q
  BY <1>1
<1> HIDE DEF r
<1>5. QED
  BY <1>1, <1>2, <1>3, <1>4

(* Handing a response out adds it to what was delivered.                   *)
LEMMA Handed ==
  ASSUME TypeOK, NEW c \in Consumers, GetResponse(c)
  PROVE  /\ delivered' = delivered \cup {Head(responses)}
         /\ Head(responses) \in Response /\ Hand(Head(responses))
<1>1. responses \in Seq(Response) /\ responses # <<>> /\ Hand(Head(responses))
  BY TypeParts DEF GetResponse, ResponseType
<1> DEFINE r == Head(responses)
<1>2. r \in Response
  BY <1>1
<1> HIDE DEF r
<1>3. /\ r.task \in Tasks /\ r.item \in 1..MaxItems
      /\ handed \in [Tasks -> Seq(1..MaxItems)]
      /\ handed' = [handed EXCEPT ![r.task] = Append(@, r.item)]
  BY <1>1, <1>2, TypeParts DEF Hand, ConsumerType, Response, r
<1>4. ASSUME NEW q \in Response
      PROVE  (\E i \in DOMAIN handed'[q.task] : handed'[q.task][i] = q.item)
               <=> (\E i \in DOMAIN handed[q.task] : handed[q.task][i] = q.item) \/ q = r
  <2>1. q.task \in Tasks /\ (q = r <=> q.task = r.task /\ q.item = r.item)
    BY <1>2 DEF Response
  <2>2. CASE q.task # r.task
    BY <1>3, <2>1, <2>2
  <2>3. CASE q.task = r.task
    <3> DEFINE s == handed[r.task]
    <3>1. s \in Seq(1..MaxItems) /\ handed'[q.task] = Append(s, r.item)
      BY <1>3, <2>3
    <3> HIDE DEF s
    <3>2. {Append(s, r.item)[i] : i \in DOMAIN Append(s, r.item)} = {s[i] : i \in DOMAIN s} \cup {r.item}
      <4> DEFINE e == r.item
                 S == 1..MaxItems
      <4>1. e \in S /\ s \in Seq(S)
        BY <1>3, <3>1
      <4> HIDE DEF e, S
      <4>2. {Append(s, e)[i] : i \in DOMAIN Append(s, e)} = {s[i] : i \in DOMAIN s} \cup {e}
        BY <4>1, StoredAppend
      <4> QED
        BY <4>2 DEF e
    <3>3. (\E i \in DOMAIN handed'[q.task] : handed'[q.task][i] = q.item)
            <=> q.item \in {s[i] : i \in DOMAIN s} \cup {r.item}
      BY <3>1, <3>2
    <3> QED
      BY <2>1, <2>3, <3>3 DEF s
  <2> QED
    BY <2>2, <2>3
<1>5. delivered' = delivered \cup {r}
  BY <1>2, <1>4 DEF delivered
<1> QED
  BY <1>1, <1>2, <1>5 DEF r

(* Every stored response is in the queue or was handed out.                *)
LEMMA ResultsNext == TypeOK /\ TypeOK' /\ ResultsInv /\ [Next]_vars => ResultsInv'
<1> SUFFICES ASSUME TypeOK, TypeOK', ResultsInv, [Next]_vars PROVE ResultsInv'
  OBVIOUS
<1>1. CASE UNCHANGED <<produced, handed, responses>>
  BY <1>1 DEF ResultsInv, Stored, delivered
<1>2. ASSUME NEW k, StoreResult(k), UNCHANGED handed, responses' \in Seq(Response)
      PROVE  ResultsInv'
  <2> DEFINE r == [task |-> k, item |-> drawn[k] + 1]
  <2>1. responses' = Append(responses, r) /\ produced' = produced \cup {r}
    BY <1>2 DEF StoreResult
  <2>2. responses \in Seq(Response)
    BY TypeParts DEF ResponseType
  <2>3. r \in Response
    <3> HIDE DEF r
    <3>1. responses'[Len(responses) + 1] = r /\ Len(responses') = Len(responses) + 1
      BY <2>1, <2>2
    <3>2. QED
      BY <1>2, <2>2, <3>1
  <2> HIDE DEF r
  <2>4. Stored' = Stored \cup {r}
    BY <2>1, <2>2, <2>3, StoredAppend DEF Stored
  <2>5. QED
    BY <1>2, <2>1, <2>4 DEF ResultsInv, delivered
<1>3. ASSUME NEW c \in Consumers, GetResponse(c) PROVE ResultsInv'
  <2>1. Stored = {Head(responses)} \cup Stored'
    <3>1. responses # <<>> /\ responses' = Tail(responses) /\ responses \in Seq(Response)
      BY <1>3, TypeParts DEF GetResponse, ResponseType
    <3>2. Stored = {Head(responses)} \cup {Tail(responses)[i] : i \in DOMAIN Tail(responses)}
      BY <3>1, StoredTail DEF Stored
    <3>3. QED
      BY <3>1, <3>2 DEF Stored
  <2>2. QED
    BY <1>3, <2>1, Handed DEF GetResponse, ResultsInv, ThreadSide
<1>4. ASSUME NEW t \in Threads, Work(t) PROVE ResultsInv'
  <2>1. UNCHANGED handed /\ responses' \in Seq(Response)
    BY <1>4, WorkFrame, TypePartsPrimed DEF consumerVars, ResponseType
  <2>2. \/ UNCHANGED <<produced, responses>>
        \/ StoreResult(taken[t])
    BY <1>4 DEF Work, TakeTask, LockBackend, CallRaises, CallReturnsValue,
       CallReturnsIterable, CallExits, NextItem, IterationEnds, CheckStop,
       TaskDone, Release, Go, resultVars, DropNone
  <2>3. QED
    BY <1>1, <1>2, <2>1, <2>2
<1>5. ASSUME NEW c \in Consumers, Begin(c) \/ Stop(c) \/ Consume(c), ~GetResponse(c)
      PROVE  UNCHANGED <<produced, handed, responses>>
  BY <1>5, ConsumerFrame DEF ThreadSide, Begin, Stop, Consume, ReadStop,
     ReadUnfinished, ReadEmpty, GetTimesOut, Resume, CloseIterator,
     CallbackRaises, JoinThreads, RaiseErrors, ReadErrors, TestErrors, PopError,
     PopEmptyList, CallErrback, CallFinishback, Move
<1>6. QED
  BY <1>1, <1>3, <1>4, <1>5, HolderFrame
     DEF Next, Terminated, StartThread, PutTask, vars, resultVars, consumerVars

(* A loop that nobody stopped and that has ended found every task done and *)
(* then the queue empty; no thread can store anything any more.            *)
LEMMA LoopsNext ==
  ASSUME TypeOK, TasksInv, CountInv, LoopsInv, [Next]_vars
  PROVE  LoopsInv'
<1> DEFINE Quiet == finished = Tasks /\ responses = <<>>
<1>1. finished = Tasks => built = N
  BY CallAssumption, TypeParts DEF CallAssumption, CtorType, TasksInv, Tasks
<1>2. CASE UNCHANGED <<consumerVars, stopped, built, finished>> /\ (Quiet => Quiet')
  BY <1>2 DEF LoopsInv, LeftLoop, Ready, consumerVars
<1>3. CASE StartThread
  BY <1>2, <1>3 DEF StartThread, queueVars, resultVars
<1>4. CASE PutTask
  <2>1. built # N /\ built' = built + 1
    BY <1>4, CallAssumption, TypeParts DEF PutTask, CtorType, CallAssumption
  <2>2. \A c \in Consumers : cpc[c] = "idle"
    BY <2>1 DEF LoopsInv, Ready
  <2>3. cpc' = cpc
    BY <1>4 DEF PutTask, consumerVars
  <2>4. QED
    BY <2>2, <2>3 DEF LoopsInv, LeftLoop, Consumers, ErrorsPC
<1>5. ASSUME NEW t \in Threads, Work(t) PROVE LoopsInv'
  <2>1. UNCHANGED <<ctorVars, consumerVars, stopped>>
    BY <1>5, WorkFrame
  <2>2. CASE TaskDone(t)
    <3>1. taken[t] \in Tasks /\ taken[t] \notin finished
      BY <2>2, CallAssumption, TypeParts DEF TaskDone, Goto, TasksInv, Working,
         Busy, CtorType, CallAssumption, Tasks
    <3>2. finished # Tasks
      BY <3>1
    <3>3. \A c \in Loopers : cpc[c] # "peek" /\ ~(LeftLoop(c) /\ ~stopped)
      BY <3>2 DEF LoopsInv
    <3>4. QED
      BY <2>1, <3>3 DEF LoopsInv, LeftLoop, Ready, ctorVars, consumerVars
  <2>3. CASE ~TaskDone(t)
    <3>1. UNCHANGED finished
      BY <1>5, <2>3 DEF Work, TakeTask, LockBackend, CallRaises, CallReturnsValue,
         CallReturnsIterable, CallExits, NextItem, IterationEnds, CheckStop,
         Release, Go, queueVars
    <3>2. \/ UNCHANGED responses
          \/ pc[t] \in {"call", "iter"}
      BY <1>5 DEF Work, TakeTask, LockBackend, CallRaises, CallReturnsValue,
         CallReturnsIterable, CallExits, NextItem, IterationEnds, CheckStop,
         TaskDone, Release, Go, Goto, resultVars
    <3>3. pc[t] \in {"call", "iter"} => finished # Tasks
      BY CallAssumption, TypeParts DEF TasksInv, Working,
         Busy, CtorType, CallAssumption, Tasks
    <3>4. QED
      BY <1>2, <2>1, <3>1, <3>2, <3>3 DEF ctorVars
  <2>4. QED
    BY <2>2, <2>3
<1>6. ASSUME NEW h \in Holders,
             HolderReleases(h) \/ \E b \in Backends : HolderLocks(h, b)
      PROVE  LoopsInv'
  BY <1>2, <1>6, HolderFrame DEF ctorVars, queueVars, resultVars
<1>7. CASE UNCHANGED vars
  BY <1>2, <1>7 DEF vars, ctorVars, queueVars, resultVars
<1>8. ASSUME NEW c \in Consumers, Begin(c) \/ Stop(c) \/ Consume(c) PROVE LoopsInv'
  <2>1. UNCHANGED ThreadSide
    BY <1>8, ConsumerFrame
  <2> DEFINE LeftPC == ErrorsPC \cup {"returned", "raised", "broken"}
  <2>2. /\ (responses = <<>> => responses' = <<>>) \/ GetResponse(c)
        /\ responses = <<>> => ~GetResponse(c)
        /\ stopped => stopped'
        /\ Ready /\ Ready'
    <3>1. cpc[c] = "idle" => Ready
      BY <1>8 DEF Begin, Stop, Consume, ReadStop, ReadUnfinished, ReadEmpty,
        GetResponse, GetTimesOut, Resume, CloseIterator, CallbackRaises,
        JoinThreads, RaiseErrors, ReadErrors, TestErrors, PopError, PopEmptyList, CallErrback,
        CallFinishback, Move, Step
    <3>2. QED
      BY <1>8, <2>1, <3>1 DEF LoopsInv, Ready, ThreadSide, ctorVars, Begin, Stop,
        Consume, ReadStop, ReadUnfinished, ReadEmpty,
        GetResponse, GetTimesOut, Resume, CloseIterator, CallbackRaises,
        JoinThreads, RaiseErrors, ReadErrors, TestErrors, PopError, PopEmptyList, CallErrback,
        CallFinishback, Move
  <2>3. PICK from \in ConsumerPC, to \in ConsumerPC : Step(c, from, to)
    BY <1>8 DEF Begin, Stop, Consume, ReadStop, ReadUnfinished, ReadEmpty,
      GetResponse, GetTimesOut, Resume, CloseIterator, CallbackRaises,
      JoinThreads, RaiseErrors, ReadErrors, TestErrors, PopError, PopEmptyList, CallErrback,
      CallFinishback, Move, ConsumerPC, EndPC, LooperPC, ErrorsPC
  <2>4. /\ cpc' = [cpc EXCEPT ![c] = to]
        /\ \A d \in Consumers : cpc'[d] = IF d = c THEN to ELSE cpc[d]
    BY <2>3, TypeParts DEF Step, ConsumerType
  <2>5. c \in Loopers => to # "join"
    BY <1>8, <2>4, CallAssumption DEF CallAssumption, Begin, Stop, Consume,
      ReadStop, ReadUnfinished, ReadEmpty, GetResponse, GetTimesOut, Resume,
      CloseIterator, CallbackRaises, JoinThreads, RaiseErrors, ReadErrors,
      TestErrors, PopError, PopEmptyList, CallErrback, CallFinishback, Move, Step, LoopsInv
  <2>6. ASSUME c \in Loopers, to = "peek" PROVE finished = Tasks
    <3>1. cpc'[c] = "peek" /\ c \in DOMAIN cpc
      BY <2>4, <2>6, TypeParts DEF ConsumerType
    <3>2. ReadUnfinished(c)
      BY <1>8, <3>1 DEF Begin, Stop, Consume, ReadStop, ReadEmpty, GetResponse,
        GetTimesOut, Resume, CloseIterator, CallbackRaises, JoinThreads,
        RaiseErrors, ReadErrors, TestErrors, PopError, PopEmptyList, CallErrback, CallFinishback, Move,
        Step
    <3>3. unfinished = 0
      BY <3>1, <3>2 DEF ReadUnfinished, Move, Step
    <3>4. (1..built) \ finished = {}
      BY <3>3, BuiltFinite, FS_EmptySet DEF CountInv
    <3>5. QED
      BY <2>2, <3>4 DEF TasksInv, Ready, Tasks
  <2>7. ASSUME c \in Loopers, to \in LeftPC, ~stopped' PROVE Quiet /\ ~GetResponse(c)
    <3>1. \/ cpc[c] \in LeftPC
          \/ cpc[c] = "peek" /\ responses = <<>>
      BY <1>8, <2>4, <2>7, CallAssumption DEF CallAssumption, Begin, Stop, Consume,
        ReadStop, ReadUnfinished, ReadEmpty, GetResponse, GetTimesOut, Resume,
        CloseIterator, CallbackRaises, JoinThreads, RaiseErrors, ReadErrors,
        TestErrors, PopError, PopEmptyList, CallErrback, CallFinishback, Move, Step, LoopsInv, ErrorsPC
    <3>2. QED
      BY <2>2, <2>7, <3>1 DEF LoopsInv, LeftLoop
  <2>8. \A d \in Loopers : d # c => cpc'[d] = cpc[d]
    BY <2>4 DEF Consumers
  <2>9. finished' = finished
    BY <2>1 DEF ThreadSide, queueVars
  <2>10. \A d \in Loopers : (LeftLoop(d))' /\ ~stopped' =>
            finished' = Tasks /\ responses' = <<>>
    BY <2>2, <2>4, <2>7, <2>8, <2>9 DEF LoopsInv, LeftLoop, Consumers
  <2>11. \A d \in Loopers : cpc'[d] # "join" /\ (cpc'[d] = "peek" => finished' = Tasks)
    BY <2>4, <2>5, <2>6, <2>8, <2>9 DEF LoopsInv, Consumers
  <2>12. QED
    BY <2>2, <2>10, <2>11 DEF LoopsInv
<1>9. QED
  BY <1>3, <1>4, <1>5, <1>6, <1>7, <1>8 DEF Next, Terminated

-----------------------------------------------------------------------------
LEMMA NewNext == ASSUME TypeOK, TasksInv, NewInv, [Next]_vars PROVE NewInv'
<1>1. CASE StartThread
  BY <1>1, CallAssumption, TypeParts
     DEF StartThread, NewInv, CtorType, PCType, Threads, CallAssumption
<1>2. ASSUME NEW t \in Threads, Work(t) PROVE NewInv'
  <2>1. started' = started
    BY <1>2, WorkFrame DEF ctorVars
  <2>2. pc[t] # "new" /\ \E to : pc' = [pc EXCEPT ![t] = to]
    BY <1>2 DEF Work, TakeTask, LockBackend, CallRaises, CallReturnsValue,
       CallReturnsIterable, CallExits, NextItem, IterationEnds, CheckStop,
       TaskDone, Release, Go, Goto
  <2>3. QED
    BY <2>1, <2>2, TypeParts DEF NewInv, PCType
<1>3. CASE UNCHANGED <<started, pc>>
  BY <1>3 DEF NewInv
<1>4. QED
  BY <1>1, <1>2, <1>3, ConsumerFrame, HolderFrame
     DEF Next, Terminated, PutTask, vars, ctorVars, ThreadSide

LEMMA PoppedNext == ASSUME TypeOK, PoppedInv, [Next]_vars PROVE PoppedInv'
<1>1. ASSUME NEW c \in Consumers, Begin(c) \/ Stop(c) \/ Consume(c) PROVE PoppedInv'
  <2>1. /\ cpc \in [Consumers -> ConsumerPC] /\ popped \in [Callbacks -> 0..N]
        /\ errors \in Seq(Tasks)
    BY TypeParts DEF ConsumerType, ErrorType
  <2>2. PICK from, to : Step(c, from, to)
    BY <1>1 DEF Begin, Stop, Consume, ReadStop, ReadUnfinished, ReadEmpty,
      GetResponse, GetTimesOut, Resume, CloseIterator, CallbackRaises,
      JoinThreads, RaiseErrors, ReadErrors, TestErrors, PopError, PopEmptyList, CallErrback,
      CallFinishback, Move
  <2>3. \A d \in Consumers : cpc'[d] = IF d = c THEN to ELSE cpc[d]
    BY <2>1, <2>2 DEF Step
  <2>4. \A d \in Callbacks : d # c => popped'[d] = popped[d]
    BY <1>1, <2>1 DEF Begin, Stop, Consume, ReadStop, ReadUnfinished, ReadEmpty,
      GetResponse, GetTimesOut, Resume, CloseIterator, CallbackRaises,
      JoinThreads, RaiseErrors, ReadErrors, TestErrors, PopError, PopEmptyList, CallErrback,
      CallFinishback, Move
  <2>5. /\ to \in {"pop", "errback"} => c \in Callbacks
        /\ to = "errback" => PopError(c)
    BY <1>1, <2>1, <2>3 DEF PoppedInv, Begin, Stop, Consume, ReadStop, ReadUnfinished, ReadEmpty,
      GetResponse, GetTimesOut, Resume, CloseIterator, CallbackRaises,
      JoinThreads, RaiseErrors, ReadErrors, TestErrors, PopEmptyList, CallErrback,
      CallFinishback, Move, Step, PopError
  <2>6. to = "errback" => popped'[c] \in Tasks
    BY <2>1, <2>5 DEF PopError
  <2>7. c \in Callbacks /\ to # "errback" => popped'[c] = 0
    BY <1>1, <2>1, <2>3 DEF PoppedInv, Begin, Stop, Consume, ReadStop, ReadUnfinished, ReadEmpty,
      GetResponse, GetTimesOut, Resume, CloseIterator, CallbackRaises,
      JoinThreads, RaiseErrors, ReadErrors, TestErrors, PopError, PopEmptyList, CallErrback,
      CallFinishback, Move, Step
  <2> QED
    BY <2>3, <2>4, <2>5, <2>6, <2>7 DEF PoppedInv
<1>2. CASE UNCHANGED consumerVars
  BY <1>2 DEF PoppedInv, consumerVars
<1> QED
  BY <1>1, <1>2, WorkFrame, HolderFrame
     DEF Next, Terminated, StartThread, PutTask, vars

LEMMA IInvHolds == Spec => []IInv
<1>1. Init => IInv
  <2>1. Init => NewInv /\ PoppedInv
    BY DEF Init, NewInv, PoppedInv
  <2>2. QED
    BY <2>1, TypeInit, TasksInit DEF IInv
<1>2. IInv /\ [Next]_vars => IInv'
  BY NewNext, TypeNext, TasksNext, CountNext, ResultsNext, LoopsNext, PoppedNext DEF IInv
<1>3. QED
  BY <1>1, <1>2, PTL DEF Spec

(* TypeOK: in particular unfinished_tasks never goes below zero, because   *)
(* task_done() is called once for each task that was taken.                *)
THEOREM TypeCorrect == Spec => []TypeOK
<1>1. IInv => TypeOK
  BY DEF IInv
<1>2. QED
  BY <1>1, IInvHolds, PTL

(* NoLostResult: a loop over the results that nobody stopped ends only     *)
(* when every task is done and every stored result was handed out.         *)
THEOREM ResultsNotLost == Spec => []NoLostResult
<1>1. IInv => NoLostResult
  <2> SUFFICES ASSUME IInv, NEW c \in Loopers, LeftLoop(c), ~stopped
               PROVE  finished = Tasks /\ delivered = produced
    BY DEF NoLostResult
  <2>1. finished = Tasks /\ responses = <<>>
    BY DEF IInv, LoopsInv
  <2>2. Stored = {}
    BY <2>1 DEF Stored
  <2>3. QED
    BY <2>1, <2>2 DEF IInv, ResultsInv
<1>2. QED
  BY <1>1, IInvHolds, PTL

-----------------------------------------------------------------------------
(* Who is inside a backend owns its lock.                                  *)
LEMMA LockNext ==
  ASSUME IInv, LockInv, [Next]_vars
  PROVE  LockInv'
<1>1. /\ pc \in [Threads -> ThreadPC] /\ taken \in [Threads -> 0..N]
      /\ lock \in [Backends -> {Free} \cup Threads \cup Holders]
      /\ hpc \in [Holders -> Backends \cup {"idle", "done"}]
  BY DEF IInv, TypeOK
<1>2. \A t \in Threads : Busy(t) => taken[t] \in Tasks /\ BackendOf[taken[t]] \in Backends
  BY CallAssumption, TypeParts
     DEF IInv, TasksInv, CtorType, CallAssumption, Tasks
<1>3. /\ \A t \in Threads : t # Free
      /\ \A h \in Holders : h # Free /\ h \notin Threads
      /\ "idle" \notin Backends /\ "done" \notin Backends
  BY CallAssumption DEF CallAssumption, Threads, Free
<1>4. CASE UNCHANGED <<pc, lockVars>>
  BY <1>4 DEF LockInv, Running, lockVars
<1>5. CASE StartThread
  BY <1>1, <1>5 DEF StartThread, LockInv, Running, lockVars
<1>6. ASSUME NEW t \in Threads, Work(t) PROVE LockInv'
  <2>1. UNCHANGED hpc
    BY <1>6, WorkFrame
  <2>2. CASE TakeTask(t)
    BY <1>1, <2>1, <2>2 DEF TakeTask, Goto, LockInv, Running
  <2>3. CASE LockBackend(t)
    <3>1. BackendOf[taken[t]] \in Backends
      BY <1>2, <2>3 DEF LockBackend, Goto, Busy
    <3>2. \A u \in Threads \ {t} : Running(u) => BackendOf[taken[u]] # BackendOf[taken[t]]
      BY <1>3, <2>3 DEF LockBackend, LockInv
    <3>3. \A h \in Holders : hpc[h] \in Backends => hpc[h] # BackendOf[taken[t]]
      BY <1>3, <2>3 DEF LockBackend, LockInv
    <3>4. \A u \in Threads : (Running(u))' => u = t \/ Running(u)
      BY <1>1, <2>3 DEF LockBackend, Goto, Running
    <3>5. \A b \in Backends : lock'[b] = IF b = BackendOf[taken[t]] THEN t ELSE lock[b]
      BY <1>1, <2>3 DEF LockBackend
    <3>6. \A u \in Threads : Running(u) => Busy(u)
      BY DEF Running, Busy
    <3>7. QED
      BY <1>2, <2>1, <2>3, <3>1, <3>2, <3>3, <3>4, <3>5, <3>6 DEF LockBackend, LockInv
  <2>4. CASE Release(t)
    <3>1. BackendOf[taken[t]] \in Backends /\ Running(t)
      BY <1>2, <2>4 DEF Release, Goto, Busy, Running
    <3>2. \A u \in Threads \ {t} : Running(u) => BackendOf[taken[u]] # BackendOf[taken[t]]
      BY <3>1 DEF LockInv
    <3>3. \A h \in Holders : hpc[h] \in Backends => hpc[h] # BackendOf[taken[t]]
      BY <1>3, <3>1 DEF LockInv
    <3>4. \A u \in Threads : (Running(u))' => u # t /\ Running(u)
      BY <1>1, <2>4 DEF Release, Goto, Running
    <3>5. \A b \in Backends : b # BackendOf[taken[t]] => lock'[b] = lock[b]
      BY <1>1, <2>4 DEF Release
    <3>6. \A u \in Threads : Running(u) => Busy(u)
      BY DEF Running, Busy
    <3>7. QED
      BY <1>2, <2>1, <2>4, <3>1, <3>2, <3>3, <3>4, <3>5, <3>6 DEF Release, LockInv
  <2>5. CASE ~(TakeTask(t) \/ LockBackend(t) \/ Release(t))
    <3>1. UNCHANGED <<lock, taken>>
      BY <1>6, <2>5 DEF Work, CallRaises, CallReturnsValue, CallReturnsIterable,
         CallExits, NextItem, IterationEnds, CheckStop, TaskDone, Go, lockVars
    <3>2. \A u \in Threads : (Running(u))' => Running(u)
      BY <1>1, <1>6, <2>5 DEF Work, CallRaises, CallReturnsValue,
         CallReturnsIterable, CallExits, NextItem, IterationEnds, CheckStop,
         TaskDone, Go, Goto, Running
    <3>3. QED
      BY <2>1, <3>1, <3>2 DEF LockInv
  <2>6. QED
    BY <2>2, <2>3, <2>4, <2>5
<1>7. ASSUME NEW h \in Holders, NEW b \in Backends, HolderLocks(h, b) PROVE LockInv'
  <2>1. /\ \A t \in Threads : Running(t) => BackendOf[taken[t]] # b
        /\ \A g \in Holders : hpc[g] \in Backends => hpc[g] # b
    BY <1>3, <1>7 DEF HolderLocks, LockInv
  <2>2. /\ \A d \in Backends : lock'[d] = IF d = b THEN h ELSE lock[d]
        /\ \A g \in Holders : hpc'[g] = IF g = h THEN b ELSE hpc[g]
    BY <1>1, <1>7 DEF HolderLocks
  <2>3. \A t \in Threads : (Running(t))' <=> Running(t)
    BY <1>7 DEF HolderLocks, Running
  <2>4. \A t \in Threads : Running(t) => BackendOf[taken[t]] \in Backends
    BY <1>2 DEF Running, Busy
  <2>5. QED
    BY <1>7, <2>1, <2>2, <2>3, <2>4 DEF HolderLocks, LockInv
<1>8. ASSUME NEW h \in Holders, HolderReleases(h) PROVE LockInv'
  <2>1. /\ \A t \in Threads : Running(t) => BackendOf[taken[t]] # hpc[h]
        /\ \A g \in Holders \ {h} : hpc[g] \in Backends => hpc[g] # hpc[h]
    BY <1>3, <1>8 DEF HolderReleases, LockInv
  <2>2. /\ \A d \in Backends : d # hpc[h] => lock'[d] = lock[d]
        /\ \A g \in Holders : hpc'[g] = IF g = h THEN "done" ELSE hpc[g]
    BY <1>1, <1>8 DEF HolderReleases
  <2>3. \A t \in Threads : (Running(t))' <=> Running(t)
    BY <1>8 DEF HolderReleases, Running
  <2>4. \A t \in Threads : Running(t) => BackendOf[taken[t]] \in Backends
    BY <1>2 DEF Running, Busy
  <2>5. QED
    BY <1>3, <1>8, <2>1, <2>2, <2>3, <2>4 DEF HolderReleases, LockInv
<1>9. QED
  BY <1>4, <1>5, <1>6, <1>7, <1>8, ConsumerFrame
     DEF Next, Terminated, PutTask, vars, lockVars, ThreadSide

(* BackendExclusive: two threads of a call, or a thread and a holder, are  *)
(* never inside the same backend.                                          *)
THEOREM BackendsExclusive == Spec => []BackendExclusive
<1>1. Init => LockInv
  BY CallAssumption DEF CallAssumption, Init, LockInv, Running
<1>2. IInv /\ LockInv /\ [Next]_vars => LockInv'
  BY LockNext
<1>3. IInv /\ LockInv => BackendExclusive
  <2> SUFFICES ASSUME IInv, LockInv, NEW t \in Threads, Running(t)
               PROVE  /\ \A u \in Threads \ {t} : Running(u) => BackendOf[taken[u]] # BackendOf[taken[t]]
                      /\ \A h \in Holders : hpc[h] # BackendOf[taken[t]]
    BY DEF BackendExclusive
  <2>1. Busy(t)
    BY DEF Running, Busy
  <2>2. BackendOf[taken[t]] \in Backends
    BY <2>1, CallAssumption, TypeParts
       DEF IInv, TasksInv, CtorType, CallAssumption, Tasks
  <2>3. t \notin Holders
    BY CallAssumption DEF CallAssumption, Threads
  <2>4. QED
    BY <2>2, <2>3 DEF LockInv
<1>4. QED
  BY <1>1, <1>2, <1>3, IInvHolds, PTL DEF Spec

-----------------------------------------------------------------------------
(* A task that stored a result after stop() has left the loop of           *)
(* backend_process() at its next look at the event.                        *)
LEMMA LateNext ==
  ASSUME IInv, LateInv, [Next]_vars
  PROVE  LateInv'
<1>1. /\ pc \in [Threads -> ThreadPC] /\ taken \in [Threads -> 0..N]
      /\ late \in [Tasks -> Nat]
  BY DEF IInv, TypeOK
<1>2. /\ \A t \in Threads : Busy(t) => taken[t] \in Tasks
      /\ \A t, u \in Threads : Busy(t) /\ Busy(u) /\ taken[t] = taken[u] => t = u
  BY CallAssumption, TypeParts DEF IInv, TasksInv, CtorType, CallAssumption, Tasks
<1>3. CASE UNCHANGED <<late, pc, taken>> /\ (stopped => stopped')
  BY <1>3 DEF LateInv, Busy
<1>4. CASE StartThread
  <2>1. /\ pc[started + 1] \in {"new", "get"} \/ Busy(started + 1)
        /\ started + 1 \in Threads
    BY <1>4, CallAssumption, TypeParts
       DEF StartThread, CtorType, IInv, Threads, CallAssumption, Busy
  <2>2. ~Busy(started + 1)
    <3>1. started + 1 > started
      BY CallAssumption, TypeParts DEF CtorType, IInv, CallAssumption
    <3>2. QED
      BY <2>1, <3>1 DEF IInv, NewInv, Busy
  <2>3. QED
    BY <1>1, <1>4, <2>1, <2>2 DEF StartThread, LateInv, Busy, lockVars, resultVars
<1>5. ASSUME NEW t \in Threads, Work(t) PROVE LateInv'
  <2>1. UNCHANGED stopped
    BY <1>5, WorkFrame
  <2>2. CASE TakeTask(t)
    <3>1. /\ Head(tasks) \in Tasks
          /\ \A u \in Threads : Busy(u) => taken[u] # Head(tasks)
      <4>1. tasks # <<>> /\ tasks \in Seq(Tasks)
        BY <2>2 DEF TakeTask, IInv, TypeOK
      <4>2. 1 \in DOMAIN tasks /\ Head(tasks) = tasks[1] /\ Head(tasks) \in Tasks
        BY <4>1
      <4>3. QED
        BY <4>2 DEF IInv, TasksInv
    <3>2. late[Head(tasks)] = 0
      BY <3>1 DEF LateInv, Tasks
    <3>3. /\ \A u \in Threads : taken'[u] = IF u = t THEN Head(tasks) ELSE taken[u]
          /\ \A u \in Threads : pc'[u] = IF u = t THEN "lock" ELSE pc[u]
          /\ late' = late /\ pc[t] = "get"
      BY <1>1, <2>2 DEF TakeTask, Goto, resultVars
    <3>4. QED
      BY <2>1, <3>1, <3>2, <3>3 DEF LateInv, Busy
  <2>3. CASE ~TakeTask(t)
    <3>1. /\ Busy(t) /\ UNCHANGED taken
      BY <1>5, <2>3 DEF Work, LockBackend, CallRaises, CallReturnsValue,
         CallReturnsIterable, CallExits, NextItem, IterationEnds, CheckStop,
         TaskDone, Release, Go, Goto, lockVars, Busy
    <3>2. PICK to \in ThreadPC \ {"new", "get"} : pc' = [pc EXCEPT ![t] = to]
      BY <1>5, <2>3 DEF Work, LockBackend, CallRaises, CallReturnsValue,
         CallReturnsIterable, CallExits, NextItem, IterationEnds, CheckStop,
         TaskDone, Release, Go, Goto, ThreadPC
    <3>3. /\ \A u \in Threads : pc'[u] = IF u = t THEN to ELSE pc[u]
          /\ \A u \in Threads : (Busy(u))' <=> Busy(u)
      BY <1>1, <3>1, <3>2 DEF Busy
    <3>4. CASE UNCHANGED late
      <4>1. to \in {"lock", "call", "iter"} => late[taken[t]] = 0
        <5>1. CASE CheckStop(t)
          BY <1>2, <3>1, <3>3, <5>1 DEF CheckStop, Go, Goto, LateInv
        <5>2. CASE ~CheckStop(t)
          BY <1>1, <1>5, <2>3, <3>3, <5>2 DEF Work, LockBackend, CallRaises,
             CallReturnsValue, CallReturnsIterable, CallExits, NextItem,
             IterationEnds, TaskDone, Release, Go, Goto, LateInv
        <5>3. QED
          BY <5>1, <5>2
      <4>2. QED
        BY <2>1, <3>1, <3>3, <3>4, <4>1 DEF LateInv
    <3>5. CASE late' # late
      <4>1. /\ StoreResult(taken[t]) /\ to \in {"done", "check"}
            /\ pc[t] \in {"call", "iter"}
        BY <1>1, <1>5, <2>3, <3>3, <3>5 DEF Work, LockBackend, CallRaises,
           CallReturnsValue, CallReturnsIterable, CallExits, NextItem, CheckStop,
           IterationEnds, TaskDone, Release, Go, Goto, DropNone, resultVars
      <4>2. late[taken[t]] = 0 /\ taken[t] \in Tasks
        BY <1>2, <3>1, <4>1 DEF LateInv
      <4>3. \A k \in Tasks : late'[k] = IF k = taken[t] /\ stopped THEN 1 ELSE late[k]
        BY <1>1, <4>1, <4>2 DEF StoreResult
      <4>4. ~stopped' => \A k \in Tasks : late'[k] = 0
        BY <2>1, <4>3 DEF LateInv
      <4>5. \A k \in Tasks : late'[k] <= 1
        BY <4>3 DEF LateInv
      <4>6. \A k \in 1..N : (\A u \in Threads : (Busy(u))' => taken'[u] # k) => late'[k] = 0
        BY <3>1, <3>3, <4>3 DEF LateInv, Tasks
      <4>7. \A u \in Threads : pc'[u] \in {"lock", "call", "iter"} => late'[taken'[u]] = 0
        <5> SUFFICES ASSUME NEW u \in Threads, pc'[u] \in {"lock", "call", "iter"}
                     PROVE  late'[taken[u]] = 0
          BY <3>1
        <5>1. u # t /\ pc[u] \in {"lock", "call", "iter"}
          BY <3>3, <4>1
        <5>2. Busy(u) /\ late[taken[u]] = 0
          BY <5>1 DEF Busy, LateInv
        <5>3. QED
          BY <1>2, <3>1, <4>3, <5>1, <5>2
      <4>8. QED
        BY <4>4, <4>5, <4>6, <4>7 DEF LateInv
    <3>6. QED
      BY <3>4, <3>5
  <2>4. QED
    BY <2>2, <2>3
<1>6. ASSUME NEW c \in Consumers, Begin(c) \/ Stop(c) \/ Consume(c) PROVE stopped => stopped'
  BY <1>6 DEF Begin, Stop, Consume, ReadStop, ReadUnfinished, ReadEmpty,
     GetResponse, GetTimesOut, Resume, CloseIterator, CallbackRaises,
     JoinThreads, RaiseErrors, ReadErrors, TestErrors, PopError, PopEmptyList, CallErrback,
     CallFinishback, Move
<1>7. QED
  BY <1>3, <1>4, <1>5, <1>6, ConsumerFrame, HolderFrame
     DEF Next, Terminated, PutTask, vars, lockVars, resultVars, ThreadSide

(* AtMostOneLate: after stop() each task stores at most one more result.   *)
THEOREM OneLateResult == Spec => []AtMostOneLate
<1>1. Init => LateInv
  BY CallAssumption DEF CallAssumption, Init, LateInv, Tasks
<1>2. IInv /\ LateInv /\ [Next]_vars => LateInv'
  BY LateNext
<1>3. LateInv => AtMostOneLate
  BY DEF LateInv, AtMostOneLate
<1>4. QED
  BY <1>1, <1>2, <1>3, IInvHolds, PTL DEF Spec
-----------------------------------------------------------------------------
(* No thread is in a function of a backend once a consumer is informed.    *)
LEMMA NobodyRaises ==
  ASSUME IInv, ErrorsInv, NEW c \in Consumers, Informed(c), NEW t \in Threads
  PROVE  pc[t] \notin {"call", "iter"}
<1>1. CASE c \in Waiters
  BY <1>1 DEF ErrorsInv, Informed, AllEnded
<1>2. CASE c \in Loopers /\ ~stopped
  <2>1. finished = Tasks
    BY <1>2 DEF Informed, IInv, LoopsInv, LeftLoop, ErrorsPC
  <2>2. QED
    BY <2>1, CallAssumption, TypeParts
       DEF IInv, TasksInv, Working, Busy, CtorType, CallAssumption, Tasks
<1>3. QED
  BY <1>1, <1>2 DEF Informed

(* An error that is raised is stored, and one taken from the list is       *)
(* reported; nobody who ended misses one.                                  *)
LEMMA ErrorsNext ==
  ASSUME IInv, ErrorsInv, [Next]_vars
  PROVE  ErrorsInv'
<1>1. /\ errors \in Seq(Tasks) /\ cpc \in [Consumers -> ConsumerPC]
      /\ pc \in [Threads -> ThreadPC] /\ taken \in [Threads -> 0..N]
  BY DEF IInv, TypeOK
<1>2. CASE UNCHANGED <<errorVars, consumerVars, stopped>> /\ (AllEnded => AllEnded')
  BY <1>2 DEF errorVars, consumerVars, ErrorsInv, Informed, Raised, InHands
<1>3. CASE StartThread
  <2>1. /\ \A c \in Consumers : cpc[c] = "idle"
        /\ UNCHANGED <<cpc, reported, popped, failed, errors>>
    BY <1>3, CallAssumption, TypeParts
       DEF StartThread, IInv, TasksInv, LoopsInv, Ready, CtorType, CallAssumption,
           consumerVars, errorVars
  <2>2. QED
    BY <2>1 DEF ErrorsInv, Informed, Raised, InHands
<1>4. ASSUME NEW t \in Threads, Work(t) PROVE ErrorsInv'
  <2>1. UNCHANGED <<consumerVars, stopped>>
    BY <1>4, WorkFrame
  <2>2. ~AllEnded
    BY <1>4 DEF AllEnded, Work, TakeTask, LockBackend, CallRaises,
       CallReturnsValue, CallReturnsIterable, CallExits, NextItem,
       IterationEnds, CheckStop, TaskDone, Release, Go, Goto
  <2>3. CASE CallRaises(t)
    <3>1. taken[t] \in Tasks /\ pc[t] \in {"call", "iter"}
      BY <2>3, CallAssumption, TypeParts
         DEF CallRaises, Goto, IInv, TasksInv, Busy, CtorType, CallAssumption, Tasks
    <3>2. /\ errors' = Append(errors, taken[t])
          /\ failed' = failed \cup {taken[t]}
      BY <2>3 DEF CallRaises, StoreError
    <3>3. Raised' = Raised \cup {taken[t]}
      <4> DEFINE k == taken[t]
      <4>1. errors \in Seq(Tasks)
        BY <1>1
      <4>2. k \in Tasks /\ errors' = Append(errors, k)
        BY <3>1, <3>2
      <4> HIDE DEF k
      <4>3. Raised' = Raised \cup {k}
        BY <4>1, <4>2, StoredAppend DEF Raised
      <4>4. QED
        BY <4>3 DEF k
    <3>4. \A c \in Consumers : ~Informed(c)
      BY <3>1, NobodyRaises
    <3>5. \A c \in Consumers : ~Informed(c)'
      BY <2>1, <3>4 DEF consumerVars, Informed
    <3>6. QED
      BY <2>1, <2>2, <3>2, <3>3, <3>5 DEF ErrorsInv, consumerVars, InHands
  <2>4. CASE ~CallRaises(t)
    <3>1. UNCHANGED errorVars
      BY <1>4, <2>4 DEF Work, TakeTask, LockBackend, CallReturnsValue,
         CallReturnsIterable, CallExits, NextItem, IterationEnds, CheckStop,
         TaskDone, Release, Go
    <3>2. QED
      BY <1>2, <2>1, <2>2, <3>1
  <2>5. QED
    BY <2>3, <2>4
<1>5. ASSUME NEW c \in Consumers, Begin(c) \/ Stop(c) \/ Consume(c)
      PROVE  ErrorsInv'
  <2>1. UNCHANGED <<failed, pc>>
    BY <1>5, ConsumerFrame DEF ThreadSide
  <2>2. PICK from \in ConsumerPC, to \in ConsumerPC : Step(c, from, to)
    BY <1>5 DEF Begin, Stop, Consume, ReadStop, ReadUnfinished, ReadEmpty,
      GetResponse, GetTimesOut, Resume, CloseIterator, CallbackRaises,
      JoinThreads, RaiseErrors, ReadErrors, TestErrors, PopError, PopEmptyList, CallErrback,
      CallFinishback, Move, ConsumerPC, EndPC, LooperPC, ErrorsPC
  <2>3. \A d \in Consumers : cpc'[d] = IF d = c THEN to ELSE cpc[d]
    BY <1>1, <2>2 DEF Step
  <2>4. /\ failed \subseteq reported' \cup InHands' \cup Raised'
        /\ reported \cup InHands \subseteq reported' \cup InHands'
    <3>1. CASE PopError(c)
      <4>1. /\ errors # <<>> /\ errors' = Tail(errors) /\ reported' = reported
            /\ popped' = [popped EXCEPT ![c] = Head(errors)]
            /\ cpc[c] = "pop" /\ Head(errors) \in Tasks
        BY <1>1, <3>1 DEF PopError, Step
      <4>2. Raised = {Head(errors)} \cup Raised'
        <5>1. Raised = {Head(errors)} \cup {Tail(errors)[i] : i \in DOMAIN Tail(errors)}
          BY <1>1, <4>1, StoredTail DEF Raised
        <5>2. QED
          BY <4>1, <5>1 DEF Raised
      <4>3. c \in Callbacks /\ popped[c] = 0 /\ popped \in [Callbacks -> 0..N]
        BY <4>1 DEF IInv, PoppedInv, TypeOK, ErrorsInv
      <4>4. InHands' = InHands \cup {Head(errors)}
        <5>1. Head(errors) # 0
          BY <4>1, CallAssumption DEF CallAssumption, Tasks
        <5> QED
          BY <4>1, <4>3, <5>1 DEF InHands
      <4>5. QED
        BY <4>1, <4>2, <4>4 DEF ErrorsInv
    <3>2. CASE CallErrback(c)
      <4>1. /\ errors' = errors /\ reported' = reported \cup {popped[c]}
            /\ popped' = [popped EXCEPT ![c] = 0] /\ cpc[c] = "errback"
        BY <3>2 DEF CallErrback, Step
      <4>2. c \in Callbacks /\ popped \in [Callbacks -> 0..N]
        BY <4>1 DEF IInv, PoppedInv, TypeOK
      <4>3. InHands \subseteq InHands' \cup {popped[c]}
        BY <4>1, <4>2 DEF InHands
      <4>4. QED
        BY <4>1, <4>3 DEF ErrorsInv, Raised
    <3>3. CASE ~PopError(c) /\ ~CallErrback(c)
      <4>1. errors' = errors /\ popped' = popped /\ reported \subseteq reported'
        BY <1>5, <3>3 DEF Begin, Stop, Consume, ReadStop, ReadUnfinished,
           ReadEmpty, GetResponse, GetTimesOut, Resume, CloseIterator,
           CallbackRaises, JoinThreads, RaiseErrors, ReadErrors, TestErrors,
           PopEmptyList, CallFinishback, Move
      <4>2. QED
        BY <4>1 DEF ErrorsInv, Raised, InHands
    <3>4. QED
      BY <3>1, <3>2, <3>3
  <2>5. /\ c \notin Callbacks => to # "finishback"
        /\ c \in Callbacks => to \notin {"raise", "raised"}
        /\ c \in Waiters => to \in {"idle", "join"} \/ AllEnded
    BY <1>1, <1>5, <2>2, CallAssumption DEF CallAssumption, ErrorsInv, Loopers,
       LooperPC, Begin, Stop, Consume, ReadStop, ReadUnfinished, ReadEmpty,
       GetResponse, GetTimesOut, Resume, CloseIterator, CallbackRaises,
       JoinThreads, RaiseErrors, ReadErrors, TestErrors, PopError, PopEmptyList, CallErrback,
       CallFinishback, Move, Step, AllEnded
  <2>6. stopped => stopped'
    BY <1>5 DEF Begin, Stop, Consume, ReadStop, ReadUnfinished, ReadEmpty,
       GetResponse, GetTimesOut, Resume, CloseIterator, CallbackRaises,
       JoinThreads, RaiseErrors, ReadErrors, TestErrors, PopError, PopEmptyList, CallErrback,
       CallFinishback, Move
  <2>7. ASSUME Informed(c)' PROVE failed \subseteq reported' \cup InHands'
    <3>1. c \notin Stoppers
      BY <2>7, CallAssumption DEF CallAssumption, Informed
    <3>2. to \in {"finishback", "returned", "raised"} /\ (c \in Callbacks => HasErrback)
      BY <2>3, <2>7 DEF Informed
    <3>3. \/ RaiseErrors(c)
          \/ TestErrors(c) /\ errors = <<>>
          \/ ReadErrors(c) /\ errors = <<>>
          \/ CallFinishback(c)
      BY <1>1, <1>5, <2>2, <3>1, <3>2 DEF Begin, Stop, Consume, ReadStop,
         ReadUnfinished, ReadEmpty, GetResponse, GetTimesOut, Resume,
         CloseIterator, CallbackRaises, JoinThreads, ReadErrors, TestErrors, RaiseErrors,
         PopError, PopEmptyList, CallErrback, CallFinishback, Move, Step
    <3>4. CASE RaiseErrors(c)
      BY <2>1, <3>4 DEF RaiseErrors, ErrorsInv, InHands
    <3>5. CASE (TestErrors(c) \/ ReadErrors(c)) /\ errors = <<>>
      BY <2>4, <3>5 DEF Raised, TestErrors, ReadErrors, Move
    <3>6. CASE CallFinishback(c)
      <4>1. cpc[c] = "finishback" /\ c \in Callbacks
        BY <3>6 DEF CallFinishback, Move, Step, ErrorsInv
      <4>2. Informed(c)
        BY <2>6, <2>7, <3>2, <4>1 DEF Informed
      <4>3. QED
        BY <2>4, <4>2 DEF ErrorsInv
    <3>7. QED
      BY <3>3, <3>4, <3>5, <3>6
  <2>8. ASSUME NEW d \in Consumers, d # c, Informed(d)'
        PROVE  failed \subseteq reported' \cup InHands'
    <3>1. Informed(d)
      BY <2>3, <2>6, <2>8 DEF Informed
    <3>2. QED
      BY <2>4, <3>1 DEF ErrorsInv
  <2>9. AllEnded' <=> AllEnded
    BY <2>1 DEF AllEnded
  <2>10. QED
    BY <2>1, <2>3, <2>4, <2>5, <2>7, <2>8, <2>9 DEF ErrorsInv
<1>6. QED
  BY <1>2, <1>3, <1>4, <1>5, HolderFrame
     DEF Next, Terminated, PutTask, vars, AllEnded

(* NoLostError: when wait() ends, or a loop that nobody stopped, every     *)
(* exception a backend raised has reached the program or is in the hands   *)
(* of a callback thread, whoever else pops the errors.                     *)
THEOREM ErrorsNotLost == Spec => []NoLostError
<1>1. Init => ErrorsInv
  BY DEF Init, ErrorsInv, Informed, Raised, InHands
<1>2. IInv /\ ErrorsInv /\ [Next]_vars => ErrorsInv'
  BY ErrorsNext
<1>3. ErrorsInv => NoLostError
  <2> SUFFICES ASSUME ErrorsInv, NEW c \in Consumers, Over(c),
                      Joined(c) \/ (c \in Loopers /\ ~stopped),
                      c \in Callbacks => HasErrback
               PROVE  failed \subseteq reported \cup InHands
    BY DEF NoLostError
  <2>1. Informed(c)
    BY DEF Informed, ErrorsInv, Over, Joined
  <2>2. QED
    BY <2>1 DEF ErrorsInv
<1>4. QED
  BY <1>1, <1>2, <1>3, IInvHolds, PTL DEF Spec

-----------------------------------------------------------------------------
LEMMA ResponseParts ==
  ASSUME NEW r \in Response
  PROVE  r.task \in Tasks /\ r.item \in Nat
BY CallAssumption DEF Response, CallAssumption

(* A value that is stored is numbered after all the others of its task.    *)
LEMMA StoreFresh ==
  ASSUME IInv, OrderInv, NEW k \in Tasks, StoreResult(k)
  PROVE  \E r \in Response :
           /\ r.task = k /\ \A q \in produced : q.task = k => q.item < r.item
           /\ responses' = Append(responses, r) /\ produced' = produced \cup {r}
           /\ Stored' = Stored \cup {r} /\ drawn'[k] = r.item
           /\ \A l \in Tasks : drawn'[l] >= drawn[l]
<1>1. /\ responses \in Seq(Response) /\ produced \subseteq Response
      /\ drawn \in [Tasks -> 0..MaxItems]
  BY DEF IInv, TypeOK
<1> DEFINE r == [task |-> k, item |-> drawn[k] + 1]
<1>2. /\ responses' = Append(responses, r) /\ produced' = produced \cup {r}
      /\ drawn' = [drawn EXCEPT ![k] = @ + 1] /\ drawn[k] < MaxItems
  BY DEF StoreResult
<1>3. r \in Response /\ r.task = k /\ r.item = drawn[k] + 1
  BY <1>1, <1>2, CallAssumption DEF CallAssumption, Response
<1> HIDE DEF r
<1>4. Stored' = Stored \cup {r}
  <2>1. responses' = Append(responses, r) /\ responses \in Seq(Response) /\ r \in Response
    BY <1>1, <1>2, <1>3
  <2>2. {Append(responses, r)[i] : i \in DOMAIN Append(responses, r)}
          = {responses[i] : i \in DOMAIN responses} \cup {r}
    BY <2>1, StoredAppend
  <2>3. QED
    BY <2>1, <2>2 DEF Stored
<1>5. drawn'[k] = r.item /\ \A l \in Tasks : drawn'[l] >= drawn[l]
  BY <1>1, <1>2, <1>3, CallAssumption DEF CallAssumption
<1>6. ASSUME NEW q \in produced, q.task = k PROVE q.item < r.item
  BY <1>1, <1>3, <1>6, CallAssumption, ResponseParts DEF CallAssumption, OrderInv
<1>7. QED
  BY <1>2, <1>3, <1>4, <1>5, <1>6

(* The response that a consumer gets comes before those that stay.         *)
LEMMA GetFirst ==
  ASSUME IInv, OrderInv, NEW c \in Consumers, GetResponse(c)
  PROVE  /\ Head(responses) \in Stored
         /\ delivered' = delivered \cup {Head(responses)}
         /\ Stored = {Head(responses)} \cup Stored'
         /\ \A r \in Stored' : r.task = Head(responses).task => Head(responses).item < r.item
<1>1. responses \in Seq(Response)
  BY DEF IInv, TypeOK
<1>2. /\ responses # <<>> /\ responses' = Tail(responses)
      /\ delivered' = delivered \cup {Head(responses)}
  BY Handed DEF GetResponse, IInv
<1>3. Stored = {Head(responses)} \cup {Tail(responses)[i] : i \in DOMAIN Tail(responses)}
  BY <1>1, <1>2, StoredTail DEF Stored
<1>4. Stored = {Head(responses)} \cup Stored'
  BY <1>2, <1>3 DEF Stored
<1>5. ASSUME NEW r \in Stored', r.task = Head(responses).task
      PROVE  Head(responses).item < r.item
  <2>1. PICK i \in DOMAIN responses' : r = responses'[i]
    BY DEF Stored
  <2>2. /\ 1 \in DOMAIN responses /\ i + 1 \in DOMAIN responses /\ 1 < i + 1
        /\ Head(responses) = responses[1] /\ r = responses[i + 1]
    BY <1>1, <1>2, <2>1
  <2>3. QED
    BY <1>5, <2>2 DEF OrderInv
<1>6. QED
  BY <1>2, <1>4, <1>5

LEMMA OrderNext ==
  ASSUME IInv, OrderInv, [Next]_vars
  PROVE  OrderInv'
<1>1. /\ responses \in Seq(Response) /\ produced \subseteq Response
      /\ delivered \subseteq produced /\ Stored \subseteq produced
      /\ drawn \in [Tasks -> 0..MaxItems]
  BY DEF IInv, TypeOK, ResultsInv
<1>2. ASSUME UNCHANGED <<responses, handed, produced>>,
             \A l \in Tasks : drawn'[l] >= drawn[l] /\ drawn'[l] \in Nat
      PROVE  OrderInv'
  <2>1. \A r \in produced' : r.item <= drawn'[r.task]
    <3> SUFFICES ASSUME NEW r \in produced PROVE r.item <= drawn'[r.task]
      BY <1>2
    <3>1. r.task \in Tasks /\ r.item \in Nat /\ r.item <= drawn[r.task]
      BY <1>1, ResponseParts DEF OrderInv
    <3>2. QED
      BY <1>1, <1>2, <3>1, CallAssumption DEF CallAssumption
  <2>2. QED
    BY <1>2, <2>1 DEF OrderInv, Stored, delivered
<1>3. ASSUME NEW k \in Tasks, StoreResult(k), UNCHANGED handed
      PROVE  OrderInv'
  <2>1. PICK r \in Response :
           /\ r.task = k /\ \A q \in produced : q.task = k => q.item < r.item
           /\ responses' = Append(responses, r) /\ produced' = produced \cup {r}
           /\ Stored' = Stored \cup {r} /\ drawn'[k] = r.item
           /\ \A l \in Tasks : drawn'[l] >= drawn[l]
    BY <1>3, StoreFresh
  <2>2. ASSUME NEW i \in DOMAIN responses', NEW j \in DOMAIN responses', i < j,
               responses'[i].task = responses'[j].task
        PROVE  responses'[i].item < responses'[j].item
    <3>1. i \in DOMAIN responses /\ responses'[i] = responses[i]
      BY <1>1, <2>1, <2>2
    <3>2. CASE j \in DOMAIN responses
      BY <1>1, <2>1, <2>2, <3>1, <3>2 DEF OrderInv
    <3>3. CASE j \notin DOMAIN responses
      <4>1. responses'[j] = r
        BY <1>1, <2>1, <2>2, <3>3
      <4>2. responses[i] \in Stored
        BY <3>1 DEF Stored
      <4>3. QED
        BY <1>1, <2>1, <2>2, <3>1, <4>1, <4>2
    <3>4. QED
      BY <3>2, <3>3
  <2>3. ASSUME NEW d \in delivered', NEW q \in Stored', d.task = q.task
        PROVE  d.item < q.item
    BY <1>1, <1>3, <2>1, <2>3 DEF OrderInv, delivered
  <2>4. ASSUME NEW q \in produced' PROVE q.item <= drawn'[q.task]
    <3>1. CASE q = r
      BY <2>1, <3>1, ResponseParts
    <3>2. CASE q \in produced
      <4>1. q.task \in Tasks /\ q.item \in Nat /\ q.item <= drawn[q.task]
        BY <1>1, <3>2, ResponseParts DEF OrderInv
      <4>2. drawn'[q.task] >= drawn[q.task] /\ drawn[q.task] \in Nat
        BY <1>1, <2>1, <4>1, CallAssumption DEF CallAssumption
      <4>3. drawn'[q.task] \in Nat
        BY <1>1, <1>3, <4>1, CallAssumption DEF CallAssumption, StoreResult
      <4>4. QED
        BY <4>1, <4>2, <4>3
    <3>3. QED
      BY <2>1, <3>1, <3>2
  <2>5. QED
    BY <2>2, <2>3, <2>4 DEF OrderInv
<1>4. ASSUME NEW c \in Consumers, GetResponse(c)
      PROVE  OrderInv'
  <2>1. UNCHANGED <<produced, drawn>> /\ responses' = Tail(responses) /\ responses # <<>>
    BY <1>4 DEF GetResponse, ThreadSide
  <2>2. ASSUME NEW i \in DOMAIN responses', NEW j \in DOMAIN responses', i < j,
               responses'[i].task = responses'[j].task
        PROVE  responses'[i].item < responses'[j].item
    <3>1. /\ i + 1 \in DOMAIN responses /\ j + 1 \in DOMAIN responses
          /\ i + 1 < j + 1
          /\ responses'[i] = responses[i + 1] /\ responses'[j] = responses[j + 1]
      BY <1>1, <2>1, <2>2
    <3>2. QED
      BY <2>2, <3>1 DEF OrderInv
  <2>3. ASSUME NEW d \in delivered', NEW q \in Stored', d.task = q.task
        PROVE  d.item < q.item
    BY <1>4, <2>3, GetFirst DEF OrderInv
  <2>4. QED
    BY <2>1, <2>2, <2>3 DEF OrderInv
<1>5. ASSUME UNCHANGED <<responses, handed, produced, drawn>>
      PROVE  OrderInv'
  BY <1>5 DEF OrderInv, Stored, delivered
<1>6. ASSUME NEW t \in Threads, Work(t)
      PROVE  OrderInv'
  <2>1. UNCHANGED handed
    BY <1>6, WorkFrame DEF consumerVars
  <2>2. \/ UNCHANGED <<responses, produced, drawn>>
        \/ pc[t] \in {"call", "iter"} /\ (StoreResult(taken[t]) \/ DropNone(taken[t]))
    BY <1>6 DEF Work, TakeTask, LockBackend, CallRaises, CallReturnsValue,
       CallReturnsIterable, CallExits, NextItem, IterationEnds, CheckStop,
       TaskDone, Release, Go, Goto, resultVars
  <2>3. pc[t] \in {"call", "iter"} => taken[t] \in Tasks
    BY CallAssumption, TypeParts
       DEF IInv, TasksInv, Busy, CtorType, CallAssumption, Tasks
  <2>4. CASE DropNone(taken[t]) /\ taken[t] \in Tasks
    <3>1. \A l \in Tasks : drawn'[l] >= drawn[l] /\ drawn'[l] \in Nat
      BY <1>1, <2>4, CallAssumption DEF DropNone, CallAssumption
    <3>2. QED
      BY <1>2, <2>1, <2>4, <3>1 DEF DropNone
  <2>5. QED
    BY <1>3, <1>5, <2>1, <2>2, <2>3, <2>4
<1>7. ASSUME NEW c \in Consumers, Begin(c) \/ Stop(c) \/ Consume(c), ~GetResponse(c)
      PROVE  UNCHANGED <<responses, handed, produced, drawn>>
  BY <1>7, ConsumerFrame DEF ThreadSide, Begin, Stop, Consume, ReadStop,
     ReadUnfinished, ReadEmpty, GetTimesOut, Resume, CloseIterator,
     CallbackRaises, JoinThreads, RaiseErrors, ReadErrors, TestErrors, PopError,
     PopEmptyList, CallErrback, CallFinishback, Move
<1>8. QED
  BY <1>4, <1>5, <1>6, <1>7, HolderFrame
     DEF Next, Terminated, StartThread, PutTask, vars, resultVars, consumerVars

LEMMA OrderInvHolds == Spec => [](IInv /\ OrderInv)
<1>1. Init => OrderInv
  BY DEF Init, OrderInv, Stored, delivered, Response
<1>2. IInv /\ OrderInv /\ [Next]_vars => OrderInv'
  BY OrderNext
<1>3. QED
  BY <1>1, <1>2, IInvHolds, PTL DEF Spec

(* Only get() hands a response out.                                        *)
LEMMA HandedByGet ==
  ASSUME [Next]_vars, handed' # handed
  PROVE  \E c \in Consumers : GetResponse(c)
<1>1. ASSUME NEW t \in Threads, Work(t) PROVE handed' = handed
  BY <1>1, WorkFrame DEF consumerVars
<1>2. ASSUME NEW c \in Consumers, Begin(c) \/ Stop(c) \/ Consume(c), ~GetResponse(c)
      PROVE  handed' = handed
  BY <1>2 DEF Begin, Stop, Consume, ReadStop, ReadUnfinished, ReadEmpty,
     GetTimesOut, Resume, CloseIterator, CallbackRaises, JoinThreads, RaiseErrors,
     ReadErrors, TestErrors, PopError, PopEmptyList, CallErrback, CallFinishback, Move
<1>3. QED
  BY <1>1, <1>2, HolderFrame
     DEF Next, Terminated, StartThread, PutTask, vars, consumerVars

(* OnceInOrder: whichever consumers share the queue, each result is handed *)
(* out once, after all the earlier ones of its backend.                    *)
THEOREM GivenOnceInOrder == Spec => []OnceInOrder
<1>1. Init => OnceInOrder
  BY DEF Init, OnceInOrder
<1>2. ASSUME IInv, OrderInv, OnceInOrder, [Next]_vars
      PROVE  OnceInOrder'
  <2>1. CASE handed' = handed
    BY <1>2, <2>1 DEF OnceInOrder
  <2>2. CASE handed' # handed
    <3>1. PICK c \in Consumers : GetResponse(c)
      BY <1>2, <2>2, HandedByGet
    <3> DEFINE r == Head(responses)
    <3>2. r \in Stored /\ r \in Response /\ Hand(r)
      BY <1>2, <3>1, GetFirst, Handed DEF IInv
    <3> HIDE DEF r
    <3>3. /\ handed \in [Tasks -> Seq(1..MaxItems)] /\ r.task \in Tasks /\ r.item \in Nat
          /\ handed' = [handed EXCEPT ![r.task] = Append(@, r.item)]
      BY <1>2, <3>2, ResponseParts DEF IInv, TypeOK, Hand
    <3>4. \A i \in DOMAIN handed[r.task] : handed[r.task][i] < r.item
      <4> SUFFICES ASSUME NEW i \in DOMAIN handed[r.task] PROVE handed[r.task][i] < r.item
        OBVIOUS
      <4> DEFINE d == [task |-> r.task, item |-> handed[r.task][i]]
      <4>1. handed[r.task] \in Seq(1..MaxItems)
        BY <3>3
      <4>2. handed[r.task][i] \in 1..MaxItems
        <5> DEFINE s == handed[r.task]
                   S == 1..MaxItems
        <5>1. s \in Seq(S) /\ i \in DOMAIN s
          BY <4>1
        <5> HIDE DEF s, S
        <5>2. s[i] \in S
          BY <5>1
        <5> QED
          BY <5>2 DEF s, S
      <4>3. d \in Response /\ d.task = r.task /\ d.item = handed[r.task][i]
        BY <3>3, <4>2 DEF Response
      <4> HIDE DEF d
      <4>4. d \in delivered
        BY <4>3 DEF delivered
      <4> QED
        BY <1>2, <3>2, <4>3, <4>4 DEF OrderInv
    <3> SUFFICES ASSUME NEW k \in Tasks, NEW i \in DOMAIN handed'[k],
                        NEW j \in DOMAIN handed'[k], i < j
                 PROVE  handed'[k][i] < handed'[k][j]
      BY DEF OnceInOrder
    <3>5. CASE k # r.task
      BY <1>2, <3>3, <3>5 DEF OnceInOrder
    <3>6. CASE k = r.task
      <4> DEFINE s == handed[k]
      <4>1. s \in Seq(1..MaxItems) /\ handed'[k] = Append(s, r.item)
        BY <3>3, <3>6
      <4>2. /\ \A m, n \in DOMAIN s : m < n => s[m] < s[n]
            /\ \A m \in DOMAIN s : s[m] < r.item
        BY <1>2, <3>4, <3>6 DEF OnceInOrder
      <4> HIDE DEF s
      <4>3. i \in DOMAIN s /\ Append(s, r.item)[i] = s[i]
        BY <4>1
      <4>4. CASE j \in DOMAIN s
        BY <4>1, <4>2, <4>3, <4>4
      <4>5. CASE j \notin DOMAIN s
        <5>1. Append(s, r.item)[j] = r.item
          BY <3>3, <4>1, <4>5
        <5> QED
          BY <4>1, <4>2, <4>3, <5>1
      <4> QED
        BY <4>4, <4>5
    <3> QED
      BY <3>5, <3>6
  <2>3. QED
    BY <2>1, <2>2
<1>3. QED
  BY <1>1, <1>2, OrderInvHolds, PTL DEF Spec

-----------------------------------------------------------------------------
(* The refinement.                                                         *)

LEMMA StreamFrame ==
  ASSUME UNCHANGED <<finished, responses, handed, stopped>>,
         \A c \in Loopers : LeftLoop(c)' <=> LeftLoop(c)
  PROVE  UNCHANGED Stream!vars
BY DEF Stream!vars, Stored, delivered

(* What a thread does is to store a value, to be done with its task, or    *)
(* nothing that the stream shows.                                          *)
LEMMA StreamWork ==
  ASSUME IInv, OrderInv, NEW t \in Threads, Work(t)
  PROVE  Stream!Next \/ UNCHANGED Stream!vars
<1>1. UNCHANGED <<cpc, handed, stopped>>
  BY WorkFrame DEF consumerVars
<1>2. \A c \in Loopers : LeftLoop(c)' <=> LeftLoop(c)
  BY <1>1 DEF LeftLoop
<1>3. Working(t) => taken[t] \in Tasks \ finished
  BY CallAssumption, TypeParts
     DEF IInv, TasksInv, Working, Busy, CtorType, CallAssumption, Tasks
<1>4. CASE TaskDone(t)
  <2>1. taken[t] \in Tasks \ finished
    BY <1>3, <1>4 DEF TaskDone, Goto, Working, Busy
  <2>2. finished' = finished \cup {taken[t]} /\ UNCHANGED responses
    BY <1>4 DEF TaskDone, resultVars
  <2>3. Stream!Close(taken[t])
    BY <1>1, <1>2, <2>1, <2>2 DEF Stream!Close, Stored, delivered
  <2>4. QED
    BY <2>1, <2>3 DEF Stream!Next
<1>5. CASE ~TaskDone(t)
  <2>1. UNCHANGED finished
    BY <1>5 DEF Work, TakeTask, LockBackend, CallRaises, CallReturnsValue,
       CallReturnsIterable, CallExits, NextItem, IterationEnds, CheckStop,
       Release, Go, queueVars
  <2>2. \/ UNCHANGED responses
        \/ pc[t] \in {"call", "iter"} /\ StoreResult(taken[t])
    BY DEF Work, TakeTask, LockBackend, CallRaises, CallReturnsValue,
       CallReturnsIterable, CallExits, NextItem, IterationEnds, CheckStop,
       TaskDone, Release, Go, Goto, resultVars, DropNone
  <2>3. ASSUME pc[t] \in {"call", "iter"}, StoreResult(taken[t])
        PROVE  Stream!Next
    <3>1. taken[t] \in Tasks \ finished
      BY <1>3, <2>3 DEF Working, Busy
    <3>2. PICK r \in Response :
             /\ r.task = taken[t] /\ \A q \in produced : q.task = taken[t] => q.item < r.item
             /\ Stored' = Stored \cup {r}
      BY <2>3, <3>1, StoreFresh
    <3>3. r \notin produced
      BY <3>2, ResponseParts
    <3>4. r \notin Stored \cup delivered
      BY <3>3 DEF IInv, ResultsInv
    <3>5. Stream!Store(r)
      BY <1>1, <1>2, <2>1, <3>1, <3>2, <3>4 DEF Stream!Store, delivered
    <3>6. QED
      BY <3>5 DEF Stream!Next
  <2>4. QED
    BY <1>1, <1>2, <2>1, <2>2, <2>3, StreamFrame
<1>6. QED
  BY <1>4, <1>5

(* What a consumer does is to get a value, to halt the stream, to leave    *)
(* its loop when that is halted or over, or nothing that the stream shows. *)
LEMMA StreamConsume ==
  ASSUME IInv, OrderInv, NEW c \in Consumers, Begin(c) \/ Stop(c) \/ Consume(c)
  PROVE  Stream!Next \/ UNCHANGED Stream!vars
<1>1. UNCHANGED finished /\ cpc \in [Consumers -> ConsumerPC]
  BY ConsumerFrame DEF ThreadSide, queueVars, IInv, TypeOK
<1>2. PICK from \in ConsumerPC, to \in ConsumerPC : Step(c, from, to)
  BY DEF Begin, Stop, Consume, ReadStop, ReadUnfinished, ReadEmpty,
    GetResponse, GetTimesOut, Resume, CloseIterator, CallbackRaises,
    JoinThreads, RaiseErrors, ReadErrors, TestErrors, PopError, PopEmptyList, CallErrback,
    CallFinishback, Move, ConsumerPC, EndPC, LooperPC, ErrorsPC
<1>3. cpc[c] = from /\ \A d \in Consumers : cpc'[d] = IF d = c THEN to ELSE cpc[d]
  BY <1>1, <1>2 DEF Step
<1>4. \A d \in Loopers : d # c => (LeftLoop(d)' <=> LeftLoop(d))
  BY <1>3 DEF LeftLoop, Consumers
<1>5. CASE GetResponse(c)
  <2>1. ~LeftLoop(c) /\ ~LeftLoop(c)'
    BY <1>1, <1>5 DEF GetResponse, Step, LeftLoop, ErrorsPC
  <2>2. Head(responses) \in Stored /\ Head(responses) \notin Stored'
    <3>1. Head(responses) \in Stored /\ Stored \subseteq Response
      BY <1>5, GetFirst DEF IInv, ResultsInv, TypeOK
    <3>2. Head(responses).item \in Nat
      BY <3>1, ResponseParts
    <3>3. QED
      BY <1>5, <3>1, <3>2, GetFirst
  <2>3. /\ Stored' = Stored \ {Head(responses)}
        /\ delivered' = delivered \cup {Head(responses)}
        /\ stopped' = stopped
    BY <1>5, <2>2, GetFirst DEF GetResponse
  <2>4. Stream!Give(Head(responses)) /\ Head(responses) \in Response
    BY <1>1, <1>4, <2>1, <2>2, <2>3 DEF Stream!Give, IInv, ResultsInv, TypeOK
  <2>5. QED
    BY <2>4 DEF Stream!Next
<1>6. CASE Stop(c) \/ CloseIterator(c)
  <2>1. UNCHANGED <<responses, handed>> /\ stopped' = TRUE
    BY <1>6 DEF Stop, CloseIterator
  <2>2. ~LeftLoop(c) /\ ~LeftLoop(c)'
    BY <1>1, <1>6, CallAssumption
       DEF CallAssumption, Stop, CloseIterator, Step, LeftLoop, ErrorsPC
  <2>3. Stream!Halt
    BY <1>1, <1>4, <2>1, <2>2 DEF Stream!Halt, Stored, delivered
  <2>4. QED
    BY <2>3 DEF Stream!Next
<1>7. CASE ~GetResponse(c) /\ ~Stop(c) /\ ~CloseIterator(c)
  <2>1. UNCHANGED <<responses, handed, stopped>>
    BY <1>7 DEF Begin, Consume, ReadStop, ReadUnfinished, ReadEmpty,
       GetTimesOut, Resume, CallbackRaises, JoinThreads, RaiseErrors,
       ReadErrors, TestErrors, PopError, PopEmptyList, CallErrback, CallFinishback, Move
  <2>2. CASE c \in Loopers => (LeftLoop(c)' <=> LeftLoop(c))
    BY <1>1, <1>4, <2>1, <2>2, StreamFrame
  <2>3. CASE c \in Loopers /\ ~(LeftLoop(c)' <=> LeftLoop(c))
    <3>1. ReadStop(c) \/ ReadEmpty(c)
      BY <1>1, <1>7, <2>3, CallAssumption
         DEF CallAssumption, Begin, Consume, ReadUnfinished, GetTimesOut, Resume,
             CallbackRaises, JoinThreads, RaiseErrors, ReadErrors, TestErrors, PopError,
             PopEmptyList, CallErrback, CallFinishback, Move, Step, LeftLoop, ErrorsPC, IInv,
             LoopsInv
    <3>2. LeftLoop(c)' /\ (stopped \/ (finished = Tasks /\ responses = <<>>))
      BY <1>1, <2>3, <3>1 DEF ReadStop, ReadEmpty, Move, Step, LeftLoop, ErrorsPC,
         IInv, LoopsInv
    <3>3. Stream!End(c)
      BY <1>1, <1>4, <2>1, <2>3, <3>2 DEF Stream!End, Stored, delivered
    <3>4. QED
      BY <2>3, <3>3 DEF Stream!Next
  <2>4. QED
    BY <2>2, <2>3
<1>8. QED
  BY <1>5, <1>6, <1>7

(* IsResultStream: however many consumers share a call and stop it, the    *)
(* call is the stream of results that it promises.                         *)
THEOREM ImplementsResultStream == Spec => IsResultStream
<1>1. Init => Stream!Init
  BY DEF Init, Stream!Init, Stored, delivered, LeftLoop, ErrorsPC, Consumers, Response
<1>2. ASSUME IInv, OrderInv, [Next]_vars
      PROVE  [Stream!Next]_(Stream!vars)
  <2>1. ASSUME UNCHANGED <<finished, responses, consumerVars, stopped>>
        PROVE  UNCHANGED Stream!vars
    BY <2>1, StreamFrame DEF consumerVars, LeftLoop
  <2>2. QED
    BY <1>2, <2>1, StreamWork, StreamConsume, HolderFrame
       DEF Next, Terminated, StartThread, PutTask, vars, queueVars, resultVars
<1>3. QED
  BY <1>1, <1>2, OrderInvHolds, PTL DEF Spec, IsResultStream, Stream!Spec

-----------------------------------------------------------------------------
(* Nobody waits for what cannot come.  Every task that was queued is in    *)
(* the queue or was taken, and a backend is locked by who is inside it.    *)
StartedInv == \A t \in Threads : t <= started => pc[t] # "new"

TakenInv ==
  \A k \in 1..built : \/ \E i \in DOMAIN tasks : tasks[i] = k
                      \/ \E t \in Threads : Busy(t) /\ taken[t] = k

Inside(b) == \/ \E u \in Threads : Running(u) /\ BackendOf[taken[u]] = b
             \/ \E h \in Holders : hpc[h] = b

OwnerInv == \A b \in Backends : lock[b] = Free \/ Inside(b)

WaitInv == StartedInv /\ TakenInv /\ OwnerInv

(* Once the constructor returned, there is a task in the queue for a       *)
(* thread that still waits for one, whichever thread took whichever task,  *)
(* and a thread that waits for a backend waits for somebody who is inside  *)
(* it and holds no other (bcall.py:87-93): no thread is stuck for good.    *)
NoThreadStuck ==
  \A t \in Threads :
    /\ Ready => pc[t] # "new" /\ (pc[t] = "get" => tasks # <<>>)
    /\ pc[t] = "lock" => lock[BackendOf[taken[t]]] = Free \/ Inside(BackendOf[taken[t]])

LEMMA OneThread ==   \* what a step of a thread does to the others
  ASSUME TypeOK, NEW t \in Threads, Work(t)
  PROVE  /\ pc[t] # "new" /\ pc'[t] # "new" /\ pc'[t] # "get" /\ pc[t] # "end"
         /\ \A u \in Threads \ {t} : pc'[u] = pc[u] /\ taken'[u] = taken[u]
         /\ pc[t] # "get" => taken' = taken /\ tasks' = tasks
<1>1. \E to \in ThreadPC \ {"new", "get"} : pc' = [pc EXCEPT ![t] = to]
  BY DEF Work, TakeTask, LockBackend, CallRaises, CallReturnsValue, CallReturnsIterable, CallExits,
     NextItem, IterationEnds, CheckStop, TaskDone, Release, Go, Goto, ThreadPC
<1>2. pc[t] \notin {"new", "end"}
  BY DEF Work, TakeTask, LockBackend, CallRaises, CallReturnsValue, CallReturnsIterable, CallExits,
     NextItem, IterationEnds, CheckStop, TaskDone, Release, Go, Goto
<1>3. IF TakeTask(t) THEN pc[t] = "get" /\ \E k : taken' = [taken EXCEPT ![t] = k]
      ELSE taken' = taken /\ tasks' = tasks
  BY DEF Work, TakeTask, LockBackend, CallRaises, CallReturnsValue, CallReturnsIterable, CallExits,
     NextItem, IterationEnds, CheckStop, TaskDone, Release, Go, Goto, lockVars, queueVars
<1> QED  BY <1>1, <1>2, <1>3, TypeParts DEF PCType, LockType

LEMMA StartedNext == ASSUME TypeOK, StartedInv, [Next]_vars PROVE StartedInv'
<1>1. CASE StartThread
  BY <1>1, TypeParts DEF StartThread, StartedInv, CtorType, PCType, Threads
<1>2. ASSUME NEW t \in Threads, Work(t) PROVE StartedInv'
  BY <1>2, OneThread, WorkFrame DEF StartedInv, ctorVars
<1>3. CASE UNCHANGED <<started, pc>>
  BY <1>3 DEF StartedInv
<1> QED  BY <1>1, <1>2, <1>3, ConsumerFrame, HolderFrame
           DEF Next, Terminated, PutTask, vars, ctorVars, ThreadSide

LEMMA TakenNext == ASSUME TypeOK, NewInv, TakenInv, [Next]_vars PROVE TakenInv'
<1>0. built \in Nat /\ tasks \in Seq(Tasks) /\ DOMAIN tasks = 1..Len(tasks) /\ Len(tasks) \in Nat
  BY CallAssumption, TypeParts DEF CtorType, QueueType, CallAssumption
<1>1. CASE StartThread
  <2>1. \A u \in Threads : Busy(u) => (Busy(u))'
    <3>1. pc' = [pc EXCEPT ![started + 1] = "get"] /\ started + 1 > started
      BY <1>1, CallAssumption, TypeParts DEF StartThread, CtorType, CallAssumption
    <3>2. \A u \in Threads : Busy(u) => u # started + 1
      BY <3>1 DEF NewInv, Busy
    <3> QED  BY <3>1, <3>2, TypeParts DEF Busy, PCType
  <2> QED  BY <1>1, <2>1 DEF StartThread, TakenInv, queueVars, lockVars
<1>2. CASE PutTask
  <2>1. tasks' = Append(tasks, built + 1) /\ built' = built + 1
        /\ pc' = pc /\ taken' = taken
    BY <1>2 DEF PutTask, lockVars
  <2>2. /\ \A i \in DOMAIN tasks : i \in DOMAIN tasks' /\ tasks'[i] = tasks[i]
        /\ Len(tasks) + 1 \in DOMAIN tasks' /\ tasks'[Len(tasks) + 1] = built + 1
    BY <1>0, <2>1
  <2>3. \A k \in 1..built' : k \in 1..built \/ k = built + 1
    BY <1>0, <2>1
  <2> QED  BY <2>1, <2>2, <2>3 DEF TakenInv, Busy
<1>3. ASSUME NEW t \in Threads, Work(t) PROVE TakenInv'
  <2>1. built' = built
    BY <1>3, WorkFrame DEF ctorVars
  <2>2. \A u \in Threads : Busy(u) => (Busy(u))'
    BY <1>3, OneThread DEF Busy
  <2>3. CASE pc[t] # "get"
    BY <1>3, <2>1, <2>2, <2>3, OneThread DEF TakenInv
  <2>4. CASE pc[t] = "get"
    <3>1. tasks # <<>> /\ tasks' = Tail(tasks) /\ taken'[t] = Head(tasks)
      BY <1>3, <2>4, TypeParts DEF LockType, Work, TakeTask, LockBackend, CallRaises, CallReturnsValue,
         CallReturnsIterable, CallExits, NextItem, IterationEnds, CheckStop, TaskDone, Release, Go, Goto
    <3>2. \A i \in DOMAIN tasks : i = 1 \/ (i - 1 \in DOMAIN tasks' /\ tasks'[i - 1] = tasks[i])
      BY <1>0, <3>1
    <3>3. Head(tasks) = tasks[1] /\ (Busy(t))'
      <4>1. (Busy(t))'
        BY <1>3, OneThread DEF Busy
      <4> QED  BY <4>1, <1>0, <3>1
    <3>4. \A u \in Threads : Busy(u) => u # t /\ taken'[u] = taken[u]
      BY <1>3, <2>4, OneThread DEF Busy
    <3> SUFFICES ASSUME NEW k \in 1..built
                 PROVE  \/ \E i \in DOMAIN tasks' : tasks'[i] = k
                        \/ \E u \in Threads : (Busy(u))' /\ taken'[u] = k
      BY <2>1 DEF TakenInv
    <3>5. CASE \E i \in DOMAIN tasks : tasks[i] = k
      BY <3>1, <3>2, <3>3, <3>5
    <3>6. CASE \E u \in Threads : Busy(u) /\ taken[u] = k
      BY <2>2, <3>4, <3>6
    <3> QED  BY <3>5, <3>6 DEF TakenInv
  <2> QED  BY <2>3, <2>4
<1>4. CASE UNCHANGED <<built, tasks, pc, taken>>
  BY <1>4 DEF TakenInv, Busy
<1> QED  BY <1>1, <1>2, <1>3, <1>4, ConsumerFrame, HolderFrame
           DEF Next, Terminated, vars, ctorVars, queueVars, lockVars, ThreadSide

LEMMA OwnerNext == ASSUME IInv, LockInv, OwnerInv, [Next]_vars PROVE OwnerInv'
<1>1. /\ pc \in [Threads -> ThreadPC] /\ taken \in [Threads -> 0..N]
      /\ lock \in [Backends -> {Free} \cup Threads \cup Holders]
      /\ hpc \in [Holders -> Backends \cup {"idle", "done"}]
  BY DEF IInv, TypeOK
<1>2. \A t \in Threads : Busy(t) => taken[t] \in Tasks /\ BackendOf[taken[t]] \in Backends
  BY CallAssumption, TypeParts
     DEF IInv, TasksInv, CtorType, CallAssumption, Tasks
<1>3. CASE StartThread
  <2>1. pc' = [pc EXCEPT ![started + 1] = "get"] /\ started + 1 > started
    BY <1>3, CallAssumption, TypeParts DEF StartThread, CtorType, CallAssumption, IInv
  <2>2. \A u \in Threads : Running(u) => u # started + 1
    BY <2>1 DEF IInv, NewInv, Running
  <2>3. \A u \in Threads : Running(u) => (Running(u))'
    BY <1>1, <2>1, <2>2 DEF Running
  <2> QED  BY <1>3, <2>3 DEF StartThread, OwnerInv, Inside, lockVars
<1>4. ASSUME NEW t \in Threads, Work(t) PROVE OwnerInv'
  <2>1. hpc' = hpc /\ TypeOK
    BY <1>4, WorkFrame DEF IInv
  <2>2. \A u \in Threads \ {t} : (Running(u) <=> (Running(u))') /\ taken'[u] = taken[u]
    BY <1>4, <2>1, OneThread DEF Running
  <2>3. CASE TakeTask(t)
    <3>1. lock' = lock /\ ~ Running(t)
      BY <2>3 DEF TakeTask, Goto, Running
    <3> QED  BY <2>1, <2>2, <3>1 DEF OwnerInv, Inside
  <2>4. CASE LockBackend(t)
    <3>1. /\ (Running(t))' /\ taken' = taken /\ ~ Running(t)
          /\ \A b \in Backends : b # BackendOf[taken[t]] => lock'[b] = lock[b]
      BY <1>1, <2>4 DEF LockBackend, Goto, Running
    <3> QED  BY <2>1, <2>2, <3>1 DEF OwnerInv, Inside
  <2>5. CASE Release(t)
    <3>1. /\ taken' = taken /\ Running(t)
          /\ lock' = [lock EXCEPT ![BackendOf[taken[t]]] = Free]
      BY <2>5 DEF Release, Goto, Running
    <3>2. \A b \in Backends : lock'[b] = Free \/ (b # BackendOf[taken[t]] /\ lock'[b] = lock[b])
      BY <1>1, <3>1
    <3> QED  BY <2>1, <2>2, <3>1, <3>2 DEF OwnerInv, Inside
  <2>6. CASE ~ (TakeTask(t) \/ LockBackend(t) \/ Release(t))
    <3>1. lock' = lock /\ taken' = taken
      BY <1>4, <2>6 DEF Work, CallRaises, CallReturnsValue, CallReturnsIterable, CallExits, NextItem,
         IterationEnds, CheckStop, TaskDone, Go, lockVars
    <3>2. Running(t) => (Running(t))'
      BY <1>1, <1>4, <2>6 DEF Work, CallRaises, CallReturnsValue, CallReturnsIterable, CallExits,
         NextItem, IterationEnds, CheckStop, TaskDone, Go, Goto, Running
    <3> QED  BY <2>1, <2>2, <3>1, <3>2 DEF OwnerInv, Inside
  <2> QED  BY <2>3, <2>4, <2>5, <2>6
<1>5. ASSUME NEW h \in Holders, NEW b \in Backends, HolderLocks(h, b) PROVE OwnerInv'
  <2>1. /\ pc' = pc /\ taken' = taken /\ hpc[h] = "idle" /\ hpc'[h] = b
        /\ \A g \in Holders \ {h} : hpc'[g] = hpc[g]
        /\ \A d \in Backends : d # b => lock'[d] = lock[d]
    BY <1>1, <1>5 DEF HolderLocks
  <2>2. "idle" \notin Backends
    BY CallAssumption DEF CallAssumption
  <2> QED  BY <2>1, <2>2 DEF OwnerInv, Inside, Running
<1>6. ASSUME NEW h \in Holders, HolderReleases(h) PROVE OwnerInv'
  <2>1. /\ pc' = pc /\ taken' = taken
        /\ \A g \in Holders \ {h} : hpc'[g] = hpc[g]
        /\ \A d \in Backends : lock'[d] = Free \/ (d # hpc[h] /\ lock'[d] = lock[d])
    BY <1>1, <1>6 DEF HolderReleases
  <2> QED  BY <2>1 DEF OwnerInv, Inside, Running
<1>7. CASE UNCHANGED <<pc, lockVars>>
  BY <1>7 DEF OwnerInv, Inside, Running, lockVars
<1> QED  BY <1>3, <1>4, <1>5, <1>6, <1>7, ConsumerFrame
           DEF Next, Terminated, PutTask, vars, lockVars, ThreadSide

(* If the queue is empty, each task was taken by a thread of its own, and  *)
(* no thread is left that took none.                                       *)
LEMMA TasksLeft ==
  ASSUME TypeOK, TasksInv, TakenInv, Ready, tasks = <<>>
  PROVE  \A t \in Threads : Busy(t)
<1> DEFINE busy == {t \in Threads : Busy(t)}
           task == [t \in busy |-> taken[t]]
<1>1. built = N /\ N \in Nat /\ Threads = 1..N
  BY CallAssumption DEF Ready, CallAssumption, Threads
<1>2. task \in [busy -> Threads] /\ \A t, u \in busy : task[t] = task[u] => t = u
  BY <1>1 DEF TasksInv
<1>3. \A k \in Threads : \E t \in busy : task[t] = k
  <2>1. DOMAIN tasks = {}
    OBVIOUS
  <2> QED  BY <2>1, <1>1 DEF TakenInv
<1>4. busy \subseteq Threads /\ IsFiniteSet(Threads)
  <2>1. IsFiniteSet(1..N)
    BY <1>1, FS_Interval
  <2> QED  BY <1>1, <2>1
<1> HIDE DEF busy, task
<1>5. task \in Bijection(busy, Threads)
  <2>1. task \in Injection(busy, Threads)
    BY <1>2 DEF Injection, IsInjective
  <2>2. task \in Surjection(busy, Threads)
    BY <1>2, <1>3 DEF Surjection
  <2> QED  BY <2>1, <2>2 DEF Bijection
<1>6. IsFiniteSet(busy) /\ Cardinality(busy) = Cardinality(Threads)
  <2>1. IsFiniteSet(busy)
    BY <1>4, FS_Subset
  <2>2. ExistsBijection(busy, Threads)
    BY <1>5 DEF ExistsBijection
  <2> QED  BY <1>4, <2>1, <2>2, FS_Bijection
<1>7. busy = Threads
  BY <1>4, <1>6, FS_Subset
<1> QED  BY <1>7 DEF busy

(* NoThreadStuck, for any list of backends and any other code that locks.  *)
THEOREM ThreadsNotStuck == Spec => []NoThreadStuck
<1>1. Init => LockInv /\ WaitInv
  <2>1. Init => LockInv /\ OwnerInv
    BY CallAssumption DEF CallAssumption, Init, LockInv, OwnerInv, Running
  <2>2. Init => StartedInv /\ TakenInv
    BY CallAssumption DEF CallAssumption, Init, StartedInv, TakenInv, Threads
  <2> QED  BY <2>1, <2>2 DEF WaitInv
<1>2. IInv /\ LockInv /\ WaitInv /\ [Next]_vars => LockInv' /\ WaitInv'
  BY LockNext, OwnerNext, StartedNext, TakenNext DEF IInv, WaitInv
<1>3. IInv /\ WaitInv => NoThreadStuck
  <2> SUFFICES ASSUME IInv, WaitInv, NEW t \in Threads
               PROVE  /\ Ready => pc[t] # "new" /\ (pc[t] = "get" => tasks # <<>>)
                      /\ pc[t] = "lock" => \/ lock[BackendOf[taken[t]]] = Free
                                           \/ Inside(BackendOf[taken[t]])
    BY DEF NoThreadStuck
  <2>1. pc[t] = "lock" => BackendOf[taken[t]] \in Backends
    BY CallAssumption, TypeParts DEF IInv, TasksInv, CtorType, CallAssumption, Tasks, Busy
  <2>2. Ready => pc[t] # "new"
    BY CallAssumption, TypeParts
       DEF Ready, IInv, TasksInv, CtorType, CallAssumption, Threads, WaitInv, StartedInv
  <2>3. Ready /\ tasks = <<>> => pc[t] # "get"
    BY TasksLeft DEF IInv, WaitInv, Busy
  <2> QED  BY <2>1, <2>2, <2>3 DEF WaitInv, OwnerInv
<1> QED  BY <1>1, <1>2, <1>3, IInvHolds, PTL DEF Spec

(* How far a thread is from its end, once it was told to stop.             *)
Distance(place) ==
  CASE place = "new"     -> 8 [] place = "get"  -> 7 [] place = "lock"  -> 6
    [] place = "call"    -> 5 [] place = "iter" -> 4 [] place = "check" -> 3
    [] place = "done"    -> 2
    [] place = "release" -> 1 [] place = "end" -> 0

(* After stop() each step of a thread brings it nearer to its end, also in *)
(* an iterator that never ends, and the call is not started again          *)
(* (bcall.py:112-114).  With NoThreadStuck and the fairness of the threads *)
(* this is why StopEndsThreads holds.                                      *)
StoppedThreadsNearEnd ==
  [][stopped => /\ stopped'
                /\ \A t \in Threads : pc'[t] = pc[t] \/ Distance(pc'[t]) < Distance(pc[t])]_vars

(* The threads of a stopped call only go forward, and never begin again.   *)
THEOREM StopNearsTheEnd == Spec => StoppedThreadsNearEnd
<1> DEFINE A == stopped => /\ stopped'
                           /\ \A t \in Threads : pc'[t] = pc[t] \/ Distance(pc'[t]) < Distance(pc[t])
<1>1. ASSUME IInv, Next, stopped  PROVE A
  <2>1. pc \in [Threads -> ThreadPC] /\ TypeOK
    BY <1>1, TypeParts DEF IInv, PCType
  <2>2. CASE StartThread
    <3>1. pc' = [pc EXCEPT ![started + 1] = "get"] /\ started + 1 > started /\ stopped' = stopped
      BY <2>2, <1>1, CallAssumption, TypeParts DEF StartThread, CtorType, CallAssumption, IInv
    <3>2. \A t \in Threads : t = started + 1 => pc[t] = "new"
      BY <1>1, <3>1 DEF IInv, NewInv
    <3> QED  BY <1>1, <2>1, <3>1, <3>2 DEF Distance
  <2>3. ASSUME NEW t \in Threads, Work(t) PROVE A
    <3>1. stopped' /\ \A u \in Threads \ {t} : pc'[u] = pc[u]
      BY <1>1, <2>1, <2>3, WorkFrame, OneThread
    <3>2. \E to : /\ pc' = [pc EXCEPT ![t] = to]
                  /\ \/ pc[t] = "get" /\ to = "lock"
                     \/ pc[t] = "lock" /\ to = "call"
                     \/ pc[t] = "call" /\ to \in {"iter", "done"}
                     \/ pc[t] = "iter" /\ to \in {"check", "done"}
                     \/ pc[t] = "check" /\ to = "done"
                     \/ pc[t] = "done" /\ to = "release"
                     \/ pc[t] = "release" /\ to = "end"
      BY <1>1, <2>3 DEF Work, TakeTask, LockBackend, CallRaises, CallReturnsValue,
         CallReturnsIterable, CallExits, NextItem, IterationEnds, CheckStop, TaskDone, Release, Go, Goto
    <3>3. Distance(pc'[t]) < Distance(pc[t])
      BY <2>1, <3>2 DEF Distance
    <3> QED  BY <3>1, <3>3
  <2>4. ASSUME NEW c \in Consumers, Begin(c) \/ Stop(c) \/ Consume(c) PROVE A
    <3>1. pc' = pc
      BY <2>4, ConsumerFrame DEF ThreadSide
    <3>2. stopped'
      BY <1>1, <2>4 DEF Begin, Stop, Consume, ReadStop, ReadUnfinished, ReadEmpty, GetResponse,
         GetTimesOut, Resume, CloseIterator, CallbackRaises, JoinThreads, RaiseErrors,
         ReadErrors, TestErrors, PopError, PopEmptyList, CallErrback, CallFinishback, Move
    <3> QED  BY <3>1, <3>2
  <2>5. CASE UNCHANGED <<pc, stopped>>
    BY <1>1, <2>5
  <2> QED  BY <1>1, <2>2, <2>3, <2>4, <2>5, HolderFrame DEF Next, Terminated, PutTask, vars
<1>2. IInv /\ [Next]_vars => [A]_vars
  BY <1>1
<1> QED  BY IInvHolds, <1>2, PTL DEF Spec, StoppedThreadsNearEnd
=============================================================================
