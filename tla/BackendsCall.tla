---------------------------- MODULE BackendsCall ----------------------------
(***************************************************************************)
(* woob/core/bcall.py: one call of a function on several backends.         *)
(*                                                                         *)
(* The constructor starts one thread per backend and queues the backends;  *)
(* a thread takes a backend from the queue (not necessarily "its own"),    *)
(* locks it, runs the function and stores what it returns or yields in     *)
(* `responses`, or what it raises in `errors`.  The program consumes the   *)
(* call by iterating on it, with a callback thread, by waiting for the     *)
(* threads, or stops it; several of these may be used on one call.         *)
(*                                                                         *)
(* A task is the position of a backend in the list the constructor is      *)
(* given; a backend may be listed twice.  A response is the k-th value     *)
(* that a task stored.                                                     *)
(***************************************************************************)
EXTENDS Naturals, Sequences, FiniteSets

CONSTANTS
  N,          \* how many backends are called (and threads started)
  Backends,   \* the loaded backends
  BackendOf,  \* the backend at each position of the list
  MaxItems,   \* bound: how many values one call is asked for
  Endless,    \* tasks whose iterator never ends (it then yields only None)
  Iterators,  \* consumers: `for result in call`
  Callbacks,  \* consumers: threads made by callback_thread()
  Waiters,    \* threads of the program that call wait()
  Stoppers,   \* threads of the program that call stop()
  Holders,    \* other code that locks a backend, e.g. iter_backends()
  HasErrback  \* is callback_thread() given an errback?

Tasks     == 1..N
Threads   == 1..N
Loopers   == Iterators \cup Callbacks
Consumers == Loopers \cup Waiters \cup Stoppers
Response  == [task : Tasks, item : 1..MaxItems]
Free      == 0

ASSUME CallAssumption ==
  /\ N \in Nat
  /\ MaxItems \in Nat
  /\ BackendOf \in [Tasks -> Backends]
  /\ Endless \subseteq Tasks
  /\ HasErrback \in BOOLEAN
  /\ Iterators \cap Callbacks = {}
  /\ Loopers \cap (Waiters \cup Stoppers) = {}
  /\ Waiters \cap Stoppers = {}
  /\ Holders \cap Nat = {}
  /\ Backends \cap {"idle", "done"} = {}

VARIABLES
  started,    \* threads started by the constructor
  built,      \* iterations of the constructor's loop that are complete
  tasks,      \* queue.Queue of the tasks nobody took yet
  unfinished, \* tasks.unfinished_tasks
  responses,  \* queue.Queue of the stored responses
  errors,     \* list of the tasks whose call raised
  stopped,    \* stop_event
  lock,       \* owner of each backend's lock, or Free
  pc,         \* where each thread is in backend_process()
  taken,      \* the task each thread took, 0 before
  drawn,      \* values each task's call gave so far, None included
  cpc,        \* where each consumer is
  hpc,        \* "idle", the backend a holder has locked, or "done"
  (* history *)
  produced,   \* every response ever stored
  handed,     \* for each task, the items the consumers got, in that order
  failed,     \* tasks whose call raised
  reported,   \* tasks whose error reached the program
  finished,   \* tasks for which task_done() was called
  popped,     \* the error each callback thread popped for its errback, or 0
  late        \* responses each task stored after stop() was called

ctorVars     == <<started, built>>
queueVars    == <<tasks, unfinished, finished>>
lockVars     == <<lock, taken, hpc>>
resultVars   == <<responses, produced, drawn, late>>
errorVars    == <<errors, failed>>
consumerVars == <<cpc, handed, popped, reported>>
vars == <<ctorVars, queueVars, lockVars, resultVars, errorVars, consumerVars,
          pc, stopped>>

ThreadPC   == {"new", "get", "lock", "call", "iter", "check", "done",
               "release", "end"}
LooperPC   == {"loop", "count", "peek", "get", "hand"}
ErrorsPC   == {"errors", "raise", "pop", "errback", "finishback"}
EndPC      == {"returned", "raised", "closed", "died", "broken"}
ConsumerPC == {"idle", "join"} \cup LooperPC \cup ErrorsPC \cup EndPC

Stored == {responses[i] : i \in DOMAIN responses}
Raised == {errors[i] : i \in DOMAIN errors}

delivered ==   \* the responses a consumer got
  {r \in Response : \E i \in DOMAIN handed[r.task] : handed[r.task][i] = r.item}

Init ==
  /\ started = 0 /\ built = 0
  /\ tasks = <<>> /\ unfinished = 0
  /\ responses = <<>> /\ errors = <<>>
  /\ stopped = FALSE
  /\ lock = [b \in Backends |-> Free]
  /\ pc = [t \in Threads |-> "new"]
  /\ taken = [t \in Threads |-> 0]
  /\ drawn = [k \in Tasks |-> 0]
  /\ cpc = [c \in Consumers |-> "idle"]
  /\ hpc = [h \in Holders |-> "idle"]
  /\ produced = {} /\ handed = [k \in Tasks |-> <<>>]
  /\ popped = [c \in Callbacks |-> 0]
  /\ failed = {} /\ reported = {} /\ finished = {}
  /\ late = [k \in Tasks |-> 0]

-----------------------------------------------------------------------------
(* The constructor: start a thread, then queue one backend, for each.      *)

StartThread ==
  /\ started = built /\ started < N
  /\ started' = started + 1
  /\ pc' = [pc EXCEPT ![started + 1] = "get"]
  /\ UNCHANGED <<built, queueVars, lockVars, resultVars, errorVars,
                 consumerVars, stopped>>

PutTask ==
  /\ built < started
  /\ built' = built + 1
  /\ tasks' = Append(tasks, built + 1)
  /\ unfinished' = unfinished + 1
  /\ UNCHANGED <<started, finished, lockVars, resultVars, errorVars,
                 consumerVars, pc, stopped>>

Ready == built = N   \* the constructor returned: the program has the object

-----------------------------------------------------------------------------
(* backend_process(), run by each thread.                                  *)

Goto(t, from, to) == pc[t] = from /\ pc' = [pc EXCEPT ![t] = to]

Go(t, from, to) ==   \* a step of the thread that changes nothing else
  /\ Goto(t, from, to)
  /\ UNCHANGED <<ctorVars, queueVars, lockVars, resultVars, errorVars,
                 consumerVars, stopped>>

(* Bugs this code could have had (used only to show that the properties    *)
(* see them): no lock; task_done() in the except clause as well, or not in *)
(* a finally clause, or as soon as the function returned; stop not looked  *)
(* at between two results.                                                 *)
LockBackendAlways(t) ==
  /\ Goto(t, "lock", "call")
  /\ lock' = [lock EXCEPT ![BackendOf[taken[t]]] = t]
  /\ UNCHANGED <<ctorVars, queueVars, taken, hpc, resultVars, errorVars,
                 consumerVars, stopped>>

CallRaisesTwiceDone(t) ==
  /\ \E from \in {"call", "iter"} : Goto(t, from, "done")
  /\ unfinished' = unfinished - 1
  /\ UNCHANGED <<ctorVars, tasks, finished, lockVars, resultVars, errorVars,
                 consumerVars, stopped>>

CallRaisesNotDone(t) == \E from \in {"call", "iter"} : Go(t, from, "release")

CallReturnsIterableDone(t) ==
  /\ Goto(t, "call", "iter")
  /\ unfinished' = unfinished - 1
  /\ finished' = finished \cup {taken[t]}
  /\ UNCHANGED <<ctorVars, tasks, lockVars, resultVars, errorVars,
                 consumerVars, stopped>>

CheckStopNever(t) == Go(t, "check", "iter")

TakeTask(t) ==
  /\ Goto(t, "get", "lock")
  /\ tasks # <<>>
  /\ taken' = [taken EXCEPT ![t] = Head(tasks)]
  /\ tasks' = Tail(tasks)
  /\ UNCHANGED <<ctorVars, unfinished, finished, lock, hpc, resultVars,
                 errorVars, consumerVars, stopped>>

LockBackend(t) ==
  /\ Goto(t, "lock", "call")
  /\ lock[BackendOf[taken[t]]] = Free
  /\ lock' = [lock EXCEPT ![BackendOf[taken[t]]] = t]
  /\ UNCHANGED <<ctorVars, queueVars, taken, hpc, resultVars, errorVars,
                 consumerVars, stopped>>

(* store_result() of the next value of task k; a None is dropped, and only *)
(* an endless iterator may go on for ever with them.                       *)
StoreResult(k) ==
  LET r == [task |-> k, item |-> drawn[k] + 1]
  IN  /\ drawn[k] < MaxItems
      /\ drawn' = [drawn EXCEPT ![k] = @ + 1]
      /\ responses' = Append(responses, r)
      /\ produced' = produced \cup {r}
      /\ late' = [late EXCEPT ![k] = IF stopped THEN @ + 1 ELSE @]

DropNone(k) ==
  /\ \/ drawn[k] < MaxItems /\ drawn' = [drawn EXCEPT ![k] = @ + 1]
     \/ drawn[k] = MaxItems /\ k \in Endless /\ UNCHANGED drawn
  /\ UNCHANGED <<responses, produced, late>>

StoreError(k) ==
  /\ errors' = Append(errors, k)
  /\ failed' = failed \cup {k}

CallRaises(t) ==   \* the call, or the iteration on what it returned
  /\ \E from \in {"call", "iter"} : Goto(t, from, "done")
  /\ StoreError(taken[t])
  /\ UNCHANGED <<ctorVars, queueVars, lockVars, resultVars, consumerVars,
                 stopped>>

CallReturnsValue(t) ==
  /\ Goto(t, "call", "done")
  /\ StoreResult(taken[t]) \/ DropNone(taken[t])
  /\ UNCHANGED <<ctorVars, queueVars, lockVars, errorVars, consumerVars,
                 stopped>>

CallReturnsIterable(t) == Go(t, "call", "iter")

(* The function leaves with an exception that is not an Exception (for     *)
(* example SystemExit): nothing is stored, only the finally clause runs.   *)
CallExits(t) == \E from \in {"call", "iter"} : Go(t, from, "done")

NextItem(t) ==
  /\ Goto(t, "iter", "check")
  /\ StoreResult(taken[t]) \/ DropNone(taken[t])
  /\ UNCHANGED <<ctorVars, queueVars, lockVars, errorVars, consumerVars,
                 stopped>>

IterationEnds(t) == taken[t] \notin Endless /\ Go(t, "iter", "done")

CheckStop(t) == Go(t, "check", IF stopped THEN "done" ELSE "iter")

(* The finally clause calls task_done() while the backend is still locked. *)
TaskDone(t) ==
  /\ Goto(t, "done", "release")
  /\ unfinished' = unfinished - 1
  /\ finished' = finished \cup {taken[t]}
  /\ UNCHANGED <<ctorVars, tasks, lockVars, resultVars, errorVars,
                 consumerVars, stopped>>

Release(t) ==
  /\ Goto(t, "release", "end")
  /\ lock' = [lock EXCEPT ![BackendOf[taken[t]]] = Free]
  /\ UNCHANGED <<ctorVars, queueVars, taken, hpc, resultVars, errorVars,
                 consumerVars, stopped>>

Work(t) ==
  \/ TakeTask(t) \/ LockBackend(t)
  \/ CallRaises(t) \/ CallReturnsValue(t) \/ CallReturnsIterable(t)
  \/ CallExits(t)
  \/ NextItem(t) \/ IterationEnds(t) \/ CheckStop(t)
  \/ TaskDone(t) \/ Release(t)

-----------------------------------------------------------------------------
(* The consumers.  The condition of their loop is read in three steps: the *)
(* stop event, the number of unfinished tasks, then the response queue.    *)

Step(c, from, to) == cpc[c] = from /\ cpc' = [cpc EXCEPT ![c] = to]

ThreadSide == <<ctorVars, queueVars, lockVars, produced, drawn, late, failed,
                pc>>

Move(c, from, to) ==   \* a step of the consumer that changes nothing else
  /\ Step(c, from, to)
  /\ UNCHANGED <<ThreadSide, responses, errors, handed, popped, reported, stopped>>

Hand(r) == handed' = [handed EXCEPT ![r.task] = Append(@, r.item)]

(* Bugs: the queue not looked at once no task is left; get() leaves the    *)
(* result in the queue, or takes the newest; wait() joins only one thread. *)
ReadUnfinishedOnly(c) ==
  Move(c, "count", IF unfinished # 0 THEN "get" ELSE "errors")

GetResponseKeeps(c) ==
  /\ Step(c, "get", "hand")
  /\ responses # <<>>
  /\ Hand(Head(responses))
  /\ UNCHANGED <<ThreadSide, responses, errors, popped, reported, stopped>>

GetResponseLast(c) ==
  /\ Step(c, "get", "hand")
  /\ responses # <<>>
  /\ Hand(responses[Len(responses)])
  /\ responses' = SubSeq(responses, 1, Len(responses) - 1)
  /\ UNCHANGED <<ThreadSide, errors, popped, reported, stopped>>

JoinFirst(c) == pc[1] = "end" /\ Move(c, "join", "errors")

Begin(c) ==
  /\ Ready /\ c \notin Stoppers
  /\ Move(c, "idle", IF c \in Loopers THEN "loop" ELSE "join")

Stop(c) ==
  /\ Ready /\ c \in Stoppers
  /\ \E to \in {"join", "returned"} : Step(c, "idle", to)
  /\ stopped' = TRUE
  /\ UNCHANGED <<ThreadSide, responses, errors, handed, popped, reported>>

ReadStop(c)       == Move(c, "loop", IF stopped THEN "errors" ELSE "count")
ReadUnfinished(c) == Move(c, "count", IF unfinished # 0 THEN "get" ELSE "peek")
ReadEmpty(c) == Move(c, "peek", IF responses # <<>> THEN "get" ELSE "errors")

GetResponse(c) ==
  /\ Step(c, "get", "hand")
  /\ responses # <<>>
  /\ Hand(Head(responses))
  /\ responses' = Tail(responses)
  /\ UNCHANGED <<ThreadSide, errors, popped, reported, stopped>>

GetTimesOut(c) == responses = <<>> /\ Move(c, "get", "loop")

(* The program asks for the next result, or the callback returned.         *)
Resume(c) == Move(c, "hand", "loop")

(* The program leaves its for loop: the generator is closed, which stops.  *)
CloseIterator(c) ==
  /\ c \in Iterators
  /\ Step(c, "hand", "closed")
  /\ stopped' = TRUE
  /\ UNCHANGED <<ThreadSide, responses, errors, handed, popped, reported>>

(* callback() raises: the callback thread dies there.                      *)
CallbackRaises(c) == c \in Callbacks /\ Move(c, "hand", "died")

JoinThreads(c) ==
  /\ \A t \in Threads : pc[t] = "end"
  /\ Move(c, "join", "errors")

(* The end of __iter__() and of wait(): if there are errors, raise a       *)
(* CallErrors with the list, which may have become shorter since.          *)
TestErrors(c) ==
  /\ c \notin Callbacks
  /\ Move(c, "errors", IF errors = <<>> THEN "returned" ELSE "raise")

RaiseErrors(c) ==
  /\ Step(c, "raise", "raised")
  /\ reported' = reported \cup Raised
  /\ UNCHANGED <<ThreadSide, responses, errors, handed, popped, stopped>>

(* The end of a callback thread: while there are errors, pop the first,    *)
(* then give it to errback(), which may raise; the list may have been      *)
(* emptied by another callback thread since it was looked at.              *)
ReadErrors(c) ==
  /\ c \in Callbacks
  /\ Move(c, "errors", IF HasErrback /\ errors # <<>> THEN "pop" ELSE "finishback")

PopError(c) ==
  /\ errors # <<>>
  /\ Step(c, "pop", "errback")
  /\ errors' = Tail(errors)
  /\ popped' = [popped EXCEPT ![c] = Head(errors)]
  /\ UNCHANGED <<ThreadSide, responses, handed, reported, stopped>>

PopEmptyList(c) == errors = <<>> /\ Move(c, "pop", "broken")

CallErrback(c) ==
  /\ \E to \in {"errors", "broken"} : Step(c, "errback", to)
  /\ reported' = reported \cup {popped[c]}
  /\ popped' = [popped EXCEPT ![c] = 0]
  /\ UNCHANGED <<ThreadSide, responses, errors, handed, stopped>>

CallFinishback(c) == Move(c, "finishback", "returned")

Consume(c) ==
  \/ ReadStop(c) \/ ReadUnfinished(c) \/ ReadEmpty(c)
  \/ GetResponse(c) \/ GetTimesOut(c)
  \/ Resume(c) \/ CloseIterator(c) \/ CallbackRaises(c)
  \/ JoinThreads(c) \/ TestErrors(c) \/ RaiseErrors(c)
  \/ ReadErrors(c) \/ PopError(c) \/ PopEmptyList(c) \/ CallErrback(c)
  \/ CallFinishback(c)

-----------------------------------------------------------------------------
(* Any other code of the program that locks a backend for a while.         *)

HolderLocks(h, b) ==
  /\ hpc[h] = "idle" /\ lock[b] = Free
  /\ hpc' = [hpc EXCEPT ![h] = b]
  /\ lock' = [lock EXCEPT ![b] = h]
  /\ UNCHANGED <<ctorVars, queueVars, taken, resultVars, errorVars,
                 consumerVars, pc, stopped>>

HolderReleases(h) ==
  /\ hpc[h] \in Backends
  /\ hpc' = [hpc EXCEPT ![h] = "done"]
  /\ lock' = [lock EXCEPT ![hpc[h]] = Free]
  /\ UNCHANGED <<ctorVars, queueVars, taken, resultVars, errorVars,
                 consumerVars, pc, stopped>>

(* Everything that was begun has ended; what is left is not a deadlock.    *)
Terminated ==
  /\ Ready
  /\ \A t \in Threads : pc[t] = "end"
  /\ \A c \in Consumers : cpc[c] \in EndPC
  /\ \A h \in Holders : hpc[h] = "done"
  /\ UNCHANGED vars

Next ==
  \/ StartThread \/ PutTask
  \/ \E t \in Threads : Work(t)
  \/ \E c \in Consumers : Begin(c) \/ Stop(c) \/ Consume(c)
  \/ \E h \in Holders : HolderReleases(h) \/ \E b \in Backends : HolderLocks(h, b)
  \/ Terminated

(* The threads of the call and of its consumers are run by the interpreter *)
(* and whoever locks a backend gives it back; nobody has to begin or stop. *)
Fairness ==
  /\ WF_vars(StartThread) /\ WF_vars(PutTask)
  /\ \A t \in Threads : WF_vars(Work(t))
  /\ \A c \in Consumers : WF_vars(Consume(c))
  /\ \A h \in Holders : WF_vars(HolderReleases(h))

Spec     == Init /\ [][Next]_vars
FairSpec == Spec /\ Fairness
-----------------------------------------------------------------------------
(* Properties.                                                             *)

TypeOK ==
  /\ started \in 0..N /\ built \in 0..N /\ unfinished \in Nat
  /\ tasks \in Seq(Tasks) /\ responses \in Seq(Response)
  /\ errors \in Seq(Tasks)
  /\ stopped \in BOOLEAN
  /\ lock \in [Backends -> {Free} \cup Threads \cup Holders]
  /\ pc \in [Threads -> ThreadPC]
  /\ taken \in [Threads -> 0..N]
  /\ drawn \in [Tasks -> 0..MaxItems]
  /\ cpc \in [Consumers -> ConsumerPC]
  /\ hpc \in [Holders -> Backends \cup {"idle", "done"}]
  /\ produced \subseteq Response /\ handed \in [Tasks -> Seq(1..MaxItems)]
  /\ popped \in [Callbacks -> 0..N]
  /\ failed \subseteq Tasks /\ reported \subseteq Tasks
  /\ finished \subseteq Tasks
  /\ late \in [Tasks -> Nat]

LeftLoop(c) == c \in Loopers /\ cpc[c] \in ErrorsPC \cup {"returned", "raised", "broken"}
Over(c)     == cpc[c] \in {"returned", "raised"}
Joined(c)   == c \in Waiters /\ Over(c)
AllEnded    == \A t \in Threads : pc[t] = "end"

(* A loop over the results that nobody stopped ends only after every task  *)
(* is done and every stored result was got: the condition of the loop,     *)
(* read in three steps while threads store results, loses none             *)
(* (bcall.py:128 and 189).                                                 *)
NoLostResult ==
  (\E c \in Loopers : LeftLoop(c)) /\ ~stopped =>
    finished = Tasks /\ delivered = produced

(* When wait() ends, or a loop that nobody stopped (with an errback if it  *)
(* is a callback thread), no exception a backend raised is lost: it has    *)
(* reached the program, by CallErrors or by the errback, or a callback     *)
(* thread popped it and is about to call its errback with it, whoever else *)
(* tests, pops and copies the list (bcall.py:138, 172 and 198).            *)
InHands == {popped[c] : c \in Callbacks} \ {0}

NoLostError ==
  \A c \in Consumers :
    /\ Over(c)
    /\ Joined(c) \/ (c \in Loopers /\ ~stopped)
    /\ c \in Callbacks => HasErrback
    => failed \subseteq reported \cup InHands

(* A backend runs one function at a time: two threads of a call that lists *)
(* it twice, or a thread and other code that locked it, exclude each other *)
(* (bcall.py:93).                                                          *)
Running(t) == pc[t] \in {"call", "iter", "check", "done", "release"}

BackendExclusive ==
  \A t \in Threads : Running(t) =>
    LET b == BackendOf[taken[t]]
    IN  /\ \A u \in Threads \ {t} : Running(u) => BackendOf[taken[u]] # b
        /\ \A h \in Holders : hpc[h] # b

(* After stop() a thread stores at most one more result: it looks at the   *)
(* event after each value it stores (bcall.py:112-114).                    *)
AtMostOneLate == \A k \in Tasks : late[k] <= 1

(* Results reach the program once each, and those of one backend in the    *)
(* order it gave them, whichever consumers share the queue.                *)
OnceInOrder ==
  \A k \in Tasks : \A i, j \in DOMAIN handed[k] : i < j => handed[k][i] < handed[k][j]

(* A BackendsCall implements the ResultStream it promises.                 *)
Stream == INSTANCE ResultStream WITH
  Values <- Response, Consumers <- Loopers,
  open   <- Tasks \ finished,
  ready  <- Stored,
  given  <- delivered,
  halted <- stopped,
  over   <- {c \in Loopers : LeftLoop(c)}

IsResultStream == Stream!Spec

(* With backends whose iterators end, every loop, wait() and callback      *)
(* thread that was begun ends: nobody polls for ever for a result that     *)
(* cannot come, or waits for a thread that cannot end.                     *)
ConsumersEnd == \A c \in Consumers : cpc[c] # "idle" ~> cpc[c] \in EndPC

(* Once stopped, even a call on a backend whose iterator never ends is     *)
(* left by all its threads: stop() and the closing of an abandoned         *)
(* iteration leave no thread behind (bcall.py:113, 182 and 195).           *)
StopEndsThreads == stopped ~> AllEnded
=============================================================================
