----------------------------- MODULE Scheduler -----------------------------
(***************************************************************************)
(* woob/core/scheduler.py: events run by threading.Timer threads.          *)
(*                                                                         *)
(* Callers are threads of the program and the functions of the events      *)
(* themselves, which may schedule, cancel and stop as well.  A body that   *)
(* runs under the mutex is one step, taken when the mutex is free; only    *)
(* _wait_to_stop() keeps the mutex, while it joins the timers.  What is    *)
(* read or written outside the mutex (the stop event, the `finished` flag  *)
(* of a timer) is a step of its own.                                       *)
(***************************************************************************)
EXTENDS Naturals, FiniteSets

CONSTANTS
  Programs,   \* threads of the program that use the scheduler
  MaxEvents,  \* bound: how many events are registered
  MaxRuns     \* bound: how many times one repeated function is started

Events  == 1..MaxEvents
Callers == Programs \cup Events
Kinds   == {"once", "repeat"}

ASSUME SchedulerAssumption ==
  MaxEvents \in Nat /\ MaxRuns \in Nat
    /\ Programs \cap Nat = {}

VARIABLES
  stop_event, \* set by want_stop()
  held,       \* is the mutex held by _wait_to_stop()?
  count,      \* the last identifier given
  queue,      \* identifiers that are keys of the queue
  kind,       \* class of each timer
  over,       \* timers whose `finished` flag is set
  tpc,        \* where each timer's thread is
  call,       \* what each caller is in the middle of
  rpc,        \* where run() is
  joining,    \* what the loop of _wait_to_stop() has left
  (* history *)
  runs,       \* times each function was started
  cancelled,  \* events removed by cancel() or want_stop()
  late,       \* times each was started after it was removed
  cleared     \* did a want_stop() complete?

timerVars == <<count, queue, kind, over, tpc>>
history   == <<runs, cancelled, late, cleared>>
vars == <<timerVars, stop_event, held, call, rpc, joining, history>>

TypeOK ==
  /\ stop_event \in BOOLEAN /\ held \in BOOLEAN /\ cleared \in BOOLEAN
  /\ count \in 0..MaxEvents
  /\ queue \subseteq Events /\ over \subseteq Events
  /\ joining \subseteq Events /\ cancelled \subseteq Events
  /\ kind \in [Events -> Kinds]
  /\ tpc \in [Events -> {"none", "wait", "pop", "begin", "run", "look", "end"}]
  /\ call \in [Callers -> {"none", "clear"} \cup Kinds]
  /\ rpc \in {"run", "stop", "clear", "grab", "join", "raised"}
  /\ runs \in [Events -> Nat] /\ late \in [Events -> Nat]

Init ==
  /\ stop_event = FALSE /\ held = FALSE /\ count = 0
  /\ queue = {} /\ over = {} /\ joining = {}
  /\ kind = [e \in Events |-> "once"]
  /\ tpc = [e \in Events |-> "none"]
  /\ call = [a \in Callers |-> "none"]
  /\ rpc = "run"
  /\ runs = [e \in Events |-> 0] /\ late = [e \in Events |-> 0]
  /\ cancelled = {} /\ cleared = FALSE

-----------------------------------------------------------------------------
(* schedule(), repeat(), cancel() and want_stop(), for any caller.         *)

MayCall(a) == call[a] = "none" /\ (a \in Events => tpc[a] = "run")
Calls(a, what) == call' = [call EXCEPT ![a] = what]

(* _schedule() reads the stop event before it takes the mutex.             *)
ReadStopEvent(a, k) ==
  /\ MayCall(a) /\ ~stop_event /\ count < MaxEvents
  /\ Calls(a, k)
  /\ UNCHANGED <<timerVars, stop_event, held, rpc, joining, history>>

(* Bugs this code could have had: the queue filled under the next          *)
(* identifier; the timer not started; cancel() or want_stop() that only    *)
(* empties the queue.                                                      *)
RegisterNextId(a) ==
  /\ call[a] \in Kinds /\ ~held /\ count < MaxEvents
  /\ count' = count + 1
  /\ queue' = queue \cup {count + 2}
  /\ Calls(a, "none")
  /\ UNCHANGED <<kind, tpc, stop_event, held, over, rpc, joining, history>>

RegisterNotStarted(a) ==
  /\ call[a] \in Kinds /\ ~held /\ count < MaxEvents
  /\ count' = count + 1
  /\ queue' = queue \cup {count + 1}
  /\ Calls(a, "none")
  /\ UNCHANGED <<kind, tpc, stop_event, held, over, rpc, joining, history>>

CancelKeepsTimer(a, e) ==
  /\ MayCall(a) /\ ~held
  /\ e \in queue
  /\ queue' = queue \ {e}
  /\ cancelled' = cancelled \cup {e}
  /\ UNCHANGED <<count, kind, over, tpc, stop_event, held, call, rpc, joining,
                 runs, late, cleared>>

CancelNone ==
  /\ ~held
  /\ queue' = {} /\ cleared' = TRUE
  /\ UNCHANGED <<count, kind, over, tpc, stop_event, held, joining, runs, late,
                 cancelled>>

Register(a) ==
  /\ call[a] \in Kinds /\ ~held /\ count < MaxEvents
  /\ count' = count + 1
  /\ kind' = [kind EXCEPT ![count + 1] = call[a]]
  /\ queue' = queue \cup {count + 1}
  /\ tpc' = [tpc EXCEPT ![count + 1] = "wait"]
  /\ Calls(a, "none")
  /\ UNCHANGED <<stop_event, held, over, rpc, joining, history>>

RegisterFails(a) ==   \* the function has no name: an identifier is lost
  /\ call[a] \in Kinds /\ ~held /\ count < MaxEvents
  /\ count' = count + 1
  /\ Calls(a, "none")
  /\ UNCHANGED <<kind, queue, tpc, stop_event, held, over, rpc, joining, history>>

Cancel(a, e) ==
  /\ MayCall(a) /\ ~held
  /\ e \in queue
  /\ queue' = queue \ {e}
  /\ over' = over \cup {e}
  /\ cancelled' = cancelled \cup {e}
  /\ UNCHANGED <<count, kind, tpc, stop_event, held, call, rpc, joining,
                 runs, late, cleared>>

WantStop(a) ==
  /\ MayCall(a)
  /\ stop_event' = TRUE
  /\ Calls(a, "clear")
  /\ UNCHANGED <<timerVars, held, rpc, joining, history>>

CancelAll ==   \* the part of want_stop() under the mutex
  /\ ~held
  /\ over' = over \cup queue
  /\ cancelled' = cancelled \cup queue
  /\ queue' = {}
  /\ cleared' = TRUE
  /\ UNCHANGED <<count, kind, tpc, stop_event, held, joining, runs, late>>

Clear(a) == call[a] = "clear" /\ CancelAll /\ Calls(a, "none") /\ UNCHANGED rpc

-----------------------------------------------------------------------------
(* The thread of a timer.  A Timer waits for its interval and then calls   *)
(* _schedule_callback(), which needs the mutex; a RepeatedTimer calls      *)
(* _repeat_callback() at once and then after each interval.                *)

Goto(e, from, to) == tpc[e] = from /\ tpc' = [tpc EXCEPT ![e] = to]
TimerFrame == UNCHANGED <<count, kind, stop_event, held, call, rpc, joining,
                          cancelled, cleared>>

Start(e) ==
  /\ runs' = [runs EXCEPT ![e] = @ + 1]
  /\ late' = [late EXCEPT ![e] = IF e \in cancelled THEN @ + 1 ELSE @]

FireOnce(e) ==
  /\ kind[e] = "once" /\ e \notin over
  /\ Goto(e, "wait", "pop")
  /\ TimerFrame /\ UNCHANGED <<queue, over, runs, late>>

FireRepeat(e) ==   \* past the check of its loop
  /\ kind[e] = "repeat" /\ e \notin over /\ runs[e] < MaxRuns
  /\ Goto(e, "wait", "begin")
  /\ TimerFrame /\ UNCHANGED <<queue, over, runs, late>>

BeginRepeat(e) ==
  /\ Goto(e, "begin", "run")
  /\ Start(e)
  /\ TimerFrame /\ UNCHANGED <<queue, over>>

PopEventOrNone(e) ==   \* a bug: pop(count, None)
  /\ ~held
  /\ Goto(e, "pop", "run")
  /\ queue' = queue \ {e}
  /\ Start(e)
  /\ TimerFrame /\ UNCHANGED over

PopEvent(e) ==
  /\ ~held /\ e \in queue
  /\ Goto(e, "pop", "run")
  /\ queue' = queue \ {e}
  /\ Start(e)
  /\ TimerFrame /\ UNCHANGED over

PopFails(e) ==   \* KeyError ends the thread
  /\ ~held /\ e \notin queue
  /\ Goto(e, "pop", "end")
  /\ TimerFrame /\ UNCHANGED <<queue, over, runs, late>>

FunctionReturns(e) ==
  /\ call[e] = "none"
  /\ Goto(e, "run", IF kind[e] = "once" THEN "end" ELSE "look")
  /\ over' = IF kind[e] = "once" THEN over \cup {e} ELSE over
  /\ TimerFrame /\ UNCHANGED <<queue, runs, late>>

FunctionRaises(e) ==   \* ends a Timer; a RepeatedTimer goes on, unless it is an exit
  /\ call[e] = "none"
  /\ \/ Goto(e, "run", "end")
     \/ kind[e] = "repeat" /\ Goto(e, "run", "wait")
  /\ TimerFrame /\ UNCHANGED <<queue, over, runs, late>>

LookUp(e) ==   \* _repeat_callback() looks for itself, only to log
  /\ ~held
  /\ Goto(e, "look", "wait")
  /\ TimerFrame /\ UNCHANGED <<queue, over, runs, late>>

TimerEnds(e) ==
  /\ e \in over
  /\ Goto(e, "wait", "end")
  /\ TimerFrame /\ UNCHANGED <<queue, over, runs, late>>

Timer(e) ==
  \/ FireOnce(e) \/ FireRepeat(e) \/ BeginRepeat(e) \/ PopEvent(e) \/ PopFails(e)
  \/ FunctionReturns(e) \/ FunctionRaises(e) \/ LookUp(e) \/ TimerEnds(e)

-----------------------------------------------------------------------------
(* run() in the main thread: it polls the stop event for ever and leaves   *)
(* only when it is interrupted, by _wait_to_stop().                        *)

Main(from, to) == rpc = from /\ rpc' = to

Poll == rpc = "run" /\ UNCHANGED vars

Interrupted ==
  /\ Main("run", "stop")
  /\ UNCHANGED <<timerVars, stop_event, held, call, joining, history>>

StopSelf ==
  /\ Main("stop", "clear") /\ stop_event' = TRUE
  /\ UNCHANGED <<timerVars, held, call, joining, history>>

ClearSelf == Main("clear", "grab") /\ CancelAll /\ UNCHANGED call

Grab ==
  /\ Main("grab", "join") /\ ~held /\ held' = TRUE
  /\ joining' = queue
  /\ UNCHANGED <<timerVars, stop_event, call, history>>

Current == CHOOSE e \in joining : \A f \in joining : e <= f

CancelCurrent ==
  /\ rpc = "join" /\ joining # {} /\ Current \notin over
  /\ over' = over \cup {Current}
  /\ UNCHANGED <<count, queue, kind, tpc, stop_event, held, call, rpc, joining,
                 history>>

JoinCurrent ==
  /\ rpc = "join" /\ joining # {} /\ Current \in over /\ tpc[Current] = "end"
  /\ joining' = joining \ {Current}
  /\ UNCHANGED <<timerVars, stop_event, held, call, rpc, history>>

Leave ==
  /\ Main("join", "raised") /\ joining = {}
  /\ queue' = {} /\ held' = FALSE
  /\ UNCHANGED <<count, kind, over, tpc, stop_event, call, joining, history>>

Run == StopSelf \/ ClearSelf \/ Grab \/ CancelCurrent \/ JoinCurrent \/ Leave

Next ==
  \/ \E a \in Callers :
       \/ \E k \in Kinds : ReadStopEvent(a, k)
       \/ \E e \in Events : Cancel(a, e)
       \/ Register(a) \/ RegisterFails(a) \/ WantStop(a) \/ Clear(a)
  \/ \E e \in Events : Timer(e)
  \/ Poll \/ Interrupted \/ Run

(* Timer threads run, functions return whatever they call before, a caller *)
(* inside the scheduler goes on; nobody has to call the scheduler or to    *)
(* interrupt run().                                                        *)
Fairness ==
  /\ \A e \in Events : SF_vars(Timer(e))
  /\ \A a \in Callers : WF_vars(Register(a) \/ RegisterFails(a)) /\ WF_vars(Clear(a))
  /\ WF_vars(Run)

Spec     == Init /\ [][Next]_vars
FairSpec == Spec /\ Fairness
-----------------------------------------------------------------------------
(* Properties.                                                             *)

(* A one-shot event runs or is cancelled, never both, whichever comes      *)
(* first, and never twice, and a repeated one that is cancelled or stopped *)
(* is started at most once more, by a timer that was past its check        *)
(* (scheduler.py:122 and 138).                                             *)
CancelOrRun ==
  \A e \in Events :
    /\ kind[e] = "once" => runs[e] <= 1 /\ (runs[e] = 1 => e \notin cancelled)
    /\ late[e] <= 1

(* What is in the queue can still be cancelled with effect, and a timer    *)
(* that was taken out of it has been told to end: no timer is forgotten    *)
(* by the queue while it goes on (scheduler.py:116, 122, 138 and 171).     *)
NoOrphanTimer ==
  \A e \in Events :
    /\ e \in queue \ over /\ kind[e] = "once" => tpc[e] \in {"wait", "pop"}
    /\ tpc[e] = "wait" /\ e \notin queue => e \in over

(* A one-shot event whose function has not begun ends up run or cancelled, *)
(* unless run() is interrupted.                                            *)
Interruption == rpc # "run"
EventHandled ==
  \A e \in Events :
    e \in queue /\ kind[e] = "once" ~> runs[e] = 1 \/ e \in cancelled \/ Interruption

(* Once a want_stop() has emptied the queue and no _schedule() is past its *)
(* look at the stop event, every timer thread ends: nothing runs for ever  *)
(* in the background (scheduler.py:109 and 164-171), unless run() is       *)
(* interrupted.                                                            *)
Registering == \E a \in Callers : call[a] \in Kinds
TimersStop ==
  (cleared /\ queue = {} /\ ~Registering)
    ~> Interruption \/ \A e \in Events : tpc[e] \in {"none", "end"}

(* scheduler.py:170: "want_stop() have to be non-blocking".                *)
WantStopReturns == \A p \in Programs : call[p] = "clear" ~> call[p] = "none"
=============================================================================
