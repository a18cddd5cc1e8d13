---------------------------- MODULE SchedulerProofs ----------------------------
(***************************************************************************)
(* Proofs about Scheduler, for any program threads, events and starts of a *)
(* repeated one: an event is followed through the queue, its timer's flag  *)
(* and its thread.                                                         *)
(***************************************************************************)
EXTENDS Scheduler, WellFoundedInduction, TLAPS

(* The identifiers that were given are those of timers.                    *)
CountInv ==
  /\ joining \subseteq 1..count
  /\ \A e \in Events : e > count =>
       /\ e \notin queue \cup over \cup cancelled
       /\ tpc[e] = "none" /\ runs[e] = 0 /\ late[e] = 0

(* The two classes of timers have places of their own.                     *)
KindInv ==
  \A e \in Events : tpc[e] \notin (IF kind[e] = "once" THEN {"begin", "look"} ELSE {"pop"})

(* Whoever cancels takes the event out of the queue and sets its flag.     *)
CancelInv == cancelled \subseteq over \ queue

(* A timer past its check has not been started since it was cancelled, and *)
(* a one-shot event that ran can be cancelled no more.                     *)
StartInv ==
  \A e \in Events :
    /\ kind[e] = "once" =>
         /\ runs[e] \in {0, 1}
         /\ tpc[e] \in {"wait", "pop"} => runs[e] = 0
         /\ runs[e] = 1 => e \notin queue \cup cancelled
    /\ late[e] \in {0, 1} /\ (late[e] = 1 => e \in cancelled)
    /\ tpc[e] = "begin" => late[e] = 0

(* A repeated timer comes back to its wait, so it is not forgotten by the  *)
(* queue in the meantime either.                                           *)
OrphanInv ==
  \A e \in Events :
    /\ e \in queue \ over /\ kind[e] = "once" => tpc[e] \in {"wait", "pop"}
    /\ \/ tpc[e] = "wait"
       \/ tpc[e] \in {"begin", "run", "look"} /\ kind[e] = "repeat"
       => e \in queue \cup over

(* Under the mutex that _wait_to_stop() keeps, what it has joined is over. *)
JoinInv ==
  /\ held <=> rpc = "join"
  /\ held => \A e \in queue \ joining : e \in over /\ tpc[e] = "end"

(* What every step preserves.                                              *)
IInv == TypeOK /\ CountInv /\ KindInv /\ CancelInv /\ StartInv /\ OrphanInv /\ JoinInv
-----------------------------------------------------------------------------
(* _wait_to_stop() joins the timers in the order of their identifiers.     *)
LEMMA LeastExists ==
  ASSUME NEW S \in SUBSET Nat, S # {}
  PROVE  \E e \in S : \A f \in S : e <= f
<1> DEFINE R == OpToRel(<, Nat)
<1>1. IsWellFoundedOn(R, Nat)
  BY NatLessThanWellFounded
<1>2. \A a, b \in Nat : <<a, b>> \in R <=> a < b
  BY DEF OpToRel
<1> HIDE DEF R
<1>3. PICK e \in S : \A f \in S : ~(<<f, e>> \in R)
  BY <1>1, WFMin
<1>4. \A f \in S : e <= f
  <2> TAKE f \in S
  <2>1. ~(f < e)
    BY <1>2, <1>3
  <2> QED BY <2>1
<1> QED BY <1>4

LEMMA CurrentJoined ==
  ASSUME TypeOK, joining # {}
  PROVE  Current \in joining
<1>1. joining \in SUBSET Nat
  BY SchedulerAssumption DEF TypeOK, Events
<1> QED BY <1>1, LeastExists DEF Current

(* The callers' steps: schedule() and repeat(), cancel(), want_stop().      *)
LEMMA ReadStep ==
  ASSUME IInv, NEW a \in Callers, NEW k \in Kinds, ReadStopEvent(a, k)
  PROVE  IInv'
<1> USE DEF Callers, Kinds, timerVars, history
<1>1. TypeOK'
  BY DEF IInv, TypeOK, ReadStopEvent, Calls
<1>2. CountInv' /\ KindInv' /\ CancelInv' /\ StartInv' /\ OrphanInv' /\ JoinInv'
  BY DEF IInv, CountInv, KindInv, CancelInv, StartInv, OrphanInv, JoinInv,
     ReadStopEvent, Calls
<1> QED BY <1>1, <1>2 DEF IInv

LEMMA RegisterStep ==
  ASSUME IInv, NEW a \in Callers, Register(a)
  PROVE  IInv'
<1> USE SchedulerAssumption DEF Events, Callers, Kinds, timerVars, history
<1>1. TypeOK'
  BY DEF IInv, TypeOK, Register, Calls
<1>2. CountInv'
  BY DEF IInv, TypeOK, CountInv, Register, Calls
<1>3. KindInv'
  BY DEF IInv, TypeOK, KindInv, Register, Calls
<1>4. CancelInv'
  BY DEF IInv, TypeOK, CountInv, CancelInv, Register, Calls
<1>5. StartInv'
  BY DEF IInv, TypeOK, CountInv, KindInv, CancelInv, StartInv, Register,
     Calls
<1>6. OrphanInv'
  BY DEF IInv, TypeOK, CountInv, KindInv, OrphanInv, Register, Calls
<1>7. JoinInv'
  BY DEF IInv, TypeOK, CountInv, JoinInv, Register, Calls
<1> QED BY <1>1, <1>2, <1>3, <1>4, <1>5, <1>6, <1>7 DEF IInv

LEMMA RegisterFailsStep ==
  ASSUME IInv, NEW a \in Callers, RegisterFails(a)
  PROVE  IInv'
<1> USE SchedulerAssumption DEF Events, Callers, Kinds, timerVars, history
<1>1. TypeOK'
  BY DEF IInv, TypeOK, RegisterFails, Calls
<1>2. CountInv'
  BY DEF IInv, TypeOK, CountInv, RegisterFails, Calls
<1>3. KindInv' /\ CancelInv' /\ StartInv' /\ OrphanInv' /\ JoinInv'
  BY DEF IInv, KindInv, CancelInv, StartInv, OrphanInv, JoinInv,
     RegisterFails, Calls
<1> QED BY <1>1, <1>2, <1>3 DEF IInv

LEMMA CancelStep ==
  ASSUME IInv, NEW a \in Callers, NEW e \in Events, Cancel(a, e)
  PROVE  IInv'
<1> USE SchedulerAssumption DEF Events, Callers, Kinds, timerVars, history
<1>1. TypeOK'
  BY DEF IInv, TypeOK, Cancel
<1>2. CountInv'
  BY DEF IInv, TypeOK, CountInv, Cancel
<1>3. KindInv'
  BY DEF IInv, TypeOK, KindInv, Cancel
<1>4. CancelInv'
  BY DEF IInv, TypeOK, CountInv, CancelInv, Cancel
<1>5. StartInv'
  BY DEF IInv, TypeOK, CountInv, KindInv, CancelInv, StartInv, Cancel
<1>6. OrphanInv'
  BY DEF IInv, TypeOK, CountInv, KindInv, OrphanInv, Cancel
<1>7. JoinInv'
  BY DEF IInv, TypeOK, CountInv, JoinInv, Cancel
<1> QED BY <1>1, <1>2, <1>3, <1>4, <1>5, <1>6, <1>7 DEF IInv

LEMMA WantStopStep ==
  ASSUME IInv, NEW a \in Callers, WantStop(a)
  PROVE  IInv'
<1> USE DEF Callers, Kinds, timerVars, history
<1>1. TypeOK'
  BY DEF IInv, TypeOK, WantStop, Calls
<1>2. CountInv' /\ KindInv' /\ CancelInv' /\ StartInv' /\ OrphanInv' /\ JoinInv'
  BY DEF IInv, CountInv, KindInv, CancelInv, StartInv, OrphanInv, JoinInv,
     WantStop, Calls
<1> QED BY <1>1, <1>2 DEF IInv

LEMMA ClearStep ==
  ASSUME IInv, NEW a \in Callers, Clear(a)
  PROVE  IInv'
<1> USE SchedulerAssumption DEF Events, Callers, Kinds, timerVars, history
<1>1. TypeOK'
  BY DEF IInv, TypeOK, Clear, CancelAll, Calls
<1>2. CountInv'
  BY DEF IInv, TypeOK, CountInv, Clear, CancelAll, Calls
<1>3. KindInv'
  BY DEF IInv, TypeOK, KindInv, Clear, CancelAll, Calls
<1>4. CancelInv'
  BY DEF IInv, TypeOK, CountInv, CancelInv, Clear, CancelAll, Calls
<1>5. StartInv'
  BY DEF IInv, TypeOK, CountInv, KindInv, CancelInv, StartInv, Clear,
     CancelAll, Calls
<1>6. OrphanInv'
  BY DEF IInv, TypeOK, CountInv, KindInv, OrphanInv, Clear, CancelAll, Calls
<1>7. JoinInv'
  BY DEF IInv, TypeOK, CountInv, JoinInv, Clear, CancelAll, Calls
<1> QED BY <1>1, <1>2, <1>3, <1>4, <1>5, <1>6, <1>7 DEF IInv

(* The steps of a timer's thread.                                          *)
LEMMA FireOnceStep ==
  ASSUME IInv, NEW e \in Events, FireOnce(e)
  PROVE  IInv'
<1> USE SchedulerAssumption DEF Events, Callers, Kinds, timerVars, history
<1>1. TypeOK'
  BY DEF IInv, TypeOK, FireOnce, Goto, TimerFrame
<1>2. CountInv'
  BY DEF IInv, TypeOK, CountInv, FireOnce, Goto, TimerFrame
<1>3. KindInv'
  BY DEF IInv, TypeOK, KindInv, FireOnce, Goto, TimerFrame
<1>4. CancelInv'
  BY DEF IInv, TypeOK, CountInv, CancelInv, FireOnce, Goto, TimerFrame
<1>5. StartInv'
  BY DEF IInv, TypeOK, CountInv, KindInv, CancelInv, StartInv, FireOnce,
     Goto, TimerFrame
<1>6. OrphanInv'
  BY DEF IInv, TypeOK, CountInv, KindInv, OrphanInv, FireOnce, Goto,
     TimerFrame
<1>7. JoinInv'
  BY DEF IInv, TypeOK, CountInv, JoinInv, FireOnce, Goto, TimerFrame
<1> QED BY <1>1, <1>2, <1>3, <1>4, <1>5, <1>6, <1>7 DEF IInv

LEMMA FireRepeatStep ==
  ASSUME IInv, NEW e \in Events, FireRepeat(e)
  PROVE  IInv'
<1> USE SchedulerAssumption DEF Events, Callers, Kinds, timerVars, history
<1>1. TypeOK'
  BY DEF IInv, TypeOK, FireRepeat, Goto, TimerFrame
<1>2. CountInv'
  BY DEF IInv, TypeOK, CountInv, FireRepeat, Goto, TimerFrame
<1>3. KindInv'
  BY DEF IInv, TypeOK, KindInv, FireRepeat, Goto, TimerFrame
<1>4. CancelInv'
  BY DEF IInv, TypeOK, CountInv, CancelInv, FireRepeat, Goto, TimerFrame
<1>5. StartInv'
  BY DEF IInv, TypeOK, CountInv, KindInv, CancelInv, StartInv, FireRepeat,
     Goto, TimerFrame
<1>6. OrphanInv'
  BY DEF IInv, TypeOK, CountInv, KindInv, OrphanInv, FireRepeat, Goto,
     TimerFrame
<1>7. JoinInv'
  BY DEF IInv, TypeOK, CountInv, JoinInv, FireRepeat, Goto, TimerFrame
<1> QED BY <1>1, <1>2, <1>3, <1>4, <1>5, <1>6, <1>7 DEF IInv

LEMMA BeginRepeatStep ==
  ASSUME IInv, NEW e \in Events, BeginRepeat(e)
  PROVE  IInv'
<1> USE SchedulerAssumption DEF Events, Callers, Kinds, timerVars, history
<1>1. TypeOK'
  <2>1. runs' \in [Events -> Nat] /\ late' \in [Events -> Nat]
    BY DEF IInv, TypeOK, BeginRepeat, Start
  <2> QED
    BY <2>1 DEF IInv, TypeOK, BeginRepeat, Goto, TimerFrame
<1>2. CountInv'
  BY DEF IInv, TypeOK, CountInv, BeginRepeat, Goto, TimerFrame, Start
<1>3. KindInv'
  BY DEF IInv, TypeOK, KindInv, BeginRepeat, Goto, TimerFrame, Start
<1>4. CancelInv'
  BY DEF IInv, TypeOK, CountInv, CancelInv, BeginRepeat, Goto, TimerFrame,
     Start
<1>5. StartInv'
  <2>1. kind[e] = "repeat" /\ late[e] = 0 /\ tpc[e] = "begin"
    BY DEF IInv, TypeOK, KindInv, StartInv, BeginRepeat, Goto
  <2>2. late'[e] \in {0, 1} /\ (late'[e] = 1 => e \in cancelled)
    BY <2>1 DEF IInv, TypeOK, BeginRepeat, Start
  <2> QED
    BY <2>1, <2>2 DEF IInv, TypeOK, StartInv, BeginRepeat, Goto, Start,
       TimerFrame
<1>6. OrphanInv'
  BY DEF IInv, TypeOK, CountInv, KindInv, OrphanInv, BeginRepeat, Goto,
     TimerFrame, Start
<1>7. JoinInv'
  BY DEF IInv, TypeOK, CountInv, JoinInv, BeginRepeat, Goto, TimerFrame,
     Start
<1> QED BY <1>1, <1>2, <1>3, <1>4, <1>5, <1>6, <1>7 DEF IInv

LEMMA PopEventStep ==
  ASSUME IInv, NEW e \in Events, PopEvent(e)
  PROVE  IInv'
<1> USE SchedulerAssumption DEF Events, Callers, Kinds, timerVars, history
<1>1. TypeOK'
  <2>1. runs' \in [Events -> Nat] /\ late' \in [Events -> Nat]
    BY SMTT(30) DEF IInv, TypeOK, PopEvent, Start
  <2> QED
    BY <2>1 DEF IInv, TypeOK, PopEvent, Goto, TimerFrame
<1>2. CountInv'
  BY DEF IInv, TypeOK, CountInv, PopEvent, Goto, TimerFrame, Start
<1>3. KindInv'
  BY DEF IInv, TypeOK, KindInv, PopEvent, Goto, TimerFrame, Start
<1>4. CancelInv'
  BY DEF IInv, TypeOK, CountInv, CancelInv, PopEvent, Goto, TimerFrame, Start
<1>5. StartInv'
  <2>1. kind[e] = "once" /\ runs[e] = 0 /\ e \notin cancelled
    BY DEF IInv, TypeOK, KindInv, CancelInv, StartInv, PopEvent, Goto
  <2>2. runs'[e] = 1 /\ late'[e] = late[e]
    BY <2>1 DEF IInv, TypeOK, PopEvent, Start
  <2> QED
    BY <2>1, <2>2 DEF IInv, TypeOK, StartInv, PopEvent, Goto, Start,
       TimerFrame
<1>6. OrphanInv'
  <2>1. kind[e] = "once" /\ tpc' = [tpc EXCEPT ![e] = "run"]
    BY DEF IInv, TypeOK, KindInv, PopEvent, Goto
  <2> QED
    BY <2>1 DEF IInv, TypeOK, OrphanInv, PopEvent, TimerFrame
<1>7. JoinInv'
  BY DEF IInv, TypeOK, CountInv, JoinInv, PopEvent, Goto, TimerFrame, Start
<1> QED BY <1>1, <1>2, <1>3, <1>4, <1>5, <1>6, <1>7 DEF IInv

LEMMA PopFailsStep ==
  ASSUME IInv, NEW e \in Events, PopFails(e)
  PROVE  IInv'
<1> USE SchedulerAssumption DEF Events, Callers, Kinds, timerVars, history
<1>1. TypeOK'
  BY DEF IInv, TypeOK, PopFails, Goto, TimerFrame
<1>2. CountInv'
  BY DEF IInv, TypeOK, CountInv, PopFails, Goto, TimerFrame
<1>3. KindInv'
  BY DEF IInv, TypeOK, KindInv, PopFails, Goto, TimerFrame
<1>4. CancelInv'
  BY DEF IInv, TypeOK, CountInv, CancelInv, PopFails, Goto, TimerFrame
<1>5. StartInv'
  BY DEF IInv, TypeOK, CountInv, KindInv, CancelInv, StartInv, PopFails,
     Goto, TimerFrame
<1>6. OrphanInv'
  <2>1. e \notin queue /\ tpc' = [tpc EXCEPT ![e] = "end"]
    BY DEF PopFails, Goto
  <2> QED
    BY <2>1 DEF IInv, TypeOK, OrphanInv, PopFails, TimerFrame
<1>7. JoinInv'
  BY DEF IInv, TypeOK, CountInv, JoinInv, PopFails, Goto, TimerFrame
<1> QED BY <1>1, <1>2, <1>3, <1>4, <1>5, <1>6, <1>7 DEF IInv

LEMMA FunctionReturnsStep ==
  ASSUME IInv, NEW e \in Events, FunctionReturns(e)
  PROVE  IInv'
<1> USE SchedulerAssumption DEF Events, Callers, Kinds, timerVars, history
<1>1. TypeOK'
  BY DEF IInv, TypeOK, FunctionReturns, Goto, TimerFrame
<1>2. CountInv'
  BY DEF IInv, TypeOK, CountInv, FunctionReturns, Goto, TimerFrame
<1>3. KindInv'
  BY DEF IInv, TypeOK, KindInv, FunctionReturns, Goto, TimerFrame
<1>4. CancelInv'
  BY DEF IInv, TypeOK, CountInv, CancelInv, FunctionReturns, Goto, TimerFrame
<1>5. StartInv'
  BY DEF IInv, TypeOK, CountInv, KindInv, CancelInv, StartInv,
     FunctionReturns, Goto, TimerFrame
<1>6. OrphanInv'
  BY DEF IInv, TypeOK, CountInv, KindInv, OrphanInv, FunctionReturns, Goto,
     TimerFrame
<1>7. JoinInv'
  BY DEF IInv, TypeOK, CountInv, JoinInv, FunctionReturns, Goto, TimerFrame
<1> QED BY <1>1, <1>2, <1>3, <1>4, <1>5, <1>6, <1>7 DEF IInv

LEMMA FunctionRaisesStep ==
  ASSUME IInv, NEW e \in Events, FunctionRaises(e)
  PROVE  IInv'
<1> USE SchedulerAssumption DEF Events, Callers, Kinds, timerVars, history
<1>1. TypeOK'
  BY DEF IInv, TypeOK, FunctionRaises, Goto, TimerFrame
<1>2. CountInv'
  BY DEF IInv, TypeOK, CountInv, FunctionRaises, Goto, TimerFrame
<1>3. KindInv'
  BY DEF IInv, TypeOK, KindInv, FunctionRaises, Goto, TimerFrame
<1>4. CancelInv'
  BY DEF IInv, TypeOK, CountInv, CancelInv, FunctionRaises, Goto, TimerFrame
<1>5. StartInv'
  <2>1. /\ tpc[e] = "run"
        /\ \/ tpc' = [tpc EXCEPT ![e] = "end"]
           \/ kind[e] = "repeat" /\ tpc' = [tpc EXCEPT ![e] = "wait"]
    BY DEF FunctionRaises, Goto
  <2> QED
    BY <2>1 DEF IInv, TypeOK, StartInv, FunctionRaises, TimerFrame
<1>6. OrphanInv'
  BY DEF IInv, TypeOK, CountInv, KindInv, OrphanInv, FunctionRaises, Goto,
     TimerFrame
<1>7. JoinInv'
  BY DEF IInv, TypeOK, CountInv, JoinInv, FunctionRaises, Goto, TimerFrame
<1> QED BY <1>1, <1>2, <1>3, <1>4, <1>5, <1>6, <1>7 DEF IInv

LEMMA LookUpStep ==
  ASSUME IInv, NEW e \in Events, LookUp(e)
  PROVE  IInv'
<1> USE SchedulerAssumption DEF Events, Callers, Kinds, timerVars, history
<1>1. TypeOK'
  BY DEF IInv, TypeOK, LookUp, Goto, TimerFrame
<1>2. CountInv'
  BY DEF IInv, TypeOK, CountInv, LookUp, Goto, TimerFrame
<1>3. KindInv'
  BY DEF IInv, TypeOK, KindInv, LookUp, Goto, TimerFrame
<1>4. CancelInv'
  BY DEF IInv, TypeOK, CountInv, CancelInv, LookUp, Goto, TimerFrame
<1>5. StartInv'
  BY DEF IInv, TypeOK, CountInv, KindInv, CancelInv, StartInv, LookUp, Goto,
     TimerFrame
<1>6. OrphanInv'
  BY DEF IInv, TypeOK, CountInv, KindInv, OrphanInv, LookUp, Goto, TimerFrame
<1>7. JoinInv'
  BY DEF IInv, TypeOK, CountInv, JoinInv, LookUp, Goto, TimerFrame
<1> QED BY <1>1, <1>2, <1>3, <1>4, <1>5, <1>6, <1>7 DEF IInv

LEMMA TimerEndsStep ==
  ASSUME IInv, NEW e \in Events, TimerEnds(e)
  PROVE  IInv'
<1> USE SchedulerAssumption DEF Events, Callers, Kinds, timerVars, history
<1>1. TypeOK'
  BY DEF IInv, TypeOK, TimerEnds, Goto, TimerFrame
<1>2. CountInv'
  BY DEF IInv, TypeOK, CountInv, TimerEnds, Goto, TimerFrame
<1>3. KindInv'
  BY DEF IInv, TypeOK, KindInv, TimerEnds, Goto, TimerFrame
<1>4. CancelInv'
  BY DEF IInv, TypeOK, CountInv, CancelInv, TimerEnds, Goto, TimerFrame
<1>5. StartInv'
  BY DEF IInv, TypeOK, CountInv, KindInv, CancelInv, StartInv, TimerEnds,
     Goto, TimerFrame
<1>6. OrphanInv'
  BY DEF IInv, TypeOK, CountInv, KindInv, OrphanInv, TimerEnds, Goto,
     TimerFrame
<1>7. JoinInv'
  BY DEF IInv, TypeOK, CountInv, JoinInv, TimerEnds, Goto, TimerFrame
<1> QED BY <1>1, <1>2, <1>3, <1>4, <1>5, <1>6, <1>7 DEF IInv

(* The main thread, interrupted in run().                                  *)
LEMMA InterruptedStep ==
  ASSUME IInv, Interrupted
  PROVE  IInv'
<1> USE DEF Callers, Kinds, timerVars, history
<1>1. TypeOK'
  BY DEF IInv, TypeOK, Interrupted, Main
<1>2. CountInv' /\ KindInv' /\ CancelInv' /\ StartInv' /\ OrphanInv' /\ JoinInv'
  BY DEF IInv, CountInv, KindInv, CancelInv, StartInv, OrphanInv, JoinInv,
     Interrupted, Main
<1> QED BY <1>1, <1>2 DEF IInv

LEMMA StopSelfStep ==
  ASSUME IInv, StopSelf
  PROVE  IInv'
<1> USE DEF Callers, Kinds, timerVars, history
<1>1. TypeOK'
  BY DEF IInv, TypeOK, StopSelf, Main
<1>2. CountInv' /\ KindInv' /\ CancelInv' /\ StartInv' /\ OrphanInv' /\ JoinInv'
  BY DEF IInv, CountInv, KindInv, CancelInv, StartInv, OrphanInv, JoinInv,
     StopSelf, Main
<1> QED BY <1>1, <1>2 DEF IInv

LEMMA ClearSelfStep ==
  ASSUME IInv, ClearSelf
  PROVE  IInv'
<1> USE SchedulerAssumption DEF Events, Callers, Kinds, timerVars, history
<1>1. TypeOK'
  BY DEF IInv, TypeOK, ClearSelf, Main, CancelAll
<1>2. CountInv'
  BY DEF IInv, TypeOK, CountInv, ClearSelf, Main, CancelAll
<1>3. KindInv'
  BY DEF IInv, TypeOK, KindInv, ClearSelf, Main, CancelAll
<1>4. CancelInv'
  BY DEF IInv, TypeOK, CountInv, CancelInv, ClearSelf, Main, CancelAll
<1>5. StartInv'
  BY DEF IInv, TypeOK, CountInv, KindInv, CancelInv, StartInv, ClearSelf,
     Main, CancelAll
<1>6. OrphanInv'
  BY DEF IInv, TypeOK, CountInv, KindInv, OrphanInv, ClearSelf, Main,
     CancelAll
<1>7. JoinInv'
  BY DEF IInv, TypeOK, CountInv, JoinInv, ClearSelf, Main, CancelAll
<1> QED BY <1>1, <1>2, <1>3, <1>4, <1>5, <1>6, <1>7 DEF IInv

LEMMA GrabStep ==
  ASSUME IInv, Grab
  PROVE  IInv'
<1> USE SchedulerAssumption DEF Events, Callers, Kinds, timerVars, history
<1>1. TypeOK'
  BY DEF IInv, TypeOK, Grab, Main
<1>2. CountInv'
  BY DEF IInv, TypeOK, CountInv, Grab, Main
<1>3. KindInv'
  BY DEF IInv, TypeOK, KindInv, Grab, Main
<1>4. CancelInv'
  BY DEF IInv, TypeOK, CountInv, CancelInv, Grab, Main
<1>5. StartInv'
  BY DEF IInv, TypeOK, CountInv, KindInv, CancelInv, StartInv, Grab, Main
<1>6. OrphanInv'
  BY DEF IInv, TypeOK, CountInv, KindInv, OrphanInv, Grab, Main
<1>7. JoinInv'
  BY DEF IInv, TypeOK, CountInv, JoinInv, Grab, Main
<1> QED BY <1>1, <1>2, <1>3, <1>4, <1>5, <1>6, <1>7 DEF IInv

LEMMA CancelCurrentStep ==
  ASSUME IInv, CancelCurrent
  PROVE  IInv'
<1> USE SchedulerAssumption DEF Events, Callers, Kinds, timerVars, history
<1>c. Current \in joining
  BY CurrentJoined DEF IInv, CancelCurrent
<1>1. TypeOK'
  BY <1>c DEF IInv, TypeOK, CancelCurrent
<1>2. CountInv'
  BY <1>c DEF IInv, TypeOK, CountInv, CancelCurrent
<1>3. KindInv'
  BY <1>c DEF IInv, TypeOK, KindInv, CancelCurrent
<1>4. CancelInv'
  BY <1>c DEF IInv, TypeOK, CountInv, CancelInv, CancelCurrent
<1>5. StartInv'
  BY <1>c DEF IInv, TypeOK, CountInv, KindInv, CancelInv, StartInv,
     CancelCurrent
<1>6. OrphanInv'
  BY <1>c DEF IInv, TypeOK, CountInv, KindInv, OrphanInv, CancelCurrent
<1>7. JoinInv'
  BY <1>c DEF IInv, TypeOK, CountInv, JoinInv, CancelCurrent
<1> QED BY <1>1, <1>2, <1>3, <1>4, <1>5, <1>6, <1>7 DEF IInv

LEMMA JoinCurrentStep ==
  ASSUME IInv, JoinCurrent
  PROVE  IInv'
<1> USE SchedulerAssumption DEF Events, Callers, Kinds, timerVars, history
<1>c. Current \in joining
  BY CurrentJoined DEF IInv, JoinCurrent
<1>1. TypeOK'
  BY <1>c DEF IInv, TypeOK, JoinCurrent
<1>2. CountInv'
  BY <1>c DEF IInv, TypeOK, CountInv, JoinCurrent
<1>3. KindInv'
  BY <1>c DEF IInv, TypeOK, KindInv, JoinCurrent
<1>4. CancelInv'
  BY <1>c DEF IInv, TypeOK, CountInv, CancelInv, JoinCurrent
<1>5. StartInv'
  BY <1>c DEF IInv, TypeOK, CountInv, KindInv, CancelInv, StartInv,
     JoinCurrent
<1>6. OrphanInv'
  BY <1>c DEF IInv, TypeOK, CountInv, KindInv, OrphanInv, JoinCurrent
<1>7. JoinInv'
  BY <1>c DEF IInv, TypeOK, CountInv, JoinInv, JoinCurrent
<1> QED BY <1>1, <1>2, <1>3, <1>4, <1>5, <1>6, <1>7 DEF IInv

LEMMA LeaveStep ==
  ASSUME IInv, Leave
  PROVE  IInv'
<1> USE SchedulerAssumption DEF Events, Callers, Kinds, timerVars, history
<1>1. TypeOK'
  BY DEF IInv, TypeOK, Leave, Main
<1>2. CountInv'
  BY DEF IInv, TypeOK, CountInv, Leave, Main
<1>3. KindInv'
  BY DEF IInv, TypeOK, KindInv, Leave, Main
<1>4. CancelInv'
  BY DEF IInv, TypeOK, CountInv, CancelInv, Leave, Main
<1>5. StartInv'
  BY DEF IInv, TypeOK, CountInv, KindInv, CancelInv, StartInv, Leave, Main
<1>6. OrphanInv'
  BY DEF IInv, TypeOK, CountInv, OrphanInv, JoinInv, Leave, Main
<1>7. JoinInv'
  BY DEF IInv, TypeOK, CountInv, JoinInv, Leave, Main
<1> QED BY <1>1, <1>2, <1>3, <1>4, <1>5, <1>6, <1>7 DEF IInv

LEMMA StepInv ==
  ASSUME IInv, [Next]_vars
  PROVE  IInv'
<1>1. ASSUME NEW a \in Callers, NEW k \in Kinds, ReadStopEvent(a, k)
      PROVE  IInv'
  BY <1>1, ReadStep
<1>2. ASSUME NEW a \in Callers, NEW e \in Events, Cancel(a, e)
      PROVE  IInv'
  BY <1>2, CancelStep
<1>3. ASSUME NEW a \in Callers,
             Register(a) \/ RegisterFails(a) \/ WantStop(a) \/ Clear(a)
      PROVE  IInv'
  BY <1>3, RegisterStep, RegisterFailsStep, WantStopStep, ClearStep
<1>4. ASSUME NEW e \in Events, Timer(e)
      PROVE  IInv'
  BY <1>4, FireOnceStep, FireRepeatStep, BeginRepeatStep, PopEventStep,
     PopFailsStep, FunctionReturnsStep, FunctionRaisesStep, LookUpStep,
     TimerEndsStep DEF Timer
<1>5. ASSUME Interrupted \/ Run
      PROVE  IInv'
  BY <1>5, InterruptedStep, StopSelfStep, ClearSelfStep, GrabStep,
     CancelCurrentStep, JoinCurrentStep, LeaveStep DEF Run
<1>6. ASSUME UNCHANGED vars
      PROVE  IInv'
  BY <1>6 DEF vars, timerVars, history, IInv, TypeOK, CountInv, KindInv,
     CancelInv, StartInv, OrphanInv, JoinInv
<1> QED
  BY <1>1, <1>2, <1>3, <1>4, <1>5, <1>6 DEF Next, Poll

-----------------------------------------------------------------------------
(* Every state reached satisfies the inductive invariant, whoever          *)
(* schedules, cancels or stops, and wherever the timers are.               *)
THEOREM Invariant == Spec => []IInv
<1>1. ASSUME Init
      PROVE  IInv
  <2> USE <1>1, SchedulerAssumption DEF Events
  <2>1. TypeOK
    <3>1. /\ stop_event \in BOOLEAN /\ held \in BOOLEAN /\ cleared \in BOOLEAN
      BY DEF Init
    <3>2. count \in 0..MaxEvents
      BY DEF Init
    <3> QED
      BY <3>1, <3>2 DEF Init, TypeOK, Callers, Kinds
  <2>2. CountInv /\ CancelInv
    BY DEF Init, CountInv, CancelInv
  <2>3. KindInv /\ StartInv
    BY DEF Init, KindInv, StartInv
  <2>4. OrphanInv /\ JoinInv
    BY DEF Init, OrphanInv, JoinInv
  <2> QED
    BY <2>1, <2>2, <2>3, <2>4 DEF IInv
<1>2. IInv /\ [Next]_vars => IInv'
  BY StepInv
<1> QED
  BY <1>1, <1>2, PTL DEF Spec

(* The state of the scheduler always has its type.                         *)
THEOREM TypeCorrect == Spec => []TypeOK
<1>1. IInv => TypeOK
  BY DEF IInv
<1> QED
  BY <1>1, Invariant, PTL

(* A one-shot event runs at most once and never once cancelled, and a      *)
(* cancelled repeated one is started at most once more, with any number of *)
(* threads and events (scheduler.py:122 and 138).                          *)
THEOREM CancelledOrRun == Spec => []CancelOrRun
<1>1. IInv => CancelOrRun
  BY DEF IInv, TypeOK, StartInv, CancelOrRun
<1> QED
  BY <1>1, Invariant, PTL

(* No timer goes on that the queue has forgotten and that was not told to  *)
(* end (scheduler.py:116, 122, 138 and 171).                               *)
THEOREM NoOrphan == Spec => []NoOrphanTimer
<1>1. IInv => NoOrphanTimer
  BY DEF IInv, OrphanInv, NoOrphanTimer
<1> QED
  BY <1>1, Invariant, PTL
=============================================================================
