------------------------- MODULE RetryOnLogoutProofs -------------------------
(***************************************************************************)
(* Proofs about RetryOnLogout, for any number of tries and any answers of  *)
(* the site: what the tries that are left promise about the calls, and     *)
(* how the iterator in use agrees with what was already yielded.           *)
(***************************************************************************)
EXTENDS RetryOnLogout, TLAPS

(* An iterator is in use only while a try is left for it.                  *)
PlaceInv ==
  /\ pc = "wrapper" => ~live /\ items = <<>> /\ remaining = 0
  /\ pc \in {"replay", "draw"} => live
  /\ live => (errors = 0 => reply \in Replies) /\ remaining > 0
  /\ result = "StopIteration" => pc = "end"

(* A call that is under way has taken its try out of `left`, but not out   *)
(* of `remaining`, which only a logout decreases.                          *)
CountInv ==
  /\ pc = "wrapper" => calls + left = Tries
  /\ pc # "wrapper" =>
       calls + remaining <= Tries + errors + (IF live THEN 1 ELSE 0)

(* What was drawn in a replay is what was yielded; afterwards, and until   *)
(* an exception leaves next(), the iterator stands after the last item.    *)
Agree == \A i \in 1..drawn : i <= Len(items) /\ items[i] = reply[i]
DrawnInv ==
  /\ pc = "replay" => drawn <= Len(items) /\ Agree
  /\ errors = 0 /\ pc \in {"ready", "next", "draw"} /\ live => Replayed /\ Agree
  /\ errors = 0 /\ result = "StopIteration" => items \in Replies

IInv == TypeOK /\ PlaceInv /\ CountInv /\ DrawnInv
-----------------------------------------------------------------------------
(* The wrapper of the decorated function.                                  *)
LEMMA CallRaisesStep ==
  ASSUME IInv, CallRaises
  PROVE  IInv'
<1> USE RetryAssumption DEF iterVars
<1>1. TypeOK'
  BY DEF IInv, TypeOK, PlaceInv, CallRaises, Goto
<1>2. PlaceInv'
  BY DEF IInv, TypeOK, PlaceInv, CallRaises, Goto
<1>3. CountInv'
  BY DEF IInv, TypeOK, PlaceInv, CountInv, CallRaises, Goto
<1>4. DrawnInv'
  BY DEF IInv, TypeOK, PlaceInv, DrawnInv, CallRaises, Goto, Agree, Replayed
<1> QED BY <1>1, <1>2, <1>3, <1>4 DEF IInv

LEMMA CallFailsStep ==
  ASSUME IInv, CallFails
  PROVE  IInv'
<1> USE RetryAssumption DEF iterVars
<1>1. TypeOK'
  BY DEF IInv, TypeOK, PlaceInv, CallFails, Goto
<1>2. PlaceInv'
  BY DEF IInv, TypeOK, PlaceInv, CallFails, Goto
<1>3. CountInv'
  BY DEF IInv, TypeOK, PlaceInv, CountInv, CallFails, Goto
<1>4. DrawnInv'
  BY DEF IInv, TypeOK, PlaceInv, DrawnInv, Agree, Replayed, CallFails, Goto
<1> QED BY <1>1, <1>2, <1>3, <1>4 DEF IInv

LEMMA CallReturnsValueStep ==
  ASSUME IInv, CallReturnsValue
  PROVE  IInv'
<1> USE RetryAssumption DEF iterVars
<1>1. TypeOK'
  BY DEF IInv, TypeOK, PlaceInv, CallReturnsValue, Goto
<1>2. PlaceInv'
  BY DEF IInv, TypeOK, PlaceInv, CallReturnsValue, Goto
<1>3. CountInv'
  BY DEF IInv, TypeOK, PlaceInv, CountInv, CallReturnsValue, Goto
<1>4. DrawnInv'
  BY DEF IInv, TypeOK, PlaceInv, DrawnInv, CallReturnsValue, Goto, Agree,
     Replayed
<1> QED BY <1>1, <1>2, <1>3, <1>4 DEF IInv

LEMMA GiveUpStep ==
  ASSUME IInv, GiveUp
  PROVE  IInv'
<1> USE RetryAssumption DEF iterVars
<1>1. TypeOK'
  BY DEF IInv, TypeOK, PlaceInv, GiveUp, Goto
<1>2. PlaceInv'
  BY DEF IInv, TypeOK, PlaceInv, GiveUp, Goto
<1>3. CountInv'
  BY DEF IInv, TypeOK, PlaceInv, CountInv, GiveUp, Goto
<1>4. DrawnInv'
  BY DEF IInv, TypeOK, PlaceInv, DrawnInv, GiveUp, Goto, Agree, Replayed
<1> QED BY <1>1, <1>2, <1>3, <1>4 DEF IInv

LEMMA CallReturnsIteratorStep ==
  ASSUME IInv, NEW r \in Replies, CallReturnsIterator(r)
  PROVE  IInv'
<1> USE RetryAssumption DEF iterVars
<1>1. TypeOK'
  BY DEF IInv, TypeOK, PlaceInv, CallReturnsIterator, Goto
<1>2. PlaceInv'
  BY DEF IInv, TypeOK, PlaceInv, CallReturnsIterator, Goto
<1>3. CountInv'
  BY DEF IInv, TypeOK, PlaceInv, CountInv, CallReturnsIterator, Goto
<1>4. DrawnInv'
  BY DEF IInv, TypeOK, PlaceInv, DrawnInv, CallReturnsIterator, Goto, Agree,
     Replayed
<1> QED BY <1>1, <1>2, <1>3, <1>4 DEF IInv

(* iter_retry.__next__().                                                  *)
LEMMA CallAgainStep ==
  ASSUME IInv, NEW r \in Replies, CallAgain(r)
  PROVE  IInv'
<1> USE RetryAssumption DEF iterVars
<1>1. TypeOK'
  BY DEF IInv, TypeOK, PlaceInv, CallAgain, Goto
<1>2. PlaceInv'
  BY DEF IInv, TypeOK, PlaceInv, CallAgain, Goto
<1>3. CountInv'
  BY DEF IInv, TypeOK, PlaceInv, CountInv, CallAgain, Goto
<1>4. DrawnInv'
  BY DEF IInv, TypeOK, PlaceInv, DrawnInv, CallAgain, Goto, Agree, Replayed
<1> QED BY <1>1, <1>2, <1>3, <1>4 DEF IInv

LEMMA AskStep ==
  ASSUME IInv, Ask
  PROVE  IInv'
<1> USE RetryAssumption DEF iterVars
<1>1. TypeOK'
  BY DEF IInv, TypeOK, PlaceInv, Ask, Goto
<1>2. PlaceInv'
  BY DEF IInv, TypeOK, PlaceInv, Ask, Goto
<1>3. CountInv'
  BY DEF IInv, TypeOK, PlaceInv, CountInv, Ask, Goto
<1>4. DrawnInv'
  BY DEF IInv, TypeOK, PlaceInv, DrawnInv, Ask, Goto, Agree, Replayed
<1> QED BY <1>1, <1>2, <1>3, <1>4 DEF IInv

LEMMA NoTriesLeftStep ==
  ASSUME IInv, NoTriesLeft
  PROVE  IInv'
<1> USE RetryAssumption DEF iterVars
<1>1. TypeOK'
  BY DEF IInv, TypeOK, PlaceInv, NoTriesLeft, Fails
<1>2. PlaceInv'
  BY DEF IInv, TypeOK, PlaceInv, NoTriesLeft, Fails
<1>3. CountInv'
  BY DEF IInv, TypeOK, PlaceInv, CountInv, NoTriesLeft, Fails
<1>4. DrawnInv'
  BY DEF IInv, TypeOK, PlaceInv, DrawnInv, NoTriesLeft, Fails, Agree,
     Replayed
<1> QED BY <1>1, <1>2, <1>3, <1>4 DEF IInv

LEMMA UseIteratorStep ==
  ASSUME IInv, UseIterator
  PROVE  IInv'
<1> USE RetryAssumption DEF iterVars
<1>1. TypeOK'
  BY DEF IInv, TypeOK, PlaceInv, UseIterator, Goto
<1>2. PlaceInv'
  BY DEF IInv, TypeOK, PlaceInv, UseIterator, Goto
<1>3. CountInv'
  BY DEF IInv, TypeOK, PlaceInv, CountInv, UseIterator, Goto
<1>4. DrawnInv'
  BY DEF IInv, TypeOK, PlaceInv, DrawnInv, UseIterator, Goto, Agree, Replayed
<1> QED BY <1>1, <1>2, <1>3, <1>4 DEF IInv

LEMMA CallAgainRaisesStep ==
  ASSUME IInv, CallAgainRaises
  PROVE  IInv'
<1> USE RetryAssumption DEF iterVars
<1>1. TypeOK'
  BY DEF IInv, TypeOK, PlaceInv, CallAgainRaises, Fails
<1>2. PlaceInv'
  BY DEF IInv, TypeOK, PlaceInv, CallAgainRaises, Fails
<1>3. CountInv'
  BY DEF IInv, TypeOK, PlaceInv, CountInv, CallAgainRaises, Fails
<1>4. DrawnInv'
  BY DEF IInv, TypeOK, PlaceInv, DrawnInv, CallAgainRaises, Fails, Agree,
     Replayed
<1> QED BY <1>1, <1>2, <1>3, <1>4 DEF IInv

LEMMA ReplayItemStep ==
  ASSUME IInv, ReplayItem
  PROVE  IInv'
<1> USE RetryAssumption DEF iterVars
<1>1. TypeOK'
  BY DEF IInv, TypeOK, PlaceInv, ReplayItem, Goto, Replayed
<1>2. PlaceInv'
  BY DEF IInv, TypeOK, PlaceInv, ReplayItem, Goto, Replayed
<1>3. CountInv'
  BY DEF IInv, TypeOK, PlaceInv, CountInv, ReplayItem, Goto, Replayed
<1>4. DrawnInv'
  BY DEF IInv, TypeOK, PlaceInv, DrawnInv, ReplayItem, Goto, Replayed, Agree,
     Replayed
<1> QED BY <1>1, <1>2, <1>3, <1>4 DEF IInv

LEMMA ReplayDiffersStep ==
  ASSUME IInv, ReplayDiffers
  PROVE  IInv'
<1> USE RetryAssumption DEF iterVars
<1>1. TypeOK'
  BY DEF IInv, TypeOK, PlaceInv, ReplayDiffers, Fails, Replayed
<1>2. PlaceInv'
  BY DEF IInv, TypeOK, PlaceInv, ReplayDiffers, Fails, Replayed
<1>3. CountInv'
  BY DEF IInv, TypeOK, PlaceInv, CountInv, ReplayDiffers, Fails, Replayed
<1>4. DrawnInv'
  BY DEF IInv, TypeOK, PlaceInv, DrawnInv, ReplayDiffers, Fails, Replayed,
     Agree, Replayed
<1> QED BY <1>1, <1>2, <1>3, <1>4 DEF IInv

LEMMA ReplayTooShortStep ==
  ASSUME IInv, ReplayTooShort
  PROVE  IInv'
<1> USE RetryAssumption DEF iterVars
<1>1. TypeOK'
  BY DEF IInv, TypeOK, PlaceInv, ReplayTooShort, Fails, Replayed
<1>2. PlaceInv'
  BY DEF IInv, TypeOK, PlaceInv, ReplayTooShort, Fails, Replayed
<1>3. CountInv'
  BY DEF IInv, TypeOK, PlaceInv, CountInv, ReplayTooShort, Fails, Replayed
<1>4. DrawnInv'
  BY DEF IInv, TypeOK, PlaceInv, DrawnInv, ReplayTooShort, Fails, Replayed,
     Agree, Replayed
<1> QED BY <1>1, <1>2, <1>3, <1>4 DEF IInv

LEMMA ReplayEndsStep ==
  ASSUME IInv, ReplayEnds
  PROVE  IInv'
<1> USE RetryAssumption DEF iterVars
<1>1. TypeOK'
  BY DEF IInv, TypeOK, PlaceInv, ReplayEnds, Goto
<1>2. PlaceInv'
  BY DEF IInv, TypeOK, PlaceInv, ReplayEnds, Goto
<1>3. CountInv'
  BY DEF IInv, TypeOK, PlaceInv, CountInv, ReplayEnds, Goto
<1>4. DrawnInv'
  BY DEF IInv, TypeOK, PlaceInv, DrawnInv, ReplayEnds, Goto, Agree, Replayed
<1> QED BY <1>1, <1>2, <1>3, <1>4 DEF IInv

LEMMA LoggedOutStep ==
  ASSUME IInv, LoggedOut
  PROVE  IInv'
<1> USE RetryAssumption DEF iterVars
<1>1. TypeOK'
  <2>1. remaining' \in 0..Tries
    BY DEF IInv, TypeOK, PlaceInv, LoggedOut
  <2>2. reply' \in Replies \cup {<<>>} /\ drawn' \in 0..Len(reply')
    BY DEF LoggedOut
  <2>3. live' \in BOOLEAN
    BY DEF LoggedOut
  <2> QED
    BY <2>1, <2>2, <2>3 DEF IInv, TypeOK, LoggedOut
<1>2. PlaceInv'
  BY DEF IInv, TypeOK, PlaceInv, LoggedOut, Replayed
<1>3. CountInv'
  BY DEF IInv, TypeOK, PlaceInv, CountInv, LoggedOut, Replayed
<1>4. DrawnInv'
  BY DEF IInv, TypeOK, PlaceInv, DrawnInv, LoggedOut, Replayed, Agree,
     Replayed
<1> QED BY <1>1, <1>2, <1>3, <1>4 DEF IInv

LEMMA ItemFailsStep ==
  ASSUME IInv, ItemFails
  PROVE  IInv'
<1> USE RetryAssumption DEF iterVars
<1>1. TypeOK'
  BY DEF IInv, TypeOK, PlaceInv, ItemFails, Fails
<1>2. PlaceInv'
  BY DEF IInv, TypeOK, PlaceInv, ItemFails, Fails
<1>3. CountInv'
  BY DEF IInv, TypeOK, PlaceInv, CountInv, ItemFails, Fails
<1>4. DrawnInv'
  BY DEF IInv, TypeOK, PlaceInv, DrawnInv, Agree, Replayed, ItemFails, Fails
<1> QED BY <1>1, <1>2, <1>3, <1>4 DEF IInv

LEMMA YieldStep ==
  ASSUME IInv, Yield
  PROVE  IInv'
<1> USE RetryAssumption DEF iterVars
<1>1. TypeOK'
  BY DEF IInv, TypeOK, PlaceInv, Yield, Goto
<1>2. PlaceInv'
  BY DEF IInv, TypeOK, PlaceInv, Yield, Goto
<1>3. CountInv'
  BY DEF IInv, TypeOK, PlaceInv, CountInv, Yield, Goto
<1>4. DrawnInv'
  BY DEF IInv, TypeOK, PlaceInv, DrawnInv, Yield, Goto, Agree, Replayed
<1> QED BY <1>1, <1>2, <1>3, <1>4 DEF IInv

LEMMA StopStep ==
  ASSUME IInv, Stop
  PROVE  IInv'
<1> USE RetryAssumption DEF iterVars
<1>1. TypeOK'
  BY DEF IInv, TypeOK, PlaceInv, Stop, Goto
<1>2. PlaceInv'
  BY DEF IInv, TypeOK, PlaceInv, Stop, Goto
<1>3. CountInv'
  BY DEF IInv, TypeOK, PlaceInv, CountInv, Stop, Goto
<1>4. DrawnInv'
  BY DEF IInv, TypeOK, PlaceInv, DrawnInv, Stop, Goto, Agree, Replayed
<1> QED BY <1>1, <1>2, <1>3, <1>4 DEF IInv

LEMMA StepInv ==
  ASSUME IInv, [Next]_vars
  PROVE  IInv'
<1>1. ASSUME UNCHANGED vars
      PROVE  IInv'
  BY <1>1 DEF vars, iterVars, IInv, TypeOK, PlaceInv, CountInv, DrawnInv,
     Agree, Replayed
<1> QED
  BY <1>1, CallRaisesStep, CallFailsStep, ItemFailsStep, CallReturnsValueStep, GiveUpStep,
     CallReturnsIteratorStep, CallAgainStep, AskStep, NoTriesLeftStep,
     UseIteratorStep, CallAgainRaisesStep, ReplayItemStep, ReplayDiffersStep,
     ReplayTooShortStep, ReplayEndsStep, LoggedOutStep, YieldStep, StopStep
     DEF Next, Step, Terminated

-----------------------------------------------------------------------------
(* Every state reached satisfies the inductive invariant, whatever the     *)
(* site answers and wherever it logs out.                                  *)
THEOREM Invariant == Spec => []IInv
<1>1. ASSUME Init
      PROVE  IInv
  <2> USE <1>1, RetryAssumption DEF Init
  <2>1. TypeOK
    <3>1. reply \in Replies \cup {<<>>} /\ drawn \in 0..Len(reply)
      OBVIOUS
    <3>2. live \in BOOLEAN
      OBVIOUS
    <3>3. items \in Seq(Items)
      OBVIOUS
    <3> QED
      BY <3>1, <3>2, <3>3 DEF TypeOK
  <2>2. PlaceInv /\ CountInv
    BY DEF PlaceInv, CountInv
  <2>3. DrawnInv
    BY DEF DrawnInv
  <2> QED
    BY <2>1, <2>2, <2>3 DEF IInv
<1>2. IInv /\ [Next]_vars => IInv'
  BY StepInv
<1> QED
  BY <1>1, <1>2, PTL DEF Spec

(* The state of a call and of its iteration always has its type.           *)
THEOREM TypeCorrect == Spec => []TypeOK
<1>1. IInv => TypeOK
  BY DEF IInv
<1> QED
  BY <1>1, Invariant, PTL

(* Over the wrapper and all the retries of the iteration, the function is  *)
(* called at most `tries` times, but for the calls that failed in the      *)
(* program's face (retry.py:53).                                           *)
THEOREM TriesBounded == Spec => []AtMostTries
<1>1. ASSUME IInv
      PROVE  AtMostTries
  BY <1>1, RetryAssumption DEF IInv, TypeOK, PlaceInv, CountInv, AtMostTries
<1> QED
  BY <1>1, Invariant, PTL

(* A loop that ends at its first error was always given the beginning of   *)
(* the answer in use, and at the end a whole answer, however often the     *)
(* site logged out and whatever it answered before (retry.py:150-163).     *)
THEOREM ReplyGiven == Spec => []GivesReply
<1>1. ASSUME IInv
      PROVE  GivesReply
  <2>1. ASSUME errors = 0, live, pc = "ready"
        PROVE  IsPrefix(items, reply)
    <3>1. /\ reply \in Seq(Items) /\ items \in Seq(Items)
          /\ Len(items) <= Len(reply)
          /\ \A i \in 1..Len(items) : items[i] = reply[i]
      BY <1>1, <2>1, RetryAssumption DEF IInv, TypeOK, PlaceInv, DrawnInv,
         Agree, Replayed
    <3> QED
      BY <3>1 DEF IsPrefix
  <2> QED
    BY <1>1, <2>1 DEF IInv, DrawnInv, GivesReply
<1> QED
  BY <1>1, Invariant, PTL

(* The steps that a try has left at most: to draw again what was yielded,  *)
(* and to draw the next item.                                              *)
StepsLeft ==
  CASE pc = "next"   -> Len(items) + 2
    [] pc = "replay" -> Len(items) - drawn + 1
    [] OTHER         -> 0

Nearer ==
  pc \in {"wrapper", "next", "replay", "draw"} =>
    \/ pc' \in {"ready", "end"}
    \/ pc = "wrapper" /\ left' < left
    \/ pc # "wrapper" /\ remaining' < remaining
    \/ pc # "wrapper" /\ remaining' = remaining /\ StepsLeft' < StepsLeft

(* No call goes on for ever: whatever the site answers, each step of a     *)
(* call of the function or of next() either is its last, or leaves fewer   *)
(* tries, or as many and fewer steps of this one (retry.py:62, 136-157).   *)
(* With the fairness of Step this is why Answers holds.                    *)
EachStepNears == [][Nearer]_vars

LEMMA StepNears ==
  ASSUME IInv, Next, pc \in {"wrapper", "next", "replay", "draw"}, pc' \notin {"ready", "end"}
  PROVE  /\ StepsLeft \in Nat
         /\ \/ pc = "wrapper" /\ left' < left
            \/ pc # "wrapper" /\ remaining' < remaining
            \/ pc # "wrapper" /\ remaining' = remaining /\ StepsLeft' < StepsLeft
<1>1. /\ left \in Nat /\ remaining \in Nat /\ drawn \in Nat /\ Len(items) \in Nat
      /\ pc = "replay" => drawn <= Len(items)
  BY RetryAssumption DEF IInv, TypeOK, DrawnInv
<1>2. StepsLeft \in Nat
  BY <1>1 DEF StepsLeft
<1>3. CASE CallRaises
  BY <1>1, <1>2, <1>3 DEF CallRaises, Goto
<1>4. CASE UseIterator \/ \E r \in Replies : CallAgain(r)
  BY <1>1, <1>4 DEF UseIterator, CallAgain, Goto, iterVars, StepsLeft
<1>5. CASE ReplayItem \/ ReplayEnds
  BY <1>1, <1>5 DEF ReplayItem, ReplayEnds, Goto, Replayed, iterVars, StepsLeft
<1>6. CASE LoggedOut
  BY <1>1, <1>2, <1>6 DEF LoggedOut
<1>7. CASE \/ CallFails \/ ItemFails \/ CallReturnsValue \/ GiveUp \/ (\E r \in Replies : CallReturnsIterator(r))
           \/ NoTriesLeft \/ CallAgainRaises \/ ReplayDiffers \/ ReplayTooShort \/ Yield \/ Stop
  BY <1>7 DEF CallFails, ItemFails, CallReturnsValue, GiveUp, CallReturnsIterator, NoTriesLeft, CallAgainRaises,
     ReplayDiffers, ReplayTooShort, Yield, Stop, Fails, Goto
<1>8. CASE Ask \/ Terminated
  BY <1>8 DEF Ask, Terminated, Done, Goto
<1> QED  BY <1>2, <1>3, <1>4, <1>5, <1>6, <1>7, <1>8 DEF Next, Step

(* EachStepNears, for any number of tries and any finite answers.          *)
THEOREM CallsNearTheirEnd == Spec => EachStepNears
<1>1. IInv /\ [Next]_vars => [Nearer]_vars
  BY StepNears DEF Nearer
<1> QED  BY Invariant, <1>1, PTL DEF Spec, EachStepNears
=============================================================================
