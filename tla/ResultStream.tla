---------------------------- MODULE ResultStream ----------------------------
(***************************************************************************)
(* What a BackendsCall (woob/core/bcall.py) promises to the program that   *)
(* consumes it: every value stored by a task is handed out exactly once,   *)
(* and the stream ends for a consumer only when no task can store anything *)
(* more and nothing is left to hand out, unless the call was halted.       *)
(***************************************************************************)
CONSTANTS Tasks, Values, Consumers

VARIABLES
  open,    \* tasks that may still store values
  ready,   \* values stored and not handed out yet
  given,   \* values handed out
  halted,  \* stop() was called
  over     \* consumers for which the stream has ended

vars == <<open, ready, given, halted, over>>

Init == open = Tasks /\ ready = {} /\ given = {} /\ halted = FALSE /\ over = {}

Store(v) ==
  /\ v.task \in open /\ v \notin ready \cup given
  /\ ready' = ready \cup {v}
  /\ UNCHANGED <<open, given, halted, over>>

Close(k) ==
  /\ k \in open
  /\ open' = open \ {k}
  /\ UNCHANGED <<ready, given, halted, over>>

Give(v) ==
  /\ v \in ready
  /\ ready' = ready \ {v} /\ given' = given \cup {v}
  /\ UNCHANGED <<open, halted, over>>

Halt == halted' = TRUE /\ UNCHANGED <<open, ready, given, over>>

End(c) ==
  /\ halted \/ (open = {} /\ ready = {})
  /\ over' = over \cup {c}
  /\ UNCHANGED <<open, ready, given, halted>>

Next ==
  \/ \E v \in Values : Store(v) \/ Give(v)
  \/ \E k \in Tasks : Close(k)
  \/ Halt
  \/ \E c \in Consumers : End(c)

Spec == Init /\ [][Next]_vars
=============================================================================
