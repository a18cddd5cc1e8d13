--------------------------- MODULE RetryOnLogout ---------------------------
(***************************************************************************)
(* woob/browser/retry.py: retry_on_logout() and iter_retry.                *)
(*                                                                         *)
(* The decorated function is called up to Tries times; if it returns an    *)
(* iterator, iter_retry() recreates it when the site logs the session out  *)
(* and skips what it already yielded.  The site is the environment: each   *)
(* call of the function may raise LoggedOut, return a plain value, or      *)
(* iterate on one of Replies, and any item may raise LoggedOut instead.    *)
(* An exception of another class is not retried, wherever it comes from.   *)
(***************************************************************************)
EXTENDS Naturals, Sequences, SequencesExt

CONSTANTS
  Tries,      \* tries of retry_on_logout()
  Replies,    \* what the site may answer, as sequences of items
  MaxErrors   \* bound: errors after which the program still calls next()

Items == UNION {{r[i] : i \in DOMAIN r} : r \in Replies}

ASSUME RetryAssumption ==
  Tries \in Nat /\ MaxErrors \in Nat /\ Replies # {}
    /\ \A r \in Replies : r \in Seq(Items)

VARIABLES
  pc,         \* "wrapper", "ready" (for next()), "next", "replay", "draw", "end"
  left,       \* tries the loop of the wrapper has left
  remaining,  \* iter_retry.remaining
  live,       \* is self.it set?
  reply,      \* what the iterator self.it iterates on
  drawn,      \* items drawn from self.it
  items,      \* items already yielded
  result,     \* the last thing the program got
  (* history *)
  calls,      \* calls of the decorated function
  errors      \* exceptions the program got from next()

iterVars == <<live, reply, drawn>>
vars == <<pc, left, remaining, iterVars, items, result, calls, errors>>

Init ==
  /\ pc = "wrapper" /\ left = Tries /\ remaining = 0
  /\ live = FALSE /\ reply = <<>> /\ drawn = 0 /\ items = <<>>
  /\ result = "none" /\ calls = 0 /\ errors = 0

Goto(from, to) == pc = from /\ pc' = to

-----------------------------------------------------------------------------
(* The wrapper of the decorated function.                                  *)

CallRaises ==
  /\ Goto("wrapper", "wrapper") /\ left > 0
  /\ calls' = calls + 1 /\ left' = left - 1
  /\ UNCHANGED <<remaining, iterVars, items, result, errors>>

CallFails ==   \* with another exception
  /\ Goto("wrapper", "end") /\ left > 0
  /\ calls' = calls + 1 /\ result' = "Exception"
  /\ UNCHANGED <<left, remaining, iterVars, items, errors>>

CallReturnsValue ==
  /\ Goto("wrapper", "end") /\ left > 0
  /\ calls' = calls + 1 /\ result' = "value"
  /\ UNCHANGED <<left, remaining, iterVars, items, errors>>

IteratorOneTryMore(r) ==   \* mutant: counts from range(tries + 1, 0, -1)
  /\ Goto("wrapper", "ready") /\ left > 0
  /\ calls' = calls + 1 /\ result' = "iterator"
  /\ remaining' = left + 1
  /\ live' = TRUE /\ reply' = r /\ drawn' = 0
  /\ UNCHANGED <<left, items, errors>>

CallReturnsIterator(r) ==
  /\ Goto("wrapper", "ready") /\ left > 0
  /\ calls' = calls + 1 /\ result' = "iterator"
  /\ remaining' = left
  /\ live' = TRUE /\ reply' = r /\ drawn' = 0
  /\ UNCHANGED <<left, items, errors>>

GiveUp ==
  /\ Goto("wrapper", "end") /\ left = 0
  /\ result' = "BrowserUnavailable"
  /\ UNCHANGED <<left, remaining, iterVars, items, calls, errors>>

-----------------------------------------------------------------------------
(* iter_retry.__next__(), which calls itself again after a LoggedOut.      *)

(* The program calls next() again after an error only MaxErrors times.     *)
Ask ==
  /\ Goto("ready", "next") /\ errors <= MaxErrors
  /\ UNCHANGED <<left, remaining, iterVars, items, result, calls, errors>>

Fails(exc) ==   \* an exception leaves next() and the program sees it
  /\ pc' = "ready" /\ result' = exc /\ errors' = errors + 1
  /\ UNCHANGED <<left, items>>

NoTriesLeft ==
  /\ pc = "next" /\ remaining = 0
  /\ Fails("BrowserUnavailable")
  /\ UNCHANGED <<remaining, iterVars, calls>>

UseIterator ==
  /\ Goto("next", "draw") /\ remaining > 0 /\ live
  /\ UNCHANGED <<left, remaining, iterVars, items, result, calls, errors>>

CallAgain(r) ==
  /\ Goto("next", "replay") /\ remaining > 0 /\ ~live
  /\ calls' = calls + 1
  /\ live' = TRUE /\ reply' = r /\ drawn' = 0
  /\ UNCHANGED <<left, remaining, items, result, errors>>

(* self.it = iter(self.cb()) stands outside every try statement: a logout  *)
(* there leaves next() like any other exception.                           *)
CallAgainRaises ==
  /\ pc = "next" /\ remaining > 0 /\ ~live
  /\ calls' = calls + 1
  /\ Fails("LoggedOut")
  /\ UNCHANGED <<remaining, iterVars>>

Replayed == drawn = Len(items)

ReplayUnchecked ==   \* mutant: skips as many items, whatever they are
  /\ Goto("replay", "replay") /\ ~Replayed
  /\ drawn < Len(reply)
  /\ drawn' = drawn + 1
  /\ UNCHANGED <<left, remaining, live, reply, items, result, calls, errors>>

ReplayItem ==
  /\ Goto("replay", "replay") /\ ~Replayed
  /\ drawn < Len(reply) /\ reply[drawn + 1] = items[drawn + 1]
  /\ drawn' = drawn + 1
  /\ UNCHANGED <<left, remaining, live, reply, items, result, calls, errors>>

ReplayDiffers ==
  /\ pc = "replay" /\ ~Replayed
  /\ drawn < Len(reply) /\ reply[drawn + 1] # items[drawn + 1]
  /\ drawn' = drawn + 1
  /\ Fails("BrowserUnavailable")
  /\ UNCHANGED <<remaining, live, reply, calls>>

ReplayTooShort ==
  /\ pc = "replay" /\ ~Replayed /\ drawn = Len(reply)
  /\ Fails("BrowserUnavailable")
  /\ UNCHANGED <<remaining, iterVars, calls>>

ReplayEnds ==
  /\ Goto("replay", "draw") /\ Replayed
  /\ UNCHANGED <<left, remaining, iterVars, items, result, calls, errors>>

LoggedOutUncounted ==   \* mutant: remaining is left alone
  /\ pc = "draw" \/ (pc = "replay" /\ ~Replayed)
  /\ pc' = "next"
  /\ live' = FALSE /\ drawn' = 0 /\ reply' = <<>>
  /\ UNCHANGED <<left, remaining, items, result, calls, errors>>

LoggedOut ==   \* while it replays or draws
  /\ pc = "draw" \/ (pc = "replay" /\ ~Replayed)
  /\ pc' = "next"
  /\ live' = FALSE /\ drawn' = 0 /\ reply' = <<>>
  /\ remaining' = remaining - 1
  /\ UNCHANGED <<left, items, result, calls, errors>>

ItemFails ==   \* another exception: an iterator that raised it has ended
  /\ pc = "draw" \/ (pc = "replay" /\ ~Replayed)
  /\ reply' = <<>> /\ drawn' = 0
  /\ Fails("Exception")
  /\ UNCHANGED <<remaining, live, calls>>

Yield ==
  /\ Goto("draw", "ready") /\ drawn < Len(reply)
  /\ drawn' = drawn + 1
  /\ items' = Append(items, reply[drawn + 1])
  /\ result' = "item"
  /\ UNCHANGED <<left, remaining, live, reply, calls, errors>>

StopRetried ==   \* mutant: StopIteration is taken for a logout that costs no try
  /\ Goto("draw", "next") /\ drawn = Len(reply)
  /\ UNCHANGED <<left, remaining, iterVars, items, result, calls, errors>>

Stop ==
  /\ Goto("draw", "end") /\ drawn = Len(reply)
  /\ result' = "StopIteration"
  /\ UNCHANGED <<left, remaining, iterVars, items, calls, errors>>

(* The program has its value or leaves its loop.                           *)
Done == pc = "end" \/ (pc = "ready" /\ errors > MaxErrors)
Terminated == Done /\ UNCHANGED vars

Step ==
  \/ CallRaises \/ CallFails \/ CallReturnsValue \/ GiveUp
  \/ \E r \in Replies : CallReturnsIterator(r) \/ CallAgain(r)
  \/ NoTriesLeft \/ UseIterator \/ CallAgainRaises
  \/ ReplayItem \/ ReplayDiffers \/ ReplayTooShort \/ ReplayEnds
  \/ LoggedOut \/ ItemFails \/ Yield \/ Stop

Next == Ask \/ Step \/ Terminated

(* The site answers every request.                                         *)
Fairness == WF_vars(Step)

Spec     == Init /\ [][Next]_vars
FairSpec == Spec /\ Fairness
-----------------------------------------------------------------------------
(* Properties.                                                             *)

TypeOK ==
  /\ pc \in {"wrapper", "ready", "next", "replay", "draw", "end"}
  /\ left \in 0..Tries /\ remaining \in 0..Tries
  /\ live \in BOOLEAN
  /\ reply \in Replies \cup {<<>>}
  /\ drawn \in 0..Len(reply)
  /\ items \in Seq(Items)
  /\ calls \in Nat /\ errors \in Nat

(* The function is called at most Tries times over the wrapper and all its *)
(* retries (retry.py:53), but for the calls that failed in the program's   *)
(* face, which iter_retry does not count.                                  *)
AtMostTries == calls <= Tries + errors

(* What a loop that ends at the first error got is always the beginning of *)
(* the answer it is being given, and in the end a whole answer: nothing is *)
(* given twice or skipped, and nothing of an older answer that the new one *)
(* contradicts (retry.py:58 and 150-163).                                  *)
GivesReply ==
  errors = 0 => /\ result = "item" /\ live /\ pc = "ready" => IsPrefix(items, reply)
                /\ result = "StopIteration" => items \in Replies

(* A call of next() or of the decorated function ends.                     *)
Answers == pc \in {"wrapper", "next"} ~> pc \in {"ready", "end"}
=============================================================================
