-------------------------- MODULE StandardStorage --------------------------
(***************************************************************************)
(* woob/tools/storage.py and the YamlConfig it keeps its document in       *)
(* (woob/tools/config/yamlconfig.py), as the backends use them.            *)
(*                                                                         *)
(* All backends of a program share one document in memory, one subtree     *)
(* each, and a save by any of them writes the whole document.  A backend   *)
(* changes and saves its subtree in the thread that holds its lock, so a   *)
(* backend stands for its thread; nothing keeps the threads of several     *)
(* backends, or several programs on one file, apart.  A backend loads its  *)
(* subtree each time it is created, in a program whose other backends may  *)
(* be saving; for the time of the load there is only its default in the    *)
(* document.  A program may be killed at any step.  A subtree is           *)
(* abstracted to the number of the change that made it.                    *)
(***************************************************************************)
EXTENDS Naturals, FiniteSets

CONSTANTS
  Programs,   \* processes that use the same storage file
  N,          \* the backends are 1..N, in the order a dump visits them
  MaxChanges  \* bound: changes made in all

Backends == 1..N
Bare     == MaxChanges + 1   \* the default alone, put there by a load under way
Missing  == MaxChanges + 2   \* no such subtree: what a partial dump holds
Threads  == Programs \X Backends

ASSUME StorageAssumption == N \in Nat \ {0} /\ MaxChanges \in Nat

VARIABLES
  file,     \* the document on disk, by backend
  values,   \* config.values of each program
  pc,       \* where each backend is: not loaded, loading, idle or saving
  found,    \* the subtree its load() found in the document
  next,     \* the subtree its dump visits next
  temp,     \* the temporary file it writes
  changes,  \* changes made so far
  (* history *)
  alone,    \* threads whose save began while no other was under way
  kept      \* the newest change of each backend written by such a save

history == <<alone, kept>>
vars == <<file, values, pc, found, next, temp, changes, history>>

Doc   == [Backends -> 0..Bare]
Empty == [b \in Backends |-> Missing]

Init ==
  /\ file = [b \in Backends |-> 0]
  /\ values = [p \in Programs |-> file]
  /\ pc = [t \in Threads |-> "off"]
  /\ found = [t \in Threads |-> 0]
  /\ next = [t \in Threads |-> 1]
  /\ temp = [t \in Threads |-> Empty]
  /\ changes = 0 /\ alone = {} /\ kept = [b \in Backends |-> 0]

Saving == {t \in Threads : pc[t] \in {"dump", "replace"}}
-----------------------------------------------------------------------------
(* storage.load() by the constructor of a backend, which may take the      *)
(* place of one that was unloaded: the default takes the place of the      *)
(* subtree, and then what was found there is put over it.                  *)
StartLoad(p, b) ==
  LET t == <<p, b>>
  IN  /\ pc[t] \in {"off", "idle"}
      /\ pc' = [pc EXCEPT ![t] = "load"]
      /\ found' = [found EXCEPT ![t] = values[p][b]]
      /\ values' = [values EXCEPT ![p][b] = Bare]
      /\ UNCHANGED <<file, next, temp, changes, history>>

EndLoadForgets(p, b) ==   \* mutant: nothing is put over the default
  LET t == <<p, b>>
  IN  /\ pc[t] = "load"
      /\ pc' = [pc EXCEPT ![t] = "idle"]
      /\ values' = [values EXCEPT ![p][b] = 0]
      /\ UNCHANGED <<file, found, next, temp, changes, history>>

EndLoad(p, b) ==
  LET t == <<p, b>>
  IN  /\ pc[t] = "load"
      /\ pc' = [pc EXCEPT ![t] = "idle"]
      /\ values' = [values EXCEPT ![p][b] = found[t]]
      /\ found' = [found EXCEPT ![t] = 0]
      /\ UNCHANGED <<file, next, temp, changes, history>>

(* storage.set() or storage.delete() by a backend.                         *)
Change(p, b) ==
  /\ pc[<<p, b>>] = "idle" /\ changes < MaxChanges
  /\ changes' = changes + 1
  /\ values' = [values EXCEPT ![p][b] = changes + 1]
  /\ UNCHANGED <<file, pc, found, next, temp, history>>

(* storage.save(): a temporary file is opened and the document is dumped   *)
(* in it, subtree by subtree.                                              *)
Save(p, b) ==
  LET t == <<p, b>>
  IN  /\ pc[t] = "idle"
      /\ pc' = [pc EXCEPT ![t] = "dump"]
      /\ next' = [next EXCEPT ![t] = 1]
      /\ temp' = [temp EXCEPT ![t] = Empty]
      /\ alone' = IF Saving = {} THEN alone \cup {t} ELSE alone \ {t}
      /\ UNCHANGED <<file, values, found, changes, kept>>

DumpInPlace(p, b) ==   \* mutant: the file itself is opened and written
  LET t == <<p, b>>
  IN  /\ pc[t] = "dump"
      /\ file' = [i \in Backends |-> IF i < next[t] THEN file[i]
                                     ELSE IF i = next[t] THEN values[p][i] ELSE Missing]
      /\ next' = [next EXCEPT ![t] = @ + 1]
      /\ temp' = [temp EXCEPT ![t][next[t]] = values[p][next[t]]]
      /\ pc' = [pc EXCEPT ![t] = IF next[t] = N THEN "replace" ELSE "dump"]
      /\ UNCHANGED <<values, found, changes, history>>

Dump(p, b) ==
  LET t == <<p, b>>
  IN  /\ pc[t] = "dump"
      /\ temp' = [temp EXCEPT ![t][next[t]] = values[p][next[t]]]
      /\ next' = [next EXCEPT ![t] = @ + 1]
      /\ pc' = [pc EXCEPT ![t] = IF next[t] = N THEN "replace" ELSE "dump"]
      /\ UNCHANGED <<file, values, found, changes, history>>

DumpFails(p, b) ==   \* a value has no representation: save() raises
  LET t == <<p, b>>
  IN  /\ pc[t] = "dump"
      /\ pc' = [pc EXCEPT ![t] = "idle"]
      /\ UNCHANGED <<file, values, found, next, temp, changes, history>>

(* The temporary file takes the place of the file, at once.                *)
Replace(p, b) ==
  LET t == <<p, b>>
  IN  /\ pc[t] = "replace"
      /\ file' = temp[t]
      /\ pc' = [pc EXCEPT ![t] = "idle"]
      /\ kept' = IF t \in alone /\ temp[t][b] # Bare
                 THEN [kept EXCEPT ![b] = temp[t][b]] ELSE kept
      /\ UNCHANGED <<values, found, next, temp, changes, alone>>

(* The program is killed and started again: it loads the file.             *)
Restart(p) ==
  /\ pc' = [t \in Threads |-> IF t[1] = p THEN "off" ELSE pc[t]]
  /\ values' = [values EXCEPT ![p] = file]
  /\ UNCHANGED <<file, found, next, temp, changes, history>>
Next ==
  \E p \in Programs :
    \/ Restart(p)
    \/ \E b \in Backends :
         \/ StartLoad(p, b) \/ EndLoad(p, b) \/ Change(p, b)
         \/ Save(p, b) \/ Dump(p, b) \/ DumpFails(p, b) \/ Replace(p, b)

Spec == Init /\ [][Next]_vars
-----------------------------------------------------------------------------
(* Properties.                                                             *)

TypeOK ==
  /\ values \in [Programs -> Doc]
  /\ pc \in [Threads -> {"off", "load", "idle", "dump", "replace"}]
  /\ found \in [Threads -> 0..Bare]
  /\ next \in [Threads -> 1..N + 1]
  /\ temp \in [Threads -> [Backends -> 0..Missing]]
  /\ changes \in 0..MaxChanges
  /\ alone \subseteq Threads /\ kept \in Doc

(* Wherever a program is killed, the file is a whole document              *)
(* (yamlconfig.py:87, "write in a temporary file to avoid corruption       *)
(* problems").                                                             *)
AlwaysWhole == file \in Doc

(* One program: a save that began while no other was under way is never    *)
(* undone by an older state, whatever is loaded, saved, killed and         *)
(* restarted later.  A save that met another may be: the other's dump may  *)
(* be the older one, and replace the file later (yamlconfig.py:86-91).     *)
(* And a backend's subtree may be replaced by its bare default, if another *)
(* saved while it was loaded (storage.py:73-74): the file holds the change *)
(* that was kept, a newer one, or that default, never an older change.     *)
QuietSaveKept == \A b \in Backends : file[b] = Bare \/ file[b] >= kept[b]
=============================================================================
