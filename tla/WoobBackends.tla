---------------------------- MODULE WoobBackends ----------------------------
(***************************************************************************)
(* woob/core/woob.py: the loaded backends, from load_backends() to         *)
(* unload_backends(), with what woob/tools/backend.py does when a backend  *)
(* is created, used and unloaded.                                          *)
(*                                                                         *)
(* Programs are the threads of the application that load, unload and call  *)
(* backends; workers are the threads of the calls they make with do(),     *)
(* here one for each backend called (BackendsCall has the rest).  A        *)
(* backend object is numbered in the order of creation.  Its browser holds *)
(* a state, which each function that runs advances, and which is dumped in *)
(* the storage when the backend is unloaded and loaded in the browser of   *)
(* the next backend of that name.                                          *)
(***************************************************************************)
EXTENDS Naturals

CONSTANTS
  Names,      \* names of the configured backends
  MaxObjects, \* bound: backend objects created
  Programs,   \* threads of the application
  Loaders,    \* bound: those that load backends
  Iterators,  \* bound: those that call iter_backends()
  Workers,    \* bound: threads of calls at once
  MaxState    \* bound: how far a browser's state goes

None    == 0
NoName  == "none"
Objects == 1..MaxObjects

ASSUME WoobAssumption ==
  /\ MaxObjects \in Nat /\ MaxState \in Nat
  /\ Loaders \subseteq Programs /\ Iterators \subseteq Programs
  /\ Programs \cap Workers = {} /\ None \notin Programs \cup Workers
  /\ NoName \notin Names

VARIABLES
  backend_instances, \* the loaded backend of each name, or None
  made,     \* objects created
  name,     \* the name of each object
  lock,     \* who holds the lock of each object, or None
  gone,     \* objects whose deinit() has returned or raised
  browser,  \* "none", "open" or "closed", for each object
  state,    \* the state of each browser
  storage,  \* browser_state of each name in the storage
  ppc,      \* where each program is
  todo,     \* the names its unload_backends() has left
  reload,   \* the name its load_backends() is to create, if any
  current,  \* the object it is unloading, has created or iterates on
  visit,    \* the objects its iter_backends() has left
  wpc,      \* where each worker is; "late" if it runs after deinit()
  at,       \* the object each worker is called on
  (* history *)
  deinits,  \* times deinit() ran on each object
  dumped,   \* state dumped by deinit()
  clash     \* names that two programs loaded or unloaded at once

instVars    == <<backend_instances, made, name>>
browserVars == <<browser, state, storage>>
planVars    == <<todo, reload, current, visit>>
workVars    == <<wpc, at>>
history     == <<deinits, dumped, clash>>
vars == <<instVars, lock, gone, browserVars, ppc, planVars, workVars, history>>

NoDump == MaxState + 1   \* what deinit() dumped when that failed

Init ==
  /\ backend_instances = [n \in Names |-> None] /\ made = 0
  /\ name = [o \in Objects |-> NoName]
  /\ lock = [o \in Objects |-> None] /\ gone = {}
  /\ browser = [o \in Objects |-> "none"]
  /\ state = [o \in Objects |-> 0]
  /\ storage = [n \in Names |-> 0]
  /\ ppc = [p \in Programs |-> "idle"]
  /\ todo = [p \in Programs |-> {}] /\ visit = [p \in Programs |-> {}]
  /\ reload = [p \in Programs |-> NoName]
  /\ current = [p \in Programs |-> None]
  /\ wpc = [w \in Workers |-> "new"] /\ at = [w \in Workers |-> None]
  /\ deinits = [o \in Objects |-> 0]
  /\ dumped = [o \in Objects |-> 0] /\ clash = {}

Loaded == {n \in Names : backend_instances[n] # None}
Goto(p, from, to) == ppc[p] = from /\ ppc' = [ppc EXCEPT ![p] = to]

(* A step of load_backend() or unload_backends() leaves the rest alone.    *)
Frame == UNCHANGED <<browserVars, workVars, visit, history>>

(* The names that a program is loading or unloading, and what its beginning *)
(* with those of S leaves alone.                                           *)
Busy(p) ==
  {reload[p]} \cup todo[p]
    \cup {name[o] : o \in {o \in Objects : o = current[p] /\ ppc[p] \notin {"iter", "held"}}}

Begin(p, S) ==
  /\ clash' = clash \cup (S \cap UNION {Busy(q) : q \in Programs \ {p}})
  /\ UNCHANGED <<browserVars, workVars, visit, deinits, dumped>>

-----------------------------------------------------------------------------
(* load_backend(), and load_backends() of one configured backend, which    *)
(* unloads the backend of that name if there is one.                       *)

LoadBackend(p, n) ==
  /\ p \in Loaders /\ n \notin Loaded
  /\ Goto(p, "idle", "build")
  /\ reload' = [reload EXCEPT ![p] = n]
  /\ Begin(p, {n}) /\ UNCHANGED <<instVars, lock, gone, todo, current>>

ReloadOver(p, n) ==   \* mutant: the loaded one is not unloaded
  /\ p \in Loaders /\ n \in Loaded
  /\ Goto(p, "idle", "build")
  /\ reload' = [reload EXCEPT ![p] = n]
  /\ Begin(p, {n}) /\ UNCHANGED <<instVars, lock, gone, todo, current>>

ReloadBackend(p, n) ==
  /\ p \in Loaders /\ n \in Loaded
  /\ Goto(p, "idle", "pop")
  /\ todo' = [todo EXCEPT ![p] = {n}]
  /\ reload' = [reload EXCEPT ![p] = n]
  /\ Begin(p, {n}) /\ UNCHANGED <<instVars, lock, gone, current>>

BuildBackend(p) ==
  /\ made < MaxObjects
  /\ Goto(p, "build", "put")
  /\ made' = made + 1
  /\ name' = [name EXCEPT ![made + 1] = reload[p]]
  /\ current' = [current EXCEPT ![p] = made + 1]
  /\ Frame /\ UNCHANGED <<backend_instances, lock, gone, todo, reload>>

BuildFails(p) ==
  /\ Goto(p, "build", "idle")
  /\ reload' = [reload EXCEPT ![p] = NoName]
  /\ Frame /\ UNCHANGED <<instVars, lock, gone, todo, current>>

PutName(p) ==   \* mutant: the name is stored and not the backend
  /\ Goto(p, "put", "idle")
  /\ backend_instances' = [backend_instances EXCEPT ![reload[p]] = reload[p]]
  /\ reload' = [reload EXCEPT ![p] = NoName]
  /\ current' = [current EXCEPT ![p] = None]
  /\ Frame /\ UNCHANGED <<made, name, lock, gone, todo>>

PutBackend(p) ==
  /\ Goto(p, "put", "idle")
  /\ backend_instances' = [backend_instances EXCEPT ![reload[p]] = current[p]]
  /\ reload' = [reload EXCEPT ![p] = NoName]
  /\ current' = [current EXCEPT ![p] = None]
  /\ Frame /\ UNCHANGED <<made, name, lock, gone, todo>>

Load(p) == BuildBackend(p) \/ BuildFails(p) \/ PutBackend(p)

-----------------------------------------------------------------------------
(* unload_backends() of some names, in any order.                          *)

UnloadBackends(p, S) ==
  /\ S # {} /\ S \subseteq Loaded
  /\ Goto(p, "idle", "pop")
  /\ todo' = [todo EXCEPT ![p] = S]
  /\ Begin(p, S) /\ UNCHANGED <<instVars, lock, gone, reload, current>>

PopForgotten(p, n) ==   \* mutant: the backend stays in the dict
  /\ n \in todo[p] \cap Loaded
  /\ Goto(p, "pop", "lock")
  /\ todo' = [todo EXCEPT ![p] = @ \ {n}]
  /\ current' = [current EXCEPT ![p] = backend_instances[n]]
  /\ Frame /\ UNCHANGED <<instVars, lock, gone, reload>>

PopBackend(p, n) ==
  /\ n \in todo[p] \cap Loaded
  /\ Goto(p, "pop", "lock")
  /\ todo' = [todo EXCEPT ![p] = @ \ {n}]
  /\ current' = [current EXCEPT ![p] = backend_instances[n]]
  /\ backend_instances' = [backend_instances EXCEPT ![n] = None]
  /\ Frame /\ UNCHANGED <<made, name, lock, gone, reload>>

Abandon(p) ==   \* an exception leaves unload_backends() and load_backends()
  /\ todo' = [todo EXCEPT ![p] = {}]
  /\ reload' = [reload EXCEPT ![p] = NoName]
  /\ current' = [current EXCEPT ![p] = None]

PopFails(p, n) ==   \* KeyError
  /\ n \in todo[p] \ Loaded
  /\ Goto(p, "pop", "idle")
  /\ Abandon(p)
  /\ Frame /\ UNCHANGED <<instVars, lock, gone>>

LockAlways(p) ==   \* mutant: deinit() without the lock
  /\ Goto(p, "lock", "deinit")
  /\ lock' = [lock EXCEPT ![current[p]] = p]
  /\ Frame /\ UNCHANGED <<instVars, gone, todo, reload, current>>

LockBackend(p) ==
  /\ Goto(p, "lock", "deinit")
  /\ lock[current[p]] = None
  /\ lock' = [lock EXCEPT ![current[p]] = p]
  /\ Frame /\ UNCHANGED <<instVars, gone, todo, reload, current>>

(* Module.deinit(): dump the state of the browser in the storage, then     *)
(* close the browser whether that failed or not; nothing without browser.  *)
DumpState(o) ==
  /\ storage' = [storage EXCEPT ![name[o]] = state[o]]
  /\ dumped' = [dumped EXCEPT ![o] = state[o]]

DumpFails(o) == dumped' = [dumped EXCEPT ![o] = NoDump] /\ UNCHANGED storage

Deinit(p, to) ==
  /\ Goto(p, "deinit", to)
  /\ gone' = gone \cup {current[p]}
  /\ deinits' = [deinits EXCEPT ![current[p]] = @ + 1]
  /\ UNCHANGED <<instVars, lock, state, planVars, workVars, clash>>

DeinitUnused(p) ==
  /\ Deinit(p, "release") /\ browser[current[p]] = "none"
  /\ UNCHANGED <<browser, storage, dumped>>

CloseBrowser(o) == browser[o] # "none" /\ browser' = [browser EXCEPT ![o] = "closed"]

DeinitBrowser(p) ==
  Deinit(p, "release") /\ CloseBrowser(current[p]) /\ DumpState(current[p])

DeinitRaises(p) ==   \* while it dumps, or when it closes
  /\ Deinit(p, "raise")
  /\ CloseBrowser(current[p])
  /\ DumpState(current[p]) \/ DumpFails(current[p])

Release(p) ==
  /\ ppc[p] = "release"
  /\ ppc' = [ppc EXCEPT ![p] = IF todo[p] # {} THEN "pop"
                               ELSE IF reload[p] # NoName THEN "build" ELSE "idle"]
  /\ lock' = [lock EXCEPT ![current[p]] = None]
  /\ current' = [current EXCEPT ![p] = None]
  /\ Frame /\ UNCHANGED <<instVars, gone, todo, reload>>

Raise(p) ==   \* the names that are left stay loaded
  /\ Goto(p, "raise", "idle")
  /\ lock' = [lock EXCEPT ![current[p]] = None]
  /\ Abandon(p)
  /\ Frame /\ UNCHANGED <<instVars, gone>>

Unload(p) ==
  \/ \E n \in Names : PopBackend(p, n) \/ PopFails(p, n)
  \/ LockBackend(p) \/ DeinitUnused(p) \/ DeinitBrowser(p) \/ DeinitRaises(p)
  \/ Release(p) \/ Raise(p)

-----------------------------------------------------------------------------
(* iter_backends(), over the backends loaded when it begins, in any order. *)

IterBackends(p) ==
  /\ p \in Iterators /\ Goto(p, "idle", "iter")
  /\ visit' = [visit EXCEPT ![p] = {backend_instances[n] : n \in Loaded}]
  /\ UNCHANGED <<instVars, lock, gone, browserVars, todo, reload, current,
                 workVars, history>>

IterLock(p, o) ==
  /\ o \in visit[p] /\ lock[o] = None
  /\ Goto(p, "iter", "held")
  /\ lock' = [lock EXCEPT ![o] = p]
  /\ visit' = [visit EXCEPT ![p] = @ \ {o}]
  /\ current' = [current EXCEPT ![p] = o]
  /\ UNCHANGED <<instVars, gone, browserVars, todo, reload, workVars, history>>

IterRelease(p) ==
  /\ Goto(p, "held", "iter")
  /\ lock' = [lock EXCEPT ![current[p]] = None]
  /\ current' = [current EXCEPT ![p] = None]
  /\ UNCHANGED <<instVars, gone, browserVars, todo, reload, visit, workVars,
                 history>>

IterEnds(p) ==   \* or the program leaves the loop
  /\ \/ Goto(p, "iter", "idle") /\ visit[p] = {}
     \/ Goto(p, "held", "idle")
  /\ lock' = [o \in Objects |-> IF o = current[p] THEN None ELSE lock[o]]
  /\ visit' = [visit EXCEPT ![p] = {}]
  /\ current' = [current EXCEPT ![p] = None]
  /\ UNCHANGED <<instVars, gone, browserVars, todo, reload, workVars, history>>

Iterate(p) == IterRelease(p) \/ IterEnds(p) \/ \E o \in Objects : IterLock(p, o)

-----------------------------------------------------------------------------
(* do(), from the application or from the loop on iter_backends(), and the *)
(* functions it runs.  A worker that is done is one for another call.      *)

Do(p, w, n) ==
  /\ ppc[p] \in {"idle", "held"} /\ wpc[w] = "new" /\ n \in Loaded
  /\ wpc' = [wpc EXCEPT ![w] = "lock"]
  /\ at' = [at EXCEPT ![w] = backend_instances[n]]
  /\ UNCHANGED <<instVars, lock, gone, browserVars, ppc, planVars, history>>

WorkFrame == UNCHANGED <<instVars, gone, ppc, planVars, history>>

Enter(w) ==
  /\ wpc[w] = "lock" /\ lock[at[w]] = None
  /\ wpc' = [wpc EXCEPT ![w] = IF at[w] \in gone THEN "late" ELSE "run"]
  /\ lock' = [lock EXCEPT ![at[w]] = w]
  /\ WorkFrame /\ UNCHANGED <<browserVars, at>>

(* The first use of the browser creates it and loads its state.  What a    *)
(* late function does to a browser that nobody unloads any more is not kept. *)
OpenFresh(w) ==   \* mutant: load_state() is forgotten
  /\ wpc[w] = "run" /\ browser[at[w]] = "none"
  /\ browser' = [browser EXCEPT ![at[w]] = "open"]
  /\ WorkFrame /\ UNCHANGED <<state, storage, workVars, lock>>

OpenBrowser(w) ==
  /\ wpc[w] = "run" /\ browser[at[w]] = "none"
  /\ browser' = [browser EXCEPT ![at[w]] = "open"]
  /\ state' = [state EXCEPT ![at[w]] = storage[name[at[w]]]]
  /\ WorkFrame /\ UNCHANGED <<storage, workVars, lock>>

Advance(w) ==
  LET o == at[w]
  IN  /\ wpc[w] = "run" /\ browser[o] # "none" /\ state[o] < MaxState
      /\ state' = [state EXCEPT ![o] = @ + 1]
      /\ WorkFrame /\ UNCHANGED <<browser, storage, workVars, lock>>

ExitLocked(w) ==   \* mutant: the lock is not released
  /\ wpc[w] \in {"run", "late"}
  /\ wpc' = [wpc EXCEPT ![w] = "new"]
  /\ at' = [at EXCEPT ![w] = None]
  /\ WorkFrame /\ UNCHANGED <<browserVars, lock>>

Exit(w) ==
  /\ wpc[w] \in {"run", "late"}
  /\ wpc' = [wpc EXCEPT ![w] = "new"]
  /\ at' = [at EXCEPT ![w] = None]
  /\ lock' = [lock EXCEPT ![at[w]] = None]
  /\ WorkFrame /\ UNCHANGED <<browserVars>>

Work(w) == Enter(w) \/ OpenBrowser(w) \/ Advance(w) \/ Exit(w)

Next ==
  \/ \E p \in Programs :
       \/ Load(p) \/ Unload(p) \/ IterBackends(p) \/ Iterate(p)
       \/ \E n \in Names :
            LoadBackend(p, n) \/ ReloadBackend(p, n) \/ \E w \in Workers : Do(p, w, n)
       \/ \E S \in SUBSET Names : UnloadBackends(p, S)
  \/ \E w \in Workers : Work(w)

(* Functions end, a loop on iter_backends() goes on, and whoever waits for *)
(* a lock that is released again and again gets it some day.               *)
Fairness ==
  /\ \A p \in Programs : WF_vars(Load(p)) /\ SF_vars(Unload(p)) /\ SF_vars(Iterate(p))
  /\ \A w \in Workers : WF_vars(Exit(w)) /\ SF_vars(Enter(w))

Spec     == Init /\ [][Next]_vars
FairSpec == Spec /\ Fairness
-----------------------------------------------------------------------------
(* Properties.                                                             *)

TypeOK ==
  /\ backend_instances \in [Names -> {None} \cup Objects] /\ made \in 0..MaxObjects
  /\ name \in [Objects -> Names \cup {NoName}]
  /\ lock \in [Objects -> {None} \cup Programs \cup Workers] /\ gone \subseteq Objects
  /\ browser \in [Objects -> {"none", "open", "closed"}]
  /\ state \in [Objects -> 0..MaxState] /\ storage \in [Names -> 0..MaxState]
  /\ ppc \in [Programs -> {"idle", "build", "put", "pop", "lock", "deinit",
                           "release", "raise", "iter", "held"}]
  /\ todo \in [Programs -> SUBSET Names] /\ visit \in [Programs -> SUBSET Objects]
  /\ reload \in [Programs -> Names \cup {NoName}]
  /\ current \in [Programs -> {None} \cup Objects]
  /\ wpc \in [Workers -> {"new", "lock", "run", "late"}]
  /\ at \in [Workers -> {None} \cup Objects]
  /\ deinits \in [Objects -> Nat]
  /\ dumped \in [Objects -> 0..NoDump] /\ clash \subseteq Names

(* Whatever is loaded, reloaded and unloaded, with failures, no backend    *)
(* that was created is forgotten before it is unloaded, unless two programs *)
(* were at its name at once (woob.py:172-176).                             *)
NoneForgotten ==
  \A o \in 1..made : \/ o \in gone \/ name[o] \in clash
                     \/ o \in {backend_instances[n] : n \in Names}
                     \/ o \in {current[p] : p \in Programs}

(* Several programs may unload at once: a backend is unloaded once         *)
(* (woob.py:192).                                                          *)
DeinitOnce == \A o \in Objects : deinits[o] <= 1

(* The state that the functions of a backend reached is in what deinit()   *)
(* dumped, if that did not fail: no function is at work on the browser while *)
(* it is dumped and closed (woob.py:193, backend.py:359-370).              *)
StateDumped == \A o \in gone : dumped[o] >= state[o]

(* The state kept for a name never goes back to an older one: each backend *)
(* begins where the last one was unloaded, unless one program loads the    *)
(* name while another unloads it (woob.py:192-194).                        *)
StateNeverBack == [][\A n \in Names : n \in clash \/ storage'[n] >= storage[n]]_vars

(* What unload_backends() and iter_backends() began ends, however many     *)
(* calls compete for the backends.                                         *)
UnloadEnds == \A p \in Programs : ppc[p] \in {"lock", "iter"} ~> ppc[p] = "idle"
=============================================================================
