-------------------------- MODULE WoobBackendsProofs --------------------------
(***************************************************************************)
(* Proofs about WoobBackends, for any names, programs, workers and bounds: *)
(* types, then who has an object for itself (OwnInv), then who holds its   *)
(* lock (LockInv), then what was dumped (DumpInv); then, where one program *)
(* at a time is at a name, what is loaded and stored under it (NInv); and  *)
(* that locks are given back, and each step of an unload is nearer its end.*)
(***************************************************************************)
EXTENDS WoobBackends, TLAPS

LEMMA Constants ==
  /\ MaxObjects \in Nat /\ MaxState \in Nat /\ None \notin Objects
  /\ Programs \cap Workers = {} /\ None \notin Programs \cup Workers
  /\ NoName \notin Names
  BY WoobAssumption DEF WoobAssumption, Objects, None

-----------------------------------------------------------------------------
(* The invariant.                                                          *)

Owning == {"put", "lock", "deinit"}
Inside == {"deinit", "release", "raise", "held"}

(* Objects that are referred to were made, and have a name.                *)
MadeInv ==
  /\ gone \subseteq 1..made
  /\ \A o \in 1..made : name[o] \in Names
  /\ \A n \in Names : backend_instances[n] \in {None} \cup 1..made
  /\ \A p \in Programs :
       /\ visit[p] \subseteq 1..made
       /\ current[p] \in {None} \cup 1..made
       /\ current[p] # None <=> ppc[p] \in Owning \cup Inside
       /\ ppc[p] \in {"build", "put"} => reload[p] \in Names
  /\ \A w \in Workers :
       /\ at[w] \in {None} \cup 1..made
       /\ at[w] # None <=> wpc[w] # "new"

(* An object that is loaded under a name, or that a program is about to    *)
(* store or to unload, is not unloaded yet and is nobody else's.           *)
OwnInv ==
  /\ \A o \in Objects : deinits[o] = IF o \in gone THEN 1 ELSE 0
  /\ \A n \in Names : backend_instances[n] \notin gone
  /\ \A m, n \in Names :
       m # n => backend_instances[m] = None \/ backend_instances[m] # backend_instances[n]
  /\ \A p \in Programs : ppc[p] \in Owning =>
       /\ current[p] \notin gone
       /\ \A n \in Names : backend_instances[n] # current[p]
       /\ \A q \in Programs \ {p} : ppc[q] \in Owning => current[q] # current[p]

(* Whoever is inside an object owns its lock.                              *)
LockInv ==
  /\ \A p \in Programs : ppc[p] \in Inside => lock[current[p]] = p
  /\ \A w \in Workers : wpc[w] \in {"run", "late"} => lock[at[w]] = w

(* What was dumped is the state of the browser, which changes no more: the *)
(* functions that still run on it came late.                               *)
DumpInv ==
  /\ \A o \in gone : dumped[o] >= state[o]
  /\ \A o \in Objects : browser[o] = "none" => state[o] = 0
  /\ \A w \in Workers : wpc[w] = "run" => at[w] \notin gone

IInv == TypeOK /\ MadeInv /\ OwnInv /\ LockInv /\ DumpInv

(* What a program is at the name of: the name it is to create, those it is *)
(* to unload, and that of the object it creates or unloads.                *)
At(p, x) ==
  \/ x = reload[p] \/ x \in todo[p]
  \/ ppc[p] \in Owning \cup {"release", "raise"} /\ x = name[current[p]]

(* Objects are stored under their name; what a program plans, it does.     *)
NameInv ==
  /\ \A n \in Names : backend_instances[n] # None => name[backend_instances[n]] = n
  /\ \A p \in Programs :
       /\ ppc[p] \in {"idle", "iter", "held"} => reload[p] = NoName
       /\ ppc[p] \in {"idle", "iter", "held", "build", "put"} => todo[p] = {}
       /\ ppc[p] = "put" => name[current[p]] = reload[p]

(* Two programs that are at one name have been seen.                       *)
AloneInv ==
  \A p, q \in Programs : \A n \in Names :
    p # q /\ At(p, n) /\ At(q, n) => n \in clash

(* While a program is alone at a name, nothing is loaded under it that it  *)
(* would overwrite, or that comes after what it unloads.                   *)
FreeInv ==
  \A p \in Programs :
    /\ reload[p] \in Loaded => reload[p] \in todo[p] \cup clash
    /\ ppc[p] \in Owning /\ name[current[p]] \in Loaded => name[current[p]] \in clash

(* A backend is loaded or its program's, until it is unloaded.             *)
KeptInv ==
  \A o \in 1..made : o \notin gone /\ name[o] \notin clash =>
    \/ backend_instances[name[o]] = o
    \/ \E p \in Programs : ppc[p] \in Owning /\ current[p] = o

(* Its browser began with what is stored for its name, if it began.        *)
StateInv ==
  /\ \A o \in Objects \ (1..made) : browser[o] = "none"
  /\ \A o \in (1..made) \ gone : name[o] \notin clash /\ browser[o] # "none" =>
       state[o] >= storage[name[o]]

NInv == NameInv /\ AloneInv /\ FreeInv /\ KeptInv /\ StateInv

LEMMA Made ==
  ASSUME TypeOK, made < MaxObjects
  PROVE  /\ made \in Nat /\ made + 1 \in Objects /\ made + 1 \in 0..MaxObjects
         /\ 1..made + 1 = 1..made \cup {made + 1} /\ made + 1 \notin 1..made
<1>1. MaxObjects \in Nat  BY Constants
<1>2. made \in 0..MaxObjects  BY DEF TypeOK
<1> QED  BY <1>1, <1>2 DEF Objects

-----------------------------------------------------------------------------
(* The steps of a program and of a worker.                                 *)

ProgramStep(p) ==
  \/ Load(p) \/ Unload(p) \/ IterBackends(p) \/ Iterate(p)
  \/ \E n \in Names : LoadBackend(p, n) \/ ReloadBackend(p, n)
  \/ \E S \in SUBSET Names : UnloadBackends(p, S)

WorkerStep(w) ==
  Work(w) \/ \E p \in Programs, n \in Names : Do(p, w, n)

LEMMA Steps == Next <=> \/ \E p \in Programs : ProgramStep(p)
                       \/ \E w \in Workers : WorkerStep(w)
  BY DEF Next, ProgramStep, WorkerStep

-----------------------------------------------------------------------------
(* Which objects the references of a state may be.                         *)
LEMMA MadeObjects == TypeOK => 1..made \subseteq Objects /\ None \notin 1..made
  BY Constants DEF TypeOK, Objects, None

LEMMA CurrentObject ==
  ASSUME TypeOK, MadeInv, NEW p \in Programs, ppc[p] \in Owning \cup Inside
  PROVE  current[p] \in Objects /\ current[p] \in 1..made
  BY MadeObjects DEF MadeInv

LEMMA VisitedObjects ==
  ASSUME TypeOK, MadeInv
  PROVE  {backend_instances[n] : n \in Loaded} \in SUBSET Objects
         /\ {backend_instances[n] : n \in Loaded} \subseteq 1..made
  BY MadeObjects DEF MadeInv, Loaded

(* Types: each step of a program, then of a worker.                        *)
LEMMA ProgramTypes ==
  ASSUME TypeOK, MadeInv, NEW p \in Programs, ProgramStep(p)
  PROVE  TypeOK'
  <1>1. ASSUME NEW n \in Names, LoadBackend(p, n) PROVE TypeOK'
    BY <1>1
    DEF LoadBackend, Begin, Goto, instVars, browserVars, workVars, TypeOK
  <1>2. ASSUME NEW n \in Names, ReloadBackend(p, n) PROVE TypeOK'
    BY <1>2
    DEF ReloadBackend, Begin, Goto, instVars, browserVars, workVars, TypeOK
  <1>3. CASE BuildBackend(p)
    BY <1>3, Made
    DEF BuildBackend, Goto, Frame, browserVars, workVars, history, TypeOK
  <1>4. CASE BuildFails(p)
    BY <1>4
    DEF BuildFails, Goto, Frame, instVars, browserVars, workVars, history, TypeOK
  <1>5. CASE PutBackend(p)
    BY <1>5
    DEF PutBackend, Goto, Frame, browserVars, workVars, history, TypeOK
  <1>6. ASSUME NEW S \in SUBSET Names, UnloadBackends(p, S) PROVE TypeOK'
    BY <1>6
    DEF UnloadBackends, Begin, Goto, instVars, browserVars, workVars, TypeOK
  <1>7. ASSUME NEW n \in Names, PopBackend(p, n) PROVE TypeOK'
    BY <1>7
    DEF PopBackend, Goto, Frame, browserVars, workVars, history, TypeOK
  <1>8. ASSUME NEW n \in Names, PopFails(p, n) PROVE TypeOK'
    BY <1>8, Constants
    DEF PopFails, Abandon, Goto, Frame, instVars, browserVars, workVars, history, TypeOK
  <1>9. CASE LockBackend(p)
    BY <1>9
    DEF LockBackend, Goto, Frame, instVars, browserVars, workVars, history, TypeOK
  <1>10. CASE DeinitUnused(p)
    <2>1. ppc[p] \in Owning \cup Inside
      BY <1>10 DEF DeinitUnused, Deinit, Goto, Owning
    <2>2. current[p] \in Objects /\ current[p] \in 1..made
      BY <2>1, CurrentObject
    <2>3. gone' \subseteq Objects /\ deinits' \in [Objects -> Nat]
      BY <1>10, <2>2 DEF DeinitUnused, Deinit, TypeOK
    <2>4. ppc' \in [Programs -> {"idle", "build", "put", "pop", "lock", "deinit",
                                 "release", "raise", "iter", "held"}]
      BY <1>10 DEF DeinitUnused, Deinit, Goto, TypeOK
    <2> QED
      BY <1>10, <2>3, <2>4 DEF DeinitUnused, Deinit, TypeOK, instVars, planVars, workVars
  <1>11. CASE DeinitBrowser(p)
    <2>1. ppc[p] \in Owning \cup Inside
      BY <1>11 DEF DeinitBrowser, Deinit, Goto, Owning
    <2>2. current[p] \in Objects /\ current[p] \in 1..made
      BY <2>1, CurrentObject
    <2>3. gone' \subseteq Objects /\ deinits' \in [Objects -> Nat]
      BY <1>11, <2>2 DEF DeinitBrowser, Deinit, TypeOK
    <2>4. ppc' \in [Programs -> {"idle", "build", "put", "pop", "lock", "deinit",
                                 "release", "raise", "iter", "held"}]
      BY <1>11 DEF DeinitBrowser, Deinit, Goto, TypeOK
    <2>5. /\ browser' \in [Objects -> {"none", "open", "closed"}]
          /\ storage' \in [Names -> 0..MaxState] /\ dumped' \in [Objects -> 0..NoDump]
      BY <1>11, <2>2, Constants DEF DeinitBrowser, CloseBrowser, DumpState, TypeOK, MadeInv, NoDump
    <2> QED
      BY <1>11, <2>3, <2>4, <2>5 DEF DeinitBrowser, Deinit, TypeOK, instVars, planVars, workVars
  <1>12. CASE DeinitRaises(p)
    <2>1. ppc[p] \in Owning \cup Inside
      BY <1>12 DEF DeinitRaises, Deinit, Goto, Owning
    <2>2. current[p] \in Objects /\ current[p] \in 1..made
      BY <2>1, CurrentObject
    <2>3. gone' \subseteq Objects /\ deinits' \in [Objects -> Nat]
      BY <1>12, <2>2 DEF DeinitRaises, Deinit, TypeOK
    <2>4. ppc' \in [Programs -> {"idle", "build", "put", "pop", "lock", "deinit",
                                 "release", "raise", "iter", "held"}]
      BY <1>12 DEF DeinitRaises, Deinit, Goto, TypeOK
    <2>5. browser' \in [Objects -> {"none", "open", "closed"}]
      BY <1>12, <2>2 DEF DeinitRaises, CloseBrowser, TypeOK
    <2>6. storage' \in [Names -> 0..MaxState] /\ dumped' \in [Objects -> 0..NoDump]
      BY <1>12, <2>2, Constants DEF DeinitRaises, DumpState, DumpFails, TypeOK, MadeInv, NoDump
    <2> QED
      BY <1>12, <2>3, <2>4, <2>5, <2>6 DEF DeinitRaises, Deinit, TypeOK, instVars, planVars, workVars
  <1>13. CASE Release(p)
    BY <1>13
    DEF Release, Frame, instVars, browserVars, workVars, history, TypeOK
  <1>14. CASE Raise(p)
    BY <1>14
    DEF Raise, Abandon, Goto, Frame, instVars, browserVars, workVars, history, TypeOK
  <1>15. CASE IterBackends(p)
    <2>1. visit' \in [Programs -> SUBSET Objects]
      BY <1>15, VisitedObjects DEF IterBackends, TypeOK
    <2> QED
      BY <1>15, <2>1 DEF IterBackends, Goto, TypeOK, instVars, browserVars, workVars, history
  <1>16. ASSUME NEW o \in Objects, IterLock(p, o) PROVE TypeOK'
    BY <1>16
    DEF IterLock, Goto, instVars, browserVars, workVars, history, TypeOK
  <1>17. CASE IterRelease(p)
    BY <1>17
    DEF IterRelease, Goto, instVars, browserVars, workVars, history, TypeOK
  <1>18. CASE IterEnds(p)
    BY <1>18
    DEF IterEnds, Goto, instVars, browserVars, workVars, history, TypeOK
  <1> QED
    BY <1>1, <1>2, <1>3, <1>4, <1>5, <1>6, <1>7, <1>8, <1>9, <1>10, <1>11, <1>12, <1>13, <1>14, <1>15, <1>16, <1>17, <1>18
    DEF ProgramStep, Load, Unload, Iterate

LEMMA WorkerTypes ==
  ASSUME TypeOK, MadeInv, NEW w \in Workers, WorkerStep(w)
  PROVE  TypeOK'
  <1>1. ASSUME NEW p \in Programs, NEW n \in Names, Do(p, w, n) PROVE TypeOK'
    BY <1>1
    DEF Do, instVars, browserVars, planVars, history, TypeOK, MadeInv
  <1>2. CASE Enter(w)
    BY <1>2
    DEF Enter, WorkFrame, instVars, planVars, browserVars, history, TypeOK, MadeInv
  <1>3. CASE OpenBrowser(w)
    BY <1>3
    DEF OpenBrowser, WorkFrame, instVars, planVars, workVars, history, TypeOK, MadeInv
  <1>4. CASE Advance(w)
    BY <1>4, Constants
    DEF Advance, WorkFrame, instVars, planVars, workVars, history, TypeOK, MadeInv
  <1>5. CASE Exit(w)
    BY <1>5
    DEF Exit, WorkFrame, instVars, planVars, browserVars, history, TypeOK, MadeInv
  <1> QED
    BY <1>1, <1>2, <1>3, <1>4, <1>5
    DEF WorkerStep, Work

(* References go to objects that were made.                                *)
LEMMA ProgramMade ==
  ASSUME TypeOK, MadeInv, NEW p \in Programs, ProgramStep(p)
  PROVE  MadeInv'
  <1>1. ASSUME NEW n \in Names, LoadBackend(p, n) PROVE MadeInv'
    BY <1>1
    DEF LoadBackend, Begin, Goto, instVars, browserVars, workVars, TypeOK, MadeInv, Owning,
        Inside
  <1>2. ASSUME NEW n \in Names, ReloadBackend(p, n) PROVE MadeInv'
    BY <1>2
    DEF ReloadBackend, Begin, Goto, instVars, browserVars, workVars, TypeOK, MadeInv,
        Owning, Inside
  <1>3. CASE BuildBackend(p)
    <2>1. /\ made' = made + 1 /\ made + 1 \in Objects
          /\ 1..made' = 1..made \cup {made + 1} /\ made + 1 \notin 1..made
      BY <1>3, Made DEF BuildBackend
    <2>2. /\ name' = [name EXCEPT ![made + 1] = reload[p]]
          /\ current' = [current EXCEPT ![p] = made + 1]
          /\ ppc[p] = "build" /\ ppc' = [ppc EXCEPT ![p] = "put"]
          /\ UNCHANGED <<gone, backend_instances, visit, reload, at, wpc>>
      BY <1>3 DEF BuildBackend, Goto, Frame, workVars
    <2>3. \A o \in 1..made' : name'[o] \in Names
      BY <2>1, <2>2, MadeObjects DEF TypeOK, MadeInv
    <2>4. None # made + 1
      BY <2>1, Constants
    <2>5. \A q \in Programs :
            /\ current'[q] \in {None} \cup 1..made'
            /\ current'[q] # None <=> ppc'[q] \in Owning \cup Inside
            /\ ppc'[q] \in {"build", "put"} => reload'[q] \in Names
      BY <2>1, <2>2, <2>4 DEF TypeOK, MadeInv, Owning, Inside
    <2> QED
      BY <2>1, <2>2, <2>3, <2>5 DEF MadeInv
  <1>4. CASE BuildFails(p)
    BY <1>4
    DEF BuildFails, Goto, Frame, instVars, browserVars, workVars, history, TypeOK, MadeInv,
        Owning, Inside
  <1>5. CASE PutBackend(p)
    BY <1>5
    DEF PutBackend, Goto, Frame, browserVars, workVars, history, TypeOK, MadeInv, Owning,
        Inside
  <1>6. ASSUME NEW S \in SUBSET Names, UnloadBackends(p, S) PROVE MadeInv'
    BY <1>6
    DEF UnloadBackends, Begin, Goto, instVars, browserVars, workVars, TypeOK, MadeInv,
        Owning, Inside
  <1>7. ASSUME NEW n \in Names, PopBackend(p, n) PROVE MadeInv'
    <2>1. /\ backend_instances[n] \in 1..made /\ backend_instances[n] # None
          /\ current' = [current EXCEPT ![p] = backend_instances[n]]
          /\ backend_instances' = [backend_instances EXCEPT ![n] = None]
          /\ ppc[p] = "pop" /\ ppc' = [ppc EXCEPT ![p] = "lock"]
          /\ UNCHANGED <<gone, made, name, visit, reload, at, wpc>>
      BY <1>7 DEF PopBackend, Goto, Frame, workVars, Loaded, MadeInv
    <2> QED
      BY <2>1 DEF TypeOK, MadeInv, Owning, Inside
  <1>8. ASSUME NEW n \in Names, PopFails(p, n) PROVE MadeInv'
    BY <1>8, Constants
    DEF PopFails, Abandon, Goto, Frame, instVars, browserVars, workVars, history, TypeOK,
        MadeInv, Owning, Inside
  <1>9. CASE LockBackend(p)
    BY <1>9
    DEF LockBackend, Goto, Frame, instVars, browserVars, workVars, history, TypeOK, MadeInv,
        Owning, Inside
  <1>10. CASE DeinitUnused(p)
    <2>1. ppc[p] \in Owning \cup Inside
      BY <1>10 DEF DeinitUnused, Deinit, Goto, Owning
    <2>2. current[p] \in Objects /\ current[p] \in 1..made
      BY <2>1, CurrentObject
    <2> QED
      BY <1>10, <2>2 DEF DeinitUnused, Deinit, Goto, instVars, planVars, workVars, TypeOK, MadeInv,
                     Owning, Inside
  <1>11. CASE DeinitBrowser(p)
    BY ZenonT(60), <1>11, Constants
    DEF DeinitBrowser, Deinit, CloseBrowser, DumpState, Goto, instVars, planVars, workVars,
        TypeOK, MadeInv, Owning, Inside
  <1>12. CASE DeinitRaises(p)
    BY ZenonT(60), <1>12, Constants
    DEF DeinitRaises, Deinit, CloseBrowser, DumpState, DumpFails, NoDump, Goto, instVars,
        planVars, workVars, TypeOK, MadeInv, Owning, Inside
  <1>13. CASE Release(p)
    BY <1>13
    DEF Release, Frame, instVars, browserVars, workVars, history, TypeOK, MadeInv, Owning,
        Inside
  <1>14. CASE Raise(p)
    BY <1>14
    DEF Raise, Abandon, Goto, Frame, instVars, browserVars, workVars, history, TypeOK,
        MadeInv, Owning, Inside
  <1>15. CASE IterBackends(p)
    <2>1. /\ visit' = [visit EXCEPT ![p] = {backend_instances[n] : n \in Loaded}]
          /\ ppc[p] = "idle" /\ ppc' = [ppc EXCEPT ![p] = "iter"]
          /\ UNCHANGED <<gone, made, name, backend_instances, current, reload, at, wpc>>
      BY <1>15 DEF IterBackends, Goto, instVars, workVars
    <2>2. \A q \in Programs : visit'[q] \subseteq 1..made
      BY <2>1, VisitedObjects DEF TypeOK, MadeInv
    <2> QED
      BY <2>1, <2>2 DEF TypeOK, MadeInv, Owning, Inside
  <1>16. ASSUME NEW o \in Objects, IterLock(p, o) PROVE MadeInv'
    <2>1. /\ o \in 1..made /\ o # None
          /\ current' = [current EXCEPT ![p] = o]
          /\ visit' = [visit EXCEPT ![p] = visit[p] \ {o}]
          /\ ppc[p] = "iter" /\ ppc' = [ppc EXCEPT ![p] = "held"]
          /\ UNCHANGED <<gone, made, name, backend_instances, reload, at, wpc>>
      BY <1>16, MadeObjects DEF IterLock, Goto, instVars, workVars, MadeInv
    <2> QED
      BY <2>1 DEF TypeOK, MadeInv, Owning, Inside
  <1>17. CASE IterRelease(p)
    BY <1>17
    DEF IterRelease, Goto, instVars, browserVars, workVars, history, TypeOK, MadeInv,
        Owning, Inside
  <1>18. CASE IterEnds(p)
    BY <1>18
    DEF IterEnds, Goto, instVars, browserVars, workVars, history, TypeOK, MadeInv, Owning,
        Inside
  <1> QED
    BY <1>1, <1>2, <1>3, <1>4, <1>5, <1>6, <1>7, <1>8, <1>9, <1>10, <1>11, <1>12, <1>13, <1>14, <1>15, <1>16, <1>17, <1>18
    DEF ProgramStep, Load, Unload, Iterate

LEMMA WorkerMade ==
  ASSUME TypeOK, MadeInv, NEW w \in Workers, WorkerStep(w)
  PROVE  MadeInv'
  <1>1. ASSUME NEW p \in Programs, NEW n \in Names, Do(p, w, n) PROVE MadeInv'
    <2>1. /\ backend_instances[n] \in 1..made /\ backend_instances[n] # None
          /\ wpc' = [wpc EXCEPT ![w] = "lock"] /\ at' = [at EXCEPT ![w] = backend_instances[n]]
          /\ UNCHANGED <<gone, made, name, backend_instances, visit, current, ppc, reload>>
      BY <1>1 DEF Do, Loaded, MadeInv, instVars, planVars
    <2> QED
      BY <2>1 DEF TypeOK, MadeInv
  <1>2. CASE Enter(w)
    BY <1>2
    DEF Enter, WorkFrame, instVars, planVars, browserVars, history, TypeOK, MadeInv
  <1>3. CASE OpenBrowser(w)
    BY <1>3
    DEF OpenBrowser, WorkFrame, instVars, planVars, workVars, history, TypeOK, MadeInv
  <1>4. CASE Advance(w)
    BY <1>4, Constants
    DEF Advance, WorkFrame, instVars, planVars, workVars, history, TypeOK, MadeInv
  <1>5. CASE Exit(w)
    BY <1>5
    DEF Exit, WorkFrame, instVars, planVars, browserVars, history, TypeOK, MadeInv
  <1> QED
    BY <1>1, <1>2, <1>3, <1>4, <1>5
    DEF WorkerStep, Work

(* Nobody else gets an object that a program owns.                         *)
LEMMA ProgramOwn ==
  ASSUME TypeOK, MadeInv, OwnInv, NEW p \in Programs, ProgramStep(p)
  PROVE  OwnInv'
  <1>1. ASSUME NEW n \in Names, LoadBackend(p, n) PROVE OwnInv'
    BY <1>1
    DEF LoadBackend, Begin, Goto, instVars, browserVars, workVars, TypeOK, MadeInv, OwnInv,
        Owning, Inside
  <1>2. ASSUME NEW n \in Names, ReloadBackend(p, n) PROVE OwnInv'
    BY <1>2
    DEF ReloadBackend, Begin, Goto, instVars, browserVars, workVars, TypeOK, MadeInv,
        OwnInv, Owning, Inside
  <1>3. CASE BuildBackend(p)
    <2>1. /\ made + 1 \in Objects /\ made + 1 \notin 1..made /\ made + 1 # None
      BY <1>3, Made, Constants DEF BuildBackend
    <2>2. /\ current' = [current EXCEPT ![p] = made + 1]
          /\ ppc[p] = "build" /\ ppc' = [ppc EXCEPT ![p] = "put"]
          /\ UNCHANGED <<gone, backend_instances, deinits>>
      BY <1>3 DEF BuildBackend, Goto, Frame, history
    <2>3. made + 1 \notin gone /\ \A n \in Names : backend_instances[n] # made + 1
      BY <2>1 DEF MadeInv
    <2>4. \A q \in Programs : current[q] # made + 1
      BY <2>1 DEF MadeInv
    <2> QED
      BY <2>2, <2>3, <2>4 DEF TypeOK, OwnInv, Owning
  <1>4. CASE BuildFails(p)
    BY <1>4
    DEF BuildFails, Goto, Frame, instVars, browserVars, workVars, history, TypeOK, MadeInv,
        OwnInv, Owning, Inside
  <1>5. CASE PutBackend(p)
    BY <1>5
    DEF PutBackend, Goto, Frame, browserVars, workVars, history, TypeOK, MadeInv, OwnInv,
        Owning, Inside
  <1>6. ASSUME NEW S \in SUBSET Names, UnloadBackends(p, S) PROVE OwnInv'
    BY <1>6
    DEF UnloadBackends, Begin, Goto, instVars, browserVars, workVars, TypeOK, MadeInv,
        OwnInv, Owning, Inside
  <1>7. ASSUME NEW n \in Names, PopBackend(p, n) PROVE OwnInv'
    <2>1. /\ backend_instances[n] # None /\ p \in Programs
          /\ current' = [current EXCEPT ![p] = backend_instances[n]]
          /\ backend_instances' = [backend_instances EXCEPT ![n] = None]
          /\ ppc[p] = "pop" /\ ppc' = [ppc EXCEPT ![p] = "lock"]
          /\ UNCHANGED <<gone, deinits>>
      BY <1>7 DEF PopBackend, Goto, Frame, history, Loaded
    <2>2. None \notin gone
      BY MadeObjects DEF MadeInv
    <2>3. \A q \in Programs : ppc[q] \in Owning => current[q] # backend_instances[n]
      BY DEF OwnInv
    <2>4. \A m \in Names : backend_instances'[m] # backend_instances[n]
      BY <2>1 DEF TypeOK, OwnInv
    <2>5. \A q \in Programs : ppc[q] \in Owning => current[q] # None
      BY DEF MadeInv
    <2>6. \A q \in Programs \ {p} : ppc'[q] = ppc[q] /\ current'[q] = current[q]
      BY <2>1 DEF TypeOK
    <2>7. current'[p] = backend_instances[n] /\ backend_instances[n] \notin gone
      BY <2>1 DEF TypeOK, OwnInv
    <2>8. \A m \in Names : backend_instances'[m] = None \/ backend_instances'[m] = backend_instances[m]
      BY <2>1 DEF TypeOK
    <2>9. \A q \in Programs : ppc'[q] \in Owning =>
            /\ current'[q] \notin gone
            /\ \A m \in Names : backend_instances'[m] # current'[q]
            /\ \A r \in Programs \ {q} : ppc'[r] \in Owning => current'[r] # current'[q]
      <3>1. ASSUME NEW q \in Programs \ {p}, ppc'[q] \in Owning
            PROVE  /\ current'[q] \notin gone
                   /\ \A m \in Names : backend_instances'[m] # current'[q]
                   /\ \A r \in Programs \ {q} : ppc'[r] \in Owning => current'[r] # current'[q]
        BY <2>3, <2>5, <2>6, <2>7, <2>8, <3>1 DEF OwnInv
      <3>2. ASSUME NEW r \in Programs \ {p}, ppc'[r] \in Owning PROVE current'[r] # current'[p]
        BY <2>3, <2>6, <2>7, <3>2
      <3> QED
        BY <2>4, <2>7, <3>1, <3>2
    <2>10. \A m, k \in Names :
             m # k => backend_instances'[m] = None \/ backend_instances'[m] # backend_instances'[k]
      BY <2>1, <2>8 DEF TypeOK, OwnInv
    <2> QED
      BY <2>1, <2>2, <2>8, <2>9, <2>10 DEF OwnInv
  <1>8. ASSUME NEW n \in Names, PopFails(p, n) PROVE OwnInv'
    BY <1>8, Constants
    DEF PopFails, Abandon, Goto, Frame, instVars, browserVars, workVars, history, TypeOK,
        MadeInv, OwnInv, Owning, Inside
  <1>9. CASE LockBackend(p)
    BY <1>9
    DEF LockBackend, Goto, Frame, instVars, browserVars, workVars, history, TypeOK, MadeInv,
        OwnInv, Owning, Inside
  <1>10. CASE DeinitUnused(p)
    BY <1>10, Constants
    DEF DeinitUnused, Deinit, Goto, instVars, planVars, workVars, TypeOK, MadeInv, OwnInv,
        Owning, Inside
  <1>11. CASE DeinitBrowser(p)
    BY <1>11, Constants
    DEF DeinitBrowser, Deinit, CloseBrowser, DumpState, Goto, instVars, planVars, workVars,
        TypeOK, MadeInv, OwnInv, Owning, Inside
  <1>12. CASE DeinitRaises(p)
    BY <1>12, Constants
    DEF DeinitRaises, Deinit, CloseBrowser, DumpState, DumpFails, NoDump, Goto, instVars,
        planVars, workVars, TypeOK, MadeInv, OwnInv, Owning, Inside
  <1>13. CASE Release(p)
    BY <1>13
    DEF Release, Frame, instVars, browserVars, workVars, history, TypeOK, MadeInv, OwnInv,
        Owning, Inside
  <1>14. CASE Raise(p)
    BY <1>14
    DEF Raise, Abandon, Goto, Frame, instVars, browserVars, workVars, history, TypeOK,
        MadeInv, OwnInv, Owning, Inside
  <1>15. CASE IterBackends(p)
    BY <1>15
    DEF IterBackends, Goto, instVars, browserVars, workVars, history, TypeOK, MadeInv,
        OwnInv, Owning, Inside
  <1>16. ASSUME NEW o \in Objects, IterLock(p, o) PROVE OwnInv'
    BY <1>16
    DEF IterLock, Goto, instVars, browserVars, workVars, history, TypeOK, MadeInv, OwnInv,
        Owning, Inside
  <1>17. CASE IterRelease(p)
    BY <1>17
    DEF IterRelease, Goto, instVars, browserVars, workVars, history, TypeOK, MadeInv,
        OwnInv, Owning, Inside
  <1>18. CASE IterEnds(p)
    BY <1>18
    DEF IterEnds, Goto, instVars, browserVars, workVars, history, TypeOK, MadeInv, OwnInv,
        Owning, Inside
  <1> QED
    BY <1>1, <1>2, <1>3, <1>4, <1>5, <1>6, <1>7, <1>8, <1>9, <1>10, <1>11, <1>12, <1>13, <1>14, <1>15, <1>16, <1>17, <1>18
    DEF ProgramStep, Load, Unload, Iterate

LEMMA WorkerOwn ==
  ASSUME TypeOK, MadeInv, OwnInv, NEW w \in Workers, WorkerStep(w)
  PROVE  OwnInv'
  <1>1. ASSUME NEW p \in Programs, NEW n \in Names, Do(p, w, n) PROVE OwnInv'
    BY <1>1
    DEF Do, instVars, browserVars, planVars, history, TypeOK, MadeInv, OwnInv
  <1>2. CASE Enter(w)
    BY <1>2
    DEF Enter, WorkFrame, instVars, planVars, browserVars, history, TypeOK, MadeInv, OwnInv
  <1>3. CASE OpenBrowser(w)
    BY <1>3
    DEF OpenBrowser, WorkFrame, instVars, planVars, workVars, history, TypeOK, MadeInv,
        OwnInv
  <1>4. CASE Advance(w)
    BY <1>4, Constants
    DEF Advance, WorkFrame, instVars, planVars, workVars, history, TypeOK, MadeInv, OwnInv
  <1>5. CASE Exit(w)
    BY <1>5
    DEF Exit, WorkFrame, instVars, planVars, browserVars, history, TypeOK, MadeInv, OwnInv
  <1> QED
    BY <1>1, <1>2, <1>3, <1>4, <1>5
    DEF WorkerStep, Work

(* A lock is taken when it is free, and left by its owner.                 *)
LEMMA ProgramLock ==
  ASSUME TypeOK, MadeInv, LockInv, NEW p \in Programs, ProgramStep(p)
  PROVE  LockInv'
  <1>1. ASSUME NEW n \in Names, LoadBackend(p, n) PROVE LockInv'
    BY <1>1
    DEF LoadBackend, Begin, Goto, instVars, browserVars, workVars, TypeOK, MadeInv, LockInv,
        Owning, Inside
  <1>2. ASSUME NEW n \in Names, ReloadBackend(p, n) PROVE LockInv'
    BY <1>2
    DEF ReloadBackend, Begin, Goto, instVars, browserVars, workVars, TypeOK, MadeInv,
        LockInv, Owning, Inside
  <1>3. CASE BuildBackend(p)
    BY <1>3, Made
    DEF BuildBackend, Goto, Frame, browserVars, workVars, history, TypeOK, MadeInv, LockInv,
        Owning, Inside
  <1>4. CASE BuildFails(p)
    BY <1>4
    DEF BuildFails, Goto, Frame, instVars, browserVars, workVars, history, TypeOK, MadeInv,
        LockInv, Owning, Inside
  <1>5. CASE PutBackend(p)
    BY <1>5
    DEF PutBackend, Goto, Frame, browserVars, workVars, history, TypeOK, MadeInv, LockInv,
        Owning, Inside
  <1>6. ASSUME NEW S \in SUBSET Names, UnloadBackends(p, S) PROVE LockInv'
    BY <1>6
    DEF UnloadBackends, Begin, Goto, instVars, browserVars, workVars, TypeOK, MadeInv,
        LockInv, Owning, Inside
  <1>7. ASSUME NEW n \in Names, PopBackend(p, n) PROVE LockInv'
    BY <1>7
    DEF PopBackend, Goto, Frame, browserVars, workVars, history, TypeOK, MadeInv, LockInv,
        Owning, Inside
  <1>8. ASSUME NEW n \in Names, PopFails(p, n) PROVE LockInv'
    BY <1>8, Constants
    DEF PopFails, Abandon, Goto, Frame, instVars, browserVars, workVars, history, TypeOK,
        MadeInv, LockInv, Owning, Inside
  <1>9. CASE LockBackend(p)
    BY <1>9, Constants, MadeObjects
    DEF LockBackend, Goto, Frame, instVars, browserVars, workVars, history, TypeOK, MadeInv,
        LockInv, Owning, Inside
  <1>10. CASE DeinitUnused(p)
    BY <1>10, Constants
    DEF DeinitUnused, Deinit, Goto, instVars, planVars, workVars, TypeOK, MadeInv, LockInv,
        Owning, Inside
  <1>11. CASE DeinitBrowser(p)
    BY <1>11, Constants
    DEF DeinitBrowser, Deinit, CloseBrowser, DumpState, Goto, instVars, planVars, workVars,
        TypeOK, MadeInv, LockInv, Owning, Inside
  <1>12. CASE DeinitRaises(p)
    BY <1>12, Constants
    DEF DeinitRaises, Deinit, CloseBrowser, DumpState, DumpFails, NoDump, Goto, instVars,
        planVars, workVars, TypeOK, MadeInv, LockInv, Owning, Inside
  <1>13. CASE Release(p)
    BY <1>13, Constants, MadeObjects
    DEF Release, Frame, instVars, browserVars, workVars, history, TypeOK, MadeInv, LockInv,
        Owning, Inside
  <1>14. CASE Raise(p)
    BY <1>14, Constants, MadeObjects
    DEF Raise, Abandon, Goto, Frame, instVars, browserVars, workVars, history, TypeOK,
        MadeInv, LockInv, Owning, Inside
  <1>15. CASE IterBackends(p)
    BY <1>15
    DEF IterBackends, Goto, instVars, browserVars, workVars, history, TypeOK, MadeInv,
        LockInv, Owning, Inside
  <1>16. ASSUME NEW o \in Objects, IterLock(p, o) PROVE LockInv'
    BY <1>16, Constants, MadeObjects
    DEF IterLock, Goto, instVars, browserVars, workVars, history, TypeOK, MadeInv, LockInv,
        Owning, Inside
  <1>17. CASE IterRelease(p)
    BY <1>17, Constants, MadeObjects
    DEF IterRelease, Goto, instVars, browserVars, workVars, history, TypeOK, MadeInv,
        LockInv, Owning, Inside
  <1>18. CASE IterEnds(p)
    BY <1>18, Constants, MadeObjects
    DEF IterEnds, Goto, instVars, browserVars, workVars, history, TypeOK, MadeInv, LockInv,
        Owning, Inside
  <1> QED
    BY <1>1, <1>2, <1>3, <1>4, <1>5, <1>6, <1>7, <1>8, <1>9, <1>10, <1>11, <1>12, <1>13, <1>14, <1>15, <1>16, <1>17, <1>18
    DEF ProgramStep, Load, Unload, Iterate

LEMMA WorkerLock ==
  ASSUME TypeOK, MadeInv, LockInv, NEW w \in Workers, WorkerStep(w)
  PROVE  LockInv'
  <1>1. ASSUME NEW p \in Programs, NEW n \in Names, Do(p, w, n) PROVE LockInv'
    BY <1>1
    DEF Do, instVars, browserVars, planVars, history, TypeOK, MadeInv, LockInv
  <1>2. CASE Enter(w)
    BY <1>2, Constants, MadeObjects
    DEF Enter, WorkFrame, instVars, planVars, browserVars, history, TypeOK, MadeInv, LockInv
  <1>3. CASE OpenBrowser(w)
    BY <1>3
    DEF OpenBrowser, WorkFrame, instVars, planVars, workVars, history, TypeOK, MadeInv,
        LockInv
  <1>4. CASE Advance(w)
    BY <1>4, Constants
    DEF Advance, WorkFrame, instVars, planVars, workVars, history, TypeOK, MadeInv, LockInv
  <1>5. CASE Exit(w)
    BY <1>5, Constants, MadeObjects
    DEF Exit, WorkFrame, instVars, planVars, browserVars, history, TypeOK, MadeInv, LockInv
  <1> QED
    BY <1>1, <1>2, <1>3, <1>4, <1>5
    DEF WorkerStep, Work

(* deinit() holds the lock, so no function that was in time is at work.    *)
LEMMA ProgramDump ==
  ASSUME TypeOK, MadeInv, LockInv, DumpInv, NEW p \in Programs, ProgramStep(p)
  PROVE  DumpInv'
  <1>1. ASSUME NEW n \in Names, LoadBackend(p, n) PROVE DumpInv'
    BY <1>1
    DEF LoadBackend, Begin, Goto, instVars, browserVars, workVars, TypeOK, MadeInv, LockInv,
        DumpInv, Owning, Inside
  <1>2. ASSUME NEW n \in Names, ReloadBackend(p, n) PROVE DumpInv'
    BY <1>2
    DEF ReloadBackend, Begin, Goto, instVars, browserVars, workVars, TypeOK, MadeInv,
        LockInv, DumpInv, Owning, Inside
  <1>3. CASE BuildBackend(p)
    BY <1>3, Made
    DEF BuildBackend, Goto, Frame, browserVars, workVars, history, TypeOK, MadeInv, LockInv,
        DumpInv, Owning, Inside
  <1>4. CASE BuildFails(p)
    BY <1>4
    DEF BuildFails, Goto, Frame, instVars, browserVars, workVars, history, TypeOK, MadeInv,
        LockInv, DumpInv, Owning, Inside
  <1>5. CASE PutBackend(p)
    BY <1>5
    DEF PutBackend, Goto, Frame, browserVars, workVars, history, TypeOK, MadeInv, LockInv,
        DumpInv, Owning, Inside
  <1>6. ASSUME NEW S \in SUBSET Names, UnloadBackends(p, S) PROVE DumpInv'
    BY <1>6
    DEF UnloadBackends, Begin, Goto, instVars, browserVars, workVars, TypeOK, MadeInv,
        LockInv, DumpInv, Owning, Inside
  <1>7. ASSUME NEW n \in Names, PopBackend(p, n) PROVE DumpInv'
    BY <1>7
    DEF PopBackend, Goto, Frame, browserVars, workVars, history, TypeOK, MadeInv, LockInv,
        DumpInv, Owning, Inside
  <1>8. ASSUME NEW n \in Names, PopFails(p, n) PROVE DumpInv'
    BY <1>8, Constants
    DEF PopFails, Abandon, Goto, Frame, instVars, browserVars, workVars, history, TypeOK,
        MadeInv, LockInv, DumpInv, Owning, Inside
  <1>9. CASE LockBackend(p)
    BY <1>9
    DEF LockBackend, Goto, Frame, instVars, browserVars, workVars, history, TypeOK, MadeInv,
        LockInv, DumpInv, Owning, Inside
  <1>10. CASE DeinitUnused(p)
    BY <1>10, Constants
    DEF DeinitUnused, Deinit, Goto, instVars, planVars, workVars, TypeOK, MadeInv, LockInv,
        DumpInv, Owning, Inside
  <1>11. CASE DeinitBrowser(p)
    BY <1>11, Constants
    DEF DeinitBrowser, Deinit, CloseBrowser, DumpState, Goto, instVars, planVars, workVars,
        TypeOK, MadeInv, LockInv, DumpInv, Owning, Inside
  <1>12. CASE DeinitRaises(p)
    BY <1>12, Constants
    DEF DeinitRaises, Deinit, CloseBrowser, DumpState, DumpFails, NoDump, Goto, instVars,
        planVars, workVars, TypeOK, MadeInv, LockInv, DumpInv, Owning, Inside
  <1>13. CASE Release(p)
    BY <1>13
    DEF Release, Frame, instVars, browserVars, workVars, history, TypeOK, MadeInv, LockInv,
        DumpInv, Owning, Inside
  <1>14. CASE Raise(p)
    BY <1>14
    DEF Raise, Abandon, Goto, Frame, instVars, browserVars, workVars, history, TypeOK,
        MadeInv, LockInv, DumpInv, Owning, Inside
  <1>15. CASE IterBackends(p)
    BY <1>15
    DEF IterBackends, Goto, instVars, browserVars, workVars, history, TypeOK, MadeInv,
        LockInv, DumpInv, Owning, Inside
  <1>16. ASSUME NEW o \in Objects, IterLock(p, o) PROVE DumpInv'
    BY <1>16
    DEF IterLock, Goto, instVars, browserVars, workVars, history, TypeOK, MadeInv, LockInv,
        DumpInv, Owning, Inside
  <1>17. CASE IterRelease(p)
    BY <1>17
    DEF IterRelease, Goto, instVars, browserVars, workVars, history, TypeOK, MadeInv,
        LockInv, DumpInv, Owning, Inside
  <1>18. CASE IterEnds(p)
    BY <1>18
    DEF IterEnds, Goto, instVars, browserVars, workVars, history, TypeOK, MadeInv, LockInv,
        DumpInv, Owning, Inside
  <1> QED
    BY <1>1, <1>2, <1>3, <1>4, <1>5, <1>6, <1>7, <1>8, <1>9, <1>10, <1>11, <1>12, <1>13, <1>14, <1>15, <1>16, <1>17, <1>18
    DEF ProgramStep, Load, Unload, Iterate

LEMMA WorkerDump ==
  ASSUME TypeOK, MadeInv, LockInv, DumpInv, NEW w \in Workers, WorkerStep(w)
  PROVE  DumpInv'
  <1>1. ASSUME NEW p \in Programs, NEW n \in Names, Do(p, w, n) PROVE DumpInv'
    BY <1>1
    DEF Do, instVars, browserVars, planVars, history, TypeOK, MadeInv, LockInv, DumpInv
  <1>2. CASE Enter(w)
    BY <1>2
    DEF Enter, WorkFrame, instVars, planVars, browserVars, history, TypeOK, MadeInv,
        LockInv, DumpInv
  <1>3. CASE OpenBrowser(w)
    BY <1>3
    DEF OpenBrowser, WorkFrame, instVars, planVars, workVars, history, TypeOK, MadeInv,
        LockInv, DumpInv
  <1>4. CASE Advance(w)
    BY <1>4, Constants
    DEF Advance, WorkFrame, instVars, planVars, workVars, history, TypeOK, MadeInv, LockInv,
        DumpInv
  <1>5. CASE Exit(w)
    BY <1>5
    DEF Exit, WorkFrame, instVars, planVars, browserVars, history, TypeOK, MadeInv, LockInv,
        DumpInv
  <1> QED
    BY <1>1, <1>2, <1>3, <1>4, <1>5
    DEF WorkerStep, Work

-----------------------------------------------------------------------------
(* The theorems.                                                           *)

LEMMA Initial == Init => IInv
  <1> SUFFICES ASSUME Init PROVE IInv
    OBVIOUS
  <1>1. TypeOK
    BY Constants DEF Init, TypeOK, None, NoDump
  <1>2. MadeInv
    <2>1. 1..made = {}
      BY DEF Init
    <2> QED
      BY <2>1 DEF Init, MadeInv, Owning, Inside
  <1>3. OwnInv
    BY DEF Init, OwnInv, Owning
  <1>4. LockInv
    BY DEF Init, LockInv, Inside
  <1>5. DumpInv
    BY DEF Init, DumpInv
  <1> QED
    BY <1>1, <1>2, <1>3, <1>4, <1>5 DEF IInv

LEMMA Step == IInv /\ [Next]_vars => IInv'
  <1> SUFFICES ASSUME IInv, [Next]_vars PROVE IInv'
    OBVIOUS
  <1>1. ASSUME NEW p \in Programs, ProgramStep(p) PROVE IInv'
    BY <1>1, ProgramTypes, ProgramMade, ProgramOwn, ProgramLock, ProgramDump DEF IInv
  <1>2. ASSUME NEW w \in Workers, WorkerStep(w) PROVE IInv'
    BY <1>2, WorkerTypes, WorkerMade, WorkerOwn, WorkerLock, WorkerDump DEF IInv
  <1>3. CASE UNCHANGED vars
    <2>1. TypeOK'
      BY <1>3 DEF IInv, TypeOK, vars, instVars, browserVars, planVars, workVars, history
    <2>2. MadeInv'
      BY <1>3 DEF IInv, MadeInv, vars, instVars, browserVars, planVars, workVars, history
    <2>3. OwnInv'
      BY <1>3 DEF IInv, OwnInv, vars, instVars, browserVars, planVars, workVars, history
    <2>4. LockInv'
      BY <1>3 DEF IInv, LockInv, vars, instVars, browserVars, planVars, workVars, history
    <2>5. DumpInv'
      BY <1>3 DEF IInv, DumpInv, vars, instVars, browserVars, planVars, workVars, history
    <2> QED
      BY <2>1, <2>2, <2>3, <2>4, <2>5 DEF IInv
  <1> QED
    BY <1>1, <1>2, <1>3, Steps

(* The invariant: of the four parts behind TypeOK, MadeInv keeps the types, *)
(* OwnInv makes DeinitOnce inductive, and LockInv with DumpInv StateDumped. *)
THEOREM Invariant == Spec => []IInv
  BY Initial, Step, PTL DEF Spec

(* The names, places and locks of programs, workers and objects stay what  *)
(* they are meant to be (woob.py:152-197, 228-244).                        *)
THEOREM TypeCorrect == Spec => []TypeOK
  <1>1. IInv => TypeOK
    BY DEF IInv
  <1> QED
    BY <1>1, Invariant, PTL

(* However many programs load, reload and unload at once, no backend is    *)
(* unloaded twice (woob.py:192).                                           *)
THEOREM UnloadedOnce == Spec => []DeinitOnce
  <1>1. IInv => DeinitOnce
    BY DEF IInv, OwnInv, DeinitOnce
  <1> QED
    BY <1>1, Invariant, PTL

(* What functions did to the browser before deinit() is dumped by it: none *)
(* of them is at work meanwhile (woob.py:193, backend.py:359-370).         *)
THEOREM WorkDumped == Spec => []StateDumped
  <1>1. IInv => StateDumped
    BY DEF IInv, DumpInv, StateDumped
  <1> QED
    BY <1>1, Invariant, PTL

-----------------------------------------------------------------------------
(* One program at a name: NInv, on top of IInv.                            *)

(* Who begins at a name that another program is at sees it.                *)
LEMMA BeginSeen ==
  ASSUME TypeOK, MadeInv, NEW p \in Programs, NEW S \in SUBSET Names, Begin(p, S),
         NEW q \in Programs \ {p}, NEW n \in S, At(q, n)
  PROVE  n \in clash'
  <1>1. n \in Busy(q)
    <2>1. CASE n = reload[q] \/ n \in todo[q]
      BY <2>1 DEF Busy
    <2>2. CASE ppc[q] \in Owning \cup {"release", "raise"} /\ n = name[current[q]]
      <3>1. current[q] \in Objects
        BY <2>2, CurrentObject DEF Inside
      <3> QED
        BY <2>2, <3>1 DEF Busy, Owning
    <2> QED
      BY <2>1, <2>2 DEF At
  <1> QED
    BY <1>1 DEF Begin

(* The first to come to a name cannot see the others; the next one does.   *)
LEMMA AloneKept ==
  ASSUME AloneInv, NEW p \in Programs, clash \subseteq clash',
         \A q \in Programs \ {p}, n \in Names : At(q, n)' => At(q, n),
         \A n \in Names : At(p, n)' =>
           \/ At(p, n)
           \/ \A q \in Programs \ {p} : At(q, n) => n \in clash'
  PROVE  AloneInv'
  <1> SUFFICES ASSUME NEW q \in Programs, NEW r \in Programs, NEW n \in Names,
                      q # r, At(q, n)', At(r, n)'
               PROVE  n \in clash'
    BY DEF AloneInv
  <1>1. CASE q # p /\ r # p
    BY <1>1 DEF AloneInv
  <1>2. CASE q = p
    BY <1>2 DEF AloneInv
  <1>3. CASE r = p
    BY <1>3 DEF AloneInv
  <1> QED
    BY <1>1, <1>2, <1>3

(* The plans of the other programs, and the names of the objects, stay.    *)
LEMMA OthersStay ==
  ASSUME TypeOK, MadeInv, NEW p \in Programs, ProgramStep(p)
  PROVE  /\ clash \subseteq clash' /\ gone \subseteq gone'
         /\ \A o \in 1..made : name'[o] = name[o]
         /\ \A q \in Programs \ {p} :
              /\ reload'[q] = reload[q] /\ todo'[q] = todo[q]
              /\ ppc'[q] = ppc[q] /\ current'[q] = current[q]
  <1> DEFINE Stays == 
         /\ clash \subseteq clash' /\ gone \subseteq gone'
         /\ \A o \in 1..made : name'[o] = name[o]
         /\ \A q \in Programs \ {p} :
              /\ reload'[q] = reload[q] /\ todo'[q] = todo[q]
              /\ ppc'[q] = ppc[q] /\ current'[q] = current[q]
  <1>1. ASSUME NEW n \in Names, LoadBackend(p, n) PROVE Stays
    BY <1>1
    DEF LoadBackend, Begin, Goto, instVars, browserVars, workVars, TypeOK
  <1>2. ASSUME NEW n \in Names, ReloadBackend(p, n) PROVE Stays
    BY <1>2
    DEF ReloadBackend, Begin, Goto, instVars, browserVars, workVars, TypeOK
  <1>3. ASSUME BuildBackend(p) PROVE Stays
    BY <1>3, Made
    DEF BuildBackend, Goto, Frame, browserVars, workVars, history, TypeOK
  <1>4. ASSUME BuildFails(p) PROVE Stays
    BY <1>4
    DEF BuildFails, Goto, Frame, instVars, browserVars, workVars, history, TypeOK
  <1>5. ASSUME PutBackend(p) PROVE Stays
    BY <1>5
    DEF PutBackend, Goto, Frame, browserVars, workVars, history, TypeOK
  <1>6. ASSUME NEW S \in SUBSET Names, UnloadBackends(p, S) PROVE Stays
    BY <1>6
    DEF UnloadBackends, Begin, Goto, instVars, browserVars, workVars, TypeOK
  <1>7. ASSUME NEW n \in Names, PopBackend(p, n) PROVE Stays
    BY <1>7
    DEF PopBackend, Goto, Frame, browserVars, workVars, history, TypeOK
  <1>8. ASSUME NEW n \in Names, PopFails(p, n) PROVE Stays
    BY <1>8
    DEF PopFails, Abandon, Goto, Frame, instVars, browserVars, workVars, history, TypeOK
  <1>9. ASSUME LockBackend(p) PROVE Stays
    BY <1>9
    DEF LockBackend, Goto, Frame, instVars, browserVars, workVars, history, TypeOK
  <1>10. ASSUME DeinitUnused(p) PROVE Stays
    BY <1>10
    DEF DeinitUnused, Deinit, Goto, instVars, planVars, workVars, TypeOK
  <1>11. ASSUME DeinitBrowser(p) PROVE Stays
    BY <1>11
    DEF DeinitBrowser, Deinit, CloseBrowser, DumpState, Goto, instVars, planVars,
        workVars, TypeOK
  <1>12. ASSUME DeinitRaises(p) PROVE Stays
    BY <1>12
    DEF DeinitRaises, Deinit, CloseBrowser, DumpState, DumpFails, Goto, instVars,
        planVars, workVars, TypeOK
  <1>13. ASSUME Release(p) PROVE Stays
    BY <1>13
    DEF Release, Frame, instVars, browserVars, workVars, history, TypeOK
  <1>14. ASSUME Raise(p) PROVE Stays
    BY <1>14
    DEF Raise, Abandon, Goto, Frame, instVars, browserVars, workVars, history, TypeOK
  <1>15. ASSUME IterBackends(p) PROVE Stays
    BY <1>15
    DEF IterBackends, Goto, instVars, browserVars, workVars, history, TypeOK
  <1>16. ASSUME NEW o \in Objects, IterLock(p, o) PROVE Stays
    BY <1>16
    DEF IterLock, Goto, instVars, browserVars, workVars, history, TypeOK
  <1>17. ASSUME IterRelease(p) PROVE Stays
    BY <1>17
    DEF IterRelease, Goto, instVars, browserVars, workVars, history, TypeOK
  <1>18. ASSUME IterEnds(p) PROVE Stays
    BY <1>18
    DEF IterEnds, Goto, instVars, browserVars, workVars, history, TypeOK
  <1> QED
    BY <1>1, <1>2, <1>3, <1>4, <1>5, <1>6, <1>7, <1>8, <1>9, <1>10, <1>11, <1>12, <1>13, <1>14, <1>15, <1>16, <1>17, <1>18
    DEF ProgramStep, Load, Unload, Iterate


LEMMA OthersAt ==
  ASSUME TypeOK, MadeInv, NEW p \in Programs, ProgramStep(p),
         NEW q \in Programs \ {p}, NEW n
  PROVE  At(q, n)' <=> At(q, n)
  <1>1. ppc[q] \in Owning \cup {"release", "raise"} => current[q] \in 1..made
    BY CurrentObject DEF Inside
  <1> QED
    BY <1>1, OthersStay DEF At

(* What a program does to its plan and to the names.                      *)
LEMMA ProgramName ==
  ASSUME TypeOK, MadeInv, OwnInv, NameInv, NEW p \in Programs, ProgramStep(p)
  PROVE  NameInv'
  <1>1. ASSUME NEW n \in Names, LoadBackend(p, n) PROVE NameInv'
    BY <1>1, Constants
    DEF LoadBackend, Begin, Goto, instVars, browserVars, workVars, TypeOK, MadeInv,
        NameInv, Loaded, Owning, Inside
  <1>2. ASSUME NEW n \in Names, ReloadBackend(p, n) PROVE NameInv'
    BY <1>2, Constants
    DEF ReloadBackend, Begin, Goto, instVars, browserVars, workVars, TypeOK, MadeInv,
        NameInv, Loaded, Owning, Inside
  <1>3. CASE BuildBackend(p)
    BY <1>3, Constants, Made
    DEF BuildBackend, Goto, Frame, browserVars, workVars, history, TypeOK, MadeInv,
        NameInv, Loaded, Owning, Inside
  <1>4. CASE BuildFails(p)
    BY <1>4, Constants
    DEF BuildFails, Goto, Frame, instVars, browserVars, workVars, history, TypeOK,
        MadeInv, NameInv, Loaded, Owning, Inside
  <1>5. CASE PutBackend(p)
    BY <1>5, Constants
    DEF PutBackend, Goto, Frame, browserVars, workVars, history, TypeOK, MadeInv, NameInv,
        Loaded, Owning, Inside
  <1>6. ASSUME NEW S \in SUBSET Names, UnloadBackends(p, S) PROVE NameInv'
    BY <1>6, Constants
    DEF UnloadBackends, Begin, Goto, instVars, browserVars, workVars, TypeOK, MadeInv,
        NameInv, Loaded, Owning, Inside
  <1>7. ASSUME NEW n \in Names, PopBackend(p, n) PROVE NameInv'
    BY <1>7, Constants
    DEF PopBackend, Goto, Frame, browserVars, workVars, history, TypeOK, MadeInv, NameInv,
        Loaded, Owning, Inside
  <1>8. ASSUME NEW n \in Names, PopFails(p, n) PROVE NameInv'
    BY <1>8, Constants
    DEF PopFails, Abandon, Goto, Frame, instVars, browserVars, workVars, history, TypeOK,
        MadeInv, NameInv, Loaded, Owning, Inside
  <1>9. CASE LockBackend(p)
    BY <1>9, Constants
    DEF LockBackend, Goto, Frame, instVars, browserVars, workVars, history, TypeOK,
        MadeInv, NameInv, Loaded, Owning, Inside
  <1>10. CASE DeinitUnused(p)
    BY <1>10, Constants
    DEF DeinitUnused, Deinit, Goto, instVars, planVars, workVars, TypeOK, MadeInv,
        NameInv, Loaded, Owning, Inside
  <1>11. CASE DeinitBrowser(p)
    BY <1>11, Constants
    DEF DeinitBrowser, Deinit, CloseBrowser, DumpState, Goto, instVars, planVars,
        workVars, TypeOK, MadeInv, NameInv, Loaded, Owning, Inside
  <1>12. CASE DeinitRaises(p)
    BY <1>12, Constants
    DEF DeinitRaises, Deinit, CloseBrowser, DumpState, DumpFails, Goto, instVars,
        planVars, workVars, TypeOK, MadeInv, NameInv, Loaded, Owning, Inside
  <1>13. CASE Release(p)
    BY <1>13, Constants
    DEF Release, Frame, instVars, browserVars, workVars, history, TypeOK, MadeInv,
        NameInv, Loaded, Owning, Inside
  <1>14. CASE Raise(p)
    BY <1>14, Constants
    DEF Raise, Abandon, Goto, Frame, instVars, browserVars, workVars, history, TypeOK,
        MadeInv, NameInv, Loaded, Owning, Inside
  <1>15. CASE IterBackends(p)
    BY <1>15, Constants
    DEF IterBackends, Goto, instVars, browserVars, workVars, history, TypeOK, MadeInv,
        NameInv, Loaded, Owning, Inside
  <1>16. ASSUME NEW o \in Objects, IterLock(p, o) PROVE NameInv'
    BY <1>16, Constants
    DEF IterLock, Goto, instVars, browserVars, workVars, history, TypeOK, MadeInv,
        NameInv, Loaded, Owning, Inside
  <1>17. CASE IterRelease(p)
    BY <1>17, Constants
    DEF IterRelease, Goto, instVars, browserVars, workVars, history, TypeOK, MadeInv,
        NameInv, Loaded, Owning, Inside
  <1>18. CASE IterEnds(p)
    BY <1>18, Constants
    DEF IterEnds, Goto, instVars, browserVars, workVars, history, TypeOK, MadeInv,
        NameInv, Loaded, Owning, Inside
  <1> QED
    BY <1>1, <1>2, <1>3, <1>4, <1>5, <1>6, <1>7, <1>8, <1>9, <1>10, <1>11, <1>12, <1>13, <1>14, <1>15, <1>16, <1>17, <1>18
    DEF ProgramStep, Load, Unload, Iterate

LEMMA ProgramAlone ==
  ASSUME TypeOK, MadeInv, NameInv, AloneInv, NEW p \in Programs, ProgramStep(p)
  PROVE  AloneInv'
  <1>1. ASSUME NEW n \in Names, LoadBackend(p, n) PROVE AloneInv'
    <2>1. Begin(p, {n}) /\ ppc[p] = "idle"
      BY <1>1 DEF LoadBackend, Goto
    <2>2. \A m \in Names : At(p, m)' => m \in {n}
      BY <1>1, <2>1, Constants DEF LoadBackend, Goto, Begin, TypeOK, NameInv, At, Owning
    <2> QED
      BY <2>1, <2>2, BeginSeen, OthersAt, OthersStay, AloneKept
  <1>2. ASSUME NEW n \in Names, ReloadBackend(p, n) PROVE AloneInv'
    <2>1. Begin(p, {n}) /\ ppc[p] = "idle"
      BY <1>2 DEF ReloadBackend, Goto
    <2>2. \A m \in Names : At(p, m)' => m \in {n}
      BY <1>2, <2>1, Constants DEF ReloadBackend, Goto, Begin, TypeOK, NameInv, At, Owning
    <2> QED
      BY <2>1, <2>2, BeginSeen, OthersAt, OthersStay, AloneKept
  <1>3. CASE BuildBackend(p)
    <2>1. \A m \in Names : At(p, m)' => At(p, m)
      BY <1>3, Constants, Made
      DEF BuildBackend, Goto, Frame, browserVars, workVars, history, TypeOK, MadeInv, NameInv, At, Owning, Inside
    <2> QED
      BY <2>1, OthersAt, OthersStay, AloneKept
  <1>4. CASE BuildFails(p)
    <2>1. \A m \in Names : At(p, m)' => At(p, m)
      BY <1>4, Constants
      DEF BuildFails, Goto, Frame, instVars, browserVars, workVars, history, TypeOK, MadeInv, NameInv, At, Owning, Inside
    <2> QED
      BY <2>1, OthersAt, OthersStay, AloneKept
  <1>5. CASE PutBackend(p)
    <2>1. \A m \in Names : At(p, m)' => At(p, m)
      BY <1>5, Constants
      DEF PutBackend, Goto, Frame, browserVars, workVars, history, TypeOK, MadeInv, NameInv, At, Owning, Inside
    <2> QED
      BY <2>1, OthersAt, OthersStay, AloneKept
  <1>6. ASSUME NEW S \in SUBSET Names, UnloadBackends(p, S) PROVE AloneInv'
    <2>1. Begin(p, S) /\ ppc[p] = "idle"
      BY <1>6 DEF UnloadBackends, Goto
    <2>2. \A m \in Names : At(p, m)' => m \in S
      BY <1>6, <2>1, Constants DEF UnloadBackends, Goto, Begin, TypeOK, NameInv, At, Owning
    <2> QED
      BY <2>1, <2>2, BeginSeen, OthersAt, OthersStay, AloneKept
  <1>7. ASSUME NEW n \in Names, PopBackend(p, n) PROVE AloneInv'
    <2>1. \A m \in Names : At(p, m)' => At(p, m)
      <3>1. n \in todo[p] /\ name[backend_instances[n]] = n
        BY <1>7 DEF PopBackend, Loaded, NameInv
      <3>2. backend_instances[n] \in 1..made
        BY <1>7 DEF PopBackend, Loaded, MadeInv
      <3> QED
        BY <1>7, <3>1, <3>2, Constants
        DEF PopBackend, Goto, Frame, browserVars, workVars, history, TypeOK, MadeInv, NameInv, At, Owning, Inside
    <2> QED
      BY <2>1, OthersAt, OthersStay, AloneKept
  <1>8. ASSUME NEW n \in Names, PopFails(p, n) PROVE AloneInv'
    <2>1. \A m \in Names : At(p, m)' => At(p, m)
      BY <1>8, Constants
      DEF PopFails, Abandon, Goto, Frame, instVars, browserVars, workVars, history, TypeOK, MadeInv, NameInv, At, Owning, Inside
    <2> QED
      BY <2>1, OthersAt, OthersStay, AloneKept
  <1>9. CASE LockBackend(p)
    <2>1. \A m \in Names : At(p, m)' => At(p, m)
      BY <1>9, Constants
      DEF LockBackend, Goto, Frame, instVars, browserVars, workVars, history, TypeOK, MadeInv, NameInv, At, Owning, Inside
    <2> QED
      BY <2>1, OthersAt, OthersStay, AloneKept
  <1>10. CASE DeinitUnused(p)
    <2>1. \A m \in Names : At(p, m)' => At(p, m)
      BY <1>10, Constants
      DEF DeinitUnused, Deinit, Goto, instVars, planVars, workVars, TypeOK, MadeInv, NameInv, At, Owning, Inside
    <2> QED
      BY <2>1, OthersAt, OthersStay, AloneKept
  <1>11. CASE DeinitBrowser(p)
    <2>1. \A m \in Names : At(p, m)' => At(p, m)
      BY <1>11, Constants
      DEF DeinitBrowser, Deinit, CloseBrowser, DumpState, Goto, instVars, planVars, workVars, TypeOK, MadeInv, NameInv, At, Owning, Inside
    <2> QED
      BY <2>1, OthersAt, OthersStay, AloneKept
  <1>12. CASE DeinitRaises(p)
    <2>1. \A m \in Names : At(p, m)' => At(p, m)
      BY <1>12, Constants
      DEF DeinitRaises, Deinit, CloseBrowser, DumpState, DumpFails, Goto, instVars, planVars, workVars, TypeOK, MadeInv, NameInv, At, Owning, Inside
    <2> QED
      BY <2>1, OthersAt, OthersStay, AloneKept
  <1>13. CASE Release(p)
    <2>1. \A m \in Names : At(p, m)' => At(p, m)
      BY <1>13, Constants
      DEF Release, Frame, instVars, browserVars, workVars, history, TypeOK, MadeInv, NameInv, At, Owning, Inside
    <2> QED
      BY <2>1, OthersAt, OthersStay, AloneKept
  <1>14. CASE Raise(p)
    <2>1. \A m \in Names : At(p, m)' => At(p, m)
      BY <1>14, Constants
      DEF Raise, Abandon, Goto, Frame, instVars, browserVars, workVars, history, TypeOK, MadeInv, NameInv, At, Owning, Inside
    <2> QED
      BY <2>1, OthersAt, OthersStay, AloneKept
  <1>15. CASE IterBackends(p)
    <2>1. \A m \in Names : At(p, m)' => At(p, m)
      BY <1>15, Constants
      DEF IterBackends, Goto, instVars, browserVars, workVars, history, TypeOK, MadeInv, NameInv, At, Owning, Inside
    <2> QED
      BY <2>1, OthersAt, OthersStay, AloneKept
  <1>16. ASSUME NEW o \in Objects, IterLock(p, o) PROVE AloneInv'
    <2>1. \A m \in Names : At(p, m)' => At(p, m)
      BY <1>16, Constants
      DEF IterLock, Goto, instVars, browserVars, workVars, history, TypeOK, MadeInv, NameInv, At, Owning, Inside
    <2> QED
      BY <2>1, OthersAt, OthersStay, AloneKept
  <1>17. CASE IterRelease(p)
    <2>1. \A m \in Names : At(p, m)' => At(p, m)
      BY <1>17, Constants
      DEF IterRelease, Goto, instVars, browserVars, workVars, history, TypeOK, MadeInv, NameInv, At, Owning, Inside
    <2> QED
      BY <2>1, OthersAt, OthersStay, AloneKept
  <1>18. CASE IterEnds(p)
    <2>1. \A m \in Names : At(p, m)' => At(p, m)
      BY <1>18, Constants
      DEF IterEnds, Goto, instVars, browserVars, workVars, history, TypeOK, MadeInv, NameInv, At, Owning, Inside
    <2> QED
      BY <2>1, OthersAt, OthersStay, AloneKept
  <1> QED
    BY <1>1, <1>2, <1>3, <1>4, <1>5, <1>6, <1>7, <1>8, <1>9, <1>10, <1>11, <1>12, <1>13, <1>14, <1>15, <1>16, <1>17, <1>18
    DEF ProgramStep, Load, Unload, Iterate

(* What is stored was at its name, where nothing was loaded.               *)
LEMMA ProgramFree ==
  ASSUME TypeOK, MadeInv, NameInv, AloneInv, FreeInv, NEW p \in Programs, ProgramStep(p)
  PROVE  FreeInv'
  <1>1. ASSUME NEW n \in Names, LoadBackend(p, n) PROVE FreeInv'
    BY <1>1, Constants
    DEF LoadBackend, Begin, Goto, instVars, browserVars, workVars, TypeOK, MadeInv,
        NameInv, FreeInv, Loaded, Owning, Inside
  <1>2. ASSUME NEW n \in Names, ReloadBackend(p, n) PROVE FreeInv'
    BY <1>2, Constants
    DEF ReloadBackend, Begin, Goto, instVars, browserVars, workVars, TypeOK, MadeInv,
        NameInv, FreeInv, Loaded, Owning, Inside
  <1>3. CASE BuildBackend(p)
    <2>1. /\ name'[current'[p]] = reload[p] /\ reload'[p] = reload[p]
          /\ todo[p] = {} /\ UNCHANGED <<backend_instances, todo, clash>>
      BY <1>3, Made
      DEF BuildBackend, Goto, Frame, history, TypeOK, NameInv
    <2>2. \A q \in Programs \ {p} : ppc[q] \in Owning =>
             current[q] \in 1..made /\ name'[current[q]] = name[current[q]]
      BY CurrentObject, OthersStay
    <2> QED
      BY <2>1, <2>2, OthersStay DEF FreeInv, Loaded
  <1>4. CASE BuildFails(p)
    BY <1>4, Constants
    DEF BuildFails, Goto, Frame, instVars, browserVars, workVars, history, TypeOK,
        MadeInv, NameInv, FreeInv, Loaded, Owning, Inside
  <1>5. CASE PutBackend(p)
    <2>1. /\ reload[p] \in Names /\ Loaded' \subseteq Loaded \cup {reload[p]}
          /\ reload'[p] = NoName /\ ppc'[p] = "idle"
          /\ UNCHANGED <<name, todo, clash>>
      BY <1>5
      DEF PutBackend, Goto, Frame, history, TypeOK, MadeInv, Loaded
    <2>2. At(p, reload[p])
      BY DEF At
    <2>3. ASSUME NEW q \in Programs \ {p}
          PROVE  /\ reload[q] = reload[p] => reload[p] \in clash
                 /\ ppc[q] \in Owning /\ name[current[q]] = reload[p] => reload[p] \in clash
      <3>1. At(q, reload[p]) => reload[p] \in clash
        BY <2>1, <2>2 DEF AloneInv
      <3> QED
        BY <3>1 DEF At
    <2>4. NoName \notin Loaded' /\ ppc'[p] \notin Owning
      BY <2>1, Constants DEF Loaded, Owning
    <2> QED
      BY <2>1, <2>2, <2>3, <2>4, OthersStay DEF FreeInv
  <1>6. ASSUME NEW S \in SUBSET Names, UnloadBackends(p, S) PROVE FreeInv'
    BY <1>6, Constants
    DEF UnloadBackends, Begin, Goto, instVars, browserVars, workVars, TypeOK, MadeInv,
        NameInv, FreeInv, Loaded, Owning, Inside
  <1>7. ASSUME NEW n \in Names, PopBackend(p, n) PROVE FreeInv'
    BY <1>7, Constants
    DEF PopBackend, Goto, Frame, browserVars, workVars, history, TypeOK, MadeInv, NameInv,
        FreeInv, Loaded, Owning, Inside
  <1>8. ASSUME NEW n \in Names, PopFails(p, n) PROVE FreeInv'
    BY <1>8, Constants
    DEF PopFails, Abandon, Goto, Frame, instVars, browserVars, workVars, history, TypeOK,
        MadeInv, NameInv, FreeInv, Loaded, Owning, Inside
  <1>9. CASE LockBackend(p)
    BY <1>9, Constants
    DEF LockBackend, Goto, Frame, instVars, browserVars, workVars, history, TypeOK,
        MadeInv, NameInv, FreeInv, Loaded, Owning, Inside
  <1>10. CASE DeinitUnused(p)
    BY <1>10, Constants
    DEF DeinitUnused, Deinit, Goto, instVars, planVars, workVars, TypeOK, MadeInv,
        NameInv, FreeInv, Loaded, Owning, Inside
  <1>11. CASE DeinitBrowser(p)
    BY <1>11, Constants
    DEF DeinitBrowser, Deinit, CloseBrowser, DumpState, Goto, instVars, planVars,
        workVars, TypeOK, MadeInv, NameInv, FreeInv, Loaded, Owning, Inside
  <1>12. CASE DeinitRaises(p)
    BY <1>12, Constants
    DEF DeinitRaises, Deinit, CloseBrowser, DumpState, DumpFails, Goto, instVars,
        planVars, workVars, TypeOK, MadeInv, NameInv, FreeInv, Loaded, Owning, Inside
  <1>13. CASE Release(p)
    BY <1>13, Constants
    DEF Release, Frame, instVars, browserVars, workVars, history, TypeOK, MadeInv,
        NameInv, FreeInv, Loaded, Owning, Inside
  <1>14. CASE Raise(p)
    BY <1>14, Constants
    DEF Raise, Abandon, Goto, Frame, instVars, browserVars, workVars, history, TypeOK,
        MadeInv, NameInv, FreeInv, Loaded, Owning, Inside
  <1>15. CASE IterBackends(p)
    BY <1>15, Constants
    DEF IterBackends, Goto, instVars, browserVars, workVars, history, TypeOK, MadeInv,
        NameInv, FreeInv, Loaded, Owning, Inside
  <1>16. ASSUME NEW o \in Objects, IterLock(p, o) PROVE FreeInv'
    BY <1>16, Constants
    DEF IterLock, Goto, instVars, browserVars, workVars, history, TypeOK, MadeInv,
        NameInv, FreeInv, Loaded, Owning, Inside
  <1>17. CASE IterRelease(p)
    BY <1>17, Constants
    DEF IterRelease, Goto, instVars, browserVars, workVars, history, TypeOK, MadeInv,
        NameInv, FreeInv, Loaded, Owning, Inside
  <1>18. CASE IterEnds(p)
    BY <1>18, Constants
    DEF IterEnds, Goto, instVars, browserVars, workVars, history, TypeOK, MadeInv,
        NameInv, FreeInv, Loaded, Owning, Inside
  <1> QED
    BY <1>1, <1>2, <1>3, <1>4, <1>5, <1>6, <1>7, <1>8, <1>9, <1>10, <1>11, <1>12, <1>13, <1>14, <1>15, <1>16, <1>17, <1>18
    DEF ProgramStep, Load, Unload, Iterate

(* An object passes from its maker to the loaded ones, and to who unloads. *)
LEMMA ProgramKept ==
  ASSUME TypeOK, MadeInv, OwnInv, NameInv, FreeInv, KeptInv, NEW p \in Programs, ProgramStep(p)
  PROVE  KeptInv'
  <1>1. ASSUME NEW n \in Names, LoadBackend(p, n) PROVE KeptInv'
    BY <1>1, Constants
    DEF LoadBackend, Begin, Goto, instVars, browserVars, workVars, TypeOK, MadeInv,
        NameInv, KeptInv, Owning, Inside
  <1>2. ASSUME NEW n \in Names, ReloadBackend(p, n) PROVE KeptInv'
    BY <1>2, Constants
    DEF ReloadBackend, Begin, Goto, instVars, browserVars, workVars, TypeOK, MadeInv,
        NameInv, KeptInv, Owning, Inside
  <1>3. CASE BuildBackend(p)
    BY <1>3, Constants
    DEF BuildBackend, Goto, Frame, browserVars, workVars, history, TypeOK, MadeInv,
        NameInv, KeptInv, Owning, Inside
  <1>4. CASE BuildFails(p)
    BY <1>4, Constants
    DEF BuildFails, Goto, Frame, instVars, browserVars, workVars, history, TypeOK,
        MadeInv, NameInv, KeptInv, Owning, Inside
  <1>5. CASE PutBackend(p)
    <2>1. /\ reload[p] \in Names /\ name[current[p]] = reload[p] /\ todo[p] = {}
          /\ current[p] \in 1..made
      BY <1>5, CurrentObject DEF PutBackend, Goto, MadeInv, NameInv, Owning
    <2>2. /\ backend_instances' = [backend_instances EXCEPT ![reload[p]] = current[p]]
          /\ UNCHANGED <<made, name, gone, clash>>
      BY <1>5 DEF PutBackend, Frame, history
    <2>3. ASSUME NEW o \in 1..made, o \notin gone, name[o] \notin clash,
                 backend_instances[name[o]] = o
          PROVE  backend_instances'[name[o]] = o
      <3>1. name[o] \in Names /\ o # None
        BY MadeObjects DEF MadeInv
      <3>2. name[o] # reload[p]
        BY <2>1, <2>3, <3>1 DEF FreeInv, Loaded
      <3> QED
        BY <2>2, <2>3, <3>1, <3>2 DEF TypeOK
    <2>4. backend_instances'[name[current[p]]] = current[p]
      BY <2>1, <2>2 DEF TypeOK
    <2> QED
      BY <2>2, <2>3, <2>4, OthersStay DEF KeptInv
  <1>6. ASSUME NEW S \in SUBSET Names, UnloadBackends(p, S) PROVE KeptInv'
    BY <1>6, Constants
    DEF UnloadBackends, Begin, Goto, instVars, browserVars, workVars, TypeOK, MadeInv,
        NameInv, KeptInv, Owning, Inside
  <1>7. ASSUME NEW n \in Names, PopBackend(p, n) PROVE KeptInv'
    BY <1>7, Constants
    DEF PopBackend, Goto, Frame, browserVars, workVars, history, TypeOK, MadeInv, NameInv,
        KeptInv, Owning, Inside
  <1>8. ASSUME NEW n \in Names, PopFails(p, n) PROVE KeptInv'
    BY <1>8, Constants
    DEF PopFails, Abandon, Goto, Frame, instVars, browserVars, workVars, history, TypeOK,
        MadeInv, NameInv, KeptInv, Owning, Inside
  <1>9. CASE LockBackend(p)
    BY <1>9, Constants
    DEF LockBackend, Goto, Frame, instVars, browserVars, workVars, history, TypeOK,
        MadeInv, NameInv, KeptInv, Owning, Inside
  <1>10. CASE DeinitUnused(p)
    BY <1>10, Constants
    DEF DeinitUnused, Deinit, Goto, instVars, planVars, workVars, TypeOK, MadeInv,
        NameInv, KeptInv, Owning, Inside
  <1>11. CASE DeinitBrowser(p)
    BY <1>11, Constants
    DEF DeinitBrowser, Deinit, CloseBrowser, DumpState, Goto, instVars, planVars,
        workVars, TypeOK, MadeInv, NameInv, KeptInv, Owning, Inside
  <1>12. CASE DeinitRaises(p)
    BY <1>12, Constants
    DEF DeinitRaises, Deinit, CloseBrowser, DumpState, DumpFails, Goto, instVars,
        planVars, workVars, TypeOK, MadeInv, NameInv, KeptInv, Owning, Inside
  <1>13. CASE Release(p)
    BY <1>13, Constants
    DEF Release, Frame, instVars, browserVars, workVars, history, TypeOK, MadeInv,
        NameInv, KeptInv, Owning, Inside
  <1>14. CASE Raise(p)
    BY <1>14, Constants
    DEF Raise, Abandon, Goto, Frame, instVars, browserVars, workVars, history, TypeOK,
        MadeInv, NameInv, KeptInv, Owning, Inside
  <1>15. CASE IterBackends(p)
    BY <1>15, Constants
    DEF IterBackends, Goto, instVars, browserVars, workVars, history, TypeOK, MadeInv,
        NameInv, KeptInv, Owning, Inside
  <1>16. ASSUME NEW o \in Objects, IterLock(p, o) PROVE KeptInv'
    BY <1>16, Constants
    DEF IterLock, Goto, instVars, browserVars, workVars, history, TypeOK, MadeInv,
        NameInv, KeptInv, Owning, Inside
  <1>17. CASE IterRelease(p)
    BY <1>17, Constants
    DEF IterRelease, Goto, instVars, browserVars, workVars, history, TypeOK, MadeInv,
        NameInv, KeptInv, Owning, Inside
  <1>18. CASE IterEnds(p)
    BY <1>18, Constants
    DEF IterEnds, Goto, instVars, browserVars, workVars, history, TypeOK, MadeInv,
        NameInv, KeptInv, Owning, Inside
  <1> QED
    BY <1>1, <1>2, <1>3, <1>4, <1>5, <1>6, <1>7, <1>8, <1>9, <1>10, <1>11, <1>12, <1>13, <1>14, <1>15, <1>16, <1>17, <1>18
    DEF ProgramStep, Load, Unload, Iterate

(* At most one object of a name is not unloaded, so no other dumps its     *)
(* state while that one has a browser.                                     *)
LEMMA SameName ==
  ASSUME TypeOK, MadeInv, NameInv, AloneInv, FreeInv, KeptInv,
         NEW o \in (1..made) \ gone, NEW r \in (1..made) \ gone,
         name[o] = name[r], name[o] \notin clash
  PROVE  o = r
  <1>1. name[o] \in Names /\ o # None /\ r # None
    BY MadeObjects DEF MadeInv
  <1>2. ASSUME NEW p \in Programs, ppc[p] \in Owning, current[p] \in {o, r}
        PROVE  backend_instances[name[o]] \notin {o, r} /\ At(p, name[o])
    BY <1>1, <1>2 DEF FreeInv, Loaded, At
  <1>3. ASSUME NEW p \in Programs, ppc[p] \in Owning, current[p] = o,
               NEW q \in Programs, ppc[q] \in Owning, current[q] = r
        PROVE  o = r
    BY <1>1, <1>2, <1>3 DEF AloneInv
  <1> QED
    BY <1>2, <1>3 DEF KeptInv

LEMMA ProgramState ==
  ASSUME TypeOK, MadeInv, OwnInv, NameInv, AloneInv, FreeInv, KeptInv, StateInv,
         NEW p \in Programs, ProgramStep(p)
  PROVE  StateInv'
  <1>1. ASSUME NEW n \in Names, LoadBackend(p, n) PROVE StateInv'
    BY <1>1, Constants
    DEF LoadBackend, Begin, Goto, instVars, browserVars, workVars, TypeOK, MadeInv,
        StateInv, Owning, Inside
  <1>2. ASSUME NEW n \in Names, ReloadBackend(p, n) PROVE StateInv'
    BY <1>2, Constants
    DEF ReloadBackend, Begin, Goto, instVars, browserVars, workVars, TypeOK, MadeInv,
        StateInv, Owning, Inside
  <1>3. CASE BuildBackend(p)
    <2>1. /\ made + 1 \in Objects \ (1..made) /\ 1..made' = 1..made \cup {made + 1}
          /\ UNCHANGED <<gone, clash, browser, state, storage>>
      BY <1>3, Made DEF BuildBackend, Frame, browserVars, history
    <2> QED
      BY <2>1, OthersStay DEF StateInv
  <1>4. CASE BuildFails(p)
    BY <1>4, Constants
    DEF BuildFails, Goto, Frame, instVars, browserVars, workVars, history, TypeOK,
        MadeInv, StateInv, Owning, Inside
  <1>5. CASE PutBackend(p)
    BY <1>5, Constants
    DEF PutBackend, Goto, Frame, browserVars, workVars, history, TypeOK, MadeInv,
        StateInv, Owning, Inside
  <1>6. ASSUME NEW S \in SUBSET Names, UnloadBackends(p, S) PROVE StateInv'
    BY <1>6, Constants
    DEF UnloadBackends, Begin, Goto, instVars, browserVars, workVars, TypeOK, MadeInv,
        StateInv, Owning, Inside
  <1>7. ASSUME NEW n \in Names, PopBackend(p, n) PROVE StateInv'
    BY <1>7, Constants
    DEF PopBackend, Goto, Frame, browserVars, workVars, history, TypeOK, MadeInv,
        StateInv, Owning, Inside
  <1>8. ASSUME NEW n \in Names, PopFails(p, n) PROVE StateInv'
    BY <1>8, Constants
    DEF PopFails, Abandon, Goto, Frame, instVars, browserVars, workVars, history, TypeOK,
        MadeInv, StateInv, Owning, Inside
  <1>9. CASE LockBackend(p)
    BY <1>9, Constants
    DEF LockBackend, Goto, Frame, instVars, browserVars, workVars, history, TypeOK,
        MadeInv, StateInv, Owning, Inside
  <1>10. CASE DeinitUnused(p)
    BY <1>10, Constants
    DEF DeinitUnused, Deinit, Goto, instVars, planVars, workVars, TypeOK, MadeInv,
        StateInv, Owning, Inside
  <1>11. CASE DeinitBrowser(p)
    <2>1. /\ current[p] \in (1..made) \ gone /\ gone' = gone \cup {current[p]}
          /\ UNCHANGED <<made, name, clash, state>>
          /\ browser[current[p]] # "none"
          /\ \A o \in Objects : o # current[p] => browser'[o] = browser[o]
      BY <1>11, CurrentObject
      DEF DeinitBrowser, Deinit, CloseBrowser, Goto, instVars, TypeOK, OwnInv, Owning
    <2>2. \A n \in Names : n # name[current[p]] => storage'[n] = storage[n]
      BY <1>11 DEF DeinitBrowser, DumpState, DumpFails, TypeOK
    <2>3. ASSUME NEW o \in (1..made) \ gone', name[o] \notin clash
          PROVE  storage'[name[o]] = storage[name[o]] /\ browser'[o] = browser[o]
      BY <2>1, <2>2, <2>3, SameName, MadeObjects DEF MadeInv
    <2> QED
      BY <2>1, <2>3, MadeObjects DEF StateInv
  <1>12. CASE DeinitRaises(p)
    <2>1. /\ current[p] \in (1..made) \ gone /\ gone' = gone \cup {current[p]}
          /\ UNCHANGED <<made, name, clash, state>>
          /\ browser[current[p]] # "none"
          /\ \A o \in Objects : o # current[p] => browser'[o] = browser[o]
      BY <1>12, CurrentObject
      DEF DeinitRaises, Deinit, CloseBrowser, Goto, instVars, TypeOK, OwnInv, Owning
    <2>2. \A n \in Names : n # name[current[p]] => storage'[n] = storage[n]
      BY <1>12 DEF DeinitRaises, DumpState, DumpFails, TypeOK
    <2>3. ASSUME NEW o \in (1..made) \ gone', name[o] \notin clash
          PROVE  storage'[name[o]] = storage[name[o]] /\ browser'[o] = browser[o]
      BY <2>1, <2>2, <2>3, SameName, MadeObjects DEF MadeInv
    <2> QED
      BY <2>1, <2>3, MadeObjects DEF StateInv
  <1>13. CASE Release(p)
    BY <1>13, Constants
    DEF Release, Frame, instVars, browserVars, workVars, history, TypeOK, MadeInv,
        StateInv, Owning, Inside
  <1>14. CASE Raise(p)
    BY <1>14, Constants
    DEF Raise, Abandon, Goto, Frame, instVars, browserVars, workVars, history, TypeOK,
        MadeInv, StateInv, Owning, Inside
  <1>15. CASE IterBackends(p)
    BY <1>15, Constants
    DEF IterBackends, Goto, instVars, browserVars, workVars, history, TypeOK, MadeInv,
        StateInv, Owning, Inside
  <1>16. ASSUME NEW o \in Objects, IterLock(p, o) PROVE StateInv'
    BY <1>16, Constants
    DEF IterLock, Goto, instVars, browserVars, workVars, history, TypeOK, MadeInv,
        StateInv, Owning, Inside
  <1>17. CASE IterRelease(p)
    BY <1>17, Constants
    DEF IterRelease, Goto, instVars, browserVars, workVars, history, TypeOK, MadeInv,
        StateInv, Owning, Inside
  <1>18. CASE IterEnds(p)
    BY <1>18, Constants
    DEF IterEnds, Goto, instVars, browserVars, workVars, history, TypeOK, MadeInv,
        StateInv, Owning, Inside
  <1> QED
    BY <1>1, <1>2, <1>3, <1>4, <1>5, <1>6, <1>7, <1>8, <1>9, <1>10, <1>11, <1>12, <1>13, <1>14, <1>15, <1>16, <1>17, <1>18
    DEF ProgramStep, Load, Unload, Iterate

(* Functions only touch the browser and its state.                         *)
LEMMA WorkerNames ==
  ASSUME IInv, NInv, NEW w \in Workers, WorkerStep(w)
  PROVE  NInv'
  <1>1. UNCHANGED <<backend_instances, made, name, gone, ppc, todo, reload, current, clash, storage>>
    BY DEF WorkerStep, Work, Do, Enter, OpenBrowser, Advance, Exit, WorkFrame, instVars,
       browserVars, planVars, history
  <1>2. NameInv' /\ AloneInv' /\ FreeInv' /\ KeptInv'
    BY <1>1 DEF NInv, NameInv, AloneInv, FreeInv, KeptInv, At, Loaded
  <1>3. StateInv'
    <2>1. CASE OpenBrowser(w)
      <3>1. at[w] \in 1..made /\ at[w] \in Objects /\ storage[name[at[w]]] \in 0..MaxState
        BY <2>1, MadeObjects DEF IInv, TypeOK, MadeInv, OpenBrowser
      <3>2. /\ \A o \in Objects : o # at[w] => browser'[o] = browser[o] /\ state'[o] = state[o]
            /\ state'[at[w]] = storage[name[at[w]]]
        BY <2>1, <3>1 DEF IInv, TypeOK, OpenBrowser
      <3> QED
        BY <1>1, <3>1, <3>2, MadeObjects, Constants DEF IInv, NInv, StateInv
    <2>2. CASE Advance(w)
      <3>1. browser' = browser /\ \A o \in Objects : state'[o] >= state[o]
        BY <2>2, Constants DEF IInv, TypeOK, Advance
      <3>2. \A o \in 1..made : state[o] \in Nat /\ state'[o] \in Nat /\ storage[name[o]] \in Nat
        BY <2>2, MadeObjects, Constants DEF IInv, TypeOK, MadeInv, Advance
      <3> QED
        BY <1>1, <3>1, <3>2, MadeObjects DEF IInv, NInv, StateInv
    <2>3. CASE ~OpenBrowser(w) /\ ~Advance(w)
      <3>1. UNCHANGED <<browser, state>>
        BY <2>3 DEF WorkerStep, Work, Do, Enter, Exit, browserVars
      <3> QED
        BY <1>1, <3>1 DEF NInv, StateInv
    <2> QED
      BY <2>1, <2>2, <2>3
  <1> QED
    BY <1>2, <1>3 DEF NInv

LEMMA NamesHold == Spec => [](IInv /\ NInv)
  <1>1. ASSUME Init PROVE NInv
    <2>1. 1..made = {}
      BY <1>1 DEF Init
    <2>2. NameInv
      BY <1>1 DEF Init, NameInv
    <2>3. AloneInv
      BY <1>1, Constants DEF Init, AloneInv, At, Owning
    <2>4. FreeInv
      BY <1>1 DEF Init, FreeInv, Loaded, Owning
    <2>5. KeptInv /\ StateInv
      BY <1>1, <2>1 DEF Init, KeptInv, StateInv
    <2> QED
      BY <2>2, <2>3, <2>4, <2>5 DEF NInv
  <1>2. ASSUME IInv, NInv, [Next]_vars PROVE NInv'
    <2>1. ASSUME NEW p \in Programs, ProgramStep(p) PROVE NInv'
      BY <1>2, <2>1, ProgramName, ProgramAlone, ProgramFree, ProgramKept, ProgramState
      DEF IInv, NInv
    <2>2. ASSUME NEW w \in Workers, WorkerStep(w) PROVE NInv'
      BY <1>2, <2>2, WorkerNames
    <2>3. CASE UNCHANGED vars
      BY <1>2, <2>3 DEF vars, instVars, browserVars, planVars, history, NInv, NameInv,
         AloneInv, FreeInv, KeptInv, StateInv, At, Loaded
    <2> QED
      BY <1>2, <2>1, <2>2, <2>3, Steps
  <1> QED
    BY <1>1, <1>2, Invariant, PTL DEF Spec

(* Whatever is loaded, reloaded and unloaded, with failures, a backend is  *)
(* forgotten before it is unloaded only if two programs were at its name   *)
(* at once (woob.py:172-176).                                              *)
THEOREM NotForgotten == Spec => []NoneForgotten
  <1>1. ASSUME IInv, NInv PROVE NoneForgotten
    <2>1. \A o \in 1..made : name[o] \in Names
      BY <1>1 DEF IInv, MadeInv
    <2> QED
      BY <1>1, <2>1 DEF NInv, KeptInv, NoneForgotten
  <1> QED
    BY <1>1, NamesHold, PTL

(* Only deinit() stores a state, and one that is not older than the state  *)
(* its browser began with (woob.py:192-194, backend.py:359-370), unless    *)
(* two programs were at the name at once.                                  *)
THEOREM StateNotLost == Spec => StateNeverBack
  <1> DEFINE A == \A n \in Names : n \in clash \/ storage'[n] >= storage[n]
  <1>1. ASSUME IInv, NInv, [Next]_vars
        PROVE  [A]_vars
    <2>1. CASE storage' = storage
      BY <1>1, <2>1, Constants DEF IInv, TypeOK
    <2>2. ASSUME NEW p \in Programs, DeinitBrowser(p) \/ DeinitRaises(p)
          PROVE  A
      <3>1. /\ current[p] \in (1..made) \ gone /\ current[p] \in Objects
            /\ browser[current[p]] # "none"
        BY <1>1, <2>2, CurrentObject
        DEF DeinitBrowser, DeinitRaises, Deinit, CloseBrowser, Goto, IInv, OwnInv, Owning
      <3>2. \/ storage' = storage
            \/ storage' = [storage EXCEPT ![name[current[p]]] = state[current[p]]]
        BY <2>2 DEF DeinitBrowser, DeinitRaises, DumpState, DumpFails
      <3>3. name[current[p]] \in clash \/ state[current[p]] >= storage[name[current[p]]]
        BY <1>1, <3>1 DEF NInv, StateInv
      <3> QED
        BY <1>1, <3>2, <3>3, Constants DEF IInv, TypeOK
    <2>3. ASSUME NEW p \in Programs, ProgramStep(p), ~DeinitBrowser(p), ~DeinitRaises(p)
          PROVE  storage' = storage
      BY <2>3 DEF ProgramStep, Load, LoadBackend, ReloadBackend, BuildBackend, BuildFails,
         PutBackend, Unload, UnloadBackends, PopBackend, PopFails, LockBackend,
         DeinitUnused, Release, Raise, IterBackends, Iterate, IterLock, IterRelease,
         IterEnds, Begin, Frame, browserVars
    <2>4. ASSUME NEW w \in Workers, WorkerStep(w)
          PROVE  storage' = storage
      BY <2>4 DEF WorkerStep, Work, Do, Enter, OpenBrowser, Advance, Exit, browserVars
    <2> QED
      BY <1>1, <2>1, <2>2, <2>3, <2>4, Steps
  <1> QED
    BY <1>1, NamesHold, PTL DEF Spec, StateNeverBack

-----------------------------------------------------------------------------
(* A backend is locked only by who is inside it, and who is inside it      *)
(* waits for nothing and holds no other: each of the ways out, those of    *)
(* exceptions and of a loop that is left included, gives the lock back     *)
(* (woob.py:193, 240-241).  Nobody waits for a backend for good.           *)
LockedInside ==
  \A o \in Objects : lock[o] # None =>
    \/ \E p \in Programs : lock[o] = p /\ current[p] = o /\ ppc[p] \in Inside
    \/ \E w \in Workers : lock[o] = w /\ at[w] = o /\ wpc[w] \in {"run", "late"}

LEMMA ProgramInside ==
  ASSUME TypeOK, MadeInv, LockedInside, NEW p \in Programs, ProgramStep(p)
  PROVE  LockedInside'
<1> DEFINE Other(o) == lock'[o] # None => o # current[p] /\ lock'[o] = lock[o]
           Taken(o) == lock'[o] = lock[o] \/ (lock'[o] = p /\ current'[p] = o)
<1>1. /\ UNCHANGED <<wpc, at>>
      /\ \A q \in Programs \ {p} : ppc'[q] = ppc[q] /\ current'[q] = current[q]
  <2>1. UNCHANGED <<wpc, at>>
    BY DEF ProgramStep, Load, LoadBackend, ReloadBackend, BuildBackend, BuildFails, PutBackend, Unload,
       UnloadBackends, PopBackend, PopFails, LockBackend, DeinitUnused, DeinitBrowser, DeinitRaises,
       Deinit, Release, Raise, IterBackends, Iterate, IterLock, IterRelease, IterEnds, Begin, Frame,
       workVars
  <2> QED  BY <2>1, OthersStay
<1>2. CASE \/ Load(p) \/ IterBackends(p)
           \/ \E n \in Names : LoadBackend(p, n) \/ ReloadBackend(p, n) \/ PopBackend(p, n) \/ PopFails(p, n)
           \/ \E S \in SUBSET Names : UnloadBackends(p, S)
  <2>1. ppc[p] \notin Inside /\ lock' = lock
    BY <1>2 DEF Load, IterBackends, LoadBackend, ReloadBackend, PopBackend, PopFails, BuildBackend,
       BuildFails, PutBackend, UnloadBackends, Goto, Inside
  <2> QED  BY <1>1, <2>1 DEF LockedInside
<1>3. CASE DeinitUnused(p) \/ DeinitBrowser(p) \/ DeinitRaises(p)
  <2>1. ppc'[p] \in Inside /\ lock' = lock /\ current' = current
    BY <1>3 DEF DeinitUnused, DeinitBrowser, DeinitRaises, Deinit, Goto, Inside, planVars, TypeOK
  <2> QED  BY <1>1, <2>1 DEF LockedInside
<1>4. CASE LockBackend(p) \/ \E o \in Objects : IterLock(p, o)
  <2>1. ppc[p] \notin Inside /\ ppc'[p] \in Inside /\ \A o \in Objects : Taken(o)
    BY <1>4, CurrentObject DEF LockBackend, IterLock, Goto, Inside, Owning, TypeOK
  <2> QED  BY <1>1, <2>1 DEF LockedInside
<1>5. CASE Release(p) \/ Raise(p) \/ IterRelease(p) \/ IterEnds(p)
  <2>1. \A o \in Objects : Other(o)
    BY <1>5, Constants DEF Release, Raise, IterRelease, IterEnds, TypeOK
  <2> QED  BY <1>1, <2>1 DEF LockedInside
<1> QED  BY <1>2, <1>3, <1>4, <1>5 DEF ProgramStep, Unload, Iterate

LEMMA WorkerInside ==
  ASSUME TypeOK, MadeInv, LockedInside, NEW w \in Workers, WorkerStep(w)
  PROVE  LockedInside'
<1>1. /\ UNCHANGED <<ppc, current>>
      /\ \A v \in Workers \ {w} : wpc'[v] = wpc[v] /\ at'[v] = at[v]
  BY DEF WorkerStep, Work, Do, Enter, OpenBrowser, Advance, Exit, WorkFrame, planVars, workVars, TypeOK
<1>2. CASE OpenBrowser(w) \/ Advance(w)
  BY <1>2 DEF OpenBrowser, Advance, workVars, WorkFrame, planVars, LockedInside
<1>3. CASE \E p \in Programs, n \in Names : Do(p, w, n)
  <2>1. wpc[w] = "new" /\ lock' = lock
    BY <1>3 DEF Do
  <2> QED  BY <1>1, <2>1 DEF LockedInside
<1>4. CASE Enter(w)
  <2>1. /\ wpc[w] = "lock" /\ wpc'[w] \in {"run", "late"} /\ at' = at
        /\ \A o \in Objects : lock'[o] = lock[o] \/ (lock'[o] = w /\ o = at[w])
    BY <1>4 DEF Enter, TypeOK
  <2> QED  BY <1>1, <2>1 DEF LockedInside
<1>5. CASE Exit(w)
  <2>1. \A o \in Objects : lock'[o] # None => o # at[w] /\ lock'[o] = lock[o]
    BY <1>5, Constants DEF Exit, TypeOK
  <2> QED  BY <1>1, <2>1 DEF LockedInside
<1> QED  BY <1>2, <1>3, <1>4, <1>5 DEF WorkerStep, Work

(* In every execution, a backend that is locked is with somebody who goes  *)
(* on and gives it back.                                                   *)
THEOREM LocksGivenBack == Spec => []LockedInside
<1>1. Init => LockedInside
  BY DEF Init, LockedInside
<1>2. ASSUME IInv, LockedInside, [Next]_vars  PROVE LockedInside'
  <2>1. CASE UNCHANGED vars
    BY <1>2, <2>1 DEF vars, planVars, workVars, LockedInside
  <2> QED  BY <1>2, <2>1, Steps, ProgramInside, WorkerInside DEF IInv
<1> QED  BY <1>1, <1>2, Invariant, PTL DEF Spec

(* What a program in unload_backends() or iter_backends() has left to do   *)
(* where it is, once the names and the objects that are left are the same. *)
Distance(place) ==
  CASE place = "lock"  -> 4 [] place = "deinit"  -> 3
    [] place = "raise" -> 2 [] place = "release" -> 2 [] place = "held" -> 2
    [] OTHER           -> 1

Nearer(p) ==
  ppc[p] \in {"pop", "lock", "deinit", "release", "raise", "iter", "held"} =>
    \/ ppc'[p] \in {"idle", "build"}
    \/ todo'[p] \subseteq todo[p] /\ todo'[p] # todo[p]
    \/ visit'[p] \subseteq visit[p] /\ visit'[p] # visit[p]
    \/ /\ todo'[p] = todo[p] /\ visit'[p] = visit[p]
       /\ ppc'[p] = ppc[p] \/ Distance(ppc'[p]) < Distance(ppc[p])

(* Each step of a program that unloads or iterates is its last there, or   *)
(* leaves fewer names or objects, or as many and fewer steps: what is      *)
(* loaded in the meantime gives it no more to do (woob.py:190-194).  With  *)
(* LockedInside and the fairness of Unload and Iterate this is why         *)
(* UnloadEnds holds.                                                       *)
UnloadNearsItsEnd == [][\A p \in Programs : Nearer(p)]_vars

(* In every execution, each step of an unload or of an iteration is nearer *)
(* to its end (woob.py:186-194, 239-241).                                  *)
THEOREM UnloadNears == Spec => UnloadNearsItsEnd
<1>1. ASSUME IInv, NEW p \in Programs, ProgramStep(p)  PROVE \A q \in Programs : Nearer(q)
  <2>1. TypeOK /\ MadeInv
    BY <1>1 DEF IInv
  <2>2. \A q \in Programs \ {p} : ppc'[q] = ppc[q] /\ todo'[q] = todo[q] /\ visit'[q] = visit[q]
    <3>1. \A q \in Programs \ {p} : visit'[q] = visit[q]
      BY <1>1, <2>1 DEF ProgramStep, Load, LoadBackend, ReloadBackend, BuildBackend, BuildFails, PutBackend,
         Unload, UnloadBackends, PopBackend, PopFails, LockBackend, DeinitUnused, DeinitBrowser,
         DeinitRaises, Deinit, Release, Raise, IterBackends, Iterate, IterLock, IterRelease, IterEnds,
         Begin, Frame, planVars, TypeOK
    <3> QED  BY <1>1, <2>1, <3>1, OthersStay
  <2>3. CASE \/ Load(p) \/ IterBackends(p) \/ Raise(p) \/ IterEnds(p)
             \/ \E n \in Names : LoadBackend(p, n) \/ ReloadBackend(p, n) \/ PopFails(p, n)
             \/ \E S \in SUBSET Names : UnloadBackends(p, S)
    <3>1. ppc'[p] = "idle" \/ ppc[p] \in {"idle", "build", "put"}
      BY <2>1, <2>3 DEF Load, IterBackends, LoadBackend, ReloadBackend, PopFails, BuildBackend,
         BuildFails, PutBackend, UnloadBackends, Raise, IterEnds, Goto, TypeOK
    <3> QED  BY <2>2, <3>1 DEF Nearer
  <2>4. ASSUME NEW n \in Names, PopBackend(p, n)  PROVE Nearer(p)
    <3>1. todo'[p] = todo[p] \ {n} /\ n \in todo[p]
      BY <2>1, <2>4 DEF PopBackend, TypeOK
    <3> QED  BY <3>1 DEF Nearer
  <2>5. ASSUME NEW o \in Objects, IterLock(p, o)  PROVE Nearer(p)
    <3>1. visit'[p] = visit[p] \ {o} /\ o \in visit[p]
      BY <2>1, <2>5 DEF IterLock, TypeOK
    <3> QED  BY <3>1 DEF Nearer
  <2>6. CASE LockBackend(p) \/ DeinitUnused(p) \/ DeinitBrowser(p) \/ DeinitRaises(p) \/ Release(p) \/ IterRelease(p)
    <3>1. todo' = todo /\ visit' = visit
      BY <2>6 DEF LockBackend, DeinitUnused, DeinitBrowser, DeinitRaises, Deinit, Release, IterRelease,
         Frame, planVars
    <3>2. \/ ppc'[p] \in {"idle", "build"}
          \/ Distance(ppc'[p]) < Distance(ppc[p])
      BY <2>1, <2>6 DEF LockBackend, DeinitUnused, DeinitBrowser, DeinitRaises, Deinit, Release,
         IterRelease, Goto, Distance, TypeOK
    <3> QED  BY <3>1, <3>2, <2>2 DEF Nearer
  <2> QED  BY <1>1, <2>2, <2>3, <2>4, <2>5, <2>6 DEF ProgramStep, Unload, Iterate, Nearer
<1>2. ASSUME NEW w \in Workers, WorkerStep(w)  PROVE \A q \in Programs : Nearer(q)
  <2>1. UNCHANGED <<ppc, todo, visit>>
    BY <1>2 DEF WorkerStep, Work, Do, Enter, OpenBrowser, Advance, Exit, WorkFrame, planVars
  <2> QED  BY <2>1 DEF Nearer
<1>3. IInv /\ [Next]_vars => [\A p \in Programs : Nearer(p)]_vars
  BY <1>1, <1>2, Steps
<1> QED  BY Invariant, <1>3, PTL DEF Spec, UnloadNearsItsEnd
=============================================================================
