---------------------------- MODULE ModuleInstall ----------------------------
(***************************************************************************)
(* woob/core/repositories.py, Repositories.update(), install() and         *)
(* _install_one_module(), with Versions, and Woob.update(): modules are    *)
(* fetched, extracted and recorded one after the other, and the program    *)
(* may stop between two steps: it is killed, or an exception that update() *)
(* does not catch ends it.                                                 *)
(*                                                                         *)
(* One remote repository, so an index has all the modules or, when it      *)
(* could not be had, none.  The order of the list is any that              *)
(* DependencyOrder allows.                                                 *)
(***************************************************************************)
EXTENDS Naturals, Sequences, SequencesExt

CONSTANTS
  Modules,
  MaxVersion,  \* bound: versions a module may have
  Depends,     \* Depends[m][v]: what version v of m depends on
  Configured   \* modules of the configured backends

Versions == 1..MaxVersion

ASSUME InstallAssumption ==
  /\ IsFiniteSet(Modules)
  /\ MaxVersion \in Nat
  /\ Depends \in [Modules -> [Versions -> SUBSET Modules]]
  /\ Configured \subseteq Modules

VARIABLES
  published,  \* version of each module in the repository
  back,       \* has the repository gone back to an older version?
  indexed,    \* is the index of the repository there?
  index,      \* the versions it has, 0 if it is not there
  versions,   \* versions.list: version recorded for each module, 0 if none
  disk,       \* version of the files in the module's directory, 0 if there is none
  whole,      \* are they all there?
  pc,         \* "idle", or what is next for the first module of todo
  op,         \* "install", "update", or "configured" for what Woob.update() installs at its end
  target,     \* the module install() is called for, in a set, or {}
  todo,       \* modules to install, in order
  content,    \* version of the downloaded archive
  failed,     \* did Repositories.update() report an error?
  result      \* of the last operation: "none", "updated" or "installed"

vars == <<published, back, indexed, index, versions, disk, whole,
          pc, op, target, todo, content, failed, result>>
files == <<versions, disk, whole>>
repository == <<published, back, indexed, index>>

Init ==
  /\ published \in [Modules -> Versions] /\ back = FALSE
  /\ indexed = FALSE /\ index = [m \in Modules |-> 0]
  /\ versions = [m \in Modules |-> 0]
  /\ disk = [m \in Modules |-> 0] /\ whole = [m \in Modules |-> FALSE]
  /\ pc = "idle" /\ op = "update" /\ target = {}
  /\ todo = <<>> /\ content = 0 /\ failed = FALSE /\ result = "none"

-----------------------------------------------------------------------------
(* The repository, at any time; a version may be withdrawn, once.           *)

Publish ==
  /\ ~ back   \* bound: nothing is published after that
  /\ \E m \in Modules, v \in Versions :
       /\ published[m] # v
       /\ published' = [published EXCEPT ![m] = v]
       /\ back' = (v < published[m])
  /\ UNCHANGED <<indexed, index, files, pc, op, target, todo, content, failed, result>>
-----------------------------------------------------------------------------
(* What is to be installed.                                                *)

UpdatableIn(idx, m)   == versions[m] # 0 /\ versions[m] # idx[m]
InstallableIn(idx, m) == versions[m] = 0

AllDependencies(idx, set) ==   \* with the modules of set
  LET closed == {T \in SUBSET Modules :
                   set \subseteq T /\ \A m \in T : Depends[m][idx[m]] \subseteq T}
  IN  {m \in Modules : \A T \in closed : m \in T}

NoOrder(idx, set) == SetToSeqs(set)   \* mutant: it is not sorted

Orders(idx, set) ==
  {s \in SetToSeqs(set) :
     \A a, b \in DOMAIN s :
       /\ s[b] \in AllDependencies(idx, {s[a]})
       /\ s[a] \notin AllDependencies(idx, {s[b]})
       => b < a}

NewOnly(idx, set) == {m \in AllDependencies(idx, set) : InstallableIn(idx, m)}   \* mutant

Wanted(idx, set) == {m \in AllDependencies(idx, set) : UpdatableIn(idx, m) \/ InstallableIn(idx, m)}

StartInstall ==   \* the module info comes from the index in memory
  /\ pc = "idle" /\ indexed
  /\ op' = "install" /\ \E m \in Modules : target' = {m}
  /\ todo' \in Orders(index, Wanted(index, target'))
  /\ pc' = "next" /\ failed' = FALSE /\ result' = "none"
  /\ UNCHANGED <<repository, files, content>>

StartUpdate ==
  /\ pc = "idle"
  /\ indexed' = TRUE /\ index' = published
  /\ op' = "update" /\ target' = {}
  /\ todo' \in Orders(index', Wanted(index', {m \in Modules : UpdatableIn(index', m)}))
  /\ pc' = "next" /\ failed' = FALSE /\ result' = "none"
  /\ UNCHANGED <<published, back, files, content>>

OldIndexKept ==   \* mutant: in memory
  /\ pc = "idle"
  /\ indexed' = FALSE
  /\ result' = "none"
  /\ UNCHANGED <<published, back, index, files, pc, op, target, todo, content, failed>>

UpdateRepositoriesFails ==   \* the old index is already removed; nothing is to be updated
  /\ pc = "idle"
  /\ indexed' = FALSE /\ index' = [m \in Modules |-> 0]
  /\ result' = "none"
  /\ UNCHANGED <<published, back, files, pc, op, target, todo, content, failed>>
-----------------------------------------------------------------------------
(* _install_one_module(Head(todo)).                                        *)
m0 == Head(todo)

(* ModuleInstallError: update() reports it and goes on, install() fails.   *)
Error ==
  IF op = "update" THEN todo' = Tail(todo) /\ failed' = TRUE /\ pc' = "next"
  ELSE todo' = <<>> /\ pc' = "idle" /\ UNCHANGED failed

IsLatest == versions[m0] # 0 /\ disk[m0] # 0 /\ ~ index[m0] > versions[m0]

RefuseLatest ==
  /\ pc = "next" /\ todo # <<>> /\ IsLatest
  /\ Error
  /\ UNCHANGED <<repository, files, op, target, content, result>>

(* It needs another woob, the archive cannot be had or its signature is    *)
(* not accepted.                                                           *)
FetchFails ==
  /\ pc = "next" /\ todo # <<>>
  /\ Error
  /\ UNCHANGED <<repository, files, op, target, content, result>>

RecordFirst ==   \* mutant of Fetch: recorded before it is extracted
  /\ pc = "next" /\ todo # <<>> /\ ~ IsLatest
  /\ content' = published[m0] /\ pc' = "fetched"
  /\ versions' = [versions EXCEPT ![m0] = index[m0]]
  /\ UNCHANGED <<repository, disk, whole, op, target, todo, failed, result>>

Fetch ==   \* the URL has no version: it is the archive of now
  /\ pc = "next" /\ todo # <<>> /\ ~ IsLatest
  /\ content' = published[m0] /\ pc' = "fetched"
  /\ UNCHANGED <<repository, files, op, target, todo, failed, result>>

RemoveOld ==
  /\ pc = "fetched"
  /\ disk' = [disk EXCEPT ![m0] = 0] /\ whole' = [whole EXCEPT ![m0] = FALSE]
  /\ pc' = "removed"
  /\ UNCHANGED <<repository, versions, op, target, todo, content, failed, result>>

Extract ==
  /\ pc = "removed"
  /\ disk' = [disk EXCEPT ![m0] = content] /\ whole' = [whole EXCEPT ![m0] = TRUE]
  /\ content' = 0
  /\ pc' = "extracted"
  /\ UNCHANGED <<repository, versions, op, target, todo, failed, result>>

ExtractPart ==   \* the program stops, or the archive is cut
  /\ pc = "removed"
  /\ content' = 0 /\ disk' = [disk EXCEPT ![m0] = content]
  /\ pc' = "idle" /\ todo' = <<>>
  /\ UNCHANGED <<repository, versions, whole, op, target, failed, result>>

LooksInvalid ==   \* the archive has no directory of that name
  /\ pc = "removed"
  /\ Error /\ content' = 0
  /\ UNCHANGED <<repository, files, op, target, result>>

SetVersion ==
  /\ pc = "extracted"
  /\ versions' = [versions EXCEPT ![m0] = index[m0]]
  /\ pc' = "icon"
  /\ UNCHANGED <<repository, disk, whole, op, target, todo, content, failed, result>>

RetrieveIcon ==
  /\ pc = "icon"
  /\ pc' = "next" /\ todo' = Tail(todo)
  /\ UNCHANGED <<repository, files, op, target, content, failed, result>>

(* The program stops between two steps; the next one loads the same files. *)
Stop ==
  /\ pc # "idle"
  /\ pc' = "idle" /\ todo' = <<>> /\ content' = 0
  /\ UNCHANGED <<repository, files, op, target, failed, result>>
-----------------------------------------------------------------------------
InstallEnds ==
  /\ pc = "next" /\ todo = <<>> /\ op = "install"
  /\ pc' = "idle" /\ result' = "installed"
  /\ UNCHANGED <<repository, files, op, target, todo, content, failed>>

(* Woob.update() then installs what the configured backends lack.          *)
NoneMissing == {}   \* mutant: it does not look

MissingConfigured == {m \in Configured : versions[m] = 0}

InstallMissing ==
  /\ pc = "next" /\ todo = <<>> /\ op # "install"
  /\ \E m \in MissingConfigured : todo' \in Orders(index, Wanted(index, {m}))
  /\ op' = "configured"
  /\ UNCHANGED <<repository, files, pc, target, content, failed, result>>

UpdateEnds ==
  /\ pc = "next" /\ todo = <<>> /\ op # "install" /\ MissingConfigured = {}
  /\ pc' = "idle" /\ result' = IF failed THEN "none" ELSE "updated"
  /\ UNCHANGED <<repository, files, op, target, todo, content, failed>>

Operation == StartInstall \/ StartUpdate \/ UpdateRepositoriesFails
Module0 == \/ RefuseLatest \/ FetchFails \/ Fetch \/ RemoveOld \/ Extract \/ ExtractPart
           \/ LooksInvalid \/ SetVersion \/ RetrieveIcon
Next == \/ Publish \/ Operation \/ Module0 \/ Stop
        \/ InstallEnds \/ InstallMissing \/ UpdateEnds

Spec == Init /\ [][Next]_vars
-----------------------------------------------------------------------------
(* Properties.                                                             *)

TypeOK ==
  /\ published \in [Modules -> Versions]
  /\ indexed \in BOOLEAN /\ index \in [Modules -> IF indexed THEN Versions ELSE {0}]
  /\ versions \in [Modules -> 0..MaxVersion]
  /\ disk \in [Modules -> 0..MaxVersion] /\ whole \in [Modules -> BOOLEAN]
  /\ pc \in {"idle", "next", "fetched", "removed", "extracted", "icon"}
  /\ op \in {"update", "configured", "install"} /\ target \subseteq Modules
  /\ todo \in Seq(Modules) /\ (todo # <<>> => pc # "idle" /\ indexed)
  /\ content \in 0..MaxVersion /\ failed \in BOOLEAN
  /\ result \in {"none", "updated", "installed"}

(* Wherever an operation stopped, a module that is recorded but not whole  *)
(* is one the next update installs again (repositories.py:776), as long as *)
(* versions only go forward, here and below.                               *)
Repairable ==
  pc = "idle" /\ indexed /\ ~ back =>
    \A m \in Modules : versions[m] # 0 /\ ~ whole[m] => UpdatableIn(index, m)

Ready(m) == versions[m] = index[m] /\ whole[m]

(* ModulesLoader.load_module(): the module and all that its files import   *)
(* must be there.                                                          *)
Loadable(m) ==
  \E S \in SUBSET {x \in Modules : whole[x]} :
    m \in S /\ \A x \in S : Depends[x][disk[x]] \subseteq S

AsIndexed == \A m \in Modules : disk[m] <= index[m]   \* no archive is newer

(* What an earlier operation left undone, install() that returns has done, *)
(* and Woob.load_or_install_module() can load the module then, but for an  *)
(* archive that is newer than the index and may need what the index does   *)
(* not say (repositories.py:892, woob.py:559).                             *)
InstallDelivers ==
  result = "installed" /\ indexed /\ ~ back =>
    /\ \A d \in AllDependencies(index, target) : Ready(d)
    /\ AsIndexed => \A m \in target : Loadable(m)

(* After an update with no error every recorded module is the one of the   *)
(* index, and every configured one is recorded (woob.py:441-445).          *)
UpdateDelivers ==
  result = "updated" /\ ~ back =>
    \A m \in Modules : versions[m] # 0 \/ m \in Configured => Ready(m)

(* After such an update the recorded modules load: "All modules are        *)
(* up-to-date." (repositories.py:824).                                     *)
UpdateLoads ==
  result = "updated" /\ indexed /\ ~ back /\ AsIndexed =>
    \A m \in Modules : versions[m] # 0 => Loadable(m)

(* Out of Repositories.update(), a module is recorded only once all that   *)
(* it depends on are there (repositories.py:803).                          *)
DependenciesFirst ==
  [][\A m \in Modules :
       versions'[m] # versions[m] /\ op # "update" /\ ~ back =>
         \A d \in AllDependencies(index, {m}) \ {m} : versions[d] # 0 /\ whole[d]]_vars
=============================================================================
