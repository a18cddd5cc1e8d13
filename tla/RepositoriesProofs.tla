------------------------- MODULE RepositoriesProofs -------------------------
(***************************************************************************)
(* Proofs about the class Repositories: ModuleInstall, RepositoryIndexes,  *)
(* and DependencyOrder as the sort that an installation starts with.       *)
(*                                                                         *)
(* Whatever the modules, their versions and what they depend on, what      *)
(* stopped halfway is repaired, and an operation that ends with no error   *)
(* has delivered what it promised.  Whatever the lines of sources.list,    *)
(* what a whole update retrieved is loaded in the order of the lines.      *)
(***************************************************************************)
EXTENDS ModuleInstall, RepositoryIndexes, FiniteSetTheorems, SequenceTheorems, TLAPS

-----------------------------------------------------------------------------
(* ModuleInstall.                                                          *)

(* m is still to be installed.                                             *)
Planned(m) == \E i \in DOMAIN todo : todo[i] = m

(* Versions only go forward: nothing is newer than what is published, and  *)
(* the files that are all there are not older than what is recorded.       *)
ForwardInv ==
  /\ \A m \in Modules : whole[m] => disk[m] # 0
  /\ ~ back => \A m \in Modules :
       /\ index[m] <= published[m] /\ versions[m] <= published[m]
       /\ indexed => versions[m] <= index[m]
       /\ whole[m] => versions[m] <= disk[m]

(* A module that is recorded and not whole is to be updated, with this     *)
(* index and with the next.                                                *)
RepairInv ==
  \A m \in Modules : versions[m] # 0 /\ ~ whole[m] /\ ~ back =>
    /\ versions[m] < published[m]
    /\ indexed => versions[m] < index[m]

(* How far the installation of the first module has come.                  *)
PlaceInv ==
  /\ pc # "idle" => indexed /\ result = "none"
  /\ pc \in {"fetched", "removed", "extracted", "icon"} => todo # <<>>
  /\ pc \in {"fetched", "removed"} => content # 0
  /\ pc \in {"fetched", "removed"} /\ ~ back =>
       index[m0] <= content /\ (versions[m0] # 0 => versions[m0] < index[m0])
  /\ pc = "removed" => ~ whole[m0]
  /\ pc = "extracted" => whole[m0] /\ (~ back => index[m0] <= disk[m0])
  /\ pc = "icon" => Ready(m0)

(* No module comes before another that it depends on.                      *)
OrderInv ==
  \A i, j \in DOMAIN todo :
    /\ todo[j] \in AllDependencies(index, {todo[i]})
    /\ todo[i] \notin AllDependencies(index, {todo[j]})
    => j < i

(* What is not in the list any more is as the index says.                  *)
Settled(m) == Planned(m) \/ Ready(m)

ListInv ==
  pc # "idle" /\ ~ back =>
    /\ op # "update" => \A i \in DOMAIN todo :
         \A d \in AllDependencies(index, {todo[i]}) : Settled(d)
    /\ op = "install" => \A d \in AllDependencies(index, target) : Settled(d)
    /\ op # "install" /\ ~ failed => \A m \in Modules : versions[m] # 0 => Settled(m)

ResultInv ==
  /\ result # "none" => indexed
  /\ result = "installed" /\ ~ back => \A d \in AllDependencies(index, target) : Ready(d)
  /\ UpdateDelivers

IInv ==
  TypeOK /\ ForwardInv /\ RepairInv /\ PlaceInv /\ OrderInv /\ ListInv /\ ResultInv
-----------------------------------------------------------------------------
(* The dependencies, and the orders of a list.                             *)

LEMMA Constants ==
  /\ IsFiniteSet(Modules) /\ MaxVersion \in Nat /\ Versions = 1..MaxVersion
  /\ Configured \subseteq Modules
  /\ Depends \in [Modules -> [Versions -> SUBSET Modules]]
  BY InstallAssumption DEF InstallAssumption, Versions

(* AllDependencies(idx, set) is the least set that has set and what its    *)
(* modules depend on.                                                      *)
LEMMA LeastClosed ==
  ASSUME NEW idx \in [Modules -> Versions], NEW set \in SUBSET Modules
  PROVE  LET all == AllDependencies(idx, set) IN
         /\ set \subseteq all /\ all \subseteq Modules
         /\ \A m \in all : Depends[m][idx[m]] \subseteq all
         /\ \A T \in SUBSET Modules :
              set \subseteq T /\ (\A m \in T : Depends[m][idx[m]] \subseteq T) => all \subseteq T
<1>1. \A m \in Modules : Depends[m][idx[m]] \subseteq Modules
  BY Constants
<1> QED  BY <1>1 DEF AllDependencies

LEMMA Transitive ==
  ASSUME NEW idx \in [Modules -> Versions], NEW set \in SUBSET Modules,
         NEW m \in AllDependencies(idx, set)
  PROVE  m \in AllDependencies(idx, {m}) /\ AllDependencies(idx, {m}) \subseteq AllDependencies(idx, set)
<1> DEFINE all == AllDependencies(idx, set)
<1>1. /\ all \subseteq Modules /\ m \in Modules
      /\ \A x \in all : Depends[x][idx[x]] \subseteq all
  BY LeastClosed
<1>2. {m} \in SUBSET Modules /\ {m} \subseteq all
  BY <1>1
<1> HIDE DEF all
<1>3. AllDependencies(idx, {m}) \subseteq all
  BY <1>1, <1>2, LeastClosed
<1>4. m \in AllDependencies(idx, {m})
  BY <1>2, LeastClosed
<1> QED  BY <1>3, <1>4 DEF all

(* A list in one of the orders of a set has its modules, and no other.     *)
LEMMA OrdersOf ==
  ASSUME NEW idx, NEW set \in SUBSET Modules, NEW s \in Orders(idx, set)
  PROVE  /\ s \in Seq(Modules) /\ \A i \in DOMAIN s : s[i] \in set
         /\ \A m \in set : \E i \in DOMAIN s : s[i] = m
         /\ \A a, b \in DOMAIN s :
              /\ s[b] \in AllDependencies(idx, {s[a]})
              /\ s[a] \notin AllDependencies(idx, {s[b]})
              => b < a
<1> DEFINE n == Cardinality(set)
<1>1. IsFiniteSet(set) /\ n \in Nat
  BY Constants, FS_Subset, FS_CardinalityType
<1>2. s \in [1..n -> set] /\ \A i, j \in 1..n : i # j => s[i] # s[j]
  BY DEF Orders, SetToSeqs
<1>3. s \in Injection(1..n, set)
  BY <1>2 DEF Injection, IsInjective
<1>4. IsFiniteSet(1..n) /\ Cardinality(1..n) = n
  BY <1>1, FS_Interval
<1>5. s \in Surjection(1..n, set)
  BY <1>1, <1>3, <1>4, FS_Injection
<1>6. \A m \in set : \E i \in DOMAIN s : s[i] = m
  BY <1>2, <1>5 DEF Surjection
<1>7. s \in Seq(Modules)
  BY <1>1, <1>2, SeqDef
<1> QED  BY <1>2, <1>6, <1>7 DEF Orders

(* A dependency that is not to be installed is the one of the index.       *)
LEMMA WantedOrSame ==
  ASSUME NEW idx, NEW set \in SUBSET Modules
  PROVE  /\ Wanted(idx, set) \subseteq AllDependencies(idx, set) /\ Wanted(idx, set) \in SUBSET Modules
         /\ \A d \in AllDependencies(idx, set) \ Wanted(idx, set) :
              versions[d] # 0 /\ versions[d] = idx[d]
  BY DEF Wanted, AllDependencies, UpdatableIn, InstallableIn
-----------------------------------------------------------------------------
(* What the steps have in common.                                          *)

LEMMA Numbers ==
  ASSUME TypeOK
  PROVE  \A m \in Modules :
           /\ published[m] \in Nat /\ index[m] \in Nat /\ versions[m] \in Nat /\ disk[m] \in Nat
           /\ published[m] # 0 /\ (indexed => index[m] # 0)
           /\ index[m] \in 0..MaxVersion /\ published[m] \in 0..MaxVersion
  BY Constants DEF TypeOK

LEMMA First ==
  ASSUME TypeOK, todo # <<>>
  PROVE  /\ 1 \in DOMAIN todo /\ m0 = todo[1] /\ m0 \in Modules /\ Planned(m0)
         /\ Tail(todo) \in Seq(Modules) /\ DOMAIN todo = 1..Len(todo) /\ Len(todo) \in Nat
         /\ DOMAIN Tail(todo) = 1..Len(todo) - 1
         /\ \A i \in DOMAIN Tail(todo) : i + 1 \in DOMAIN todo /\ Tail(todo)[i] = todo[i + 1]
  BY DEF TypeOK, m0, Planned

LEMMA Left ==   \* in the list without its first
  ASSUME TypeOK, todo # <<>>, todo' = Tail(todo), NEW m, Planned(m)
  PROVE  m = m0 \/ Planned(m)'
<1>1. PICK j \in DOMAIN todo : todo[j] = m
  BY DEF Planned
<1>2. CASE j = 1
  BY <1>1, <1>2, First
<1>3. CASE j # 1
  <2>1. j - 1 \in DOMAIN Tail(todo) /\ (j - 1) + 1 = j
    BY <1>1, <1>3, First
  <2>2. Tail(todo)[j - 1] = m
    BY <1>1, <2>1, First
  <2> QED  BY <2>1, <2>2 DEF Planned
<1> QED  BY <1>2, <1>3

LEMMA FilesSame ==
  ASSUME ForwardInv, RepairInv, UNCHANGED <<repository, files>>
  PROVE  ForwardInv' /\ RepairInv' /\ \A m : Ready(m)' <=> Ready(m)
  BY DEF ForwardInv, RepairInv, Ready, repository, files

LEMMA ListDropped ==
  ASSUME todo' = <<>>, pc' = "idle"
  PROVE  OrderInv' /\ ListInv'
  BY DEF OrderInv, ListInv

LEMMA FirstDropped ==
  ASSUME TypeOK, OrderInv, todo # <<>>, todo' = Tail(todo), index' = index
  PROVE  OrderInv'
<1> SUFFICES ASSUME NEW i \in DOMAIN todo', NEW j \in DOMAIN todo',
                    todo'[j] \in AllDependencies(index, {todo'[i]}),
                    todo'[i] \notin AllDependencies(index, {todo'[j]})
             PROVE  j < i
  BY DEF OrderInv
<1>1. /\ i \in Nat /\ j \in Nat /\ i + 1 \in DOMAIN todo /\ j + 1 \in DOMAIN todo
      /\ todo'[i] = todo[i + 1] /\ todo'[j] = todo[j + 1]
  BY First
<1>2. j + 1 < i + 1
  BY <1>1 DEF OrderInv
<1> QED  BY <1>1, <1>2

(* The list stays, and a step changes nothing but its first module.        *)
LEMMA FirstChanges ==
  ASSUME TypeOK, OrderInv, ListInv, pc # "idle", todo # <<>>,
         UNCHANGED <<repository, todo, op, target, failed>>,
         \A m \in Modules \ {m0} : versions'[m] = versions[m] /\ whole'[m] = whole[m]
  PROVE  OrderInv' /\ ListInv'
<1>1. OrderInv'
  BY DEF OrderInv, repository
<1>2. \A m \in Modules : Settled(m) => Settled(m)'
  BY First DEF Settled, Planned, Ready, repository
<1>3. \A m \in Modules : versions'[m] # 0 => Settled(m)' \/ versions[m] # 0
  <2> SUFFICES ASSUME NEW m \in Modules, versions'[m] # 0, versions[m] = 0
               PROVE  Settled(m)'
    OBVIOUS
  <2>1. m = m0 /\ Planned(m)
    BY First
  <2> QED  BY <2>1 DEF Settled, Planned
<1>4. \A S : AllDependencies(index, S) \subseteq Modules
  BY DEF AllDependencies
<1>5. ASSUME ~ back
      PROVE  /\ op # "update" => \A i \in DOMAIN todo :
                  \A d \in AllDependencies(index, {todo[i]}) : Settled(d)'
             /\ op = "install" => \A d \in AllDependencies(index, target) : Settled(d)'
             /\ op # "install" /\ ~ failed => \A m \in Modules : versions'[m] # 0 => Settled(m)'
  <2>1. op # "update" => \A i \in DOMAIN todo :
          \A d \in AllDependencies(index, {todo[i]}) : Settled(d)'
    <3>1. op # "update" => \A i \in DOMAIN todo :
            \A d \in AllDependencies(index, {todo[i]}) : Settled(d)
      BY <1>5 DEF ListInv
    <3> QED  BY <3>1, <1>2, <1>4
  <2>2. op = "install" => \A d \in AllDependencies(index, target) : Settled(d)'
    <3>1. op = "install" => \A d \in AllDependencies(index, target) : Settled(d)
      BY <1>5 DEF ListInv
    <3> QED  BY <3>1, <1>2, <1>4
  <2>3. op # "install" /\ ~ failed => \A m \in Modules : versions'[m] # 0 => Settled(m)'
    <3>1. op # "install" /\ ~ failed => \A m \in Modules : versions[m] # 0 => Settled(m)
      BY <1>5 DEF ListInv
    <3> QED  BY <3>1, <1>2, <1>3
  <2> QED  BY <2>1, <2>2, <2>3
<1>6. ListInv'
  BY <1>5 DEF ListInv, repository
<1> QED  BY <1>1, <1>6
-----------------------------------------------------------------------------
(* Each step keeps the invariant.                                          *)

LEMMA Initial == Init => IInv
<1> SUFFICES ASSUME Init PROVE IInv
  OBVIOUS
<1>1. TypeOK
  <2>1. 0 \in 0..MaxVersion /\ <<>> \in Seq(Modules)
    BY Constants
  <2>2. /\ index \in [Modules -> IF indexed THEN Versions ELSE {0}]
        /\ versions \in [Modules -> 0..MaxVersion] /\ disk \in [Modules -> 0..MaxVersion]
        /\ whole \in [Modules -> BOOLEAN]
    BY <2>1 DEF Init
  <2>3. todo \in Seq(Modules) /\ todo = <<>> /\ content \in 0..MaxVersion /\ target \subseteq Modules
    BY <2>1 DEF Init
  <2>4. indexed \in BOOLEAN /\ failed \in BOOLEAN
    BY DEF Init
  <2> QED  BY <2>2, <2>3, <2>4 DEF Init, TypeOK
<1>2. ForwardInv /\ RepairInv
  BY Constants DEF Init, ForwardInv, RepairInv
<1>3. PlaceInv /\ OrderInv /\ ListInv /\ ResultInv
  BY DEF Init, PlaceInv, OrderInv, ListInv, ResultInv, UpdateDelivers
<1> QED  BY <1>1, <1>2, <1>3 DEF IInv

LEMMA PublishKeeps ==
  ASSUME IInv, Publish
  PROVE  IInv'
<1> USE DEF IInv
<1>1. TypeOK'
  BY DEF TypeOK, Publish, files
<1>2. ~ back /\ \A m \in Modules : ~ back' => published[m] <= published'[m]
  <2>1. PICK m \in Modules, v \in Versions :
          published' = [published EXCEPT ![m] = v] /\ back' = (v < published[m])
    BY DEF Publish
  <2>2. v \in Nat /\ \A x \in Modules : published[x] \in Nat
    BY Numbers, Constants
  <2>3. ~ back' => published[m] <= v
    <3>1. v < published[m] => back'
      BY <2>1
    <3> QED  BY <3>1, <2>2
  <2>4. \A x \in Modules : published'[x] = IF x = m THEN v ELSE published[x]
    BY <2>1 DEF TypeOK
  <2> QED  BY <2>2, <2>3, <2>4 DEF Publish
<1>3. \A m \in Modules : published'[m] \in Nat
  BY <1>1, Constants DEF TypeOK
<1>4. ForwardInv'
  BY <1>2, <1>3, Numbers DEF ForwardInv, Publish, files
<1>5. RepairInv'
  BY <1>2, <1>3, Numbers DEF RepairInv, Publish, files
<1>6. PlaceInv'
  BY <1>2 DEF PlaceInv, Publish, files, m0, Ready
<1>7. OrderInv'
  BY DEF OrderInv, Publish
<1>8. ListInv'
  BY <1>2 DEF ListInv, Settled, Planned, Ready, Publish, files
<1>9. ResultInv'
  BY <1>2 DEF ResultInv, UpdateDelivers, Ready, Publish, files
<1> QED  BY <1>1, <1>4, <1>5, <1>6, <1>7, <1>8, <1>9

(* A list is made: it has what is to be installed, the rest is there.      *)
LEMMA ListMade ==
  ASSUME NEW idx \in [Modules -> Versions], NEW set \in SUBSET Modules,
         todo' \in Orders(idx, Wanted(idx, set)),
         index' = idx, versions' = versions, whole' = whole,
         \A m \in Modules : versions[m] # 0 /\ versions[m] = idx[m] /\ ~ back => whole[m]
  PROVE  /\ todo' \in Seq(Modules) /\ OrderInv'
         /\ ~ back => \A d \in AllDependencies(idx, set) : Settled(d)'
         /\ \A i \in DOMAIN todo' : AllDependencies(idx, {todo'[i]}) \subseteq AllDependencies(idx, set)
<1> DEFINE all == AllDependencies(idx, set)
<1>1. Wanted(idx, set) \in SUBSET Modules /\ Wanted(idx, set) \subseteq all
  BY WantedOrSame
<1>2. /\ todo' \in Seq(Modules) /\ \A i \in DOMAIN todo' : todo'[i] \in all
      /\ \A d \in Wanted(idx, set) : \E i \in DOMAIN todo' : todo'[i] = d
      /\ \A i, j \in DOMAIN todo' :
           /\ todo'[j] \in AllDependencies(idx, {todo'[i]})
           /\ todo'[i] \notin AllDependencies(idx, {todo'[j]})
           => j < i
  BY <1>1, OrdersOf
<1>3. ASSUME ~ back, NEW d \in all  PROVE Settled(d)'
  <2>1. d \in Modules
    BY DEF AllDependencies
  <2>2. CASE d \in Wanted(idx, set)
    BY <2>2, <1>2 DEF Settled, Planned
  <2>3. CASE d \notin Wanted(idx, set)
    <3>1. versions[d] # 0 /\ versions[d] = idx[d]
      BY <2>3, WantedOrSame
    <3> QED  BY <3>1, <2>1, <1>3 DEF Settled, Ready
  <2> QED  BY <2>2, <2>3
<1>4. \A i \in DOMAIN todo' : AllDependencies(idx, {todo'[i]}) \subseteq all
  BY <1>2, Transitive
<1> QED  BY <1>2, <1>3, <1>4 DEF OrderInv

LEMMA SameIsWhole ==   \* what is recorded as in the index is there
  ASSUME TypeOK, RepairInv, indexed
  PROVE  \A m \in Modules : versions[m] # 0 /\ versions[m] = index[m] /\ ~ back => whole[m]
  BY Numbers DEF RepairInv

LEMMA StartInstallKeeps ==
  ASSUME IInv, StartInstall
  PROVE  IInv'
<1> USE DEF IInv
<1>1. index \in [Modules -> Versions] /\ target' \in SUBSET Modules
  BY DEF StartInstall, TypeOK
<1>2. /\ index' = index /\ indexed' = indexed /\ back' = back /\ published' = published
      /\ versions' = versions /\ disk' = disk /\ whole' = whole /\ content' = content
      /\ pc' = "next" /\ op' = "install" /\ result' = "none" /\ indexed
      /\ todo' \in Orders(index, Wanted(index, target'))
  BY DEF StartInstall, repository, files
<1>3. /\ todo' \in Seq(Modules) /\ OrderInv'
      /\ ~ back => \A d \in AllDependencies(index, target') : Settled(d)'
      /\ \A i \in DOMAIN todo' :
           AllDependencies(index, {todo'[i]}) \subseteq AllDependencies(index, target')
  <2>1. \A m \in Modules : versions[m] # 0 /\ versions[m] = index[m] /\ ~ back => whole[m]
    BY <1>2, SameIsWhole
  <2> QED  BY <1>1, <1>2, <2>1, ListMade
<1>4. TypeOK'
  BY <1>1, <1>2, <1>3 DEF TypeOK, StartInstall
<1>5. ForwardInv' /\ RepairInv'
  BY <1>2 DEF ForwardInv, RepairInv
<1>6. PlaceInv'
  BY <1>2 DEF PlaceInv
<1>7. ListInv'
  BY <1>2, <1>3 DEF ListInv
<1>8. ResultInv'
  BY <1>2 DEF ResultInv, UpdateDelivers
<1> QED  BY <1>3, <1>4, <1>5, <1>6, <1>7, <1>8

LEMMA StartUpdateKeeps ==
  ASSUME IInv, StartUpdate
  PROVE  IInv'
<1> USE DEF IInv
<1> DEFINE set == {m \in Modules : UpdatableIn(index', m)}
<1>1. published \in [Modules -> Versions] /\ set \in SUBSET Modules
  BY DEF TypeOK
<1>2. /\ index' = published /\ indexed' /\ back' = back /\ published' = published
      /\ versions' = versions /\ disk' = disk /\ whole' = whole /\ content' = content
      /\ pc' = "next" /\ op' = "update" /\ result' = "none" /\ target' = {} /\ failed' = FALSE
      /\ todo' \in Orders(published, Wanted(published, set))
  BY DEF StartUpdate, files
<1>3. \A m \in Modules : versions[m] # 0 /\ versions[m] = published[m] /\ ~ back => whole[m]
  BY Numbers DEF RepairInv
<1>4. /\ todo' \in Seq(Modules) /\ OrderInv'
      /\ ~ back => \A d \in AllDependencies(published, set) : Settled(d)'
  <2> HIDE DEF set
  <2> QED  BY <1>1, <1>2, <1>3, ListMade
<1>5. TypeOK'
  <2>1. indexed' = TRUE /\ index' \in [Modules -> IF indexed' THEN Versions ELSE {0}]
    BY <1>1, <1>2 DEF StartUpdate
  <2> QED  BY <2>1, <1>2, <1>4 DEF TypeOK
<1>6. ForwardInv'
  BY <1>2, Numbers DEF ForwardInv
<1>7. RepairInv'
  BY <1>2 DEF RepairInv
<1>8. PlaceInv'
  BY <1>2 DEF PlaceInv
<1>9. ASSUME ~ back, NEW m \in Modules, versions[m] # 0  PROVE Settled(m)'
  <2>1. CASE m \in set
    BY <2>1, <1>1, <1>4, <1>9, LeastClosed
  <2>2. CASE m \notin set
    BY <2>2, <1>2, <1>3, <1>9 DEF UpdatableIn, Settled, Ready
  <2> QED  BY <2>1, <2>2
<1>10. ListInv'
  BY <1>2, <1>9 DEF ListInv
<1>11. ResultInv'
  BY <1>2 DEF ResultInv, UpdateDelivers
<1> QED  BY <1>4, <1>5, <1>6, <1>7, <1>8, <1>10, <1>11

LEMMA UpdateRepositoriesFailsKeeps ==
  ASSUME IInv, UpdateRepositoriesFails
  PROVE  IInv'
<1> USE DEF IInv
<1>1. TypeOK'
  <2>1. indexed' = FALSE /\ index' \in [Modules -> IF indexed' THEN Versions ELSE {0}]
    BY DEF UpdateRepositoriesFails
  <2> QED  BY <2>1 DEF TypeOK, UpdateRepositoriesFails, files
<1>2. ForwardInv' /\ RepairInv'
  BY Numbers DEF ForwardInv, RepairInv, UpdateRepositoriesFails, files
<1>3. PlaceInv' /\ ListInv' /\ ResultInv'
  BY DEF PlaceInv, ListInv, ResultInv, UpdateDelivers, UpdateRepositoriesFails
<1>4. OrderInv'
  <2>1. todo' = <<>>
    BY DEF UpdateRepositoriesFails, TypeOK
  <2> QED  BY <2>1 DEF OrderInv
<1> QED  BY <1>1, <1>2, <1>3, <1>4

LEMMA ErrorKeeps ==
  ASSUME IInv, Error, pc # "idle", todo # <<>>, content' \in {content, 0},
         UNCHANGED <<repository, files, op, target, result>>
  PROVE  IInv'
<1> USE DEF IInv
<1>1. TypeOK'
  <2>1. content' \in 0..MaxVersion /\ pc' \in {"next", "idle"}
    BY Constants DEF TypeOK, Error
  <2>2. failed' \in BOOLEAN
    BY DEF TypeOK, Error
  <2>3. todo' \in Seq(Modules)
    BY First, EmptySeq DEF Error
  <2>4. todo' # <<>> => pc' # "idle" /\ indexed
    BY DEF TypeOK, Error
  <2> QED  BY <2>1, <2>2, <2>3, <2>4 DEF TypeOK, repository, files
<1>2. ForwardInv' /\ RepairInv' /\ \A m : Ready(m)' <=> Ready(m)
  BY FilesSame
<1>3. PlaceInv' /\ ResultInv'
  BY <1>2 DEF PlaceInv, ResultInv, UpdateDelivers, Error, repository
<1>4. OrderInv' /\ ListInv'
  <2>1. CASE op = "update"
    <3>1. OrderInv'
      BY <2>1, FirstDropped DEF Error, repository
    <3> QED  BY <2>1, <3>1 DEF Error, ListInv
  <2>2. CASE op # "update"
    BY <2>2, ListDropped DEF Error
  <2> QED  BY <2>1, <2>2
<1> QED  BY <1>1, <1>2, <1>3, <1>4

LEMMA FailuresKeep ==
  ASSUME IInv, RefuseLatest \/ FetchFails \/ LooksInvalid
  PROVE  IInv'
<1>1. CASE RefuseLatest
  BY <1>1, ErrorKeeps DEF RefuseLatest
<1>2. CASE FetchFails
  BY <1>2, ErrorKeeps DEF FetchFails
<1>3. CASE LooksInvalid
  <2>1. todo # <<>>
    BY <1>3 DEF LooksInvalid, IInv, PlaceInv
  <2> QED  BY <1>3, <2>1, ErrorKeeps DEF LooksInvalid
<1> QED  BY <1>1, <1>2, <1>3

LEMMA FetchKeeps ==
  ASSUME IInv, Fetch
  PROVE  IInv'
<1> USE DEF IInv
<1>1. m0 \in Modules
  BY First DEF Fetch
<1>2. TypeOK'
  BY <1>1, Numbers DEF TypeOK, Fetch, repository, files
<1>3. ForwardInv' /\ RepairInv' /\ \A m : Ready(m)' <=> Ready(m)
  BY FilesSame DEF Fetch
<1>4. ~ back /\ versions[m0] # 0 => versions[m0] < index[m0]
  <2>1. CASE disk[m0] = 0
    BY <2>1, <1>1 DEF ForwardInv, RepairInv, PlaceInv, Fetch
  <2>2. CASE disk[m0] # 0
    BY <2>2, <1>1, Numbers DEF Fetch, IsLatest
  <2> QED  BY <2>1, <2>2
<1>5. PlaceInv'
  <2>1. content' # 0 /\ (~ back => index[m0] <= content')
    BY <1>1, Numbers DEF Fetch, ForwardInv
  <2> QED  BY <1>4, <2>1 DEF PlaceInv, Fetch, repository, files, m0
<1>6. OrderInv' /\ ListInv'
  BY FirstChanges DEF Fetch, files
<1>7. ResultInv'
  BY DEF PlaceInv, ResultInv, UpdateDelivers, Fetch
<1> QED  BY <1>2, <1>3, <1>5, <1>6, <1>7

LEMMA RemoveOldKeeps ==
  ASSUME IInv, RemoveOld
  PROVE  IInv'
<1> USE DEF IInv
<1>1. m0 \in Modules /\ todo # <<>>
  BY First DEF RemoveOld, PlaceInv
<1>2. /\ disk' = [disk EXCEPT ![m0] = 0] /\ whole' = [whole EXCEPT ![m0] = FALSE]
      /\ pc = "fetched" /\ pc' = "removed" /\ versions' = versions
      /\ published' = published /\ back' = back /\ indexed' = indexed /\ index' = index
      /\ op' = op /\ target' = target /\ todo' = todo /\ content' = content
      /\ failed' = failed /\ result' = result
  BY DEF RemoveOld, repository
<1>3. TypeOK'
  <2>1. 0 \in 0..MaxVersion
    BY Constants
  <2> QED  BY <1>2, <2>1 DEF TypeOK
<1>4. /\ \A m \in Modules : disk'[m] = IF m = m0 THEN 0 ELSE disk[m]
      /\ \A m \in Modules : whole'[m] = IF m = m0 THEN FALSE ELSE whole[m]
  BY <1>2 DEF TypeOK
<1>5. ForwardInv'
  BY <1>1, <1>2, <1>4 DEF ForwardInv
<1>6. RepairInv'
  <2>1. versions[m0] # 0 /\ ~ back => versions[m0] < index[m0] /\ index[m0] <= published[m0]
    BY <1>1, <1>2 DEF PlaceInv, ForwardInv
  <2>2. versions[m0] # 0 /\ ~ back => versions[m0] < published[m0]
    BY <1>1, <2>1, Numbers
  <2> QED  BY <1>2, <1>4, <2>1, <2>2 DEF RepairInv
<1>7. PlaceInv'
  BY <1>1, <1>2, <1>4 DEF PlaceInv, m0
<1>8. OrderInv' /\ ListInv'
  BY <1>1, <1>2, <1>4, FirstChanges DEF repository
<1>9. ResultInv'
  BY <1>2 DEF PlaceInv, ResultInv, UpdateDelivers
<1> QED  BY <1>3, <1>5, <1>6, <1>7, <1>8, <1>9

LEMMA ExtractKeeps ==
  ASSUME IInv, Extract
  PROVE  IInv'
<1> USE DEF IInv
<1>1. m0 \in Modules /\ todo # <<>>
  BY First DEF Extract, PlaceInv
<1>2. /\ disk' = [disk EXCEPT ![m0] = content] /\ whole' = [whole EXCEPT ![m0] = TRUE]
      /\ pc = "removed" /\ pc' = "extracted" /\ versions' = versions
      /\ published' = published /\ back' = back /\ indexed' = indexed /\ index' = index
      /\ op' = op /\ target' = target /\ todo' = todo /\ content' = 0
      /\ failed' = failed /\ result' = result
  BY DEF Extract, repository
<1>3. TypeOK'
  <2>1. 0 \in 0..MaxVersion /\ TRUE \in BOOLEAN
    BY Constants
  <2> QED  BY <1>2, <2>1 DEF TypeOK
<1>4. /\ \A m \in Modules : disk'[m] = IF m = m0 THEN content ELSE disk[m]
      /\ \A m \in Modules : whole'[m] = IF m = m0 THEN TRUE ELSE whole[m]
  BY <1>2 DEF TypeOK
<1>5. content # 0 /\ content \in Nat /\ (~ back => index[m0] <= content /\ versions[m0] <= content)
  <2>1. content # 0 /\ (~ back => index[m0] <= content /\ versions[m0] <= index[m0])
    BY <1>1, <1>2 DEF PlaceInv, ForwardInv
  <2>2. content \in Nat
    BY Constants DEF TypeOK
  <2> QED  BY <1>1, <2>1, <2>2, Numbers
<1>6. ForwardInv'
  BY <1>1, <1>2, <1>4, <1>5 DEF ForwardInv
<1>7. RepairInv'
  BY <1>2, <1>4 DEF RepairInv
<1>8. PlaceInv'
  BY <1>1, <1>2, <1>4, <1>5 DEF PlaceInv, m0
<1>9. OrderInv' /\ ListInv'
  BY <1>1, <1>2, <1>4, FirstChanges DEF repository
<1>10. ResultInv'
  BY <1>2 DEF PlaceInv, ResultInv, UpdateDelivers
<1> QED  BY <1>3, <1>6, <1>7, <1>8, <1>9, <1>10

LEMMA ExtractPartKeeps ==
  ASSUME IInv, ExtractPart
  PROVE  IInv'
<1> USE DEF IInv
<1>1. m0 \in Modules /\ ~ whole[m0]
  BY First DEF ExtractPart, PlaceInv
<1>2. TypeOK'
  <2>1. 0 \in 0..MaxVersion /\ <<>> \in Seq(Modules)
    BY Constants
  <2> QED  BY <2>1 DEF TypeOK, ExtractPart, repository
<1>3. \A m \in Modules : disk'[m] = IF m = m0 THEN content ELSE disk[m]
  BY DEF TypeOK, ExtractPart
<1>4. ForwardInv' /\ RepairInv'
  BY <1>1, <1>3 DEF ForwardInv, RepairInv, ExtractPart, repository
<1>5. PlaceInv' /\ ResultInv'
  BY DEF PlaceInv, ResultInv, UpdateDelivers, ExtractPart
<1>6. OrderInv' /\ ListInv'
  BY ListDropped DEF ExtractPart
<1> QED  BY <1>2, <1>4, <1>5, <1>6

LEMMA SetVersionKeeps ==
  ASSUME IInv, SetVersion
  PROVE  IInv'
<1> USE DEF IInv
<1>1. m0 \in Modules /\ todo # <<>>
  BY First DEF SetVersion, PlaceInv
<1>2. /\ versions' = [versions EXCEPT ![m0] = index[m0]] /\ disk' = disk /\ whole' = whole
      /\ pc = "extracted" /\ pc' = "icon" /\ content' = content
      /\ published' = published /\ back' = back /\ indexed' = indexed /\ index' = index
      /\ op' = op /\ target' = target /\ todo' = todo /\ failed' = failed /\ result' = result
  BY DEF SetVersion, repository
<1>3. TypeOK'
  <2>1. index[m0] \in 0..MaxVersion
    BY <1>1, Numbers
  <2> QED  BY <1>2, <2>1 DEF TypeOK
<1>4. \A m \in Modules : versions'[m] = IF m = m0 THEN index[m0] ELSE versions[m]
  BY <1>2 DEF TypeOK
<1>5. whole[m0] /\ (~ back => index[m0] <= disk[m0] /\ index[m0] <= published[m0])
  BY <1>1, <1>2 DEF PlaceInv, ForwardInv
<1>6. ForwardInv'
  BY <1>1, <1>2, <1>4, <1>5, Numbers DEF ForwardInv
<1>7. RepairInv'
  BY <1>2, <1>4, <1>5 DEF RepairInv
<1>8. PlaceInv'
  BY <1>1, <1>2, <1>4, <1>5 DEF PlaceInv, m0, Ready
<1>9. OrderInv' /\ ListInv'
  BY <1>1, <1>2, <1>4, FirstChanges DEF repository
<1>10. ResultInv'
  BY <1>2 DEF PlaceInv, ResultInv, UpdateDelivers
<1> QED  BY <1>3, <1>6, <1>7, <1>8, <1>9, <1>10

LEMMA RetrieveIconKeeps ==
  ASSUME IInv, RetrieveIcon
  PROVE  IInv'
<1> USE DEF IInv
<1>1. todo # <<>> /\ Ready(m0)
  BY DEF RetrieveIcon, PlaceInv
<1>2. ForwardInv' /\ RepairInv' /\ \A m : Ready(m)' <=> Ready(m)
  BY FilesSame DEF RetrieveIcon
<1>3. /\ todo' = Tail(todo) /\ pc' = "next" /\ pc = "icon" /\ index' = index /\ indexed' = indexed
      /\ back' = back /\ op' = op /\ target' = target /\ failed' = failed /\ result' = result
      /\ versions' = versions
  BY DEF RetrieveIcon, repository, files
<1>4. TypeOK'
  BY <1>1, First DEF TypeOK, PlaceInv, RetrieveIcon, repository, files
<1>5. OrderInv'
  BY <1>1, <1>3, FirstDropped
<1>6. ASSUME NEW m, Settled(m)  PROVE Settled(m)'
  <2>1. Planned(m) => m = m0 \/ Planned(m)'
    BY <1>1, <1>3, Left
  <2> QED  BY <1>1, <1>2, <1>6, <2>1 DEF Settled
<1>7. \A i \in DOMAIN todo' : i + 1 \in DOMAIN todo /\ todo'[i] = todo[i + 1]
  BY <1>1, <1>3, First
<1>8. ASSUME ~ back
      PROVE  /\ op # "update" => \A i \in DOMAIN todo' :
                  \A d \in AllDependencies(index, {todo'[i]}) : Settled(d)'
             /\ op = "install" => \A d \in AllDependencies(index, target) : Settled(d)'
             /\ op # "install" /\ ~ failed => \A m \in Modules : versions[m] # 0 => Settled(m)'
  <2>1. /\ op # "update" => \A i \in DOMAIN todo :
             \A d \in AllDependencies(index, {todo[i]}) : Settled(d)
        /\ op = "install" => \A d \in AllDependencies(index, target) : Settled(d)
        /\ op # "install" /\ ~ failed => \A m \in Modules : versions[m] # 0 => Settled(m)
    BY <1>3, <1>8 DEF ListInv
  <2> QED  BY <2>1, <1>6, <1>7
<1>9. ListInv'
  BY <1>3, <1>8 DEF ListInv
<1>10. PlaceInv' /\ ResultInv'
  BY <1>3 DEF PlaceInv, ResultInv, UpdateDelivers
<1> QED  BY <1>2, <1>4, <1>5, <1>9, <1>10

LEMMA StopKeeps ==
  ASSUME IInv, Stop
  PROVE  IInv'
<1> USE DEF IInv
<1>1. TypeOK'
  <2>1. 0 \in 0..MaxVersion /\ <<>> \in Seq(Modules)
    BY Constants
  <2> QED  BY <2>1 DEF TypeOK, Stop, repository, files
<1>2. ForwardInv' /\ RepairInv'
  BY FilesSame DEF Stop
<1>3. PlaceInv' /\ ResultInv'
  BY DEF PlaceInv, ResultInv, UpdateDelivers, Stop
<1>4. OrderInv' /\ ListInv'
  BY ListDropped DEF Stop
<1> QED  BY <1>1, <1>2, <1>3, <1>4

LEMMA InstallEndsKeeps ==
  ASSUME IInv, InstallEnds
  PROVE  IInv'
<1> USE DEF IInv
<1>1. TypeOK'
  BY DEF TypeOK, InstallEnds, repository, files
<1>2. ForwardInv' /\ RepairInv' /\ \A m : Ready(m)' <=> Ready(m)
  BY FilesSame DEF InstallEnds
<1>3. PlaceInv' /\ OrderInv' /\ ListInv'
  BY ListDropped DEF PlaceInv, InstallEnds
<1>4. ~ back => \A d \in AllDependencies(index, target) : Ready(d)
  BY DEF ListInv, InstallEnds, Settled, Planned
<1>5. ResultInv'
  BY <1>2, <1>4 DEF PlaceInv, ResultInv, UpdateDelivers, InstallEnds, repository
<1> QED  BY <1>1, <1>2, <1>3, <1>5

LEMMA UpdateEndsKeeps ==
  ASSUME IInv, UpdateEnds
  PROVE  IInv'
<1> USE DEF IInv
<1>1. TypeOK'
  BY DEF TypeOK, UpdateEnds, repository, files
<1>2. ForwardInv' /\ RepairInv' /\ \A m : Ready(m)' <=> Ready(m)
  BY FilesSame DEF UpdateEnds
<1>3. PlaceInv' /\ OrderInv' /\ ListInv'
  BY ListDropped DEF PlaceInv, UpdateEnds
<1>4. ~ back /\ ~ failed => \A m \in Modules : versions[m] # 0 => Ready(m)
  BY DEF ListInv, UpdateEnds, Settled, Planned
<1>5. \A m \in Configured : m \in Modules /\ versions[m] # 0
  BY Constants DEF UpdateEnds, MissingConfigured
<1>6. UpdateDelivers'
  BY <1>2, <1>4, <1>5 DEF UpdateDelivers, UpdateEnds, repository, files
<1>7. ResultInv'
  BY <1>6 DEF PlaceInv, ResultInv, UpdateEnds, repository
<1> QED  BY <1>1, <1>2, <1>3, <1>7

LEMMA InstallMissingKeeps ==
  ASSUME IInv, InstallMissing
  PROVE  IInv'
<1> USE DEF IInv
<1>1. PICK m \in Modules : todo' \in Orders(index, Wanted(index, {m}))
  BY Constants DEF InstallMissing, MissingConfigured
<1>2. /\ todo = <<>> /\ pc = "next" /\ op # "install" /\ pc' = pc /\ op' = "configured"
      /\ index' = index /\ indexed' = indexed /\ back' = back /\ published' = published
      /\ versions' = versions /\ disk' = disk /\ whole' = whole /\ content' = content
      /\ failed' = failed /\ result' = result /\ target' = target
  BY DEF InstallMissing, repository, files
<1>3. indexed /\ index \in [Modules -> Versions] /\ {m} \in SUBSET Modules
  BY <1>2 DEF TypeOK, PlaceInv
<1>4. /\ todo' \in Seq(Modules) /\ OrderInv'
      /\ ~ back => \A d \in AllDependencies(index, {m}) : Settled(d)'
      /\ \A i \in DOMAIN todo' : AllDependencies(index, {todo'[i]}) \subseteq AllDependencies(index, {m})
  <2>1. \A x \in Modules : versions[x] # 0 /\ versions[x] = index[x] /\ ~ back => whole[x]
    BY <1>3, SameIsWhole
  <2> QED  BY <1>1, <1>2, <1>3, <2>1, ListMade
<1>5. TypeOK'
  BY <1>2, <1>3, <1>4 DEF TypeOK
<1>6. ForwardInv' /\ RepairInv'
  BY <1>2 DEF ForwardInv, RepairInv
<1>7. PlaceInv' /\ ResultInv'
  BY <1>2 DEF PlaceInv, ResultInv, UpdateDelivers
<1>8. ~ back /\ ~ failed => \A x \in Modules : versions[x] # 0 => Settled(x)'
  BY <1>2 DEF ListInv, Settled, Planned, Ready
<1>9. ListInv'
  BY <1>2, <1>4, <1>8 DEF ListInv
<1> QED  BY <1>4, <1>5, <1>6, <1>7, <1>9

LEMMA StepKeeps ==
  ASSUME IInv, [Next]_vars
  PROVE  IInv'
<1>1. CASE Publish  BY <1>1, PublishKeeps
<1>2. CASE Operation
  BY <1>2, StartInstallKeeps, StartUpdateKeeps, UpdateRepositoriesFailsKeeps DEF Operation
<1>3. CASE Module0
  BY <1>3, FailuresKeep, FetchKeeps, RemoveOldKeeps, ExtractKeeps, ExtractPartKeeps,
     SetVersionKeeps, RetrieveIconKeeps DEF Module0
<1>4. CASE Stop \/ InstallEnds \/ InstallMissing \/ UpdateEnds
  BY <1>4, StopKeeps, InstallEndsKeeps, InstallMissingKeeps, UpdateEndsKeeps
<1>5. CASE UNCHANGED vars
  <2>1. TypeOK'
    BY <1>5 DEF vars, IInv, TypeOK, repository, files
  <2>2. ForwardInv' /\ RepairInv' /\ (\A m : Ready(m)' <=> Ready(m))
    BY <1>5, FilesSame DEF vars, IInv, repository, files
  <2>3. PlaceInv' /\ OrderInv' /\ ListInv' /\ ResultInv'
    BY <1>5 DEF vars, repository, files, IInv, PlaceInv, OrderInv, ListInv, ResultInv,
       UpdateDelivers, Settled, Planned, Ready, m0
  <2> QED  BY <2>1, <2>2, <2>3 DEF IInv
<1> QED  BY <1>1, <1>2, <1>3, <1>4, <1>5 DEF Next

-----------------------------------------------------------------------------
(* What the invariant says of the operations.                              *)

(* Every step keeps IInv.                                                  *)
THEOREM Invariant == Spec => []IInv
<1>1. IInv /\ [Next]_vars => IInv'
  BY StepKeeps
<1> QED  BY Initial, <1>1, PTL DEF Spec

(* The files, the index and the list are what TypeOK says.                 *)
THEOREM TypeCorrect == Spec => []TypeOK
<1>1. IInv => TypeOK
  BY DEF IInv
<1> QED  BY Invariant, <1>1, PTL

(* However an operation stopped, a module that is recorded and not whole   *)
(* is one that update() installs again (repositories.py:776).              *)
THEOREM RepairedLater == Spec => []Repairable
<1>1. IInv => Repairable
  BY Numbers DEF IInv, RepairInv, Repairable, UpdatableIn
<1> QED  BY Invariant, <1>1, PTL

(* A whole update leaves the modules as the index says, and those of the   *)
(* configured backends installed (woob.py:441-445).                        *)
THEOREM UpdateDelivered == Spec => []UpdateDelivers
<1>1. IInv => UpdateDelivers
  BY DEF IInv, ResultInv
<1> QED  BY Invariant, <1>1, PTL

LEMMA DependenciesLoad ==
  ASSUME IInv, result = "installed", indexed, ~ back, AsIndexed, NEW m \in target
  PROVE  Loadable(m)
<1> DEFINE all == AllDependencies(index, target)
<1>1. index \in [Modules -> Versions] /\ target \in SUBSET Modules
  BY DEF IInv, TypeOK
<1>2. /\ m \in all /\ all \subseteq Modules
      /\ \A x \in all : Depends[x][index[x]] \subseteq all
  BY <1>1, LeastClosed
<1>3. \A x \in all : whole[x] /\ disk[x] = index[x]
  <2> SUFFICES ASSUME NEW x \in all  PROVE whole[x] /\ disk[x] = index[x]
    OBVIOUS
  <2>1. whole[x] /\ versions[x] = index[x]
    BY DEF IInv, ResultInv, Ready
  <2>2. x \in Modules /\ versions[x] <= disk[x] /\ disk[x] <= index[x]
    BY <1>2, <2>1 DEF IInv, ForwardInv, AsIndexed
  <2>3. disk[x] \in Nat /\ index[x] \in Nat
    BY <2>2, Numbers DEF IInv
  <2> QED  BY <2>1, <2>2, <2>3
<1> HIDE DEF all
<1>4. all \in SUBSET {x \in Modules : whole[x]} /\ \A x \in all : Depends[x][disk[x]] \subseteq all
  BY <1>2, <1>3
<1> QED  BY <1>2, <1>4 DEF Loadable

(* install() that returns leaves the module and all that it depends on     *)
(* there, and they load (repositories.py:892, woob.py:559).                *)
THEOREM InstallDelivered == Spec => []InstallDelivers
<1>1. IInv => InstallDelivers
  BY DependenciesLoad DEF IInv, ResultInv, InstallDelivers
<1> QED  BY Invariant, <1>1, PTL

LEMMA DependenciesThere ==
  ASSUME IInv, SetVersion, op # "update", ~ back,
         NEW d \in AllDependencies(index, {m0}), m0 \notin AllDependencies(index, {d})
  PROVE  versions[d] # 0 /\ whole[d]
<1>1. todo # <<>> /\ pc # "idle" /\ indexed
  BY DEF IInv, PlaceInv, SetVersion
<1>2. /\ 1 \in DOMAIN todo /\ m0 = todo[1] /\ m0 \in Modules /\ DOMAIN todo = 1..Len(todo)
      /\ d \in Modules /\ index \in [Modules -> Versions]
  BY <1>1, First DEF IInv, TypeOK, AllDependencies
<1>3. Settled(d)
  BY <1>1, <1>2 DEF IInv, ListInv
<1>4. ~ Planned(d)
  <2> SUFFICES ASSUME NEW j \in DOMAIN todo, todo[j] = d  PROVE FALSE
    BY DEF Planned
  <2>1. j < 1
    BY <1>2 DEF IInv, OrderInv
  <2> QED  BY <1>2, <2>1
<1>5. Ready(d) /\ index[d] # 0
  BY <1>1, <1>2, <1>3, <1>4, Numbers DEF IInv, Settled
<1> QED  BY <1>5 DEF Ready

(* No two modules depend on each other, whatever their versions.           *)
NoCycle ==
  \A idx \in [Modules -> Versions] : \A m, d \in Modules :
    m # d /\ d \in AllDependencies(idx, {m}) => m \notin AllDependencies(idx, {d})

(* Out of Repositories.update(), a module is recorded after all that it    *)
(* depends on, where the dependencies form no cycle (repositories.py:803). *)
THEOREM DependenciesAreFirst ==
  ASSUME NoCycle
  PROVE  Spec => DependenciesFirst
<1> DEFINE A == \A m \in Modules :
       versions'[m] # versions[m] /\ op # "update" /\ ~ back =>
         \A d \in AllDependencies(index, {m}) \ {m} : versions[d] # 0 /\ whole[d]
<1>1. ASSUME IInv, Next  PROVE A
  <2>1. CASE SetVersion
    <3>1. \A m \in Modules : versions'[m] # versions[m] => m = m0
      BY <2>1, <1>1 DEF SetVersion, IInv, TypeOK
    <3>2. \A d \in AllDependencies(index, {m0}) \ {m0} :
            m0 \in Modules => m0 \notin AllDependencies(index, {d})
      <4>1. index \in [Modules -> Versions]
        BY <2>1, <1>1 DEF SetVersion, IInv, TypeOK, PlaceInv
      <4> QED  BY <4>1 DEF NoCycle, AllDependencies
    <3> QED  BY <2>1, <3>1, <3>2, <1>1, DependenciesThere
  <2>2. CASE ~ SetVersion
    <3>1. versions' = versions
      BY <2>2, <1>1 DEF Next, Publish, Operation, StartInstall, StartUpdate, UpdateRepositoriesFails,
         Module0, RefuseLatest, FetchFails, Fetch, RemoveOld, Extract, ExtractPart, LooksInvalid,
         RetrieveIcon, Stop, InstallEnds, InstallMissing, UpdateEnds, files
    <3> QED  BY <3>1
  <2> QED  BY <2>1, <2>2
<1>2. IInv /\ [Next]_vars => [A]_vars
  BY <1>1
<1> QED  BY Invariant, <1>2, PTL DEF Spec, DependenciesFirst

-----------------------------------------------------------------------------
(* RepositoryIndexes.                                                      *)

(* The files of a list of sources.                                         *)
FilesOf(list) == {[place |-> k - 1, source |-> list[k]] : k \in 1..Len(list)}

IndexesTypeInv ==
  /\ sources_list \in Seq(Sources) /\ repositories \in Seq(Sources) /\ lines \in Seq(Sources)
  /\ index_files \in SUBSET [place : Nat, source : Sources] /\ IsFiniteSet(index_files)
  /\ updating \in BOOLEAN /\ complete \in BOOLEAN

(* What was retrieved has its place in the name of its file; what was      *)
(* loaded from the files may have others.                                  *)
NumberedInv ==
  updating \/ repositories # Loaded => FilesOf(repositories) \subseteq index_files

(* As long as every source was there, there is no other file, and what is  *)
(* loaded and what is left to do make the list.                            *)
CompleteInv ==
  /\ ~ updating => lines = <<>>
  /\ complete => /\ index_files = FilesOf(repositories)
                 /\ sources_list = repositories \o lines

IndexesInv == IndexesTypeInv /\ NumberedInv /\ CompleteInv
-----------------------------------------------------------------------------
(* Two lemmas about finite sets.                                           *)

LEMMA OneTo ==
  ASSUME NEW n \in Nat
  PROVE  IsFiniteSet(1..n) /\ Cardinality(1..n) = n
<1>1. n \in Int /\ 1 \in Int
  OBVIOUS
<1> QED  BY <1>1, FS_Interval

LEMMA Counted ==
  ASSUME NEW n \in Nat, NEW S, NEW f \in [1..n -> S],
         \A x \in S : \E j \in 1..n : x = f[j],
         \A j, k \in 1..n : f[j] = f[k] => j = k
  PROVE  IsFiniteSet(S) /\ Cardinality(S) = n
<1>1. f \in Injection(1..n, S)
  BY DEF Injection, IsInjective
<1>2. f \in Surjection(1..n, S)
  BY DEF Surjection
<1>3. ExistsBijection(1..n, S)
  BY <1>1, <1>2 DEF ExistsBijection, Bijection
<1> QED  BY <1>3, OneTo, FS_Bijection

(* The place of a file among the names: the number of those before it.     *)

LEMMA RankInNat ==
  ASSUME IndexesTypeInv, NEW f \in index_files
  PROVE  /\ IsFiniteSet(Ahead(f)) /\ Cardinality(Ahead(f)) \in Nat
         /\ Cardinality(index_files) \in Nat /\ Cardinality(Ahead(f)) < Cardinality(index_files)
<1>1. Ahead(f) \subseteq index_files /\ f \notin Ahead(f)
  <2>1. ~ Before(f, f)
    BY DEF Before, IndexesTypeInv, Sources
  <2> QED  BY <2>1 DEF Ahead
<1>2. IsFiniteSet(index_files)
  BY DEF IndexesTypeInv
<1> QED  BY <1>1, <1>2, FS_Subset, FS_CardinalityType

LEMMA RankGrows ==
  ASSUME IndexesTypeInv, NEW f \in index_files, NEW g \in index_files, Before(f, g)
  PROVE  Cardinality(Ahead(f)) < Cardinality(Ahead(g))
<1>1. \A h \in index_files : Before(h, f) => Before(h, g)
  BY IndexesAssumption DEF Before, IndexesTypeInv, Sources
<1>2. ~ Before(f, f)
  BY DEF Before, IndexesTypeInv, Sources
<1>3. Ahead(f) \subseteq Ahead(g) /\ f \in Ahead(g) /\ f \notin Ahead(f)
  BY <1>1, <1>2 DEF Ahead
<1>4. IsFiniteSet(Ahead(g))
  BY RankInNat
<1> QED  BY <1>3, <1>4, FS_Subset, FS_CardinalityType

LEMMA RankIsOne ==   \* no two files have one place
  ASSUME IndexesTypeInv, NEW f \in index_files, NEW g \in index_files,
         Cardinality(Ahead(f)) = Cardinality(Ahead(g))
  PROVE  f = g
<1>1. f = g \/ Before(f, g) \/ Before(g, f)
  <2>1. /\ f \in [place : Nat, source : Sources] /\ g \in [place : Nat, source : Sources]
    BY DEF IndexesTypeInv
  <2>2. f = g \/ f.place # g.place \/ f.source # g.source
    BY <2>1
  <2> QED  BY <2>1, <2>2 DEF Before, Sources
<1> QED  BY <1>1, RankInNat, RankGrows

(* Each file is loaded at its place.                                       *)
LEMMA LoadedAt ==
  ASSUME IndexesTypeInv, NEW f \in index_files
  PROVE  /\ Cardinality(Ahead(f)) + 1 \in DOMAIN Loaded
         /\ Loaded[Cardinality(Ahead(f)) + 1] = f.source
<1> DEFINE n == Cardinality(Ahead(f)) + 1
<1>1. n \in 1..Cardinality(index_files) /\ n - 1 = Cardinality(Ahead(f))
  BY RankInNat
<1>2. (CHOOSE g \in index_files : Cardinality(Ahead(g)) = n - 1) = f
  BY <1>1, RankIsOne
<1> HIDE DEF n
<1>3. n \in DOMAIN Loaded /\ Loaded[n] = f.source
  BY <1>1, <1>2 DEF Loaded
<1> QED  BY <1>3 DEF n

(* Every place has a file, so what is loaded is a list of sources.         *)
LEMMA LoadedSeq ==
  ASSUME IndexesTypeInv
  PROVE  Loaded \in Seq(Sources) /\ Len(Loaded) = Cardinality(index_files)
<1> DEFINE n == Cardinality(index_files)
           rank == [f \in index_files |-> Cardinality(Ahead(f)) + 1]
<1>1. n \in Nat /\ IsFiniteSet(1..n) /\ Cardinality(1..n) = n
  <2>1. IsFiniteSet(index_files)
    BY DEF IndexesTypeInv
  <2>2. n \in Nat
    BY <2>1, FS_CardinalityType
  <2> QED  BY <2>2, OneTo
<1>2. rank \in [index_files -> 1..n]
  BY RankInNat
<1>3. \A f, g \in index_files : rank[f] = rank[g] => f = g
  BY RankInNat, RankIsOne
<1>4. rank \in Injection(index_files, 1..n)
  BY <1>2, <1>3 DEF Injection, IsInjective
<1>5. rank \in Surjection(index_files, 1..n)
  <2> HIDE DEF rank, n
  <2>1. Cardinality(index_files) = Cardinality(1..n)
    BY <1>1 DEF n
  <2> QED  BY <1>1, <1>4, <2>1, FS_Injection
<1>6. \A k \in 1..n : \E f \in index_files : Cardinality(Ahead(f)) = k - 1
  <2> TAKE k \in 1..n
  <2>1. PICK f \in index_files : rank[f] = k
    BY <1>5 DEF Surjection
  <2> QED  BY <2>1, <1>1, RankInNat
<1>7. \A k \in 1..n : Loaded[k] \in Sources
  BY <1>6 DEF Loaded, IndexesTypeInv
<1>8. DOMAIN Loaded = 1..n /\ Loaded = [k \in 1..n |-> Loaded[k]]
  BY DEF Loaded
<1> QED  BY <1>1, <1>7, <1>8, IsASeq, LenProperties

(* If the files are those of the list that is loaded, the list is loaded   *)
(* again.                                                                  *)
LEMMA LoadedIsList ==
  ASSUME IndexesTypeInv, index_files = FilesOf(repositories)
  PROVE  Loaded = repositories
<1> DEFINE n == Len(repositories)
           file == [k \in 1..n |-> [place |-> k - 1, source |-> repositories[k]]]
<1>1. n \in Nat /\ DOMAIN repositories = 1..n /\ \A k \in 1..n : repositories[k] \in Sources
  BY LenProperties, ElementOfSeq DEF IndexesTypeInv
<1>2. file \in [1..n -> index_files] /\ \A f \in index_files : \E k \in 1..n : f = file[k]
  BY DEF FilesOf
<1>3. \A j, k \in 1..n : file[j] = file[k] => j = k
  BY <1>1
<1>5. Cardinality(index_files) = n
  <2> HIDE DEF n, file
  <2> QED  BY <1>1, <1>2, <1>3, Counted
<1>6. \A k \in 1..n : Cardinality(Ahead(file[k])) = k - 1
  <2> TAKE k \in 1..n
  <2> DEFINE before == [j \in 1..k - 1 |-> file[j]]
  <2>1. \A j \in 1..n : Before(file[j], file[k]) <=> j < k
    BY <1>1 DEF Before, Sources
  <2>2. \A j \in 1..k - 1 : j \in 1..n /\ file[j] \in Ahead(file[k])
    <3> HIDE DEF file
    <3> TAKE j \in 1..k - 1
    <3>1. j \in 1..n /\ j < k
      BY <1>1
    <3>2. file[j] \in index_files /\ Before(file[j], file[k])
      BY <3>1, <2>1, <1>2
    <3> QED  BY <3>1, <3>2 DEF Ahead
  <2> HIDE DEF file
  <2>3. \A f \in Ahead(file[k]) : \E j \in 1..k - 1 : f = file[j]
    <3> TAKE f \in Ahead(file[k])
    <3>1. PICK j \in 1..n : f = file[j]
      BY <1>2 DEF Ahead
    <3>2. j < k
      BY <3>1, <2>1 DEF Ahead
    <3>3. j \in 1..k - 1
      BY <3>2, <1>1
    <3> QED  BY <3>1, <3>3
  <2>4. before \in [1..k - 1 -> Ahead(file[k])]
    BY <2>2
  <2>5. \A i, j \in 1..k - 1 : before[i] = before[j] => i = j
    BY <2>2, <1>3
  <2>6. \A f \in Ahead(file[k]) : \E j \in 1..k - 1 : f = before[j]
    BY <2>3
  <2>7. k - 1 \in Nat
    BY <1>1
  <2> HIDE DEF before
  <2> QED  BY <2>4, <2>5, <2>6, <2>7, Counted
<1>7. \A k \in 1..n : Loaded[k] = repositories[k]
  <2> TAKE k \in 1..n
  <2>1. file[k] \in index_files /\ file[k].source = repositories[k]
    BY <1>2
  <2>2. Loaded[Cardinality(Ahead(file[k])) + 1] = file[k].source
    BY <2>1, LoadedAt
  <2>3. Cardinality(Ahead(file[k])) + 1 = k
    BY <1>1, <1>6
  <2> QED  BY <2>1, <2>2, <2>3
<1>8. Loaded \in Seq(Sources) /\ Len(Loaded) = n
  BY <1>5, LoadedSeq
<1> HIDE DEF n, file
<1> QED  BY <1>1, <1>7, <1>8, SeqEqual DEF IndexesTypeInv, n

-----------------------------------------------------------------------------
(* The steps.                                                              *)

LEMMA FilesAfter ==   \* one more source
  ASSUME NEW list \in Seq(Sources), NEW source \in Sources
  PROVE  FilesOf(Append(list, source)) = FilesOf(list) \cup {[place |-> Len(list), source |-> source]}
<1> DEFINE n == Len(list)
           more == Append(list, source)
<1>1. /\ n \in Nat /\ Len(more) = n + 1 /\ more[n + 1] = source
      /\ \A k \in 1..n : more[k] = list[k]
  BY LenProperties, AppendProperties
<1> HIDE DEF more, n
<1>2. \A k \in 1..n + 1 : k \in 1..n \/ k = n + 1
  BY <1>1
<1>3. \A k \in 1..n : k \in 1..n + 1
  BY <1>1
<1>4. n + 1 \in 1..n + 1 /\ n = (n + 1) - 1
  BY <1>1
<1>5. FilesOf(more) = FilesOf(list) \cup {[place |-> n, source |-> source]}
  BY <1>1, <1>2, <1>3, <1>4 DEF FilesOf, n
<1> QED  BY <1>5 DEF more, n

LEMMA NextLine ==
  ASSUME IndexesTypeInv, lines # <<>>
  PROVE  /\ Head(lines) \in Sources /\ Tail(lines) \in Seq(Sources)
         /\ repositories \o lines = Append(repositories, Head(lines)) \o Tail(lines)
         /\ File(Head(lines)) \in [place : Nat, source : Sources]
         /\ IsFiniteSet(index_files \cup {File(Head(lines))})
<1>1. lines \in Seq(Sources) /\ repositories \in Seq(Sources)
  BY DEF IndexesTypeInv
<1>2. Head(lines) \in Sources /\ Tail(lines) \in Seq(Sources)
  BY <1>1, HeadTailProperties
<1>3. lines = <<Head(lines)>> \o Tail(lines)
  BY <1>1, SMT
<1>4. Append(repositories, Head(lines)) = repositories \o <<Head(lines)>>
  BY <1>1, <1>2, AppendIsConcat
<1>5. <<Head(lines)>> \in Seq(Sources)
  BY <1>2
<1>6. repositories \o lines = Append(repositories, Head(lines)) \o Tail(lines)
  <2> DEFINE h == <<Head(lines)>>
             t == Tail(lines)
  <2>1. h \in Seq(Sources) /\ t \in Seq(Sources) /\ lines = h \o t
    BY <1>2, <1>3, <1>5
  <2> HIDE DEF h, t
  <2>2. (repositories \o h) \o t = repositories \o (h \o t)
    BY <1>1, <2>1, ConcatAssociative
  <2> QED  BY <1>4, <2>1, <2>2 DEF h, t
<1>7. Len(repositories) \in Nat
  BY <1>1, LenProperties
<1>8. File(Head(lines)) \in [place : Nat, source : Sources]
  BY <1>2, <1>7 DEF File
<1>9. IsFiniteSet(index_files \cup {File(Head(lines))})
  BY FS_AddElement DEF IndexesTypeInv
<1> QED  BY <1>2, <1>6, <1>8, <1>9

LEMMA ListIsSeq == \A list \in Lists : list \in Seq(Sources)
<1> TAKE list \in Lists
<1>1. PICK n \in 0..MaxSources : list \in [1..n -> Sources]
  BY DEF Lists
<1>2. n \in Nat
  BY IndexesAssumption
<1> QED  BY <1>1, <1>2

LEMMA IndexesInitial == IndexesInit => IndexesInv
<1> SUFFICES ASSUME IndexesInit  PROVE IndexesInv
  OBVIOUS
<1>1. IndexesTypeInv
  <2>1. sources_list \in Seq(Sources) /\ repositories \in Seq(Sources) /\ lines \in Seq(Sources)
    BY ListIsSeq, EmptySeq DEF IndexesInit
  <2>2. index_files \in SUBSET [place : Nat, source : Sources] /\ IsFiniteSet(index_files)
    BY FS_EmptySet DEF IndexesInit
  <2> QED  BY <2>1, <2>2 DEF IndexesInit, IndexesTypeInv
<1>2. FilesOf(repositories) = {}
  BY DEF IndexesInit, FilesOf
<1> QED  BY <1>1, <1>2 DEF IndexesInit, IndexesInv, NumberedInv, CompleteInv

LEMMA RetrieveKeeps == IndexesInv /\ Retrieve => IndexesInv'
<1> SUFFICES ASSUME IndexesInv, Retrieve  PROVE IndexesInv'
  OBVIOUS
<1>1. IndexesTypeInv /\ lines # <<>> /\ repositories \in Seq(Sources)
  BY DEF IndexesInv, IndexesTypeInv, Retrieve
<1>2. repositories' \in Seq(Sources)
  BY <1>1, NextLine, AppendProperties DEF Retrieve
<1>3. IndexesTypeInv'
  BY <1>1, <1>2, NextLine DEF IndexesTypeInv, Retrieve
<1>4. FilesOf(repositories') = FilesOf(repositories) \cup {File(Head(lines))}
  BY <1>1, NextLine, FilesAfter DEF Retrieve, File
<1>5. FilesOf(repositories') \subseteq index_files'
  BY <1>4 DEF IndexesInv, NumberedInv, Retrieve
<1>6. CompleteInv'
  BY <1>1, <1>4, NextLine DEF IndexesInv, CompleteInv, Retrieve, FilesOf
<1> QED  BY <1>3, <1>5, <1>6 DEF IndexesInv, NumberedInv

LEMMA FailsKeep == IndexesInv /\ (IndexFails \/ KeyringFails) => IndexesInv'
<1> SUFFICES ASSUME IndexesInv, IndexFails \/ KeyringFails  PROVE IndexesInv'
  OBVIOUS
<1>1. IndexesTypeInv /\ lines # <<>> /\ updating /\ repositories' = repositories
  BY DEF IndexesInv, IndexFails, KeyringFails
<1>2. IndexesTypeInv'
  BY <1>1, NextLine DEF IndexesTypeInv, IndexFails, KeyringFails
<1>3. FilesOf(repositories)' = FilesOf(repositories)
  BY <1>1 DEF FilesOf
<1>4. NumberedInv'
  BY <1>1, <1>3 DEF IndexesInv, NumberedInv, IndexFails, KeyringFails
<1> QED  BY <1>1, <1>2, <1>4 DEF IndexesInv, CompleteInv, IndexFails, KeyringFails

LEMMA RestartKeeps == IndexesInv /\ Restart => IndexesInv'
<1> SUFFICES ASSUME IndexesInv, Restart  PROVE IndexesInv'
  OBVIOUS
<1>1. IndexesTypeInv /\ Loaded' = Loaded /\ repositories' = Loaded
  BY DEF IndexesInv, Restart, Loaded, Ahead
<1>2. IndexesTypeInv'
  <2>1. repositories' \in Seq(Sources) /\ lines' \in Seq(Sources)
    BY <1>1, LoadedSeq, EmptySeq DEF Restart
  <2>2. updating' \in BOOLEAN /\ complete' \in BOOLEAN
    BY DEF Restart
  <2> QED  BY <1>1, <2>1, <2>2 DEF IndexesTypeInv, Restart
<1>3. NumberedInv'
  BY <1>1 DEF NumberedInv, Restart
<1>4. complete' => repositories' = repositories /\ lines' = lines
  BY <1>1, LoadedIsList DEF IndexesInv, CompleteInv, Restart
<1>5. CompleteInv'
  BY <1>4 DEF IndexesInv, CompleteInv, Restart, FilesOf
<1> QED  BY <1>2, <1>3, <1>5 DEF IndexesInv

LEMMA IndexesStep == IndexesInv /\ [IndexesNext]_indexesVars => IndexesInv'
<1> SUFFICES ASSUME IndexesInv, [IndexesNext]_indexesVars  PROVE IndexesInv'
  OBVIOUS
<1>1. ASSUME UNCHANGED <<index_files, repositories>>
      PROVE  Loaded' = Loaded /\ FilesOf(repositories)' = FilesOf(repositories)
  BY <1>1 DEF Loaded, Ahead, FilesOf
<1>2. CASE EditSources
  BY <1>1, <1>2, ListIsSeq DEF EditSources, IndexesInv, IndexesTypeInv, NumberedInv, CompleteInv
<1>3. CASE UpdateRepositories
  <2>1. FilesOf(repositories') = {} /\ repositories' = <<>> /\ sources_list \in Seq(Sources)
    BY <1>3 DEF UpdateRepositories, FilesOf, IndexesInv, IndexesTypeInv
  <2>2. repositories' \o lines' = sources_list
    BY <1>3, <2>1, ConcatEmptySeq DEF UpdateRepositories
  <2> QED  BY <1>3, <2>1, <2>2, FS_EmptySet, EmptySeq
             DEF UpdateRepositories, IndexesInv, IndexesTypeInv, NumberedInv, CompleteInv
<1>4. CASE EndUpdate
  BY <1>1, <1>4 DEF EndUpdate, IndexesInv, IndexesTypeInv, NumberedInv, CompleteInv
<1>5. CASE Abort
  BY <1>1, <1>5, EmptySeq DEF Abort, IndexesInv, IndexesTypeInv, NumberedInv, CompleteInv
<1>6. CASE UNCHANGED indexesVars
  BY <1>1, <1>6 DEF indexesVars, IndexesInv, IndexesTypeInv, NumberedInv, CompleteInv
<1> QED  BY <1>2, <1>3, <1>4, <1>5, <1>6, RetrieveKeeps, FailsKeep, RestartKeeps DEF IndexesNext

(* Every state reached satisfies IndexesInv, whatever is unavailable and   *)
(* whenever the list is edited or the program ends.                        *)
THEOREM IndexesInvariant == IndexesSpec => []IndexesInv
<1> QED  BY IndexesInitial, IndexesStep, PTL DEF IndexesSpec

(* After a whole update the list is consistent, and this program and the   *)
(* next ones have its repositories in its order (repositories.py:728-758). *)
THEOREM AllUpdated == IndexesSpec => []UpdatedAll
<1>1. ASSUME IndexesInv, ~ updating, complete
      PROVE  Check /\ Loaded = sources_list /\ repositories = sources_list
  <2>1. IndexesTypeInv /\ index_files = FilesOf(repositories)
    BY <1>1 DEF IndexesInv, CompleteInv
  <2>2. repositories = sources_list
    BY <1>1, <2>1, ConcatEmptySeq DEF IndexesInv, CompleteInv, IndexesTypeInv
  <2>3. Loaded = repositories
    BY <2>1, LoadedIsList
  <2>4. DOMAIN sources_list = 1..Len(sources_list)
    BY <2>1, LenProperties DEF IndexesTypeInv
  <2> QED  BY <2>1, <2>2, <2>3, <2>4 DEF Check, FilesOf
<1>2. IndexesInv => UpdatedAll
  BY <1>1 DEF UpdatedAll
<1> QED  BY <1>2, IndexesInvariant, PTL

(* Whatever is unavailable, the next program loads the repositories this   *)
(* one has, in the same order (repositories.py:662-669).                   *)
THEOREM AllLoadedAgain == IndexesSpec => []LoadedAgain
<1>1. ASSUME IndexesInv  PROVE LoadedAgain
  <2> DEFINE n == Len(repositories)
             file == [k \in 1..n |-> [place |-> k - 1, source |-> repositories[k]]]
             rank == [k \in 1..n |-> Cardinality(Ahead(file[k])) + 1]
  <2>1. IndexesTypeInv /\ n \in Nat /\ DOMAIN repositories = 1..n
    BY <1>1, LenProperties DEF IndexesInv, IndexesTypeInv
  <2>2. CASE repositories = Loaded
    <3> DEFINE here == [k \in 1..n |-> k]
    <3>1. here \in [DOMAIN repositories -> DOMAIN Loaded]
      BY <2>1, <2>2
    <3>2. \A j, k \in DOMAIN repositories : j < k => here[j] < here[k]
      BY <2>1
    <3>3. \A k \in DOMAIN repositories : repositories[k] = Loaded[here[k]]
      BY <2>1, <2>2
    <3> HIDE DEF here
    <3> QED  BY <3>1, <3>2, <3>3 DEF LoadedAgain
  <2>3. CASE repositories # Loaded
    <3>1. \A k \in 1..n : file[k] \in index_files /\ file[k].source = repositories[k]
      BY <1>1, <2>3 DEF IndexesInv, NumberedInv, FilesOf
    <3>2. \A j, k \in 1..n : j < k => Before(file[j], file[k])
      BY <2>1 DEF Before
    <3> HIDE DEF file
    <3>3. rank \in [DOMAIN repositories -> DOMAIN Loaded]
      BY <2>1, <3>1, LoadedAt
    <3>4. \A k \in 1..n : rank[k] = Cardinality(Ahead(file[k])) + 1 /\ Cardinality(Ahead(file[k])) \in Nat
      BY <2>1, <3>1, RankInNat
    <3>5. \A j, k \in DOMAIN repositories : j < k => rank[j] < rank[k]
      <4> TAKE j, k \in DOMAIN repositories
      <4> HAVE j < k
      <4>1. Cardinality(Ahead(file[j])) < Cardinality(Ahead(file[k]))
        BY <2>1, <3>1, <3>2, RankGrows
      <4> HIDE DEF rank
      <4> QED  BY <4>1, <3>4, <2>1
    <3>6. \A k \in DOMAIN repositories : repositories[k] = Loaded[rank[k]]
      BY <2>1, <3>1, <3>4, LoadedAt
    <3> HIDE DEF rank
    <3> QED  BY <3>3, <3>5, <3>6 DEF LoadedAgain
  <2> QED  BY <2>2, <2>3
<1> QED  BY <1>1, IndexesInvariant, PTL
-----------------------------------------------------------------------------
(* The list that DependencyOrder returns is the one ModuleInstall starts   *)
(* with: _get_all_dependencies() as called by install() and update().      *)

VARIABLES dependencies, available, requested, modules, place, direct_deps, sorted, key, stage

Sort == INSTANCE DependencyOrderProofs WITH i <- place, k <- key, result <- sorted, pc <- stage

(* The graph is the one of the index.                                      *)
GraphOf(idx) == [m \in Modules |-> Depends[m][idx[m]]]

(* The list comprehension of install() and update(): what is to be         *)
(* installed stays, in the order of the list.                              *)
KeptPlaces(idx) ==
  {j \in DOMAIN sorted : UpdatableIn(idx, sorted[j]) \/ InstallableIn(idx, sorted[j])}
KeptBefore(idx, j) == {h \in KeptPlaces(idx) : h < j}
KeptAt(idx, n) == CHOOSE j \in KeptPlaces(idx) : Cardinality(KeptBefore(idx, j)) = n - 1
Kept(idx) == [n \in 1..Cardinality(KeptPlaces(idx)) |-> sorted[KeptAt(idx, n)]]

LEMMA SortAssumption == Sort!OrderAssumption
BY InstallAssumption DEF InstallAssumption, Sort!OrderAssumption, Sort!IsFiniteSet, IsFiniteSet

(* What DependencyOrder finds for a module and what ModuleInstall says it  *)
(* depends on is the same.                                                 *)
LEMMA ReachIsDependencies ==
  ASSUME NEW idx \in [Modules -> Versions], dependencies = GraphOf(idx), NEW m \in Modules
  PROVE  AllDependencies(idx, {m}) = {m} \cup Sort!Reach[m]
<1> DEFINE all == AllDependencies(idx, {m})
           reach == Sort!Reach[m]
<1>1. \A e \in Modules : dependencies[e] = Depends[e][idx[e]] /\ dependencies[e] \subseteq Modules
  BY Constants DEF GraphOf
<1>2. /\ m \in all /\ all \subseteq Modules
      /\ \A e \in all : dependencies[e] \subseteq all
      /\ \A T \in SUBSET Modules :
           m \in T /\ (\A e \in T : dependencies[e] \subseteq T) => all \subseteq T
  BY <1>1, LeastClosed
<1>3. /\ reach \subseteq Modules /\ dependencies[m] \subseteq reach
      /\ \A S \in SUBSET Modules :
           (\A e \in S : dependencies[e] \subseteq S) /\ dependencies[m] \subseteq S => reach \subseteq S
  BY <1>1 DEF Sort!Reach
<1>4. \A e \in reach : dependencies[e] \subseteq reach
  BY <1>1 DEF Sort!Reach
<1> HIDE DEF all, reach
<1>5. reach \subseteq all
  BY <1>2, <1>3
<1>6. all \subseteq {m} \cup reach
  <2>1. {m} \cup reach \in SUBSET Modules
    BY <1>3
  <2>2. \A e \in {m} \cup reach : dependencies[e] \subseteq {m} \cup reach
    BY <1>3, <1>4
  <2> QED  BY <1>2, <2>1, <2>2
<1>7. all = {m} \cup reach
  BY <1>2, <1>5, <1>6
<1> QED  BY <1>7 DEF all, reach

LEMMA NeededIsDependencies ==
  ASSUME NEW idx \in [Modules -> Versions], dependencies = GraphOf(idx), requested \subseteq Modules
  PROVE  Sort!Needed = AllDependencies(idx, requested)
<1> DEFINE all == AllDependencies(idx, requested)
           needed == UNION {AllDependencies(idx, {m}) : m \in requested}
<1>1. \A m \in Modules : AllDependencies(idx, {m}) = {m} \cup Sort!Reach[m]
  BY ReachIsDependencies
<1>2. Sort!Needed = needed
  <2>1. Sort!Needed = requested \cup UNION {Sort!Reach[m] : m \in requested}
    BY DEF Sort!Needed
  <2>2. \A d : d \in Sort!Needed <=> \E m \in requested : d = m \/ d \in Sort!Reach[m]
    BY <2>1
  <2>3. \A d : d \in needed <=> \E m \in requested : d \in {m} \cup Sort!Reach[m]
    BY <1>1
  <2> HIDE DEF needed
  <2> QED  BY <2>2, <2>3
<1>3. requested \in SUBSET Modules /\ requested \subseteq all
  BY LeastClosed
<1>4. needed \subseteq all
  <2>1. \A m \in requested : AllDependencies(idx, {m}) \subseteq all
    BY <1>3, Transitive
  <2> QED  BY <2>1
<1>5. all \subseteq needed
  <2>1. \A m \in requested : /\ m \in AllDependencies(idx, {m})
                             /\ AllDependencies(idx, {m}) \subseteq Modules
                             /\ \A e \in AllDependencies(idx, {m}) :
                                  Depends[e][idx[e]] \subseteq AllDependencies(idx, {m})
    <3> TAKE m \in requested
    <3>1. {m} \in SUBSET Modules
      OBVIOUS
    <3> QED  BY <3>1, LeastClosed
  <2>2. needed \in SUBSET Modules /\ requested \subseteq needed
    BY <2>1
  <2>3. \A e \in needed : Depends[e][idx[e]] \subseteq needed
    BY <2>1
  <2> HIDE DEF needed
  <2> QED  BY <1>3, <2>2, <2>3, LeastClosed
<1> QED  BY <1>2, <1>4, <1>5

(* A list is kept in its order: the n-th that stays is at the place that   *)
(* n - 1 of the others that stay are before.                               *)
LEMMA KeptInOrder ==
  ASSUME NEW idx, sorted \in Seq(Modules)
  PROVE  LET n == Cardinality(KeptPlaces(idx)) IN
         /\ n \in Nat
         /\ \A a \in 1..n : KeptAt(idx, a) \in KeptPlaces(idx)
         /\ \A a, b \in 1..n : /\ KeptAt(idx, b) < KeptAt(idx, a) => b < a
                               /\ KeptAt(idx, b) = KeptAt(idx, a) => b = a
         /\ \A j \in KeptPlaces(idx) : \E a \in 1..n : KeptAt(idx, a) = j
<1> DEFINE P == KeptPlaces(idx)
           n == Cardinality(P)
           rank == [j \in P |-> Cardinality(KeptBefore(idx, j)) + 1]
<1>1. DOMAIN sorted = 1..Len(sorted) /\ Len(sorted) \in Nat
  BY LenProperties
<1>2. P \subseteq 1..Len(sorted) /\ IsFiniteSet(P) /\ n \in Nat
  <2>1. P \subseteq 1..Len(sorted) /\ IsFiniteSet(1..Len(sorted))
    BY <1>1, OneTo DEF KeptPlaces
  <2> HIDE DEF P
  <2> QED  BY <2>1, FS_Subset, FS_CardinalityType
<1>3. \A j \in P : /\ KeptBefore(idx, j) \subseteq P /\ j \notin KeptBefore(idx, j)
                   /\ IsFiniteSet(KeptBefore(idx, j)) /\ Cardinality(KeptBefore(idx, j)) \in Nat
                   /\ Cardinality(KeptBefore(idx, j)) < n
  <2> TAKE j \in P
  <2>1. KeptBefore(idx, j) \subseteq P /\ j \notin KeptBefore(idx, j)
    BY <1>2 DEF KeptBefore
  <2> HIDE DEF P
  <2> QED  BY <1>2, <2>1, FS_Subset, FS_CardinalityType
<1>4. ASSUME NEW h \in P, NEW j \in P, h < j
      PROVE  Cardinality(KeptBefore(idx, h)) < Cardinality(KeptBefore(idx, j))
  <2>1. KeptBefore(idx, h) \subseteq KeptBefore(idx, j)
    BY <1>2, <1>4 DEF KeptBefore
  <2>2. h \in KeptBefore(idx, j) /\ h \notin KeptBefore(idx, h)
    BY <1>2, <1>4 DEF KeptBefore
  <2>3. IsFiniteSet(KeptBefore(idx, j))
    BY <1>3
  <2> QED  BY <2>1, <2>2, <2>3, FS_Subset, FS_CardinalityType
<1>5. \A h, j \in P : Cardinality(KeptBefore(idx, h)) = Cardinality(KeptBefore(idx, j)) => h = j
  <2> TAKE h, j \in P
  <2>1. h \in Nat /\ j \in Nat
    BY <1>2
  <2>2. h = j \/ h < j \/ j < h
    BY <2>1
  <2> QED  BY <2>2, <1>3, <1>4
<1>6. rank \in Surjection(P, 1..n)
  <2>1. rank \in [P -> 1..n] /\ \A h, j \in P : rank[h] = rank[j] => h = j
    BY <1>2, <1>3, <1>5
  <2> HIDE DEF rank
  <2>2. rank \in Injection(P, 1..n)
    BY <2>1 DEF Injection, IsInjective
  <2>3. IsFiniteSet(1..n) /\ Cardinality(P) = Cardinality(1..n)
    BY <1>2, OneTo
  <2> HIDE DEF P, n
  <2> QED  BY <1>2, <2>2, <2>3, FS_Injection
<1>7. \A a \in 1..n : KeptAt(idx, a) \in P /\ Cardinality(KeptBefore(idx, KeptAt(idx, a))) = a - 1
  <2> TAKE a \in 1..n
  <2>1. PICK j \in P : rank[j] = a
    BY <1>6 DEF Surjection
  <2>2. Cardinality(KeptBefore(idx, j)) = a - 1
    BY <2>1, <1>3
  <2> QED  BY <2>2 DEF KeptAt
<1>8. \A a, b \in 1..n : /\ KeptAt(idx, b) < KeptAt(idx, a) => b < a
                         /\ KeptAt(idx, b) = KeptAt(idx, a) => b = a
  <2> TAKE a, b \in 1..n
  <2>1. KeptAt(idx, b) < KeptAt(idx, a) => b - 1 < a - 1
    BY <1>4, <1>7
  <2>2. KeptAt(idx, b) = KeptAt(idx, a) => b - 1 = a - 1
    BY <1>7
  <2> QED  BY <2>1, <2>2, <1>2
<1>9. \A j \in P : \E a \in 1..n : KeptAt(idx, a) = j
  <2> TAKE j \in P
  <2>1. rank[j] \in 1..n /\ rank[j] - 1 = Cardinality(KeptBefore(idx, j))
    BY <1>2, <1>3
  <2>2. KeptAt(idx, rank[j]) = j
    BY <2>1, <1>5, <1>7
  <2> QED  BY <2>1, <2>2
<1> QED  BY <1>2, <1>7, <1>8, <1>9

(* What install() and update() keep of the sorted list is one of the       *)
(* orders that ModuleInstall starts with, of all that is to be installed   *)
(* for the requested modules (repositories.py:819-821, 848-853); if the    *)
(* repository has every module, the sort does not fail.                    *)
InstallsSorted ==
  \A idx \in [Modules -> Versions] :
    dependencies = GraphOf(idx) =>
      /\ stage = "done" => Kept(idx) \in Orders(idx, Wanted(idx, requested))
      /\ available = Modules => stage \notin {"missing", "assertion"}

LEMMA KeptIsOrder ==
  ASSUME NEW idx \in [Modules -> Versions], dependencies = GraphOf(idx),
         requested \subseteq Modules, stage = "done",
         Sort!TypeOK, Sort!Complete, Sort!DependedOnFirst
  PROVE  Kept(idx) \in Orders(idx, Wanted(idx, requested))
<1> DEFINE P == KeptPlaces(idx)
           n == Cardinality(P)
           W == Wanted(idx, requested)
           s == Kept(idx)
<1>1. sorted \in Seq(Modules) /\ DOMAIN sorted = 1..Len(sorted) /\ \A j \in DOMAIN sorted : sorted[j] \in Modules
  BY LenProperties, ElementOfSeq DEF Sort!TypeOK
<1>2. /\ \A m : m \in AllDependencies(idx, requested) <=> \E j \in DOMAIN sorted : sorted[j] = m
      /\ \A h, j \in DOMAIN sorted : sorted[h] = sorted[j] => h = j
  <2>1. Sort!ToSet(sorted) = AllDependencies(idx, requested) /\ Sort!IsInjective(sorted)
    BY NeededIsDependencies DEF Sort!Complete
  <2> QED  BY <2>1 DEF Sort!ToSet, Sort!IsInjective
<1>3. /\ n \in Nat /\ \A a \in 1..n : KeptAt(idx, a) \in P
      /\ \A a, b \in 1..n : /\ KeptAt(idx, b) < KeptAt(idx, a) => b < a
                            /\ KeptAt(idx, b) = KeptAt(idx, a) => b = a
      /\ \A j \in P : \E a \in 1..n : KeptAt(idx, a) = j
  BY <1>1, KeptInOrder
<1>4. \A m : m \in W <=> \E j \in P : sorted[j] = m
  BY <1>1, <1>2 DEF Wanted, KeptPlaces
<1>5. P \subseteq DOMAIN sorted
  BY DEF KeptPlaces
<1>6. DOMAIN s = 1..n /\ \A a \in 1..n : s[a] = sorted[KeptAt(idx, a)]
  BY DEF Kept
<1> HIDE DEF P, n, W
<1>7. s \in [1..n -> W] /\ \A a, b \in 1..n : s[a] = s[b] => a = b
  <2>1. \A a \in 1..n : s[a] \in W
    BY <1>3, <1>4, <1>6
  <2>2. s = [a \in 1..n |-> s[a]]
    BY DEF Kept, n, P
  <2>3. \A a, b \in 1..n : s[a] = s[b] => KeptAt(idx, a) = KeptAt(idx, b)
    BY <1>2, <1>3, <1>5, <1>6
  <2> QED  BY <2>1, <2>2, <2>3, <1>3
<1>8. Cardinality(W) = n
  <2>1. \A x \in W : \E a \in 1..n : x = s[a]
    BY <1>3, <1>4, <1>6
  <2> HIDE DEF s
  <2> QED  BY <1>3, <1>7, <2>1, Counted
<1>9. s \in SetToSeqs(W)
  <2> HIDE DEF s
  <2> QED  BY <1>7, <1>8 DEF SetToSeqs
<1>10. \A a, b \in 1..n : KeptAt(idx, b) < KeptAt(idx, a) => b < a
  BY <1>3
<1>11. ASSUME NEW a \in 1..n, NEW b \in 1..n,
              s[b] \in AllDependencies(idx, {s[a]}), s[a] \notin AllDependencies(idx, {s[b]})
       PROVE  b < a
  <2> DEFINE p == KeptAt(idx, a)
             q == KeptAt(idx, b)
  <2>1. p \in DOMAIN sorted /\ q \in DOMAIN sorted
        /\ s[a] = sorted[p] /\ s[b] = sorted[q] /\ sorted[p] \in Modules /\ sorted[q] \in Modules
    BY <1>1, <1>3, <1>5, <1>6
  <2> HIDE DEF s, p, q
  <2>2. /\ AllDependencies(idx, {sorted[p]}) = {sorted[p]} \cup Sort!Reach[sorted[p]]
        /\ AllDependencies(idx, {sorted[q]}) = {sorted[q]} \cup Sort!Reach[sorted[q]]
    BY <2>1, ReachIsDependencies
  <2>3. sorted[q] \in Sort!Reach[sorted[p]] /\ sorted[p] \notin Sort!Reach[sorted[q]]
    BY <2>1, <2>2, <1>11
  <2>4. q < p
    BY <2>1, <2>3 DEF Sort!DependedOnFirst
  <2> QED  BY <2>4, <1>10 DEF p, q
<1> QED  BY <1>6, <1>9, <1>11 DEF Orders, W

(* InstallsSorted in every state of the sort: DependencyOrder returns an   *)
(* order that ModuleInstall allows, for every graph that an index gives.   *)
THEOREM SortedIsInstalled == Sort!Spec => []InstallsSorted
<1>1. ASSUME Sort!IInv, Sort!TypeOK, Sort!Complete, Sort!DependedOnFirst  PROVE InstallsSorted
  <2>1. requested \subseteq Modules
    BY <1>1 DEF Sort!IInv, Sort!GraphInv
  <2> SUFFICES ASSUME NEW idx \in [Modules -> Versions], dependencies = GraphOf(idx)
               PROVE  /\ stage = "done" => Kept(idx) \in Orders(idx, Wanted(idx, requested))
                      /\ available = Modules => stage \notin {"missing", "assertion"}
    BY DEF InstallsSorted
  <2>2. stage = "done" => Kept(idx) \in Orders(idx, Wanted(idx, requested))
    BY <1>1, <2>1, KeptIsOrder
  <2>3. Sort!Needed \subseteq Modules
    BY <2>1, NeededIsDependencies DEF AllDependencies
  <2>4. available = Modules => stage \notin {"missing", "assertion"}
    BY <1>1, <2>3 DEF Sort!Complete, Sort!Ended
  <2> QED  BY <2>2, <2>4
<1>2. Sort!Spec => []Sort!IInv
  BY SortAssumption, Sort!Invariant
<1>3. Sort!Spec => []Sort!TypeOK
  BY SortAssumption, Sort!TypeCorrect
<1>4. Sort!Spec => []Sort!Complete
  BY SortAssumption, Sort!ResultComplete
<1>5. Sort!Spec => []Sort!DependedOnFirst
  BY SortAssumption, Sort!MostDependedOnFirst
<1> QED  BY <1>1, <1>2, <1>3, <1>4, <1>5, PTL
=============================================================================
