-------------------------- MODULE DependencyOrder --------------------------
(***************************************************************************)
(* woob/core/repositories.py: Repositories._get_all_dependencies(), with   *)
(* recursive_deps(), DepList and dependency_sort(): the modules to install *)
(* for the ones requested, those they depend on first.                     *)
(*                                                                         *)
(* The dependencies are any graph, cycles and missing modules included.    *)
(***************************************************************************)
EXTENDS Naturals, Sequences, SequencesExt, FiniteSetsExt

CONSTANTS Modules

ASSUME OrderAssumption == IsFiniteSet(Modules)

VARIABLES
  dependencies, \* of each module
  available,    \* modules of the repositories
  requested,    \* modules to install or update
  modules,      \* the list, which grows while it is read
  i,            \* the place of the current one
  direct_deps,  \* keys of the dict, in the order they were put in
  result,       \* the DepList
  k,            \* place in direct_deps of the key to move
  pc            \* "collect", "sort", "done", "missing", "assertion"

vars == <<dependencies, available, requested, modules, i, direct_deps, result, k, pc>>

Init ==
  /\ dependencies \in [Modules -> SUBSET Modules]
  /\ available \in SUBSET Modules
  /\ requested \in SUBSET available
  /\ modules \in SetToSeqs(requested) /\ i = 1   \* in the order of the repositories
  /\ direct_deps = <<>> /\ result = <<>> /\ k = 1
  /\ pc = "collect"

Keys == ToSet(direct_deps)
-----------------------------------------------------------------------------
(* The while loop over the list.                                           *)
Missing(m) == {d \in dependencies[m] : d \notin Keys /\ d \notin available}

Collect(keys) ==   \* direct_deps has these keys after it
  /\ pc = "collect" /\ i <= Len(modules)
  /\ Missing(modules[i]) = {}
  /\ \E new \in SetToSeqs({d \in dependencies[modules[i]] : d \notin Keys}) :
       modules' = modules \o new
  /\ direct_deps' = keys
  /\ i' = i + 1
  /\ UNCHANGED <<dependencies, available, requested, result, k, pc>>

WithCurrent == IF modules[i] \in Keys THEN direct_deps ELSE Append(direct_deps, modules[i])

CollectTwice == Collect(Append(direct_deps, modules[i]))   \* mutant: a list, not a dict

CollectStuck ==   \* mutant: "continue" before i is advanced
  IF pc = "collect" /\ i <= Len(modules) /\ modules[i] \in Keys
  THEN UNCHANGED vars
  ELSE Collect(WithCurrent)

CollectNext == Collect(WithCurrent)

CollectFails ==   \* ModuleInstallError
  /\ pc = "collect" /\ i <= Len(modules)
  /\ Missing(modules[i]) # {}
  /\ pc' = "missing"
  /\ UNCHANGED <<dependencies, available, requested, modules, i, direct_deps, result, k>>

StartSort ==
  /\ pc = "collect" /\ i > Len(modules)
  /\ pc' = "sort" /\ result' = direct_deps
  /\ UNCHANGED <<dependencies, available, requested, modules, i, direct_deps, k>>

-----------------------------------------------------------------------------
(* recursive_deps(direct_deps, key, result): the recursive calls share one *)
(* result, and no order of a set changes what they find.                   *)
Found[p \in (SUBSET Modules) \X (SUBSET Modules)] ==
  LET subs  == p[1]
      found == p[2]
      sub   == CHOOSE s \in subs : TRUE
  IN  IF subs = {} THEN found
      ELSE Found[<<subs \ {sub},
                   IF sub \in found THEN found ELSE Found[<<dependencies[sub], found \cup {sub}>>]>>]

RecursiveDeps(key) == Found[<<dependencies[key], {}>>]

(* DepList.move_value_after(): val goes after the last of afters; the last *)
(* place that holds one of them or val itself is looked for from the end.  *)
Places(list, val, afters) ==
  {pos \in DOMAIN list : list[pos] = val \/ list[pos] \in afters}

MoveBefore(list, val, afters) ==   \* mutant: insert(pos, val)
  LET pos == Max(Places(list, val, afters))
  IN  IF list[pos] = val THEN list
      ELSE RemoveAt(InsertAt(list, pos, val), CHOOSE c \in 1..pos : list[c] = val)

MoveAndKeep(list, val, afters) ==   \* mutant: the old place is not deleted
  LET pos == Max(Places(list, val, afters))
  IN  IF list[pos] = val THEN list ELSE InsertAt(list, pos + 1, val)

MoveValueAfter(list, val, afters) ==
  LET pos == Max(Places(list, val, afters))
  IN  IF list[pos] = val THEN list
      ELSE RemoveAt(InsertAt(list, pos + 1, val), CHOOSE c \in 1..pos : list[c] = val)

SortNext ==
  /\ pc = "sort" /\ k <= Len(direct_deps)
  /\ LET afters == RecursiveDeps(direct_deps[k])
     IN  IF Places(result, direct_deps[k], afters) = {}
         THEN pc' = "assertion" /\ UNCHANGED result
         ELSE UNCHANGED pc /\ result' = MoveValueAfter(result, direct_deps[k], afters)
  /\ k' = k + 1
  /\ UNCHANGED <<dependencies, available, requested, modules, i, direct_deps>>

Return ==
  /\ pc = "sort" /\ k > Len(direct_deps)
  /\ pc' = "done"
  /\ UNCHANGED <<dependencies, available, requested, modules, i, direct_deps, result, k>>

Ended == pc \in {"done", "missing", "assertion"}
Terminated == Ended /\ UNCHANGED vars

Step == CollectNext \/ CollectFails \/ StartSort \/ SortNext \/ Return
Next == Step \/ Terminated

Spec     == Init /\ [][Next]_vars
FairSpec == Spec /\ WF_vars(Step)
-----------------------------------------------------------------------------
(* Properties.  The reference: what m depends on, directly or not, is the  *)
(* smallest set that has its dependencies and theirs.                      *)

Reach ==
  LET closed == {S \in SUBSET Modules : \A e \in S : dependencies[e] \subseteq S}
  IN  [m \in Modules |-> {d \in Modules : \A S \in closed : dependencies[m] \subseteq S => d \in S}]

Needed == LET reach == Reach IN requested \cup UNION {reach[m] : m \in requested}

TypeOK ==
  /\ modules \in Seq(Modules) /\ i \in 1..Len(modules) + 1
  /\ direct_deps \in Seq(Modules) /\ result \in Seq(Modules) /\ IsInjective(direct_deps)
  /\ k \in 1..Len(direct_deps) + 1
  /\ pc \in {"collect", "sort", "done", "missing", "assertion"}

(* The result has the requested modules and all they depend on, each once, *)
(* even if modules depend on each other (repositories.py:789-799, 517); it *)
(* fails if and only if one that is needed does not exist, and never by    *)
(* the assertion of move_value_after() (repositories.py:513).              *)
Complete ==
  /\ pc = "done" => ToSet(result) = Needed /\ IsInjective(result)
  /\ Ended => (pc = "missing" <=> ~ Needed \subseteq available)
  /\ pc # "assertion"

(* repositories.py:803, "install most depended-on first": a module comes   *)
(* after all it depends on, but those that depend on it in turn.           *)
DependedOnFirst ==
  pc = "done" =>
    LET reach == Reach
    IN  \A a, b \in DOMAIN result :
          result[b] \in reach[result[a]] /\ result[a] \notin reach[result[b]] => b < a

(* The list stops growing and the loops end, cycles or not.                *)
Ends == <>Ended
=============================================================================
