-------------------------- MODULE RepositoryIndexes --------------------------
(***************************************************************************)
(* woob/core/repositories.py: update_repositories(), load() and            *)
(* check_repositories(): the index files of the sources, whose names are   *)
(* their places, and the repositories loaded from them.  The names differ  *)
(* from those of ModuleInstall: RepositoriesProofs extends both.           *)
(***************************************************************************)
EXTENDS Naturals, Sequences, FiniteSets

CONSTANTS
  N,          \* sources are 1..N, in the order of their file names
  MaxSources  \* bound: lines of sources.list; names of files have two digits

Sources == 1..N

ASSUME IndexesAssumption == N \in Nat /\ MaxSources \in 0..100

VARIABLES
  sources_list,  \* the lines of sources.list
  index_files,   \* of the sources: place and source
  repositories,  \* sources of the loaded repositories, those after override those before
  updating,      \* is update_repositories() running?
  lines,         \* that it has yet to do
  complete       \* did the last update have every source, and sources.list not change since?

indexesVars == <<sources_list, index_files, repositories, updating, lines, complete>>

Lists == UNION {[1..n -> Sources] : n \in 0..MaxSources}

IndexesInit ==
  /\ sources_list \in Lists
  /\ index_files = {} /\ repositories = <<>>
  /\ updating = FALSE /\ lines = <<>> /\ complete = FALSE

-----------------------------------------------------------------------------
EditSources ==   \* the user
  /\ sources_list' \in Lists \ {sources_list}
  /\ complete' = FALSE
  /\ UNCHANGED <<index_files, repositories, updating, lines>>

OldFilesStay ==   \* mutant: the directory is not emptied
  /\ ~ updating
  /\ repositories' = <<>>
  /\ lines' = sources_list /\ updating' = TRUE /\ complete' = TRUE
  /\ UNCHANGED <<sources_list, index_files>>

UpdateRepositories ==
  /\ ~ updating
  /\ repositories' = <<>> /\ index_files' = {}
  /\ lines' = sources_list /\ updating' = TRUE /\ complete' = TRUE
  /\ UNCHANGED sources_list

NoPlace(source) == [place |-> 0, source |-> source]   \* mutant: no number in the name

File(source) == [place |-> Len(repositories), source |-> source]   \* prio_filename

Retrieve ==
  /\ updating /\ lines # <<>>
  /\ index_files' = index_files \cup {File(Head(lines))}
  /\ repositories' = Append(repositories, Head(lines))
  /\ lines' = Tail(lines)
  /\ UNCHANGED <<sources_list, updating, complete>>

IndexFails ==   \* RepositoryUnavailable in retrieve_index()
  /\ updating /\ lines # <<>>
  /\ lines' = Tail(lines) /\ complete' = FALSE
  /\ UNCHANGED <<sources_list, index_files, repositories, updating>>

KeyringFails ==   \* the index is already saved
  /\ updating /\ lines # <<>>
  /\ index_files' = index_files \cup {File(Head(lines))}
  /\ lines' = Tail(lines) /\ complete' = FALSE
  /\ UNCHANGED <<sources_list, repositories, updating>>

EndUpdate ==
  /\ updating /\ lines = <<>>
  /\ updating' = FALSE
  /\ UNCHANGED <<sources_list, index_files, repositories, lines, complete>>

Abort ==   \* any other exception
  /\ updating
  /\ updating' = FALSE /\ lines' = <<>> /\ complete' = FALSE
  /\ UNCHANGED <<sources_list, index_files, repositories>>

-----------------------------------------------------------------------------
(* load(): the files in the order of their names.                          *)
Before(f, g) == IF f.place = g.place THEN f.source < g.source ELSE f.place < g.place
Ahead(f) == {g \in index_files : Before(g, f)}
Loaded == [k \in 1..Cardinality(index_files) |->
             (CHOOSE f \in index_files : Cardinality(Ahead(f)) = k - 1).source]

Restart ==   \* the program ends, or is killed, and starts again
  /\ repositories' = Loaded
  /\ updating' = FALSE /\ lines' = <<>> /\ complete' = (complete /\ ~ updating)
  /\ UNCHANGED <<sources_list, index_files>>

(* check_repositories(): is there a file for each line?                    *)
Check == \A k \in DOMAIN sources_list :
           [place |-> k - 1, source |-> sources_list[k]] \in index_files

IndexesNext == \/ EditSources \/ UpdateRepositories \/ Retrieve \/ IndexFails \/ KeyringFails
               \/ EndUpdate \/ Abort \/ Restart

IndexesSpec == IndexesInit /\ [][IndexesNext]_indexesVars
-----------------------------------------------------------------------------
(* Properties.                                                             *)

(* After an update that had every source, the list is consistent, and this *)
(* program and the next ones load its repositories in its order.           *)
UpdatedAll ==
  ~ updating /\ complete => Check /\ Loaded = sources_list /\ repositories = sources_list

(* The next program loads all that this one has, in the same order, which  *)
(* decides on the repository a module comes from (repositories.py:637).    *)
LoadedAgain ==
  \E place \in [DOMAIN repositories -> DOMAIN Loaded] :
    /\ \A j, k \in DOMAIN repositories : j < k => place[j] < place[k]
    /\ \A k \in DOMAIN repositories : repositories[k] = Loaded[place[k]]
=============================================================================
