------------------------ MODULE StandardStorageProofs ------------------------
(***************************************************************************)
(* Proofs about StandardStorage: the file is always a whole document,      *)
(* whoever loads, saves and is killed, and with one program no older state *)
(* takes the place of what a save that began alone has written.            *)
(***************************************************************************)
EXTENDS StandardStorage, TLAPS

USE StorageAssumption

LEMMA NType == N \in Nat /\ N >= 1 /\ MaxChanges \in Nat
  OBVIOUS

(* What a dump has visited is a subtree, and a dump that is to replace the *)
(* file has visited all.                                                   *)
Visited(t, b) == \/ pc[t] = "replace"
                 \/ pc[t] = "dump" /\ b < next[t]

DumpInv ==
  /\ file \in Doc
  /\ \A t \in Threads : pc[t] = "dump" => next[t] <= N
  /\ \A t \in Threads, b \in Backends : Visited(t, b) => temp[t][b] \in 0..Bare

WholeInv == TypeOK /\ DumpInv

(* Every save writes whole documents: what is needed for AlwaysWhole.      *)
LEMMA WholeInit == Init => WholeInv
<1> SUFFICES ASSUME Init PROVE WholeInv
  OBVIOUS
<1>1. file \in Doc /\ kept \in Doc
  BY NType DEF Init, Doc, Backends, Bare
<1>2. values \in [Programs -> Doc]
  BY <1>1 DEF Init
<1>3. temp \in [Threads -> [Backends -> 0..Missing]]
  BY NType DEF Init, Empty, Missing
<1>4. found \in [Threads -> 0..Bare]
  BY NType DEF Init, Bare
<1> QED
  BY <1>1, <1>2, <1>3, <1>4, NType DEF Init, WholeInv, TypeOK, DumpInv, Visited, Threads

LEMMA SubtreeType == 0..Bare \subseteq 0..Missing /\ 0 \in 0..Bare /\ Bare \in 0..Bare
  BY NType DEF Missing, Bare

(* A change of one subtree of a document, or of a partial one.             *)
LEMMA SubtreeSet ==
  ASSUME NEW S, NEW f \in [Backends -> S], NEW b \in Backends, NEW v \in S
  PROVE  [f EXCEPT ![b] = v] \in [Backends -> S]
  OBVIOUS

LEMMA WholeStep == WholeInv /\ [Next]_vars => WholeInv'
<1> SUFFICES ASSUME WholeInv, [Next]_vars PROVE WholeInv'
  OBVIOUS
<1> USE NType
<1>1. CASE UNCHANGED vars
  BY <1>1 DEF vars, history, WholeInv, TypeOK, DumpInv, Visited
<1>2. ASSUME NEW p \in Programs, Restart(p) PROVE WholeInv'
  BY <1>2 DEF Restart, history, WholeInv, TypeOK, DumpInv, Visited
<1>3. ASSUME NEW p \in Programs, NEW b \in Backends, Change(p, b) PROVE WholeInv'
  <2>1. changes + 1 \in 0..MaxChanges /\ values[p] \in Doc
    BY <1>3 DEF Change, WholeInv, TypeOK
  <2>2. [values[p] EXCEPT ![b] = changes + 1] \in Doc
    BY <2>1, SubtreeSet DEF Doc, Bare
  <2>3. values' = [values EXCEPT ![p] = [values[p] EXCEPT ![b] = changes + 1]]
    BY <1>3 DEF Change
  <2>4. values' \in [Programs -> Doc]
    BY <2>2, <2>3 DEF WholeInv, TypeOK
  <2> QED
    BY <1>3, <2>1, <2>4 DEF Change, history, WholeInv, TypeOK, DumpInv, Visited
<1>8. ASSUME NEW p \in Programs, NEW b \in Backends, StartLoad(p, b) \/ EndLoad(p, b) PROVE WholeInv'
  <2>1. PICK t \in Threads : t = <<p, b>>
    BY DEF Threads
  <2>2. values[p] \in Doc /\ values[p][b] \in 0..Bare /\ found[t] \in 0..Bare
    BY <2>1 DEF WholeInv, TypeOK, Doc
  <2>3. PICK v \in 0..Bare, w \in 0..Bare :
          /\ values' = [values EXCEPT ![p] = [values[p] EXCEPT ![b] = v]]
          /\ found' = [found EXCEPT ![t] = w]
    BY <1>8, <2>1, <2>2, SubtreeType DEF StartLoad, EndLoad
  <2>4. [values[p] EXCEPT ![b] = v] \in Doc
    BY <2>2, SubtreeSet DEF Doc
  <2>5. values' \in [Programs -> Doc] /\ found' \in [Threads -> 0..Bare]
    BY <2>3, <2>4 DEF WholeInv, TypeOK
  <2>6. PICK place \in {"load", "idle"} : pc' = [pc EXCEPT ![t] = place]
    BY <1>8, <2>1 DEF StartLoad, EndLoad
  <2>7. UNCHANGED <<file, next, temp, changes, alone, kept>>
    BY <1>8 DEF StartLoad, EndLoad, history
  <2>8. TypeOK'
    BY <2>5, <2>6, <2>7 DEF WholeInv, TypeOK
  <2> QED
    BY <2>6, <2>7, <2>8 DEF WholeInv, TypeOK, DumpInv, Visited
<1>4. ASSUME NEW p \in Programs, NEW b \in Backends, Save(p, b) PROVE WholeInv'
  <2>1. PICK t \in Threads : t = <<p, b>>
    BY DEF Threads
  <2>2. Empty \in [Backends -> 0..Missing]
    BY DEF Empty, Missing
  <2>3. /\ pc' = [pc EXCEPT ![t] = "dump"]
        /\ next' = [next EXCEPT ![t] = 1]
        /\ temp' = [temp EXCEPT ![t] = Empty]
        /\ alone' \subseteq Threads
        /\ UNCHANGED <<file, values, found, changes, kept>>
    BY <1>4, <2>1 DEF Save, WholeInv, TypeOK
  <2>4. TypeOK'
    BY <2>2, <2>3 DEF WholeInv, TypeOK
  <2>5. DumpInv'
    BY <2>3 DEF WholeInv, TypeOK, DumpInv, Visited, Backends
  <2> QED
    BY <2>4, <2>5 DEF WholeInv
<1>5. ASSUME NEW p \in Programs, NEW b \in Backends, Dump(p, b) PROVE WholeInv'
  <2>1. PICK t \in Threads : t = <<p, b>>
    BY DEF Threads
  <2> DEFINE n == next[t]
             v == values[p][n]
  <2>2. n \in Backends /\ n \in 1..N
    BY <1>5, <2>1 DEF Dump, DumpInv, Backends, WholeInv, TypeOK
  <2>3. v \in 0..Bare
    BY <2>2 DEF WholeInv, TypeOK, Doc
  <2>4. /\ pc[t] = "dump"
        /\ temp' = [temp EXCEPT ![t] = [temp[t] EXCEPT ![n] = v]]
        /\ next' = [next EXCEPT ![t] = n + 1]
        /\ pc' = [pc EXCEPT ![t] = IF n = N THEN "replace" ELSE "dump"]
        /\ UNCHANGED <<file, values, found, changes, alone, kept>>
    BY <1>5, <2>1 DEF Dump, history
  <2> HIDE DEF n, v
  <2>5. [temp[t] EXCEPT ![n] = v] \in [Backends -> 0..Missing]
    <3>1. temp[t] \in [Backends -> 0..Missing]
      BY DEF WholeInv, TypeOK
    <3>2. v \in 0..Missing
      BY <2>3, SubtreeType
    <3> QED
      BY <2>2, <3>1, <3>2
  <2>6. temp' \in [Threads -> [Backends -> 0..Missing]]
    BY <2>1, <2>4, <2>5 DEF WholeInv, TypeOK
  <2>7. TypeOK'
    <3>1. next' \in [Threads -> 1..N + 1]
      BY <2>1, <2>2, <2>4, NType DEF WholeInv, TypeOK
    <3>2. pc' \in [Threads -> {"off", "load", "idle", "dump", "replace"}]
      BY <2>1, <2>4 DEF WholeInv, TypeOK
    <3> QED
      BY <2>4, <2>6, <3>1, <3>2 DEF WholeInv, TypeOK
  <2>8. ASSUME NEW u \in Threads, NEW c \in Backends, Visited(u, c)' PROVE temp'[u][c] \in 0..Bare
    <3>1. CASE u # t
      BY <2>4, <2>8, <3>1 DEF DumpInv, Visited, WholeInv, TypeOK
    <3>2. CASE u = t
      <4>1. c = n \/ Visited(t, c)
        BY SMTT(30), <2>1, <2>2, <2>4, <2>8, <3>2 DEF Visited, WholeInv, TypeOK, Backends, n
      <4>2. temp[t] \in [Backends -> 0..Missing]
        BY DEF WholeInv, TypeOK
      <4>3. temp'[u][c] = IF c = n THEN v ELSE temp[t][c]
        BY <2>2, <2>4, <3>2, <4>2 DEF WholeInv, TypeOK
      <4> QED
        BY <2>3, <4>1, <4>3 DEF WholeInv, DumpInv
    <3> QED
      BY <3>1, <3>2
  <2>9. \A u \in Threads : pc'[u] = "dump" => next'[u] <= N
    BY <2>1, <2>2, <2>4 DEF DumpInv, WholeInv, TypeOK
  <2> QED
    BY <2>4, <2>7, <2>8, <2>9 DEF DumpInv, WholeInv
<1>6. ASSUME NEW p \in Programs, NEW b \in Backends, DumpFails(p, b) PROVE WholeInv'
  BY <1>6 DEF DumpFails, history, WholeInv, TypeOK, DumpInv, Visited
<1>7. ASSUME NEW p \in Programs, NEW b \in Backends, Replace(p, b) PROVE WholeInv'
  <2>1. PICK t \in Threads : t = <<p, b>>
    BY DEF Threads
  <2>2. /\ pc[t] = "replace"
        /\ file' = temp[t]
        /\ pc' = [pc EXCEPT ![t] = "idle"]
        /\ kept' = IF t \in alone /\ temp[t][b] # Bare
                   THEN [kept EXCEPT ![b] = temp[t][b]] ELSE kept
        /\ UNCHANGED <<values, found, next, temp, changes, alone>>
    BY <1>7, <2>1 DEF Replace
  <2>3. temp[t] \in Doc
    BY <2>2 DEF WholeInv, TypeOK, DumpInv, Visited, Doc
  <2>4. kept' \in Doc
    BY <2>2, <2>3, SubtreeSet DEF WholeInv, TypeOK, Doc
  <2> QED
    BY <2>2, <2>3, <2>4 DEF WholeInv, TypeOK, DumpInv, Visited
<1> QED
  BY <1>1, <1>2, <1>3, <1>4, <1>5, <1>6, <1>7, <1>8 DEF Next

(* Wherever programs are killed and whoever saves at once, the file is a   *)
(* whole document.                                                         *)
THEOREM FileWhole == Spec => []AlwaysWhole
<1>1. WholeInv => AlwaysWhole
  BY DEF WholeInv, DumpInv, AlwaysWhole
<1> QED
  BY <1>1, WholeInit, WholeStep, PTL DEF Spec

-----------------------------------------------------------------------------
(* One program: what a save that began alone wrote, or something newer, is *)
(* in the file, in memory, with the load that is under way and in every    *)
(* dump that will replace the file, unless a bare default took its place;  *)
(* while such a save is under way its backend does not change, so a dump   *)
(* that has visited its subtree holds the same.                            *)
Single == \A p, q \in Programs : p = q

(* A subtree of b that may be written.                                     *)
Fresh(b, v) == v = Bare \/ (kept[b] <= v /\ v <= changes)

KeptInv ==
  /\ \A b \in Backends : kept[b] <= changes /\ Fresh(b, file[b])
  /\ \A p \in Programs, b \in Backends :
       /\ Fresh(b, values[p][b])
       /\ pc[<<p, b>>] = "load" => Fresh(b, found[<<p, b>>])
  /\ \A t \in Threads, b \in Backends : Visited(t, b) => Fresh(b, temp[t][b])

AloneInv ==
  \A p \in Programs, b \in Backends :
    <<p, b>> \in alone /\ pc[<<p, b>>] \in {"dump", "replace"} =>
      \A t \in Threads : Visited(t, b) => temp[t][b] = values[p][b]

QuietInv == WholeInv /\ KeptInv /\ AloneInv

LEMMA QuietInit == Init => QuietInv
<1> SUFFICES ASSUME Init PROVE QuietInv
  OBVIOUS
<1>1. KeptInv
  BY NType DEF Init, KeptInv, Fresh, Visited, Threads
<1>2. AloneInv
  BY DEF Init, AloneInv
<1> QED
  BY <1>1, <1>2, WholeInit DEF QuietInv

(* The values of the variables, as numbers.                                *)
LEMMA Numbers ==
  ASSUME WholeInv
  PROVE  /\ changes \in Nat
         /\ \A b \in Backends : kept[b] \in Nat /\ file[b] \in Nat
         /\ \A p \in Programs, b \in Backends : values[p][b] \in Nat /\ found[<<p, b>>] \in Nat
         /\ \A t \in Threads, b \in Backends : Visited(t, b) => temp[t][b] \in Nat
<1> USE NType
<1>1. changes \in Nat
  BY DEF WholeInv, TypeOK
<1>2. \A b \in Backends : kept[b] \in Nat /\ file[b] \in Nat
  BY DEF WholeInv, TypeOK, DumpInv, Doc, Bare
<1>3. \A p \in Programs, b \in Backends : values[p][b] \in Nat /\ found[<<p, b>>] \in Nat
  BY DEF WholeInv, TypeOK, Doc, Threads, Bare
<1>4. \A t \in Threads, b \in Backends : Visited(t, b) => temp[t][b] \in Nat
  BY DEF WholeInv, DumpInv, Bare
<1> QED
  BY <1>1, <1>2, <1>3, <1>4

LEMMA QuietStep ==
  ASSUME Single, QuietInv, [Next]_vars
  PROVE  QuietInv'
<1>1. WholeInv /\ WholeInv' /\ KeptInv /\ AloneInv
  BY WholeStep DEF QuietInv
<1>2. CASE UNCHANGED vars
  <2>1. KeptInv'
    BY <1>1, <1>2 DEF vars, history, KeptInv, Fresh, Visited
  <2>2. AloneInv'
    BY <1>1, <1>2 DEF vars, history, AloneInv, Visited
  <2> QED
    BY <1>1, <2>1, <2>2 DEF QuietInv
<1>3. ASSUME NEW p \in Programs, Restart(p) PROVE KeptInv' /\ AloneInv'
  <2>1. \A t \in Threads : pc'[t] = "off"
    BY <1>1, <1>3 DEF Restart, Threads, Single, WholeInv, TypeOK
  <2>2. \A q \in Programs : values'[q] = file
    BY <1>1, <1>3 DEF Restart, Single, WholeInv, TypeOK
  <2>3. KeptInv'
    BY <1>1, <1>3, <2>1, <2>2 DEF Restart, history, KeptInv, Fresh, Visited, Threads
  <2>4. AloneInv'
    BY <2>1 DEF AloneInv, Threads
  <2> QED
    BY <2>3, <2>4
<1>4. ASSUME NEW p \in Programs, NEW b \in Backends, Change(p, b) PROVE KeptInv' /\ AloneInv'
  <2>1. /\ pc[<<p, b>>] = "idle" /\ changes' = changes + 1
        /\ UNCHANGED <<file, pc, found, next, temp, alone, kept>>
    BY <1>4 DEF Change, history
  <2>2. \A q \in Programs, c \in Backends :
          values'[q][c] = IF c = b THEN changes + 1 ELSE values[q][c]
    BY <1>1, <1>4 DEF Change, Single, WholeInv, TypeOK, Doc
  <2>3. KeptInv'
    BY <1>1, <2>1, <2>2, Numbers DEF KeptInv, Fresh, Visited
  <2>4. AloneInv'
    BY <1>1, <2>1, <2>2 DEF AloneInv, Visited, Single
  <2> QED
    BY <2>3, <2>4
<1>9. ASSUME NEW p \in Programs, NEW b \in Backends, StartLoad(p, b) \/ EndLoad(p, b)
      PROVE  KeptInv' /\ AloneInv'
  <2>1. PICK t \in Threads : t = <<p, b>>
    BY DEF Threads
  <2>2. /\ pc[t] \notin {"dump", "replace"} /\ \E place \in {"load", "idle"} : pc' = [pc EXCEPT ![t] = place]
        /\ UNCHANGED <<file, next, temp, changes, alone, kept>>
    BY <1>9, <2>1 DEF StartLoad, EndLoad, history
  <2>3. /\ pc \in [Threads -> {"off", "load", "idle", "dump", "replace"}]
        /\ found \in [Threads -> 0..Bare] /\ values \in [Programs -> Doc]
    BY <1>1 DEF WholeInv, TypeOK
  <2>4. \A u \in Threads, c \in Backends : Visited(u, c)' <=> Visited(u, c)
    BY <2>2, <2>3 DEF Visited
  <2>5. \A q \in Programs, c \in Backends :
          IF c # b THEN values'[q][c] = values[q][c]
          ELSE values'[q][c] = IF StartLoad(p, b) THEN Bare ELSE found[t]
    BY <1>9, <2>1, <2>3 DEF StartLoad, EndLoad, Single, Doc
  <2>6. EndLoad(p, b) => pc[t] = "load"
    BY <2>1 DEF EndLoad
  <2>7. \A q \in Programs, c \in Backends : Fresh(c, values'[q][c])
    BY ZenonT(60), <1>1, <1>9, <2>1, <2>5, <2>6 DEF KeptInv, Fresh
  <2>8. ASSUME NEW q \in Programs, NEW c \in Backends, pc'[<<q, c>>] = "load"
        PROVE  Fresh(c, found'[<<q, c>>])
    <3>1. PICK u \in Threads : u = <<q, c>>
      BY DEF Threads
    <3>2. CASE u # t
      <4>1. pc[u] = "load" /\ found'[u] = found[u]
        BY <1>9, <2>1, <2>2, <2>3, <2>8, <3>1, <3>2 DEF StartLoad, EndLoad
      <4> QED
        BY <1>1, <3>1, <4>1 DEF KeptInv
    <3>3. CASE u = t
      <4>1. StartLoad(p, b) /\ c = b /\ q = p
        BY <1>9, <2>1, <2>3, <2>8, <3>1, <3>3 DEF EndLoad
      <4>2. found'[u] = values[p][b]
        BY <2>1, <2>3, <3>3, <4>1 DEF StartLoad
      <4> QED
        BY <1>1, <3>1, <4>1, <4>2 DEF KeptInv
    <3> QED
      BY <3>2, <3>3
  <2>9. KeptInv'
    BY <1>1, <2>2, <2>4, <2>7, <2>8 DEF KeptInv, Fresh
  <2>10. \A q \in Programs, c \in Backends :
           pc'[<<q, c>>] \in {"dump", "replace"} => c # b /\ pc[<<q, c>>] \in {"dump", "replace"}
    <3> SUFFICES ASSUME NEW q \in Programs, NEW c \in Backends, pc'[<<q, c>>] \in {"dump", "replace"}
                 PROVE  c # b /\ pc[<<q, c>>] \in {"dump", "replace"}
      OBVIOUS
    <3>1. PICK u \in Threads : u = <<q, c>>
      BY DEF Threads
    <3>2. u # t /\ pc'[u] = pc[u]
      BY <2>2, <2>3, <3>1
    <3>3. q = p
      BY DEF Single
    <3> QED
      BY <2>1, <3>1, <3>2, <3>3
  <2>11. AloneInv'
    BY <1>1, <2>2, <2>4, <2>5, <2>10 DEF AloneInv
  <2> QED
    BY <2>9, <2>11
<1>5. ASSUME NEW p \in Programs, NEW b \in Backends, Save(p, b) PROVE KeptInv' /\ AloneInv'
  <2>1. PICK t \in Threads : t = <<p, b>>
    BY DEF Threads
  <2>2. /\ pc[t] = "idle" /\ pc' = [pc EXCEPT ![t] = "dump"]
        /\ next' = [next EXCEPT ![t] = 1] /\ temp' = [temp EXCEPT ![t] = Empty]
        /\ alone' = IF Saving = {} THEN alone \cup {t} ELSE alone \ {t}
        /\ UNCHANGED <<file, values, found, changes, kept>>
    BY <1>5, <2>1 DEF Save
  <2>3. \A u \in Threads, c \in Backends :
          Visited(u, c)' => Visited(u, c) /\ u # t /\ temp'[u] = temp[u]
    BY <1>1, <2>1, <2>2 DEF Visited, WholeInv, TypeOK, Backends
  <2>4. KeptInv'
    <3>1. \A q \in Programs, c \in Backends : pc'[<<q, c>>] = "load" => pc[<<q, c>>] = "load"
      <4> SUFFICES ASSUME NEW u \in Threads PROVE pc'[u] = "load" => pc[u] = "load"
        BY DEF Threads
      <4> QED
        BY <1>1, <2>2 DEF WholeInv, TypeOK
    <3> QED
      BY <1>1, <2>2, <2>3, <3>1 DEF KeptInv, Fresh
  <2>5. ASSUME NEW q \in Programs, NEW c \in Backends,
               <<q, c>> \in alone', pc'[<<q, c>>] \in {"dump", "replace"},
               NEW u \in Threads, Visited(u, c)'
        PROVE  temp'[u][c] = values'[q][c]
    <3>1. u \in Saving
      BY <2>3, <2>5 DEF Visited, Saving
    <3>2. <<q, c>> \in alone /\ <<q, c>> # t
      BY <2>2, <2>5, <3>1
    <3>3. pc[<<q, c>>] \in {"dump", "replace"}
      BY <1>1, <2>2, <2>5, <3>2 DEF WholeInv, TypeOK
    <3> QED
      BY <1>1, <2>2, <2>3, <2>5, <3>2, <3>3 DEF AloneInv
  <2> QED
    BY <2>4, <2>5 DEF AloneInv
<1>6. ASSUME NEW p \in Programs, NEW b \in Backends, Dump(p, b) PROVE KeptInv' /\ AloneInv'
  <2>1. PICK t \in Threads : t = <<p, b>>
    BY DEF Threads
  <2>2. /\ pc[t] = "dump"
        /\ temp' = [temp EXCEPT ![t] = [temp[t] EXCEPT ![next[t]] = values[p][next[t]]]]
        /\ next' = [next EXCEPT ![t] = next[t] + 1]
        /\ pc' = [pc EXCEPT ![t] = IF next[t] = N THEN "replace" ELSE "dump"]
        /\ UNCHANGED <<file, values, found, changes, alone, kept>>
    BY <1>6, <2>1 DEF Dump, history
  <2>3. next[t] \in Backends
    BY <1>1, <2>1, <2>2, NType DEF WholeInv, TypeOK, DumpInv, Backends
  <2>4. temp[t] \in [Backends -> 0..Missing]
    BY <1>1 DEF WholeInv, TypeOK
  <2>5. ASSUME NEW u \in Threads, NEW c \in Backends, Visited(u, c)'
        PROVE  \/ Visited(u, c) /\ temp'[u][c] = temp[u][c]
               \/ temp'[u][c] = values[p][c]
    <3>1. CASE u # t
      BY <1>1, <2>2, <2>5, <3>1 DEF Visited, WholeInv, TypeOK
    <3>2. CASE u = t /\ c = next[t]
      BY <1>1, <2>2, <2>3, <2>4, <3>2 DEF WholeInv, TypeOK
    <3>3. CASE u = t /\ c # next[t]
      <4>1. Visited(t, c)
        <5> DEFINE n == next[t]
        <5>1. n \in 1..N /\ c \in 1..N /\ c # n
          BY <2>3, <3>3 DEF Backends
        <5>2. /\ next'[t] = n + 1
              /\ pc'[t] = IF n = N THEN "replace" ELSE "dump"
          BY <1>1, <2>2 DEF WholeInv, TypeOK
        <5>3. pc'[t] = "replace" \/ c < next'[t]
          BY <2>5, <3>3 DEF Visited
        <5> HIDE DEF n
        <5>4. c < n
          BY <5>1, <5>2, <5>3, NType
        <5> QED
          BY <2>2, <5>4 DEF Visited, n
      <4>2. temp'[t][c] = temp[t][c]
        BY <1>1, <2>2, <2>3, <2>4, <3>3 DEF WholeInv, TypeOK
      <4> QED
        BY <3>3, <4>1, <4>2
    <3> QED
      BY <3>1, <3>2, <3>3
  <2>7. ASSUME NEW q \in Programs, NEW c \in Backends
        PROVE  /\ pc'[<<q, c>>] \in {"dump", "replace"} => pc[<<q, c>>] \in {"dump", "replace"}
               /\ pc'[<<q, c>>] = "load" => pc[<<q, c>>] = "load"
    <3>1. PICK u \in Threads : u = <<q, c>>
      BY DEF Threads
    <3>2. /\ pc'[u] \in {"dump", "replace"} => pc[u] \in {"dump", "replace"}
          /\ pc'[u] = "load" => pc[u] = "load"
      BY <1>1, <2>2 DEF WholeInv, TypeOK
    <3> QED
      BY <3>1, <3>2
  <2>6. KeptInv'
    <3>2. \A q \in Programs, c \in Backends :
            /\ Fresh(c, values[q][c])'
            /\ pc'[<<q, c>>] = "load" => Fresh(c, found[<<q, c>>])'
      BY <1>1, <2>2, <2>7 DEF KeptInv, Fresh
    <3>3. ASSUME NEW u \in Threads, NEW c \in Backends, Visited(u, c)'
          PROVE  Fresh(c, temp[u][c])'
      <4>1. Fresh(c, temp'[u][c])
        <5>1. CASE Visited(u, c) /\ temp'[u][c] = temp[u][c]
          BY <1>1, <5>1 DEF KeptInv
        <5>2. CASE temp'[u][c] = values[p][c]
          BY <1>1, <5>2 DEF KeptInv
        <5> QED
          BY <2>5, <3>3, <5>1, <5>2
      <4> QED
        BY <2>2, <4>1 DEF Fresh
    <3> QED
      BY <1>1, <2>2, <3>2, <3>3 DEF KeptInv, Fresh
  <2>8. AloneInv'
    BY <1>1, <2>2, <2>5, <2>7 DEF AloneInv, Single
  <2> QED
    BY <2>6, <2>8
<1>7. ASSUME NEW p \in Programs, NEW b \in Backends, DumpFails(p, b) PROVE KeptInv' /\ AloneInv'
  <2>1. /\ pc' = [pc EXCEPT ![<<p, b>>] = "idle"]
        /\ UNCHANGED <<file, values, found, next, temp, changes, alone, kept>>
    BY <1>7 DEF DumpFails, history
  <2>2. \A u \in Threads, c \in Backends : Visited(u, c)' => Visited(u, c)
    BY <1>1, <2>1 DEF Visited, WholeInv, TypeOK
  <2>3. \A q \in Programs, c \in Backends :
          /\ pc'[<<q, c>>] \in {"dump", "replace"} => pc[<<q, c>>] \in {"dump", "replace"}
          /\ pc'[<<q, c>>] = "load" => pc[<<q, c>>] = "load"
    BY <1>1, <2>1 DEF WholeInv, TypeOK, Threads
  <2> QED
    BY <1>1, <2>1, <2>2, <2>3 DEF KeptInv, Fresh, AloneInv
<1>8. ASSUME NEW p \in Programs, NEW b \in Backends, Replace(p, b) PROVE KeptInv' /\ AloneInv'
  <2>1. PICK t \in Threads : t = <<p, b>>
    BY DEF Threads
  <2>2. /\ pc[t] = "replace" /\ file' = temp[t]
        /\ pc' = [pc EXCEPT ![t] = "idle"]
        /\ kept' = IF t \in alone /\ temp[t][b] # Bare
                   THEN [kept EXCEPT ![b] = temp[t][b]] ELSE kept
        /\ UNCHANGED <<values, found, next, temp, changes, alone>>
    BY <1>8, <2>1 DEF Replace
  <2>3. \A u \in Threads, c \in Backends : Visited(u, c)' => Visited(u, c)
    BY <1>1, <2>2 DEF Visited, WholeInv, TypeOK
  <2>4. \A c \in Backends : Visited(t, c)
    BY <2>2 DEF Visited
  <2>5. ASSUME NEW c \in Backends
        PROVE  \/ kept'[c] = kept[c]
               \/ c = b /\ t \in alone /\ kept'[c] = values[p][b] /\ values[p][b] # Bare
    <3>1. CASE t \in alone /\ c = b /\ temp[t][b] # Bare
      <4>1. temp[t][b] = values[p][b]
        BY <1>1, <2>1, <2>2, <2>4, <3>1 DEF AloneInv
      <4>2. kept'[b] = temp[t][b]
        BY <1>1, <2>2, <3>1 DEF WholeInv, TypeOK, Doc
      <4> QED
        BY <3>1, <4>1, <4>2
    <3>2. CASE t \in alone /\ c # b
      BY <1>1, <2>2, <3>2 DEF WholeInv, TypeOK, Doc
    <3>3. CASE t \notin alone \/ temp[t][b] = Bare
      BY <2>2, <3>3
    <3> QED
      BY <3>1, <3>2, <3>3
  <2>6. ASSUME t \in alone, NEW u \in Threads, Visited(u, b)
        PROVE  temp[u][b] = values[p][b]
    BY <1>1, <2>1, <2>2, <2>6 DEF AloneInv
  <2>7. KeptInv'
    <3>1. ASSUME NEW c \in Backends PROVE kept'[c] <= changes' /\ Fresh(c, file[c])' /\ temp[t][c] \in Nat
      <4>1. Fresh(c, temp[t][c]) /\ kept[c] <= changes /\ temp[t][c] \in Nat
        BY <1>1, <2>4, Numbers DEF KeptInv
      <4>2. CASE kept'[c] = kept[c]
        BY <2>2, <4>1, <4>2 DEF Fresh
      <4>3. CASE c = b /\ t \in alone /\ kept'[c] = values[p][b] /\ values[p][b] # Bare
        <5>1. temp[t][c] = values[p][b]
          BY <2>4, <2>6, <4>3
        <5> QED
          BY <2>2, <4>1, <4>3, <5>1 DEF Fresh
      <4> QED
        BY <2>5, <4>2, <4>3
    <3>2. ASSUME NEW q \in Programs, NEW c \in Backends
          PROVE  /\ Fresh(c, values[q][c])'
                 /\ pc'[<<q, c>>] = "load" => Fresh(c, found[<<q, c>>])'
      <4>0. q = p /\ values[q][c] \in Nat /\ found[<<q, c>>] \in Nat /\ changes \in Nat
        BY <1>1, Numbers DEF Single
      <4>1. /\ Fresh(c, values[q][c])
            /\ pc'[<<q, c>>] = "load" => pc[<<q, c>>] = "load" /\ Fresh(c, found[<<q, c>>]) /\ <<q, c>> # t
        <5>1. pc'[<<q, c>>] = "load" => pc[<<q, c>>] = "load" /\ <<q, c>> # t
          BY <1>1, <2>1, <2>2 DEF WholeInv, TypeOK, Threads
        <5> QED
          BY <1>1, <5>1 DEF KeptInv
      <4>2. CASE kept'[c] = kept[c]
        BY <2>2, <4>1, <4>2 DEF Fresh
      <4>3. CASE c = b /\ t \in alone /\ kept'[c] = values[p][b] /\ values[p][b] # Bare
        BY <2>1, <2>2, <4>0, <4>1, <4>3 DEF Fresh
      <4> QED
        BY <2>5, <4>2, <4>3
    <3>3. ASSUME NEW u \in Threads, NEW c \in Backends, Visited(u, c)' PROVE Fresh(c, temp[u][c])'
      <4>1. Visited(u, c) /\ Fresh(c, temp[u][c]) /\ temp[u][c] \in Nat
        BY <1>1, <2>3, <3>3, Numbers DEF KeptInv
      <4>2. CASE kept'[c] = kept[c]
        BY <2>2, <4>1, <4>2 DEF Fresh
      <4>3. CASE c = b /\ t \in alone /\ kept'[c] = values[p][b] /\ values[p][b] # Bare
        <5>1. temp[u][c] = values[p][b]
          BY <2>6, <4>1, <4>3
        <5> QED
          BY <2>2, <4>1, <4>3, <5>1 DEF Fresh
      <4> QED
        BY <2>5, <4>2, <4>3
    <3> QED
      BY <3>1, <3>2, <3>3 DEF KeptInv
  <2>8. \A q \in Programs, c \in Backends :
          pc'[<<q, c>>] \in {"dump", "replace"} => pc[<<q, c>>] \in {"dump", "replace"}
    BY <1>1, <2>1, <2>2 DEF WholeInv, TypeOK, Threads
  <2>9. AloneInv'
    BY <1>1, <2>2, <2>3, <2>8 DEF AloneInv
  <2> QED
    BY <2>7, <2>9
<1> QED
  BY <1>1, <1>2, <1>3, <1>4, <1>5, <1>6, <1>7, <1>8, <1>9 DEF Next, QuietInv

(* With one program, a save that began while no other was under way is     *)
(* never undone by an older state, however the program is killed and       *)
(* whoever loads and saves later.                                          *)
THEOREM QuietKept ==
  ASSUME Single
  PROVE  Spec => []QuietSaveKept
<1>1. QuietInv => QuietSaveKept
  <2> SUFFICES ASSUME QuietInv PROVE QuietSaveKept
    OBVIOUS
  <2>1. \A b \in Backends : kept[b] \in Nat /\ file[b] \in Nat /\ Fresh(b, file[b])
    BY Numbers DEF QuietInv, KeptInv
  <2> QED
    BY <2>1 DEF QuietSaveKept, Fresh
<1>2. QuietInv /\ [Next]_vars => QuietInv'
  BY QuietStep
<1> QED
  BY <1>1, <1>2, QuietInit, PTL DEF Spec
=============================================================================
