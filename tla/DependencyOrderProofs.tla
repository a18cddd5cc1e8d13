------------------------ MODULE DependencyOrderProofs ------------------------
(***************************************************************************)
(* Proofs about DependencyOrder, for every graph of dependencies: what     *)
(* recursive_deps() finds, what the growing list ends with, and the order  *)
(* that the moves of the values leave.                                     *)
(***************************************************************************)
EXTENDS DependencyOrder, FiniteSetTheorems, SequenceTheorems, WellFoundedInduction, TLAPS

Graph == dependencies \in [Modules -> SUBSET Modules]

(* What was asked for is there.                                            *)
GraphInv ==
  /\ Graph
  /\ available \in SUBSET Modules /\ requested \in SUBSET available

(* The list has what is requested and only what is needed and available;   *)
(* what was read of it is in the dict, and its dependencies are in it too. *)
CollectInv ==
  /\ requested \subseteq ToSet(modules) /\ ToSet(modules) \subseteq Needed \cap available
  /\ Keys = {modules[j] : j \in 1..i - 1}
  /\ \A j \in 1..i - 1 : dependencies[modules[j]] \subseteq ToSet(modules)

PlaceInv ==
  /\ pc = "collect" => k = 1
  /\ pc \in {"sort", "done"} => i > Len(modules)
  /\ pc = "missing" => ~ Needed \subseteq available
  /\ pc # "assertion"
  /\ pc = "done" => k > Len(direct_deps)

(* Before the place b of a comes what a depends on, but those that depend  *)
(* on a in turn.                                                           *)
After(list, a) ==
  \A b, c \in DOMAIN list :
    list[b] = a /\ list[c] \in Reach[a] /\ a \notin Reach[list[c]] => c < b

(* The result has the keys, each once; those that were moved are in order. *)
SortInv ==
  pc \in {"sort", "done"} =>
    /\ ToSet(result) = Keys /\ IsInjective(result)
    /\ \A j \in 1..k - 1 : After(result, direct_deps[j])

IInv == GraphInv /\ TypeOK /\ CollectInv /\ PlaceInv /\ SortInv
-----------------------------------------------------------------------------
(* recursive_deps(): the least set that has found and subs, and what its   *)
(* modules out of found depend on.                                         *)
Closed(subs, found) ==
  {d \in Modules : \A F \in SUBSET Modules :
     found \subseteq F /\ subs \subseteq F /\ (\A e \in F \ found : dependencies[e] \subseteq F) => d \in F}

Pairs == (SUBSET Modules) \X (SUBSET Modules)

Body(f, subs, found) ==
  LET sub == CHOOSE s \in subs : TRUE
  IN  IF subs = {} THEN found
      ELSE f[<<subs \ {sub}, IF sub \in found THEN found ELSE f[<<dependencies[sub], found \cup {sub}>>]>>]

LEMMA FoundDef ==
  ASSUME NEW g, g = [p \in Pairs |-> Body(g, p[1], p[2])]
  PROVE  Found = [p \in Pairs |-> Body(Found, p[1], p[2])]
<1> DEFINE P(f) == f = [p \in Pairs |-> Body(f, p[1], p[2])]
<1>1. Found = CHOOSE f : P(f)
  BY DEF Found, Body, Pairs
<1>2. P(g)
  OBVIOUS
<1> HIDE DEF P
<1>3. P(CHOOSE f : P(f))
  BY <1>2
<1>4. P(Found)
  BY <1>1, <1>3
<1> QED  BY <1>4 DEF P

LEMMA Apply ==
  ASSUME NEW g, g = [p \in Pairs |-> Body(g, p[1], p[2])],
         NEW subs \in SUBSET Modules, NEW found \in SUBSET Modules
  PROVE  g[<<subs, found>>] = Body(g, subs, found)
<1> DEFINE q == <<subs, found>>
<1>1. q \in Pairs /\ q[1] = subs /\ q[2] = found
  BY DEF Pairs
<1> HIDE DEF q
<1>2. g[q] = Body(g, q[1], q[2])
  BY <1>1
<1> QED  BY <1>1, <1>2 DEF q

LEMMA LeastExists ==
  ASSUME NEW S \in SUBSET Nat, S # {}
  PROVE  \E e \in S : \A f \in S : e <= f
<1> DEFINE R == OpToRel(<, Nat)
<1>1. IsWellFoundedOn(R, Nat)
  BY NatLessThanWellFounded
<1>2. \A a, b \in Nat : <<a, b>> \in R <=> a < b
  BY DEF OpToRel
<1> HIDE DEF R
<1>3. PICK e \in S : \A f \in S : ~(<<f, e>> \in R)
  BY <1>1, WFMin
<1>4. \A f \in S : e <= f
  <2> TAKE f \in S
  <2>1. ~(f < e)
    BY <1>2, <1>3
  <2> QED  BY <2>1
<1> QED  BY <1>4

LEMMA ClosedIsLeast ==
  ASSUME Graph, NEW subs \in SUBSET Modules, NEW found \in SUBSET Modules
  PROVE  LET C == Closed(subs, found) IN
         /\ C \in SUBSET Modules /\ found \subseteq C /\ subs \subseteq C
         /\ \A e \in C \ found : dependencies[e] \subseteq C
         /\ \A F \in SUBSET Modules :
              found \subseteq F /\ subs \subseteq F /\ (\A e \in F \ found : dependencies[e] \subseteq F)
              => C \subseteq F
<1>1. \A e \in Modules : dependencies[e] \subseteq Modules
  BY DEF Graph
<1> QED  BY <1>1 DEF Closed

LEMMA ClosedOfNone ==
  ASSUME Graph, NEW found \in SUBSET Modules
  PROVE  Closed({}, found) = found
<1>1. Closed({}, found) \subseteq found
  BY ClosedIsLeast
<1> QED  BY <1>1, ClosedIsLeast

LEMMA ClosedAfter ==
  ASSUME Graph, NEW subs \in SUBSET Modules, NEW found \in SUBSET Modules, NEW s \in subs,
         NEW F \in SUBSET Modules, found \subseteq F, s \in F, F \subseteq Closed(subs, found),
         \A e \in F \ found : dependencies[e] \subseteq F
  PROVE  Closed(subs \ {s}, F) = Closed(subs, found)
<1> DEFINE C == Closed(subs, found)
           rest == subs \ {s}
           D == Closed(rest, F)
<1>1. rest \in SUBSET Modules /\ subs \subseteq rest \cup {s}
  OBVIOUS
<1>2. /\ C \in SUBSET Modules /\ found \subseteq C /\ subs \subseteq C
      /\ \A e \in C \ found : dependencies[e] \subseteq C
  BY ClosedIsLeast
<1>3. /\ D \in SUBSET Modules /\ F \subseteq D /\ rest \subseteq D
      /\ \A e \in D \ F : dependencies[e] \subseteq D
  <2> HIDE DEF rest
  <2> QED  BY <1>1, ClosedIsLeast
<1>4. D \subseteq C
  <2>1. /\ F \subseteq C /\ rest \subseteq C /\ \A e \in C \ F : dependencies[e] \subseteq C
    BY <1>2
  <2> HIDE DEF C, rest
  <2> QED  BY <2>1, <1>1, <1>2, ClosedIsLeast
<1>5. C \subseteq D
  <2>1. /\ found \subseteq D /\ subs \subseteq D /\ \A e \in D \ found : dependencies[e] \subseteq D
    BY <1>3
  <2> HIDE DEF D
  <2> QED  BY <2>1, <1>3, ClosedIsLeast
<1> QED  BY <1>4, <1>5

LEMMA ClosedNext ==   \* s is already found
  ASSUME Graph, NEW subs \in SUBSET Modules, NEW found \in SUBSET Modules, NEW s \in subs, s \in found
  PROVE  Closed(subs \ {s}, found) = Closed(subs, found)
<1>1. found \subseteq Closed(subs, found)
  BY ClosedIsLeast
<1> QED  BY <1>1, ClosedAfter

LEMMA ClosedInside ==   \* s is found now, and what it depends on
  ASSUME Graph, NEW subs \in SUBSET Modules, NEW found \in SUBSET Modules, NEW s \in subs, s \notin found
  PROVE  LET F == Closed(dependencies[s], found \cup {s}) IN
         F \in SUBSET Modules /\ found \subseteq F /\ s \in F /\ Closed(subs \ {s}, F) = Closed(subs, found)
<1> DEFINE a == dependencies[s]
           b == found \cup {s}
           F == Closed(a, b)
           C == Closed(subs, found)
<1>1. a \in SUBSET Modules /\ b \in SUBSET Modules
  BY DEF Graph
<1>2. /\ F \in SUBSET Modules /\ b \subseteq F /\ a \subseteq F
      /\ \A e \in F \ b : dependencies[e] \subseteq F
  <2> HIDE DEF a, b
  <2> QED  BY <1>1, ClosedIsLeast
<1>3. F \subseteq C
  <2>1. /\ C \in SUBSET Modules /\ found \subseteq C /\ subs \subseteq C
        /\ \A e \in C \ found : dependencies[e] \subseteq C
    BY ClosedIsLeast
  <2>2. b \subseteq C /\ a \subseteq C /\ \A e \in C \ b : dependencies[e] \subseteq C
    BY <2>1
  <2> HIDE DEF a, b, C
  <2> QED  BY <1>1, <2>1, <2>2, ClosedIsLeast
<1>4. found \subseteq F /\ s \in F /\ \A e \in F \ found : dependencies[e] \subseteq F
  BY <1>2
<1>5. Closed(subs \ {s}, F) = Closed(subs, found)
  <2> HIDE DEF F
  <2> QED  BY <1>2, <1>3, <1>4, ClosedAfter
<1> QED  BY <1>2, <1>4, <1>5

(* Such a function is there, so Found is one.                              *)
LEMMA FoundExists ==
  ASSUME Graph
  PROVE  Found = [p \in Pairs |-> Body(Found, p[1], p[2])]
<1> DEFINE g == [p \in Pairs |-> Closed(p[1], p[2])]
<1>1. ASSUME NEW p \in Pairs  PROVE Closed(p[1], p[2]) = Body(g, p[1], p[2])
  <2> DEFINE subs == p[1]
             found == p[2]
             s == CHOOSE x \in subs : TRUE
             F == IF s \in found THEN found ELSE Closed(dependencies[s], found \cup {s})
  <2>1. subs \in SUBSET Modules /\ found \in SUBSET Modules
    BY DEF Pairs
  <2>2. \A a, b \in SUBSET Modules : g[<<a, b>>] = Closed(a, b)
    <3> SUFFICES ASSUME NEW a \in SUBSET Modules, NEW b \in SUBSET Modules
                 PROVE  g[<<a, b>>] = Closed(a, b)
      OBVIOUS
    <3> DEFINE q == <<a, b>>
    <3>1. q \in Pairs /\ q[1] = a /\ q[2] = b
      BY DEF Pairs
    <3> HIDE DEF q
    <3>2. g[q] = Closed(q[1], q[2])
      BY <3>1
    <3> QED  BY <3>1, <3>2 DEF q
  <2> HIDE DEF g
  <2>3. CASE subs = {}
    BY <2>1, <2>3, ClosedOfNone DEF Body
  <2>4. CASE subs # {}
    <3>1. s \in subs
      BY <2>4
    <3>2. dependencies[s] \in SUBSET Modules /\ found \cup {s} \in SUBSET Modules
      BY <2>1, <3>1 DEF Graph
    <3>3. F \in SUBSET Modules /\ Closed(subs \ {s}, F) = Closed(subs, found)
      <4> HIDE DEF s, subs, found
      <4>1. CASE s \in found
        BY <4>1, <2>1, <3>1, ClosedNext
      <4>2. CASE s \notin found
        BY ZenonT(60), <4>2, <2>1, <3>1, ClosedInside
      <4> QED  BY <4>1, <4>2
    <3>4. Body(g, subs, found) = g[<<subs \ {s}, F>>]
      <4>1. s \notin found => g[<<dependencies[s], found \cup {s}>>] = Closed(dependencies[s], found \cup {s})
        BY <3>2, <2>2
      <4> QED  BY <2>4, <4>1 DEF Body
    <3>5. subs \ {s} \in SUBSET Modules
      BY <2>1
    <3> HIDE DEF F
    <3>6. g[<<subs \ {s}, F>>] = Closed(subs \ {s}, F)
      BY <3>3, <3>5, <2>2
    <3> QED  BY <3>3, <3>4, <3>6
  <2> QED  BY <2>3, <2>4
<1>2. g = [p \in Pairs |-> Body(g, p[1], p[2])]
  <2> DEFINE h == [p \in Pairs |-> Body(g, p[1], p[2])]
  <2>1. \A p \in Pairs : g[p] = h[p]
    <3> SUFFICES ASSUME NEW p \in Pairs PROVE g[p] = h[p]
      OBVIOUS
    <3>1. Closed(p[1], p[2]) = Body(g, p[1], p[2])
      BY <1>1
    <3>2. g[p] = Closed(p[1], p[2])
      OBVIOUS
    <3> HIDE DEF g
    <3>3. h[p] = Body(g, p[1], p[2])
      OBVIOUS
    <3> QED  BY <3>1, <3>2, <3>3
  <2>2. g = [p \in Pairs |-> g[p]] /\ h = [p \in Pairs |-> h[p]]
    OBVIOUS
  <2> HIDE DEF g, h
  <2>3. g = h
    BY <2>1, <2>2
  <2> QED  BY <2>3 DEF h
<1> HIDE DEF g
<1> QED  BY <1>2, FoundDef

LEMMA Sizes ==
  /\ IsFiniteSet(Modules)
  /\ \A S \in SUBSET Modules : IsFiniteSet(S) /\ Cardinality(S) \in Nat
  /\ \A S, T \in SUBSET Modules : \A x \in T \ S : S \subseteq T => Cardinality(S) < Cardinality(T)
<1>1. IsFiniteSet(Modules)
  BY OrderAssumption
<1>2. \A S \in SUBSET Modules : IsFiniteSet(S) /\ Cardinality(S) \in Nat
  BY <1>1, FS_Subset, FS_CardinalityType
<1>3. ASSUME NEW S \in SUBSET Modules, NEW T \in SUBSET Modules, NEW x \in T \ S, S \subseteq T
      PROVE  Cardinality(S) < Cardinality(T)
  <2>1. IsFiniteSet(T) /\ Cardinality(S) <= Cardinality(T) /\ Cardinality(S) # Cardinality(T)
    BY <1>2, <1>3, FS_Subset
  <2> QED  BY <2>1, <1>2
<1> QED  BY <1>1, <1>2, <1>3

(* Of the pairs where Found were another, one has the most found and, of   *)
(* those, the fewest to look at.                                           *)
LEMMA LeastPair ==
  ASSUME NEW Bad \in SUBSET Pairs, Bad # {}
  PROVE  \E p \in Bad : \A q \in Bad :
           /\ Cardinality(Modules \ p[2]) <= Cardinality(Modules \ q[2])
           /\ q[2] = p[2] => Cardinality(p[1]) <= Cardinality(q[1])
<1> DEFINE left(p) == Cardinality(Modules \ p[2])
           size(p) == Cardinality(p[1])
<1>1. \A p \in Bad : left(p) \in Nat /\ size(p) \in Nat
  <2> TAKE p \in Bad
  <2>1. p[1] \in SUBSET Modules /\ Modules \ p[2] \in SUBSET Modules
    BY DEF Pairs
  <2> QED  BY <2>1, Sizes
<1> HIDE DEF left, size
<1>2. PICK n \in {left(p) : p \in Bad} : \A f \in {left(p) : p \in Bad} : n <= f
  <2>1. {left(p) : p \in Bad} \in SUBSET Nat /\ {left(p) : p \in Bad} # {}
    BY <1>1
  <2> QED  BY <2>1, LeastExists
<1> DEFINE Least == {p \in Bad : left(p) = n}
<1>3. PICK m \in {size(p) : p \in Least} : \A f \in {size(p) : p \in Least} : m <= f
  <2>1. {size(p) : p \in Least} \in SUBSET Nat /\ {size(p) : p \in Least} # {}
    BY <1>1, <1>2
  <2> QED  BY <2>1, LeastExists
<1>4. PICK p \in Least : size(p) = m
  BY <1>3
<1>5. \A q \in Bad : left(p) <= left(q)
  BY <1>2, <1>4
<1>6. ASSUME NEW q \in Bad, q[2] = p[2]  PROVE size(p) <= size(q)
  <2>1. left(q) = left(p)
    BY <1>6 DEF left
  <2> QED  BY <2>1, <1>3, <1>4
<1> QED  BY <1>4, <1>5, <1>6 DEF left, size

LEMMA FoundIsClosed ==
  ASSUME Graph, NEW subs \in SUBSET Modules, NEW found \in SUBSET Modules
  PROVE  Found[<<subs, found>>] = Closed(subs, found)
<1> DEFINE Bad == {p \in Pairs : Found[p] # Closed(p[1], p[2])}
<1>1. ASSUME NEW a \in SUBSET Modules, NEW b \in SUBSET Modules, <<a, b>> \notin Bad
      PROVE  Found[<<a, b>>] = Closed(a, b)
  <2> DEFINE q == <<a, b>>
  <2>1. q \in Pairs /\ q[1] = a /\ q[2] = b
    BY DEF Pairs
  <2>2. q \notin Bad
    BY <1>1
  <2> HIDE DEF q
  <2>3. Found[q] = Closed(q[1], q[2])
    BY <2>1, <2>2
  <2> QED  BY <2>1, <2>3 DEF q
<1>2. ASSUME Bad # {}  PROVE FALSE
  <2>1. PICK p \in Bad : \A q \in Bad :
           /\ Cardinality(Modules \ p[2]) <= Cardinality(Modules \ q[2])
           /\ q[2] = p[2] => Cardinality(p[1]) <= Cardinality(q[1])
    <3>1. Bad \in SUBSET Pairs
      OBVIOUS
    <3> HIDE DEF Bad
    <3> QED  BY <3>1, <1>2, LeastPair
  <2> DEFINE a == p[1]
             b == p[2]
             s == CHOOSE x \in a : TRUE
  <2>2. p \in Pairs /\ Found[p] # Closed(a, b) /\ a \in SUBSET Modules /\ b \in SUBSET Modules
    BY DEF Pairs
  <2>3. Found[p] = Body(Found, a, b)
    BY <2>2, FoundExists
  <2> HIDE DEF Bad
  <2>4. ASSUME NEW c \in SUBSET Modules, NEW d \in SUBSET Modules,
               \/ Cardinality(Modules \ d) < Cardinality(Modules \ b)
               \/ d = b /\ Cardinality(c) < Cardinality(a)
        PROVE  Found[<<c, d>>] = Closed(c, d)
    <3> DEFINE q == <<c, d>>
    <3>1. q[1] = c /\ q[2] = d
      OBVIOUS
    <3>2. /\ Cardinality(Modules \ d) \in Nat /\ Cardinality(Modules \ b) \in Nat
          /\ Cardinality(c) \in Nat /\ Cardinality(a) \in Nat
      <4>1. Modules \ d \in SUBSET Modules /\ Modules \ b \in SUBSET Modules
        OBVIOUS
      <4> QED  BY <4>1, <2>2, Sizes
    <3> HIDE DEF q
    <3>3. q \notin Bad
      BY <2>1, <2>4, <3>1, <3>2
    <3> QED  BY <3>3, <1>1 DEF q
  <2>5. CASE a = {}
    BY <2>2, <2>3, <2>5, ClosedOfNone DEF Body
  <2>6. CASE a # {}
    <3>1. s \in a
      BY <2>6
    <3> HIDE DEF s
    <3>2. a \ {s} \in SUBSET Modules /\ s \in Modules
      BY <2>2, <3>1
    <3>3. CASE s \in b
      <4>1. Found[p] = Found[<<a \ {s}, b>>]
        BY <2>3, <2>6, <3>3 DEF Body, s
      <4>2. Cardinality(a \ {s}) < Cardinality(a)
        BY <3>1, <3>2, <2>2, Sizes
      <4>3. Found[<<a \ {s}, b>>] = Closed(a \ {s}, b)
        BY <4>2, <3>2, <2>2, <2>4
      <4> QED  BY <4>1, <4>3, <2>2, <3>1, <3>3, ClosedNext
    <3>4. CASE s \notin b
      <4> DEFINE F == Closed(dependencies[s], b \cup {s})
      <4>1. dependencies[s] \in SUBSET Modules /\ b \cup {s} \in SUBSET Modules
        BY <2>2, <3>2 DEF Graph
      <4>2. ASSUME NEW d \in SUBSET Modules, b \subseteq d, s \in d
            PROVE  Cardinality(Modules \ d) < Cardinality(Modules \ b)
        <5>1. /\ Modules \ d \in SUBSET Modules /\ Modules \ b \in SUBSET Modules
              /\ s \in (Modules \ b) \ (Modules \ d) /\ Modules \ d \subseteq Modules \ b
          BY <4>2, <3>2, <3>4
        <5> QED  BY <5>1, Sizes
      <4>3. Found[<<dependencies[s], b \cup {s}>>] = F
        <5>1. Cardinality(Modules \ (b \cup {s})) < Cardinality(Modules \ b)
          BY <4>1, <4>2
        <5> QED  BY <4>1, <5>1, <2>4
      <4>4. Found[p] = Found[<<a \ {s}, F>>]
        BY <2>3, <2>6, <3>4, <4>3 DEF Body, s
      <4>5. F \in SUBSET Modules /\ b \subseteq F /\ s \in F /\ Closed(a \ {s}, F) = Closed(a, b)
        BY ZenonT(60), <2>2, <3>1, <3>4, ClosedInside
      <4> HIDE DEF F
      <4>6. Found[<<a \ {s}, F>>] = Closed(a \ {s}, F)
        BY <4>2, <4>5, <3>2, <2>4
      <4> QED  BY <4>4, <4>5, <4>6, <2>2
    <3> QED  BY <3>3, <3>4
  <2> QED  BY <2>5, <2>6
<1> QED  BY <1>1, <1>2

(* So recursive_deps() finds what the key depends on, directly or not.     *)
LEMMA RecursiveDepsReach ==
  ASSUME Graph, NEW key \in Modules
  PROVE  RecursiveDeps(key) = Reach[key]
<1>1. dependencies[key] \in SUBSET Modules /\ {} \in SUBSET Modules
  BY DEF Graph
<1>2. RecursiveDeps(key) = Closed(dependencies[key], {})
  BY <1>1, FoundIsClosed DEF RecursiveDeps
<1>3. Closed(dependencies[key], {}) = Reach[key]
  BY DEF Closed, Reach
<1> QED  BY <1>2, <1>3

-----------------------------------------------------------------------------
(* What is reached, and what is needed.                                    *)

LEMMA ReachIsLeast ==
  ASSUME Graph, NEW m \in Modules
  PROVE  /\ Reach[m] \in SUBSET Modules /\ dependencies[m] \subseteq Reach[m]
         /\ \A e \in Reach[m] : dependencies[e] \subseteq Reach[m]
         /\ \A S \in SUBSET Modules :
              dependencies[m] \subseteq S /\ (\A e \in S : dependencies[e] \subseteq S) => Reach[m] \subseteq S
<1>1. \A e \in Modules : dependencies[e] \subseteq Modules
  BY DEF Graph
<1>2. Reach[m] = {d \in Modules : \A S \in {T \in SUBSET Modules : \A e \in T : dependencies[e] \subseteq T} :
                    dependencies[m] \subseteq S => d \in S}
  BY DEF Reach
<1> QED  BY <1>1, <1>2

LEMMA ReachTransitive ==
  ASSUME Graph, NEW m \in Modules, NEW d \in Reach[m]
  PROVE  Reach[d] \subseteq Reach[m]
<1> DEFINE R == Reach[m]
<1>1. /\ R \in SUBSET Modules /\ d \in Modules /\ d \in R
      /\ \A e \in R : dependencies[e] \subseteq R
  BY ReachIsLeast
<1> HIDE DEF R
<1>2. Reach[d] \subseteq R
  BY <1>1, ReachIsLeast
<1> QED  BY <1>2 DEF R

LEMMA NeededIsLeast ==
  ASSUME GraphInv
  PROVE  /\ requested \subseteq Needed /\ Needed \in SUBSET Modules
         /\ \A m \in Needed : dependencies[m] \subseteq Needed
         /\ \A S \in SUBSET Modules :
              requested \subseteq S /\ (\A e \in S : dependencies[e] \subseteq S) => Needed \subseteq S
<1>1. Needed = requested \cup UNION {Reach[m] : m \in requested}
  BY DEF Needed
<1>2. Graph /\ requested \in SUBSET Modules
  BY DEF GraphInv
<1>3. requested \subseteq Needed /\ Needed \in SUBSET Modules
  BY <1>1, <1>2, ReachIsLeast
<1>4. ASSUME NEW m \in Needed  PROVE dependencies[m] \subseteq Needed
  <2>1. CASE m \in requested
    BY <2>1, <1>1, <1>2, ReachIsLeast
  <2>2. ASSUME NEW r \in requested, m \in Reach[r]  PROVE dependencies[m] \subseteq Needed
    BY <2>2, <1>1, <1>2, ReachIsLeast
  <2> QED  BY <2>1, <2>2, <1>1
<1>5. ASSUME NEW S \in SUBSET Modules, requested \subseteq S, \A e \in S : dependencies[e] \subseteq S
      PROVE  Needed \subseteq S
  <2>1. ASSUME NEW r \in requested  PROVE Reach[r] \subseteq S
    BY <1>2, <1>5, ReachIsLeast
  <2> QED  BY <2>1, <1>1, <1>5
<1> QED  BY <1>3, <1>4, <1>5

-----------------------------------------------------------------------------
(* Lists.                                                                  *)

LEMMA ListOfSet ==
  ASSUME NEW set \in SUBSET Modules, NEW s \in SetToSeqs(set)
  PROVE  s \in Seq(Modules) /\ ToSet(s) = set /\ IsInjective(s)
<1> DEFINE n == Cardinality(set)
<1>1. IsFiniteSet(set) /\ n \in Nat
  BY Sizes
<1>2. s \in [1..n -> set] /\ IsInjective(s)
  BY DEF SetToSeqs, IsInjective
<1>3. s \in Injection(1..n, set)
  BY <1>2 DEF Injection
<1>4. IsFiniteSet(1..n) /\ Cardinality(1..n) = n
  BY <1>1, FS_Interval
<1>5. s \in Surjection(1..n, set)
  BY <1>1, <1>3, <1>4, FS_Injection
<1>6. ToSet(s) = set
  BY <1>2, <1>5 DEF Surjection, ToSet
<1>7. s \in Seq(Modules)
  BY <1>1, <1>2, SeqDef
<1> QED  BY <1>2, <1>6, <1>7

LEMMA ListGrows ==
  ASSUME NEW s \in Seq(Modules), NEW t \in Seq(Modules)
  PROVE  /\ s \o t \in Seq(Modules) /\ ToSet(s \o t) = ToSet(s) \cup ToSet(t)
         /\ Len(s \o t) = Len(s) + Len(t) /\ Len(s) \in Nat /\ Len(t) \in Nat
         /\ \A j \in 1..Len(s) : (s \o t)[j] = s[j]
<1>1. s \o t \in Seq(Modules) /\ Len(s \o t) = Len(s) + Len(t) /\ Len(s) \in Nat /\ Len(t) \in Nat
  BY ConcatProperties, LenProperties
<1>2. \A j \in 1..Len(s) : (s \o t)[j] = s[j]
  BY ConcatProperties
<1>3. Range(s \o t) = Range(s) \cup Range(t)
  BY RangeConcatenation
<1> QED  BY <1>1, <1>2, <1>3 DEF Range, ToSet

LEMMA Appended ==
  ASSUME NEW s \in Seq(Modules), NEW m \in Modules
  PROVE  /\ Append(s, m) \in Seq(Modules) /\ Len(Append(s, m)) = Len(s) + 1
         /\ ToSet(Append(s, m)) = ToSet(s) \cup {m}
         /\ IsInjective(s) /\ m \notin ToSet(s) => IsInjective(Append(s, m))
<1>1. /\ Append(s, m) \in Seq(Modules) /\ Len(Append(s, m)) = Len(s) + 1 /\ Len(s) \in Nat
      /\ \A j \in 1..Len(s) : Append(s, m)[j] = s[j]
      /\ Append(s, m)[Len(s) + 1] = m
      /\ DOMAIN Append(s, m) = 1..Len(s) + 1 /\ DOMAIN s = 1..Len(s)
  BY AppendProperties, LenProperties
<1>2. ToSet(Append(s, m)) = ToSet(s) \cup {m}
  BY <1>1 DEF ToSet
<1>3. IsInjective(s) /\ m \notin ToSet(s) => IsInjective(Append(s, m))
  BY <1>1 DEF IsInjective, ToSet
<1> QED  BY <1>1, <1>2, <1>3

-----------------------------------------------------------------------------
(* move_value_after().                                                     *)

LEMMA GreatestPlace ==
  ASSUME NEW n \in Nat, NEW S \in SUBSET (1..n), S # {}
  PROVE  Max(S) \in S /\ \A y \in S : y <= Max(S)
<1> DEFINE T == {n - x : x \in S}
<1>1. T \in SUBSET Nat /\ T # {}
  <2>1. ASSUME NEW x \in S  PROVE n - x \in Nat
    <3>1. x \in 1..n
      OBVIOUS
    <3> QED  BY <3>1
  <2>2. T \in SUBSET Nat
    BY <2>1
  <2>3. PICK x \in S : TRUE
    OBVIOUS
  <2>4. n - x \in T
    BY <2>3
  <2> QED  BY <2>2, <2>4
<1>2. PICK e \in T : \A f \in T : e <= f
  <2> HIDE DEF T
  <2> QED  BY <1>1, LeastExists
<1>3. PICK x \in S : e = n - x
  BY <1>2
<1>4. \A y \in S : x >= y
  <2> TAKE y \in S
  <2>1. n - x <= n - y
    BY <1>2, <1>3
  <2> QED  BY <2>1
<1>5. \E z \in S : \A y \in S : z >= y
  BY <1>4
<1> DEFINE m == CHOOSE z \in S : \A y \in S : z >= y
<1>6. m \in S /\ \A y \in S : m >= y
  BY <1>5
<1>7. Max(S) = m
  BY DEF Max
<1> HIDE DEF m
<1>8. \A y \in S : m \in 1..n /\ y \in 1..n /\ m >= y
  BY <1>6
<1> QED  BY <1>6, <1>7, <1>8

(* The place in the list of what is at place j after the move from c to    *)
(* pos.                                                                    *)
Old(c, pos, j) == IF j < c \/ j > pos THEN j ELSE IF j = pos THEN c ELSE j + 1

LEMMA OldPlaces ==
  ASSUME NEW n \in Nat, NEW c \in 1..n, NEW pos \in 1..n, c <= pos
  PROVE  /\ \A j \in 1..n : Old(c, pos, j) \in 1..n
         /\ \A j, q \in 1..n : Old(c, pos, j) = Old(c, pos, q) => j = q
         /\ \A q \in 1..n : \E j \in 1..n : Old(c, pos, j) = q
         /\ \A j, q \in 1..n : Old(c, pos, j) # c /\ Old(c, pos, q) # c =>
              (Old(c, pos, j) < Old(c, pos, q) <=> j < q)
         /\ \A j \in 1..n : Old(c, pos, j) = c <=> j = pos
         /\ \A j \in 1..n : Old(c, pos, j) > pos <=> j > pos
<1>1. \A j \in 1..n : Old(c, pos, j) \in 1..n
  BY DEF Old
<1>2. \A j, q \in 1..n : Old(c, pos, j) = Old(c, pos, q) => j = q
  BY DEF Old
<1>3. ASSUME NEW q \in 1..n  PROVE \E j \in 1..n : Old(c, pos, j) = q
  <2>1. CASE q < c \/ q > pos
    BY <2>1 DEF Old
  <2>2. CASE q = c
    BY <2>2 DEF Old
  <2>3. CASE q > c /\ q <= pos
    <3>1. q - 1 \in 1..n /\ Old(c, pos, q - 1) = q
      BY <2>3 DEF Old
    <3> QED  BY <3>1
  <2> QED  BY <2>1, <2>2, <2>3
<1>4. \A j, q \in 1..n : Old(c, pos, j) # c /\ Old(c, pos, q) # c =>
        (Old(c, pos, j) < Old(c, pos, q) <=> j < q)
  BY DEF Old
<1>5. \A j \in 1..n : (Old(c, pos, j) = c <=> j = pos) /\ (Old(c, pos, j) > pos <=> j > pos)
  BY DEF Old
<1> QED  BY <1>1, <1>2, <1>3, <1>4, <1>5

LEMMA Inserted ==
  ASSUME NEW s \in Seq(Modules), NEW c \in 1..Len(s), NEW pos \in 1..Len(s), c <= pos, NEW val, val = s[c]
  PROVE  LET new == RemoveAt(InsertAt(s, pos + 1, val), c) IN
         new \in Seq(Modules) /\ Len(new) = Len(s) /\ \A j \in 1..Len(s) : new[j] = s[Old(c, pos, j)]
<1> DEFINE n == Len(s)
           one == InsertAt(s, pos + 1, val)
           new == RemoveAt(one, c)
<1>1. n \in Nat /\ val \in Modules /\ DOMAIN s = 1..n /\ \A j \in 1..n : s[j] \in Modules
  BY LenProperties, ElementOfSeq
<1>2. /\ one \in Seq(Modules) /\ Len(one) = n + 1
      /\ \A j \in 1..n + 1 : one[j] = IF j <= pos THEN s[j] ELSE IF j = pos + 1 THEN val ELSE s[j - 1]
  <2> DEFINE a == SubSeq(s, 1, pos)
             b == SubSeq(s, pos + 1, n)
             v == <<val>>
             av == a \o v
  <2>1. one = av \o b
    <3>1. (pos + 1) - 1 = pos
      BY <1>1
    <3> QED  BY <3>1 DEF InsertAt
  <2>2. a \in Seq(Modules) /\ Len(a) = pos /\ \A j \in 1..pos : a[j] = s[j]
    BY <1>1
  <2>3. b \in Seq(Modules) /\ Len(b) = n - pos /\ \A j \in 1..n - pos : b[j] = s[pos + j]
    <3>1. \A j \in pos + 1..n : s[j] \in Modules
      BY <1>1
    <3>2. /\ b \in Seq(Modules) /\ Len(b) = IF pos + 1 <= n THEN n - (pos + 1) + 1 ELSE 0
          /\ \A j \in 1..n - (pos + 1) + 1 : b[j] = s[pos + 1 + j - 1]
      <4> DEFINE m == pos + 1
      <4>1. m \in Int /\ n \in Int /\ \A j \in m..n : s[j] \in Modules
        BY <1>1, <3>1
      <4>2. /\ SubSeq(s, m, n) \in Seq(Modules)
            /\ Len(SubSeq(s, m, n)) = IF m <= n THEN n - m + 1 ELSE 0
            /\ \A j \in 1..n - m + 1 : SubSeq(s, m, n)[j] = s[m + j - 1]
        <5> HIDE DEF m
        <5> QED  BY <4>1, SubSeqProperties
      <4> QED  BY <4>2
    <3> HIDE DEF b
    <3>3. n - (pos + 1) + 1 = n - pos /\ \A j \in 1..n - pos : pos + 1 + j - 1 = pos + j
      BY <1>1
    <3>4. Len(b) = n - pos
      <4>1. CASE pos + 1 <= n
        BY <4>1, <3>2, <3>3
      <4>2. CASE ~ pos + 1 <= n
        <5>1. pos = n
          <6>1. n \in Nat /\ pos \in 1..n
            BY <1>1
          <6> HIDE DEF n
          <6> QED  BY <4>2, <6>1
        <5> QED  BY <4>2, <5>1, <3>2, <1>1
      <4> QED  BY <4>1, <4>2
    <3> QED  BY <3>2, <3>3, <3>4
  <2>4. v \in Seq(Modules) /\ Len(v) = 1 /\ v[1] = val
    BY <1>1
  <2> HIDE DEF a, b, v, one
  <2>5. /\ av \in Seq(Modules) /\ Len(av) = pos + 1
        /\ \A j \in 1..pos + 1 : av[j] = IF j <= pos THEN a[j] ELSE v[j - pos]
    <3>1. /\ av \in Seq(Modules) /\ Len(av) = Len(a) + Len(v)
          /\ \A j \in 1..Len(a) + Len(v) : av[j] = IF j <= Len(a) THEN a[j] ELSE v[j - Len(a)]
      BY <2>2, <2>4, ConcatProperties
    <3> HIDE DEF av
    <3> QED  BY <3>1, <2>2, <2>4
  <2>6. \A j \in 1..pos + 1 : av[j] = IF j <= pos THEN s[j] ELSE val
    <3> HIDE DEF av
    <3>1. \A j \in 1..pos + 1 : ~ j <= pos => j - pos = 1
      BY <1>1
    <3> QED  BY <3>1, <2>2, <2>4, <2>5
  <2> HIDE DEF av
  <2>7. /\ one \in Seq(Modules) /\ Len(one) = n + 1
        /\ \A j \in 1..n + 1 : one[j] = IF j <= pos + 1 THEN av[j] ELSE b[j - (pos + 1)]
    <3>1. /\ one \in Seq(Modules) /\ Len(one) = Len(av) + Len(b)
          /\ \A j \in 1..Len(av) + Len(b) : one[j] = IF j <= Len(av) THEN av[j] ELSE b[j - Len(av)]
      BY <2>1, <2>3, <2>5, ConcatProperties
    <3>2. Len(av) + Len(b) = n + 1
      BY <1>1, <2>3, <2>5
    <3> QED  BY <3>1, <3>2, <2>5
  <2>8. ASSUME NEW j \in 1..n + 1
        PROVE  one[j] = IF j <= pos THEN s[j] ELSE IF j = pos + 1 THEN val ELSE s[j - 1]
    <3>1. CASE j <= pos + 1
      BY <3>1, <2>6, <2>7, <1>1
    <3>2. CASE j > pos + 1
      <4>1. j - (pos + 1) \in 1..n - pos /\ pos + (j - (pos + 1)) = j - 1 /\ ~ j <= pos + 1
        BY <3>2, <1>1
      <4>2. one[j] = b[j - (pos + 1)] /\ b[j - (pos + 1)] = s[j - 1]
        BY <4>1, <2>3, <2>7
      <4> QED  BY <3>2, <4>2, <1>1
    <3> QED  BY <3>1, <3>2, <1>1
  <2> QED  BY <2>7, <2>8
<1>3. /\ new \in Seq(Modules) /\ Len(new) = n
      /\ \A j \in 1..n : new[j] = IF j < c THEN one[j] ELSE one[j + 1]
  <2> HIDE DEF one
  <2> DEFINE a == SubSeq(one, 1, c - 1)
             b == SubSeq(one, c + 1, Len(one))
  <2>1. new = a \o b
    BY <1>1 DEF RemoveAt
  <2>2. a \in Seq(Modules) /\ Len(a) = c - 1 /\ \A j \in 1..c - 1 : a[j] = one[j]
    BY <1>1, <1>2
  <2>3. b \in Seq(Modules) /\ Len(b) = n + 1 - c /\ \A j \in 1..n + 1 - c : b[j] = one[c + j]
    BY <1>1, <1>2
  <2> HIDE DEF a, b, new
  <2>4. /\ new \in Seq(Modules) /\ Len(new) = Len(a) + Len(b)
        /\ \A j \in 1..Len(a) + Len(b) : new[j] = IF j <= Len(a) THEN a[j] ELSE b[j - Len(a)]
    BY <2>1, <2>2, <2>3, ConcatProperties
  <2>5. Len(a) + Len(b) = n
    BY <1>1, <2>2, <2>3
  <2>6. ASSUME NEW j \in 1..n  PROVE new[j] = IF j < c THEN one[j] ELSE one[j + 1]
    <3>1. CASE j < c
      BY <3>1, <2>2, <2>4, <2>5, <1>1
    <3>2. CASE j >= c
      <4>1. j - (c - 1) \in 1..n + 1 - c /\ c + (j - (c - 1)) = j + 1 /\ ~ j <= c - 1 /\ ~ j < c
        BY <3>2, <1>1
      <4>2. new[j] = b[j - (c - 1)] /\ b[j - (c - 1)] = one[j + 1]
        BY <4>1, <2>2, <2>3, <2>4, <2>5
      <4> QED  BY <4>1, <4>2
    <3> QED  BY <3>1, <3>2, <1>1
  <2> QED  BY <2>4, <2>5, <2>6
<1> HIDE DEF one, new
<1>4. ASSUME NEW j \in 1..n  PROVE new[j] = s[Old(c, pos, j)]
  BY <1>1, <1>2, <1>3 DEF Old
<1> QED  BY <1>3, <1>4 DEF one, new

LEMMA LastPlace ==
  ASSUME NEW s \in Seq(Modules), IsInjective(s), NEW val \in ToSet(s), NEW afters
  PROVE  LET pos == Max(Places(s, val, afters))
             c   == CHOOSE q \in 1..pos : s[q] = val
         IN  /\ Places(s, val, afters) # {}
             /\ pos \in 1..Len(s) /\ c \in 1..pos /\ c \in 1..Len(s) /\ s[c] = val /\ Len(s) \in Nat
             /\ s[pos] = val \/ s[pos] \in afters
             /\ \A q \in 1..Len(s) : s[q] = val \/ s[q] \in afters => q <= pos
             /\ \A q \in 1..Len(s) : s[q] = val <=> q = c
<1> DEFINE P == Places(s, val, afters)
           n == Len(s)
           pos == Max(P)
           c == CHOOSE q \in 1..pos : s[q] = val
<1>1. n \in Nat /\ DOMAIN s = 1..n
  BY LenProperties
<1>2. PICK x \in 1..n : s[x] = val
  BY <1>1 DEF ToSet
<1>3. /\ P \in SUBSET (1..n) /\ x \in P
      /\ \A q \in 1..n : q \in P <=> s[q] = val \/ s[q] \in afters
  BY <1>1, <1>2 DEF Places
<1> HIDE DEF P
<1>4. pos \in P /\ \A y \in P : y <= pos
  <2> HIDE DEF n
  <2> QED  BY <1>1, <1>3, GreatestPlace
<1> HIDE DEF pos, n
<1>5. pos \in 1..n /\ x \in 1..pos
  BY <1>1, <1>2, <1>3, <1>4
<1>6. c \in 1..pos /\ s[c] = val
  BY <1>2, <1>5
<1> HIDE DEF c
<1>7. c \in 1..n
  BY <1>1, <1>5, <1>6
<1>8. \A q \in 1..n : s[q] = val <=> q = c
  BY <1>1, <1>6, <1>7 DEF IsInjective
<1> QED  BY <1>1, <1>3, <1>4, <1>5, <1>6, <1>7, <1>8 DEF P, n, pos, c

LEMMA MoveKeeps ==
  ASSUME Graph, NEW s \in Seq(Modules), IsInjective(s), NEW val \in ToSet(s), val \in Modules
  PROVE  LET t == MoveValueAfter(s, val, Reach[val]) IN
         /\ t \in Seq(Modules) /\ ToSet(t) = ToSet(s) /\ IsInjective(t) /\ After(t, val)
         /\ \A a \in Modules : After(s, a) => After(t, a)
<1> DEFINE n == Len(s)
           pos == Max(Places(s, val, Reach[val]))
           c == CHOOSE q \in 1..pos : s[q] = val
           t == MoveValueAfter(s, val, Reach[val])
<1>1. /\ pos \in 1..n /\ c \in 1..pos /\ c \in 1..n /\ s[c] = val /\ n \in Nat
      /\ s[pos] = val \/ s[pos] \in Reach[val]
      /\ \A q \in 1..n : s[q] = val \/ s[q] \in Reach[val] => q <= pos
      /\ \A q \in 1..n : s[q] = val <=> q = c
  BY LastPlace
<1>2. t = IF s[pos] = val THEN s ELSE RemoveAt(InsertAt(s, pos + 1, val), c)
  BY DEF MoveValueAfter
<1>3. DOMAIN s = 1..n /\ \A j \in 1..n : s[j] \in Modules
  BY LenProperties, ElementOfSeq
<1> HIDE DEF c, pos
<1>4. CASE s[pos] = val
  <2>1. t = s
    BY <1>2, <1>4
  <2>2. After(s, val)
    <3> SUFFICES ASSUME NEW b \in 1..n, NEW e \in 1..n, s[b] = val, s[e] \in Reach[val], val \notin Reach[s[e]]
                 PROVE  e < b
      BY <1>3 DEF After
    <3>1. b = pos /\ e <= pos
      BY <1>1, <1>4
    <3>2. e # pos
      BY <1>4
    <3> QED  BY <1>1, <3>1, <3>2
  <2> QED  BY <2>1, <2>2 DEF t
<1>5. CASE s[pos] # val
  <2>1. c <= pos /\ s[pos] \in Reach[val]
    BY <1>1, <1>5
  <2>2. t \in Seq(Modules) /\ Len(t) = n /\ \A j \in 1..n : t[j] = s[Old(c, pos, j)]
    <3>1. t = RemoveAt(InsertAt(s, pos + 1, val), c)
      BY <1>2, <1>5
    <3> HIDE DEF t
    <3> QED  BY <3>1, <2>1, <1>1, Inserted
  <2> HIDE DEF t
  <2>3. DOMAIN t = 1..n
    BY <2>2, LenProperties
  <2> HIDE DEF n
  <2>4. /\ \A j \in 1..n : Old(c, pos, j) \in 1..n
        /\ \A j, q \in 1..n : Old(c, pos, j) = Old(c, pos, q) => j = q
        /\ \A q \in 1..n : \E j \in 1..n : Old(c, pos, j) = q
        /\ \A j, q \in 1..n : Old(c, pos, j) # c /\ Old(c, pos, q) # c =>
             (Old(c, pos, j) < Old(c, pos, q) <=> j < q)
        /\ \A j \in 1..n : Old(c, pos, j) = c <=> j = pos
        /\ \A j \in 1..n : Old(c, pos, j) > pos <=> j > pos
    BY <1>1, <2>1, OldPlaces
  <2>5. ToSet(t) = ToSet(s)
    <3>1. ToSet(t) = {t[j] : j \in 1..n} /\ ToSet(s) = {s[j] : j \in 1..n}
      BY <1>3, <2>3 DEF ToSet
    <3>2. \A j \in 1..n : \E q \in 1..n : t[j] = s[q]
      BY <2>2, <2>4
    <3>3. \A q \in 1..n : \E j \in 1..n : t[j] = s[q]
      <4> TAKE q \in 1..n
      <4>1. PICK j \in 1..n : Old(c, pos, j) = q
        BY <2>4
      <4>2. t[j] = s[q]
        BY <2>2, <4>1
      <4> QED  BY <4>2
    <3>4. ToSet(t) \subseteq ToSet(s)
      BY <3>1, <3>2
    <3>5. ToSet(s) \subseteq ToSet(t)
      BY <3>1, <3>3
    <3> QED  BY <3>4, <3>5
  <2>6. IsInjective(t)
    BY <1>3, <2>2, <2>3, <2>4 DEF IsInjective
  <2>7. \A j \in 1..n : t[j] = val <=> j = pos
    BY <1>1, <2>2, <2>4
  <2>8. After(t, val)
    <3> SUFFICES ASSUME NEW b \in 1..n, NEW e \in 1..n, t[b] = val, t[e] \in Reach[val], val \notin Reach[t[e]]
                 PROVE  e < b
      BY <2>3 DEF After
    <3>1. b = pos
      BY <2>7
    <3>2. e # pos
      BY <2>7
    <3>3. Old(c, pos, e) \in 1..n /\ Old(c, pos, e) <= pos
      BY <1>1, <2>2, <2>4
    <3>4. ~ e > pos
      BY <3>3, <1>1, <2>4
    <3> QED  BY <3>1, <3>2, <3>4, <1>1
  <2>9. ASSUME NEW a \in Modules, After(s, a)  PROVE After(t, a)
    <3> SUFFICES ASSUME a # val, NEW b \in 1..n, NEW e \in 1..n,
                        t[b] = a, t[e] \in Reach[a], a \notin Reach[t[e]]
                 PROVE  e < b
      BY <2>3, <2>8 DEF After
    <3> DEFINE ob == Old(c, pos, b)
               oe == Old(c, pos, e)
    <3>1. ob \in 1..n /\ oe \in 1..n /\ s[ob] = a /\ s[oe] = t[e] /\ ob # c
      <4>1. ob \in 1..n /\ oe \in 1..n
        BY <2>4
      <4>2. t[b] = s[ob] /\ t[e] = s[oe]
        BY <2>2
      <4>3. s[c] = val
        BY <1>1
      <4> HIDE DEF ob, oe
      <4> QED  BY <4>1, <4>2, <4>3
    <3>2. oe < ob
      BY <2>9, <1>3, <3>1 DEF After
    <3>3. CASE e # pos
      <4>1. oe # c
        BY <3>3, <2>4
      <4> QED  BY <3>1, <3>2, <4>1, <2>4
    <3>4. CASE e = pos
      <4>1. t[e] = val
        BY <3>4, <2>7
      <4> DEFINE x == s[pos]
      <4>2. x \in Reach[val] /\ val \in Reach[a] /\ x \in Modules
        BY <2>1, <4>1, <1>1, <1>3
      <4>3. x \in Reach[a]
        BY <4>2, ReachTransitive
      <4>4. a \notin Reach[x]
        BY <4>1, <4>2, ReachTransitive
      <4>5. pos < ob
        BY <2>9, <1>1, <1>3, <3>1, <4>3, <4>4 DEF After
      <4>6. b > pos
        BY <4>5, <2>4, <3>1, <1>1
      <4> QED  BY <4>6, <3>4, <1>1
    <3> QED  BY <3>3, <3>4
  <2> QED  BY <2>2, <2>5, <2>6, <2>8, <2>9 DEF t
<1> QED  BY <1>4, <1>5

-----------------------------------------------------------------------------
(* Each step keeps the invariant.                                          *)

LEMMA SameGraph ==
  ASSUME dependencies' = dependencies, requested' = requested
  PROVE  /\ Reach' = Reach /\ Needed' = Needed
         /\ \A list, a : After(list, a)' <=> After(list, a)
<1>1. Reach' = Reach
  BY DEF Reach
<1>2. Needed' = Needed
  BY DEF Needed, Reach
<1> QED  BY <1>1, <1>2 DEF After

LEMMA Initial == Init => IInv
<1> SUFFICES ASSUME Init PROVE IInv
  OBVIOUS
<1>1. GraphInv
  BY DEF Init, GraphInv, Graph
<1>2. modules \in Seq(Modules) /\ ToSet(modules) = requested /\ Len(modules) \in Nat
  <2>1. requested \in SUBSET Modules /\ modules \in SetToSeqs(requested)
    BY DEF Init
  <2>2. modules \in Seq(Modules) /\ ToSet(modules) = requested
    BY <2>1, ListOfSet
  <2> QED  BY <2>2, LenProperties
<1>3. <<>> \in Seq(Modules) /\ Len(<<>>) = 0 /\ IsInjective(<<>>) /\ ToSet(<<>>) = {}
  BY DEF IsInjective, ToSet
<1>4. TypeOK
  BY <1>2, <1>3 DEF Init, TypeOK
<1>5. CollectInv
  <2>1. i = 1 /\ direct_deps = <<>> /\ requested \subseteq available
    BY DEF Init
  <2>2. 1..i - 1 = {}
    BY <2>1
  <2>3. Keys = {modules[j] : j \in 1..i - 1}
    BY <2>1, <2>2, <1>3 DEF Keys
  <2> QED  BY <1>1, <1>2, <2>1, <2>2, <2>3, NeededIsLeast DEF CollectInv
<1>6. PlaceInv /\ SortInv
  BY DEF Init, PlaceInv, SortInv
<1> QED  BY <1>1, <1>4, <1>5, <1>6 DEF IInv

LEMMA CurrentModule ==
  ASSUME IInv, i <= Len(modules)
  PROVE  /\ modules[i] \in ToSet(modules) /\ modules[i] \in Needed /\ modules[i] \in Modules
         /\ dependencies[modules[i]] \in SUBSET Modules
         /\ dependencies[modules[i]] \subseteq Needed
         /\ Keys \subseteq ToSet(modules) /\ i \in 1..Len(modules) /\ Len(modules) \in Nat
<1>1. modules \in Seq(Modules) /\ i \in 1..Len(modules) /\ Len(modules) \in Nat /\ DOMAIN modules = 1..Len(modules)
  BY LenProperties DEF IInv, TypeOK
<1>2. modules[i] \in ToSet(modules) /\ modules[i] \in Modules
  BY <1>1, ElementOfSeq DEF ToSet
<1>3. Keys \subseteq ToSet(modules)
  <2>1. \A j \in 1..i - 1 : modules[j] \in ToSet(modules)
    BY <1>1 DEF ToSet
  <2> QED  BY <2>1 DEF IInv, CollectInv
<1>4. modules[i] \in Needed
  BY <1>2 DEF IInv, CollectInv
<1> QED  BY <1>1, <1>2, <1>3, <1>4, NeededIsLeast DEF IInv, GraphInv, Graph

LEMMA Collected ==   \* what a turn of the while loop does to the list and the dict
  ASSUME IInv, CollectNext
  PROVE  LET deps == {d \in dependencies[modules[i]] : d \notin Keys} IN
         /\ modules' \in Seq(Modules) /\ ToSet(modules') = ToSet(modules) \cup deps
         /\ Len(modules') \in Nat /\ Len(modules) <= Len(modules')
         /\ \A j \in 1..Len(modules) : modules'[j] = modules[j]
         /\ \A j \in 1..Len(modules') : j \in 1..Len(modules) \/ modules'[j] \in deps
         /\ direct_deps' \in Seq(Modules) /\ IsInjective(direct_deps') /\ Len(direct_deps') \in Nat
         /\ ToSet(direct_deps') = Keys \cup {modules[i]} /\ Len(direct_deps) <= Len(direct_deps')
<1> DEFINE m == modules[i]
           deps == {d \in dependencies[m] : d \notin Keys}
<1>1. /\ pc = "collect" /\ i <= Len(modules) /\ Missing(m) = {} /\ i' = i + 1
      /\ direct_deps' = WithCurrent /\ pc' = pc /\ k' = k /\ result' = result
      /\ dependencies' = dependencies /\ available' = available /\ requested' = requested
  BY DEF CollectNext, Collect
<1>2. PICK new \in SetToSeqs(deps) : modules' = modules \o new
  BY DEF CollectNext, Collect
<1>3. /\ m \in ToSet(modules) /\ m \in Needed /\ m \in Modules /\ deps \in SUBSET Modules
      /\ dependencies[m] \subseteq Needed /\ Keys \subseteq ToSet(modules)
      /\ i \in 1..Len(modules) /\ Len(modules) \in Nat
  BY <1>1, CurrentModule
<1>4. new \in Seq(Modules) /\ ToSet(new) = deps
  <2> HIDE DEF deps
  <2> QED  BY <1>2, <1>3, ListOfSet
<1>5. /\ modules' \in Seq(Modules) /\ ToSet(modules') = ToSet(modules) \cup deps
      /\ Len(modules') \in Nat /\ Len(modules) <= Len(modules')
      /\ \A j \in 1..Len(modules) : modules'[j] = modules[j]
      /\ \A j \in 1..Len(modules') : j \in 1..Len(modules) \/ modules'[j] \in deps
  <2>1. modules \in Seq(Modules)
    BY DEF IInv, TypeOK
  <2> HIDE DEF deps
  <2>2. /\ modules' \in Seq(Modules) /\ ToSet(modules') = ToSet(modules) \cup deps
        /\ Len(modules') = Len(modules) + Len(new) /\ Len(new) \in Nat
        /\ \A j \in 1..Len(modules) : modules'[j] = modules[j]
    BY <1>2, <1>4, <2>1, ListGrows
  <2>3. \A j \in 1..Len(modules') : j \in 1..Len(modules) \/ modules'[j] \in deps
    <3> TAKE j \in 1..Len(modules')
    <3>1. j \in 1..Len(modules) \/ j - Len(modules) \in 1..Len(new)
      BY <2>2, <1>3
    <3>2. CASE j - Len(modules) \in 1..Len(new)
      <4>1. modules'[j] = new[j - Len(modules)]
        BY <3>2, <2>1, <2>2, <1>2, <1>3, <1>4, ConcatProperties
      <4>2. new[j - Len(modules)] \in ToSet(new)
        BY <3>2, <1>4, LenProperties DEF ToSet
      <4> QED  BY <4>1, <4>2, <1>4
    <3> QED  BY <3>1, <3>2
  <2> QED  BY <2>2, <2>3, <1>3
<1>6. /\ direct_deps' \in Seq(Modules) /\ IsInjective(direct_deps') /\ Len(direct_deps') \in Nat
      /\ ToSet(direct_deps') = Keys \cup {m} /\ Len(direct_deps) <= Len(direct_deps')
  <2>1. direct_deps \in Seq(Modules) /\ IsInjective(direct_deps) /\ Len(direct_deps) \in Nat
    BY LenProperties DEF IInv, TypeOK
  <2>2. CASE m \in Keys
    BY <2>1, <2>2, <1>1 DEF WithCurrent, Keys
  <2>3. CASE m \notin Keys
    <3>1. direct_deps' = Append(direct_deps, m) /\ m \notin ToSet(direct_deps)
      BY <2>3, <1>1 DEF WithCurrent, Keys
    <3> HIDE DEF m
    <3>2. /\ direct_deps' \in Seq(Modules) /\ IsInjective(direct_deps')
          /\ ToSet(direct_deps') = ToSet(direct_deps) \cup {m} /\ Len(direct_deps') = Len(direct_deps) + 1
      BY <2>1, <3>1, <1>3, Appended
    <3> QED  BY <2>1, <3>2 DEF Keys
  <2> QED  BY <2>2, <2>3
<1> QED  BY <1>5, <1>6

LEMMA CollectKeeps ==
  ASSUME IInv, CollectNext
  PROVE  IInv'
<1> DEFINE m == modules[i]
           deps == {d \in dependencies[m] : d \notin Keys}
<1>1. /\ pc = "collect" /\ i <= Len(modules) /\ Missing(m) = {} /\ i' = i + 1
      /\ direct_deps' = WithCurrent /\ pc' = pc /\ k' = k /\ result' = result
      /\ dependencies' = dependencies /\ available' = available /\ requested' = requested
  BY DEF CollectNext, Collect
<1>3. /\ m \in ToSet(modules) /\ m \in Needed /\ m \in Modules /\ deps \in SUBSET Modules
      /\ dependencies[m] \subseteq Needed /\ Keys \subseteq ToSet(modules)
      /\ i \in 1..Len(modules) /\ Len(modules) \in Nat
  BY <1>1, CurrentModule
<1>5. /\ modules' \in Seq(Modules) /\ ToSet(modules') = ToSet(modules) \cup deps
      /\ Len(modules') \in Nat /\ Len(modules) <= Len(modules')
      /\ \A j \in 1..Len(modules) : modules'[j] = modules[j]
  BY Collected
<1>6. /\ direct_deps' \in Seq(Modules) /\ IsInjective(direct_deps') /\ Len(direct_deps') \in Nat
      /\ ToSet(direct_deps') = Keys \cup {m} /\ Len(direct_deps) <= Len(direct_deps')
  BY Collected
<1>7. Needed' = Needed
  BY <1>1, SameGraph
<1>8. deps \subseteq Needed \cap available
  BY <1>1, <1>3 DEF Missing
<1>9. GraphInv'
  BY <1>1 DEF IInv, GraphInv, Graph
<1>10. TypeOK'
  <2>1. i' \in 1..Len(modules') + 1
    BY <1>1, <1>3, <1>5
  <2>2. k' \in 1..Len(direct_deps') + 1
    BY <1>1, <1>6 DEF IInv, PlaceInv
  <2> QED  BY <1>1, <1>5, <1>6, <2>1, <2>2 DEF IInv, TypeOK
<1>11. CollectInv'
  <2>1. requested' \subseteq ToSet(modules') /\ ToSet(modules') \subseteq Needed' \cap available'
    BY <1>1, <1>5, <1>7, <1>8 DEF IInv, CollectInv
  <2>2. \A j \in 1..i' - 1 : modules'[j] = modules[j] /\ (j \in 1..i - 1 \/ j = i)
    BY <1>1, <1>3, <1>5
  <2>3. Keys' = {modules'[j] : j \in 1..i' - 1}
    <3>1. Keys' = Keys \cup {m} /\ Keys = {modules[j] : j \in 1..i - 1}
      BY <1>6 DEF Keys, IInv, CollectInv
    <3>2. 1..i' - 1 = (1..i - 1) \cup {i}
      BY <1>1, <1>3
    <3> QED  BY <3>1, <3>2, <2>2
  <2>4. \A j \in 1..i' - 1 : dependencies'[modules'[j]] \subseteq ToSet(modules')
    <3> TAKE j \in 1..i' - 1
    <3>1. CASE j \in 1..i - 1
      BY <3>1, <2>2, <1>1, <1>5 DEF IInv, CollectInv
    <3>2. CASE j = i
      <4>1. dependencies[m] \subseteq ToSet(modules')
        BY <1>3, <1>5
      <4> QED  BY <3>2, <4>1, <2>2, <1>1
    <3> QED  BY <3>1, <3>2, <2>2
  <2> QED  BY <2>1, <2>3, <2>4 DEF CollectInv
<1>12. PlaceInv' /\ SortInv'
  BY <1>1 DEF IInv, PlaceInv, SortInv
<1> QED  BY <1>9, <1>10, <1>11, <1>12 DEF IInv

LEMMA CollectFailsKeeps ==
  ASSUME IInv, CollectFails
  PROVE  IInv'
<1>1. /\ pc = "collect" /\ i <= Len(modules) /\ Missing(modules[i]) # {} /\ pc' = "missing"
      /\ dependencies' = dependencies /\ available' = available /\ requested' = requested
      /\ modules' = modules /\ i' = i /\ direct_deps' = direct_deps /\ result' = result /\ k' = k
  BY DEF CollectFails
<1>2. Needed' = Needed
  BY <1>1, SameGraph
<1>3. ~ Needed \subseteq available
  BY <1>1, CurrentModule DEF Missing
<1>4. PlaceInv' /\ SortInv'
  BY <1>1, <1>2, <1>3 DEF PlaceInv, SortInv
<1>5. CollectInv'
  BY <1>1, <1>2 DEF IInv, CollectInv, Keys
<1>6. GraphInv' /\ TypeOK'
  BY <1>1 DEF IInv, GraphInv, Graph, TypeOK
<1> QED  BY <1>4, <1>5, <1>6 DEF IInv

LEMMA StartSortKeeps ==
  ASSUME IInv, StartSort
  PROVE  IInv'
<1>1. /\ pc = "collect" /\ i > Len(modules) /\ pc' = "sort" /\ result' = direct_deps
      /\ dependencies' = dependencies /\ available' = available /\ requested' = requested
      /\ modules' = modules /\ i' = i /\ direct_deps' = direct_deps /\ k' = k
  BY DEF StartSort
<1>2. Needed' = Needed
  BY <1>1, SameGraph
<1>3. PlaceInv'
  BY <1>1 DEF PlaceInv
<1>4. SortInv'
  <2>1. k = 1
    BY <1>1 DEF IInv, PlaceInv
  <2>2. 1..k' - 1 = {}
    BY <1>1, <2>1
  <2> QED  BY <1>1, <2>2 DEF IInv, TypeOK, SortInv, Keys
<1>5. CollectInv'
  BY <1>1, <1>2 DEF IInv, CollectInv, Keys
<1>6. GraphInv' /\ TypeOK'
  BY <1>1 DEF IInv, GraphInv, Graph, TypeOK
<1> QED  BY <1>3, <1>4, <1>5, <1>6 DEF IInv

LEMMA SortNextKeeps ==
  ASSUME IInv, SortNext
  PROVE  IInv'
<1> DEFINE val == direct_deps[k]
<1>1. /\ pc = "sort" /\ k <= Len(direct_deps) /\ k' = k + 1
      /\ dependencies' = dependencies /\ available' = available /\ requested' = requested
      /\ modules' = modules /\ i' = i /\ direct_deps' = direct_deps
  BY DEF SortNext
<1>2. /\ direct_deps \in Seq(Modules) /\ k \in 1..Len(direct_deps) /\ Len(direct_deps) \in Nat
      /\ DOMAIN direct_deps = 1..Len(direct_deps)
      /\ result \in Seq(Modules) /\ IsInjective(result) /\ ToSet(result) = Keys /\ Graph
  BY <1>1, LenProperties DEF IInv, TypeOK, SortInv, GraphInv
<1>3. val \in Modules /\ val \in ToSet(result)
  BY <1>2, ElementOfSeq DEF Keys, ToSet
<1>4. pc' = pc /\ result' = MoveValueAfter(result, val, Reach[val])
  <2>1. RecursiveDeps(val) = Reach[val]
    BY <1>2, <1>3, RecursiveDepsReach
  <2>2. Places(result, val, Reach[val]) # {}
    <3> HIDE DEF val
    <3> QED  BY <1>3 DEF Places, ToSet
  <2> QED  BY <2>1, <2>2 DEF SortNext
<1>5. /\ result' \in Seq(Modules) /\ ToSet(result') = ToSet(result) /\ IsInjective(result')
      /\ After(result', val) /\ \A a \in Modules : After(result, a) => After(result', a)
  <2> HIDE DEF val
  <2> QED  BY <1>2, <1>3, <1>4, MoveKeeps
<1>6. \A j \in 1..k' - 1 : After(result', direct_deps[j])
  <2> TAKE j \in 1..k' - 1
  <2>1. CASE j = k
    BY <2>1, <1>5
  <2>2. CASE j # k
    <3>1. j \in 1..k - 1 /\ j \in 1..Len(direct_deps)
      BY <2>2, <1>1, <1>2
    <3>2. After(result, direct_deps[j]) /\ direct_deps[j] \in Modules
      BY <3>1, <1>1, <1>2, ElementOfSeq DEF IInv, SortInv
    <3> QED  BY <3>2, <1>5
  <2> QED  BY <2>1, <2>2
<1>7. SortInv'
  <2>1. Reach' = Reach /\ Keys' = Keys
    BY <1>1, SameGraph DEF Keys
  <2>2. \A j \in 1..k' - 1 : After(result, direct_deps[j])'
    BY <1>6, <1>1, <2>1 DEF After
  <2> QED  BY <1>2, <1>5, <2>1, <2>2 DEF SortInv
<1>8. PlaceInv'
  BY <1>1, <1>4 DEF IInv, PlaceInv
<1>9. CollectInv'
  BY <1>1, SameGraph DEF IInv, CollectInv, Keys
<1>10. GraphInv' /\ TypeOK'
  <2>1. k' \in 1..Len(direct_deps') + 1
    BY <1>1, <1>2
  <2> QED  BY <1>1, <1>4, <1>5, <2>1 DEF IInv, GraphInv, Graph, TypeOK
<1> QED  BY <1>7, <1>8, <1>9, <1>10 DEF IInv

LEMMA ReturnKeeps ==
  ASSUME IInv, Return
  PROVE  IInv'
<1>1. /\ pc = "sort" /\ k > Len(direct_deps) /\ pc' = "done"
      /\ dependencies' = dependencies /\ available' = available /\ requested' = requested
      /\ modules' = modules /\ i' = i /\ direct_deps' = direct_deps /\ result' = result /\ k' = k
  BY DEF Return
<1>2. Needed' = Needed /\ Reach' = Reach
  BY <1>1, SameGraph
<1>3. PlaceInv'
  BY <1>1 DEF IInv, PlaceInv
<1>4. SortInv'
  BY <1>1, <1>2 DEF IInv, SortInv, After, Keys
<1>5. CollectInv'
  BY <1>1, <1>2 DEF IInv, CollectInv, Keys
<1>6. GraphInv' /\ TypeOK'
  BY <1>1 DEF IInv, GraphInv, Graph, TypeOK
<1> QED  BY <1>3, <1>4, <1>5, <1>6 DEF IInv

LEMMA StutterKeeps ==
  ASSUME IInv, UNCHANGED vars
  PROVE  IInv'
<1>1. /\ dependencies' = dependencies /\ available' = available /\ requested' = requested
      /\ modules' = modules /\ i' = i /\ direct_deps' = direct_deps /\ result' = result
      /\ k' = k /\ pc' = pc
  BY DEF vars
<1>2. Needed' = Needed /\ Reach' = Reach
  BY <1>1, SameGraph
<1>3. PlaceInv'
  BY <1>1, <1>2 DEF IInv, PlaceInv
<1>4. SortInv'
  BY <1>1, <1>2 DEF IInv, SortInv, After, Keys
<1>5. CollectInv'
  BY <1>1, <1>2 DEF IInv, CollectInv, Keys
<1>6. GraphInv' /\ TypeOK'
  BY <1>1 DEF IInv, GraphInv, Graph, TypeOK
<1> QED  BY <1>3, <1>4, <1>5, <1>6 DEF IInv

-----------------------------------------------------------------------------
(* The theorems.                                                           *)

(* Every step keeps IInv.                                                  *)
THEOREM Invariant == Spec => []IInv
<1>1. IInv /\ [Next]_vars => IInv'
  BY CollectKeeps, CollectFailsKeeps, StartSortKeeps, SortNextKeeps, ReturnKeeps, StutterKeeps
     DEF Next, Step, Terminated
<1> QED  BY Initial, <1>1, PTL DEF Spec

(* The indexes of the loops stay in their lists, and the dict has each key *)
(* once.                                                                   *)
THEOREM TypeCorrect == Spec => []TypeOK
<1>1. IInv => TypeOK
  BY DEF IInv
<1> QED  BY Invariant, <1>1, PTL

LEMMA AllCollected ==
  ASSUME IInv, i > Len(modules)
  PROVE  Keys = Needed /\ Needed \subseteq available
<1>1. modules \in Seq(Modules) /\ Len(modules) \in Nat /\ i = Len(modules) + 1 /\ DOMAIN modules = 1..Len(modules)
  BY LenProperties DEF IInv, TypeOK
<1>2. 1..i - 1 = DOMAIN modules
  BY <1>1
<1>3. Keys = ToSet(modules)
  BY <1>2 DEF IInv, CollectInv, ToSet
<1>4. ToSet(modules) \in SUBSET Modules
  BY <1>1, ElementOfSeq DEF ToSet
<1>5. \A e \in ToSet(modules) : dependencies[e] \subseteq ToSet(modules)
  BY <1>2 DEF IInv, CollectInv, ToSet
<1>6. Needed \subseteq ToSet(modules)
  BY <1>4, <1>5, NeededIsLeast DEF IInv, CollectInv
<1> QED  BY <1>3, <1>6 DEF IInv, CollectInv

(* For every graph, the result is what is needed, each once; the only      *)
(* failure is a module that does not exist, and move_value_after() always  *)
(* finds a place (repositories.py:789-799, 513-517).                       *)
THEOREM ResultComplete == Spec => []Complete
<1>1. ASSUME IInv  PROVE Complete
  <2>1. CASE pc = "done"
    <3>1. Keys = Needed /\ Needed \subseteq available
      BY <2>1, <1>1, AllCollected DEF IInv, PlaceInv
    <3> QED  BY <2>1, <3>1, <1>1 DEF IInv, SortInv, Complete, Ended
  <2>2. CASE pc # "done"
    BY <2>2, <1>1 DEF IInv, PlaceInv, Complete, Ended
  <2> QED  BY <2>1, <2>2
<1> QED  BY Invariant, <1>1, PTL

(* For every graph, a module comes after all that it depends on, but those *)
(* that depend on it in turn (repositories.py:803).                        *)
THEOREM MostDependedOnFirst == Spec => []DependedOnFirst
<1>1. ASSUME IInv, pc = "done", NEW a \in DOMAIN result, NEW b \in DOMAIN result,
             result[b] \in Reach[result[a]], result[a] \notin Reach[result[b]]
      PROVE  b < a
  <2>1. k > Len(direct_deps) /\ ToSet(result) = Keys
    BY <1>1 DEF IInv, PlaceInv, SortInv
  <2>2. DOMAIN direct_deps = 1..Len(direct_deps) /\ k = Len(direct_deps) + 1 /\ Len(direct_deps) \in Nat
    BY <2>1, <1>1, LenProperties DEF IInv, TypeOK
  <2>3. PICK j \in DOMAIN direct_deps : direct_deps[j] = result[a]
    BY <2>1 DEF Keys, ToSet
  <2>4. j \in 1..k - 1
    BY <2>2, <2>3
  <2>5. After(result, result[a])
    BY <2>3, <2>4, <1>1 DEF IInv, SortInv
  <2> QED  BY <2>5, <1>1 DEF After
<1>2. IInv => DependedOnFirst
  BY <1>1 DEF DependedOnFirst
<1> QED  BY Invariant, <1>2, PTL

-----------------------------------------------------------------------------
(* Places of the list that are still to be read and have a key already.    *)
Unread == {j \in DOMAIN modules : i <= j /\ modules[j] \in Keys}

(* The loops end, cycles or not (repositories.py:783-800, 494): a turn of  *)
(* the while loop gets a new key, of which there are as many as modules,   *)
(* or leaves fewer places of the list with a key, for it adds none to it;  *)
(* the loop of the sort goes on to the next key.  With the fairness of     *)
(* Step this is why Ends holds.                                            *)
EachTurnNears ==
  [][\/ pc = "collect" /\ pc' \in {"sort", "missing"}
     \/ pc = "sort" /\ pc' = "done"
     \/ /\ pc = "collect" /\ pc' = "collect"
        /\ \/ Cardinality(Modules \ Keys)' < Cardinality(Modules \ Keys)
           \/ Keys' = Keys /\ Cardinality(Unread)' < Cardinality(Unread)
     \/ pc = "sort" /\ pc' = "sort" /\ k < k' /\ k <= Len(direct_deps) /\ direct_deps' = direct_deps
    ]_vars

LEMMA CollectNears ==
  ASSUME IInv, CollectNext
  PROVE  \/ Cardinality(Modules \ Keys)' < Cardinality(Modules \ Keys)
         \/ Keys' = Keys /\ Cardinality(Unread)' < Cardinality(Unread)
<1> DEFINE m == modules[i]
<1>1. /\ i' = i + 1 /\ Keys' = Keys \cup {m} /\ m \in Modules /\ i \in 1..Len(modules)
      /\ DOMAIN modules = 1..Len(modules) /\ Len(modules) \in Nat
  BY CurrentModule, Collected, LenProperties DEF CollectNext, Collect, Keys, IInv, TypeOK
<1> HIDE DEF m
<1>2. CASE m \notin Keys
  <2> DEFINE S == Modules \ Keys
             T == Modules \ Keys'
  <2>1. IsFiniteSet(S) /\ T \subseteq S /\ m \in S /\ m \notin T
    BY <1>1, <1>2, OrderAssumption, FS_Subset DEF OrderAssumption
  <2> HIDE DEF S, T
  <2>2. Cardinality(T) < Cardinality(S)
    BY <2>1, FS_Subset, FS_CardinalityType
  <2> QED  BY <2>2 DEF S, T
<1>3. CASE m \in Keys
  <2>1. Keys' = Keys
    BY <1>1, <1>3
  <2>2. \A j \in DOMAIN modules' : modules'[j] \in Keys => j \in DOMAIN modules /\ modules'[j] = modules[j]
    <3>1. DOMAIN modules' = 1..Len(modules')
      BY Collected, LenProperties
    <3> QED  BY <3>1, <1>1, Collected
  <2>3. Unread' \subseteq Unread /\ i \in Unread /\ i \notin Unread'
    BY <1>1, <1>3, <2>1, <2>2 DEF Unread, m
  <2>4. IsFiniteSet(Unread)
    <3>1. Unread \subseteq 1..Len(modules)
      BY <1>1 DEF Unread
    <3>2. IsFiniteSet(1..Len(modules))
      BY <1>1, FS_Interval
    <3> QED  BY <3>1, <3>2, FS_Subset
  <2>5. Cardinality(Unread') < Cardinality(Unread)
    BY <2>3, <2>4, FS_Subset, FS_CardinalityType
  <2> QED  BY <2>1, <2>5
<1> QED  BY <1>2, <1>3

(* EachTurnNears, for every graph of dependencies.                         *)
THEOREM TurnsNearTheEnd == Spec => EachTurnNears
<1> DEFINE A ==
      \/ pc = "collect" /\ pc' \in {"sort", "missing"}
      \/ pc = "sort" /\ pc' = "done"
      \/ /\ pc = "collect" /\ pc' = "collect"
         /\ \/ Cardinality(Modules \ Keys)' < Cardinality(Modules \ Keys)
            \/ Keys' = Keys /\ Cardinality(Unread)' < Cardinality(Unread)
      \/ pc = "sort" /\ pc' = "sort" /\ k < k' /\ k <= Len(direct_deps) /\ direct_deps' = direct_deps
<1>1. ASSUME IInv, IInv', Next  PROVE A \/ UNCHANGED vars
  <2>1. CASE CollectNext
    <3>1. pc = "collect" /\ pc' = "collect"
      BY <2>1 DEF CollectNext, Collect
    <3> QED  BY <3>1, <2>1, <1>1, CollectNears
  <2>2. CASE CollectFails \/ StartSort \/ Return
    BY <2>2 DEF CollectFails, StartSort, Return
  <2>3. CASE SortNext
    <3>1. pc' # "assertion" /\ k \in Nat
      BY <1>1 DEF IInv, PlaceInv, TypeOK
    <3> QED  BY <2>3, <3>1 DEF SortNext
  <2>4. CASE Terminated
    BY <2>4 DEF Terminated
  <2> QED  BY <1>1, <2>1, <2>2, <2>3, <2>4 DEF Next, Step
<1>2. IInv /\ IInv' /\ [Next]_vars => [A]_vars
  BY <1>1
<1> QED  BY Invariant, <1>2, PTL DEF Spec, EachTurnNears
=============================================================================
