---------------------------- MODULE StoreProofs ----------------------------
(***************************************************************************)
(* Theorems about where the language keeps its values: the objects and     *)
(* their collector (module Collector), and the dictionaries through which  *)
(* the collector and the program find them (module Dict).                  *)
(*                                                                         *)
(* Collector: for any number of addresses and variables, and lists and     *)
(* dictionaries of any size.                                               *)
(*                                                                         *)
(* Dict: for any set of keys, any hash and any data.  What recursion       *)
(* finds in a tree is put in a function beside it, so that nothing below   *)
(* is recursive: B[n] is the set of the nodes at and below n, H[n] the     *)
(* number of black nodes on a path down from n.  A tree is Tidy with the   *)
(* false root in it, as a call works on it, and Rooted without, as it is   *)
(* between the calls.  A rotation is a change of three links, and the B    *)
(* and H of the tree it makes are given outright.  Then a pass of a loop,  *)
(* by the cases of the code; the loop, along the path to the hash; what    *)
(* is done at the end of the path; and the calls.                          *)
(***************************************************************************)
EXTENDS Collector, Dict, Lemmas, SequenceTheorems

-----------------------------------------------------------------------------
(* The collector.                                                          *)


\* What gc_track is not told of is a dictionary.
OthersTracked == \A o \in Allocated : o \in tracked \/ kind[o] = "dict"

\* NoCycles needs NoDangling: an address can only be used again if nobody
\* comes to it any more.
CollectorInv == CollectorTypeOK /\ OthersTracked /\ NoDangling /\ NoCycles

-----------------------------------------------------------------------------
(* What is reached *)

\* What is reached from R contains R, and with an object its parts.
LEMMA ReachClosed ==
  ASSUME NEW f, NEW R \in SUBSET Objects,
         \A o \in DOMAIN f : f[o] \subseteq Objects
  PROVE  /\ R \subseteq ReachIn(f, R)
         /\ Closed(f, ReachIn(f, R))
         /\ ReachIn(f, R) \subseteq Objects
<1>1. R \subseteq ReachIn(f, R) /\ ReachIn(f, R) \subseteq Objects
  BY DEF ReachIn
<1>2. ASSUME NEW o \in ReachIn(f, R) \cap DOMAIN f, NEW v \in f[o]
      PROVE  v \in ReachIn(f, R)
  <2>1. v \in Objects
    BY <1>2
  <2>2. ASSUME NEW S \in SUBSET Objects, R \subseteq S, Closed(f, S)
        PROVE  v \in S
    <3>1. o \in S
      BY <1>2, <2>2 DEF ReachIn
    <3> QED
      BY <1>2, <2>2, <3>1 DEF Closed
  <2> QED
    BY <2>1, <2>2 DEF ReachIn
<1> QED
  BY <1>1, <1>2 DEF Closed

\* It is the least such set.
LEMMA ReachLeast ==
  ASSUME NEW f, NEW R, NEW S \in SUBSET Objects, R \subseteq S, Closed(f, S)
  PROVE  ReachIn(f, R) \subseteq S
BY DEF ReachIn

\* From fewer objects fewer are reached, from the reached ones no more.
LEMMA ReachWithin ==
  ASSUME NEW f, NEW R \in SUBSET Objects, NEW Q, Q \subseteq ReachIn(f, R),
         \A o \in DOMAIN f : f[o] \subseteq Objects
  PROVE  ReachIn(f, Q) \subseteq ReachIn(f, R)
BY ReachClosed, ReachLeast

\* The objects at hand are objects, those of the variables among them.
LEMMA KnownObjects ==
  ASSUME CollectorTypeOK
  PROVE  /\ Known \in SUBSET Objects /\ EnvObjects \subseteq Known
         /\ \A o \in DOMAIN parts : parts[o] \subseteq Objects
         /\ DOMAIN parts = Allocated
BY DEF CollectorTypeOK, Known, EnvObjects

\* What is reached changes only where parts of reached objects do: if g has no
\* parts but those of f for the objects reached, it reaches no more.
LEMMA ReachKept ==
  ASSUME NEW f, NEW g, NEW R \in SUBSET Objects, NEW Q,
         Q \subseteq ReachIn(f, R),
         \A o \in DOMAIN f : f[o] \subseteq Objects,
         \A o \in ReachIn(f, R) \cap DOMAIN g : o \in DOMAIN f /\ g[o] = f[o]
  PROVE  ReachIn(g, Q) \subseteq ReachIn(f, R)
<1>1. Closed(g, ReachIn(f, R))
  BY ReachClosed DEF Closed
<1> QED
  BY <1>1, ReachClosed, ReachLeast

-----------------------------------------------------------------------------
(* A step that leaves the objects which are reached as they are *)

\* NoDangling and NoCycles survive a step that makes at most one object, free
\* until then, of parts that are at hand, and frees none that is reached from
\* what is at hand afterwards.  Q is what else is at hand afterwards.
LEMMA ReachedStay ==
  ASSUME CollectorTypeOK, NoDangling, NoCycles, CollectorTypeOK',
         NEW R \in SUBSET Objects, R \subseteq Reach(Known),
         NEW Fresh \in SUBSET Objects, Fresh \cap Reach(Known) = {},
         Known' \subseteq ReachIn(parts, R) \cup Fresh,
         ReachIn(parts, R) \cup Fresh \subseteq Allocated',
         \A p \in ReachIn(parts, R) : parts'[p] = parts[p],
         \A p \in Fresh : parts'[p] \subseteq ReachIn(parts, R)
  PROVE  NoDangling' /\ NoCycles'
<1> DEFINE M == ReachIn(parts, R)
           F == parts'
<1>1. /\ \A p \in DOMAIN parts : parts[p] \subseteq Objects
      /\ DOMAIN parts = Allocated /\ Known \in SUBSET Objects
      /\ DOMAIN F = Allocated'
  BY KnownObjects DEF CollectorTypeOK
<1>2. R \subseteq M /\ Closed(parts, M) /\ M \in SUBSET Objects
  BY <1>1, ReachClosed
<1>3. M \subseteq Reach(Known) /\ M \subseteq Allocated
  <2>1. Closed(parts, Reach(Known)) /\ Reach(Known) \subseteq Objects
    BY <1>1, ReachClosed DEF Reach
  <2>2. M \subseteq Reach(Known)
    BY <2>1, ReachLeast
  <2> QED
    BY <2>2 DEF NoDangling
<1>4. \A p \in M : F[p] = parts[p] /\ F[p] \subseteq M
  BY <1>1, <1>2, <1>3 DEF Closed
<1>5. Closed(F, M \cup Fresh)
  BY <1>4 DEF Closed
<1>6. Reach(Known)' = ReachIn(F, Known')
  BY DEF Reach
<1>7. ReachIn(F, Known') \subseteq M \cup Fresh
  BY <1>2, <1>5, ReachLeast
<1>8. NoDangling'
  BY <1>6, <1>7 DEF NoDangling
<1>9. ASSUME NEW p \in M \cup Fresh
      PROVE  p \notin ReachIn(F, F[p])
  <2>1. CASE p \in M
    <3>1. parts[p] \in SUBSET Objects /\ parts[p] \subseteq M /\ F[p] = parts[p]
      BY <1>1, <1>3, <1>4, <2>1
    <3>2. ReachIn(parts, parts[p]) \subseteq M
      BY <1>2, <3>1, ReachLeast
    <3>3. ReachIn(F, parts[p]) \subseteq ReachIn(parts, parts[p])
      <4>1. parts[p] \subseteq ReachIn(parts, parts[p])
        BY <1>1, <3>1, ReachClosed
      <4>2. \A o \in ReachIn(parts, parts[p]) \cap DOMAIN F :
              o \in DOMAIN parts /\ F[o] = parts[o]
        BY <1>1, <1>3, <1>4, <3>2
      <4> QED
        BY <1>1, <3>1, <4>1, <4>2, ReachKept
    <3>4. p \notin ReachIn(parts, parts[p])
      BY <1>3, <2>1 DEF NoCycles, Reach
    <3> QED
      BY <3>1, <3>3, <3>4
  <2>2. CASE p \in Fresh
    <3>1. F[p] \subseteq M
      BY <2>2
    <3>2. Closed(F, M)
      BY <1>4 DEF Closed
    <3>3. ReachIn(F, F[p]) \subseteq M
      BY <1>2, <3>1, <3>2, ReachLeast
    <3> QED
      BY <1>3, <2>2, <3>3
  <2> QED
    BY <2>1, <2>2
<1>10. NoCycles'
  BY <1>6, <1>7, <1>9 DEF NoCycles, Reach
<1> QED
  BY <1>8, <1>10

-----------------------------------------------------------------------------
(* The steps *)

\* The shell starts with no object.
LEMMA InitCollectorInv == Init => CollectorInv
<1> SUFFICES ASSUME Init PROVE CollectorInv
  OBVIOUS
<1>1. CollectorTypeOK /\ OthersTracked
  BY DEF Init, CollectorTypeOK, OthersTracked, Allocated
<1>2. Known = {}
  BY DEF Init, Known, EnvObjects
<1>3. Reach(Known) = {}
  <2>1. Closed(parts, {})
    BY DEF Closed
  <2> QED
    BY <1>2, <2>1, ReachLeast DEF Reach
<1> QED
  BY <1>1, <1>3 DEF CollectorInv, NoDangling, NoCycles

\* A new object takes an address nobody comes to, and has parts at hand.
LEMMA AllocCollectorInv ==
  ASSUME CollectorInv, NEW o, NEW k \in {"string", "list", "dict"},
         NEW ps \in SUBSET Known, ObjectAlloc(o, k, ps),
         temps' \in {temps, temps \cup {o}},
         (k = "dict" /\ tracked' = tracked) \/ GcTrack(o)
  PROVE  CollectorInv'
<1>1. /\ CollectorTypeOK /\ OthersTracked /\ NoDangling /\ NoCycles
      /\ Known \in SUBSET Objects
      /\ \A p \in DOMAIN parts : parts[p] \subseteq Objects
      /\ DOMAIN parts = Allocated
  BY KnownObjects DEF CollectorInv
<1>2. /\ o \in Objects \ Allocated
      /\ Allocated' = Allocated \cup {o}
      /\ kind' = [p \in Allocated \cup {o} |-> IF p = o THEN k ELSE kind[p]]
      /\ parts' = [p \in Allocated \cup {o} |-> IF p = o THEN ps ELSE parts[p]]
      /\ env' = env
  BY DEF ObjectAlloc, Allocated
<1>3. mark' \in [Allocated' -> BOOLEAN]
  <2>1. PICK m \in BOOLEAN :
          mark' = [p \in Allocated \cup {o} |-> IF p = o THEN m ELSE mark[p]]
    BY DEF ObjectAlloc
  <2> QED
    BY <1>1, <1>2, <2>1 DEF CollectorTypeOK
<1>4. CollectorTypeOK'
  <2>1. kind' \in [Allocated' -> {"string", "list", "dict"}]
    BY <1>1, <1>2 DEF CollectorTypeOK
  <2>2. parts' \in [Allocated' -> SUBSET Objects]
    BY <1>1, <1>2 DEF CollectorTypeOK
  <2>3. tracked' \subseteq Allocated'
    BY <1>1, <1>2 DEF CollectorTypeOK, GcTrack
  <2> QED
    BY <1>1, <1>2, <1>3, <2>1, <2>2, <2>3 DEF CollectorTypeOK
<1>5. OthersTracked'
  BY <1>1, <1>2 DEF OthersTracked, GcTrack
<1>6. Reach(Known) \subseteq Allocated /\ Known \subseteq Reach(Known)
  BY <1>1, ReachClosed DEF Reach, NoDangling
<1>7. Known' \subseteq Known \cup {o}
  BY <1>2 DEF Known, EnvObjects
<1>8. NoDangling' /\ NoCycles'
  <2>1. \A p \in Reach(Known) : parts'[p] = parts[p]
    BY <1>2, <1>6
  <2>2. parts'[o] = ps
    BY <1>2
  <2>3. {o} \cap Reach(Known) = {} /\ {o} \in SUBSET Objects
    BY <1>2, <1>6
  <2>4. Reach(Known) \cup {o} \subseteq Allocated'
    BY <1>2, <1>6
  <2> QED
    BY <1>1, <1>4, <1>6, <1>7, <2>1, <2>2, <2>3, <2>4, ReachedStay DEF Reach
<1> QED
  BY <1>4, <1>5, <1>8 DEF CollectorInv

\* Steps that make and free nothing bring nothing new to hand.
LEMMA HandCollectorInv ==
  ASSUME CollectorInv, UNCHANGED <<kind, parts, mark, tracked>>,
         env' \in [Vars -> Objects \cup {NoObject}], temps' \subseteq Objects,
         Known' \subseteq Reach(Known)
  PROVE  CollectorInv'
<1>1. /\ CollectorTypeOK /\ OthersTracked /\ NoDangling /\ NoCycles
      /\ Known \in SUBSET Objects
      /\ \A p \in DOMAIN parts : parts[p] \subseteq Objects
  BY KnownObjects DEF CollectorInv
<1>2. CollectorTypeOK' /\ OthersTracked' /\ Allocated' = Allocated
  BY <1>1 DEF CollectorTypeOK, OthersTracked, Allocated
<1>3. Reach(Known) \subseteq Allocated' /\ Known \subseteq Reach(Known)
  BY <1>1, <1>2, ReachClosed DEF Reach, NoDangling
<1>4. NoDangling' /\ NoCycles'
  <2>1. /\ Known' \subseteq ReachIn(parts, Known) \cup {}
        /\ ReachIn(parts, Known) \cup {} \subseteq Allocated'
        /\ {} \in SUBSET Objects /\ {} \cap Reach(Known) = {}
    BY <1>3 DEF Reach
  <2>2. \A p \in ReachIn(parts, Known) : parts'[p] = parts[p]
    OBVIOUS
  <2>3. \A p \in {} : parts'[p] \subseteq ReachIn(parts, Known)
    OBVIOUS
  <2> QED
    BY <1>1, <1>2, <1>3, <2>1, <2>2, <2>3, ReachedStay
<1> QED
  BY <1>2, <1>4 DEF CollectorInv

\* gc_empty marks all that the variables reach, and sweeps nothing marked.
LEMMA GcCollectorInv == ASSUME CollectorInv, GcEmpty PROVE CollectorInv'
<1>1. /\ CollectorTypeOK /\ OthersTracked /\ NoDangling /\ NoCycles
      /\ Known \in SUBSET Objects /\ EnvObjects \subseteq Known
      /\ \A p \in DOMAIN parts : parts[p] \subseteq Objects
      /\ DOMAIN parts = Allocated
  BY KnownObjects DEF CollectorInv
<1>2. /\ Allocated' = Survivors /\ Survivors \subseteq Allocated
      /\ kind' = [o \in Survivors |-> kind[o]]
      /\ parts' = [o \in Survivors |-> parts[o]]
      /\ mark' = [o \in Survivors |-> MarksAfter[o]]
      /\ tracked' = tracked \ Sweep /\ env' = env /\ temps' = {}
  BY DEF GcEmpty, Allocated, Survivors
<1>3. MarksAfter \in [Allocated -> BOOLEAN]
  BY <1>1 DEF MarksAfter, CollectorTypeOK
<1>4. CollectorTypeOK'
  BY <1>1, <1>2, <1>3 DEF CollectorTypeOK, Survivors
<1>5. OthersTracked'
  BY <1>1, <1>2 DEF OthersTracked, Survivors
<1>6. Known' = EnvObjects
  BY <1>2 DEF Known, EnvObjects
<1>7. EnvObjects \subseteq Marked /\ EnvObjects \in SUBSET Objects
  BY <1>1, ReachClosed DEF Marked, Reach
<1>8. Known \subseteq Reach(Known)
  BY <1>1, ReachClosed DEF Reach
<1>9. Marked \subseteq Survivors
  <2>1. Marked \subseteq Allocated
    <3>1. ReachIn(parts, EnvObjects) \subseteq ReachIn(parts, Known)
      BY <1>1, <1>8, ReachWithin DEF Reach
    <3> QED
      BY <1>1, <3>1 DEF Marked, Reach, NoDangling
  <2>2. \A o \in Marked : MarksAfter[o] = TRUE
    BY <2>1 DEF MarksAfter
  <2> QED
    BY <2>1, <2>2 DEF Survivors, Sweep
<1>10. NoDangling' /\ NoCycles'
  <2>1. EnvObjects \subseteq Reach(Known)
    BY <1>1, <1>8
  <2>2. \A p \in ReachIn(parts, EnvObjects) : parts'[p] = parts[p]
    BY <1>2, <1>9 DEF Marked, Reach
  <2>3. /\ Known' \subseteq ReachIn(parts, EnvObjects) \cup {}
        /\ ReachIn(parts, EnvObjects) \cup {} \subseteq Allocated'
        /\ {} \in SUBSET Objects /\ {} \cap Reach(Known) = {}
    BY <1>2, <1>6, <1>7, <1>9 DEF Marked, Reach
  <2>4. \A p \in {} : parts'[p] \subseteq ReachIn(parts, EnvObjects)
    OBVIOUS
  <2> QED
    BY <1>1, <1>4, <1>7, <2>1, <2>2, <2>3, <2>4, ReachedStay
<1> QED
  BY <1>4, <1>5, <1>10 DEF CollectorInv

\* Every step keeps the invariant.
LEMMA NextCollectorInv == ASSUME CollectorInv, Next PROVE CollectorInv'
<1>1. /\ CollectorTypeOK /\ Known \in SUBSET Objects
      /\ \A p \in DOMAIN parts : parts[p] \subseteq Objects
      /\ DOMAIN parts = Allocated
  BY KnownObjects DEF CollectorInv
<1>2. /\ Known \subseteq Reach(Known) /\ Closed(parts, Reach(Known))
      /\ Reach(Known) \in SUBSET Objects /\ Reach(Known) \subseteq Allocated
  BY <1>1, ReachClosed DEF Reach, CollectorInv, NoDangling
<1>3. ASSUME NEW o \in Objects, ObjectString(o) PROVE CollectorInv'
  BY <1>3, AllocCollectorInv DEF ObjectString
<1>4. ASSUME NEW o \in Objects, NEW ps \in SUBSET Known, ObjectList(o, ps)
      PROVE  CollectorInv'
  BY <1>4, AllocCollectorInv DEF ObjectList
<1>5. ASSUME NEW o \in Objects, NEW ps \in SUBSET Known, ObjectDict(o, ps)
      PROVE  CollectorInv'
  BY <1>5, AllocCollectorInv DEF ObjectDict
<1>6. ASSUME NEW d \in Known, NEW v \in Objects, Item(d, v) PROVE CollectorInv'
  <2>1. v \in Reach(Known)
    BY <1>1, <1>2, <1>6 DEF Item, Closed
  <2>2. Known' \subseteq Known \cup {v} /\ temps' \subseteq Objects
    BY <1>1, <1>6 DEF Item, Known, EnvObjects, CollectorTypeOK
  <2> QED
    BY <1>1, <1>2, <1>6, <2>1, <2>2, HandCollectorInv DEF Item, CollectorTypeOK
<1>7. ASSUME NEW x \in Vars, Identifier(x) PROVE CollectorInv'
  <2>1. Known' \subseteq Known /\ temps' \subseteq Objects
    BY <1>1, <1>7 DEF Identifier, Known, EnvObjects, CollectorTypeOK
  <2> QED
    BY <1>1, <1>2, <1>7, <2>1, HandCollectorInv DEF Identifier, CollectorTypeOK
<1>8. ASSUME NEW x \in Vars, NEW v \in Known \cup {NoObject}, ContextPut(x, v)
      PROVE  CollectorInv'
  <2>1. env' \in [Vars -> Objects \cup {NoObject}]
    BY <1>1, <1>8 DEF ContextPut, CollectorTypeOK
  <2>2. Known' \subseteq Known
    BY <1>1, <1>8 DEF ContextPut, Known, EnvObjects, CollectorTypeOK
  <2> QED
    BY <1>1, <1>2, <1>8, <2>1, <2>2, HandCollectorInv DEF ContextPut, CollectorTypeOK
<1>9. CASE GcEmpty
  BY <1>9, GcCollectorInv
<1> QED
  BY <1>3, <1>4, <1>5, <1>6, <1>7, <1>8, <1>9 DEF Next

-----------------------------------------------------------------------------
\* The inductive invariant.
THEOREM CollectorInductive == Spec => []CollectorInv
<1>1. Init => CollectorInv
  BY InitCollectorInv
<1>2. CollectorInv /\ [Next]_vars => CollectorInv'
  <2>1. ASSUME CollectorInv, UNCHANGED vars PROVE CollectorInv'
    BY <2>1 DEF vars, CollectorInv, CollectorTypeOK, OthersTracked, NoDangling, NoCycles,
                Reach, Known, EnvObjects, Allocated
  <2> QED
    BY <2>1, NextCollectorInv
<1> QED
  BY <1>1, <1>2, PTL DEF Spec

\* The list "tracked" names allocated objects only: gc_empty frees none twice.
THEOREM TypeCorrect == Spec => []CollectorTypeOK
<1>1. CollectorInv => CollectorTypeOK
  BY DEF CollectorInv
<1> QED
  BY <1>1, CollectorInductive, PTL

\* Whatever lines are run, and whatever they make and forget, neither a
\* variable nor the running line leads to an object that gc_empty freed.
THEOREM NothingUsedIsFreed == Spec => []NoDangling
<1>1. CollectorInv => NoDangling
  BY DEF CollectorInv
<1> QED
  BY <1>1, CollectorInductive, PTL

\* The recursions of object_mark and val_to_str end.
THEOREM MarkingEnds == Spec => []NoCycles
<1>1. CollectorInv => NoCycles
  BY DEF CollectorInv
<1> QED
  BY <1>1, CollectorInductive, PTL

\* Of what nothing leads to, gc_empty leaves dictionaries only.
THEOREM CollectsTheRest == Spec => OnlyDictsLeak
<1>1. CollectorInv /\ [Next]_vars =>
        [GcEmpty => \A o \in Allocated' : o \in Marked \/ kind[o] = "dict"]_vars
  <2> SUFFICES ASSUME CollectorInv, GcEmpty, NEW o \in Allocated', o \notin Marked
               PROVE  kind[o] = "dict"
    OBVIOUS
  <2>1. o \in Allocated /\ o \notin Sweep
    BY DEF GcEmpty, Allocated, Survivors
  <2>2. o \notin tracked
    BY <2>1 DEF Sweep, MarksAfter, CollectorInv, CollectorTypeOK
  <2> QED
    BY <2>1, <2>2 DEF CollectorInv, OthersTracked
<1> QED
  BY <1>1, CollectorInductive, PTL DEF Spec, OnlyDictsLeak


-----------------------------------------------------------------------------
(* Search trees.  N is the set of nodes, L their links, and B[n] the nodes *)
(* at and below n; B[NIL] is empty.                                        *)

\* b is on side d of a.
Beyond(d, a, b) == IF d = 1 THEN a < b ELSE b < a

Ordered(N, L, B) ==
  /\ N \subseteq Int /\ NIL \notin N /\ IsFiniteSet(N)
  /\ L \in [N -> [{0, 1} -> N \cup {NIL}]]
  /\ B \in [N \cup {NIL} -> SUBSET N] /\ B[NIL] = {}
  /\ \A n \in N : \A d, e \in {0, 1} :
       d # e => B[n] = {n} \cup B[L[n][d]] \cup B[L[n][e]]
  /\ \A n \in N : \A d \in {0, 1} : \A m \in B[L[n][d]] : Beyond(d, n, m)
  /\ \A m, n \in N : \A d, e \in {0, 1} :
       L[m][d] = L[n][e] /\ L[m][d] # NIL => m = n /\ d = e

LEMMA BeyondDef ==
  /\ \A d \in {0, 1} : 1 - d \in {0, 1} /\ 1 - d # d /\ 1 - (1 - d) = d
  /\ \A d, e, f \in {0, 1} : d # e /\ f # e => f = d
  /\ \A a, b \in Int : \A d \in {0, 1} : Beyond(d, a, b) => ~Beyond(d, b, a) /\ a # b
  /\ \A a, b \in Int : \A d, e \in {0, 1} : d # e => (Beyond(d, a, b) <=> Beyond(e, b, a))
  /\ \A a, b, c \in Int : \A d \in {0, 1} : Beyond(d, a, b) /\ Beyond(d, b, c) => Beyond(d, a, c)
BY DEF Beyond

LEMMA LinkIn ==
  ASSUME NEW N, NEW L, NEW B, Ordered(N, L, B), NEW n \in N, NEW d \in {0, 1}
  PROVE  L[n][d] \in N \cup {NIL}
BY DEF Ordered

\* A node is neither below itself nor on two sides of another.
LEMMA BelowOnce ==
  ASSUME NEW N, NEW L, NEW B, Ordered(N, L, B), NEW n \in N, NEW d \in {0, 1},
         NEW e \in {0, 1}, d # e
  PROVE  /\ n \in B[n] /\ B[n] \subseteq N
         /\ B[L[n][d]] \subseteq B[n]
         /\ n \notin B[L[n][d]]
         /\ B[n] = {n} \cup B[L[n][d]] \cup B[L[n][e]]
         /\ \A m \in B[L[n][d]] : m \notin B[L[n][e]] /\ m \in N /\ m \in Int /\ Beyond(d, n, m)
         /\ L[n][d] # NIL => /\ L[n][d] \in N /\ L[n][d] \in B[L[n][d]]
                             /\ L[n][d] # n /\ L[n][d] # L[n][e]
<1>1. L[n][d] \in N \cup {NIL} /\ L[n][e] \in N \cup {NIL} /\ N \subseteq Int /\ NIL \notin N
  BY LinkIn DEF Ordered
<1>2. /\ B[n] = {n} \cup B[L[n][d]] \cup B[L[n][e]] /\ B[n] \subseteq N
      /\ B[L[n][d]] \subseteq N /\ B[L[n][e]] \subseteq N
      /\ \A m \in B[L[n][d]] : Beyond(d, n, m)
      /\ \A m \in B[L[n][e]] : Beyond(e, n, m)
  BY <1>1 DEF Ordered
<1>3. \A c \in N : c \in B[c]
  BY DEF Ordered
<1>4. \A m \in B[L[n][d]] : m \notin B[L[n][e]] /\ m \in N /\ m \in Int /\ m # n
  <2> TAKE m \in B[L[n][d]]
  <2>1. m \in N /\ m \in Int /\ n \in Int
    BY <1>1, <1>2
  <2>2. Beyond(d, n, m) /\ m # n
    BY <1>2, <2>1, BeyondDef
  <2>3. ~Beyond(e, n, m)
    BY <2>1, <2>2, BeyondDef
  <2> QED
    BY <1>2, <2>1, <2>2, <2>3
<1>5. L[n][d] # NIL => L[n][d] \in N /\ L[n][d] \in B[L[n][d]] /\ L[n][d] # n /\ L[n][d] # L[n][e]
  BY <1>1, <1>3, <1>4
<1>6. n \in B[n] /\ B[L[n][d]] \subseteq B[n] /\ n \notin B[L[n][d]]
  BY <1>2, <1>4
<1>7. \A m \in B[L[n][d]] : m \notin B[L[n][e]] /\ m \in N /\ m \in Int /\ Beyond(d, n, m)
  BY <1>2, <1>4
<1> QED
  BY <1>2, <1>5, <1>6, <1>7

\* Induction from the leaves up.
LEMMA TreeInduction ==
  ASSUME NEW N, NEW L, NEW B, Ordered(N, L, B), NEW Q, NIL \in Q,
         \A n \in N : L[n][0] \in Q /\ L[n][1] \in Q => n \in Q
  PROVE  N \subseteq Q
<1>1. SUFFICES ASSUME N \ Q # {} PROVE FALSE
  OBVIOUS
<1> DEFINE T == {Cardinality(B[n]) : n \in N \ Q}
<1>2. ASSUME NEW n \in N PROVE IsFiniteSet(B[n]) /\ Cardinality(B[n]) \in Nat
  <2>1. B[n] \subseteq N /\ IsFiniteSet(N)
    BY BelowOnce DEF Ordered
  <2> QED
    BY <2>1, FS_Subset, FS_CardinalityType
<1>3. T \subseteq Nat /\ T # {}
  BY <1>1, <1>2
<1> HIDE DEF T
<1>4. PICK k \in T : \A m \in T : k <= m
  BY <1>3, Least
<1>5. PICK n \in N \ Q : k = Cardinality(B[n])
  BY DEF T
<1>6. PICK d \in {0, 1} : L[n][d] \notin Q
  BY <1>5
<1>7. L[n][d] \in N \ Q
  BY <1>6, LinkIn
<1>8. Cardinality(B[L[n][d]]) < Cardinality(B[n])
  <2>1. B[L[n][d]] \subseteq B[n] /\ n \in B[n] /\ n \notin B[L[n][d]]
    BY BelowOnce
  <2>2. Cardinality(B[L[n][d]]) <= Cardinality(B[n]) /\ Cardinality(B[L[n][d]]) # Cardinality(B[n])
    BY <1>2, <2>1, FS_Subset
  <2> QED
    BY <1>2, <1>7, <2>2
<1>9. k <= Cardinality(B[L[n][d]])
  BY <1>4, <1>7 DEF T
<1> QED
  BY <1>2, <1>5, <1>7, <1>8, <1>9

\* What is below a node that is below n is below n.
LEMMA BelowBelow ==
  ASSUME NEW N, NEW L, NEW B, Ordered(N, L, B), NEW n \in N \cup {NIL}, NEW m \in B[n]
  PROVE  m \in N /\ B[m] \subseteq B[n]
<1> DEFINE Q == {c \in N \cup {NIL} : \A x \in B[c] : B[x] \subseteq B[c]}
<1>1. NIL \in Q
  BY DEF Ordered
<1>2. ASSUME NEW c \in N, L[c][0] \in Q, L[c][1] \in Q PROVE c \in Q
  <2>1. SUFFICES ASSUME NEW x \in B[c] PROVE B[x] \subseteq B[c]
    OBVIOUS
  <2>2. /\ B[c] = {c} \cup B[L[c][0]] \cup B[L[c][1]]
        /\ B[L[c][0]] \subseteq B[c] /\ B[L[c][1]] \subseteq B[c]
    <3>1. 0 \in {0, 1} /\ 1 \in {0, 1} /\ 0 # 1
      OBVIOUS
    <3> QED
      BY <3>1, BelowOnce
  <2>3. CASE x = c
    BY <2>3
  <2>4. CASE x \in B[L[c][0]]
    BY <1>2, <2>2, <2>4
  <2>5. CASE x \in B[L[c][1]]
    BY <1>2, <2>2, <2>5
  <2> QED
    BY <2>2, <2>3, <2>4, <2>5
<1> HIDE DEF Q
<1>3. N \subseteq Q
  BY <1>1, <1>2, TreeInduction
<1>4. n \in Q
  BY <1>1, <1>3
<1>5. B[n] \subseteq N
  BY DEF Ordered
<1> QED
  BY <1>4, <1>5 DEF Q

LEMMA BelowAntisym ==
  ASSUME NEW N, NEW L, NEW B, Ordered(N, L, B), NEW n \in N, NEW d \in {0, 1},
         NEW m \in B[L[n][d]]
  PROVE  m \in N /\ n \notin B[m] /\ B[m] \subseteq B[L[n][d]] /\ m # n
<1>1. L[n][d] \in N \cup {NIL}
  BY LinkIn
<1>2. m \in N /\ B[m] \subseteq B[L[n][d]]
  BY <1>1, BelowBelow
<1>3. n \notin B[L[n][d]]
  BY BelowOnce, BeyondDef
<1> QED
  BY <1>2, <1>3

\* The parent of a node below c, other than c, is below c.
LEMMA ParentBelow ==
  ASSUME NEW N, NEW L, NEW B, Ordered(N, L, B), NEW c \in N, NEW y \in N, NEW d \in {0, 1},
         L[y][d] \in B[c], L[y][d] # c
  PROVE  y \in B[c]
<1> DEFINE Q == {a \in N \cup {NIL} : \A x \in B[a] : x = a \/ \E z \in B[a] : \E e \in {0, 1} : L[z][e] = x}
<1>1. NIL \in Q
  BY DEF Ordered
<1>2. ASSUME NEW a \in N, L[a][0] \in Q, L[a][1] \in Q PROVE a \in Q
  <2>1. SUFFICES ASSUME NEW x \in B[a], x # a
                 PROVE  \E z \in B[a] : \E e \in {0, 1} : L[z][e] = x
    OBVIOUS
  <2>2. PICK e \in {0, 1} : x \in B[L[a][e]]
    BY <2>1 DEF Ordered
  <2>3. a \in B[a] /\ B[L[a][e]] \subseteq B[a] /\ L[a][e] \in Q
    BY <1>2, BelowOnce, BeyondDef
  <2>4. x = L[a][e] \/ \E z \in B[L[a][e]] : \E f \in {0, 1} : L[z][f] = x
    BY <2>2, <2>3
  <2> QED
    BY <2>3, <2>4
<1> HIDE DEF Q
<1>3. N \subseteq Q
  BY <1>1, <1>2, TreeInduction
<1>4. PICK z \in B[c] : \E e \in {0, 1} : L[z][e] = L[y][d]
  BY <1>3 DEF Q
<1>5. z \in N /\ L[y][d] # NIL
  <2>1. B[c] \subseteq N /\ NIL \notin N
    BY DEF Ordered
  <2> QED
    BY <2>1
<1>6. z = y
  BY <1>4, <1>5 DEF Ordered
<1> QED
  BY <1>6

\* Two nodes below c are below one another or on two sides of a third.
LEMMA Parting ==
  ASSUME NEW N, NEW L, NEW B, Ordered(N, L, B), NEW c \in N, NEW x \in B[c], NEW y \in B[c]
  PROVE  \/ x \in B[y] \/ y \in B[x]
         \/ \E a \in N : \E e \in {0, 1} : x \in B[L[a][e]] /\ y \in B[L[a][1 - e]]
<1> DEFINE Apart(u, v) == \/ u \in B[v] \/ v \in B[u]
                          \/ \E a \in N : \E e \in {0, 1} : u \in B[L[a][e]] /\ v \in B[L[a][1 - e]]
           Q == {a \in N \cup {NIL} : \A u, v \in B[a] : Apart(u, v)}
<1>1. NIL \in Q
  BY DEF Ordered
<1>2. ASSUME NEW a \in N, L[a][0] \in Q, L[a][1] \in Q PROVE a \in Q
  <2>1. SUFFICES ASSUME NEW u \in B[a], NEW v \in B[a] PROVE Apart(u, v)
    OBVIOUS
  <2>2. B[a] = {a} \cup B[L[a][0]] \cup B[L[a][1]]
    BY DEF Ordered
  <2>3. CASE u = a \/ v = a
    BY <2>3
  <2>4. CASE u \in B[L[a][0]] /\ v \in B[L[a][0]]
    BY <1>2, <2>4
  <2>5. CASE u \in B[L[a][1]] /\ v \in B[L[a][1]]
    BY <1>2, <2>5
  <2>6. CASE u \in B[L[a][0]] /\ v \in B[L[a][1]]
    <3>1. 0 \in {0, 1} /\ 1 - 0 = 1
      OBVIOUS
    <3> QED
      BY <2>6, <3>1
  <2>7. CASE u \in B[L[a][1]] /\ v \in B[L[a][0]]
    <3>1. 1 \in {0, 1} /\ 1 - 1 = 0
      OBVIOUS
    <3> QED
      BY <2>7, <3>1
  <2> QED
    BY <2>2, <2>3, <2>4, <2>5, <2>6, <2>7
<1> HIDE DEF Q
<1>3. N \subseteq Q
  BY <1>1, <1>2, TreeInduction
<1> QED
  BY <1>3 DEF Q

-----------------------------------------------------------------------------
(* A rotation: c, the child of r on side e, comes up, and r goes down to its *)
(* side d.                                                                   *)

IsTurned(N, L, M, up, side, r, c, d, e) ==
  /\ M \in [N -> [{0, 1} -> N \cup {NIL}]]
  /\ M[up][side] = c /\ M[r][e] = L[c][d] /\ M[c][d] = r
  /\ \A n \in N : \A f \in {0, 1} :
       \/ n = up /\ f = side
       \/ n = r /\ f = e
       \/ n = c /\ f = d
       \/ M[n][f] = L[n][f]

\* The rotation can be made.
CanTurn(N, L, up, side, r, c, d, e) ==
  /\ d \in {0, 1} /\ e \in {0, 1} /\ d # e
  /\ up \in N /\ side \in {0, 1} /\ r \in N /\ c \in N
  /\ L[up][side] = r /\ L[r][e] = c

TurnedB(L, B, r, c, d) ==
  [B EXCEPT ![c] = B[r], ![r] = {r} \cup B[L[r][d]] \cup B[L[c][d]]]

\* What is below the nodes and their links then.
BelowTurned(N, L, B, M, D, r, c, d, e) ==
  /\ D \in [N \cup {NIL} -> SUBSET N] /\ D[NIL] = {}
  /\ D[c] = B[r]
  /\ D[r] = {r} \cup B[L[r][d]] \cup B[L[c][d]]
  /\ \A n \in N : n = r \/ n = c \/ D[n] = B[n]
  /\ \A n \in N : \A f \in {0, 1} :
       \/ n = r /\ f = e
       \/ n = c /\ f = d
       \/ D[M[n][f]] = B[L[n][f]]
  /\ D[M[r][e]] = B[L[c][d]]
  /\ D[M[c][d]] = D[r]

LEMMA TurnApart ==
  ASSUME NEW N, NEW L, NEW B, Ordered(N, L, B), NEW up, NEW side, NEW r, NEW c, NEW d, NEW e,
         CanTurn(N, L, up, side, r, c, d, e)
  PROVE  /\ up # r /\ up # c /\ r # c
         /\ up \notin B[r] /\ r \notin B[c]
         /\ c \in B[c] /\ r \in B[r] /\ c \in B[r] /\ B[c] \subseteq B[r]
         /\ \A n \in N : \A f \in {0, 1} : L[n][f] = r => n = up /\ f = side
         /\ \A n \in N : \A f \in {0, 1} : L[n][f] = c => n = r /\ f = e
<1>1. /\ d \in {0, 1} /\ e \in {0, 1} /\ d # e
      /\ up \in N /\ side \in {0, 1} /\ r \in N /\ c \in N
      /\ L[up][side] = r /\ L[r][e] = c
  BY DEF CanTurn
<1>2. c \in B[c] /\ r \in B[r] /\ B[c] \subseteq B[r] /\ r \notin B[c]
  BY <1>1, BelowOnce
<1>3. up \notin B[r]
  BY <1>1, <1>2, BelowAntisym
<1>4. NIL \notin N
  BY DEF Ordered
<1>5. \A n \in N : \A f \in {0, 1} : L[n][f] = r => n = up /\ f = side
  BY <1>1, <1>4 DEF Ordered
<1>6. \A n \in N : \A f \in {0, 1} : L[n][f] = c => n = r /\ f = e
  BY <1>1, <1>4 DEF Ordered
<1> QED
  BY <1>2, <1>3, <1>5, <1>6

LEMMA TurnBelow ==
  ASSUME NEW N, NEW L, NEW B, Ordered(N, L, B), NEW up, NEW side, NEW r, NEW c, NEW d, NEW e,
         CanTurn(N, L, up, side, r, c, d, e), NEW M, IsTurned(N, L, M, up, side, r, c, d, e)
  PROVE  BelowTurned(N, L, B, M, TurnedB(L, B, r, c, d), r, c, d, e)
<1>1. PICK D : D = TurnedB(L, B, r, c, d)
  OBVIOUS
<1>2. /\ d \in {0, 1} /\ e \in {0, 1} /\ d # e
      /\ up \in N /\ side \in {0, 1} /\ r \in N /\ c \in N
      /\ L[up][side] = r /\ L[r][e] = c
  BY DEF CanTurn
<1>3. NIL \notin N /\ B \in [N \cup {NIL} -> SUBSET N] /\ B[NIL] = {}
  BY DEF Ordered
<1>4. /\ up # r /\ up # c /\ r # c
      /\ \A n \in N : \A f \in {0, 1} : L[n][f] = r => n = up /\ f = side
      /\ \A n \in N : \A f \in {0, 1} : L[n][f] = c => n = r /\ f = e
  BY TurnApart
<1>5. L[r][d] \in N \cup {NIL} /\ L[c][d] \in N \cup {NIL}
  BY <1>2, LinkIn
<1>6. /\ D \in [N \cup {NIL} -> SUBSET N] /\ D[NIL] = {}
      /\ D[c] = B[r]
      /\ D[r] = {r} \cup B[L[r][d]] \cup B[L[c][d]]
      /\ \A n \in N \cup {NIL} : n = r \/ n = c \/ D[n] = B[n]
  BY <1>1, <1>2, <1>3, <1>4, <1>5 DEF TurnedB
<1>7. L[c][d] # r /\ L[c][d] # c /\ M[r][e] = L[c][d] /\ M[c][d] = r /\ M[up][side] = c
  BY <1>2, <1>4 DEF IsTurned
<1>8. ASSUME NEW n \in N, NEW f \in {0, 1}, ~(n = r /\ f = e), ~(n = c /\ f = d)
      PROVE  D[M[n][f]] = B[L[n][f]]
  <2>1. CASE n = up /\ f = side
    BY <1>2, <1>6, <1>7, <2>1
  <2>2. CASE ~(n = up /\ f = side)
    <3>1. M[n][f] = L[n][f]
      BY <1>8, <2>2 DEF IsTurned
    <3>2. L[n][f] # r /\ L[n][f] # c /\ L[n][f] \in N \cup {NIL}
      BY <1>4, <1>8, <2>2, LinkIn
    <3> QED
      BY <1>6, <3>1, <3>2
  <2> QED
    BY <2>1, <2>2
<1>9. D[M[r][e]] = B[L[c][d]] /\ D[M[c][d]] = D[r]
  BY <1>5, <1>6, <1>7
<1>10. \A n \in N : n = r \/ n = c \/ D[n] = B[n]
  BY <1>6
<1>11. BelowTurned(N, L, B, M, D, r, c, d, e)
  BY <1>6, <1>8, <1>9, <1>10 DEF BelowTurned
<1> QED
  BY <1>1, <1>11

LEMMA TurnInjective ==
  ASSUME NEW N, NEW L, NEW B, Ordered(N, L, B), NEW up, NEW side, NEW r, NEW c, NEW d, NEW e,
         CanTurn(N, L, up, side, r, c, d, e), NEW M, IsTurned(N, L, M, up, side, r, c, d, e)
  PROVE  \A m, n \in N : \A f, g \in {0, 1} :
           M[m][f] = M[n][g] /\ M[m][f] # NIL => m = n /\ f = g
<1>1. /\ d \in {0, 1} /\ e \in {0, 1} /\ d # e
      /\ up \in N /\ side \in {0, 1} /\ r \in N /\ c \in N
      /\ L[up][side] = r /\ L[r][e] = c
  BY DEF CanTurn
<1>2. up # r /\ up # c /\ r # c
  BY TurnApart
<1> DEFINE Node(n, f) == IF n = up /\ f = side THEN r ELSE IF n = r /\ f = e THEN c
                         ELSE IF n = c /\ f = d THEN up ELSE n
           Way(n, f) == IF n = up /\ f = side THEN e ELSE IF n = r /\ f = e THEN d
                        ELSE IF n = c /\ f = d THEN side ELSE f
<1>3. ASSUME NEW n \in N, NEW f \in {0, 1}
      PROVE  Node(n, f) \in N /\ Way(n, f) \in {0, 1} /\ M[n][f] = L[Node(n, f)][Way(n, f)]
  BY <1>1, <1>2, <1>3 DEF IsTurned
<1>4. ASSUME NEW m \in N, NEW n \in N, NEW f \in {0, 1}, NEW g \in {0, 1},
             Node(m, f) = Node(n, g), Way(m, f) = Way(n, g)
      PROVE  m = n /\ f = g
  BY <1>1, <1>2, <1>4
<1> HIDE DEF Node, Way
<1>5. ASSUME NEW m \in N, NEW n \in N, NEW f \in {0, 1}, NEW g \in {0, 1},
             M[m][f] = M[n][g], M[m][f] # NIL
      PROVE  m = n /\ f = g
  <2>1. /\ Node(m, f) \in N /\ Way(m, f) \in {0, 1} /\ Node(n, g) \in N /\ Way(n, g) \in {0, 1}
        /\ L[Node(m, f)][Way(m, f)] = L[Node(n, g)][Way(n, g)]
        /\ L[Node(m, f)][Way(m, f)] # NIL
    BY <1>3, <1>5
  <2>2. \A a, b \in N : \A x, y \in {0, 1} : L[a][x] = L[b][y] /\ L[a][x] # NIL => a = b /\ x = y
    BY DEF Ordered
  <2>3. Node(m, f) = Node(n, g) /\ Way(m, f) = Way(n, g)
    BY <2>1, <2>2
  <2> QED
    BY <1>4, <2>3
<1> QED
  BY <1>5

\* A rotation keeps the order.
LEMMA TurnOrdered ==
  ASSUME NEW N, NEW L, NEW B, Ordered(N, L, B), NEW up, NEW side, NEW r, NEW c, NEW d, NEW e,
         CanTurn(N, L, up, side, r, c, d, e), NEW M, IsTurned(N, L, M, up, side, r, c, d, e)
  PROVE  Ordered(N, M, TurnedB(L, B, r, c, d))
<1>1. /\ d \in {0, 1} /\ e \in {0, 1} /\ d # e
      /\ up \in N /\ side \in {0, 1} /\ r \in N /\ c \in N
      /\ L[up][side] = r /\ L[r][e] = c
  BY DEF CanTurn
<1>2. /\ up # r /\ up # c /\ r # c /\ r \notin B[c]
      /\ c \in B[c] /\ r \in B[r] /\ c \in B[r] /\ B[c] \subseteq B[r]
  BY TurnApart
<1>3. PICK D : D = TurnedB(L, B, r, c, d)
  OBVIOUS
<1>4. BelowTurned(N, L, B, M, D, r, c, d, e)
  BY <1>3, TurnBelow
<1>5. /\ B[r] = {r} \cup B[L[r][d]] \cup B[c]
      /\ B[c] = {c} \cup B[L[c][d]] \cup B[L[c][e]]
  BY <1>1, BelowOnce
<1>6. ASSUME NEW n \in N, NEW f \in {0, 1}, NEW g \in {0, 1}, f # g
      PROVE  D[n] = {n} \cup D[M[n][f]] \cup D[M[n][g]]
  <2>1. B[n] = {n} \cup B[L[n][f]] \cup B[L[n][g]]
    BY <1>6, BelowOnce
  <2>2. (f = d /\ g = e) \/ (f = e /\ g = d)
    BY <1>1, <1>6
  <2>3. CASE n = r
    <3>1. D[M[n][d]] = B[L[n][d]] /\ D[M[n][e]] = B[L[c][d]]
      BY <1>1, <1>2, <1>4, <2>3 DEF BelowTurned
    <3> QED
      BY <1>4, <2>2, <2>3, <3>1 DEF BelowTurned
  <2>4. CASE n = c
    <3>1. D[M[n][d]] = D[r] /\ D[M[n][e]] = B[L[c][e]]
      BY <1>1, <1>2, <1>4, <2>4 DEF BelowTurned
    <3> QED
      BY <1>4, <1>5, <2>2, <2>4, <3>1 DEF BelowTurned
  <2>5. CASE n # r /\ n # c
    BY <1>4, <2>1, <2>5 DEF BelowTurned
  <2> QED
    BY <2>3, <2>4, <2>5
<1>7. ASSUME NEW n \in N, NEW f \in {0, 1}, NEW m \in D[M[n][f]]
      PROVE  Beyond(f, n, m)
  <2>1. N \subseteq Int /\ B \in [N \cup {NIL} -> SUBSET N]
    BY DEF Ordered
  <2>2. Beyond(e, r, c) /\ Beyond(d, c, r)
    BY <1>1, <1>2, <2>1, BelowOnce, BeyondDef
  <2>3. CASE n = r /\ f = e
    <3>1. m \in B[c]
      BY <1>4, <1>5, <2>3 DEF BelowTurned
    <3> QED
      BY <1>1, <2>3, <3>1, BelowOnce
  <2>4. CASE n = c /\ f = d
    <3>1. m = r \/ m \in B[L[r][d]] \/ m \in B[L[c][d]]
      BY <1>4, <2>4 DEF BelowTurned
    <3>2. CASE m = r
      BY <2>2, <2>4, <3>2
    <3>3. CASE m \in B[L[r][d]]
      <4>1. Beyond(d, r, m) /\ m \in Int
        BY <1>1, <3>3, BelowOnce
      <4> QED
        BY <1>1, <2>1, <2>2, <2>4, <4>1, BeyondDef
    <3>4. CASE m \in B[L[c][d]]
      BY <1>1, <2>4, <3>4, BelowOnce
    <3> QED
      BY <3>1, <3>2, <3>3, <3>4
  <2>5. CASE ~(n = r /\ f = e) /\ ~(n = c /\ f = d)
    <3>1. m \in B[L[n][f]]
      BY <1>4, <1>7, <2>5 DEF BelowTurned
    <3> QED
      BY <3>1 DEF Ordered
  <2> QED
    BY <2>3, <2>4, <2>5
<1>8. \A m, n \in N : \A f, g \in {0, 1} :
        M[m][f] = M[n][g] /\ M[m][f] # NIL => m = n /\ f = g
  BY TurnInjective
<1>9. N \subseteq Int /\ NIL \notin N /\ IsFiniteSet(N) /\ M \in [N -> [{0, 1} -> N \cup {NIL}]]
  BY DEF Ordered, IsTurned
<1>10. Ordered(N, M, D)
  BY <1>4, <1>6, <1>7, <1>8, <1>9 DEF Ordered, BelowTurned
<1> QED
  BY <1>3, <1>10

-----------------------------------------------------------------------------
(* Colours.  H[n] is the number of black nodes on each path down from n; *)
(* nothing is said of the false root's.                                  *)

IsRed(C, n) == n # NIL /\ C[n]

Even(N, L, C, H) ==
  /\ C \in [N -> BOOLEAN] /\ H \in [N \cup {NIL} -> Nat] /\ H[NIL] = 0
  /\ \A n \in N \ {HEAD} : \A d \in {0, 1} :
       H[n] = IF C[n] THEN H[L[n][d]] ELSE H[L[n][d]] + 1

\* All nodes are below the false root.
Headed(N, L, C, B) ==
  HEAD \in N /\ ~C[HEAD] /\ L[HEAD][0] = NIL /\ B[HEAD] = N

Sound(N, L, C, B, H) == Ordered(N, L, B) /\ Even(N, L, C, H) /\ Headed(N, L, C, B)

NoRedRed(N, L, C) ==
  \A n \in N : \A d \in {0, 1} : C[n] => ~IsRed(C, L[n][d])

Typed(N, L, C, B, H) ==
  /\ N \subseteq Int /\ NIL \notin N /\ IsFiniteSet(N) /\ HEAD \in N /\ ~C[HEAD]
  /\ L \in [N -> [{0, 1} -> N \cup {NIL}]]
  /\ B \in [N \cup {NIL} -> SUBSET N] /\ B[NIL] = {} /\ B[HEAD] = N
  /\ C \in [N -> BOOLEAN] /\ H \in [N \cup {NIL} -> Nat] /\ H[NIL] = 0
  /\ L[HEAD][0] = NIL
  /\ \A n \in N : \A d \in {0, 1} :
       /\ L[n][d] \in N \cup {NIL}
       /\ L[n][d] # n /\ L[n][d] # HEAD
       /\ L[n][d] \in N => L[n][d] \in B[L[n][d]]
  /\ \A n \in N : n \in B[n]

LEMMA SoundTypes ==
  ASSUME NEW N, NEW L, NEW C, NEW B, NEW H, Sound(N, L, C, B, H)
  PROVE  Typed(N, L, C, B, H)
<1>1. /\ N \subseteq Int /\ NIL \notin N /\ IsFiniteSet(N) /\ HEAD \in N /\ ~C[HEAD]
      /\ L \in [N -> [{0, 1} -> N \cup {NIL}]]
      /\ B \in [N \cup {NIL} -> SUBSET N] /\ B[NIL] = {} /\ B[HEAD] = N
      /\ C \in [N -> BOOLEAN] /\ H \in [N \cup {NIL} -> Nat] /\ H[NIL] = 0
      /\ L[HEAD][0] = NIL /\ Ordered(N, L, B)
  BY DEF Sound, Ordered, Even, Headed
<1>2. ASSUME NEW n \in N PROVE n \in B[n]
  BY <1>1, BelowOnce, BeyondDef
<1>3. ASSUME NEW n \in N, NEW d \in {0, 1}
      PROVE  /\ L[n][d] \in N \cup {NIL}
             /\ L[n][d] # n /\ L[n][d] # HEAD
             /\ L[n][d] \in N => L[n][d] \in B[L[n][d]]
  <2>1. L[n][d] \in N \cup {NIL}
    BY <1>1
  <2>2. CASE L[n][d] = NIL
    BY <1>1, <2>1, <2>2 DEF NIL, HEAD
  <2>3. CASE L[n][d] \in N
    <3>1. L[n][d] \in B[L[n][d]]
      BY <1>2, <2>3
    <3>2. n \notin B[L[n][d]]
      BY <1>1, <3>1, BelowAntisym
    <3> QED
      BY <1>1, <2>1, <3>1, <3>2
  <2> QED
    BY <2>1, <2>2, <2>3
<1> QED
  BY <1>1, <1>2, <1>3 DEF Typed

\* The nodes of a rotation are not the false root, and it stays where it is.
LEMMA TurnHeaded ==
  ASSUME NEW N, NEW L, NEW C, NEW B, NEW H, Sound(N, L, C, B, H),
         NEW up, NEW side, NEW r, NEW c, NEW d, NEW e,
         CanTurn(N, L, up, side, r, c, d, e), NEW M, IsTurned(N, L, M, up, side, r, c, d, e),
         NEW D, ~D[HEAD]
  PROVE  /\ r # HEAD /\ c # HEAD
         /\ Headed(N, M, D, TurnedB(L, B, r, c, d))
<1>1. Typed(N, L, C, B, H)
  BY SoundTypes
<1>2. /\ r \in N /\ c \in N /\ up \in N /\ side \in {0, 1} /\ d \in {0, 1} /\ e \in {0, 1}
      /\ L[up][side] = r /\ L[r][e] = c /\ Ordered(N, L, B)
  BY DEF CanTurn, Sound
<1>3. r # HEAD /\ c # HEAD /\ HEAD \in N /\ L[HEAD][0] = NIL /\ B[HEAD] = N /\ NIL \notin N
  BY <1>1, <1>2 DEF Typed
<1>4. PICK E : E = TurnedB(L, B, r, c, d)
  OBVIOUS
<1>5. BelowTurned(N, L, B, M, E, r, c, d, e)
  BY <1>2, <1>4, TurnBelow
<1>6. E[HEAD] = N
  BY <1>3, <1>5 DEF BelowTurned
<1>7. M[HEAD][0] = NIL
  BY <1>2, <1>3 DEF IsTurned
<1> QED
  BY <1>3, <1>4, <1>6, <1>7 DEF Headed

\* A red node comes up above a red node.
LEMMA TurnRedRed ==
  ASSUME NEW N, NEW L, NEW C, NEW B, NEW H, Sound(N, L, C, B, H),
         NEW up, NEW side, NEW r, NEW c, NEW d, NEW e,
         CanTurn(N, L, up, side, r, c, d, e), NEW M, IsTurned(N, L, M, up, side, r, c, d, e),
         C[r], C[c]
  PROVE  Sound(N, M, C, TurnedB(L, B, r, c, d), H)
<1>1. Typed(N, L, C, B, H)
  BY SoundTypes
<1>2. /\ r \in N /\ c \in N /\ up \in N /\ side \in {0, 1} /\ d \in {0, 1} /\ e \in {0, 1} /\ d # e
      /\ L[up][side] = r /\ L[r][e] = c /\ Ordered(N, L, B)
  BY DEF CanTurn, Sound
<1>3. r # HEAD /\ c # HEAD /\ Headed(N, M, C, TurnedB(L, B, r, c, d))
  BY <1>1, TurnHeaded DEF Typed
<1>4. Ordered(N, M, TurnedB(L, B, r, c, d))
  BY <1>2, TurnOrdered
<1>5. H[r] = H[c] /\ H[r] = H[L[r][d]] /\ H[c] = H[L[c][d]] /\ H[c] = H[L[c][e]]
  BY <1>2, <1>3 DEF Sound, Even
<1>6. ASSUME NEW n \in N \ {HEAD}, NEW f \in {0, 1}
      PROVE  H[M[n][f]] = H[L[n][f]]
  <2>1. M[up][side] = c /\ M[r][e] = L[c][d] /\ M[c][d] = r
    BY DEF IsTurned
  <2>2. \/ n = up /\ f = side
        \/ n = r /\ f = e
        \/ n = c /\ f = d
        \/ M[n][f] = L[n][f]
    BY DEF IsTurned
  <2> QED
    BY <1>2, <1>5, <2>1, <2>2
<1>7. Even(N, M, C, H)
  BY <1>6 DEF Sound, Even
<1> QED
  BY <1>3, <1>4, <1>7 DEF Sound

Swapped(N, C, D, r, c) ==
  /\ D \in [N -> BOOLEAN] /\ D[r] /\ ~D[c]
  /\ \A n \in N : n = r \/ n = c \/ (D[n] <=> C[n])

\* A red node comes up above a black node, and they change colours.
LEMMA TurnBlackRed ==
  ASSUME NEW N, NEW L, NEW C, NEW B, NEW H, Sound(N, L, C, B, H),
         NEW up, NEW side, NEW r, NEW c, NEW d, NEW e,
         CanTurn(N, L, up, side, r, c, d, e), NEW M, IsTurned(N, L, M, up, side, r, c, d, e),
         ~C[r], C[c], NEW D, Swapped(N, C, D, r, c)
  PROVE  \E K : Sound(N, M, D, TurnedB(L, B, r, c, d), K)
<1>1. Typed(N, L, C, B, H)
  BY SoundTypes
<1>2. /\ r \in N /\ c \in N /\ up \in N /\ side \in {0, 1} /\ d \in {0, 1} /\ e \in {0, 1} /\ d # e
      /\ L[up][side] = r /\ L[r][e] = c /\ Ordered(N, L, B)
  BY DEF CanTurn, Sound
<1>3. /\ HEAD \in N /\ ~C[HEAD] /\ C \in [N -> BOOLEAN]
      /\ H \in [N \cup {NIL} -> Nat] /\ H[NIL] = 0 /\ NIL \notin N
      /\ \A n \in N : \A f \in {0, 1} : L[n][f] \in N \cup {NIL} /\ L[n][f] # HEAD
  BY <1>1 DEF Typed
<1>4. /\ r # HEAD /\ c # HEAD
      /\ D \in [N -> BOOLEAN] /\ D[r] /\ ~D[c]
      /\ \A n \in N : n = r \/ n = c \/ (D[n] <=> C[n])
  BY <1>2, <1>3 DEF Swapped
<1>5. ~D[HEAD]
  BY <1>3, <1>4
<1>6. Headed(N, M, D, TurnedB(L, B, r, c, d))
  BY <1>5, TurnHeaded
<1>7. Ordered(N, M, TurnedB(L, B, r, c, d))
  BY <1>2, TurnOrdered
<1>8. /\ up # r /\ up # c /\ r # c
      /\ \A n \in N : \A f \in {0, 1} : L[n][f] = r => n = up /\ f = side
      /\ \A n \in N : \A f \in {0, 1} : L[n][f] = c => n = r /\ f = e
  BY <1>2, TurnApart
<1>9. H[r] = H[c] + 1 /\ H[r] = H[L[r][d]] + 1 /\ H[c] = H[L[c][d]] /\ H[c] = H[L[c][e]]
  BY <1>2, <1>4 DEF Sound, Even
<1>10. PICK K : K = [H EXCEPT ![r] = H[c], ![c] = H[r]]
  OBVIOUS
<1>11. /\ K \in [N \cup {NIL} -> Nat] /\ K[NIL] = 0 /\ K[r] = H[c] /\ K[c] = H[r]
       /\ \A n \in N \cup {NIL} : n = r \/ n = c \/ K[n] = H[n]
  BY <1>2, <1>3, <1>8, <1>10
<1>12. M[r][e] = L[c][d] /\ M[c][d] = r /\ M[up][side] = c
       /\ M[r][d] = L[r][d] /\ M[c][e] = L[c][e]
  BY <1>2, <1>8 DEF IsTurned
<1>13. ASSUME NEW n \in N \ {HEAD}, NEW f \in {0, 1}
       PROVE  K[n] = IF D[n] THEN K[M[n][f]] ELSE K[M[n][f]] + 1
  <2>1. f = d \/ f = e
    BY <1>2
  <2>2. CASE n = r
    <3>1. K[M[r][d]] = H[c]
      BY <1>2, <1>3, <1>8, <1>9, <1>11, <1>12
    <3>2. K[M[r][e]] = H[c]
      <4>1. L[c][d] # r /\ L[c][d] # c /\ L[c][d] \in N \cup {NIL}
        BY <1>2, <1>3, <1>8
      <4> QED
        BY <1>9, <1>11, <1>12, <4>1
    <3> QED
      BY <1>4, <1>11, <2>1, <2>2, <3>1, <3>2
  <2>3. CASE n = c
    <3>1. K[M[c][d]] = H[c]
      BY <1>11, <1>12
    <3>2. K[M[c][e]] = H[c]
      BY <1>2, <1>3, <1>8, <1>9, <1>11, <1>12
    <3> QED
      BY <1>4, <1>9, <1>11, <2>1, <2>3, <3>1, <3>2
  <2>4. CASE n # r /\ n # c
    <3>1. H[n] = IF C[n] THEN H[L[n][f]] ELSE H[L[n][f]] + 1
      BY DEF Sound, Even
    <3>2. K[M[n][f]] = H[L[n][f]]
      <4>1. CASE n = up /\ f = side
        BY <1>2, <1>11, <1>12, <4>1
      <4>2. CASE ~(n = up /\ f = side)
        <5>1. M[n][f] = L[n][f]
          BY <2>4, <4>2 DEF IsTurned
        <5> QED
          BY <1>3, <1>8, <1>11, <2>4, <4>2, <5>1
      <4> QED
        BY <4>1, <4>2
    <3>3. K[n] = H[n] /\ (D[n] <=> C[n])
      BY <1>4, <1>11, <2>4
    <3> QED
      BY <3>1, <3>2, <3>3
  <2> QED
    BY <2>2, <2>3, <2>4
<1>14. Even(N, M, D, K)
  BY <1>4, <1>11, <1>13 DEF Even
<1> QED
  BY <1>6, <1>7, <1>10, <1>14 DEF Sound

\* A node with two children, and the colours it changes with them.
Forked(N, L, n, a, b) ==
  n \in N \ {HEAD} /\ a \in N /\ b \in N /\ L[n][0] = a /\ L[n][1] = b

Flipped(N, C, D, n, a, b, red) ==
  /\ D \in [N -> BOOLEAN] /\ (D[n] <=> red) /\ (D[a] <=> ~red) /\ (D[b] <=> ~red)
  /\ \A m \in N : m = n \/ m = a \/ m = b \/ (D[m] <=> C[m])

LEMMA ForkApart ==
  ASSUME NEW N, NEW L, NEW C, NEW B, NEW H, Sound(N, L, C, B, H),
         NEW n, NEW a, NEW b, Forked(N, L, n, a, b)
  PROVE  /\ a # b /\ a # n /\ b # n /\ a # HEAD /\ b # HEAD
         /\ \A m \in N : \A f \in {0, 1} : L[m][f] = a => m = n /\ f = 0
         /\ \A m \in N : \A f \in {0, 1} : L[m][f] = b => m = n /\ f = 1
<1>1. Typed(N, L, C, B, H)
  BY SoundTypes
<1>2. n \in N /\ a \in N /\ b \in N /\ L[n][0] = a /\ L[n][1] = b /\ 0 \in {0, 1} /\ 1 \in {0, 1}
  BY DEF Forked
<1>3. a # n /\ b # n /\ a # HEAD /\ b # HEAD
  BY <1>1, <1>2 DEF Typed
<1>4. NIL \notin N /\ \A m, k \in N : \A d, e \in {0, 1} :
       L[m][d] = L[k][e] /\ L[m][d] # NIL => m = k /\ d = e
  BY DEF Sound, Ordered
<1> QED
  BY <1>2, <1>3, <1>4

\* A black node and its two red children change colours.
LEMMA FlipUp ==
  ASSUME NEW N, NEW L, NEW C, NEW B, NEW H, Sound(N, L, C, B, H),
         NEW n, NEW a, NEW b, Forked(N, L, n, a, b), ~C[n], C[a], C[b],
         NEW D, Flipped(N, C, D, n, a, b, TRUE)
  PROVE  \E K : Sound(N, L, D, B, K)
<1>1. Typed(N, L, C, B, H)
  BY SoundTypes
<1>2. n \in N \ {HEAD} /\ a \in N /\ b \in N /\ L[n][0] = a /\ L[n][1] = b /\ 0 \in {0, 1} /\ 1 \in {0, 1}
  BY DEF Forked
<1>3. /\ a # b /\ a # n /\ b # n /\ a # HEAD /\ b # HEAD
      /\ \A m \in N : \A f \in {0, 1} : L[m][f] = a => m = n /\ f = 0
      /\ \A m \in N : \A f \in {0, 1} : L[m][f] = b => m = n /\ f = 1
  BY ForkApart
<1>4. /\ HEAD \in N /\ ~C[HEAD] /\ C \in [N -> BOOLEAN]
      /\ H \in [N \cup {NIL} -> Nat] /\ H[NIL] = 0 /\ NIL \notin N
      /\ \A m \in N : \A f \in {0, 1} : L[m][f] \in N \cup {NIL} /\ L[m][f] # HEAD
  BY <1>1 DEF Typed
<1>5. PICK K : K = [H EXCEPT ![a] = H[n], ![b] = H[n]]
  OBVIOUS
<1>6. /\ K \in [N \cup {NIL} -> Nat] /\ K[NIL] = 0 /\ K[a] = H[n] /\ K[b] = H[n]
      /\ \A m \in N \cup {NIL} : m = a \/ m = b \/ K[m] = H[m]
  BY <1>2, <1>3, <1>4, <1>5
<1>7. D \in [N -> BOOLEAN] /\ D[n] /\ ~D[a] /\ ~D[b]
      /\ \A m \in N : m = n \/ m = a \/ m = b \/ (D[m] <=> C[m])
  BY DEF Flipped
<1>8. \A m \in N \ {HEAD} : \A f \in {0, 1} :
        H[m] = IF C[m] THEN H[L[m][f]] ELSE H[L[m][f]] + 1
  BY DEF Sound, Even
<1>9. H[n] = H[a] + 1 /\ H[n] = H[b] + 1 /\ H[n] \in Nat
  BY <1>2, <1>4, <1>8
<1>10. ASSUME NEW m \in N \ {HEAD}, NEW f \in {0, 1}
      PROVE  K[m] = IF D[m] THEN K[L[m][f]] ELSE K[L[m][f]] + 1
  <2>1. CASE m = n
    <3>1. K[L[n][f]] = H[n] /\ K[n] = H[n]
      BY <1>2, <1>3, <1>6
    <3> QED
      BY <1>7, <2>1, <3>1
  <2>2. m # n => K[L[m][f]] = H[L[m][f]]
    BY <1>3, <1>4, <1>6
  <2>3. CASE m = a \/ m = b
    <3>1. H[m] = H[L[m][f]] /\ K[m] = H[n] /\ ~D[m] /\ H[n] = H[m] + 1 /\ m # n
      BY <1>3, <1>6, <1>7, <1>8, <1>9, <2>3
    <3> QED
      BY <2>2, <3>1
  <2>4. CASE m # n /\ m # a /\ m # b
    <3>1. K[m] = H[m] /\ (D[m] <=> C[m])
      BY <1>6, <1>7, <2>4
    <3> QED
      BY <1>8, <2>2, <2>4, <3>1
  <2> QED
    BY <2>1, <2>3, <2>4
<1>11. Even(N, L, D, K)
  BY <1>6, <1>7, <1>10 DEF Even
<1>12. Headed(N, L, D, B) /\ Ordered(N, L, B)
  <2>1. ~D[HEAD]
    BY <1>2, <1>3, <1>4, <1>7
  <2> QED
    BY <2>1 DEF Sound, Headed
<1> QED
  BY <1>5, <1>11, <1>12 DEF Sound

\* A node and its two black children change colours; if it was black it is the
\* root, and all paths lose a black node.
LEMMA FlipDown ==
  ASSUME NEW N, NEW L, NEW C, NEW B, NEW H, Sound(N, L, C, B, H),
         NEW n, NEW a, NEW b, Forked(N, L, n, a, b), C[n] \/ n = L[HEAD][1], ~C[a], ~C[b],
         NEW D, Flipped(N, C, D, n, a, b, FALSE)
  PROVE  \E K : Sound(N, L, D, B, K)
<1>1. Typed(N, L, C, B, H)
  BY SoundTypes
<1>2. n \in N \ {HEAD} /\ a \in N /\ b \in N /\ L[n][0] = a /\ L[n][1] = b /\ 0 \in {0, 1} /\ 1 \in {0, 1}
  BY DEF Forked
<1>3. /\ a # b /\ a # n /\ b # n /\ a # HEAD /\ b # HEAD
      /\ \A m \in N : \A f \in {0, 1} : L[m][f] = a => m = n /\ f = 0
      /\ \A m \in N : \A f \in {0, 1} : L[m][f] = b => m = n /\ f = 1
  BY ForkApart
<1>4. /\ HEAD \in N /\ ~C[HEAD] /\ C \in [N -> BOOLEAN]
      /\ H \in [N \cup {NIL} -> Nat] /\ H[NIL] = 0 /\ NIL \notin N
      /\ \A m \in N : \A f \in {0, 1} : L[m][f] \in N \cup {NIL} /\ L[m][f] # HEAD
  BY <1>1 DEF Typed
<1>5. \A m \in N \ {HEAD} : \A f \in {0, 1} :
        H[m] = IF C[m] THEN H[L[m][f]] ELSE H[L[m][f]] + 1
  BY DEF Sound, Even
<1>6. /\ H[a] = H[b] /\ H[a] \in Nat /\ H[b] \in Nat /\ H[n] \in Nat
      /\ H[a] - 1 \in Nat /\ \A f \in {0, 1} : H[L[a][f]] = H[a] - 1 /\ H[L[b][f]] = H[a] - 1
      /\ C[n] => H[n] = H[a]
  <2>1. H[a] \in Nat /\ H[b] \in Nat /\ H[n] \in Nat
        /\ \A f \in {0, 1} : H[L[a][f]] \in Nat /\ H[L[b][f]] \in Nat
    BY <1>2, <1>4
  <2>2. \A f \in {0, 1} : H[a] = H[L[a][f]] + 1 /\ H[b] = H[L[b][f]] + 1
    BY <1>2, <1>3, <1>5
  <2>3. H[n] = (IF C[n] THEN H[a] ELSE H[a] + 1) /\ H[n] = (IF C[n] THEN H[b] ELSE H[b] + 1)
    BY <1>2, <1>5
  <2>4. H[a] = H[b] /\ (C[n] => H[n] = H[a])
    BY <2>1, <2>3
  <2> QED
    BY <2>1, <2>2, <2>4
<1>7. PICK K : K = [H EXCEPT ![n] = H[a], ![a] = H[a] - 1, ![b] = H[a] - 1]
  OBVIOUS
<1>8. /\ K \in [N \cup {NIL} -> Nat] /\ K[NIL] = 0
      /\ K[n] = H[a] /\ K[a] = H[a] - 1 /\ K[b] = H[a] - 1
      /\ \A m \in N \cup {NIL} : m = n \/ m = a \/ m = b \/ K[m] = H[m]
  BY <1>2, <1>3, <1>4, <1>6, <1>7
<1>9. D \in [N -> BOOLEAN] /\ ~D[n] /\ D[a] /\ D[b]
      /\ \A m \in N : m = n \/ m = a \/ m = b \/ (D[m] <=> C[m])
  BY DEF Flipped
<1>10. \A m \in N \ {HEAD} : \A f \in {0, 1} : m # n => K[L[m][f]] = H[L[m][f]]
  <2>1. SUFFICES ASSUME NEW m \in N \ {HEAD}, NEW f \in {0, 1}, m # n PROVE K[L[m][f]] = H[L[m][f]]
    OBVIOUS
  <2>2. L[m][f] # a /\ L[m][f] # b /\ L[m][f] \in N \cup {NIL}
    BY <1>3, <1>4, <2>1
  <2>3. CASE L[m][f] # n
    BY <1>8, <2>2, <2>3
  <2>4. CASE L[m][f] = n
    <3>1. n # L[HEAD][1]
      <4>1. \A k \in N : \A g, h \in {0, 1} :
               L[m][g] = L[k][h] /\ L[m][g] # NIL => m = k /\ g = h
        BY DEF Sound, Ordered
      <4> QED
        BY <1>2, <1>4, <2>4, <4>1
    <3>2. K[n] = H[n]
      BY <1>6, <1>8, <3>1
    <3> QED
      BY <2>4, <3>2
  <2> QED
    BY <2>3, <2>4
<1>11. ASSUME NEW m \in N \ {HEAD}, NEW f \in {0, 1}
       PROVE  K[m] = IF D[m] THEN K[L[m][f]] ELSE K[L[m][f]] + 1
  <2>1. CASE m = n
    <3>1. K[L[n][f]] = H[a] - 1 /\ K[n] = H[a]
      BY <1>2, <1>8
    <3> QED
      BY <1>6, <1>9, <2>1, <3>1
  <2>2. CASE m = a \/ m = b
    <3>1. K[L[m][f]] = H[a] - 1 /\ K[m] = H[a] - 1 /\ D[m]
      BY <1>2, <1>3, <1>6, <1>8, <1>9, <1>10, <2>2
    <3> QED
      BY <3>1
  <2>3. CASE m # n /\ m # a /\ m # b
    <3>1. K[m] = H[m] /\ (D[m] <=> C[m]) /\ K[L[m][f]] = H[L[m][f]]
      BY <1>8, <1>9, <1>10, <2>3
    <3> QED
      BY <1>5, <3>1
  <2> QED
    BY <2>1, <2>2, <2>3
<1>12. Even(N, L, D, K)
  BY <1>8, <1>9, <1>11 DEF Even
<1>13. Headed(N, L, D, B) /\ Ordered(N, L, B)
  <2>1. ~D[HEAD]
    BY <1>2, <1>3, <1>4, <1>9
  <2> QED
    BY <2>1 DEF Sound, Headed
<1> QED
  BY <1>12, <1>13 DEF Sound

-----------------------------------------------------------------------------
(* The code's trees and rotations. *)

Trees(N) ==
  [link : [N -> [{0, 1} -> N \cup {NIL}]], red : [N -> BOOLEAN],
   data : [N -> Data \cup {NULL}], key : [N -> Keys \cup {0}]]

\* u is t with one link set, or other colours.
Relinked(N, t, u, n, d, c) ==
  /\ u \in Trees(N) /\ u.red = t.red /\ u.data = t.data /\ u.key = t.key
  /\ u.link[n][d] = c
  /\ \A m \in N : \A f \in {0, 1} : (m = n /\ f = d) \/ u.link[m][f] = t.link[m][f]

Painted(N, t, u, S, red) ==
  /\ u \in Trees(N) /\ u.link = t.link /\ u.data = t.data /\ u.key = t.key
  /\ \A m \in N : IF m \in S THEN u.red[m] = red ELSE u.red[m] = t.red[m]

LEMMA SetLinkIs ==
  ASSUME NEW N, NEW t \in Trees(N), NEW n \in N, NEW d \in {0, 1}, NEW c \in N \cup {NIL}
  PROVE  Relinked(N, t, SetLink(t, n, d, c), n, d, c)
<1>1. /\ t = [link |-> t.link, red |-> t.red, data |-> t.data, key |-> t.key]
      /\ t.link \in [N -> [{0, 1} -> N \cup {NIL}]]
  BY DEF Trees
<1>2. PICK M : M = [t.link EXCEPT ![n][d] = c]
  OBVIOUS
<1>3. /\ M \in [N -> [{0, 1} -> N \cup {NIL}]] /\ M[n][d] = c
      /\ \A m \in N : \A f \in {0, 1} : (m = n /\ f = d) \/ M[m][f] = t.link[m][f]
  BY <1>1, <1>2
<1>4. SetLink(t, n, d, c) = [link |-> M, red |-> t.red, data |-> t.data, key |-> t.key]
  <2>1. SetLink(t, n, d, c) = [t EXCEPT !.link = M]
    BY <1>1, <1>2 DEF SetLink
  <2> QED
    BY <1>1, <2>1
<1> QED
  BY <1>1, <1>3, <1>4 DEF Relinked, Trees

LEMMA PaintIs ==
  ASSUME NEW N, NEW t \in Trees(N), NEW S, NEW red \in BOOLEAN
  PROVE  Painted(N, t, Paint(t, S, red), S, red)
<1>1. /\ t = [link |-> t.link, red |-> t.red, data |-> t.data, key |-> t.key]
      /\ t.red \in [N -> BOOLEAN] /\ DOMAIN t.red = N
  BY DEF Trees
<1>2. PICK D : D = [m \in N |-> IF m \in S THEN red ELSE t.red[m]]
  OBVIOUS
<1>3. /\ D \in [N -> BOOLEAN]
      /\ \A m \in N : IF m \in S THEN D[m] = red ELSE D[m] = t.red[m]
  <2>1. \A m \in N : D[m] = IF m \in S THEN red ELSE t.red[m]
    BY <1>2
  <2>2. \A m \in N : D[m] \in BOOLEAN
    BY <1>1, <2>1
  <2>3. D = [m \in N |-> D[m]]
    BY <1>2
  <2> QED
    BY <2>1, <2>2, <2>3
<1>4. Paint(t, S, red) = [link |-> t.link, red |-> D, data |-> t.data, key |-> t.key]
  <2>1. Paint(t, S, red) = [t EXCEPT !.red = D]
    BY <1>1, <1>2 DEF Paint
  <2> QED
    BY <1>1, <2>1
<1> QED
  BY <1>1, <1>3, <1>4 DEF Painted, Trees

\* What single_rotation does: links and colours.
Turning(N, t, u, up, side, r, c, d, e) ==
  /\ u \in Trees(N) /\ u.data = t.data /\ u.key = t.key
  /\ IsTurned(N, t.link, u.link, up, side, r, c, d, e)
  /\ u.red[r] /\ ~u.red[c]
  /\ \A n \in N : n = r \/ n = c \/ (u.red[n] <=> t.red[n])

LEMMA SingleIs ==
  ASSUME NEW N, NEW t \in Trees(N), NEW up, NEW side, NEW r, NEW c, NEW d, NEW e,
         CanTurn(N, t.link, up, side, r, c, d, e), up # r, up # c, r # c
  PROVE  Turning(N, t, Single(t, up, side, r, d), up, side, r, c, d, e)
<1>1. /\ d \in {0, 1} /\ e \in {0, 1} /\ d # e /\ e = 1 - d
      /\ up \in N /\ side \in {0, 1} /\ r \in N /\ c \in N
      /\ t.link[up][side] = r /\ t.link[r][e] = c
  BY DEF CanTurn
<1>2. PICK x : x = t.link[c][d]
  OBVIOUS
<1>3. x \in N \cup {NIL}
  BY <1>1, <1>2 DEF Trees
<1>4. PICK t1 : t1 = SetLink(t, r, e, x)
  OBVIOUS
<1>5. Relinked(N, t, t1, r, e, x)
  BY <1>1, <1>3, <1>4, SetLinkIs
<1>6. t1 \in Trees(N)
  BY <1>5 DEF Relinked
<1>7. PICK t2 : t2 = SetLink(t1, c, d, r)
  OBVIOUS
<1>8. Relinked(N, t1, t2, c, d, r)
  BY <1>1, <1>6, <1>7, SetLinkIs
<1>9. t2 \in Trees(N)
  BY <1>8 DEF Relinked
<1>10. PICK t3 : t3 = Paint(t2, {r}, TRUE)
  OBVIOUS
<1>11. Painted(N, t2, t3, {r}, TRUE)
  BY <1>9, <1>10, PaintIs
<1>12. t3 \in Trees(N)
  BY <1>11 DEF Painted
<1>13. PICK t4 : t4 = Paint(t3, {c}, FALSE)
  OBVIOUS
<1>14. Painted(N, t3, t4, {c}, FALSE)
  BY <1>12, <1>13, PaintIs
<1>15. t4 \in Trees(N)
  BY <1>14 DEF Painted
<1>16. PICK u : u = SetLink(t4, up, side, c)
  OBVIOUS
<1>17. Relinked(N, t4, u, up, side, c)
  BY <1>1, <1>15, <1>16, SetLinkIs
<1>18. u = Single(t, up, side, r, d)
  BY <1>1, <1>2, <1>4, <1>7, <1>10, <1>13, <1>16 DEF Single
<1>19. u \in Trees(N) /\ u.data = t.data /\ u.key = t.key
  BY <1>5, <1>8, <1>11, <1>14, <1>17 DEF Relinked, Painted
<1>20. t4.link = t2.link
  BY <1>11, <1>14 DEF Painted
<1>21. IsTurned(N, t.link, u.link, up, side, r, c, d, e)
  <2>1. u.link \in [N -> [{0, 1} -> N \cup {NIL}]]
    BY <1>19 DEF Trees
  <2>2. \A n \in N : \A f \in {0, 1} : (n = r /\ f = e) \/ t1.link[n][f] = t.link[n][f]
    BY <1>5 DEF Relinked
  <2>3. \A n \in N : \A f \in {0, 1} : (n = c /\ f = d) \/ t2.link[n][f] = t1.link[n][f]
    BY <1>8 DEF Relinked
  <2>4. \A n \in N : \A f \in {0, 1} : (n = up /\ f = side) \/ u.link[n][f] = t2.link[n][f]
    BY <1>17, <1>20 DEF Relinked
  <2>5. u.link[up][side] = c /\ t2.link[c][d] = r /\ t1.link[r][e] = x
    BY <1>5, <1>8, <1>17 DEF Relinked
  <2>6. u.link[r][e] = t.link[c][d] /\ u.link[c][d] = r
    BY <1>1, <1>2, <2>3, <2>4, <2>5
  <2> QED
    BY <2>1, <2>2, <2>3, <2>4, <2>5, <2>6 DEF IsTurned
<1>22. /\ u.red[r] /\ ~u.red[c]
       /\ \A n \in N : n = r \/ n = c \/ (u.red[n] <=> t.red[n])
  <2>1. u.red = t4.red /\ t2.red = t.red
    BY <1>5, <1>8, <1>17 DEF Relinked
  <2>2. t3.red[r] = TRUE /\ \A n \in N : n = r \/ t3.red[n] = t2.red[n]
    BY <1>1, <1>11 DEF Painted
  <2>3. t4.red[c] = FALSE /\ \A n \in N : n = c \/ t4.red[n] = t3.red[n]
    BY <1>1, <1>14 DEF Painted
  <2> QED
    BY <1>1, <2>1, <2>2, <2>3
<1> QED
  BY <1>18, <1>19, <1>21, <1>22 DEF Turning

LEMMA SingleOrdered ==
  ASSUME NEW N, NEW t \in Trees(N), NEW B, Ordered(N, t.link, B),
         NEW up, NEW side, NEW r, NEW c, NEW d, NEW e,
         CanTurn(N, t.link, up, side, r, c, d, e)
  PROVE  Turning(N, t, Single(t, up, side, r, d), up, side, r, c, d, e)
BY SingleIs, TurnApart

\* Two rotations: x, the child of c on the inner side, comes up above c and r.
CanTurnTwice(N, L, up, side, r, c, x, d, e) ==
  CanTurn(N, L, up, side, r, c, d, e) /\ x \in N /\ L[c][d] = x

TurningTwice(N, t, u, up, side, r, c, x, d, e) ==
  \E m : /\ Turning(N, t, m, r, e, c, x, e, d)
         /\ Turning(N, m, u, up, side, r, x, d, e)

LEMMA TwiceApart ==
  ASSUME NEW N, NEW L, NEW B, Ordered(N, L, B),
         NEW up, NEW side, NEW r, NEW c, NEW x, NEW d, NEW e,
         CanTurnTwice(N, L, up, side, r, c, x, d, e)
  PROVE  /\ CanTurn(N, L, r, e, c, x, e, d)
         /\ up # r /\ up # c /\ up # x /\ r # c /\ r # x /\ c # x
         /\ x \in B[c] /\ c \in B[r] /\ x \in B[r] /\ r \notin B[c] /\ c \notin B[x] /\ up \notin B[r]
<1>1. CanTurn(N, L, up, side, r, c, d, e) /\ CanTurn(N, L, r, e, c, x, e, d)
  BY DEF CanTurn, CanTurnTwice
<1>2. up # r /\ up # c /\ r # c /\ up \notin B[r] /\ r \notin B[c] /\ c \in B[r] /\ B[c] \subseteq B[r]
  BY <1>1, TurnApart
<1>3. r # x /\ c # x /\ x \in B[c] /\ c \notin B[x]
  BY <1>1, TurnApart
<1> QED
  BY <1>1, <1>2, <1>3

\* Between the two rotations.
LEMMA TwiceSecond ==
  ASSUME NEW N, NEW L, NEW B, Ordered(N, L, B),
         NEW up, NEW side, NEW r, NEW c, NEW x, NEW d, NEW e,
         CanTurnTwice(N, L, up, side, r, c, x, d, e), NEW M, IsTurned(N, L, M, r, e, c, x, e, d)
  PROVE  CanTurn(N, M, up, side, r, x, d, e)
<1>1. /\ d \in {0, 1} /\ e \in {0, 1} /\ d # e
      /\ up \in N /\ side \in {0, 1} /\ r \in N /\ c \in N /\ x \in N
      /\ L[up][side] = r /\ L[r][e] = c
  BY DEF CanTurn, CanTurnTwice
<1>2. up # r /\ up # c /\ up # x
  BY TwiceApart
<1>3. M[up][side] = r /\ M[r][e] = x
  BY <1>1, <1>2 DEF IsTurned
<1> QED
  BY <1>1, <1>3 DEF CanTurn

LEMMA DoubleIs ==
  ASSUME NEW N, NEW t \in Trees(N), NEW B, Ordered(N, t.link, B),
         NEW up, NEW side, NEW r, NEW c, NEW x, NEW d, NEW e,
         CanTurnTwice(N, t.link, up, side, r, c, x, d, e)
  PROVE  TurningTwice(N, t, Double(t, up, side, r, d), up, side, r, c, x, d, e)
<1>1. CanTurn(N, t.link, r, e, c, x, e, d)
  BY TwiceApart
<1>2. PICK m : m = Single(t, r, e, c, e)
  OBVIOUS
<1>3. Turning(N, t, m, r, e, c, x, e, d)
  BY <1>1, <1>2, SingleOrdered
<1>4. m \in Trees(N) /\ IsTurned(N, t.link, m.link, r, e, c, x, e, d)
  BY <1>3 DEF Turning
<1>5. CanTurn(N, m.link, up, side, r, x, d, e)
  BY <1>4, TwiceSecond
<1>6. Ordered(N, m.link, TurnedB(t.link, B, c, x, e))
  BY <1>1, <1>4, TurnOrdered
<1>7. Turning(N, m, Single(m, up, side, r, d), up, side, r, x, d, e)
  BY <1>4, <1>5, <1>6, SingleOrdered
<1>8. Double(t, up, side, r, d) = Single(m, up, side, r, d)
  <2>1. e = 1 - d /\ t.link[r][e] = c
    BY DEF CanTurnTwice, CanTurn
  <2> QED
    BY <1>2, <2>1 DEF Double
<1> QED
  BY <1>3, <1>7, <1>8 DEF TurningTwice

-----------------------------------------------------------------------------
(* The path of a hash h from the root: at the nodes above n it goes the way n *)
(* is.  With k = h + 1 it does not pass h itself, with k = h it goes left.    *)

Heading(d, a, h, k) == IF d = 1 THEN a < h ELSE k <= a

Path(N, L, B, h, k, n) ==
  \A a \in N : \A d \in {0, 1} : n \in B[L[a][d]] => Heading(d, a, h, k)

LEMMA HeadingDef ==
  /\ \A a, h \in Int : Side(a < h) \in {0, 1} /\ Heading(Side(a < h), a, h, h)
  /\ \A a, h \in Int : a # h => Heading(Side(a < h), a, h, h + 1) /\ Beyond(Side(a < h), a, h)
  /\ \A a, h \in Int : \A d \in {0, 1} : Heading(d, a, h, h + 1) <=> Beyond(d, a, h)
  /\ \A a, h \in Int : \A d \in {0, 1} : Beyond(d, a, h) => Side(a < h) = d /\ a # h
  /\ \A a, b, h, k \in Int : \A d, e \in {0, 1} :
       d # e /\ Heading(d, a, h, k) /\ Beyond(e, a, b) => Heading(d, b, h, k)
BY DEF Heading, Beyond, Side

\* One step further down the path.
LEMMA PathDown ==
  ASSUME NEW N, NEW L, NEW B, Ordered(N, L, B), NEW h, NEW k, NEW n \in N,
         Path(N, L, B, h, k, n), NEW d \in {0, 1}, Heading(d, n, h, k), NEW m \in N, L[n][d] = m
  PROVE  Path(N, L, B, h, k, m)
<1>1. SUFFICES ASSUME NEW a \in N, NEW e \in {0, 1}, m \in B[L[a][e]] PROVE Heading(e, a, h, k)
  BY DEF Path
<1>2. L[a][e] \in N /\ NIL \notin N
  BY <1>1, LinkIn DEF Ordered
<1>3. CASE L[a][e] = m
  <2>1. a = n /\ e = d
    BY <1>2, <1>3 DEF Ordered
  <2> QED
    BY <2>1
<1>4. CASE L[a][e] # m
  <2>1. n \in B[L[a][e]]
    BY <1>1, <1>2, <1>4, ParentBelow
  <2> QED
    BY <2>1 DEF Path
<1> QED
  BY <1>3, <1>4

\* The root is below the false root only.
LEMMA PathRoot ==
  ASSUME NEW N, NEW L, NEW C, NEW B, NEW H, Sound(N, L, C, B, H), NEW h, NEW k,
         Heading(1, HEAD, h, k), L[HEAD][1] # NIL
  PROVE  Path(N, L, B, h, k, L[HEAD][1])
<1>1. Typed(N, L, C, B, H)
  BY SoundTypes
<1>2. HEAD \in N /\ B[HEAD] = N /\ Ordered(N, L, B) /\ L[HEAD][1] \in N /\ 1 \in {0, 1}
  BY <1>1 DEF Typed, Sound
<1>3. Path(N, L, B, h, k, HEAD)
  <2>1. SUFFICES ASSUME NEW a \in N, NEW d \in {0, 1}, HEAD \in B[L[a][d]] PROVE FALSE
    BY DEF Path
  <2> QED
    BY <1>2, <2>1, BelowAntisym
<1> QED
  BY <1>2, <1>3, PathDown

LEMMA PathTurned ==
  ASSUME NEW N, NEW L, NEW B, Ordered(N, L, B), NEW up, NEW side, NEW r, NEW c, NEW d, NEW e,
         CanTurn(N, L, up, side, r, c, d, e), NEW M, IsTurned(N, L, M, up, side, r, c, d, e),
         NEW h \in Int, NEW k \in Int, NEW n \in N, Path(N, L, B, h, k, n),
         n = r => Heading(d, r, h, k)
  PROVE  Path(N, M, TurnedB(L, B, r, c, d), h, k, n)
<1>1. PICK D : D = TurnedB(L, B, r, c, d)
  OBVIOUS
<1>2. BelowTurned(N, L, B, M, D, r, c, d, e)
  BY <1>1, TurnBelow
<1>3. /\ d \in {0, 1} /\ e \in {0, 1} /\ d # e /\ r \in N /\ c \in N /\ r \in Int /\ c \in Int
      /\ L[r][e] = c
  BY DEF CanTurn, Ordered
<1>4. B[L[c][d]] \subseteq B[c] /\ c \in B[c]
  BY <1>3, BelowOnce
<1>5. Beyond(e, r, c)
  BY <1>3, <1>4, BelowOnce
<1>6. ASSUME NEW a \in N, NEW f \in {0, 1}, n \in D[M[a][f]] PROVE Heading(f, a, h, k)
  <2>1. CASE a = r /\ f = e
    <3>1. n \in B[L[r][e]]
      BY <1>2, <1>3, <1>4, <1>6, <2>1 DEF BelowTurned
    <3> QED
      BY <1>3, <2>1, <3>1 DEF Path
  <2>2. CASE a = c /\ f = d
    <3>1. n \in {r} \cup B[L[r][d]] \cup B[L[c][d]]
      BY <1>2, <1>6, <2>2 DEF BelowTurned
    <3>2. CASE n \in {r} \cup B[L[r][d]]
      <4>1. Heading(d, r, h, k)
        BY <1>3, <3>2 DEF Path
      <4> QED
        BY <1>3, <1>5, <2>2, <4>1 DEF Heading, Beyond
    <3>3. CASE n \in B[L[c][d]]
      BY <1>3, <2>2, <3>3 DEF Path
    <3> QED
      BY <3>1, <3>2, <3>3
  <2>3. CASE ~(a = r /\ f = e) /\ ~(a = c /\ f = d)
    <3>1. n \in B[L[a][f]]
      BY <1>2, <1>6, <2>3 DEF BelowTurned
    <3> QED
      BY <3>1 DEF Path
  <2> QED
    BY <2>1, <2>2, <2>3
<1> QED
  BY <1>1, <1>6 DEF Path

\* If h is a node it is on the path, which then does not end before it.
LEMMA PathMeets ==
  ASSUME NEW N, NEW L, NEW C, NEW B, NEW H, Sound(N, L, C, B, H), NEW h \in N, NEW n \in N,
         Path(N, L, B, h, h + 1, n), n # h
  PROVE  h \in B[L[n][Side(n < h)]]
<1>1. Typed(N, L, C, B, H)
  BY SoundTypes
<1>2. HEAD \in N /\ h \in B[HEAD] /\ n \in B[HEAD] /\ Ordered(N, L, B) /\ h \in Int /\ n \in Int
      /\ N \subseteq Int
  BY <1>1 DEF Typed, Sound
<1>3. \A a \in N : \A d \in {0, 1} : n \in B[L[a][d]] => Beyond(d, a, h) /\ a \in Int
  BY ZenonT(60), <1>2, HeadingDef DEF Path
<1>4. \A a \in N : \A d \in {0, 1} : h \in B[L[a][d]] => Beyond(d, a, h) /\ a # h
  BY <1>2, BeyondDef DEF Ordered
<1>5. n \notin B[h]
  <2>1. SUFFICES ASSUME n \in B[h] PROVE FALSE
    OBVIOUS
  <2>2. PICK d \in {0, 1} : n \in B[L[h][d]]
    <3>1. B[h] = {h} \cup B[L[h][0]] \cup B[L[h][1]]
      BY <1>2 DEF Ordered
    <3> QED
      BY <2>1, <3>1
  <2> QED
    BY <1>2, <1>3, <2>2, BeyondDef
<1>6. ~ \E a \in N : \E e \in {0, 1} : h \in B[L[a][e]] /\ n \in B[L[a][1 - e]]
  <2>1. SUFFICES ASSUME NEW a \in N, NEW e \in {0, 1}, h \in B[L[a][e]], n \in B[L[a][1 - e]] PROVE FALSE
    OBVIOUS
  <2>2. 1 - e \in {0, 1} /\ 1 - e # e
    BY BeyondDef
  <2>3. Beyond(e, a, h) /\ Beyond(1 - e, a, h) /\ a \in Int
    BY <1>3, <1>4, <2>1, <2>2
  <2> QED
    BY <1>2, <2>2, <2>3, BeyondDef
<1>7. h \in B[n]
  BY <1>2, <1>5, <1>6, Parting
<1>8. PICK d \in {0, 1} : h \in B[L[n][d]]
  <2>1. B[n] = {n} \cup B[L[n][0]] \cup B[L[n][1]]
    BY <1>2 DEF Ordered
  <2> QED
    BY <1>7, <2>1
<1>9. Side(n < h) = d
  BY <1>2, <1>4, <1>8, HeadingDef
<1> QED
  BY <1>8, <1>9

-----------------------------------------------------------------------------
(* A red node below a red node is lifted. *)

\* The child f of p may be red below a red p.
NoOtherRedRed(N, L, C, p, f) ==
  \A n \in N : \A d \in {0, 1} : (n = p /\ d = f) \/ (C[n] => ~IsRed(C, L[n][d]))

TwiceAt(N, L, M, up, side, r, c, x, d, e) ==
  /\ M[up][side] = x /\ M[r][e] = L[x][d] /\ M[x][d] = r /\ M[x][e] = c /\ M[c][d] = L[x][e]
  /\ \A n \in N : \A f \in {0, 1} :
       \/ n = up /\ f = side
       \/ n = r /\ f = e
       \/ n = x
       \/ n = c /\ f = d
       \/ M[n][f] = L[n][f]

LEMMA TwiceLinks ==
  ASSUME NEW N, NEW L, NEW B, Ordered(N, L, B),
         NEW up, NEW side, NEW r, NEW c, NEW x, NEW d, NEW e,
         CanTurnTwice(N, L, up, side, r, c, x, d, e),
         NEW M1, IsTurned(N, L, M1, r, e, c, x, e, d),
         NEW M, IsTurned(N, M1, M, up, side, r, x, d, e)
  PROVE  TwiceAt(N, L, M, up, side, r, c, x, d, e)
<1>1. /\ d \in {0, 1} /\ e \in {0, 1} /\ d # e
      /\ up \in N /\ side \in {0, 1} /\ r \in N /\ c \in N /\ x \in N
      /\ L[up][side] = r /\ L[r][e] = c /\ L[c][d] = x
  BY DEF CanTurn, CanTurnTwice
<1>2. up # r /\ up # c /\ up # x /\ r # c /\ r # x /\ c # x
  BY TwiceApart
<1>3. /\ M1[r][e] = x /\ M1[c][d] = L[x][e] /\ M1[x][e] = c
      /\ \A n \in N : \A f \in {0, 1} :
           \/ n = r /\ f = e
           \/ n = c /\ f = d
           \/ n = x /\ f = e
           \/ M1[n][f] = L[n][f]
  BY DEF IsTurned
<1>4. /\ M[up][side] = x /\ M[r][e] = M1[x][d] /\ M[x][d] = r
      /\ \A n \in N : \A f \in {0, 1} :
           \/ n = up /\ f = side
           \/ n = r /\ f = e
           \/ n = x /\ f = d
           \/ M[n][f] = M1[n][f]
  BY DEF IsTurned
<1>5. M[r][e] = L[x][d] /\ M[x][e] = c /\ M[c][d] = L[x][e]
  BY <1>1, <1>2, <1>3, <1>4
<1> QED
  BY <1>1, <1>2, <1>3, <1>4, <1>5 DEF TwiceAt

LEMMA LiftOnce ==
  ASSUME NEW N, NEW t \in Trees(N), NEW B, NEW H, Sound(N, t.link, t.red, B, H),
         NEW up, NEW side, NEW r, NEW c, NEW d, NEW e,
         CanTurn(N, t.link, up, side, r, c, d, e),
         ~t.red[r], t.red[c], ~IsRed(t.red, t.link[r][d]),
         NoOtherRedRed(N, t.link, t.red, c, e),
         NEW u, Turning(N, t, u, up, side, r, c, d, e)
  PROVE  /\ \E K : Sound(N, u.link, u.red, TurnedB(t.link, B, r, c, d), K)
         /\ NoRedRed(N, u.link, u.red)
<1>1. /\ r \in N /\ c \in N /\ up \in N /\ side \in {0, 1} /\ d \in {0, 1} /\ e \in {0, 1} /\ d # e
      /\ t.link[up][side] = r /\ t.link[r][e] = c /\ Ordered(N, t.link, B)
  BY DEF CanTurn, Sound
<1>2. /\ IsTurned(N, t.link, u.link, up, side, r, c, d, e)
      /\ u.red[r] /\ ~u.red[c] /\ u.red \in [N -> BOOLEAN]
      /\ \A n \in N : n = r \/ n = c \/ (u.red[n] <=> t.red[n])
  BY DEF Turning, Trees
<1>3. \E K : Sound(N, u.link, u.red, TurnedB(t.link, B, r, c, d), K)
  <2>1. Swapped(N, t.red, u.red, r, c)
    BY <1>2 DEF Swapped
  <2> QED
    BY <1>2, <2>1, TurnBlackRed
<1>4. /\ up # r /\ up # c /\ r # c
      /\ \A n \in N : \A f \in {0, 1} : t.link[n][f] = r => n = up /\ f = side
      /\ \A n \in N : \A f \in {0, 1} : t.link[n][f] = c => n = r /\ f = e
  BY <1>1, TurnApart
<1>5. /\ u.link[up][side] = c /\ u.link[r][e] = t.link[c][d] /\ u.link[c][d] = r
      /\ \A n \in N : \A f \in {0, 1} :
           \/ n = up /\ f = side
           \/ n = r /\ f = e
           \/ n = c /\ f = d
           \/ u.link[n][f] = t.link[n][f]
  BY <1>2 DEF IsTurned
<1>6. \A m \in N \cup {NIL} : m # r => (IsRed(u.red, m) => IsRed(t.red, m))
  BY <1>2 DEF IsRed
<1>7. \A n \in N : \A f \in {0, 1} : t.link[n][f] \in N \cup {NIL}
  BY <1>1, LinkIn
<1>8. \A n \in N : \A f \in {0, 1} :
        (n = c /\ f = e) \/ (t.red[n] => ~IsRed(t.red, t.link[n][f]))
  BY DEF NoOtherRedRed
<1>9. ASSUME NEW n \in N, NEW f \in {0, 1}, u.red[n] PROVE ~IsRed(u.red, u.link[n][f])
  <2>1. n # c
    BY <1>2, <1>9
  <2>2. CASE n = r
    <3>1. f = d \/ f = e
      BY <1>1
    <3>2. CASE f = d
      <4>1. u.link[n][f] = t.link[r][d] /\ t.link[r][d] # r
        BY <1>1, <1>4, <1>5, <2>2, <3>2
      <4> QED
        BY <1>1, <1>6, <1>7, <4>1
    <3>3. CASE f = e
      <4>1. u.link[n][f] = t.link[c][d] /\ t.link[c][d] # r /\ ~IsRed(t.red, t.link[c][d])
        BY <1>1, <1>4, <1>5, <1>8, <2>2, <3>3
      <4> QED
        BY <1>1, <1>6, <1>7, <4>1
    <3> QED
      BY <3>1, <3>2, <3>3
  <2>3. CASE n # r
    <3>1. CASE n = up /\ f = side
      BY <1>2, <1>5, <3>1 DEF IsRed
    <3>2. CASE ~(n = up /\ f = side)
      <4>1. u.link[n][f] = t.link[n][f] /\ t.link[n][f] # r
        BY <1>4, <1>5, <2>1, <2>3, <3>2
      <4>2. ~IsRed(t.red, t.link[n][f])
        BY <1>2, <1>8, <1>9, <2>1, <2>3
      <4> QED
        BY <1>6, <1>7, <4>1, <4>2
    <3> QED
      BY <3>1, <3>2
  <2> QED
    BY <2>2, <2>3
<1>10. NoRedRed(N, u.link, u.red)
  BY <1>9 DEF NoRedRed
<1> QED
  BY <1>3, <1>10

\* What two rotations leave below the other nodes.
TwiceB(L, B, r, c, x, d, e) ==
  LET D == TurnedB(L, B, c, x, e)
  IN  [D EXCEPT ![x] = D[r], ![r] = {r} \cup D[L[r][d]] \cup D[L[x][d]]]

LEMMA TwiceBelow ==
  ASSUME NEW N, NEW L, NEW B, Ordered(N, L, B),
         NEW up, NEW side, NEW r, NEW c, NEW x, NEW d, NEW e,
         CanTurnTwice(N, L, up, side, r, c, x, d, e),
         NEW M1, IsTurned(N, L, M1, r, e, c, x, e, d),
         NEW M, IsTurned(N, M1, M, up, side, r, x, d, e)
  PROVE  /\ TurnedB(M1, TurnedB(L, B, c, x, e), r, x, d) = TwiceB(L, B, r, c, x, d, e)
         /\ \A n \in N : n = r \/ n = c \/ n = x \/ TwiceB(L, B, r, c, x, d, e)[n] = B[n]
<1>1. /\ d \in {0, 1} /\ e \in {0, 1} /\ d # e
      /\ up \in N /\ side \in {0, 1} /\ r \in N /\ c \in N /\ x \in N
      /\ L[up][side] = r /\ L[r][e] = c /\ L[c][d] = x
  BY DEF CanTurn, CanTurnTwice
<1>2. up # r /\ up # c /\ up # x /\ r # c /\ r # x /\ c # x /\ CanTurn(N, L, r, e, c, x, e, d)
  BY TwiceApart
<1>3. M1[r][d] = L[r][d] /\ M1[x][d] = L[x][d]
  BY <1>1, <1>2 DEF IsTurned
<1>4. PICK D : D = TurnedB(L, B, c, x, e)
  OBVIOUS
<1>5. BelowTurned(N, L, B, M1, D, c, x, e, d)
  BY <1>2, <1>4, TurnBelow
<1>6. CanTurn(N, M1, up, side, r, x, d, e) /\ Ordered(N, M1, D)
  BY <1>2, <1>4, TwiceSecond, TurnOrdered
<1>7. PICK E : E = TurnedB(M1, D, r, x, d)
  OBVIOUS
<1>8. BelowTurned(N, M1, D, M, E, r, x, d, e)
  BY <1>6, <1>7, TurnBelow
<1>9. E = TwiceB(L, B, r, c, x, d, e)
  BY <1>3, <1>4, <1>7 DEF TwiceB, TurnedB
<1>10. \A n \in N : n = r \/ n = c \/ n = x \/ E[n] = B[n]
  <2>1. \A n \in N : n = c \/ n = x \/ D[n] = B[n]
    BY <1>5 DEF BelowTurned
  <2>2. \A n \in N : n = r \/ n = x \/ E[n] = D[n]
    BY <1>8 DEF BelowTurned
  <2> QED
    BY <2>1, <2>2
<1> QED
  BY <1>4, <1>7, <1>9, <1>10

TwiceDone(N, t, u, up, side, r, c, x, d, e) ==
  /\ u \in Trees(N) /\ u.data = t.data /\ u.key = t.key
  /\ u.red[r] /\ u.red[c] /\ ~u.red[x] /\ u.red \in [N -> BOOLEAN]
  /\ \A n \in N : n = r \/ n = c \/ n = x \/ (u.red[n] <=> t.red[n])
  /\ TwiceAt(N, t.link, u.link, up, side, r, c, x, d, e)
  /\ \E M1 : IsTurned(N, t.link, M1, r, e, c, x, e, d) /\ IsTurned(N, M1, u.link, up, side, r, x, d, e)

LEMMA TwiceColours ==
  ASSUME NEW N, NEW t \in Trees(N), NEW u, NEW B, Ordered(N, t.link, B),
         NEW up, NEW side, NEW r, NEW c, NEW x, NEW d, NEW e,
         CanTurnTwice(N, t.link, up, side, r, c, x, d, e),
         TurningTwice(N, t, u, up, side, r, c, x, d, e)
  PROVE  TwiceDone(N, t, u, up, side, r, c, x, d, e)
<1>1. PICK m : /\ Turning(N, t, m, r, e, c, x, e, d)
               /\ Turning(N, m, u, up, side, r, x, d, e)
  BY DEF TurningTwice
<1>2. /\ r \in N /\ c \in N /\ x \in N
      /\ up # r /\ up # c /\ up # x /\ r # c /\ r # x /\ c # x
  <2>1. r \in N /\ c \in N /\ x \in N
    BY DEF CanTurn, CanTurnTwice
  <2> QED
    BY <2>1, TwiceApart
<1>3. /\ m.data = t.data /\ m.key = t.key /\ m.red[c] /\ ~m.red[x]
      /\ \A n \in N : n = c \/ n = x \/ (m.red[n] <=> t.red[n])
      /\ IsTurned(N, t.link, m.link, r, e, c, x, e, d)
  BY <1>1 DEF Turning
<1>4. /\ u \in Trees(N) /\ u.data = m.data /\ u.key = m.key /\ u.red[r] /\ ~u.red[x]
      /\ \A n \in N : n = r \/ n = x \/ (u.red[n] <=> m.red[n])
      /\ IsTurned(N, m.link, u.link, up, side, r, x, d, e)
  BY <1>1 DEF Turning
<1>5. TwiceAt(N, t.link, u.link, up, side, r, c, x, d, e)
  BY <1>3, <1>4, TwiceLinks
<1>6. u.red \in [N -> BOOLEAN]
  BY <1>4 DEF Trees
<1>7. u.red[r] /\ u.red[c] /\ ~u.red[x]
  BY <1>2, <1>3, <1>4
<1>8. \A n \in N : n = r \/ n = c \/ n = x \/ (u.red[n] <=> t.red[n])
  BY <1>3, <1>4
<1>9. u.data = t.data /\ u.key = t.key
  BY <1>3, <1>4
<1> QED
  BY <1>3, <1>4, <1>5, <1>6, <1>7, <1>8, <1>9 DEF TwiceDone

\* Two rotations of a black node above two red ones.
LEMMA TwiceSound ==
  ASSUME NEW N, NEW L, NEW C, NEW B, NEW H, Sound(N, L, C, B, H),
         NEW up, NEW side, NEW r, NEW c, NEW x, NEW d, NEW e,
         CanTurnTwice(N, L, up, side, r, c, x, d, e), ~C[r], C[c], C[x],
         NEW M1, IsTurned(N, L, M1, r, e, c, x, e, d),
         NEW M, IsTurned(N, M1, M, up, side, r, x, d, e),
         NEW D \in [N -> BOOLEAN], D[r], D[c], ~D[x],
         \A n \in N : n = r \/ n = c \/ n = x \/ (D[n] <=> C[n])
  PROVE  \E K : Sound(N, M, D, TwiceB(L, B, r, c, x, d, e), K)
<1>1. Ordered(N, L, B)
  BY DEF Sound
<1>2. CanTurn(N, L, r, e, c, x, e, d)
  BY <1>1, TwiceApart
<1>3. Sound(N, M1, C, TurnedB(L, B, c, x, e), H)
  BY <1>2, TurnRedRed
<1>4. CanTurn(N, M1, up, side, r, x, d, e)
  BY <1>1, TwiceSecond
<1>5. Swapped(N, C, D, r, x)
  BY DEF Swapped
<1>6. \E K : Sound(N, M, D, TurnedB(M1, TurnedB(L, B, c, x, e), r, x, d), K)
  BY <1>3, <1>4, <1>5, TurnBlackRed
<1> QED
  BY <1>1, <1>6, TwiceBelow

LEMMA LiftTwice ==
  ASSUME NEW N, NEW t \in Trees(N), NEW B, NEW H, Sound(N, t.link, t.red, B, H),
         NEW up, NEW side, NEW r, NEW c, NEW x, NEW d, NEW e,
         CanTurnTwice(N, t.link, up, side, r, c, x, d, e),
         ~t.red[r], t.red[c], t.red[x], ~IsRed(t.red, t.link[r][d]),
         NoOtherRedRed(N, t.link, t.red, c, d),
         NEW u, TurningTwice(N, t, u, up, side, r, c, x, d, e)
  PROVE  /\ \E K : Sound(N, u.link, u.red, TwiceB(t.link, B, r, c, x, d, e), K)
         /\ NoRedRed(N, u.link, u.red)
<1>1. /\ r \in N /\ c \in N /\ x \in N /\ up \in N /\ side \in {0, 1} /\ d \in {0, 1} /\ e \in {0, 1} /\ d # e
      /\ t.link[up][side] = r /\ t.link[r][e] = c /\ t.link[c][d] = x /\ Ordered(N, t.link, B)
  BY DEF CanTurn, CanTurnTwice, Sound
<1>2. /\ u.red[r] /\ u.red[c] /\ ~u.red[x] /\ u.red \in [N -> BOOLEAN]
      /\ \A n \in N : n = r \/ n = c \/ n = x \/ (u.red[n] <=> t.red[n])
      /\ TwiceAt(N, t.link, u.link, up, side, r, c, x, d, e)
      /\ \E M1 : IsTurned(N, t.link, M1, r, e, c, x, e, d) /\ IsTurned(N, M1, u.link, up, side, r, x, d, e)
  <2>1. TwiceDone(N, t, u, up, side, r, c, x, d, e)
    BY <1>1, TwiceColours
  <2> QED
    BY <2>1 DEF TwiceDone
<1>3. \E K : Sound(N, u.link, u.red, TwiceB(t.link, B, r, c, x, d, e), K)
  BY <1>2, TwiceSound
<1>4. /\ up # r /\ up # c /\ up # x /\ r # c /\ r # x /\ c # x
      /\ CanTurn(N, t.link, r, e, c, x, e, d) /\ CanTurn(N, t.link, up, side, r, c, d, e)
  BY <1>1, TwiceApart DEF CanTurnTwice
<1>5. /\ \A n \in N : \A f \in {0, 1} : t.link[n][f] = r => n = up /\ f = side
      /\ \A n \in N : \A f \in {0, 1} : t.link[n][f] = c => n = r /\ f = e
  BY <1>1, <1>4, TurnApart
<1>6. \A n \in N : \A f \in {0, 1} : t.link[n][f] = x => n = c /\ f = d
  BY <1>1, <1>4, TurnApart
<1>7. /\ u.link[up][side] = x /\ u.link[r][e] = t.link[x][d] /\ u.link[c][d] = t.link[x][e]
      /\ \A n \in N : \A f \in {0, 1} :
           \/ n = up /\ f = side
           \/ n = r /\ f = e
           \/ n = x
           \/ n = c /\ f = d
           \/ u.link[n][f] = t.link[n][f]
  BY <1>2 DEF TwiceAt
<1>8. \A m \in N \cup {NIL} : m # r => (IsRed(u.red, m) => IsRed(t.red, m))
  BY <1>2 DEF IsRed
<1>9. \A n \in N : \A f \in {0, 1} : t.link[n][f] \in N \cup {NIL}
  BY <1>1, LinkIn
<1>10. \A n \in N : \A f \in {0, 1} :
         (n = c /\ f = d) \/ (t.red[n] => ~IsRed(t.red, t.link[n][f]))
  BY DEF NoOtherRedRed
<1>11. ASSUME NEW n \in N, NEW f \in {0, 1}, u.red[n] PROVE ~IsRed(u.red, u.link[n][f])
  <2>1. n # x /\ (f = d \/ f = e)
    BY <1>1, <1>2, <1>11
  <2>2. CASE n = r
    <3>1. CASE f = d
      <4>1. u.link[n][f] = t.link[r][d] /\ t.link[r][d] # r
        BY <1>1, <1>4, <1>5, <1>7, <2>2, <3>1
      <4> QED
        BY <1>1, <1>8, <1>9, <4>1
    <3>2. CASE f = e
      <4>1. u.link[n][f] = t.link[x][d] /\ t.link[x][d] # r /\ ~IsRed(t.red, t.link[x][d])
        BY <1>1, <1>4, <1>5, <1>7, <1>10, <2>2, <3>2
      <4> QED
        BY <1>1, <1>8, <1>9, <4>1
    <3> QED
      BY <2>1, <3>1, <3>2
  <2>3. CASE n = c
    <3>1. CASE f = e
      <4>1. u.link[n][f] = t.link[c][e] /\ t.link[c][e] # r /\ ~IsRed(t.red, t.link[c][e])
        BY <1>1, <1>4, <1>5, <1>7, <1>10, <2>3, <3>1
      <4> QED
        BY <1>1, <1>8, <1>9, <4>1
    <3>2. CASE f = d
      <4>1. u.link[n][f] = t.link[x][e] /\ t.link[x][e] # r /\ ~IsRed(t.red, t.link[x][e])
        BY <1>1, <1>4, <1>5, <1>7, <1>10, <2>3, <3>2
      <4> QED
        BY <1>1, <1>8, <1>9, <4>1
    <3> QED
      BY <2>1, <3>1, <3>2
  <2>4. CASE n # r /\ n # c
    <3>1. CASE n = up /\ f = side
      BY <1>2, <1>7, <3>1 DEF IsRed
    <3>2. CASE ~(n = up /\ f = side)
      <4>1. u.link[n][f] = t.link[n][f] /\ t.link[n][f] # r
        BY <1>5, <1>7, <2>1, <2>4, <3>2
      <4>2. ~IsRed(t.red, t.link[n][f])
        BY <1>2, <1>10, <1>11, <2>1, <2>4
      <4> QED
        BY <1>8, <1>9, <4>1, <4>2
    <3> QED
      BY <3>1, <3>2
  <2> QED
    BY <2>2, <2>3, <2>4
<1>12. NoRedRed(N, u.link, u.red)
  BY <1>11 DEF NoRedRed
<1> QED
  BY <1>3, <1>12

-----------------------------------------------------------------------------
(* A leaf is added. *)

PutAs(N, t, u, n, link, red, data, key) ==
  /\ u \in Trees(N \cup {n})
  /\ u.link[n] = link /\ u.red[n] = red /\ u.data[n] = data /\ u.key[n] = key
  /\ \A m \in N : m = n \/ /\ u.link[m] = t.link[m] /\ u.red[m] = t.red[m]
                           /\ u.data[m] = t.data[m] /\ u.key[m] = t.key[m]

LEMMA PutIs ==
  ASSUME NEW N, NEW t \in Trees(N), NEW n, NEW link \in [{0, 1} -> N \cup {n, NIL}],
         NEW red \in BOOLEAN, NEW data \in Data \cup {NULL}, NEW key \in Keys \cup {0}
  PROVE  PutAs(N, t, Put(t, n, link, red, data, key), n, link, red, data, key)
<1>1. /\ t.link \in [N -> [{0, 1} -> N \cup {NIL}]] /\ t.red \in [N -> BOOLEAN]
      /\ t.data \in [N -> Data \cup {NULL}] /\ t.key \in [N -> Keys \cup {0}]
  BY DEF Trees
<1> DEFINE With(f, x) == [m \in DOMAIN f \cup {n} |-> IF m = n THEN x ELSE f[m]]
<1>2. PICK a, b, c, d : /\ a = With(t.link, link) /\ b = With(t.red, red)
                        /\ c = With(t.data, data) /\ d = With(t.key, key)
  OBVIOUS
<1>3. /\ a \in [N \cup {n} -> [{0, 1} -> (N \cup {n}) \cup {NIL}]] /\ a[n] = link
      /\ \A m \in N : m = n \/ a[m] = t.link[m]
  <2>1. a = [m \in N \cup {n} |-> IF m = n THEN link ELSE t.link[m]]
    BY <1>1, <1>2
  <2>2. \A m \in N : t.link[m] \in [{0, 1} -> (N \cup {n}) \cup {NIL}]
    BY <1>1
  <2>3. link \in [{0, 1} -> (N \cup {n}) \cup {NIL}]
    OBVIOUS
  <2> QED
    BY <2>1, <2>2, <2>3
<1>4. b \in [N \cup {n} -> BOOLEAN] /\ b[n] = red /\ \A m \in N : m = n \/ b[m] = t.red[m]
  <2>1. b = [m \in N \cup {n} |-> IF m = n THEN red ELSE t.red[m]]
    BY <1>1, <1>2
  <2>2. \A m \in N \cup {n} : (IF m = n THEN red ELSE t.red[m]) \in BOOLEAN
    BY <1>1
  <2>3. b \in [N \cup {n} -> BOOLEAN]
    BY <2>1, <2>2
  <2> QED
    BY <2>1, <2>3
<1>5. c \in [N \cup {n} -> Data \cup {NULL}] /\ c[n] = data /\ \A m \in N : m = n \/ c[m] = t.data[m]
  <2>1. c = [m \in N \cup {n} |-> IF m = n THEN data ELSE t.data[m]]
    BY <1>1, <1>2
  <2> QED
    BY <1>1, <2>1
<1>6. d \in [N \cup {n} -> Keys \cup {0}] /\ d[n] = key /\ \A m \in N : m = n \/ d[m] = t.key[m]
  <2>1. d = [m \in N \cup {n} |-> IF m = n THEN key ELSE t.key[m]]
    BY <1>1, <1>2
  <2> QED
    BY <1>1, <2>1
<1>7. Put(t, n, link, red, data, key) = [link |-> a, red |-> b, data |-> c, key |-> d]
  BY <1>2 DEF Put
<1> HIDE DEF With
<1> QED
  BY <1>3, <1>4, <1>5, <1>6, <1>7 DEF PutAs, Trees

LeafAt(N, L, M, p, d, h) ==
  /\ M \in [N \cup {h} -> [{0, 1} -> (N \cup {h}) \cup {NIL}]]
  /\ M[h][0] = NIL /\ M[h][1] = NIL /\ M[p][d] = h
  /\ \A n \in N : \A f \in {0, 1} : (n = p /\ f = d) \/ M[n][f] = L[n][f]

LeafB(N, B, p, h) ==
  [n \in (N \cup {h}) \cup {NIL} |->
     IF n = h THEN {h} ELSE IF p \in B[n] THEN B[n] \cup {h} ELSE B[n]]

LEMMA LeafOrdered ==
  ASSUME NEW N, NEW L, NEW B, Ordered(N, L, B), NEW h \in Int, h # NIL, h \notin N,
         NEW p \in N, NEW d \in {0, 1}, L[p][d] = NIL,
         Path(N, L, B, h, h + 1, p), Beyond(d, p, h), NEW M, LeafAt(N, L, M, p, d, h)
  PROVE  Ordered(N \cup {h}, M, LeafB(N, B, p, h))
<1>1. PICK D : D = LeafB(N, B, p, h)
  OBVIOUS
<1>2. /\ N \subseteq Int /\ NIL \notin N /\ IsFiniteSet(N) /\ B \in [N \cup {NIL} -> SUBSET N] /\ B[NIL] = {}
      /\ \A n \in N : \A f \in {0, 1} : L[n][f] \in N \cup {NIL} /\ L[n][f] # h
  <2>1. \A n \in N : \A f \in {0, 1} : L[n][f] \in N \cup {NIL}
    BY LinkIn
  <2> QED
    BY <2>1 DEF Ordered
<1>3. /\ D \in [(N \cup {h}) \cup {NIL} -> SUBSET (N \cup {h})] /\ D[NIL] = {} /\ D[h] = {h}
      /\ \A n \in N \cup {NIL} : D[n] = IF p \in B[n] THEN B[n] \cup {h} ELSE B[n]
  BY <1>1, <1>2 DEF LeafB
<1>4. /\ M \in [N \cup {h} -> [{0, 1} -> (N \cup {h}) \cup {NIL}]]
      /\ M[h][0] = NIL /\ M[h][1] = NIL /\ M[p][d] = h
      /\ \A n \in N : \A f \in {0, 1} : (n = p /\ f = d) \/ M[n][f] = L[n][f]
  BY DEF LeafAt
<1>5. ASSUME NEW n \in N \cup {h}, NEW f \in {0, 1}, NEW g \in {0, 1}, f # g
      PROVE  D[n] = {n} \cup D[M[n][f]] \cup D[M[n][g]]
  <2>1. CASE n = h
    <3>1. M[h][f] = NIL /\ M[h][g] = NIL
      BY <1>4
    <3> QED
      BY <1>3, <2>1, <3>1
  <2>2. CASE n = p
    <3>1. B[p] = {p} \cup B[L[p][f]] \cup B[L[p][g]] /\ p \in B[p] /\ p \notin B[L[p][f]] /\ p \notin B[L[p][g]]
      BY <1>5, BelowOnce
    <3>2. L[p][f] \in N \cup {NIL} /\ L[p][g] \in N \cup {NIL} /\ (f = d \/ g = d)
      BY <1>2, <1>5
    <3>3. D[p] = B[p] \cup {h} /\ D[L[p][f]] = B[L[p][f]] /\ D[L[p][g]] = B[L[p][g]]
      BY <1>3, <3>1, <3>2
    <3>4. CASE f = d
      <4>1. M[p][f] = h /\ M[p][g] = L[p][g] /\ B[L[p][f]] = {}
        BY <1>2, <1>4, <1>5, <3>4
      <4> QED
        BY <1>3, <2>2, <3>1, <3>3, <4>1
    <3>5. CASE g = d
      <4>1. M[p][g] = h /\ M[p][f] = L[p][f] /\ B[L[p][g]] = {}
        BY <1>2, <1>4, <1>5, <3>5
      <4> QED
        BY <1>3, <2>2, <3>1, <3>3, <4>1
    <3> QED
      BY <3>2, <3>4, <3>5
  <2>3. CASE n # h /\ n # p
    <3>1. n \in N /\ M[n][f] = L[n][f] /\ M[n][g] = L[n][g]
      BY <1>4, <2>3
    <3>2. B[n] = {n} \cup B[L[n][f]] \cup B[L[n][g]]
      BY <1>5, <3>1, BelowOnce
    <3>3. L[n][f] \in N \cup {NIL} /\ L[n][g] \in N \cup {NIL}
      BY <1>2, <3>1
    <3>4. CASE p \in B[n]
      <4>1. D[n] = B[n] \cup {h} /\ (p \in B[L[n][f]] \/ p \in B[L[n][g]])
        BY <1>3, <2>3, <3>1, <3>2, <3>4
      <4>2. CASE p \in B[L[n][f]]
        <5>1. /\ D[L[n][f]] = B[L[n][f]] \cup {h}
              /\ D[L[n][g]] = B[L[n][g]] \/ D[L[n][g]] = B[L[n][g]] \cup {h}
          BY <1>3, <3>3, <4>2
        <5> QED
          BY <3>1, <3>2, <4>1, <5>1
      <4>3. CASE p \in B[L[n][g]]
        <5>1. /\ D[L[n][g]] = B[L[n][g]] \cup {h}
              /\ D[L[n][f]] = B[L[n][f]] \/ D[L[n][f]] = B[L[n][f]] \cup {h}
          BY <1>3, <3>3, <4>3
        <5> QED
          BY <3>1, <3>2, <4>1, <5>1
      <4> QED
        BY <4>1, <4>2, <4>3
    <3>5. CASE p \notin B[n]
      BY <1>3, <3>1, <3>2, <3>3, <3>5
    <3> QED
      BY <3>4, <3>5
  <2> QED
    BY <2>1, <2>2, <2>3
<1>6. ASSUME NEW n \in N \cup {h}, NEW f \in {0, 1}, NEW m \in D[M[n][f]] PROVE Beyond(f, n, m)
  <2>1. CASE n = h
    <3>1. M[h][f] = NIL
      BY <1>4
    <3> QED
      BY <1>3, <1>6, <2>1, <3>1
  <2>2. CASE n = p /\ f = d
    BY <1>3, <1>4, <1>6, <2>2
  <2>3. CASE n # h /\ ~(n = p /\ f = d)
    <3>1. n \in N /\ M[n][f] = L[n][f] /\ L[n][f] \in N \cup {NIL}
      BY <1>2, <1>4, <2>3
    <3>2. m \in B[L[n][f]] \/ (m = h /\ p \in B[L[n][f]])
      BY <1>3, <1>6, <3>1
    <3>3. CASE m \in B[L[n][f]]
      BY <3>1, <3>3 DEF Ordered
    <3>4. CASE m = h /\ p \in B[L[n][f]]
      <4>1. Heading(f, n, h, h + 1) /\ n \in Int
        BY <1>2, <3>1, <3>4 DEF Path
      <4> QED
        BY <3>4, <4>1, HeadingDef
    <3> QED
      BY <3>2, <3>3, <3>4
  <2> QED
    BY <2>1, <2>2, <2>3
<1>7. ASSUME NEW m \in N \cup {h}, NEW n \in N \cup {h}, NEW f \in {0, 1}, NEW g \in {0, 1},
             M[m][f] = M[n][g], M[m][f] # NIL
      PROVE  m = n /\ f = g
  <2>1. m \in N /\ n \in N
    BY <1>4, <1>7
  <2>2. (m = p /\ f = d) <=> M[m][f] = h
    BY <1>2, <1>4, <2>1
  <2>3. (n = p /\ g = d) <=> M[n][g] = h
    BY <1>2, <1>4, <2>1
  <2>4. CASE M[m][f] = h
    BY <1>7, <2>2, <2>3, <2>4
  <2>5. CASE M[m][f] # h
    <3>1. M[m][f] = L[m][f] /\ M[n][g] = L[n][g]
      BY <1>4, <1>7, <2>1, <2>2, <2>3, <2>5
    <3>2. \A a, b \in N : \A x, y \in {0, 1} : L[a][x] = L[b][y] /\ L[a][x] # NIL => a = b /\ x = y
      BY DEF Ordered
    <3>3. L[m][f] = L[n][g] /\ L[m][f] # NIL
      BY <1>7, <3>1
    <3> QED
      BY <2>1, <3>2, <3>3
  <2> QED
    BY <2>4, <2>5
<1>8. N \cup {h} \subseteq Int /\ NIL \notin N \cup {h} /\ IsFiniteSet(N \cup {h})
  BY <1>2, FS_AddElement
<1>9. Ordered(N \cup {h}, M, D)
  BY <1>3, <1>4, <1>5, <1>6, <1>7, <1>8 DEF Ordered
<1> QED
  BY <1>1, <1>9

Reddened(N, C, D, h) ==
  D \in [N \cup {h} -> BOOLEAN] /\ D[h] /\ \A n \in N : D[n] <=> C[n]

\* A leaf is red: the paths have the black nodes they had.
LEMMA LeafSound ==
  ASSUME NEW N, NEW L, NEW C, NEW B, NEW H, Sound(N, L, C, B, H), NEW h \in Int, h # NIL, h \notin N,
         NEW p \in N, p # HEAD, NEW d \in {0, 1}, L[p][d] = NIL,
         Path(N, L, B, h, h + 1, p), Beyond(d, p, h), NEW M, LeafAt(N, L, M, p, d, h),
         NEW D, Reddened(N, C, D, h)
  PROVE  /\ \E K : Sound(N \cup {h}, M, D, LeafB(N, B, p, h), K)
         /\ NoRedRed(N, L, C) => NoOtherRedRed(N \cup {h}, M, D, p, d)
<1> USE DEF Reddened
<1>1. Typed(N, L, C, B, H)
  BY SoundTypes
<1>2. /\ HEAD \in N /\ ~C[HEAD] /\ L[HEAD][0] = NIL /\ B[HEAD] = N /\ Ordered(N, L, B)
      /\ H \in [N \cup {NIL} -> Nat] /\ H[NIL] = 0 /\ NIL \notin N
      /\ \A n \in N : \A f \in {0, 1} : L[n][f] \in N \cup {NIL}
  BY <1>1 DEF Typed, Sound
<1>3. /\ M[h][0] = NIL /\ M[h][1] = NIL /\ M[p][d] = h
      /\ \A n \in N : \A f \in {0, 1} : (n = p /\ f = d) \/ M[n][f] = L[n][f]
  BY DEF LeafAt
<1>4. Ordered(N \cup {h}, M, LeafB(N, B, p, h))
  BY <1>2, LeafOrdered
<1>5. PICK K : K = [n \in (N \cup {h}) \cup {NIL} |-> IF n = h THEN 0 ELSE H[n]]
  OBVIOUS
<1>6. /\ K \in [(N \cup {h}) \cup {NIL} -> Nat] /\ K[NIL] = 0 /\ K[h] = 0
      /\ \A n \in N \cup {NIL} : K[n] = H[n]
  BY <1>2, <1>5
<1>7. ASSUME NEW n \in (N \cup {h}) \ {HEAD}, NEW f \in {0, 1}
      PROVE  K[n] = IF D[n] THEN K[M[n][f]] ELSE K[M[n][f]] + 1
  <2>1. CASE n = h
    <3>1. M[h][f] = NIL
      BY <1>3
    <3> QED
      BY <1>6, <2>1, <3>1
  <2>2. CASE n # h
    <3>1. n \in N \ {HEAD} /\ L[n][f] \in N \cup {NIL}
      BY <1>2, <2>2
    <3>2. H[n] = IF C[n] THEN H[L[n][f]] ELSE H[L[n][f]] + 1
      BY <3>1 DEF Sound, Even
    <3>3. K[M[n][f]] = H[L[n][f]]
      BY <1>3, <1>6, <3>1
    <3> QED
      BY <1>6, <3>1, <3>2, <3>3
  <2> QED
    BY <2>1, <2>2
<1>8. Even(N \cup {h}, M, D, K)
  BY <1>6, <1>7 DEF Even
<1>9. Headed(N \cup {h}, M, D, LeafB(N, B, p, h))
  <2>1. M[HEAD][0] = NIL
    BY <1>2, <1>3
  <2>2. LeafB(N, B, p, h)[HEAD] = N \cup {h}
    BY <1>2 DEF LeafB
  <2> QED
    BY <1>2, <2>1, <2>2 DEF Headed
<1>10. ASSUME NoRedRed(N, L, C), NEW n \in N \cup {h}, NEW f \in {0, 1}, ~(n = p /\ f = d), D[n]
      PROVE  ~IsRed(D, M[n][f])
  <2>1. CASE n = h
    <3>1. M[h][f] = NIL
      BY <1>3
    <3> QED
      BY <2>1, <3>1 DEF IsRed
  <2>2. CASE n # h
    <3>1. n \in N /\ M[n][f] = L[n][f] /\ L[n][f] \in N \cup {NIL} /\ C[n]
      BY <1>2, <1>3, <1>10, <2>2
    <3>2. ~IsRed(C, L[n][f])
      BY <1>10, <3>1 DEF NoRedRed
    <3> QED
      BY <3>1, <3>2 DEF IsRed
  <2> QED
    BY <2>1, <2>2
<1> QED
  BY <1>4, <1>8, <1>9, <1>10 DEF Sound, NoOtherRedRed

Sprouts(N, L, C, B, M, D, p, d, h) ==
  /\ h \in Int /\ h # NIL /\ h \notin N /\ p \in N /\ p # HEAD /\ d \in {0, 1} /\ L[p][d] = NIL
  /\ Path(N, L, B, h, h + 1, p) /\ Beyond(d, p, h) /\ LeafAt(N, L, M, p, d, h)
  /\ Reddened(N, C, D, h)

LEMMA SproutSound ==
  ASSUME NEW N, NEW L, NEW C, NEW B, NEW H, Sound(N, L, C, B, H), NEW M, NEW D, NEW p, NEW d, NEW h,
         Sprouts(N, L, C, B, M, D, p, d, h)
  PROVE  /\ \E K : Sound(N \cup {h}, M, D, LeafB(N, B, p, h), K)
         /\ NoRedRed(N, L, C) => NoOtherRedRed(N \cup {h}, M, D, p, d)
BY LeafSound DEF Sprouts

-----------------------------------------------------------------------------
(* The loop of _inssearch.  Between its passes the tree is sound and no red *)
(* node has a red child.                                                    *)

Tidy(N, t, B, H) ==
  t \in Trees(N) /\ Sound(N, t.link, t.red, B, H) /\ NoRedRed(N, t.link, t.red)

\* The children of q are not both red.
Fixed(t, q) == ~(IsRed(t.red, t.link[q][0]) /\ IsRed(t.red, t.link[q][1]))

\* A pass leaves q black.
Calm(t, q) == q # NIL /\ ~t.red[q] /\ Fixed(t, q)

Flip(t, q) ==
  LET kids == {t.link[q][0], t.link[q][1]}
  IN  IF \A c \in kids : Red(t, c) THEN Paint(Paint(t, {q}, TRUE), kids, FALSE) ELSE t

\* u is t after the flip of q.
FlippedAt(N, t, u, q) ==
  /\ u \in Trees(N) /\ u.link = t.link /\ u.data = t.data /\ u.key = t.key
  /\ \A n \in N : u.red[n] \in BOOLEAN
  /\ \/ u = t /\ Fixed(t, q)
     \/ /\ ~Fixed(t, q) /\ ~t.red[q]
        /\ Forked(N, t.link, q, t.link[q][0], t.link[q][1])
        /\ t.red[t.link[q][0]] /\ t.red[t.link[q][1]]
        /\ Flipped(N, t.red, u.red, q, t.link[q][0], t.link[q][1], TRUE)

LEMMA FlipIs ==
  ASSUME NEW N, NEW t, NEW B, NEW H, Tidy(N, t, B, H), NEW q \in N \ {HEAD}
  PROVE  FlippedAt(N, t, Flip(t, q), q)
<1>1. /\ t \in Trees(N) /\ t.red \in [N -> BOOLEAN] /\ Sound(N, t.link, t.red, B, H)
      /\ t.link[q][0] \in N \cup {NIL} /\ t.link[q][1] \in N \cup {NIL} /\ NIL \notin N
  <2>1. t \in Trees(N) /\ Sound(N, t.link, t.red, B, H)
    BY DEF Tidy
  <2>2. NIL \notin N
    BY <2>1 DEF Sound, Ordered
  <2> QED
    BY <2>1, <2>2 DEF Trees
<1>2. PICK a, b : a = t.link[q][0] /\ b = t.link[q][1]
  OBVIOUS
<1>3. CASE ~Fixed(t, q)
  <2>1. a \in N /\ b \in N /\ t.red[a] /\ t.red[b] /\ Red(t, a) /\ Red(t, b)
    BY <1>1, <1>2, <1>3 DEF Fixed, IsRed, Red
  <2>2. Flip(t, q) = Paint(Paint(t, {q}, TRUE), {a, b}, FALSE)
    BY <1>2, <2>1 DEF Flip
  <2>3. PICK m : m = Paint(t, {q}, TRUE)
    OBVIOUS
  <2>4. Painted(N, t, m, {q}, TRUE)
    BY <1>1, <2>3, PaintIs
  <2>5. PICK u : u = Paint(m, {a, b}, FALSE)
    OBVIOUS
  <2>6. Painted(N, m, u, {a, b}, FALSE)
    <3>1. m \in Trees(N)
      BY <2>4 DEF Painted
    <3> QED
      BY <2>5, <3>1, PaintIs
  <2>7. ~t.red[q]
    <3>1. t.red[q] => ~IsRed(t.red, t.link[q][0])
      BY DEF Tidy, NoRedRed
    <3> QED
      BY <1>1, <1>2, <2>1, <3>1 DEF IsRed
  <2>8. Forked(N, t.link, q, a, b)
    BY <1>2, <2>1 DEF Forked
  <2>9. a # q /\ b # q
    BY <1>1, <2>8, ForkApart
  <2>10. u \in Trees(N) /\ u.link = t.link /\ u.data = t.data /\ u.key = t.key /\ u.red \in [N -> BOOLEAN]
    BY <2>4, <2>6 DEF Painted, Trees
  <2>11. m.red[q] = TRUE /\ \A n \in N : n = q \/ m.red[n] = t.red[n]
    BY <2>4 DEF Painted
  <2>12. u.red[a] = FALSE /\ u.red[b] = FALSE /\ \A n \in N : n = a \/ n = b \/ u.red[n] = m.red[n]
    BY <2>1, <2>6 DEF Painted
  <2>13. Flipped(N, t.red, u.red, q, a, b, TRUE)
    <3>1. u.red[q] /\ ~u.red[a] /\ ~u.red[b]
      BY <2>9, <2>11, <2>12
    <3>2. \A n \in N : n = q \/ n = a \/ n = b \/ (u.red[n] <=> t.red[n])
      BY <2>11, <2>12
    <3> QED
      BY <2>10, <3>1, <3>2 DEF Flipped
  <2> QED
    BY <1>2, <1>3, <2>1, <2>2, <2>3, <2>5, <2>7, <2>8, <2>10, <2>13 DEF FlippedAt
<1>4. CASE Fixed(t, q)
  <2>1. Flip(t, q) = t
    BY <1>4 DEF Flip, Fixed, IsRed, Red
  <2> QED
    BY <1>1, <1>4, <2>1 DEF FlippedAt
<1> QED
  BY <1>3, <1>4

\* The flip of q may leave it red below its parent p, and its children are calm.
LEMMA FlipTidy ==
  ASSUME NEW N, NEW t, NEW B, NEW H, Tidy(N, t, B, H), NEW q \in N \ {HEAD},
         NEW p \in N, NEW d \in {0, 1}, t.link[p][d] = q, NEW u, FlippedAt(N, t, u, q)
  PROVE  /\ \E K : Sound(N, u.link, u.red, B, K)
         /\ NoOtherRedRed(N, u.link, u.red, p, d)
         /\ Fixed(u, q)
         /\ u.red[p] <=> t.red[p]
         /\ \A e \in {0, 1} : u.red[q] /\ ~t.red[q] => Calm(u, t.link[q][e])
<1>1. /\ t \in Trees(N) /\ Sound(N, t.link, t.red, B, H) /\ NoRedRed(N, t.link, t.red)
  BY DEF Tidy
<1>2. Typed(N, t.link, t.red, B, H)
  BY <1>1, SoundTypes
<1>3. CASE u = t /\ Fixed(t, q)
  <2>1. NoOtherRedRed(N, u.link, u.red, p, d)
    BY <1>1, <1>3 DEF NoRedRed, NoOtherRedRed
  <2> QED
    BY <1>1, <1>3, <2>1
<1>4. CASE ~(u = t /\ Fixed(t, q))
  <2>1. PICK a, b : a = t.link[q][0] /\ b = t.link[q][1]
    OBVIOUS
  <2>2. /\ u.link = t.link /\ ~t.red[q] /\ Forked(N, t.link, q, a, b)
        /\ t.red[a] /\ t.red[b] /\ Flipped(N, t.red, u.red, q, a, b, TRUE)
    BY <1>4, <2>1 DEF FlippedAt
  <2>3. \E K : Sound(N, u.link, u.red, B, K)
    BY <1>1, <2>2, FlipUp
  <2>4. /\ a \in N /\ b \in N /\ a # b /\ a # q /\ b # q
        /\ \A m \in N : \A f \in {0, 1} : t.link[m][f] = a => m = q /\ f = 0
        /\ \A m \in N : \A f \in {0, 1} : t.link[m][f] = b => m = q /\ f = 1
    BY <1>1, <2>2, ForkApart DEF Forked
  <2>5. /\ u.red \in [N -> BOOLEAN] /\ u.red[q] /\ ~u.red[a] /\ ~u.red[b]
        /\ \A m \in N : m = q \/ m = a \/ m = b \/ (u.red[m] <=> t.red[m])
    BY <2>2 DEF Flipped
  <2>6. \A m \in N : \A f \in {0, 1} : t.red[m] => ~IsRed(t.red, t.link[m][f])
    BY <1>1 DEF NoRedRed
  <2>7. \A m \in N : \A f \in {0, 1} : t.link[m][f] \in N \cup {NIL}
    BY <1>2 DEF Typed
  <2>8. \A m \in N : \A f \in {0, 1} : t.link[m][f] = q => m = p /\ f = d
    <3>1. NIL \notin N /\ \A m, n \in N : \A f, e \in {0, 1} :
            t.link[m][f] = t.link[n][e] /\ t.link[m][f] # NIL => m = n /\ f = e
      BY <1>1 DEF Sound, Ordered
    <3> QED
      BY <3>1
  <2>9. \A m \in N \cup {NIL} : m # q => (IsRed(u.red, m) => IsRed(t.red, m))
    BY <2>5 DEF IsRed
  <2>10. ASSUME NEW m \in N, NEW f \in {0, 1}, ~(m = p /\ f = d), u.red[m]
         PROVE  ~IsRed(u.red, u.link[m][f])
    <3>1. m # a /\ m # b /\ t.link[m][f] # q
      BY <2>5, <2>8, <2>10
    <3>2. CASE m = q
      <4>1. t.link[m][f] = a \/ t.link[m][f] = b
        BY <2>1, <3>2
      <4> QED
        BY <2>2, <2>5, <4>1 DEF IsRed
    <3>3. CASE m # q
      <4>1. ~IsRed(t.red, t.link[m][f])
        BY <2>5, <2>6, <2>10, <3>1, <3>3
      <4> QED
        BY <2>2, <2>7, <2>9, <3>1, <4>1
    <3> QED
      BY <3>2, <3>3
  <2>11. NoOtherRedRed(N, u.link, u.red, p, d)
    BY <2>10 DEF NoOtherRedRed
  <2>12. p # q /\ p # a /\ p # b
    <3>1. p # q
      BY <1>2 DEF Typed
    <3>2. p # a /\ p # b
      <4>1. Ordered(N, t.link, B) /\ 0 \in {0, 1} /\ 1 \in {0, 1}
        BY <1>1 DEF Sound
      <4>2. a \in B[q] /\ b \in B[q]
        <5>1. B[t.link[q][0]] \subseteq B[q] /\ B[t.link[q][1]] \subseteq B[q]
          BY <4>1, BelowOnce
        <5>2. a \in B[a] /\ b \in B[b]
          BY <1>2, <2>4 DEF Typed
        <5> QED
          BY <2>1, <5>1, <5>2
      <4>3. p \notin B[q]
        BY <4>1, BelowOnce, BeyondDef
      <4> QED
        BY <4>2, <4>3
    <3> QED
      BY <3>1, <3>2
  <2>13. u.red[p] <=> t.red[p]
    BY <2>5, <2>12
  <2>14. ASSUME NEW c \in {a, b} PROVE Calm(u, c)
    <3>1. c \in N /\ t.red[c] /\ ~u.red[c] /\ c # NIL
      BY <1>2, <2>2, <2>4, <2>5, <2>14 DEF Typed
    <3>2. ~IsRed(t.red, t.link[c][0]) /\ t.link[c][0] \in N \cup {NIL} /\ t.link[c][0] # q
      <4>1. c # p
        BY <2>12, <2>14
      <4> QED
        BY <2>6, <2>7, <2>8, <3>1, <4>1
    <3>3. ~IsRed(u.red, t.link[c][0])
      BY <2>9, <3>2
    <3> QED
      BY <2>2, <3>1, <3>3 DEF Calm, Fixed
  <2>15. Fixed(u, q)
    BY <2>1, <2>2, <2>5 DEF Fixed, IsRed
  <2>16. \A e \in {0, 1} : t.link[q][e] \in {a, b}
    BY <2>1
  <2> QED
    BY <2>3, <2>11, <2>13, <2>14, <2>15, <2>16
<1> QED
  BY <1>3, <1>4

LoopVars(N, s) ==
  /\ s.t \in N /\ s.g \in N \cup {NIL} /\ s.p \in N \cup {NIL} /\ s.q \in N \cup {NIL}
  /\ s.dir \in {0, 1} /\ s.last \in {0, 1}

\* p is on the path of h, and q is next.
OnWay(N, B, h, s) ==
  /\ s.p \in N \ {HEAD} /\ s.p # h /\ s.dir = Side(s.p < h)
  /\ s.q = s.tree.link[s.p][s.dir]
  /\ Path(N, s.tree.link, B, h, h + 1, s.p)

AtStart(s) ==
  /\ s.p = NIL /\ s.g = NIL /\ s.t = HEAD
  /\ s.q = s.tree.link[HEAD][1] /\ s.q # NIL /\ ~s.tree.red[s.q]

AtSecond(N, B, h, s) ==
  /\ OnWay(N, B, h, s) /\ s.g = NIL /\ s.t = HEAD /\ s.tree.link[HEAD][1] = s.p
  /\ Fixed(s.tree, s.p)
  /\ s.tree.red[s.p] => Calm(s.tree, s.q)

AfterSingle(N, B, h, s) ==
  /\ OnWay(N, B, h, s) /\ s.g \in N \ {HEAD} /\ s.tree.link[s.g][s.last] = s.p
  /\ Fixed(s.tree, s.p)
  /\ Calm(s.tree, s.q)

\* If q may turn red below a red p, p has no red sibling.
AtDepth(N, B, h, s) ==
  /\ OnWay(N, B, h, s) /\ s.g \in N \ {HEAD} /\ s.tree.link[s.g][s.last] = s.p
  /\ \E e \in {0, 1} : s.tree.link[s.t][e] = s.g
  /\ Fixed(s.tree, s.p)
  /\ s.tree.red[s.p] /\ (s.q = NIL \/ ~Fixed(s.tree, s.q))
       => ~IsRed(s.tree.red, s.tree.link[s.g][1 - s.last])

\* q is one of the red nodes that went down below p.
AfterDouble(N, B, h, s) ==
  /\ OnWay(N, B, h, s) /\ ~s.tree.red[s.p] /\ IsRed(s.tree.red, s.q) /\ s.q # h
  /\ Calm(s.tree, s.tree.link[s.q][Side(s.q < h)])

\* At most w passes are left.
Going(N, B, H, h, s, w) ==
  /\ Tidy(N, s.tree, B, H) /\ LoopVars(N, s)
  /\ \/ /\ \/ AtStart(s) \/ AtSecond(N, B, h, s)
           \/ AfterSingle(N, B, h, s) \/ AtDepth(N, B, h, s)
        /\ w = 2 * Cardinality(B[s.q]) + 1
     \/ /\ AfterDouble(N, B, h, s)
        /\ w = 2 * Cardinality(B[s.tree.link[s.q][Side(s.q < h)]]) + 2

\* The state after a pass at node q that leaves tree u.
Passed(s, h, u, q) ==
  [tree |-> u, t |-> IF s.g # NIL THEN s.g ELSE s.t,
   g |-> s.p, p |-> q, q |-> u.link[q][Side(q < h)], dir |-> Side(q < h), last |-> s.dir]

Mended(t, s, q) == IF Red(t, q) /\ Red(t, s.p) THEN Repair(t, s, q) ELSE t

LEMMA PassAtNode ==
  ASSUME NEW s, NEW h, NEW v, NEW k, s.p # h, s.q # NIL
  PROVE  Pass(s, h, v, k) = Passed(s, h, Mended(Flip(s.tree, s.q), s, s.q), s.q)
BY DEF Pass, Passed, Mended, Flip

LEMMA PassAtEnd ==
  ASSUME NEW s, NEW h, NEW v, NEW k, s.p # h, s.q = NIL
  PROVE  Pass(s, h, v, k) =
           Passed(s, h, Mended(SetLink(Put(s.tree, h, Leaf, TRUE, v, k), s.p, s.dir, h), s, h), h)
BY DEF Pass, Passed, Mended

LEMMA PassedVars ==
  ASSUME NEW N, NEW s, LoopVars(N, s), NEW h \in Int, NEW u \in Trees(N), NEW q \in N, N \subseteq Int
  PROVE  LoopVars(N, Passed(s, h, u, q))
<1>1. Side(q < h) \in {0, 1}
  BY HeadingDef
<1>2. u.link[q][Side(q < h)] \in N \cup {NIL}
  BY <1>1 DEF Trees
<1>3. PICK r : r = Passed(s, h, u, q)
  OBVIOUS
<1>4. /\ r.t = (IF s.g # NIL THEN s.g ELSE s.t) /\ r.g = s.p /\ r.p = q
      /\ r.q = u.link[q][Side(q < h)] /\ r.dir = Side(q < h) /\ r.last = s.dir
  BY <1>3 DEF Passed
<1>5. LoopVars(N, r)
  BY <1>1, <1>2, <1>4 DEF LoopVars
<1> QED
  BY <1>3, <1>5

\* What a step down takes from the weight.
LEMMA LighterBelow ==
  ASSUME NEW N, NEW L, NEW B, Ordered(N, L, B), NEW n \in N, NEW d \in {0, 1}
  PROVE  /\ Cardinality(B[n]) \in Nat /\ Cardinality(B[L[n][d]]) \in Nat
         /\ Cardinality(B[L[n][d]]) + 1 <= Cardinality(B[n])
<1>1. B[L[n][d]] \subseteq B[n] /\ n \in B[n] /\ n \notin B[L[n][d]] /\ B[n] \subseteq N
  BY BelowOnce, BeyondDef
<1>2. IsFiniteSet(B[n])
  BY <1>1, FS_Subset DEF Ordered
<1>3. /\ IsFiniteSet(B[L[n][d]]) /\ Cardinality(B[L[n][d]]) <= Cardinality(B[n])
      /\ Cardinality(B[L[n][d]]) # Cardinality(B[n])
  BY <1>1, <1>2, FS_Subset
<1>4. Cardinality(B[n]) \in Nat /\ Cardinality(B[L[n][d]]) \in Nat
  BY <1>2, <1>3, FS_CardinalityType
<1> QED
  BY <1>3, <1>4

\* A pass at q without a repair.
Quiet(N, B, h, s, u) ==
  LET r == Passed(s, h, u, s.q) IN
  /\ \E K : Tidy(N, u, B, K)
  /\ LoopVars(N, r) /\ r.tree = u /\ r.p = s.q /\ r.g = s.p /\ r.last = s.dir
  /\ r.t = IF s.g # NIL THEN s.g ELSE s.t
  /\ r.q = u.link[s.q][Side(s.q < h)] /\ Side(s.q < h) \in {0, 1}
  /\ s.q = h \/ OnWay(N, B, h, r)
  /\ Fixed(u, s.q)
  /\ u.red[s.q] /\ ~s.tree.red[s.q] => Calm(u, r.q)
  /\ Cardinality(B[s.q]) \in Nat /\ Cardinality(B[r.q]) \in Nat
  /\ Cardinality(B[r.q]) + 1 <= Cardinality(B[s.q])

LEMMA QuietPass ==
  ASSUME NEW N, NEW B, NEW H, NEW s, NEW h \in Int, Tidy(N, s.tree, B, H), LoopVars(N, s),
         s.q \in N \ {HEAD}, NEW p \in N, NEW d \in {0, 1}, s.tree.link[p][d] = s.q,
         Path(N, s.tree.link, B, h, h + 1, s.q),
         NEW u, FlippedAt(N, s.tree, u, s.q), ~u.red[p] \/ ~u.red[s.q]
  PROVE  Quiet(N, B, h, s, u)
<1>1. PICK t, q : t = s.tree /\ q = s.q
  OBVIOUS
<1>2. /\ t \in Trees(N) /\ Sound(N, t.link, t.red, B, H) /\ u \in Trees(N) /\ u.link = t.link
      /\ q \in N \ {HEAD}
  BY <1>1 DEF Tidy, FlippedAt
<1>3. Typed(N, t.link, t.red, B, H)
  BY <1>2, SoundTypes
<1>4. N \subseteq Int /\ NIL \notin N /\ Ordered(N, t.link, B)
  BY <1>2, <1>3 DEF Typed, Sound
<1>5. /\ \E K : Sound(N, u.link, u.red, B, K)
      /\ NoOtherRedRed(N, u.link, u.red, p, d)
      /\ Fixed(u, q)
      /\ \A e \in {0, 1} : u.red[q] /\ ~t.red[q] => Calm(u, t.link[q][e])
  BY <1>1, FlipTidy
<1>6. NoRedRed(N, u.link, u.red)
  <2>1. ~(u.red[p] /\ IsRed(u.red, u.link[p][d]))
    BY <1>1, <1>2 DEF IsRed
  <2> QED
    BY <1>5, <2>1 DEF NoRedRed, NoOtherRedRed
<1>7. Side(q < h) \in {0, 1}
  BY <1>2, <1>4, HeadingDef
<1>8. PICK r : r = Passed(s, h, u, q)
  OBVIOUS
<1>9. /\ r.tree = u /\ r.t = (IF s.g # NIL THEN s.g ELSE s.t) /\ r.g = s.p /\ r.p = q
      /\ r.q = u.link[q][Side(q < h)] /\ r.dir = Side(q < h) /\ r.last = s.dir
  BY <1>8 DEF Passed
<1>10. LoopVars(N, r)
  BY <1>2, <1>4, <1>8, PassedVars
<1>11. q = h \/ OnWay(N, B, h, r)
  BY <1>1, <1>2, <1>9 DEF OnWay
<1>12. /\ Cardinality(B[q]) \in Nat /\ Cardinality(B[r.q]) \in Nat
       /\ Cardinality(B[r.q]) + 1 <= Cardinality(B[q])
  BY <1>2, <1>4, <1>7, <1>9, LighterBelow
<1>13. \E K : Tidy(N, u, B, K)
  BY <1>2, <1>5, <1>6 DEF Tidy
<1>14. u.red[q] /\ ~t.red[q] => Calm(u, r.q)
  BY <1>2, <1>5, <1>7, <1>9
<1> QED
  BY <1>1, <1>5, <1>7, <1>8, <1>9, <1>10, <1>11, <1>12, <1>13, <1>14 DEF Quiet

\* After a pass the loop is over or has less left to do.
Done(N, h, r) == r.p = h /\ LoopVars(N, r) /\ \E B, H : Tidy(N, r.tree, B, H)

Onward(N, h, r, w) ==
  \/ Done(N, h, r)
  \/ \E B, H, m : m \in Nat /\ m < w /\ Going(N, B, H, h, r, m)

Kept(t, u) == u.data = t.data /\ u.key = t.key

LEMMA PathNext ==
  ASSUME NEW N, NEW B, NEW H, NEW s, NEW h \in Int, Tidy(N, s.tree, B, H), LoopVars(N, s),
         OnWay(N, B, h, s), s.q # NIL
  PROVE  /\ s.q \in N \ {HEAD} /\ s.p \in N \ {HEAD} /\ s.tree.link[s.p][s.dir] = s.q
         /\ Path(N, s.tree.link, B, h, h + 1, s.q)
         /\ Beyond(s.dir, s.p, h) /\ Ordered(N, s.tree.link, B)
<1>1. PICK t, p, q, d : t = s.tree /\ p = s.p /\ q = s.q /\ d = s.dir
  OBVIOUS
<1>2. Sound(N, t.link, t.red, B, H)
  BY <1>1 DEF Tidy
<1>3. Typed(N, t.link, t.red, B, H)
  BY <1>2, SoundTypes
<1>4. /\ N \subseteq Int /\ Ordered(N, t.link, B)
      /\ p \in N \ {HEAD} /\ q \in N /\ d \in {0, 1} /\ d = Side(p < h) /\ t.link[p][d] = q /\ p # h
      /\ Path(N, t.link, B, h, h + 1, p)
  BY <1>1, <1>2, <1>3 DEF OnWay, LoopVars, Typed, Sound
<1>5. q # HEAD
  BY <1>3, <1>4 DEF Typed
<1>6. Heading(d, p, h, h + 1) /\ Beyond(d, p, h)
  BY <1>4, HeadingDef
<1>7. Path(N, t.link, B, h, h + 1, q)
  BY <1>4, <1>6, PathDown
<1> QED
  BY <1>1, <1>4, <1>5, <1>6, <1>7

LEMMA StartPass ==
  ASSUME NEW N, NEW B, NEW H, NEW s, NEW h \in Nat, Tidy(N, s.tree, B, H), LoopVars(N, s), AtStart(s),
         NEW u, FlippedAt(N, s.tree, u, s.q)
  PROVE  Onward(N, h, Passed(s, h, u, s.q), 2 * Cardinality(B[s.q]) + 1)
<1>1. PICK t, q : t = s.tree /\ q = s.q
  OBVIOUS
<1>2. Sound(N, t.link, t.red, B, H) /\ h \in Int
  BY <1>1 DEF Tidy
<1>3. Typed(N, t.link, t.red, B, H)
  BY <1>2, SoundTypes
<1>4. HEAD \in N /\ ~t.red[HEAD] /\ t.link[HEAD][1] = q /\ q # NIL /\ 1 \in {0, 1}
  BY <1>1, <1>3 DEF AtStart, Typed
<1>5. q \in N \ {HEAD}
  BY <1>3, <1>4 DEF Typed
<1>6. Heading(1, HEAD, h, h + 1)
  BY DEF Heading, HEAD
<1>7. Path(N, t.link, B, h, h + 1, q)
  BY <1>2, <1>4, <1>6, PathRoot
<1>8. u.red[HEAD] <=> t.red[HEAD]
  BY <1>1, <1>4, <1>5, FlipTidy
<1>9. Quiet(N, B, h, s, u)
  BY <1>1, <1>2, <1>4, <1>5, <1>7, <1>8, QuietPass
<1>10. PICK r : r = Passed(s, h, u, q)
  OBVIOUS
<1>11. /\ \E K : Tidy(N, u, B, K)
       /\ LoopVars(N, r) /\ r.tree = u /\ r.p = q /\ r.g = s.p
       /\ r.t = (IF s.g # NIL THEN s.g ELSE s.t)
       /\ q = h \/ OnWay(N, B, h, r)
       /\ Fixed(u, q)
       /\ u.red[q] /\ ~t.red[q] => Calm(u, r.q)
       /\ Cardinality(B[q]) \in Nat /\ Cardinality(B[r.q]) \in Nat
       /\ Cardinality(B[r.q]) + 1 <= Cardinality(B[q])
  BY <1>1, <1>9, <1>10 DEF Quiet
<1>12. s.p = NIL /\ s.g = NIL /\ s.t = HEAD /\ ~t.red[q] /\ u.link = t.link
  BY <1>1 DEF AtStart, FlippedAt
<1>13. CASE q = h
  BY <1>1, <1>10, <1>11, <1>13 DEF Onward, Done
<1>14. CASE q # h
  <2>1. AtSecond(N, B, h, r)
    BY <1>4, <1>11, <1>12, <1>14 DEF AtSecond
  <2>2. PICK K : Tidy(N, r.tree, B, K)
    BY <1>11
  <2>3. PICK m : m = 2 * Cardinality(B[r.q]) + 1
    OBVIOUS
  <2>4. Going(N, B, K, h, r, m)
    BY <1>11, <2>1, <2>2, <2>3 DEF Going
  <2>5. m \in Nat /\ m < 2 * Cardinality(B[q]) + 1
    BY <1>11, <2>3
  <2> QED
    BY <1>1, <1>10, <2>4, <2>5 DEF Onward
<1> QED
  BY <1>13, <1>14

\* From two levels below the root on.
LEMMA QuietToDepth ==
  ASSUME NEW N, NEW B, NEW H, NEW s, NEW h \in Nat, Tidy(N, s.tree, B, H), LoopVars(N, s),
         OnWay(N, B, h, s), s.q # NIL, Fixed(s.tree, s.p),
         \E e \in {0, 1} : s.tree.link[IF s.g # NIL THEN s.g ELSE s.t][e] = s.p,
         NEW u, FlippedAt(N, s.tree, u, s.q), ~u.red[s.p] \/ ~u.red[s.q]
  PROVE  Onward(N, h, Passed(s, h, u, s.q), 2 * Cardinality(B[s.q]) + 1)
<1>1. PICK t, p, q, d : t = s.tree /\ p = s.p /\ q = s.q /\ d = s.dir
  OBVIOUS
<1>2. /\ q \in N \ {HEAD} /\ p \in N \ {HEAD} /\ t.link[p][d] = q /\ d \in {0, 1} /\ h \in Int
      /\ Path(N, t.link, B, h, h + 1, q)
  <2>1. h \in Int
    OBVIOUS
  <2>2. s.q \in N \ {HEAD} /\ s.p \in N \ {HEAD} /\ s.tree.link[s.p][s.dir] = s.q
        /\ Path(N, s.tree.link, B, h, h + 1, s.q)
    BY <2>1, PathNext
  <2> QED
    BY <1>1, <2>1, <2>2 DEF LoopVars
<1>3. Quiet(N, B, h, s, u)
  BY <1>1, <1>2, QuietPass
<1>4. PICK r : r = Passed(s, h, u, q)
  OBVIOUS
<1>5. /\ \E K : Tidy(N, u, B, K)
      /\ LoopVars(N, r) /\ r.tree = u /\ r.p = q /\ r.g = p /\ r.last = d
      /\ r.t = (IF s.g # NIL THEN s.g ELSE s.t)
      /\ q = h \/ OnWay(N, B, h, r)
      /\ Fixed(u, q)
      /\ u.red[q] /\ ~t.red[q] => Calm(u, r.q)
      /\ Cardinality(B[q]) \in Nat /\ Cardinality(B[r.q]) \in Nat
      /\ Cardinality(B[r.q]) + 1 <= Cardinality(B[q])
  BY <1>1, <1>3, <1>4 DEF Quiet
<1>6. CASE q = h
  BY <1>1, <1>4, <1>5, <1>6 DEF Onward, Done
<1>7. CASE q # h
  <2>1. u.link = t.link /\ (u = t \/ ~t.red[q])
    BY <1>1 DEF FlippedAt
  <2>2. u.red[q] /\ (r.q = NIL \/ ~Fixed(u, r.q)) => ~IsRed(u.red, u.link[p][1 - d])
    <3>1. SUFFICES ASSUME u.red[q], r.q = NIL \/ ~Fixed(u, r.q) PROVE ~IsRed(u.red, u.link[p][1 - d])
      OBVIOUS
    <3>2. u = t
      BY <1>5, <2>1, <3>1 DEF Calm
    <3>3. Fixed(u, p) /\ IsRed(u.red, u.link[p][d])
      <4>1. q # NIL
        BY <1>1
      <4> QED
        BY <1>1, <1>2, <2>1, <3>1, <3>2, <4>1 DEF IsRed
    <3>4. (d = 0 /\ 1 - d = 1) \/ (d = 1 /\ 1 - d = 0)
      BY <1>2
    <3> QED
      BY <3>3, <3>4 DEF Fixed
  <2>3. \E e \in {0, 1} : u.link[r.t][e] = p
    BY <1>1, <1>5, <2>1
  <2>4. AtDepth(N, B, h, r)
    BY <1>2, <1>5, <1>7, <2>1, <2>2, <2>3 DEF AtDepth
  <2>5. PICK K : Tidy(N, r.tree, B, K)
    BY <1>5
  <2>6. PICK m : m = 2 * Cardinality(B[r.q]) + 1
    OBVIOUS
  <2>7. Going(N, B, K, h, r, m)
    BY <1>5, <2>4, <2>5, <2>6 DEF Going
  <2>8. m \in Nat /\ m < 2 * Cardinality(B[q]) + 1
    BY <1>5, <2>6
  <2> QED
    BY <1>1, <1>4, <2>7, <2>8 DEF Onward
<1> QED
  BY <1>6, <1>7

\* A calm node does not turn red, and its parent stays as it is.
LEMMA CalmPass ==
  ASSUME NEW N, NEW t, NEW u, NEW q, FlippedAt(N, t, u, q), Calm(t, q)
  PROVE  u = t /\ ~u.red[q]
BY DEF FlippedAt, Calm

LEMMA SecondPass ==
  ASSUME NEW N, NEW B, NEW H, NEW s, NEW h \in Nat, Tidy(N, s.tree, B, H), LoopVars(N, s),
         AtSecond(N, B, h, s), s.q # NIL, NEW u, FlippedAt(N, s.tree, u, s.q)
  PROVE  /\ ~u.red[s.p] \/ ~u.red[s.q]
         /\ Onward(N, h, Passed(s, h, u, s.q), 2 * Cardinality(B[s.q]) + 1)
<1>1. /\ OnWay(N, B, h, s) /\ s.g = NIL /\ s.t = HEAD /\ s.tree.link[HEAD][1] = s.p
      /\ Fixed(s.tree, s.p) /\ (s.tree.red[s.p] => Calm(s.tree, s.q))
  BY DEF AtSecond
<1>2. /\ s.q \in N \ {HEAD} /\ s.p \in N \ {HEAD} /\ s.tree.link[s.p][s.dir] = s.q /\ s.dir \in {0, 1}
  <2>1. h \in Int
    OBVIOUS
  <2>2. s.q \in N \ {HEAD} /\ s.p \in N \ {HEAD} /\ s.tree.link[s.p][s.dir] = s.q
    BY <1>1, <2>1, PathNext
  <2> QED
    BY <2>2 DEF LoopVars
<1>3. u.red[s.p] <=> s.tree.red[s.p]
  BY <1>2, FlipTidy
<1>4. ~u.red[s.p] \/ ~u.red[s.q]
  BY <1>1, <1>3, CalmPass
<1>5. \E e \in {0, 1} : s.tree.link[IF s.g # NIL THEN s.g ELSE s.t][e] = s.p
  BY <1>1
<1> QED
  BY <1>1, <1>4, <1>5, QuietToDepth

LEMMA SinglePass ==
  ASSUME NEW N, NEW B, NEW H, NEW s, NEW h \in Nat, Tidy(N, s.tree, B, H), LoopVars(N, s),
         AfterSingle(N, B, h, s), NEW u, FlippedAt(N, s.tree, u, s.q)
  PROVE  /\ ~u.red[s.p] \/ ~u.red[s.q]
         /\ Onward(N, h, Passed(s, h, u, s.q), 2 * Cardinality(B[s.q]) + 1)
<1>1. /\ OnWay(N, B, h, s) /\ s.g \in N \ {HEAD} /\ s.tree.link[s.g][s.last] = s.p
      /\ Fixed(s.tree, s.p) /\ Calm(s.tree, s.q) /\ s.q # NIL
  BY DEF AfterSingle, Calm
<1>2. ~u.red[s.q]
  BY <1>1, CalmPass
<1>3. NIL \notin N /\ s.last \in {0, 1}
  BY DEF Tidy, Sound, Ordered, LoopVars
<1>4. \E e \in {0, 1} : s.tree.link[IF s.g # NIL THEN s.g ELSE s.t][e] = s.p
  BY <1>1, <1>3
<1> QED
  BY <1>1, <1>2, <1>4, QuietToDepth

LEMMA DoublePass ==
  ASSUME NEW N, NEW B, NEW H, NEW s, NEW h \in Nat, Tidy(N, s.tree, B, H), LoopVars(N, s),
         AfterDouble(N, B, h, s), NEW u, FlippedAt(N, s.tree, u, s.q)
  PROVE  /\ ~u.red[s.p] \/ ~u.red[s.q]
         /\ Onward(N, h, Passed(s, h, u, s.q),
                   2 * Cardinality(B[s.tree.link[s.q][Side(s.q < h)]]) + 2)
<1>1. PICK t, p, q, d : t = s.tree /\ p = s.p /\ q = s.q /\ d = s.dir
  OBVIOUS
<1>2. /\ OnWay(N, B, h, s) /\ ~t.red[p] /\ IsRed(t.red, q) /\ q # h /\ q # NIL /\ t.red[q]
      /\ Calm(t, t.link[q][Side(q < h)])
  BY <1>1 DEF AfterDouble, IsRed
<1>3. /\ q \in N \ {HEAD} /\ p \in N \ {HEAD} /\ t.link[p][d] = q /\ d \in {0, 1} /\ h \in Int
      /\ Path(N, t.link, B, h, h + 1, q)
  <2>1. h \in Int
    OBVIOUS
  <2>2. s.q \in N \ {HEAD} /\ s.p \in N \ {HEAD} /\ s.tree.link[s.p][s.dir] = s.q
        /\ Path(N, s.tree.link, B, h, h + 1, s.q)
    BY <1>1, <1>2, <2>1, PathNext
  <2> QED
    BY <1>1, <2>1, <2>2 DEF LoopVars
<1>4. u = t
  BY <1>1, <1>2 DEF FlippedAt
<1>5. Quiet(N, B, h, s, u)
  BY <1>1, <1>2, <1>3, <1>4, QuietPass
<1>6. PICK r : r = Passed(s, h, u, q)
  OBVIOUS
<1>7. /\ \E K : Tidy(N, u, B, K)
      /\ LoopVars(N, r) /\ r.tree = u /\ r.p = q /\ r.g = p /\ r.last = d
      /\ r.q = u.link[q][Side(q < h)]
      /\ OnWay(N, B, h, r)
      /\ Fixed(u, q)
      /\ Cardinality(B[r.q]) \in Nat
  BY <1>1, <1>2, <1>5, <1>6 DEF Quiet
<1>8. AfterSingle(N, B, h, r)
  BY <1>2, <1>3, <1>4, <1>7 DEF AfterSingle
<1>9. PICK K : Tidy(N, r.tree, B, K)
  BY <1>7
<1>10. PICK m : m = 2 * Cardinality(B[r.q]) + 1
  OBVIOUS
<1>11. Going(N, B, K, h, r, m)
  BY <1>7, <1>8, <1>9, <1>10 DEF Going
<1>12. m \in Nat /\ m < 2 * Cardinality(B[t.link[q][Side(q < h)]]) + 2
  BY <1>4, <1>7, <1>10
<1> QED
  BY <1>1, <1>2, <1>4, <1>6, <1>11, <1>12 DEF Onward

-----------------------------------------------------------------------------
(* The repair. *)

\* q is red below the red p, and p below the black g, which has no other red child.
RedBelowRed(N, t, s, q) ==
  /\ s.t \in N /\ s.g \in N /\ s.p \in N /\ q \in N /\ s.dir \in {0, 1} /\ s.last \in {0, 1}
  /\ \E e \in {0, 1} : t.link[s.t][e] = s.g
  /\ t.link[s.g][s.last] = s.p /\ t.link[s.p][s.dir] = q
  /\ t.red[s.p] /\ t.red[q] /\ ~IsRed(t.red, t.link[s.g][1 - s.last])
  /\ NoOtherRedRed(N, t.link, t.red, s.p, s.dir)

RepairedOnce(N, t, s, q, B, u) ==
  /\ s.dir = s.last
  /\ \E side \in {0, 1} :
       /\ CanTurn(N, t.link, s.t, side, s.g, s.p, 1 - s.last, s.last)
       /\ Turning(N, t, u, s.t, side, s.g, s.p, 1 - s.last, s.last)
  /\ \E K : Sound(N, u.link, u.red, TurnedB(t.link, B, s.g, s.p, 1 - s.last), K)

RepairedTwice(N, t, s, q, B, u) ==
  /\ s.dir = 1 - s.last
  /\ \E side \in {0, 1} :
       /\ CanTurnTwice(N, t.link, s.t, side, s.g, s.p, q, 1 - s.last, s.last)
       /\ TurningTwice(N, t, u, s.t, side, s.g, s.p, q, 1 - s.last, s.last)
  /\ \E K : Sound(N, u.link, u.red, TwiceB(t.link, B, s.g, s.p, q, 1 - s.last, s.last), K)

LEMMA RepairIs ==
  ASSUME NEW N, NEW t \in Trees(N), NEW B, NEW H, Sound(N, t.link, t.red, B, H),
         NEW s, NEW q, RedBelowRed(N, t, s, q),
         NEW u, u = Repair(t, s, q)
  PROVE  /\ u \in Trees(N) /\ Kept(t, u) /\ NoRedRed(N, u.link, u.red)
         /\ RepairedOnce(N, t, s, q, B, u) \/ RepairedTwice(N, t, s, q, B, u)
<1>1. PICK T, g, p, e, d : T = s.t /\ g = s.g /\ p = s.p /\ e = s.last /\ d = 1 - s.last
  OBVIOUS
<1>2. /\ T \in N /\ g \in N /\ p \in N /\ q \in N /\ e \in {0, 1} /\ d \in {0, 1} /\ d # e
      /\ d = 1 - e /\ e = 1 - d
      /\ t.link[g][e] = p /\ t.link[p][s.dir] = q /\ s.dir \in {0, 1}
      /\ t.red[p] /\ t.red[q] /\ ~IsRed(t.red, t.link[g][d])
      /\ NoOtherRedRed(N, t.link, t.red, p, s.dir)
      /\ Ordered(N, t.link, B) /\ NIL \notin N
  BY <1>1 DEF RedBelowRed, Sound, Ordered
<1>3. PICK side : side = Side(t.link[T][1] = g)
  OBVIOUS
<1>4. side \in {0, 1} /\ t.link[T][side] = g
  BY <1>1, <1>3 DEF RedBelowRed, Side
<1>5. CanTurn(N, t.link, T, side, g, p, d, e)
  BY <1>2, <1>4 DEF CanTurn
<1>6. T # g /\ T # p /\ g # p
  BY <1>2, <1>5, TurnApart
<1>7. ~t.red[g]
  <2>1. t.red[g] => ~IsRed(t.red, t.link[g][e])
    BY <1>2, <1>6 DEF NoOtherRedRed
  <2> QED
    BY <1>2, <2>1 DEF IsRed
<1>8. CASE s.dir = e
  <2>1. u = Single(t, T, side, g, d)
    BY <1>1, <1>2, <1>3, <1>8 DEF Repair
  <2>2. Turning(N, t, u, T, side, g, p, d, e)
    BY <1>5, <1>6, <2>1, SingleIs
  <2>3. /\ \E K : Sound(N, u.link, u.red, TurnedB(t.link, B, g, p, d), K)
        /\ NoRedRed(N, u.link, u.red)
    <3>1. NoOtherRedRed(N, t.link, t.red, p, e)
      BY <1>2, <1>8
    <3>2. ~t.red[g] /\ t.red[p] /\ ~IsRed(t.red, t.link[g][d])
      BY <1>2, <1>7
    <3> QED
      BY <1>5, <2>2, <3>1, <3>2, LiftOnce
  <2>4. u \in Trees(N) /\ Kept(t, u)
    BY <2>2 DEF Turning, Kept
  <2>5. RepairedOnce(N, t, s, q, B, u)
    BY <1>1, <1>4, <1>5, <1>8, <2>2, <2>3 DEF RepairedOnce
  <2> QED
    BY <2>3, <2>4, <2>5
<1>9. CASE s.dir # e
  <2>1. s.dir = d
    BY <1>2, <1>9
  <2>2. CanTurnTwice(N, t.link, T, side, g, p, q, d, e)
    BY <1>2, <1>5, <2>1 DEF CanTurnTwice
  <2>3. t.link[p][e] # q
    <3>1. t.link[p][s.dir] = q /\ q # NIL
      BY <1>2
    <3> QED
      BY <1>2, <1>9, <3>1, BelowOnce
  <2>4. u = Double(t, T, side, g, d)
    BY <1>1, <1>2, <1>3, <2>3 DEF Repair
  <2>5. TurningTwice(N, t, u, T, side, g, p, q, d, e)
    BY <1>2, <2>2, <2>4, DoubleIs
  <2>6. /\ \E K : Sound(N, u.link, u.red, TwiceB(t.link, B, g, p, q, d, e), K)
        /\ NoRedRed(N, u.link, u.red)
    <3>1. NoOtherRedRed(N, t.link, t.red, p, d)
      BY <1>2, <2>1
    <3>2. ~t.red[g] /\ t.red[p] /\ t.red[q] /\ ~IsRed(t.red, t.link[g][d])
      BY <1>2, <1>7
    <3> QED
      BY <2>2, <2>5, <3>1, <3>2, LiftTwice
  <2>7. TwiceDone(N, t, u, T, side, g, p, q, d, e)
    BY <1>2, <2>2, <2>5, TwiceColours
  <2>8. u \in Trees(N) /\ Kept(t, u)
    BY <2>7 DEF TwiceDone, Kept
  <2>9. RepairedTwice(N, t, s, q, B, u)
    BY <1>1, <1>4, <2>1, <2>2, <2>5, <2>6 DEF RepairedTwice
  <2> QED
    BY <2>6, <2>8, <2>9
<1> QED
  BY <1>8, <1>9

\* After one rotation the next node is calm, and p is above q still.
LEMMA OnceOnward ==
  ASSUME NEW N, NEW t \in Trees(N), NEW B, NEW H, Sound(N, t.link, t.red, B, H),
         NEW s, LoopVars(N, s), NEW h \in Nat, NEW q \in N, q # h, s.p \in N \ {HEAD}, s.p # h,
         RedBelowRed(N, t, s, q), Fixed(t, q), Calm(t, t.link[q][Side(q < h)]),
         Path(N, t.link, B, h, h + 1, q),
         NEW u, u \in Trees(N), NoRedRed(N, u.link, u.red), RepairedOnce(N, t, s, q, B, u)
  PROVE  Onward(N, h, Passed(s, h, u, q), 2 * Cardinality(B[q]) + 1)
<1>1. PICK T, g, p, e, d : T = s.t /\ g = s.g /\ p = s.p /\ e = s.last /\ d = 1 - s.last
  OBVIOUS
<1>2. PICK side \in {0, 1} : /\ CanTurn(N, t.link, T, side, g, p, d, e)
                             /\ Turning(N, t, u, T, side, g, p, d, e)
  BY <1>1 DEF RepairedOnce
<1>3. PICK D : D = TurnedB(t.link, B, g, p, d)
  OBVIOUS
<1>4. PICK K : Sound(N, u.link, u.red, D, K)
  BY <1>1, <1>3 DEF RepairedOnce
<1>5. /\ p \in N /\ g \in N /\ T \in N /\ t.link[p][e] = q /\ e \in {0, 1} /\ d \in {0, 1} /\ d # e
      /\ t.red[q] /\ t.red[p] /\ s.dir = e /\ Ordered(N, t.link, B)
  BY <1>1, <1>2 DEF RedBelowRed, RepairedOnce, CanTurn, Sound
<1>6. /\ IsTurned(N, t.link, u.link, T, side, g, p, d, e)
      /\ \A n \in N : n = g \/ n = p \/ (u.red[n] <=> t.red[n])
  BY <1>2 DEF Turning
<1>7. /\ T # g /\ T # p /\ g # p /\ T \notin B[g] /\ g \notin B[p] /\ B[p] \subseteq B[g]
  BY <1>2, <1>5, TurnApart
<1>8. /\ B[q] \subseteq B[p] /\ p \notin B[q] /\ q \in B[q] /\ N \subseteq Int /\ NIL \notin N
  <2>1. q \in B[q]
    BY <1>5, BelowOnce, BeyondDef
  <2>2. B[q] \subseteq B[p] /\ p \notin B[q]
    BY <1>5, BelowOnce
  <2> QED
    BY <1>5, <2>1, <2>2 DEF Ordered
<1>9. PICK f, c : f = Side(q < h) /\ c = t.link[q][f]
  OBVIOUS
<1>10. f \in {0, 1} /\ c \in N /\ Calm(t, c)
  <2>1. f \in {0, 1}
    BY <1>8, <1>9, HeadingDef
  <2>2. c \in N \cup {NIL} /\ Calm(t, c)
    BY <1>5, <1>9, <2>1, LinkIn
  <2> QED
    BY <2>1, <2>2 DEF Calm
<1>11. /\ c \in B[q] /\ Cardinality(B[c]) \in Nat /\ Cardinality(B[c]) + 1 <= Cardinality(B[q])
       /\ Cardinality(B[q]) \in Nat
  <2>1. B[c] \subseteq B[q] /\ c \in B[c]
    BY <1>5, <1>9, <1>10, BelowOnce, BeyondDef
  <2> QED
    BY <1>5, <1>9, <1>10, <2>1, LighterBelow
<1>12. c # g /\ c # p /\ c # T /\ q # g /\ q # p /\ q # T
  BY <1>7, <1>8, <1>11
<1>13. BelowTurned(N, t.link, B, u.link, D, g, p, d, e)
  BY <1>2, <1>3, <1>5, <1>6, TurnBelow
<1>14. D[c] = B[c]
  BY <1>10, <1>12, <1>13 DEF BelowTurned
<1>15. \A n \in {c, q} : \A x \in {0, 1} : u.link[n][x] = t.link[n][x]
  BY <1>6, <1>10, <1>12 DEF IsTurned
<1>16. u.link[p][e] = q
  BY <1>5, <1>6, <1>7 DEF IsTurned
<1>17. Path(N, u.link, D, h, h + 1, q)
  BY <1>2, <1>3, <1>5, <1>6, <1>12, PathTurned
<1>18. Tidy(N, u, D, K)
  BY <1>4 DEF Tidy
<1>19. PICK r : r = Passed(s, h, u, q)
  OBVIOUS
<1>20. LoopVars(N, r)
  <2>1. h \in Int /\ N \subseteq Int /\ q \in N
    BY <1>8
  <2> QED
    BY <1>19, <2>1, PassedVars
<1>21. /\ r.tree = u /\ r.g = p /\ r.p = q /\ r.q = u.link[q][f] /\ r.dir = f /\ r.last = e
  BY <1>1, <1>5, <1>9, <1>19 DEF Passed
<1>22. r.q = c
  BY <1>9, <1>10, <1>15, <1>21
<1>23. q # HEAD
  <2>1. Typed(N, t.link, t.red, B, H)
    BY SoundTypes
  <2> QED
    BY <1>5, <2>1 DEF Typed
<1>24. OnWay(N, D, h, r)
  BY <1>9, <1>17, <1>21, <1>23 DEF OnWay
<1>25. Calm(u, c) /\ Fixed(u, q)
  <2>1. ~u.red[c] /\ c # NIL
    BY <1>6, <1>10, <1>12 DEF Calm
  <2>2. ASSUME NEW n \in {c, q}, Fixed(t, n) PROVE Fixed(u, n)
    <3>1. \A x \in {0, 1} : t.link[n][x] \in N \cup {NIL} /\ t.link[n][x] \in B[q] \cup {NIL}
      <4>1. n \in N /\ n \in B[q]
        BY <1>8, <1>10, <1>11, <2>2
      <4>2. TAKE x \in {0, 1}
      <4>3. t.link[n][x] \in N \cup {NIL}
        BY <1>5, <4>1, LinkIn
      <4>4. t.link[n][x] # NIL => t.link[n][x] \in B[n]
        BY <1>5, <4>1, BelowOnce, BeyondDef
      <4>5. B[n] \subseteq B[q]
        BY <1>5, <4>1, BelowBelow
      <4> QED
        BY <4>3, <4>4, <4>5
    <3>2. \A x \in {0, 1} : t.link[n][x] # g /\ t.link[n][x] # p
      BY <1>5, <1>7, <1>8, <3>1
    <3>3. \A x \in {0, 1} : IsRed(u.red, u.link[n][x]) => IsRed(t.red, t.link[n][x])
      BY <1>6, <1>15, <3>1, <3>2 DEF IsRed
    <3>4. 0 \in {0, 1} /\ 1 \in {0, 1}
      OBVIOUS
    <3> QED
      BY <2>2, <3>3, <3>4 DEF Fixed
  <2> QED
    BY <1>10, <2>1, <2>2 DEF Calm
<1>26. AfterSingle(N, D, h, r)
  BY <1>1, <1>5, <1>16, <1>21, <1>22, <1>24, <1>25 DEF AfterSingle
<1>27. PICK m : m = 2 * Cardinality(D[r.q]) + 1
  OBVIOUS
<1>28. Going(N, D, K, h, r, m)
  BY <1>18, <1>20, <1>21, <1>26, <1>27 DEF Going
<1>29. m \in Nat /\ m < 2 * Cardinality(B[q]) + 1
  BY <1>11, <1>14, <1>22, <1>27
<1> QED
  BY <1>19, <1>28, <1>29 DEF Onward

\* After two rotations q is black on top, one of the red nodes that went down
\* is next, and after it comes a calm node.
LEMMA TwiceOnward ==
  ASSUME NEW N, NEW t \in Trees(N), NEW B, NEW H, Sound(N, t.link, t.red, B, H),
         NEW s, LoopVars(N, s), NEW h \in Nat, NEW q \in N, q # h, s.p # h,
         RedBelowRed(N, t, s, q), Fixed(t, q), Calm(t, t.link[q][Side(q < h)]),
         Path(N, t.link, B, h, h + 1, q),
         NEW u, u \in Trees(N), NoRedRed(N, u.link, u.red), RepairedTwice(N, t, s, q, B, u)
  PROVE  Onward(N, h, Passed(s, h, u, q), 2 * Cardinality(B[q]) + 1)
<1>1. PICK T, g, p, e, d : T = s.t /\ g = s.g /\ p = s.p /\ e = s.last /\ d = 1 - s.last
  OBVIOUS
<1>2. PICK side \in {0, 1} : /\ CanTurnTwice(N, t.link, T, side, g, p, q, d, e)
                             /\ TurningTwice(N, t, u, T, side, g, p, q, d, e)
  BY <1>1 DEF RepairedTwice
<1>3. PICK D : D = TwiceB(t.link, B, g, p, q, d, e)
  OBVIOUS
<1>4. PICK K : Sound(N, u.link, u.red, D, K)
  BY <1>1, <1>3 DEF RepairedTwice
<1>5. /\ p \in N /\ g \in N /\ T \in N /\ t.link[p][d] = q /\ t.link[g][e] = p
      /\ e \in {0, 1} /\ d \in {0, 1} /\ d # e
      /\ t.red[q] /\ t.red[p] /\ s.dir = d /\ Ordered(N, t.link, B)
      /\ CanTurn(N, t.link, T, side, g, p, d, e)
  BY <1>1, <1>2 DEF RedBelowRed, RepairedTwice, CanTurnTwice, CanTurn, Sound
<1>6. TwiceDone(N, t, u, T, side, g, p, q, d, e)
  BY <1>2, <1>5, TwiceColours
<1>7. /\ u.red[g] /\ u.red[p] /\ ~u.red[q]
      /\ \A n \in N : n = g \/ n = p \/ n = q \/ (u.red[n] <=> t.red[n])
      /\ TwiceAt(N, t.link, u.link, T, side, g, p, q, d, e)
  BY <1>6 DEF TwiceDone
<1>8. PICK M1 : /\ IsTurned(N, t.link, M1, g, e, p, q, e, d)
                /\ IsTurned(N, M1, u.link, T, side, g, q, d, e)
  BY <1>6 DEF TwiceDone
<1>9. /\ CanTurn(N, t.link, g, e, p, q, e, d)
      /\ T # g /\ T # p /\ T # q /\ g # p /\ g # q /\ p # q
      /\ q \in B[p] /\ p \in B[g] /\ q \in B[g] /\ g \notin B[p] /\ p \notin B[q] /\ T \notin B[g]
  BY <1>2, <1>5, TwiceApart
<1>10. CanTurn(N, M1, T, side, g, q, d, e)
  BY <1>2, <1>5, <1>8, TwiceSecond
<1>11. /\ TurnedB(M1, TurnedB(t.link, B, p, q, e), g, q, d) = D
       /\ \A n \in N : n = g \/ n = p \/ n = q \/ D[n] = B[n]
  BY <1>2, <1>3, <1>5, <1>8, TwiceBelow
<1>12. Ordered(N, M1, TurnedB(t.link, B, p, q, e))
  BY <1>5, <1>8, <1>9, TurnOrdered
<1>13. N \subseteq Int /\ NIL \notin N /\ h \in Int
  BY <1>5 DEF Ordered
<1>14. Path(N, u.link, D, h, h + 1, q)
  <2>1. Path(N, M1, TurnedB(t.link, B, p, q, e), h, h + 1, q)
    BY <1>5, <1>8, <1>9, <1>13, PathTurned
  <2>2. Path(N, u.link, TurnedB(M1, TurnedB(t.link, B, p, q, e), g, q, d), h, h + 1, q)
    BY <1>8, <1>9, <1>10, <1>12, <1>13, <2>1, PathTurned
  <2> QED
    BY <1>11, <2>2
<1>15. PICK f, y : f = Side(q < h) /\ y = t.link[q][f]
  OBVIOUS
<1>16. f \in {0, 1} /\ y \in N /\ Calm(t, y)
  <2>1. f \in {0, 1}
    BY <1>13, <1>15, HeadingDef
  <2>2. y \in N \cup {NIL} /\ Calm(t, y)
    BY <1>5, <1>15, <2>1, LinkIn
  <2> QED
    BY <2>1, <2>2 DEF Calm
<1>17. B[p] \subseteq B[g] /\ B[q] \subseteq B[p] /\ q \notin B[y] /\ y \in B[q]
       /\ Cardinality(B[y]) \in Nat /\ Cardinality(B[q]) \in Nat
       /\ Cardinality(B[y]) + 1 <= Cardinality(B[q])
  <2>1. B[y] \subseteq B[q] /\ y \in B[y] /\ q \notin B[y]
    <3>1. 1 - f \in {0, 1} /\ 1 - f # f
      BY <1>16, BeyondDef
    <3> QED
      BY <1>5, <1>15, <1>16, <3>1, BelowOnce, BeyondDef
  <2>2. B[p] \subseteq B[g] /\ B[q] \subseteq B[p]
    BY <1>5, <1>9, BelowBelow
  <2> QED
    BY <1>5, <1>15, <1>16, <2>1, <2>2, LighterBelow
<1>18. y # g /\ y # p /\ y # T /\ y # q
  <2>1. y \in B[g]
    BY <1>17
  <2>2. y # q
    <3>1. y \in B[y]
      BY <1>5, <1>16, BelowOnce, BeyondDef
    <3> QED
      BY <1>17, <3>1
  <2> QED
    BY <1>9, <1>17, <2>1, <2>2
<1>19. D[y] = B[y]
  BY <1>11, <1>16, <1>18
<1>20. \A x \in {0, 1} : u.link[y][x] = t.link[y][x]
  BY <1>7, <1>16, <1>18 DEF TwiceAt
<1>21. Beyond(e, g, h) /\ Beyond(d, p, h)
  <2>1. q \in B[t.link[g][e]] /\ q \in B[t.link[p][d]]
    <3>1. q \in B[q]
      BY <1>5, BelowOnce
    <3> QED
      BY <1>5, <1>9, <3>1
  <2>2. Heading(e, g, h, h + 1) /\ Heading(d, p, h, h + 1)
    BY <1>5, <2>1 DEF Path
  <2>3. \A a \in Int : \A x \in {0, 1} : Heading(x, a, h, h + 1) => Beyond(x, a, h)
    BY <1>13, HeadingDef
  <2>4. g \in Int /\ p \in Int
    BY <1>5, <1>13
  <2> QED
    BY <1>5, <2>2, <2>3, <2>4
<1>22. Side(g < h) = e /\ g # h /\ Side(p < h) = d /\ p # h
  <2>1. g \in Int /\ p \in Int
    BY <1>5, <1>13
  <2>2. \A a \in Int : \A x \in {0, 1} : Beyond(x, a, h) => Side(a < h) = x /\ a # h
    BY <1>13, HeadingDef
  <2> QED
    BY <1>5, <1>21, <2>1, <2>2
<1>23. PICK r : r = Passed(s, h, u, q)
  OBVIOUS
<1>24. LoopVars(N, r)
  BY <1>13, <1>23, PassedVars
<1>25. r.tree = u /\ r.p = q /\ r.q = u.link[q][f] /\ r.dir = f
  BY <1>15, <1>23 DEF Passed
<1>26. r.q \in {g, p} /\ r.q # NIL /\ r.q # h /\ u.red[r.q] /\ u.link[r.q][Side(r.q < h)] = y
  <2>1. CASE f = d
    <3>1. r.q = g
      BY <1>7, <1>25, <2>1 DEF TwiceAt
    <3>2. u.link[g][e] = y
      BY <1>7, <1>15, <2>1 DEF TwiceAt
    <3> QED
      BY <1>5, <1>7, <1>13, <1>22, <3>1, <3>2
  <2>2. CASE f = e
    <3>1. r.q = p
      BY <1>7, <1>25, <2>2 DEF TwiceAt
    <3>2. u.link[p][d] = y
      BY <1>7, <1>15, <2>2 DEF TwiceAt
    <3> QED
      BY <1>5, <1>7, <1>13, <1>22, <3>1, <3>2
  <2> QED
    BY <1>5, <1>16, <2>1, <2>2
<1>27. q # HEAD
  <2>1. Typed(N, t.link, t.red, B, H)
    BY SoundTypes
  <2> QED
    BY <1>5, <2>1 DEF Typed
<1>28. OnWay(N, D, h, r)
  BY <1>14, <1>15, <1>25, <1>27 DEF OnWay
<1>29. Calm(u, y)
  <2>1. ~u.red[y] /\ y # NIL
    BY <1>7, <1>16, <1>18 DEF Calm
  <2>2. \A x \in {0, 1} : t.link[y][x] \in N \cup {NIL} /\ t.link[y][x] # g /\ t.link[y][x] # p
                          /\ t.link[y][x] # q
    <3>1. TAKE x \in {0, 1}
    <3>2. t.link[y][x] \in N \cup {NIL}
      BY <1>5, <1>16, LinkIn
    <3>3. t.link[y][x] # NIL => t.link[y][x] \in B[y]
      BY <1>5, <1>16, <3>2, BelowOnce, BeyondDef
    <3>4. B[y] \subseteq B[q]
      BY <1>5, <1>17, BelowBelow
    <3> QED
      BY <1>5, <1>9, <1>13, <1>17, <3>2, <3>3, <3>4
  <2>3. \A x \in {0, 1} : IsRed(u.red, u.link[y][x]) => IsRed(t.red, t.link[y][x])
    BY <1>7, <1>20, <2>2 DEF IsRed
  <2>4. 0 \in {0, 1} /\ 1 \in {0, 1}
    OBVIOUS
  <2> QED
    BY <1>16, <2>1, <2>3, <2>4 DEF Calm, Fixed
<1>30. AfterDouble(N, D, h, r)
  BY <1>7, <1>25, <1>26, <1>28, <1>29 DEF AfterDouble, IsRed
<1>31. PICK m : m = 2 * Cardinality(D[r.tree.link[r.q][Side(r.q < h)]]) + 2
  OBVIOUS
<1>32. Tidy(N, r.tree, D, K)
  BY <1>4, <1>25 DEF Tidy
<1>33. Going(N, D, K, h, r, m)
  BY <1>24, <1>30, <1>31, <1>32 DEF Going
<1>34. m = 2 * Cardinality(B[y]) + 2
  BY <1>19, <1>25, <1>26, <1>31
<1>35. m \in Nat /\ m < 2 * Cardinality(B[q]) + 1
  BY <1>17, <1>34
<1> QED
  BY <1>23, <1>33, <1>35 DEF Onward

\* A pass at depth: the node is passed quietly, or repaired below a red one.
LEMMA DepthPass ==
  ASSUME NEW N, NEW B, NEW H, NEW s, NEW h \in Nat, Tidy(N, s.tree, B, H), LoopVars(N, s),
         AtDepth(N, B, h, s), s.q # NIL, NEW u, FlippedAt(N, s.tree, u, s.q)
  PROVE  /\ Onward(N, h, Passed(s, h, Mended(u, s, s.q), s.q), 2 * Cardinality(B[s.q]) + 1)
         /\ Kept(s.tree, Mended(u, s, s.q))
<1>1. PICK t, p, q, g, d, v : /\ t = s.tree /\ p = s.p /\ q = s.q /\ d = s.dir /\ g = s.g
                              /\ v = Mended(u, s, s.q)
  OBVIOUS
<1>2. /\ OnWay(N, B, h, s) /\ g \in N \ {HEAD} /\ t.link[g][s.last] = p
      /\ \E e \in {0, 1} : t.link[s.t][e] = g
      /\ Fixed(t, p)
      /\ t.red[p] /\ ~Fixed(t, q) => ~IsRed(t.red, t.link[g][1 - s.last])
  BY <1>1 DEF AtDepth
<1>3. /\ q \in N \ {HEAD} /\ p \in N \ {HEAD} /\ t.link[p][d] = q
      /\ Path(N, t.link, B, h, h + 1, q) /\ Ordered(N, t.link, B) /\ d \in {0, 1} /\ s.last \in {0, 1}
      /\ h \in Int /\ s.t \in N /\ p # h
  <2>1. h \in Int
    OBVIOUS
  <2>2. /\ s.q \in N \ {HEAD} /\ s.p \in N \ {HEAD} /\ s.tree.link[s.p][s.dir] = s.q
        /\ Path(N, s.tree.link, B, h, h + 1, s.q) /\ Ordered(N, s.tree.link, B)
    BY <1>1, <1>2, <2>1, PathNext
  <2> QED
    BY <1>1, <1>2, <2>1, <2>2 DEF LoopVars, OnWay
<1>4. NIL \notin N /\ N \subseteq Int
  BY <1>3 DEF Ordered
<1>5. Kept(t, u) /\ u \in Trees(N) /\ u.link = t.link
  BY <1>1 DEF FlippedAt, Kept
<1>6. v = IF u.red[q] /\ u.red[p] THEN Repair(u, s, q) ELSE u
  BY <1>1, <1>3, <1>4 DEF Mended, Red
<1>7. CASE ~u.red[p] \/ ~u.red[q]
  <2>1. v = u
    BY <1>6, <1>7
  <2>2. \E e \in {0, 1} : s.tree.link[IF s.g # NIL THEN s.g ELSE s.t][e] = s.p
    BY <1>1, <1>2, <1>3, <1>4
  <2>3. Onward(N, h, Passed(s, h, u, s.q), 2 * Cardinality(B[s.q]) + 1)
    BY <1>1, <1>2, <1>7, <2>2, QuietToDepth
  <2> QED
    BY <1>1, <1>5, <2>1, <2>3
<1>8. CASE u.red[p] /\ u.red[q]
  <2>1. FlippedAt(N, t, u, q) /\ Tidy(N, t, B, H)
    BY <1>1
  <2>2. /\ \E K : Sound(N, u.link, u.red, B, K)
        /\ NoOtherRedRed(N, u.link, u.red, p, d)
        /\ Fixed(u, q)
        /\ u.red[p] <=> t.red[p]
        /\ \A e \in {0, 1} : u.red[q] /\ ~t.red[q] => Calm(u, t.link[q][e])
    BY <1>3, <2>1, FlipTidy
  <2>3. ~t.red[q]
    <3>1. t.red[p] => ~IsRed(t.red, t.link[p][d])
      BY <1>3, <2>1 DEF Tidy, NoRedRed
    <3> QED
      BY <1>3, <1>4, <1>8, <2>2, <3>1 DEF IsRed
  <2>4. /\ ~Fixed(t, q)
        /\ Forked(N, t.link, q, t.link[q][0], t.link[q][1])
        /\ Flipped(N, t.red, u.red, q, t.link[q][0], t.link[q][1], TRUE)
    BY <1>8, <2>1, <2>3 DEF FlippedAt
  <2>5. PICK b : b = t.link[g][1 - s.last]
    OBVIOUS
  <2>6. ~IsRed(t.red, b) /\ t.red[p]
    BY <1>2, <1>8, <2>2, <2>4, <2>5
  <2>7. 1 - s.last \in {0, 1} /\ 1 - s.last # s.last
    BY <1>3, BeyondDef
  <2>8. b # q /\ b \in N \cup {NIL}
    <3>1. b = q /\ q # NIL => g = p
      <4>1. /\ g \in N /\ p \in N /\ q \in N /\ b = t.link[g][1 - s.last]
            /\ t.link[p][d] = q /\ d \in {0, 1} /\ 1 - s.last \in {0, 1}
        BY <1>2, <1>3, <2>5, <2>7
      <4>2. \A m, n \in N : \A x, y \in {0, 1} :
              t.link[m][x] = t.link[n][y] /\ t.link[m][x] # NIL => m = n /\ x = y
        BY <1>3 DEF Ordered
      <4>3. ASSUME b = q, q # NIL PROVE g = p
        <5>1. t.link[g][1 - s.last] = t.link[p][d] /\ t.link[g][1 - s.last] # NIL
          BY <4>1, <4>3
        <5>2. PICK x, y : x = 1 - s.last /\ y = d
          OBVIOUS
        <5> QED
          BY <4>1, <4>2, <5>1, <5>2
      <4> QED
        BY <4>3
    <3>2. g # p
      <4>1. t.link[g][s.last] # NIL => t.link[g][s.last] # g
        BY <1>2, <1>3, <2>7, BelowOnce
      <4> QED
        BY <1>2, <1>3, <1>4, <4>1
    <3>3. b \in N \cup {NIL}
      BY <1>2, <1>3, <2>5, <2>7, LinkIn
    <3> QED
      BY <1>3, <1>4, <3>1, <3>2, <3>3
  <2>9. ~IsRed(u.red, b)
    <3>1. b = t.link[q][0] \/ b = t.link[q][1] => ~u.red[b]
      BY <2>4 DEF Flipped
    <3>2. b \in N /\ b # t.link[q][0] /\ b # t.link[q][1] => (u.red[b] <=> t.red[b])
      BY <2>4, <2>8 DEF Flipped
    <3> QED
      BY <2>6, <2>8, <3>1, <3>2 DEF IsRed
  <2>10. RedBelowRed(N, u, s, q)
    BY <1>1, <1>2, <1>3, <1>5, <1>8, <2>2, <2>5, <2>9 DEF RedBelowRed
  <2>11. PICK K : Sound(N, u.link, u.red, B, K)
    BY <2>2
  <2>12. v = Repair(u, s, q)
    BY <1>6, <1>8
  <2>13. /\ v \in Trees(N) /\ Kept(u, v) /\ NoRedRed(N, v.link, v.red)
         /\ RepairedOnce(N, u, s, q, B, v) \/ RepairedTwice(N, u, s, q, B, v)
    BY <1>5, <2>10, <2>11, <2>12, RepairIs
  <2>14. Kept(t, v)
    BY <1>5, <2>13 DEF Kept
  <2>15. CASE q = h
    <3>1. PICK r : r = Passed(s, h, v, q)
      OBVIOUS
    <3>2. LoopVars(N, r)
      BY <1>1, <1>3, <1>4, <2>13, <3>1, PassedVars
    <3>3. r.p = h /\ r.tree = v
      BY <2>15, <3>1 DEF Passed
    <3>4. \E D, J : Sound(N, v.link, v.red, D, J)
      BY <2>13 DEF RepairedOnce, RepairedTwice
    <3>5. \E D, J : Tidy(N, r.tree, D, J)
      BY <2>13, <3>3, <3>4 DEF Tidy
    <3>6. Done(N, h, r)
      BY <3>2, <3>3, <3>5 DEF Done
    <3> QED
      BY <1>1, <2>14, <3>1, <3>6 DEF Onward
  <2>16. CASE q # h
    <3>1. PICK f : f = Side(q < h)
      OBVIOUS
    <3>2. f \in {0, 1}
      BY <1>3, <1>4, <3>1, HeadingDef
    <3>3. Calm(u, u.link[q][Side(q < h)])
      BY <1>5, <1>8, <2>2, <2>3, <3>1, <3>2
    <3>4. Path(N, u.link, B, h, h + 1, q)
      BY <1>3, <1>5
    <3>5. s.p \in N \ {HEAD} /\ s.p # h /\ q \in N /\ LoopVars(N, s)
      BY <1>1, <1>3
    <3>6. CASE RepairedOnce(N, u, s, q, B, v)
      <4>1. Onward(N, h, Passed(s, h, v, q), 2 * Cardinality(B[q]) + 1)
        BY <1>5, <2>2, <2>10, <2>11, <2>13, <2>16, <3>3, <3>4, <3>5, <3>6, OnceOnward
      <4> QED
        BY <1>1, <2>14, <4>1
    <3>7. CASE RepairedTwice(N, u, s, q, B, v)
      <4>1. Onward(N, h, Passed(s, h, v, q), 2 * Cardinality(B[q]) + 1)
        BY <1>5, <2>2, <2>10, <2>11, <2>13, <2>16, <3>3, <3>4, <3>5, <3>7, TwiceOnward
      <4> QED
        BY <1>1, <2>14, <4>1
    <3> QED
      BY <2>13, <3>6, <3>7
  <2> QED
    BY <2>15, <2>16
<1> QED
  BY <1>7, <1>8

-----------------------------------------------------------------------------
(* The last pass and the whole loop. *)

\* What the loop leaves of the tree t: a tidy tree with node h.
Grown(N, t, h, v, k, u) ==
  /\ \E B, H : Tidy(N \cup {h}, u, B, H)
  /\ \A n \in N : u.data[n] = t.data[n] /\ u.key[n] = t.key[n]
  /\ h \notin N => u.data[h] = v /\ u.key[h] = k

Finished(N, t, h, v, k, r) ==
  r.p = h /\ LoopVars(N \cup {h}, r) /\ Grown(N, t, h, v, k, r.tree)

\* The tree with the new leaf.
Leafed(N, t, u, p, d, h, v, k) ==
  /\ u \in Trees(N \cup {h}) /\ LeafAt(N, t.link, u.link, p, d, h)
  /\ u.red[h] /\ u.data[h] = v /\ u.key[h] = k
  /\ \A n \in N : u.red[n] = t.red[n] /\ u.data[n] = t.data[n] /\ u.key[n] = t.key[n]

LEMMA LeafIs ==
  ASSUME NEW N, NEW t \in Trees(N), NEW h, h \notin N, NEW p \in N, NEW d \in {0, 1},
         NEW v \in Data \cup {NULL}, NEW k \in Keys
  PROVE  Leafed(N, t, SetLink(Put(t, h, Leaf, TRUE, v, k), p, d, h), p, d, h, v, k)
<1>1. PICK t0 : t0 = Put(t, h, Leaf, TRUE, v, k)
  OBVIOUS
<1>2. PutAs(N, t, t0, h, Leaf, TRUE, v, k)
  <2>1. Leaf \in [{0, 1} -> N \cup {h, NIL}]
    BY DEF Leaf
  <2> QED
    BY <1>1, <2>1, PutIs
<1>3. /\ t0 \in Trees(N \cup {h}) /\ t0.link[h] = Leaf /\ t0.red[h] /\ t0.data[h] = v /\ t0.key[h] = k
      /\ \A m \in N : /\ t0.link[m] = t.link[m] /\ t0.red[m] = t.red[m]
                      /\ t0.data[m] = t.data[m] /\ t0.key[m] = t.key[m]
  BY <1>2 DEF PutAs
<1>4. PICK u : u = SetLink(t0, p, d, h)
  OBVIOUS
<1>5. Relinked(N \cup {h}, t0, u, p, d, h)
  <2>1. p \in N \cup {h} /\ h \in (N \cup {h}) \cup {NIL}
    OBVIOUS
  <2> QED
    BY <1>3, <1>4, <2>1, SetLinkIs
<1>6. /\ u \in Trees(N \cup {h}) /\ u.red = t0.red /\ u.data = t0.data /\ u.key = t0.key
      /\ u.link[p][d] = h
      /\ \A m \in N \cup {h} : \A f \in {0, 1} : (m = p /\ f = d) \/ u.link[m][f] = t0.link[m][f]
  BY <1>5 DEF Relinked
<1>7. u.link[h][0] = NIL /\ u.link[h][1] = NIL
  <2>1. u.link[h][0] = t0.link[h][0] /\ u.link[h][1] = t0.link[h][1]
    BY <1>6
  <2> QED
    BY <1>3, <2>1 DEF Leaf
<1>8. \A n \in N : \A f \in {0, 1} : (n = p /\ f = d) \/ u.link[n][f] = t.link[n][f]
  BY <1>3, <1>6
<1>9. u.link \in [N \cup {h} -> [{0, 1} -> (N \cup {h}) \cup {NIL}]]
  BY <1>6 DEF Trees
<1>10. LeafAt(N, t.link, u.link, p, d, h)
  BY <1>6, <1>7, <1>8, <1>9 DEF LeafAt
<1>11. u.red[h] /\ u.data[h] = v /\ u.key[h] = k
  BY <1>3, <1>6
<1>12. \A n \in N : u.red[n] = t.red[n] /\ u.data[n] = t.data[n] /\ u.key[n] = t.key[n]
  BY <1>3, <1>6
<1>13. u \in Trees(N \cup {h})
  BY <1>6
<1>14. Leafed(N, t, u, p, d, h, v, k)
  BY <1>10, <1>11, <1>12, <1>13 DEF Leafed
<1> QED
  BY <1>1, <1>4, <1>14

\* The pass that adds the node.
LEMMA EndPass ==
  ASSUME NEW N, NEW B, NEW H, NEW s, NEW h \in Nat, NEW w, Going(N, B, H, h, s, w), s.q = NIL,
         NEW v \in Data \cup {NULL}, NEW k \in Keys
  PROVE  h \notin N /\ Finished(N, s.tree, h, v, k, Pass(s, h, v, k))
<1>1. PICK t, p, d, g : t = s.tree /\ p = s.p /\ d = s.dir /\ g = s.g
  OBVIOUS
<1>2. Tidy(N, t, B, H) /\ LoopVars(N, s)
  BY <1>1 DEF Going
<1>3. \/ AtSecond(N, B, h, s) /\ ~t.red[p]
      \/ AtDepth(N, B, h, s)
  BY <1>1 DEF Going, AtStart, AtSecond, AfterSingle, AfterDouble, Calm, IsRed
<1>4. OnWay(N, B, h, s)
  BY <1>3 DEF AtSecond, AtDepth
<1>5. /\ t \in Trees(N) /\ Sound(N, t.link, t.red, B, H) /\ NoRedRed(N, t.link, t.red)
      /\ Ordered(N, t.link, B) /\ h \in Int /\ h # NIL
  BY <1>2 DEF Tidy, Sound, NIL
<1>6. /\ p \in N \ {HEAD} /\ p # h /\ d = Side(p < h) /\ t.link[p][d] = NIL
      /\ Path(N, t.link, B, h, h + 1, p) /\ d \in {0, 1} /\ s.last \in {0, 1}
      /\ s.t \in N
  BY <1>1, <1>2, <1>4 DEF OnWay, LoopVars
<1>7. N \subseteq Int /\ NIL \notin N /\ B[NIL] = {}
  BY <1>5 DEF Ordered
<1>8. h \notin N
  <2>1. SUFFICES ASSUME h \in N PROVE FALSE
    OBVIOUS
  <2>2. h \in B[t.link[p][Side(p < h)]]
    BY <1>5, <1>6, <2>1, PathMeets
  <2> QED
    BY <1>6, <1>7, <2>2
<1>9. Beyond(d, p, h)
  BY <1>5, <1>6, <1>7, HeadingDef
<1>10. PICK t1 : t1 = SetLink(Put(t, h, Leaf, TRUE, v, k), p, d, h)
  OBVIOUS
<1>11. Leafed(N, t, t1, p, d, h, v, k)
  <2>1. t \in Trees(N) /\ p \in N /\ d \in {0, 1}
    BY <1>5, <1>6
  <2> QED
    BY <1>8, <1>10, <2>1, LeafIs
<1>12. PICK M : M = N \cup {h}
  OBVIOUS
<1>13. /\ t1 \in Trees(M) /\ LeafAt(N, t.link, t1.link, p, d, h)
       /\ t1.red[h] /\ t1.data[h] = v /\ t1.key[h] = k
       /\ \A n \in N : t1.red[n] = t.red[n] /\ t1.data[n] = t.data[n] /\ t1.key[n] = t.key[n]
  BY <1>11, <1>12 DEF Leafed
<1>14. /\ \E K : Sound(M, t1.link, t1.red, LeafB(N, B, p, h), K)
       /\ NoOtherRedRed(M, t1.link, t1.red, p, d)
  <2>1. t1.red \in [N \cup {h} -> BOOLEAN]
    BY <1>12, <1>13 DEF Trees
  <2>2. t1.red[h] /\ \A n \in N : t1.red[n] <=> t.red[n]
    BY <1>13
  <2>3. p \in N /\ p # HEAD
    BY <1>6
  <2>4. d \in {0, 1} /\ t.link[p][d] = NIL /\ Path(N, t.link, B, h, h + 1, p)
    BY <1>6
  <2>5. LeafAt(N, t.link, t1.link, p, d, h)
    BY <1>13
  <2>6. Sound(N, t.link, t.red, B, H) /\ h \in Int /\ h # NIL
    BY <1>5
  <2>7. /\ \E K : Sound(N \cup {h}, t1.link, t1.red, LeafB(N, B, p, h), K)
        /\ NoRedRed(N, t.link, t.red) => NoOtherRedRed(N \cup {h}, t1.link, t1.red, p, d)
    <3>1. Sprouts(N, t.link, t.red, B, t1.link, t1.red, p, d, h)
      BY <1>8, <1>9, <2>1, <2>2, <2>3, <2>4, <2>5, <2>6 DEF Sprouts, Reddened
    <3> QED
      BY <2>6, <3>1, SproutSound
  <2> QED
    BY <1>5, <1>12, <2>7
<1>15. LoopVars(M, s) /\ M \subseteq Int /\ h \in M
  BY <1>2, <1>5, <1>7, <1>12 DEF LoopVars
<1>16. PICK u : u = Mended(t1, s, h)
  OBVIOUS
<1>17. u \in Trees(M) /\ Kept(t1, u) /\ \E D, J : Tidy(M, u, D, J)
  <2>1. CASE ~t1.red[p]
    <3>1. u = t1
      BY <1>1, <1>6, <1>16, <2>1 DEF Mended, Red
    <3>2. NoRedRed(M, t1.link, t1.red)
      BY <1>14, <2>1 DEF NoOtherRedRed, NoRedRed
    <3> QED
      BY <1>13, <1>14, <3>1, <3>2 DEF Tidy, Kept
  <2>2. CASE t1.red[p]
    <3>1. t.red[p]
      BY <1>6, <1>13, <2>2
    <3>2. /\ g \in N \ {HEAD} /\ t.link[g][s.last] = p
          /\ \E e \in {0, 1} : t.link[s.t][e] = g
          /\ ~IsRed(t.red, t.link[g][1 - s.last])
      BY <1>1, <1>3, <3>1 DEF AtDepth
    <3>3. 1 - s.last \in {0, 1} /\ 1 - s.last # s.last
      BY <1>6, BeyondDef
    <3>4. g # p /\ g # NIL /\ p # NIL
      <4>1. t.link[g][s.last] # NIL => t.link[g][s.last] # g
        BY <1>5, <1>6, <3>2, <3>3, BelowOnce
      <4> QED
        BY <1>6, <1>7, <3>2, <4>1
    <3>5. \A n \in N : \A f \in {0, 1} : (n = p /\ f = d) \/ t1.link[n][f] = t.link[n][f]
      BY <1>13 DEF LeafAt
    <3>6. \E e \in {0, 1} : t1.link[s.t][e] = g
      BY <1>6, <3>2, <3>4, <3>5
    <3>7. t1.link[g][s.last] = p /\ t1.link[g][1 - s.last] = t.link[g][1 - s.last]
      BY <1>6, <3>2, <3>3, <3>4, <3>5
    <3>8. ~IsRed(t1.red, t1.link[g][1 - s.last])
      <4>1. t.link[g][1 - s.last] \in N \cup {NIL}
        BY <1>5, <3>2, <3>3, LinkIn
      <4> QED
        BY <1>13, <3>2, <3>7, <4>1 DEF IsRed
    <3>9. t1.link[p][d] = h
      BY <1>13 DEF LeafAt
    <3>10. RedBelowRed(M, t1, s, h)
      BY <1>1, <1>6, <1>12, <1>13, <1>14, <2>2, <3>2, <3>6, <3>7, <3>8, <3>9 DEF RedBelowRed
    <3>11. u = Repair(t1, s, h)
      BY <1>1, <1>5, <1>6, <1>7, <1>13, <1>16, <2>2 DEF Mended, Red
    <3>12. PICK D, J : Sound(M, t1.link, t1.red, D, J)
      BY <1>14
    <3>13. /\ u \in Trees(M) /\ Kept(t1, u) /\ NoRedRed(M, u.link, u.red)
           /\ RepairedOnce(M, t1, s, h, D, u) \/ RepairedTwice(M, t1, s, h, D, u)
      BY <1>13, <3>10, <3>11, <3>12, RepairIs
    <3>14. \E E, F : Sound(M, u.link, u.red, E, F)
      BY <3>13 DEF RepairedOnce, RepairedTwice
    <3> QED
      BY <3>13, <3>14 DEF Tidy
  <2> QED
    BY <2>1, <2>2
<1>18. PICK r : r = Passed(s, h, u, h)
  OBVIOUS
<1>19. r = Pass(s, h, v, k)
  BY <1>1, <1>6, <1>10, <1>16, <1>18, PassAtEnd
<1>20. r.p = h /\ r.tree = u
  BY <1>18 DEF Passed
<1>21. LoopVars(M, r)
  BY <1>5, <1>15, <1>17, <1>18, PassedVars
<1>22. Grown(N, t, h, v, k, u)
  BY <1>12, <1>13, <1>17 DEF Grown, Kept
<1> QED
  BY <1>1, <1>8, <1>12, <1>19, <1>20, <1>21, <1>22 DEF Finished

\* A pass at a node.
LEMMA NodePass ==
  ASSUME NEW N, NEW B, NEW H, NEW s, NEW h \in Nat, NEW w, Going(N, B, H, h, s, w), s.q # NIL,
         NEW v, NEW k
  PROVE  Onward(N, h, Pass(s, h, v, k), w) /\ Kept(s.tree, Pass(s, h, v, k).tree)
<1>1. Tidy(N, s.tree, B, H) /\ LoopVars(N, s) /\ NIL \notin N /\ HEAD \in N /\ h \in Int
  <2>1. Tidy(N, s.tree, B, H) /\ LoopVars(N, s)
    BY DEF Going
  <2>2. NIL \notin N /\ HEAD \in N
    BY <2>1 DEF Tidy, Sound, Ordered, Headed
  <2> QED
    BY <2>1, <2>2
<1>2. s.q \in N \ {HEAD} /\ s.p # h
  <2>1. CASE AtStart(s)
    <3>1. Typed(N, s.tree.link, s.tree.red, B, H)
      BY <1>1, SoundTypes DEF Tidy
    <3>2. 1 \in {0, 1} /\ HEAD \in N /\ s.q \in N \cup {NIL}
      BY <1>1 DEF LoopVars
    <3>3. s.tree.link[HEAD][1] # HEAD
      BY <3>1, <3>2 DEF Typed
    <3> QED
      BY <2>1, <3>2, <3>3 DEF AtStart, NIL
  <2>2. CASE OnWay(N, B, h, s)
    BY <1>1, <2>2, PathNext DEF OnWay
  <2> QED
    BY <2>1, <2>2 DEF Going, AtSecond, AfterSingle, AtDepth, AfterDouble
<1>3. PICK u : u = Flip(s.tree, s.q)
  OBVIOUS
<1>4. FlippedAt(N, s.tree, u, s.q)
  BY <1>1, <1>2, <1>3, FlipIs
<1>5. Kept(s.tree, u)
  BY <1>4 DEF FlippedAt, Kept
<1>6. PICK x : x = Mended(u, s, s.q)
  OBVIOUS
<1>7. Pass(s, h, v, k) = Passed(s, h, x, s.q)
  BY <1>2, <1>3, <1>6, PassAtNode
<1>8. Passed(s, h, x, s.q).tree = x
  BY DEF Passed
<1>9. SUFFICES Onward(N, h, Passed(s, h, x, s.q), w) /\ Kept(s.tree, x)
  BY <1>7, <1>8
<1>10. ASSUME ~Red(u, s.p) \/ ~Red(u, s.q), Onward(N, h, Passed(s, h, u, s.q), w)
       PROVE  Onward(N, h, Passed(s, h, x, s.q), w) /\ Kept(s.tree, x)
  <2>1. x = u
    BY <1>6, <1>10 DEF Mended
  <2> QED
    BY <1>5, <1>10, <2>1
<1>11. CASE AtStart(s) /\ w = 2 * Cardinality(B[s.q]) + 1
  <2>1. ~Red(u, s.p)
    BY <1>11 DEF AtStart, Red
  <2>2. Onward(N, h, Passed(s, h, u, s.q), w)
    BY <1>1, <1>4, <1>11, StartPass
  <2> QED
    BY <1>10, <2>1, <2>2
<1>12. CASE AtSecond(N, B, h, s) /\ w = 2 * Cardinality(B[s.q]) + 1
  <2>1. ~u.red[s.p] \/ ~u.red[s.q]
    BY <1>1, <1>4, <1>12, SecondPass
  <2>2. Onward(N, h, Passed(s, h, u, s.q), w)
    BY <1>1, <1>4, <1>12, SecondPass
  <2> QED
    BY <1>10, <2>1, <2>2 DEF Red
<1>13. CASE AfterSingle(N, B, h, s) /\ w = 2 * Cardinality(B[s.q]) + 1
  <2>1. ~u.red[s.p] \/ ~u.red[s.q]
    BY <1>1, <1>4, <1>13, SinglePass
  <2>2. Onward(N, h, Passed(s, h, u, s.q), w)
    BY <1>1, <1>4, <1>13, SinglePass
  <2> QED
    BY <1>10, <2>1, <2>2 DEF Red
<1>14. CASE AtDepth(N, B, h, s) /\ w = 2 * Cardinality(B[s.q]) + 1
  BY ZenonT(60), <1>1, <1>4, <1>6, <1>14, DepthPass
<1>15. CASE AfterDouble(N, B, h, s)
            /\ w = 2 * Cardinality(B[s.tree.link[s.q][Side(s.q < h)]]) + 2
  <2>1. ~u.red[s.p] \/ ~u.red[s.q]
    BY ZenonT(60), <1>1, <1>4, <1>15, DoublePass
  <2>2. Onward(N, h, Passed(s, h, u, s.q), w)
    BY ZenonT(60), <1>1, <1>4, <1>15, DoublePass
  <2> QED
    BY <1>10, <2>1, <2>2 DEF Red
<1> QED
  BY <1>11, <1>12, <1>13, <1>14, <1>15 DEF Going

\* The loop is left with the tree grown, or m passes are left at most.
Under(N, t, h, v, k, x, m) ==
  \/ Finished(N, t, h, v, k, x)
  \/ \E B, H, w : w \in Nat /\ w <= m /\ Going(N, B, H, h, x, w) /\ Kept(t, x.tree)

States(N, h) ==
  [tree : Trees(N) \cup Trees(N \cup {h}), t : Int, g : Int, p : Int, q : Int,
   dir : {0, 1}, last : {0, 1}]

LEMMA PassedState ==
  ASSUME NEW N, NEW h, NEW M, M = N \/ M = N \cup {h}, M \subseteq Int,
         NEW s, NEW u, NEW q, LoopVars(M, Passed(s, h, u, q)), u \in Trees(M)
  PROVE  Passed(s, h, u, q) \in States(N, h)
<1>1. PICK r : r = Passed(s, h, u, q)
  OBVIOUS
<1>2. NIL \in Int
  BY DEF NIL
<1>3. /\ r.t \in Int /\ r.g \in Int /\ r.p \in Int /\ r.q \in Int /\ r.dir \in {0, 1} /\ r.last \in {0, 1}
      /\ r.tree \in Trees(N) \cup Trees(N \cup {h})
  <2>1. r.tree = u
    BY <1>1 DEF Passed
  <2> QED
    BY <1>1, <1>2, <2>1 DEF LoopVars
<1>4. r = [tree |-> r.tree, t |-> r.t, g |-> r.g, p |-> r.p, q |-> r.q, dir |-> r.dir,
           last |-> r.last]
  BY <1>1 DEF Passed
<1> QED
  BY <1>1, <1>3, <1>4 DEF States

\* A pass takes one off what is left.
LEMMA PassUnder ==
  ASSUME NEW N, NEW t, NEW h \in Nat, NEW v \in Data \cup {NULL}, NEW k \in Keys,
         N \subseteq Int, NIL \notin N,
         NEW x, x \in States(N, h), NEW m \in Int, Under(N, t, h, v, k, x, m)
  PROVE  /\ Pass(x, h, v, k) \in States(N, h)
         /\ Under(N, t, h, v, k, Pass(x, h, v, k), m - 1)
<1>1. CASE Finished(N, t, h, v, k, x)
  <2>1. Pass(x, h, v, k) = x
    BY <1>1 DEF Finished, Pass
  <2> QED
    BY <1>1, <2>1 DEF Under
<1>2. CASE ~Finished(N, t, h, v, k, x)
  <2>1. PICK B, H, w : w \in Nat /\ w <= m /\ Going(N, B, H, h, x, w) /\ Kept(t, x.tree)
    BY <1>2 DEF Under
  <2>2. x.p # h
    BY <2>1, NIL \notin Nat DEF Going, AtStart, AtSecond, AfterSingle, AtDepth, AfterDouble, OnWay, NIL
  <2>3. PICK r : r = Pass(x, h, v, k)
    OBVIOUS
  <2>4. \E u, q : r = Passed(x, h, u, q) /\ r.tree = u
    <3>1. \E u, q : r = Passed(x, h, u, q)
      <4>1. CASE x.q = NIL
        BY <2>2, <2>3, <4>1, PassAtEnd
      <4>2. CASE x.q # NIL
        BY <2>2, <2>3, <4>2, PassAtNode
      <4> QED
        BY <4>1, <4>2
    <3> QED
      BY <3>1 DEF Passed
  <2>5. CASE Finished(N, t, h, v, k, r)
    <3>1. LoopVars(N \cup {h}, r) /\ r.tree \in Trees(N \cup {h})
      BY <2>5 DEF Finished, Grown, Tidy
    <3>2. N \cup {h} \subseteq Int
      OBVIOUS
    <3>3. r \in States(N, h)
      BY <2>4, <3>1, <3>2, PassedState
    <3> QED
      BY <2>3, <2>5, <3>3 DEF Under
  <2>6. CASE x.q = NIL
    <3>1. h \notin N /\ Finished(N, x.tree, h, v, k, r)
      BY <2>1, <2>3, <2>6, EndPass
    <3>2. Finished(N, t, h, v, k, r)
      BY <2>1, <3>1 DEF Finished, Grown, Kept
    <3> QED
      BY <2>5, <3>2
  <2>7. CASE x.q # NIL
    <3>1. Onward(N, h, r, w) /\ Kept(x.tree, r.tree)
      BY <2>1, <2>3, <2>7, NodePass
    <3>2. Kept(t, r.tree)
      BY <2>1, <3>1 DEF Kept
    <3>3. CASE Done(N, h, r)
      <4>1. r.p = h /\ LoopVars(N, r) /\ \E C, D : Tidy(N, r.tree, C, D)
        BY <3>3 DEF Done
      <4>2. h \in N
        BY <4>1 DEF LoopVars, NIL
      <4>3. N \cup {h} = N
        BY <4>2
      <4>4. Finished(N, t, h, v, k, r)
        BY <3>2, <4>1, <4>2, <4>3 DEF Finished, Grown, Kept
      <4> QED
        BY <2>5, <4>4
    <3>4. CASE ~Done(N, h, r)
      <4>1. PICK C, D, j : j \in Nat /\ j < w /\ Going(N, C, D, h, r, j)
        BY <3>1, <3>4 DEF Onward
      <4>2. j <= m - 1
        BY <2>1, <4>1
      <4>3. Under(N, t, h, v, k, r, m - 1)
        BY <3>2, <4>1, <4>2 DEF Under
      <4>4. LoopVars(N, r) /\ r.tree \in Trees(N)
        BY <4>1 DEF Going, Tidy
      <4>5. r \in States(N, h)
        BY <2>4, <4>4, PassedState
      <4> QED
        BY <2>3, <4>3, <4>5
    <3> QED
      BY <3>3, <3>4
  <2> QED
    BY <2>6, <2>7
<1> QED
  BY <1>1, <1>2

-----------------------------------------------------------------------------
IsAfter(a, n, s, h, v, k) ==
  a = [i \in 0..n |-> IF i = 0 THEN s ELSE Pass(a[i - 1], h, v, k)]

Descended(n, s, h, v, k) ==
  \E a : IsAfter(a, n, s, h, v, k) /\ Descend(s, h, v, k) = a[n].tree

LEMMA DescendDef ==
  ASSUME NEW s, NEW h, NEW v, NEW k, NEW n, n = 2 * Cardinality(DOMAIN s.tree.red),
         NEW a, IsAfter(a, n, s, h, v, k)
  PROVE  Descended(n, s, h, v, k)
<1> DEFINE b == CHOOSE g : IsAfter(g, n, s, h, v, k)
<1>1. IsAfter(b, n, s, h, v, k)
  OBVIOUS
<1>2. Descend(s, h, v, k) = b[n].tree
  BY DEF Descend, IsAfter
<1> QED
  BY <1>1, <1>2 DEF Descended

Begun(t) == [tree |-> t, t |-> HEAD, g |-> NIL, p |-> NIL, q |-> t.link[HEAD][1], dir |-> 0, last |-> 0]

\* The loop of _inssearch, from a tidy tree with a black root.
LEMMA DescendGrows ==
  ASSUME NEW N, NEW t, NEW B, NEW H, Tidy(N, t, B, H), t.link[HEAD][1] # NIL, ~t.red[t.link[HEAD][1]],
         NEW h \in Nat, NEW v \in Data \cup {NULL}, NEW k \in Keys
  PROVE  Grown(N, t, h, v, k, Descend(Begun(t), h, v, k))
<1>1. PICK s, n, r : s = Begun(t) /\ n = 2 * Cardinality(N) /\ r = t.link[HEAD][1]
  OBVIOUS
<1>2. /\ s.tree = t /\ s.t = HEAD /\ s.g = NIL /\ s.p = NIL /\ s.q = r /\ s.dir = 0 /\ s.last = 0
  BY <1>1 DEF Begun
<1>3. Typed(N, t.link, t.red, B, H) /\ t \in Trees(N) /\ Ordered(N, t.link, B)
  BY SoundTypes DEF Tidy, Sound
<1>4. N \subseteq Int /\ NIL \notin N /\ HEAD \in N /\ IsFiniteSet(N) /\ B[HEAD] = N
  BY <1>3 DEF Typed
<1>5. r \in N /\ r # NIL
  <2>1. 1 \in {0, 1}
    OBVIOUS
  <2>2. t.link[HEAD][1] \in N \cup {NIL}
    BY <1>3, <1>4, <2>1 DEF Typed
  <2> QED
    BY <1>1, <2>2
<1>6. DOMAIN s.tree.red = N
  BY <1>2, <1>3 DEF Trees
<1>7. /\ Cardinality(N) \in Nat /\ Cardinality(B[r]) \in Nat /\ Cardinality(B[r]) + 1 <= Cardinality(N)
  <2>1. 1 \in {0, 1} /\ t.link[HEAD][1] = r
    BY <1>1
  <2>2. /\ Cardinality(B[HEAD]) \in Nat /\ Cardinality(B[t.link[HEAD][1]]) \in Nat
        /\ Cardinality(B[t.link[HEAD][1]]) + 1 <= Cardinality(B[HEAD])
    BY <1>3, <1>4, <2>1, LighterBelow
  <2> QED
    BY <1>4, <2>1, <2>2
<1>8. PICK w : w = 2 * Cardinality(B[r]) + 1
  OBVIOUS
<1>9. w \in Nat /\ n \in Nat /\ w < n
  BY <1>1, <1>7, <1>8
<1>10. Under(N, t, h, v, k, s, n - 1)
  <2>1. LoopVars(N, s)
    BY <1>2, <1>4, <1>5 DEF LoopVars
  <2>2. AtStart(s)
    BY <1>1, <1>2, <1>5 DEF AtStart
  <2>3. Going(N, B, H, h, s, w)
    BY <1>2, <1>8, <2>1, <2>2 DEF Going
  <2>4. Kept(t, s.tree) /\ w <= n - 1
    BY <1>2, <1>9 DEF Kept
  <2> QED
    BY <1>9, <2>3, <2>4 DEF Under
<1>11. s \in States(N, h)
  <2>1. HEAD \in Int /\ NIL \in Int /\ r \in Int
    BY <1>4, <1>5 DEF HEAD, NIL
  <2>2. s = [tree |-> t, t |-> HEAD, g |-> NIL, p |-> NIL, q |-> r, dir |-> 0, last |-> 0]
    BY <1>1 DEF Begun
  <2> QED
    BY <1>3, <2>1, <2>2 DEF States
<1>12. \E a : IsAfter(a, n, s, h, v, k)
  <2> DEFINE X == {x \in States(N, h) : \E m \in Int : Under(N, t, h, v, k, x, m)}
             G == [z \in X \X (1..n) |-> Pass(z[1], h, v, k)]
  <2>1. \A x \in X : Pass(x, h, v, k) \in X
    <3>1. TAKE x \in X
    <3>2. PICK m \in Int : Under(N, t, h, v, k, x, m)
      OBVIOUS
    <3>3. /\ Pass(x, h, v, k) \in States(N, h)
          /\ Under(N, t, h, v, k, Pass(x, h, v, k), m - 1)
      BY <1>4, <3>2, PassUnder
    <3> QED
      BY <3>3
  <2>2. G \in [X \X (1..n) -> X]
    BY <2>1
  <2>3. s \in X
    BY <1>9, <1>10, <1>11
  <2>4. \A x \in X : \A i \in 1..n : G[<<x, i>>] = Pass(x, h, v, k)
    OBVIOUS
  <2> HIDE DEF X, G
  <2>5. PICK f : IsRun(f, X, s, n, G)
    BY <1>9, <2>2, <2>3, Recursion
  <2>6. /\ f \in [0..n -> X] /\ f[0] = s
        /\ \A i \in 1..n : f[i] = Pass(f[i - 1], h, v, k)
    <3>1. f \in [0..n -> X] /\ f[0] = s /\ \A i \in 1..n : f[i] = G[<<f[i - 1], i>>]
      BY <2>5 DEF IsRun
    <3>2. \A i \in 1..n : f[i - 1] \in X
      BY <1>9, <3>1
    <3> QED
      BY <2>4, <3>1, <3>2
  <2>7. f = [i \in 0..n |-> IF i = 0 THEN s ELSE Pass(f[i - 1], h, v, k)]
    BY <1>9, <2>6
  <2> QED
    BY <2>7 DEF IsAfter
<1>13. Descended(n, s, h, v, k)
  <2>1. n = 2 * Cardinality(DOMAIN s.tree.red)
    BY <1>1, <1>6
  <2> QED
    BY <1>12, <2>1, DescendDef
<1>14. PICK a : IsAfter(a, n, s, h, v, k) /\ Descend(s, h, v, k) = a[n].tree
  BY <1>13 DEF Descended
<1>15. a[0] = s /\ \A i \in Nat : i + 1 \in 0..n => a[i + 1] = Pass(a[i], h, v, k)
  BY <1>9, <1>14 DEF IsAfter
<1> DEFINE S == {i \in Nat : i \in 0..n =>
                   a[i] \in States(N, h) /\ Under(N, t, h, v, k, a[i], n - 1 - i)}
<1>16. 0 \in S
  BY <1>9, <1>10, <1>11, <1>15
<1>17. \A i \in Nat : i \in S => i + 1 \in S
  <2>1. SUFFICES ASSUME NEW i \in Nat, i \in S, i + 1 \in 0..n
                 PROVE  a[i + 1] \in States(N, h) /\ Under(N, t, h, v, k, a[i + 1], n - 1 - (i + 1))
    OBVIOUS
  <2>2. i \in 0..n
    BY <1>9, <2>1
  <2>3. PICK m : m = n - 1 - i
    OBVIOUS
  <2>4. m \in Int /\ m - 1 = n - 1 - (i + 1)
    BY <1>9, <2>3
  <2>5. a[i] \in States(N, h) /\ Under(N, t, h, v, k, a[i], m)
    BY <2>1, <2>2, <2>3
  <2>6. /\ Pass(a[i], h, v, k) \in States(N, h)
        /\ Under(N, t, h, v, k, Pass(a[i], h, v, k), m - 1)
    BY <1>4, <2>4, <2>5, PassUnder
  <2>7. a[i + 1] = Pass(a[i], h, v, k)
    BY <1>15, <2>1
  <2> QED
    BY <2>4, <2>6, <2>7
<1>18. n \in S
  <2> HIDE DEF S
  <2> QED
    BY <1>9, <1>16, <1>17, UpTo
<1>19. PICK m : m = n - 1 - n
  OBVIOUS
<1>20. m \in Int /\ m < 0 /\ Under(N, t, h, v, k, a[n], m)
  BY <1>9, <1>18, <1>19
<1>21. Finished(N, t, h, v, k, a[n])
  BY <1>20 DEF Under
<1> QED
  BY <1>1, <1>14, <1>21 DEF Finished

-----------------------------------------------------------------------------
(* Between the calls: the tree without the false root. *)
Rooted(N, t, r, B, H) ==
  /\ t \in Trees(N) /\ N \subseteq Nat
  /\ Ordered(N, t.link, B) /\ Even(N, t.link, t.red, H) /\ NoRedRed(N, t.link, t.red)
  /\ r \in N \cup {NIL} /\ B[r] = N /\ ~IsRed(t.red, r)

Headless(t, r) == Put(t, HEAD, [Leaf EXCEPT ![1] = r], FALSE, NULL, 0)

\* u is t below a false root.
Underneath(N, t, r, u) ==
  /\ \E C, D : Tidy(N \cup {HEAD}, u, C, D)
  /\ u.link[HEAD][1] = r
  /\ \A n \in N : u.data[n] = t.data[n] /\ u.key[n] = t.key[n]
  /\ r # NIL => ~u.red[r]

LEMMA HeadAdded ==
  ASSUME NEW N, NEW t, NEW r, NEW B, NEW H, Rooted(N, t, r, B, H),
         NEW u, u = Headless(t, r)
  PROVE  Underneath(N, t, r, u)
<1> DEFINE M == N \cup {HEAD}
<1>1. /\ t \in Trees(N) /\ N \subseteq Nat /\ Ordered(N, t.link, B)
      /\ Even(N, t.link, t.red, H) /\ NoRedRed(N, t.link, t.red)
      /\ r \in N \cup {NIL} /\ B[r] = N /\ ~IsRed(t.red, r)
  BY DEF Rooted
<1>2. HEAD \notin N /\ HEAD # NIL /\ HEAD \in Int /\ NIL \notin N /\ IsFiniteSet(N)
  BY <1>1 DEF HEAD, NIL, Ordered
<1>3. [Leaf EXCEPT ![1] = r] \in [{0, 1} -> N \cup {HEAD, NIL}]
  BY <1>1 DEF Leaf
<1>4. PutAs(N, t, u, HEAD, [Leaf EXCEPT ![1] = r], FALSE, NULL, 0)
  BY <1>1, <1>3, PutIs DEF Headless
<1>5. /\ u \in Trees(M) /\ u.link[HEAD][0] = NIL /\ u.link[HEAD][1] = r /\ ~u.red[HEAD]
      /\ \A m \in N : /\ u.link[m] = t.link[m] /\ u.red[m] = t.red[m]
                      /\ u.data[m] = t.data[m] /\ u.key[m] = t.key[m]
  <2>1. /\ u \in Trees(N \cup {HEAD}) /\ u.link[HEAD] = [Leaf EXCEPT ![1] = r] /\ u.red[HEAD] = FALSE
        /\ \A m \in N : m = HEAD \/ /\ u.link[m] = t.link[m] /\ u.red[m] = t.red[m]
                                    /\ u.data[m] = t.data[m] /\ u.key[m] = t.key[m]
    BY <1>4 DEF PutAs
  <2>2. [Leaf EXCEPT ![1] = r][0] = NIL /\ [Leaf EXCEPT ![1] = r][1] = r
    BY DEF Leaf
  <2> QED
    BY <1>2, <2>1, <2>2
<1>6. PICK C : C = [n \in M \cup {NIL} |-> IF n = HEAD THEN M ELSE B[n]]
  OBVIOUS
<1>7. PICK D : D = [n \in M \cup {NIL} |-> IF n = HEAD THEN 0 ELSE H[n]]
  OBVIOUS
<1>8. /\ B \in [N \cup {NIL} -> SUBSET N] /\ B[NIL] = {}
      /\ \A n \in N : \A d, e \in {0, 1} :
           d # e => B[n] = {n} \cup B[t.link[n][d]] \cup B[t.link[n][e]]
      /\ \A n \in N : \A d \in {0, 1} : \A m \in B[t.link[n][d]] : Beyond(d, n, m)
      /\ \A m, n \in N : \A d, e \in {0, 1} :
           t.link[m][d] = t.link[n][e] /\ t.link[m][d] # NIL => m = n /\ d = e
      /\ \A n \in N : \A d \in {0, 1} : t.link[n][d] \in N \cup {NIL}
  BY <1>1 DEF Ordered
<1>9. \A n \in N : \A d \in {0, 1} : t.link[n][d] # r \/ r = NIL
  <2>1. SUFFICES ASSUME NEW n \in N, NEW d \in {0, 1}, t.link[n][d] = r, r # NIL PROVE FALSE
    OBVIOUS
  <2>2. 1 - d \in {0, 1} /\ 1 - d # d
    BY BeyondDef
  <2>3. n \notin B[t.link[n][d]]
    BY <1>1, <2>2, BelowOnce
  <2> QED
    BY <1>1, <2>1, <2>3
<1>10. /\ C \in [M \cup {NIL} -> SUBSET M] /\ C[NIL] = {} /\ C[HEAD] = M /\ C[r] = N
       /\ \A n \in N \cup {NIL} : C[n] = B[n]
  BY <1>1, <1>2, <1>6, <1>8
<1>11. Ordered(M, u.link, C)
  <2>1. M \subseteq Int /\ NIL \notin M /\ IsFiniteSet(M)
    BY <1>1, <1>2, FS_AddElement
  <2>2. u.link \in [M -> [{0, 1} -> M \cup {NIL}]]
    BY <1>5 DEF Trees
  <2>3. \A n \in M : \A d, e \in {0, 1} :
          d # e => C[n] = {n} \cup C[u.link[n][d]] \cup C[u.link[n][e]]
    <3>1. SUFFICES ASSUME NEW n \in M, NEW d \in {0, 1}, NEW e \in {0, 1}, d # e
                   PROVE  C[n] = {n} \cup C[u.link[n][d]] \cup C[u.link[n][e]]
      OBVIOUS
    <3>2. CASE n = HEAD
      BY <1>5, <1>10, <3>1, <3>2
    <3>3. CASE n \in N
      <4>1. u.link[n] = t.link[n] /\ t.link[n][d] \in N \cup {NIL} /\ t.link[n][e] \in N \cup {NIL}
        BY <1>5, <1>8, <3>3
      <4>2. B[n] = {n} \cup B[t.link[n][d]] \cup B[t.link[n][e]]
        BY <1>8, <3>1, <3>3
      <4> QED
        BY <1>10, <3>3, <4>1, <4>2
    <3> QED
      BY <3>2, <3>3
  <2>4. \A n \in M : \A d \in {0, 1} : \A m \in C[u.link[n][d]] : Beyond(d, n, m)
    <3>1. SUFFICES ASSUME NEW n \in M, NEW d \in {0, 1}, NEW m \in C[u.link[n][d]]
                   PROVE  Beyond(d, n, m)
      OBVIOUS
    <3>2. CASE n = HEAD
      <4>1. d = 1 /\ m \in N
        BY <1>5, <1>10, <3>1, <3>2
      <4>2. HEAD < m
        BY <1>1, <4>1 DEF HEAD
      <4> QED
        BY <3>2, <4>1, <4>2 DEF Beyond
    <3>3. CASE n \in N
      BY <1>5, <1>8, <1>10, <3>1, <3>3
    <3> QED
      BY <3>2, <3>3
  <2>5. \A m, n \in M : \A d, e \in {0, 1} :
          u.link[m][d] = u.link[n][e] /\ u.link[m][d] # NIL => m = n /\ d = e
    <3>1. SUFFICES ASSUME NEW m \in M, NEW n \in M, NEW d \in {0, 1}, NEW e \in {0, 1},
                          u.link[m][d] = u.link[n][e], u.link[m][d] # NIL
                   PROVE  m = n /\ d = e
      OBVIOUS
    <3>2. \A x \in M : \A f \in {0, 1} : u.link[x][f] # NIL =>
            \/ x = HEAD /\ f = 1 /\ u.link[x][f] = r
            \/ x \in N /\ u.link[x][f] = t.link[x][f] /\ u.link[x][f] # r
      BY <1>2, <1>5, <1>9
    <3> QED
      BY <1>8, <3>1, <3>2
  <2> QED
    BY <1>10, <2>1, <2>2, <2>3, <2>4, <2>5 DEF Ordered
<1>12. Even(M, u.link, u.red, D)
  <2>1. /\ H \in [N \cup {NIL} -> Nat] /\ H[NIL] = 0
        /\ \A n \in N : \A d \in {0, 1} :
             H[n] = IF t.red[n] THEN H[t.link[n][d]] ELSE H[t.link[n][d]] + 1
    BY <1>1, <1>2 DEF Even
  <2>2. u.red \in [M -> BOOLEAN]
    BY <1>5 DEF Trees
  <2>3. /\ D \in [M \cup {NIL} -> Nat] /\ D[NIL] = 0
        /\ \A n \in N \cup {NIL} : D[n] = H[n]
    BY <1>2, <1>7, <2>1
  <2>4. \A n \in M \ {HEAD} : \A d \in {0, 1} :
          D[n] = IF u.red[n] THEN D[u.link[n][d]] ELSE D[u.link[n][d]] + 1
    BY <1>5, <1>8, <2>1, <2>3
  <2> QED
    BY <2>2, <2>3, <2>4 DEF Even
<1>13. Headed(M, u.link, u.red, C)
  BY <1>5, <1>10 DEF Headed
<1>14. NoRedRed(M, u.link, u.red)
  <2>1. SUFFICES ASSUME NEW n \in M, NEW d \in {0, 1}, u.red[n], IsRed(u.red, u.link[n][d])
                 PROVE  FALSE
    BY DEF NoRedRed
  <2>2. n \in N
    BY <1>5, <2>1
  <2>3. u.link[n][d] = t.link[n][d] /\ t.link[n][d] \in N \cup {NIL} /\ t.red[n]
    BY <1>5, <1>8, <2>1, <2>2
  <2>4. IsRed(t.red, t.link[n][d])
    BY <1>5, <2>1, <2>3 DEF IsRed
  <2> QED
    BY <1>1, <2>2, <2>3, <2>4 DEF NoRedRed
<1>15. Tidy(M, u, C, D)
  BY <1>5, <1>11, <1>12, <1>13, <1>14 DEF Tidy, Sound
<1>16. r # NIL => ~u.red[r]
  BY <1>1, <1>5 DEF IsRed
<1> QED
  BY <1>5, <1>15, <1>16 DEF Underneath

\* Adopt gives this back.
Adopted(u) == Paint(Drop(u, {HEAD}), {u.link[HEAD][1]}, FALSE)

\* w is what is below the false root of u.
Standing(N, u, w) ==
  /\ \E C, D : Rooted(N, w, u.link[HEAD][1], C, D)
  /\ \A n \in N : w.data[n] = u.data[n] /\ w.key[n] = u.key[n]

LEMMA HeadDropped ==
  ASSUME NEW M, NEW u, NEW B, NEW H, Tidy(M, u, B, H), M \ {HEAD} \subseteq Nat
  PROVE  Standing(M \ {HEAD}, u, Adopted(u))
<1> DEFINE N == M \ {HEAD}
<1>1. PICK r, w, L : r = u.link[HEAD][1] /\ w = Adopted(u) /\ L = u.link
  OBVIOUS
<1>2. /\ Typed(M, L, u.red, B, H) /\ Ordered(M, L, B) /\ Even(M, L, u.red, H)
      /\ NoRedRed(M, L, u.red) /\ u \in Trees(M)
  BY <1>1, SoundTypes DEF Tidy, Sound
<1>3. /\ HEAD \in M /\ B[HEAD] = M /\ L[HEAD][0] = NIL /\ L[HEAD][1] = r /\ NIL \notin M
      /\ IsFiniteSet(M) /\ B \in [M \cup {NIL} -> SUBSET M] /\ B[NIL] = {}
      /\ \A n \in M : \A d \in {0, 1} : L[n][d] \in M \cup {NIL} /\ L[n][d] # HEAD
      /\ u.red \in [M -> BOOLEAN] /\ H \in [M \cup {NIL} -> Nat] /\ H[NIL] = 0
  BY <1>1, <1>2 DEF Typed
<1>4. NIL # HEAD /\ 0 \in {0, 1} /\ 1 \in {0, 1}
  BY DEF NIL, HEAD
<1>5. r \in N \cup {NIL}
  BY <1>3, <1>4
<1>6. B[r] = N
  <2>1. B[HEAD] = {HEAD} \cup B[L[HEAD][1]] \cup B[L[HEAD][0]] /\ HEAD \notin B[L[HEAD][1]]
    BY <1>2, <1>3, <1>4, BelowOnce
  <2> QED
    BY <1>3, <2>1
<1>7. \A n \in N \cup {NIL} : B[n] \subseteq N
  <2>1. SUFFICES ASSUME NEW n \in N PROVE B[n] \subseteq N
    BY <1>3
  <2>2. n \in B[r] /\ r \in M \cup {NIL}
    BY <1>5, <1>6
  <2> QED
    BY <1>2, <1>6, <2>2, BelowBelow
<1>8. PICK C : C = [n \in N \cup {NIL} |-> B[n]]
  OBVIOUS
<1>9. PICK D : D = [n \in N \cup {NIL} |-> IF n = r /\ IsRed(u.red, r) THEN H[n] + 1 ELSE H[n]]
  OBVIOUS
<1>10. /\ C \in [N \cup {NIL} -> SUBSET N] /\ C[NIL] = {}
       /\ \A n \in N \cup {NIL} : C[n] = B[n]
  BY <1>3, <1>7, <1>8
<1>11. /\ w \in Trees(N)
       /\ \A n \in N : /\ w.link[n] = L[n] /\ w.data[n] = u.data[n] /\ w.key[n] = u.key[n]
                       /\ w.red[n] = IF n = r THEN FALSE ELSE u.red[n]
  <2>1. PICK x : x = Drop(u, {HEAD})
    OBVIOUS
  <2>2. /\ DOMAIN u.link = M /\ DOMAIN u.red = M /\ DOMAIN u.data = M /\ DOMAIN u.key = M
        /\ u.link \in [M -> [{0, 1} -> M \cup {NIL}]] /\ u.data \in [M -> Data \cup {NULL}]
        /\ u.key \in [M -> Keys \cup {0}]
    BY <1>2 DEF Trees
  <2>3. /\ x = [link |-> x.link, red |-> x.red, data |-> x.data, key |-> x.key]
        /\ x.link = [n \in N |-> L[n]] /\ x.red = [n \in N |-> u.red[n]]
        /\ x.data = [n \in N |-> u.data[n]] /\ x.key = [n \in N |-> u.key[n]]
    BY <1>1, <2>1, <2>2 DEF Drop
  <2>4. \A n \in N : L[n] \in [{0, 1} -> N \cup {NIL}]
    BY <1>1, <1>3, <2>2
  <2>5. x.link \in [N -> [{0, 1} -> N \cup {NIL}]]
    BY <2>3, <2>4
  <2>6. x \in Trees(N)
    BY <1>3, <2>2, <2>3, <2>5 DEF Trees
  <2>7. w = Paint(x, {r}, FALSE)
    BY <1>1, <2>1 DEF Adopted
  <2>8. Painted(N, x, w, {r}, FALSE)
    BY <2>6, <2>7, PaintIs
  <2>9. /\ w \in Trees(N) /\ w.link = x.link /\ w.data = x.data /\ w.key = x.key
        /\ \A n \in N : IF n \in {r} THEN w.red[n] = FALSE ELSE w.red[n] = x.red[n]
    BY <2>8 DEF Painted
  <2>10. \A n \in N : w.link[n] = L[n] /\ w.data[n] = u.data[n] /\ w.key[n] = u.key[n]
    BY <2>3, <2>9
  <2>11. \A n \in N : x.red[n] = u.red[n]
    BY <2>3
  <2>12. \A n \in N : w.red[n] = IF n = r THEN FALSE ELSE u.red[n]
    BY <2>9, <2>11
  <2> QED
    BY <2>9, <2>10, <2>12
<1>12. Ordered(N, w.link, C)
  <2>1. N \subseteq Int /\ NIL \notin N /\ IsFiniteSet(N)
    BY <1>2, <1>3, FS_Subset DEF Ordered
  <2>2. w.link \in [N -> [{0, 1} -> N \cup {NIL}]]
    BY <1>11 DEF Trees
  <2>3. /\ \A n \in M : \A d, e \in {0, 1} : d # e => B[n] = {n} \cup B[L[n][d]] \cup B[L[n][e]]
        /\ \A n \in M : \A d \in {0, 1} : \A m \in B[L[n][d]] : Beyond(d, n, m)
        /\ \A m, n \in M : \A d, e \in {0, 1} :
             L[m][d] = L[n][e] /\ L[m][d] # NIL => m = n /\ d = e
    BY <1>2 DEF Ordered
  <2>4. \A n \in N : \A d \in {0, 1} : w.link[n][d] = L[n][d] /\ L[n][d] \in N \cup {NIL}
                                        /\ C[w.link[n][d]] = B[L[n][d]]
    <3>1. TAKE n \in N, d \in {0, 1}
    <3>2. w.link[n] = L[n]
      BY <1>11
    <3>3. L[n][d] \in N \cup {NIL}
      BY <1>3
    <3> QED
      BY <1>10, <3>2, <3>3
  <2>5. \A n \in N : \A d, e \in {0, 1} :
          d # e => C[n] = {n} \cup C[w.link[n][d]] \cup C[w.link[n][e]]
    BY <1>10, <2>3, <2>4
  <2>6. \A n \in N : \A d \in {0, 1} : \A m \in C[w.link[n][d]] : Beyond(d, n, m)
    BY <2>3, <2>4
  <2>7. \A m, n \in N : \A d, e \in {0, 1} :
          w.link[m][d] = w.link[n][e] /\ w.link[m][d] # NIL => m = n /\ d = e
    BY <2>3, <2>4
  <2> QED
    BY <1>10, <2>1, <2>2, <2>5, <2>6, <2>7 DEF Ordered
<1>13. \A n \in N : \A d \in {0, 1} : L[n][d] # r \/ r = NIL
  <2>1. \A m, n \in M : \A d, e \in {0, 1} :
          L[m][d] = L[n][e] /\ L[m][d] # NIL => m = n /\ d = e
    BY <1>2 DEF Ordered
  <2> QED
    BY <1>3, <1>4, <2>1
<1>14. Even(N, w.link, w.red, D)
  <2>1. w.red \in [N -> BOOLEAN]
    BY <1>11 DEF Trees
  <2>2. D \in [N \cup {NIL} -> Nat] /\ D[NIL] = 0
    BY <1>3, <1>9 DEF IsRed
  <2>3. \A n \in N \ {HEAD} : \A d \in {0, 1} :
          D[n] = IF w.red[n] THEN D[w.link[n][d]] ELSE D[w.link[n][d]] + 1
    <3>1. SUFFICES ASSUME NEW n \in N, NEW d \in {0, 1}
                   PROVE  D[n] = IF w.red[n] THEN D[w.link[n][d]] ELSE D[w.link[n][d]] + 1
      OBVIOUS
    <3>2. H[n] = IF u.red[n] THEN H[L[n][d]] ELSE H[L[n][d]] + 1
      BY <1>2, <3>1 DEF Even
    <3>3. /\ w.link[n][d] = L[n][d] /\ L[n][d] \in N \cup {NIL}
          /\ w.red[n] = IF n = r THEN FALSE ELSE u.red[n]
      BY <1>3, <1>11, <3>1
    <3>4. D[L[n][d]] = H[L[n][d]]
      BY <1>9, <1>13, <3>1, <3>3 DEF IsRed
    <3>5. n # NIL
      BY <1>3
    <3>6. CASE n = r /\ u.red[r]
      <4>1. D[n] = H[n] + 1
        BY <1>9, <3>5, <3>6 DEF IsRed
      <4> QED
        BY <3>2, <3>3, <3>4, <3>6, <4>1
    <3>7. CASE ~(n = r /\ u.red[r])
      <4>1. D[n] = H[n]
        BY <1>9, <3>1, <3>7 DEF IsRed
      <4>2. w.red[n] <=> u.red[n]
        BY <3>3, <3>7
      <4> QED
        BY <3>2, <3>3, <3>4, <4>1, <4>2
    <3> QED
      BY <3>6, <3>7
  <2> QED
    BY <2>1, <2>2, <2>3 DEF Even
<1>15. NoRedRed(N, w.link, w.red)
  <2>1. SUFFICES ASSUME NEW n \in N, NEW d \in {0, 1}, w.red[n], IsRed(w.red, w.link[n][d])
                 PROVE  FALSE
    BY DEF NoRedRed
  <2>2. u.red[n] /\ w.link[n][d] = L[n][d] /\ L[n][d] \in N \cup {NIL}
    BY ZenonT(60), <1>3, <1>11, <2>1
  <2>3. IsRed(u.red, L[n][d])
    BY <1>11, <2>1, <2>2 DEF IsRed
  <2> QED
    BY <1>2, <2>2, <2>3 DEF NoRedRed
<1>16. ~IsRed(w.red, r)
  BY <1>5, <1>11 DEF IsRed
<1>17. Rooted(N, w, r, C, D)
  BY <1>5, <1>6, <1>10, <1>11, <1>12, <1>14, <1>15, <1>16 DEF Rooted
<1>18. r = u.link[HEAD][1] /\ w = Adopted(u)
  BY <1>1
<1> HIDE DEF N
<1>19. Standing(N, u, w)
  BY <1>11, <1>17, <1>18 DEF Standing
<1> QED
  BY <1>18, <1>19 DEF N

-----------------------------------------------------------------------------
(* The loop of dict_remove.  A pass goes down to the child q of n on the path *)
(* of h, which goes left at h itself, and leaves q red, or a red node next.   *)
Pushed(t, p, n, d) ==
  \/ t.red[n]
  \/ IsRed(t.red, t.link[n][d])
  \/ p = HEAD /\ ~IsRed(t.red, t.link[n][0]) /\ ~IsRed(t.red, t.link[n][1])

Down(N, t, B, H, h, n, q, l) ==
  /\ Tidy(N, t, B, H) /\ n \in N /\ l \in {0, 1} /\ t.link[n][l] = q /\ q \in N \ {HEAD}
  /\ h \in Int /\ Path(N, t.link, B, h, h, q)

PushDone(N, t, B, h, q, u, p) ==
  /\ Kept(t, u) /\ p \in N /\ \E e \in {0, 1} : u.link[p][e] = q
  /\ Pushed(u, p, q, Side(q < h))
  /\ \E C, K : /\ Tidy(N, u, C, K) /\ Path(N, u.link, C, h, h, q)
               /\ C[u.link[q][Side(q < h)]] = B[t.link[q][Side(q < h)]]

LEMMA PushNothing ==
  ASSUME NEW N, NEW t, NEW B, NEW H, NEW h, NEW n, NEW q, NEW l, Down(N, t, B, H, h, n, q, l),
         Pushed(t, n, q, Side(q < h))
  PROVE  PushDone(N, t, B, h, q, t, n)
BY DEF PushDone, Down, Kept

\* What Down says, in parts.
LEMMA DownParts ==
  ASSUME NEW N, NEW t, NEW B, NEW H, NEW h, NEW n, NEW q, NEW l, Down(N, t, B, H, h, n, q, l)
  PROVE  /\ t \in Trees(N) /\ Sound(N, t.link, t.red, B, H) /\ NoRedRed(N, t.link, t.red)
         /\ Typed(N, t.link, t.red, B, H) /\ Ordered(N, t.link, B)
         /\ N \subseteq Int /\ NIL \notin N /\ HEAD \in N
         /\ n \in N /\ l \in {0, 1} /\ 1 - l \in {0, 1} /\ 1 - l # l /\ t.link[n][l] = q
         /\ q \in N /\ q # HEAD /\ q # n
         /\ Side(q < h) \in {0, 1} /\ t.link[q][Side(q < h)] \in N \cup {NIL}
         /\ t.link[n][1 - l] \in N \cup {NIL} /\ t.link[n][1 - l] # n
<1>1. /\ t \in Trees(N) /\ Sound(N, t.link, t.red, B, H) /\ NoRedRed(N, t.link, t.red)
      /\ n \in N /\ l \in {0, 1} /\ t.link[n][l] = q /\ q \in N /\ q # HEAD /\ h \in Int
  BY DEF Down, Tidy
<1>2. Typed(N, t.link, t.red, B, H) /\ Ordered(N, t.link, B)
  BY <1>1, SoundTypes DEF Sound
<1>3. N \subseteq Int /\ NIL \notin N /\ HEAD \in N
  BY <1>2 DEF Typed
<1>4. 1 - l \in {0, 1} /\ 1 - l # l
  BY <1>1, BeyondDef
<1>5. Side(q < h) \in {0, 1}
  BY <1>1, <1>3, HeadingDef
<1>6. \A m \in N : \A d \in {0, 1} : t.link[m][d] \in N \cup {NIL} /\ t.link[m][d] # m
  BY <1>2 DEF Typed
<1> QED
  BY <1>1, <1>2, <1>3, <1>4, <1>5, <1>6

\* A red child on the other side of q comes up above it.
LEMMA PushTurn ==
  ASSUME NEW N, NEW t, NEW B, NEW H, NEW h, NEW n, NEW q, NEW l, Down(N, t, B, H, h, n, q, l),
         NEW f, f = Side(q < h), NEW c, c = t.link[q][1 - f],
         ~t.red[q], ~IsRed(t.red, t.link[q][f]), IsRed(t.red, c)
  PROVE  PushDone(N, t, B, h, q, Single(t, n, l, q, f), c)
<1>1. PICK L, R, y : L = t.link /\ R = t.red /\ y = L[q][f]
  OBVIOUS
<1>2. /\ t \in Trees(N) /\ Sound(N, L, R, B, H) /\ NoRedRed(N, L, R) /\ Ordered(N, L, B)
      /\ N \subseteq Int /\ NIL \notin N /\ HEAD \in N
      /\ n \in N /\ l \in {0, 1} /\ L[n][l] = q /\ q \in N /\ f \in {0, 1} /\ y \in N \cup {NIL}
      /\ Typed(N, L, R, B, H)
  BY <1>1, DownParts
<1>3. h \in Int /\ Path(N, L, B, h, h, q)
  BY <1>1 DEF Down
<1>4. PICK e : e = 1 - f
  OBVIOUS
<1>5. e \in {0, 1} /\ f # e
  BY <1>2, <1>4, BeyondDef
<1>6. c \in N /\ c = L[q][e] /\ R[c] /\ ~R[q] /\ ~IsRed(R, y)
  <2>1. L[q][e] \in N \cup {NIL}
    BY <1>2, <1>5 DEF Typed
  <2> QED
    BY <1>1, <1>4, <2>1 DEF IsRed
<1>7. CanTurn(N, L, n, l, q, c, f, e)
  BY <1>2, <1>5, <1>6 DEF CanTurn
<1>8. PICK u : u = Single(t, n, l, q, f)
  OBVIOUS
<1>9. Turning(N, t, u, n, l, q, c, f, e)
  BY <1>1, <1>2, <1>7, <1>8, SingleOrdered
<1>10. /\ u \in Trees(N) /\ Kept(t, u) /\ IsTurned(N, L, u.link, n, l, q, c, f, e)
       /\ u.red[q] /\ ~u.red[c]
       /\ \A m \in N : m = q \/ m = c \/ (u.red[m] <=> R[m])
  BY <1>1, <1>9 DEF Turning, Kept
<1>11. PICK D : D = TurnedB(L, B, q, c, f)
  OBVIOUS
<1>12. Swapped(N, R, u.red, q, c)
  BY <1>10 DEF Swapped, Trees
<1>13. \E K : Sound(N, u.link, u.red, D, K)
  BY <1>2, <1>6, <1>7, <1>10, <1>11, <1>12, TurnBlackRed
<1>14. /\ n # q /\ n # c /\ q # c
       /\ \A m \in N : \A g \in {0, 1} : L[m][g] = q => m = n /\ g = l
       /\ \A m \in N : \A g \in {0, 1} : L[m][g] = c => m = q /\ g = e
  BY <1>2, <1>7, TurnApart
<1>15. /\ u.link[n][l] = c /\ u.link[q][e] = L[c][f] /\ u.link[c][f] = q
       /\ \A m \in N : \A g \in {0, 1} :
            \/ m = n /\ g = l
            \/ m = q /\ g = e
            \/ m = c /\ g = f
            \/ u.link[m][g] = L[m][g]
  BY <1>10 DEF IsTurned
<1>16. \A g \in {0, 1} : L[c][g] \in N \cup {NIL} /\ ~IsRed(R, L[c][g]) /\ L[c][g] # q /\ L[c][g] # c
  BY <1>2, <1>6, <1>14 DEF NoRedRed, Typed
<1>17. u.link[q][f] = y /\ y # q /\ y # c
  <2>1. u.link[q][f] = L[q][f]
    <3>1. \/ q = n /\ f = l
          \/ q = q /\ f = e
          \/ q = c /\ f = f
          \/ u.link[q][f] = L[q][f]
      BY <1>2, <1>15
    <3> QED
      BY <1>5, <1>14, <3>1
  <2>2. L[q][f] # q /\ L[q][f] # c
    <3>1. L[q][f] # q
      BY <1>2 DEF Typed
    <3>2. L[q][f] = c => f = e
      BY <1>2, <1>14
    <3> QED
      BY <1>5, <3>1, <3>2
  <2> QED
    BY <1>1, <2>1, <2>2
<1>18. NoRedRed(N, u.link, u.red)
  <2>1. SUFFICES ASSUME NEW m \in N, NEW g \in {0, 1}, u.red[m], IsRed(u.red, u.link[m][g])
                 PROVE  FALSE
    BY DEF NoRedRed
  <2>2. m # c
    BY <1>10, <2>1
  <2>3. CASE m = q
    <3>1. g = e \/ g = f
      BY <1>2, <1>5
    <3>2. ~IsRed(R, u.link[q][g]) /\ u.link[q][g] # q /\ u.link[q][g] # c /\ u.link[q][g] \in N \cup {NIL}
      BY <1>2, <1>6, <1>15, <1>16, <1>17, <3>1
    <3> QED
      BY <1>10, <2>1, <2>3, <3>2 DEF IsRed
  <2>4. CASE m # q
    <3>1. R[m]
      BY <1>10, <2>1, <2>2, <2>4
    <3>2. CASE m = n /\ g = l
      BY <1>10, <1>15, <2>1, <3>2 DEF IsRed
    <3>3. CASE ~(m = n /\ g = l)
      <4>1. u.link[m][g] = L[m][g] /\ L[m][g] \in N \cup {NIL} /\ L[m][g] # q /\ L[m][g] # c
        BY <1>2, <1>14, <1>15, <2>2, <2>4, <3>3 DEF Typed
      <4>2. IsRed(R, L[m][g])
        BY <1>10, <2>1, <4>1 DEF IsRed
      <4> QED
        BY <1>2, <3>1, <4>2 DEF NoRedRed
    <3> QED
      BY <3>2, <3>3
  <2> QED
    BY <2>3, <2>4
<1>19. Path(N, u.link, D, h, h, q)
  <2>1. Heading(f, q, h, h)
    BY <1>2, <1>3, HeadingDef
  <2> QED
    BY <1>2, <1>3, <1>7, <1>10, <1>11, <2>1, PathTurned
<1>20. D[y] = B[y]
  <2>1. BelowTurned(N, L, B, u.link, D, q, c, f, e)
    BY <1>2, <1>7, <1>10, <1>11, TurnBelow
  <2>2. D[NIL] = {} /\ B[NIL] = {}
    BY ZenonT(60), <1>2, <2>1 DEF BelowTurned, Ordered
  <2> QED
    BY ZenonT(60), <1>2, <1>17, <2>1, <2>2 DEF BelowTurned
<1>21. Pushed(u, c, q, f)
  BY <1>10 DEF Pushed
<1>22. \E K : Tidy(N, u, D, K)
  BY <1>10, <1>13, <1>18 DEF Tidy
<1>23. D[u.link[q][f]] = B[t.link[q][f]]
  BY <1>1, <1>17, <1>20
<1>24. \E g \in {0, 1} : u.link[c][g] = q
  BY <1>2, <1>15
<1> QED
  BY <1>6, <1>8, <1>10, <1>19, <1>21, <1>22, <1>23, <1>24 DEF PushDone

\* q has a sibling: they turn red and the parent black.
Siblings(N, t, p, n, q, s, l) ==
  /\ n # HEAD /\ p \in N /\ t.link[n][1 - l] = s /\ s \in N
  /\ \E e \in {0, 1} : t.link[p][e] = n
  /\ t.red[n] \/ p = HEAD
  /\ ~t.red[q] /\ ~t.red[s]
  /\ ~IsRed(t.red, t.link[q][0]) /\ ~IsRed(t.red, t.link[q][1])

\* Colours after the flip alone.
FlipColours(N, R, n, q, s) ==
  [m \in N |-> IF m = n THEN FALSE ELSE IF m = s \/ m = q THEN TRUE ELSE R[m]]

LEMMA SiblingsFlip ==
  ASSUME NEW N, NEW t, NEW B, NEW H, NEW h, NEW n, NEW q, NEW l, Down(N, t, B, H, h, n, q, l),
         NEW p, NEW s, Siblings(N, t, p, n, q, s, l)
  PROVE  /\ \E K : Sound(N, t.link, FlipColours(N, t.red, n, q, s), B, K)
         /\ q # s /\ q # n /\ s # n /\ s # HEAD /\ p # n /\ ~t.red[p]
<1>1. PICK L, R : L = t.link /\ R = t.red
  OBVIOUS
<1>2. /\ t \in Trees(N) /\ Sound(N, L, R, B, H) /\ NoRedRed(N, L, R) /\ Ordered(N, L, B)
      /\ N \subseteq Int /\ NIL \notin N /\ HEAD \in N
      /\ n \in N /\ l \in {0, 1} /\ 1 - l \in {0, 1} /\ 1 - l # l /\ L[n][l] = q /\ q \in N
      /\ Typed(N, L, R, B, H)
  BY <1>1, DownParts
<1>3. /\ n # HEAD /\ p \in N /\ L[n][1 - l] = s /\ s \in N
      /\ R[n] \/ p = HEAD
      /\ ~R[q] /\ ~R[s]
  BY <1>1 DEF Siblings
<1>4. PICK e \in {0, 1} : L[p][e] = n
  BY <1>1 DEF Siblings
<1>5. PICK a, b : a = L[n][0] /\ b = L[n][1]
  OBVIOUS
<1>6. (l = 0 /\ 1 - l = 1 /\ a = q /\ b = s) \/ (l = 1 /\ 1 - l = 0 /\ a = s /\ b = q)
  <2>1. CASE l = 0
    <3>1. 1 - l = 1
      BY <2>1
    <3> QED
      BY <1>2, <1>3, <1>5, <2>1, <3>1
  <2>2. CASE l = 1
    <3>1. 1 - l = 0
      BY <2>2
    <3> QED
      BY <1>2, <1>3, <1>5, <2>2, <3>1
  <2> QED
    BY <1>2, <2>1, <2>2
<1>7. Forked(N, L, n, a, b)
  <2>1. n \in N \ {HEAD} /\ a \in N /\ b \in N
    BY <1>2, <1>3, <1>6
  <2> QED
    BY <1>5, <2>1 DEF Forked
<1>8. a # b /\ a # n /\ b # n /\ a # HEAD /\ b # HEAD
  BY <1>2, <1>7, ForkApart
<1>9. L[HEAD][0] = NIL /\ ~R[HEAD] /\ L[p][e] # p /\ R \in [N -> BOOLEAN]
  BY <1>2, <1>3, <1>4 DEF Typed
<1>10. R[n] \/ n = L[HEAD][1]
  BY <1>2, <1>3, <1>4, <1>9
<1>11. ~R[p]
  <2>1. R[p] => ~IsRed(R, L[p][e])
    BY <1>2, <1>3, <1>4 DEF NoRedRed
  <2> QED
    BY <1>2, <1>3, <1>4, <1>9, <2>1 DEF IsRed
<1>12. PICK F : F = FlipColours(N, R, n, q, s)
  OBVIOUS
<1>13. Flipped(N, R, F, n, a, b, FALSE)
  <2>1. /\ F \in [N -> BOOLEAN] /\ ~F[n] /\ F[q] /\ F[s]
        /\ \A m \in N : m = n \/ m = q \/ m = s \/ (F[m] <=> R[m])
    <3>1. q # n /\ s # n
      BY <1>6, <1>8
    <3>2. \A m \in N : F[m] = IF m = n THEN FALSE ELSE IF m = s \/ m = q THEN TRUE ELSE R[m]
      BY <1>12 DEF FlipColours
    <3>3. F \in [N -> BOOLEAN]
      BY <1>9, <1>12 DEF FlipColours
    <3>4. ~F[n] /\ F[q] /\ F[s]
      BY <1>2, <1>3, <3>1, <3>2
    <3>5. \A m \in N : m = n \/ m = q \/ m = s \/ (F[m] <=> R[m])
      BY <3>2
    <3> QED
      BY <3>3, <3>4, <3>5
  <2> QED
    BY <1>6, <2>1 DEF Flipped
<1>14. \E K : Sound(N, L, F, B, K)
  <2>1. ~R[a] /\ ~R[b]
    BY <1>3, <1>6
  <2> QED
    BY <1>2, <1>7, <1>10, <1>13, <2>1, FlipDown
<1> QED
  BY <1>1, <1>4, <1>6, <1>8, <1>9, <1>11, <1>12, <1>14

LEMMA PushFlip ==
  ASSUME NEW N, NEW t, NEW B, NEW H, NEW h, NEW n, NEW q, NEW l, Down(N, t, B, H, h, n, q, l),
         NEW p, NEW s, Siblings(N, t, p, n, q, s, l),
         ~IsRed(t.red, t.link[s][0]), ~IsRed(t.red, t.link[s][1])
  PROVE  PushDone(N, t, B, h, q, Paint(Paint(t, {n}, FALSE), {s, q}, TRUE), n)
<1>1. PICK L, R : L = t.link /\ R = t.red
  OBVIOUS
<1>2. /\ t \in Trees(N) /\ Sound(N, L, R, B, H) /\ NoRedRed(N, L, R) /\ Ordered(N, L, B)
      /\ N \subseteq Int /\ NIL \notin N /\ HEAD \in N
      /\ n \in N /\ l \in {0, 1} /\ L[n][l] = q /\ q \in N
      /\ Typed(N, L, R, B, H)
  BY <1>1, DownParts
<1>3. /\ s \in N /\ ~IsRed(R, L[q][0]) /\ ~IsRed(R, L[q][1])
      /\ ~IsRed(R, L[s][0]) /\ ~IsRed(R, L[s][1])
  BY <1>1 DEF Siblings
<1>4. PICK F : F = FlipColours(N, R, n, q, s)
  OBVIOUS
<1>5. /\ \E K : Sound(N, L, F, B, K)
      /\ q # s /\ q # n /\ s # n
  BY <1>1, <1>4, SiblingsFlip
<1>6. PICK w, u : w = Paint(t, {n}, FALSE) /\ u = Paint(w, {s, q}, TRUE)
  OBVIOUS
<1>7. Painted(N, t, w, {n}, FALSE)
  BY <1>2, <1>6, PaintIs
<1>8. w \in Trees(N)
  BY <1>7 DEF Painted
<1>9. Painted(N, w, u, {s, q}, TRUE)
  BY <1>6, <1>8, PaintIs
<1>10. /\ u \in Trees(N) /\ u.link = L /\ Kept(t, u)
       /\ \A m \in N : u.red[m] = F[m]
  <2>1. /\ w \in Trees(N) /\ w.link = t.link /\ w.data = t.data /\ w.key = t.key
        /\ \A m \in N : IF m \in {n} THEN w.red[m] = FALSE ELSE w.red[m] = t.red[m]
    BY <1>7 DEF Painted
  <2>2. /\ u \in Trees(N) /\ u.link = w.link /\ u.data = w.data /\ u.key = w.key
        /\ \A m \in N : IF m \in {s, q} THEN u.red[m] = TRUE ELSE u.red[m] = w.red[m]
    BY <1>9 DEF Painted
  <2>3. \A m \in N : u.red[m] = F[m]
    <3>1. TAKE m \in N
    <3>2. F[m] = IF m = n THEN FALSE ELSE IF m = s \/ m = q THEN TRUE ELSE R[m]
      BY <1>4 DEF FlipColours
    <3> QED
      BY <1>1, <1>5, <2>1, <2>2, <3>2
  <2> QED
    BY <1>1, <2>1, <2>2, <2>3 DEF Kept
<1>11. u.red = F
  <2>1. u.red \in [N -> BOOLEAN] /\ F = [m \in N |-> F[m]]
    BY <1>4, <1>10 DEF Trees, FlipColours
  <2> QED
    BY <1>10, <2>1
<1>12. /\ ~F[n] /\ F[q] /\ F[s]
       /\ \A m \in N : m = n \/ m = q \/ m = s \/ (F[m] <=> R[m])
  BY <1>2, <1>3, <1>4, <1>5 DEF FlipColours
<1>13. NoRedRed(N, L, F)
  <2>1. SUFFICES ASSUME NEW m \in N, NEW d \in {0, 1}, F[m], IsRed(F, L[m][d]) PROVE FALSE
    BY DEF NoRedRed
  <2>2. m # n
    BY <1>12, <2>1
  <2>3. \A x \in N : \A g \in {0, 1} : (L[x][g] = q \/ L[x][g] = s) => x = n
    <3>1. \A x, y \in N : \A g, j \in {0, 1} : L[x][g] = L[y][j] /\ L[x][g] # NIL => x = y /\ g = j
      BY <1>2 DEF Ordered
    <3>2. PICK j \in {0, 1} : L[n][j] = s
      <4>1. 1 - l \in {0, 1}
        BY <1>2, BeyondDef
      <4> QED
        BY <1>1, <4>1 DEF Siblings
    <3>3. q # NIL /\ s # NIL
      BY <1>2, <1>3
    <3>4. SUFFICES ASSUME NEW x \in N, NEW g \in {0, 1}, L[x][g] = q \/ L[x][g] = s PROVE x = n
      OBVIOUS
    <3>5. CASE L[x][g] = q
      BY <1>2, <3>1, <3>3, <3>5
    <3>6. CASE L[x][g] = s
      BY <1>2, <3>1, <3>2, <3>3, <3>6
    <3> QED
      BY <3>4, <3>5, <3>6
  <2>4. L[m][d] \in N \cup {NIL} /\ L[m][d] # q /\ L[m][d] # s
    BY <1>2, <2>2, <2>3 DEF Typed
  <2>5. IsRed(R, L[m][d])
    BY <1>12, <2>1, <2>4 DEF IsRed
  <2>6. CASE m = q \/ m = s
    <3>1. d = 0 \/ d = 1
      OBVIOUS
    <3> QED
      BY <1>3, <2>5, <2>6, <3>1
  <2>7. CASE m # q /\ m # s
    <3>1. R[m]
      BY <1>12, <2>1, <2>2, <2>7
    <3> QED
      BY <1>2, <2>5, <3>1 DEF NoRedRed
  <2> QED
    BY <2>6, <2>7
<1>14. \E K : Tidy(N, u, B, K)
  BY <1>5, <1>10, <1>11, <1>13 DEF Tidy
<1>15. Pushed(u, n, q, Side(q < h))
  BY <1>11, <1>12 DEF Pushed
<1>16. Path(N, u.link, B, h, h, q)
  BY <1>1, <1>10 DEF Down
<1>17. \E e \in {0, 1} : u.link[n][e] = q
  BY <1>2, <1>10
<1> QED
  BY <1>1, <1>2, <1>6, <1>10, <1>14, <1>15, <1>16, <1>17 DEF PushDone

\* The colours after a rotation that brought top up for q.
TopPaint(w, q, top) ==
  Paint(Paint(w, {q, top}, TRUE), {w.link[top][0], w.link[top][1]}, FALSE)

TopPainted(N, w, u, q, top) ==
  /\ u \in Trees(N) /\ u.link = w.link /\ u.data = w.data /\ u.key = w.key
  /\ \A m \in N : u.red[m] <=> /\ m # w.link[top][0] /\ m # w.link[top][1]
                               /\ m = q \/ m = top \/ w.red[m]

LEMMA TopPaintIs ==
  ASSUME NEW N, NEW w \in Trees(N), NEW q, NEW top
  PROVE  TopPainted(N, w, TopPaint(w, q, top), q, top)
<1>1. PICK v, u, S : /\ S = {w.link[top][0], w.link[top][1]}
                     /\ v = Paint(w, {q, top}, TRUE) /\ u = Paint(v, S, FALSE)
  OBVIOUS
<1>2. /\ v \in Trees(N) /\ v.link = w.link /\ v.data = w.data /\ v.key = w.key
      /\ \A m \in N : IF m \in {q, top} THEN v.red[m] = TRUE ELSE v.red[m] = w.red[m]
  <2>1. Painted(N, w, v, {q, top}, TRUE)
    BY <1>1, PaintIs
  <2> QED
    BY <2>1 DEF Painted
<1>3. /\ u \in Trees(N) /\ u.link = v.link /\ u.data = v.data /\ u.key = v.key
      /\ \A m \in N : IF m \in S THEN u.red[m] = FALSE ELSE u.red[m] = v.red[m]
  <2>1. Painted(N, v, u, S, FALSE)
    BY <1>1, <1>2, PaintIs
  <2> QED
    BY <2>1 DEF Painted
<1>4. \A m \in N : u.red[m] <=> /\ m # w.link[top][0] /\ m # w.link[top][1]
                                /\ m = q \/ m = top \/ w.red[m]
  <2>1. SUFFICES ASSUME NEW m \in N
                 PROVE  u.red[m] <=> /\ m # w.link[top][0] /\ m # w.link[top][1]
                                     /\ m = q \/ m = top \/ w.red[m]
    OBVIOUS
  <2>2. m \in S <=> m = w.link[top][0] \/ m = w.link[top][1]
    BY <1>1
  <2>3. m \in {q, top} <=> m = q \/ m = top
    OBVIOUS
  <2> QED
    BY <1>2, <1>3, <2>2, <2>3
<1>5. u = TopPaint(w, q, top)
  BY <1>1 DEF TopPaint
<1> QED
  BY <1>2, <1>3, <1>4, <1>5 DEF TopPainted

\* What such a rotation leaves of links L and colours R: top is red now, and its
\* children a and b are black.
LiftDone(N, L, R, M, F, p, e, q, top, a, b) ==
  /\ q \in N /\ top \in N /\ a \in N /\ b \in N /\ p \in N /\ e \in {0, 1}
  /\ q # top /\ q # a /\ q # b /\ top # a /\ top # b /\ p # q /\ p # top /\ ~R[p]
  /\ F \in [N -> BOOLEAN] /\ F[q] /\ F[top] /\ ~F[a] /\ ~F[b]
  /\ \A m \in N : m = q \/ m = top \/ m = a \/ m = b \/ (F[m] <=> R[m])
  /\ \A n \in N : \A d \in {0, 1} : M[n][d] \in N \cup {NIL}
  /\ \A d \in {0, 1} : M[top][d] = a \/ M[top][d] = b
  /\ \A d \in {0, 1} : M[q][d] = L[q][d] /\ ~IsRed(R, L[q][d]) /\ L[q][d] # q /\ L[q][d] # top
  /\ \A n \in N : \A d \in {0, 1} : M[n][d] = top => n = p /\ d = e
  /\ \A n \in N : \A d \in {0, 1} : M[n][d] = q => n = a \/ n = b
  /\ \A n \in N : \A d \in {0, 1} :
       n # a /\ n # b /\ n # top /\ n # p => M[n][d] = L[n][d]

\* No red node has a red child then.
LEMMA LiftNoRedRed ==
  ASSUME NEW N, NEW L, NEW R, NoRedRed(N, L, R),
         NEW M, NEW F, NEW p, NEW e, NEW q, NEW top, NEW a, NEW b,
         LiftDone(N, L, R, M, F, p, e, q, top, a, b)
  PROVE  NoRedRed(N, M, F)
<1>1. SUFFICES ASSUME NEW n \in N, NEW d \in {0, 1}, F[n], IsRed(F, M[n][d]) PROVE FALSE
  BY DEF NoRedRed
<1>2. /\ F[q] /\ F[top] /\ ~F[a] /\ ~F[b]
      /\ \A m \in N : m = q \/ m = top \/ m = a \/ m = b \/ (F[m] <=> R[m])
      /\ p \in N /\ p # q /\ p # top /\ ~R[p] /\ q \in N /\ top \in N /\ a \in N /\ b \in N
  BY DEF LiftDone
<1>3. /\ \A g \in {0, 1} : M[top][g] = a \/ M[top][g] = b
      /\ \A g \in {0, 1} : M[q][g] = L[q][g] /\ ~IsRed(R, L[q][g])
  BY DEF LiftDone
<1>4. /\ M[n][d] \in N \cup {NIL}
      /\ M[n][d] = top => n = p /\ d = e
      /\ M[n][d] = q => n = a \/ n = b
      /\ n # a /\ n # b /\ n # top /\ n # p => M[n][d] = L[n][d]
  BY DEF LiftDone
<1>5. n # a /\ n # b /\ n # top /\ n # p
  <2>1. n # a /\ n # b
    BY <1>1, <1>2
  <2>2. n # top
    <3>1. n = top => ~F[M[n][d]]
      BY <1>2, <1>3
    <3> QED
      BY <1>1, <3>1 DEF IsRed
  <2>3. n # p
    BY <1>1, <1>2, <2>1
  <2> QED
    BY <2>1, <2>2, <2>3
<1>6. /\ M[n][d] \in N \cup {NIL} /\ M[n][d] # top /\ M[n][d] # q /\ M[n][d] # a /\ M[n][d] # b
      /\ M[n][d] = L[n][d]
  <2>1. M[n][d] # top /\ M[n][d] # q
    BY <1>5, <1>4
  <2>2. M[n][d] # NIL /\ F[M[n][d]]
    BY <1>1 DEF IsRed
  <2>3. M[n][d] = L[n][d]
    BY <1>5, <1>4
  <2> QED
    BY <1>2, <1>4, <2>1, <2>2, <2>3
<1>7. IsRed(R, L[n][d])
  BY <1>1, <1>2, <1>6 DEF IsRed
<1>8. CASE n = q
  BY <1>7, <1>8, <1>3
<1>9. CASE n # q
  <2>1. R[n]
    BY <1>1, <1>2, <1>5, <1>9
  <2> QED
    BY <1>7, <2>1 DEF NoRedRed
<1> QED
  BY <1>8, <1>9

\* The red child of the sibling is on the far side: one rotation.
LEMMA PushLiftOnce ==
  ASSUME NEW N, NEW t, NEW B, NEW H, NEW h, NEW n, NEW q, NEW l, Down(N, t, B, H, h, n, q, l),
         NEW p, NEW s, Siblings(N, t, p, n, q, s, l),
         NEW side, side \in {0, 1}, t.link[p][side] = n, IsRed(t.red, t.link[s][1 - l]),
         NEW w, w = Single(t, p, side, n, l)
  PROVE  /\ w.link[p][side] = s
         /\ PushDone(N, t, B, h, q, TopPaint(w, q, s), n)
<1>1. PICK L, R, M, e, y, f : /\ L = t.link /\ R = t.red /\ M = w.link /\ e = 1 - l /\ y = L[s][e]
                              /\ f = Side(q < h)
  OBVIOUS
<1>2. /\ t \in Trees(N) /\ Sound(N, L, R, B, H) /\ NoRedRed(N, L, R) /\ Ordered(N, L, B)
      /\ N \subseteq Int /\ NIL \notin N /\ HEAD \in N
      /\ n \in N /\ l \in {0, 1} /\ e \in {0, 1} /\ e # l /\ L[n][l] = q /\ q \in N
      /\ f \in {0, 1} /\ L[q][f] \in N \cup {NIL}
      /\ Typed(N, L, R, B, H)
  BY <1>1, DownParts
<1>3. /\ s \in N /\ p \in N /\ L[n][e] = s /\ L[p][side] = n /\ IsRed(R, y)
      /\ ~R[q] /\ ~R[s] /\ ~IsRed(R, L[q][0]) /\ ~IsRed(R, L[q][1])
  BY <1>1 DEF Siblings
<1>4. y \in N /\ R[y] /\ R \in [N -> BOOLEAN]
  <2>1. y \in N \cup {NIL}
    BY <1>1, <1>2, <1>3 DEF Typed
  <2> QED
    BY <1>2, <1>3, <2>1 DEF IsRed, Typed
<1>5. PICK C1 : C1 = FlipColours(N, R, n, q, s)
  OBVIOUS
<1>6. /\ \E K : Sound(N, L, C1, B, K)
      /\ q # s /\ q # n /\ s # n /\ s # HEAD /\ p # n /\ ~R[p]
  BY <1>1, <1>5, SiblingsFlip
<1>7. CanTurn(N, L, p, side, n, s, l, e)
  BY <1>2, <1>3 DEF CanTurn
<1>8. Turning(N, t, w, p, side, n, s, l, e)
  BY <1>1, <1>2, <1>7, SingleOrdered
<1>9. /\ w \in Trees(N) /\ Kept(t, w) /\ IsTurned(N, L, M, p, side, n, s, l, e)
      /\ w.red[n] /\ ~w.red[s]
      /\ \A m \in N : m = n \/ m = s \/ (w.red[m] <=> R[m])
  BY <1>1, <1>8 DEF Turning, Kept
<1>10. /\ M \in [N -> [{0, 1} -> N \cup {NIL}]]
       /\ M[p][side] = s /\ M[n][e] = L[s][l] /\ M[s][l] = n
       /\ \A m \in N : \A g \in {0, 1} :
            \/ m = p /\ g = side
            \/ m = n /\ g = e
            \/ m = s /\ g = l
            \/ M[m][g] = L[m][g]
  BY <1>9 DEF IsTurned
<1>11. /\ p # n /\ p # s /\ n # s
       /\ \A m \in N : \A g \in {0, 1} : L[m][g] = n => m = p /\ g = side
       /\ \A m \in N : \A g \in {0, 1} : L[m][g] = s => m = n /\ g = e
  BY <1>2, <1>7, TurnApart
<1>12. \A x, z \in N : \A g, j \in {0, 1} : L[x][g] = L[z][j] /\ L[x][g] # NIL => x = z /\ g = j
  BY <1>2 DEF Ordered
<1>13. /\ y # n /\ y # s /\ y # q /\ q # p
       /\ \A m \in N : \A g \in {0, 1} : L[m][g] = q => m = n /\ g = l
  <2>1. \A m \in N : \A g \in {0, 1} : L[m][g] = q => m = n /\ g = l
    BY <1>2, <1>12
  <2>2. y # s
    BY <1>1, <1>2, <1>3 DEF Typed
  <2>3. y # q /\ y # n
    BY <1>1, <1>2, <1>3, <1>4, <1>6, <1>11, <2>1
  <2>4. q # p
    <3>1. q \in B[n] /\ n \in B[n]
      BY <1>2, BelowOnce, BeyondDef
    <3>2. B[L[p][side]] \subseteq B[p] /\ p \notin B[L[p][side]]
      BY <1>2, <1>3, BelowOnce, BeyondDef
    <3> QED
      BY <1>3, <3>1, <3>2
  <2> QED
    BY <2>1, <2>2, <2>3, <2>4
<1>14. M[s][e] = y /\ M[n][l] = q /\ \A g \in {0, 1} : M[q][g] = L[q][g]
  <2>1. M[s][e] = L[s][e]
    BY <1>2, <1>3, <1>10, <1>11
  <2>2. M[n][l] = L[n][l]
    BY <1>2, <1>10, <1>11
  <2>3. \A g \in {0, 1} : M[q][g] = L[q][g]
    BY <1>2, <1>6, <1>10, <1>13
  <2> QED
    BY <1>1, <1>2, <2>1, <2>2, <2>3
<1>15. PICK D : D = TurnedB(L, B, n, s, l)
  OBVIOUS
<1>16. PICK C2 : C2 = [m \in N |-> IF m = n THEN TRUE ELSE IF m = s THEN FALSE ELSE C1[m]]
  OBVIOUS
<1>17. /\ \A m \in N : C1[m] = IF m = n THEN FALSE ELSE IF m = s \/ m = q THEN TRUE ELSE R[m]
       /\ C1 \in [N -> BOOLEAN]
  BY <1>4, <1>5 DEF FlipColours
<1>18. Swapped(N, C1, C2, n, s)
  BY <1>2, <1>3, <1>11, <1>16, <1>17 DEF Swapped
<1>19. \E K : Sound(N, M, C2, D, K)
  <2>1. PICK K : Sound(N, L, C1, B, K)
    BY <1>6
  <2>2. ~C1[n] /\ C1[s]
    BY <1>2, <1>3, <1>11, <1>17
  <2> QED
    BY <1>7, <1>9, <1>15, <1>18, <2>1, <2>2, TurnBlackRed
<1>20. PICK a, b : a = M[s][0] /\ b = M[s][1]
  OBVIOUS
<1>21. (a = n /\ b = y) \/ (a = y /\ b = n)
  BY <1>2, <1>10, <1>14, <1>20
<1>22. PICK u : u = TopPaint(w, q, s)
  OBVIOUS
<1>23. /\ u \in Trees(N) /\ u.link = M /\ Kept(t, u)
       /\ \A m \in N : u.red[m] <=> m # a /\ m # b /\ (m = q \/ m = s \/ w.red[m])
  <2>1. TopPainted(N, w, u, q, s)
    BY <1>9, <1>22, TopPaintIs
  <2> QED
    BY <1>1, <1>9, <1>20, <2>1 DEF TopPainted, Kept
<1>24. /\ u.red \in [N -> BOOLEAN] /\ u.red[q] /\ u.red[s] /\ ~u.red[a] /\ ~u.red[b] /\ a \in N /\ b \in N
       /\ \A m \in N : m = q \/ m = s \/ m = a \/ m = b \/ (u.red[m] <=> R[m])
  <2>1. u.red \in [N -> BOOLEAN] /\ a \in N /\ b \in N
    BY <1>2, <1>4, <1>21, <1>23 DEF Trees
  <2>2. q # a /\ q # b /\ s # a /\ s # b
    BY <1>6, <1>13, <1>21
  <2>3. u.red[q] /\ u.red[s] /\ ~u.red[a] /\ ~u.red[b]
    BY <1>2, <1>3, <1>23, <2>1, <2>2
  <2>4. \A m \in N : m = q \/ m = s \/ m = a \/ m = b \/ (u.red[m] <=> R[m])
    BY <1>9, <1>21, <1>23
  <2> QED
    BY <2>1, <2>3, <2>4
<1>25. Flipped(N, C2, u.red, s, a, b, TRUE)
  <2>1. \A m \in N : m = s \/ m = a \/ m = b \/ (u.red[m] <=> C2[m])
    <3>1. SUFFICES ASSUME NEW m \in N, m # s, m # a, m # b PROVE u.red[m] <=> C2[m]
      OBVIOUS
    <3>2. C2[m] = C1[m]
      BY <1>16, <1>21, <3>1
    <3>3. CASE m = q
      <4>1. C1[m]
        BY <1>6, <1>17, <3>3
      <4> QED
        BY <1>24, <3>2, <3>3, <4>1
    <3>4. CASE m # q
      <4>1. C1[m] = R[m]
        BY <1>17, <1>21, <3>1, <3>4
      <4> QED
        BY <1>24, <3>1, <3>2, <3>4, <4>1
    <3> QED
      BY <3>3, <3>4
  <2> QED
    BY <1>24, <2>1 DEF Flipped
<1>26. \E K : Sound(N, M, u.red, D, K)
  <2>1. PICK K : Sound(N, M, C2, D, K)
    BY <1>19
  <2>2. Forked(N, M, s, a, b)
    BY <1>3, <1>6, <1>20, <1>24 DEF Forked
  <2>3. ~C2[s] /\ C2[n] /\ C2[y]
    BY <1>2, <1>3, <1>4, <1>11, <1>13, <1>16, <1>17
  <2>4. C2[a] /\ C2[b]
    BY <1>21, <2>3
  <2> QED
    BY <1>25, <2>1, <2>2, <2>3, <2>4, FlipUp
<1>27. NoRedRed(N, M, u.red)
  <2>1. q # s /\ q # a /\ q # b /\ s # a /\ s # b /\ ~R[p] /\ p # q /\ p # s
    BY <1>6, <1>11, <1>13, <1>21
  <2>2. \A m \in N : \A d \in {0, 1} : M[m][d] \in N \cup {NIL}
    BY <1>10
  <2>3. \A d \in {0, 1} : M[s][d] = a \/ M[s][d] = b
    BY <1>20
  <2>4. \A d \in {0, 1} : M[q][d] = L[q][d] /\ ~IsRed(R, L[q][d]) /\ L[q][d] # q /\ L[q][d] # s
    <3>1. TAKE d \in {0, 1}
    <3>2. ~IsRed(R, L[q][d])
      BY <1>3
    <3>3. L[q][d] # q
      BY <1>2 DEF Typed
    <3>4. L[q][d] # s
      BY <1>2, <1>6, <1>11
    <3> QED
      BY <1>14, <3>2, <3>3, <3>4
  <2>5. \A m \in N : \A d \in {0, 1} : M[m][d] = s => m = p /\ d = side
    <3>1. SUFFICES ASSUME NEW m \in N, NEW d \in {0, 1}, M[m][d] = s, ~(m = p /\ d = side) PROVE FALSE
      OBVIOUS
    <3>2. s # NIL /\ L[s][l] # s
      BY <1>2, <1>3 DEF Typed
    <3>3. \/ m = n /\ d = e
          \/ m = s /\ d = l
          \/ M[m][d] = L[m][d]
      BY <1>10, <3>1
    <3>4. M[m][d] = L[m][d] => m = n /\ d = e
      BY <1>11, <3>1
    <3> QED
      BY <1>10, <1>11, <3>1, <3>2, <3>3, <3>4
  <2>6. \A m \in N : \A d \in {0, 1} : M[m][d] = q => m = a \/ m = b
    <3>1. SUFFICES ASSUME NEW m \in N, NEW d \in {0, 1}, M[m][d] = q, m # n PROVE FALSE
      BY <1>21
    <3>2. \/ m = p /\ d = side
          \/ m = s /\ d = l
          \/ M[m][d] = L[m][d]
      BY <1>10, <3>1
    <3> QED
      BY <1>6, <1>10, <1>13, <3>1, <3>2
  <2>7. \A m \in N : \A d \in {0, 1} : m # a /\ m # b /\ m # s /\ m # p => M[m][d] = L[m][d]
    BY <1>10, <1>21
  <2>8. LiftDone(N, L, R, M, u.red, p, side, q, s, a, b)
    BY <1>2, <1>3, <1>24, <2>1, <2>2, <2>3, <2>4, <2>5, <2>6, <2>7 DEF LiftDone
  <2> QED
    BY <1>2, <2>8, LiftNoRedRed
<1>28. h \in Int /\ Path(N, L, B, h, h, q)
  BY <1>1 DEF Down
<1>29. Path(N, M, D, h, h, q)
  BY <1>2, <1>6, <1>7, <1>9, <1>15, <1>28, PathTurned
<1>30. D[M[q][f]] = B[L[q][f]]
  <2>1. BelowTurned(N, L, B, M, D, n, s, l, e)
    BY <1>2, <1>7, <1>9, <1>15, TurnBelow
  <2>2. \/ q = n /\ f = e
        \/ q = s /\ f = l
        \/ D[M[q][f]] = B[L[q][f]]
    BY <1>2, <2>1 DEF BelowTurned
  <2> QED
    BY <1>6, <2>2
<1>31. \E K : Tidy(N, u, D, K)
  BY <1>23, <1>26, <1>27 DEF Tidy
<1>32. Pushed(u, n, q, f)
  BY <1>24 DEF Pushed
<1>33. \E g \in {0, 1} : u.link[n][g] = q
  BY <1>2, <1>14, <1>23
<1>34. PushDone(N, t, B, h, q, u, n)
  BY <1>1, <1>2, <1>23, <1>29, <1>30, <1>31, <1>32, <1>33 DEF PushDone
<1> QED
  BY <1>1, <1>10, <1>22, <1>34

\* The red child of the sibling is on the side of q: two rotations.
LEMMA PushLiftTwice ==
  ASSUME NEW N, NEW t, NEW B, NEW H, NEW h, NEW n, NEW q, NEW l, Down(N, t, B, H, h, n, q, l),
         NEW p, NEW s, Siblings(N, t, p, n, q, s, l),
         NEW side, side \in {0, 1}, t.link[p][side] = n,
         NEW x, x = t.link[s][l], IsRed(t.red, x),
         NEW w, w = Double(t, p, side, n, l)
  PROVE  /\ w.link[p][side] = x
         /\ PushDone(N, t, B, h, q, TopPaint(w, q, x), n)
<1>1. PICK L, R, M, e, f : /\ L = t.link /\ R = t.red /\ M = w.link /\ e = 1 - l
                           /\ f = Side(q < h)
  OBVIOUS
<1>2. /\ t \in Trees(N) /\ Sound(N, L, R, B, H) /\ NoRedRed(N, L, R) /\ Ordered(N, L, B)
      /\ N \subseteq Int /\ NIL \notin N /\ HEAD \in N
      /\ n \in N /\ l \in {0, 1} /\ e \in {0, 1} /\ e # l /\ L[n][l] = q /\ q \in N
      /\ f \in {0, 1} /\ L[q][f] \in N \cup {NIL}
      /\ Typed(N, L, R, B, H)
  BY <1>1, DownParts
<1>3. /\ s \in N /\ p \in N /\ L[n][e] = s /\ L[p][side] = n
      /\ ~R[q] /\ ~R[s] /\ ~IsRed(R, L[q][0]) /\ ~IsRed(R, L[q][1])
  BY <1>1 DEF Siblings
<1>4. x \in N /\ R[x] /\ R \in [N -> BOOLEAN] /\ L[s][l] = x
  <2>1. L[s][l] \in N \cup {NIL}
    BY <1>2, <1>3 DEF Typed
  <2> QED
    BY <1>1, <1>2, <2>1 DEF IsRed, Typed
<1>5. PICK C1 : C1 = FlipColours(N, R, n, q, s)
  OBVIOUS
<1>6. /\ \E K : Sound(N, L, C1, B, K)
      /\ q # s /\ q # n /\ s # n /\ s # HEAD /\ p # n /\ ~R[p]
  BY <1>1, <1>5, SiblingsFlip
<1>7. CanTurnTwice(N, L, p, side, n, s, x, l, e)
  BY <1>2, <1>3, <1>4 DEF CanTurn, CanTurnTwice
<1>8. TurningTwice(N, t, w, p, side, n, s, x, l, e)
  BY <1>1, <1>2, <1>7, DoubleIs
<1>9. TwiceDone(N, t, w, p, side, n, s, x, l, e)
  BY <1>1, <1>2, <1>7, <1>8, TwiceColours
<1>10. /\ w \in Trees(N) /\ Kept(t, w)
       /\ \A m \in N : m = n \/ m = s \/ m = x \/ (w.red[m] <=> R[m])
       /\ TwiceAt(N, L, M, p, side, n, s, x, l, e)
  BY <1>1, <1>9 DEF TwiceDone, Kept
<1>11. PICK M1 : /\ IsTurned(N, L, M1, n, e, s, x, e, l)
                 /\ IsTurned(N, M1, M, p, side, n, x, l, e)
  BY <1>1, <1>9 DEF TwiceDone
<1>12. /\ CanTurn(N, L, n, e, s, x, e, l)
       /\ p # n /\ p # s /\ p # x /\ n # s /\ n # x /\ s # x
       /\ p \notin B[n] /\ x \in B[n] /\ s \in B[n]
  BY <1>2, <1>7, TwiceApart
<1>13. CanTurn(N, M1, p, side, n, x, l, e)
  BY <1>2, <1>7, <1>11, TwiceSecond
<1>14. /\ M[p][side] = x /\ M[n][e] = L[x][l] /\ M[x][l] = n /\ M[x][e] = s /\ M[s][l] = L[x][e]
       /\ \A m \in N : \A g \in {0, 1} :
            \/ m = p /\ g = side
            \/ m = n /\ g = e
            \/ m = x
            \/ m = s /\ g = l
            \/ M[m][g] = L[m][g]
  BY <1>10 DEF TwiceAt
<1>15. \A y, z \in N : \A g, j \in {0, 1} : L[y][g] = L[z][j] /\ L[y][g] # NIL => y = z /\ g = j
  BY <1>2 DEF Ordered
<1>16. /\ x # q /\ q # p
       /\ \A m \in N : \A g \in {0, 1} : L[m][g] = q => m = n /\ g = l
       /\ \A m \in N : \A g \in {0, 1} : L[m][g] = x => m = s /\ g = l
       /\ \A m \in N : \A g \in {0, 1} : L[m][g] = n => m = p /\ g = side
  <2>1. \A m \in N : \A g \in {0, 1} : L[m][g] = q => m = n /\ g = l
    BY <1>2, <1>15
  <2>2. \A m \in N : \A g \in {0, 1} : L[m][g] = x => m = s /\ g = l
    BY <1>2, <1>3, <1>4, <1>15
  <2>3. x # q
    BY <1>3, <1>4
  <2>4. q # p
    <3>1. q \in B[n]
      BY <1>2, BelowOnce, BeyondDef
    <3> QED
      BY <1>12, <3>1
  <2>5. \A m \in N : \A g \in {0, 1} : L[m][g] = n => m = p /\ g = side
    BY <1>2, <1>3, <1>15
  <2> QED
    BY <2>1, <2>2, <2>3, <2>4, <2>5
<1>17. M[n][l] = q /\ \A g \in {0, 1} : M[q][g] = L[q][g]
  <2>1. M[n][l] = L[n][l]
    BY <1>2, <1>12, <1>14
  <2>2. \A g \in {0, 1} : M[q][g] = L[q][g]
    BY <1>2, <1>6, <1>14, <1>16
  <2> QED
    BY <1>2, <2>1, <2>2
<1>18. PICK D : D = TwiceB(L, B, n, s, x, l, e)
  OBVIOUS
<1>19. PICK C2 : C2 = [m \in N |-> IF m = n \/ m = s THEN TRUE ELSE IF m = x THEN FALSE ELSE C1[m]]
  OBVIOUS
<1>20. /\ \A m \in N : C1[m] = IF m = n THEN FALSE ELSE IF m = s \/ m = q THEN TRUE ELSE R[m]
       /\ C1 \in [N -> BOOLEAN]
  BY <1>4, <1>5 DEF FlipColours
<1>21. /\ C2 \in [N -> BOOLEAN] /\ C2[n] /\ C2[s] /\ ~C2[x]
       /\ \A m \in N : m = n \/ m = s \/ m = x \/ (C2[m] <=> C1[m])
  BY <1>2, <1>3, <1>4, <1>12, <1>19, <1>20
<1>22. \E K : Sound(N, M, C2, D, K)
  <2>1. PICK K : Sound(N, L, C1, B, K)
    BY <1>6
  <2>2. ~C1[n] /\ C1[s] /\ C1[x]
    BY <1>2, <1>3, <1>4, <1>12, <1>16, <1>20
  <2> QED
    BY <1>7, <1>11, <1>18, <1>21, <2>1, <2>2, TwiceSound
<1>23. PICK a, b : a = M[x][0] /\ b = M[x][1]
  OBVIOUS
<1>24. (a = n /\ b = s) \/ (a = s /\ b = n)
  BY <1>2, <1>14, <1>23
<1>25. PICK u : u = TopPaint(w, q, x)
  OBVIOUS
<1>26. /\ u \in Trees(N) /\ u.link = M /\ Kept(t, u)
       /\ \A m \in N : u.red[m] <=> m # a /\ m # b /\ (m = q \/ m = x \/ w.red[m])
  <2>1. TopPainted(N, w, u, q, x)
    BY <1>10, <1>25, TopPaintIs
  <2> QED
    BY <1>1, <1>10, <1>23, <2>1 DEF TopPainted, Kept
<1>27. /\ u.red \in [N -> BOOLEAN] /\ u.red[q] /\ u.red[x] /\ ~u.red[a] /\ ~u.red[b] /\ a \in N /\ b \in N
       /\ q # a /\ q # b /\ x # a /\ x # b
       /\ \A m \in N : m = q \/ m = x \/ m = a \/ m = b \/ (u.red[m] <=> R[m])
  <2>1. u.red \in [N -> BOOLEAN] /\ a \in N /\ b \in N
    BY <1>2, <1>3, <1>24, <1>26 DEF Trees
  <2>2. q # a /\ q # b /\ x # a /\ x # b
    BY <1>6, <1>12, <1>24
  <2>3. u.red[q] /\ u.red[x] /\ ~u.red[a] /\ ~u.red[b]
    BY <1>2, <1>4, <1>26, <2>1, <2>2
  <2>4. \A m \in N : m = q \/ m = x \/ m = a \/ m = b \/ (u.red[m] <=> R[m])
    BY <1>10, <1>24, <1>26
  <2> QED
    BY <2>1, <2>2, <2>3, <2>4
<1>28. Flipped(N, C2, u.red, x, a, b, TRUE)
  <2>1. \A m \in N : m = x \/ m = a \/ m = b \/ (u.red[m] <=> C2[m])
    <3>1. SUFFICES ASSUME NEW m \in N, m # x, m # a, m # b PROVE u.red[m] <=> C2[m]
      OBVIOUS
    <3>2. C2[m] <=> C1[m]
      BY <1>21, <1>24, <3>1
    <3>3. CASE m = q
      <4>1. C1[m]
        BY <1>6, <1>20, <3>3
      <4> QED
        BY <1>27, <3>2, <3>3, <4>1
    <3>4. CASE m # q
      <4>1. C1[m] = R[m]
        BY <1>20, <1>24, <3>1, <3>4
      <4> QED
        BY <1>27, <3>1, <3>2, <3>4, <4>1
    <3> QED
      BY <3>3, <3>4
  <2> QED
    BY <1>27, <2>1 DEF Flipped
<1>29. \E K : Sound(N, M, u.red, D, K)
  <2>1. PICK K : Sound(N, M, C2, D, K)
    BY <1>22
  <2>2. x # HEAD
    <3>1. L[s][l] # HEAD
      BY <1>2, <1>3 DEF Typed
    <3> QED
      BY <1>4, <3>1
  <2>3. Forked(N, M, x, a, b)
    BY <1>4, <1>23, <1>27, <2>2 DEF Forked
  <2>4. ~C2[x] /\ C2[a] /\ C2[b]
    BY <1>21, <1>24
  <2> QED
    BY <1>28, <2>1, <2>3, <2>4, FlipUp
<1>30. NoRedRed(N, M, u.red)
  <2>1. ~R[p] /\ p # q /\ p # x /\ q # x
    BY <1>6, <1>12, <1>16
  <2>2. \A m \in N : \A d \in {0, 1} : M[m][d] \in N \cup {NIL}
    BY <1>11 DEF IsTurned
  <2>3. \A d \in {0, 1} : M[x][d] = a \/ M[x][d] = b
    BY <1>23
  <2>4. \A d \in {0, 1} : M[q][d] = L[q][d] /\ ~IsRed(R, L[q][d]) /\ L[q][d] # q /\ L[q][d] # x
    <3>1. TAKE d \in {0, 1}
    <3>2. ~IsRed(R, L[q][d])
      BY <1>3
    <3>3. L[q][d] # q
      BY <1>2 DEF Typed
    <3>4. L[q][d] # x
      BY <1>2, <1>6, <1>16
    <3> QED
      BY <1>17, <3>2, <3>3, <3>4
  <2>5. \A m \in N : \A d \in {0, 1} : M[m][d] = x => m = p /\ d = side
    <3>1. SUFFICES ASSUME NEW m \in N, NEW d \in {0, 1}, M[m][d] = x, ~(m = p /\ d = side) PROVE FALSE
      OBVIOUS
    <3>2. \A g \in {0, 1} : L[x][g] # x
      BY <1>2, <1>4 DEF Typed
    <3>3. CASE m = x
      BY <1>12, <1>23, <1>24, <3>1, <3>3
    <3>4. CASE m = n /\ d = e
      BY <1>2, <1>14, <3>1, <3>2, <3>4
    <3>5. CASE m = s /\ d = l
      BY <1>2, <1>14, <3>1, <3>2, <3>5
    <3>6. CASE M[m][d] = L[m][d]
      <4>1. m = s /\ d = l
        BY <1>16, <3>1, <3>6
      <4> QED
        BY <3>5, <4>1
    <3> QED
      BY <1>14, <3>1, <3>3, <3>4, <3>5, <3>6
  <2>6. \A m \in N : \A d \in {0, 1} : M[m][d] = q => m = a \/ m = b
    <3>1. SUFFICES ASSUME NEW m \in N, NEW d \in {0, 1}, M[m][d] = q, m # n, m # s PROVE FALSE
      BY <1>24
    <3>2. \/ m = p /\ d = side
          \/ m = x
          \/ M[m][d] = L[m][d]
      BY <1>14, <3>1
    <3>3. M[m][d] # L[m][d]
      BY <1>16, <3>1
    <3>4. m # x
      <4>1. d = 0 \/ d = 1
        OBVIOUS
      <4> QED
        BY <1>23, <1>27, <3>1, <4>1
    <3> QED
      BY <1>14, <1>16, <3>1, <3>2, <3>3, <3>4
  <2>7. \A m \in N : \A d \in {0, 1} : m # a /\ m # b /\ m # x /\ m # p => M[m][d] = L[m][d]
    BY <1>14, <1>24
  <2>8. LiftDone(N, L, R, M, u.red, p, side, q, x, a, b)
    BY <1>2, <1>3, <1>4, <1>27, <2>1, <2>2, <2>3, <2>4, <2>5, <2>6, <2>7 DEF LiftDone
  <2> QED
    BY <1>2, <2>8, LiftNoRedRed
<1>31. h \in Int /\ Path(N, L, B, h, h, q)
  BY <1>1 DEF Down
<1>32. PICK E : E = TurnedB(L, B, s, x, e)
  OBVIOUS
<1>33. Ordered(N, M1, E)
  BY <1>2, <1>11, <1>12, <1>32, TurnOrdered
<1>34. TurnedB(M1, E, n, x, l) = D
  BY <1>2, <1>7, <1>11, <1>18, <1>32, TwiceBelow
<1>35. Path(N, M, D, h, h, q)
  <2>1. Path(N, M1, E, h, h, q)
    BY <1>2, <1>6, <1>11, <1>12, <1>31, <1>32, PathTurned
  <2>2. Path(N, M, TurnedB(M1, E, n, x, l), h, h, q)
    BY <1>2, <1>6, <1>11, <1>13, <1>31, <1>33, <2>1, PathTurned
  <2> QED
    BY <1>34, <2>2
<1>36. D[M[q][f]] = B[L[q][f]]
  <2>1. PICK y : y = L[q][f]
    OBVIOUS
  <2>2. y \in N \cup {NIL} /\ M[q][f] = y
    BY <1>2, <1>17, <2>1
  <2>3. y # n /\ y # s /\ y # x
    <3>1. y # n
      BY <1>2, <1>16, <2>1
    <3>2. y # s
      BY <1>2, <1>3, <1>6, <1>15, <2>1
    <3>3. y # x
      BY <1>2, <1>6, <1>16, <2>1
    <3> QED
      BY <3>1, <3>2, <3>3
  <2>4. \A m \in N : m = n \/ m = s \/ m = x \/ D[m] = B[m]
    BY <1>2, <1>7, <1>11, <1>18, TwiceBelow
  <2>5. D[NIL] = {} /\ B[NIL] = {}
    BY <1>2, <1>29 DEF Sound, Ordered
  <2> QED
    BY <2>1, <2>2, <2>3, <2>4, <2>5
<1>37. \E K : Tidy(N, u, D, K)
  BY <1>26, <1>29, <1>30 DEF Tidy
<1>38. Pushed(u, n, q, f)
  BY <1>27 DEF Pushed
<1>39. \E g \in {0, 1} : u.link[n][g] = q
  BY <1>2, <1>17, <1>26
<1>40. PushDone(N, t, B, h, q, u, n)
  BY <1>1, <1>2, <1>26, <1>35, <1>36, <1>37, <1>38, <1>39 DEF PushDone
<1> QED
  BY <1>1, <1>14, <1>25, <1>40

\* p is the parent of n, which is not black with black children on both sides
\* of the path, unless it is the root.
Placed(N, t, p, n, l) ==
  \/ n = HEAD /\ p = NIL
  \/ /\ n # HEAD /\ p \in N /\ \E e \in {0, 1} : t.link[p][e] = n
     /\ Pushed(t, p, n, l)

\* What a pass does before it goes to q.
LEMMA PushRedIs ==
  ASSUME NEW N, NEW t, NEW B, NEW H, Tidy(N, t, B, H), NEW h \in Nat, NEW n \in N,
         NEW l, l = Side(n < h), Path(N, t.link, B, h, h, n), NEW q, t.link[n][l] = q, q # NIL,
         NEW p, Placed(N, t, p, n, l), NEW r, r = PushRed(t, p, n, q, Side(q < h), l)
  PROVE  PushDone(N, t, B, h, q, r.tree, r.p)
<1>1. PICK L, R, f, e, s : /\ L = t.link /\ R = t.red /\ f = Side(q < h) /\ e = 1 - l
                           /\ s = L[n][1 - l]
  OBVIOUS
<1>2. Typed(N, L, R, B, H) /\ Ordered(N, L, B) /\ NoRedRed(N, L, R) /\ Even(N, L, R, H)
  BY <1>1, SoundTypes DEF Tidy, Sound
<1>3. N \subseteq Int /\ NIL \notin N /\ HEAD \in N /\ h \in Int /\ L[HEAD][0] = NIL
  BY <1>2 DEF Typed
<1>4. l \in {0, 1} /\ Heading(l, n, h, h)
  BY <1>3, HeadingDef
<1>5. q \in N \ {HEAD}
  <2>1. L[n][l] \in N \cup {NIL} /\ L[n][l] # HEAD
    BY <1>2, <1>4 DEF Typed
  <2> QED
    BY <1>1, <2>1
<1>6. Down(N, t, B, H, h, n, q, l)
  <2>1. Path(N, L, B, h, h, q)
    BY <1>1, <1>2, <1>4, <1>5, PathDown
  <2> QED
    BY <1>1, <1>3, <1>4, <1>5, <2>1 DEF Down
<1>7. /\ f \in {0, 1} /\ 1 - l \in {0, 1} /\ 1 - l # l /\ e \in {0, 1} /\ e # l
      /\ s \in N \cup {NIL} /\ s # n
  BY <1>1, <1>6, DownParts
<1>8. \A c : Red(t, c) <=> IsRed(R, c)
  BY <1>1 DEF Red, IsRed
<1>9. PICK side, turned : /\ side = Side(L[p][1] = n)
                          /\ turned = IF Red(t, t.link[s][l]) THEN Double(t, p, side, n, l)
                                                              ELSE Single(t, p, side, n, l)
  OBVIOUS
<1>10. PICK y : y = Paint(Paint(t, {n}, FALSE), {s, q}, TRUE)
  OBVIOUS
<1>11. PICK r1, r2, r3, r4 :
         /\ r1 = [tree |-> t, p |-> n]
         /\ r2 = [tree |-> Single(t, n, l, q, f), p |-> L[q][1 - f]]
         /\ r3 = [tree |-> y, p |-> n]
         /\ r4 = [tree |-> TopPaint(turned, q, turned.link[p][side]), p |-> n]
  BY ZenonT(60)
<1>12. r = IF Red(t, q) \/ Red(t, t.link[q][f]) THEN r1
           ELSE IF Red(t, t.link[q][1 - f]) THEN r2
           ELSE IF s = NIL THEN r1
           ELSE IF ~Red(t, t.link[s][0]) /\ ~Red(t, t.link[s][1]) THEN r3
           ELSE r4
  BY ZenonT(60), <1>1, <1>9, <1>11, <1>10 DEF PushRed, TopPaint
<1>13. /\ Red(t, q) \/ Red(t, t.link[q][f]) => r = r1
       /\ ~Red(t, q) /\ ~Red(t, t.link[q][f]) =>
            /\ Red(t, t.link[q][1 - f]) => r = r2
            /\ ~Red(t, t.link[q][1 - f]) =>
                 /\ s = NIL => r = r1
                 /\ s # NIL =>
                      IF ~Red(t, t.link[s][0]) /\ ~Red(t, t.link[s][1]) THEN r = r3 ELSE r = r4
  BY <1>12
<1>14. /\ IsRed(R, q) \/ IsRed(R, L[q][f]) => r = r1
       /\ ~IsRed(R, q) /\ ~IsRed(R, L[q][f]) =>
            /\ IsRed(R, L[q][1 - f]) => r = r2
            /\ ~IsRed(R, L[q][1 - f]) =>
                 /\ s = NIL => r = r1
                 /\ s # NIL =>
                      IF ~IsRed(R, L[s][0]) /\ ~IsRed(R, L[s][1]) THEN r = r3 ELSE r = r4
  BY <1>1, <1>8, <1>13
<1>15. CASE IsRed(R, q) \/ IsRed(R, L[q][f])
  <2>1. Pushed(t, n, q, f)
    BY <1>1, <1>15 DEF Pushed, IsRed
  <2>2. PushDone(N, t, B, h, q, t, n)
    BY <1>1, <1>6, <2>1, PushNothing
  <2>3. r.tree = t /\ r.p = n
    BY <1>11, <1>15, <1>14
  <2> QED
    BY <2>2, <2>3
<1>16. CASE ~IsRed(R, q) /\ ~IsRed(R, L[q][f]) /\ IsRed(R, L[q][1 - f])
  <2>1. r.tree = Single(t, n, l, q, f) /\ r.p = L[q][1 - f]
    BY <1>11, <1>16, <1>14
  <2>2. PICK c : c = t.link[q][1 - f]
    OBVIOUS
  <2>3. ~t.red[q] /\ ~IsRed(t.red, t.link[q][f]) /\ IsRed(t.red, c)
    BY <1>1, <1>16, <2>2 DEF IsRed
  <2>4. PushDone(N, t, B, h, q, Single(t, n, l, q, f), c)
    BY <1>1, <1>6, <2>2, <2>3, PushTurn
  <2> QED
    BY <1>1, <2>1, <2>2, <2>4
<1>17. CASE ~IsRed(R, q) /\ ~IsRed(R, L[q][f]) /\ ~IsRed(R, L[q][1 - f])
  <2>1. ~IsRed(R, L[q][0]) /\ ~IsRed(R, L[q][1])
    <3>1. (f = 0 /\ 1 - f = 1) \/ (f = 1 /\ 1 - f = 0)
      BY <1>7
    <3> QED
      BY <1>17, <3>1
  <2>2. ~R[q]
    BY <1>1, <1>17 DEF IsRed
  <2>3. CASE s = NIL
    <3>1. n = HEAD
      <4>1. SUFFICES ASSUME n # HEAD PROVE FALSE
        OBVIOUS
      <4>2. H \in [N \cup {NIL} -> Nat] /\ H[NIL] = 0
        BY <1>2 DEF Even
      <4>3. H[q] = H[L[q][0]] + 1
        BY <1>2, <1>5, <2>2 DEF Even
      <4>4. H[L[q][0]] \in Nat
        <5>1. L[q][0] \in N \cup {NIL}
          BY <1>2, <1>5 DEF Typed
        <5> QED
          BY <4>2, <5>1
      <4>5. /\ H[n] = IF R[n] THEN H[L[n][l]] ELSE H[L[n][l]] + 1
            /\ H[n] = IF R[n] THEN H[L[n][1 - l]] ELSE H[L[n][1 - l]] + 1
        BY <1>2, <1>4, <1>7, <4>1 DEF Even
      <4>6. L[n][l] = q /\ L[n][1 - l] = NIL
        BY <1>1, <2>3
      <4>7. H[q] \in Nat /\ H[NIL] \in Nat
        BY <1>5, <4>2
      <4>8. H[q] = H[NIL]
        BY <4>5, <4>6, <4>7
      <4> QED
        BY <4>2, <4>3, <4>4, <4>8
    <3>2. Pushed(t, n, q, f)
      BY <1>1, <2>1, <3>1 DEF Pushed
    <3>3. PushDone(N, t, B, h, q, t, n)
      BY <1>1, <1>6, <3>2, PushNothing
    <3>4. r.tree = t /\ r.p = n
      BY <1>11, <1>17, <1>14, <2>3
    <3> QED
      BY <3>3, <3>4
  <2>4. CASE s # NIL
    <3>1. n # HEAD
      <4>1. n = HEAD => l = 1
        BY <1>3 DEF Side, HEAD
      <4>2. n = HEAD => s = L[HEAD][0]
        BY <1>1, <4>1
      <4> QED
        BY <1>3, <2>4, <4>2
    <3>2. p \in N /\ Pushed(t, p, n, l)
      BY <3>1 DEF Placed
    <3>3. PICK g \in {0, 1} : L[p][g] = n
      BY <1>1, <3>1 DEF Placed
    <3>4. R[n] \/ (p = HEAD /\ ~IsRed(R, L[n][0]) /\ ~IsRed(R, L[n][1]))
      <4>1. ~IsRed(R, L[n][l])
        BY <1>1, <1>17
      <4> QED
        BY <1>1, <3>2, <4>1 DEF Pushed
    <3>5. ~R[s]
      <4>1. 1 - l = 0 \/ 1 - l = 1
        BY <1>7
      <4>2. R[n] => ~IsRed(R, L[n][1 - l])
        BY <1>2, <1>7 DEF NoRedRed
      <4>3. ~IsRed(R, L[n][1 - l])
        BY <3>4, <4>1, <4>2
      <4> QED
        BY <1>1, <2>4, <4>3 DEF IsRed
    <3>6. Siblings(N, t, p, n, q, s, l)
      BY <1>1, <1>7, <2>1, <2>2, <2>4, <3>1, <3>2, <3>3, <3>4, <3>5 DEF Siblings
    <3>7. side \in {0, 1} /\ t.link[p][side] = n
      BY <1>1, <1>9, <3>3 DEF Side
    <3>8. CASE ~IsRed(R, L[s][0]) /\ ~IsRed(R, L[s][1])
      <4>1. r.tree = y /\ r.p = n
        BY <1>11, <1>17, <1>14, <2>4, <3>8
      <4>2. ~IsRed(t.red, t.link[s][0]) /\ ~IsRed(t.red, t.link[s][1])
        BY <1>1, <3>8
      <4>3. PushDone(N, t, B, h, q, Paint(Paint(t, {n}, FALSE), {s, q}, TRUE), n)
        BY <1>6, <3>6, <4>2, PushFlip
      <4> QED
        BY <1>10, <4>1, <4>3
    <3>9. CASE IsRed(R, L[s][0]) \/ IsRed(R, L[s][1])
      <4>1. r.tree = TopPaint(turned, q, turned.link[p][side]) /\ r.p = n
        BY <1>11, <1>17, <1>14, <2>4, <3>9
      <4>2. CASE IsRed(R, L[s][l])
        <5>1. turned = Double(t, p, side, n, l)
          BY <1>1, <1>8, <1>9, <4>2
        <5>2. PICK x : x = t.link[s][l]
          OBVIOUS
        <5>3. IsRed(t.red, x)
          BY <1>1, <4>2, <5>2
        <5>4. /\ turned.link[p][side] = x
              /\ PushDone(N, t, B, h, q, TopPaint(turned, q, x), n)
          BY <1>6, <3>6, <3>7, <5>1, <5>2, <5>3, PushLiftTwice
        <5> QED
          BY <4>1, <5>4
      <4>3. CASE ~IsRed(R, L[s][l])
        <5>1. turned = Single(t, p, side, n, l)
          BY <1>1, <1>8, <1>9, <4>3
        <5>2. (l = 0 /\ 1 - l = 1) \/ (l = 1 /\ 1 - l = 0)
          BY <1>4
        <5>3. IsRed(t.red, t.link[s][1 - l])
          BY <1>1, <3>9, <4>3, <5>2
        <5>4. /\ turned.link[p][side] = s
              /\ PushDone(N, t, B, h, q, TopPaint(turned, q, s), n)
          BY <1>6, <3>6, <3>7, <5>1, <5>3, PushLiftOnce
        <5> QED
          BY <4>1, <5>4
      <4> QED
        BY <4>2, <4>3
    <3> QED
      BY <3>8, <3>9
  <2> QED
    BY <2>3, <2>4
<1> QED
  BY <1>15, <1>16, <1>17

-----------------------------------------------------------------------------
(* The loop. *)
AtNode(N, B, h, s) ==
  /\ s.q \in N /\ s.dir = Side(s.q < h) /\ Path(N, s.tree.link, B, h, h, s.q)
  /\ Placed(N, s.tree, s.p, s.q, s.dir)

\* At the end of the path, or m nodes are ahead at most.
Ahead(N, t, h, s, m) ==
  \E B, H : /\ Tidy(N, s.tree, B, H) /\ AtNode(N, B, h, s) /\ Kept(t, s.tree)
            /\ \/ s.tree.link[s.q][s.dir] = NIL
               \/ Cardinality(B[s.tree.link[s.q][s.dir]]) <= m

SinkStates(N) == [tree : Trees(N), p : Int, q : Int, dir : {0, 1}]

LEMMA SunkAhead ==
  ASSUME NEW N, NEW t, NEW h \in Nat, NEW s, s \in SinkStates(N), NEW m \in Int, Ahead(N, t, h, s, m)
  PROVE  Sunk(s, h) \in SinkStates(N) /\ Ahead(N, t, h, Sunk(s, h), m - 1)
<1>1. PICK B, H : /\ Tidy(N, s.tree, B, H) /\ AtNode(N, B, h, s) /\ Kept(t, s.tree)
                  /\ \/ s.tree.link[s.q][s.dir] = NIL
                     \/ Cardinality(B[s.tree.link[s.q][s.dir]]) <= m
  BY DEF Ahead
<1>2. PICK u, n, l, q, f, r : /\ u = s.tree /\ n = s.q /\ l = s.dir /\ q = u.link[n][l]
                              /\ f = Side(q < h) /\ r = PushRed(u, s.p, n, q, f, l)
  OBVIOUS
<1>3. CASE q = NIL
  <2>1. Sunk(s, h) = s
    BY <1>2, <1>3 DEF Sunk
  <2> QED
    BY <1>1, <1>2, <1>3, <2>1 DEF Ahead
<1>4. CASE q # NIL
  <2>1. PICK z : z = Sunk(s, h)
    OBVIOUS
  <2>2. z = [tree |-> r.tree, p |-> r.p, q |-> q, dir |-> f]
    BY ZenonT(60), <1>2, <1>4, <2>1 DEF Sunk
  <2>3. /\ Tidy(N, u, B, H) /\ n \in N /\ l = Side(n < h) /\ Path(N, u.link, B, h, h, n)
        /\ Placed(N, u, s.p, n, l)
    BY <1>1, <1>2 DEF AtNode
  <2>4. PushDone(N, u, B, h, q, r.tree, r.p)
    <3>1. r = PushRed(u, s.p, n, q, Side(q < h), l)
      BY <1>2
    <3> QED
      BY ZenonT(60), <1>2, <1>4, <2>3, <3>1, PushRedIs
  <2>5. /\ Kept(u, r.tree) /\ r.p \in N /\ \E e \in {0, 1} : r.tree.link[r.p][e] = q
        /\ Pushed(r.tree, r.p, q, f)
    BY ZenonT(60), <1>2, <2>4 DEF PushDone
  <2>6. PICK C, K : /\ Tidy(N, r.tree, C, K) /\ Path(N, r.tree.link, C, h, h, q)
                    /\ C[r.tree.link[q][f]] = B[u.link[q][f]]
    BY ZenonT(60), <1>2, <2>4 DEF PushDone
  <2>7. Typed(N, u.link, u.red, B, H) /\ Ordered(N, u.link, B) /\ N \subseteq Int /\ h \in Int
    <3>1. Sound(N, u.link, u.red, B, H)
      BY <2>3 DEF Tidy
    <3>2. Typed(N, u.link, u.red, B, H)
      BY <3>1, SoundTypes
    <3> QED
      BY <3>1, <3>2 DEF Sound, Typed
  <2>8. l \in {0, 1}
    BY <2>3, <2>7, HeadingDef
  <2>9. q \in N /\ q # HEAD
    <3>1. u.link[n][l] \in N \cup {NIL} /\ u.link[n][l] # HEAD
      BY <2>3, <2>7, <2>8 DEF Typed
    <3> QED
      BY <1>2, <1>4, <3>1
  <2>10. f \in {0, 1}
    BY <1>2, <2>7, <2>9, HeadingDef
  <2>11. /\ Cardinality(B[q]) \in Nat /\ Cardinality(B[u.link[q][f]]) \in Nat
         /\ Cardinality(B[u.link[q][f]]) + 1 <= Cardinality(B[q])
    BY <2>7, <2>9, <2>10, LighterBelow
  <2>12. Cardinality(B[q]) <= m
    BY <1>1, <1>2, <1>4
  <2>13. AtNode(N, C, h, z)
    BY ZenonT(60), <1>2, <2>2, <2>5, <2>6, <2>9 DEF AtNode, Placed
  <2>14. Cardinality(C[z.tree.link[z.q][z.dir]]) <= m - 1
    BY <2>2, <2>6, <2>11, <2>12
  <2>15. Kept(t, z.tree)
    BY ZenonT(60), <1>1, <1>2, <2>2, <2>5 DEF Kept
  <2>16. Ahead(N, t, h, z, m - 1)
    BY <2>2, <2>6, <2>13, <2>14, <2>15 DEF Ahead
  <2>17. z \in SinkStates(N)
    <3>1. r.tree \in Trees(N) /\ r.p \in Int /\ q \in Int
      BY <2>5, <2>6, <2>7, <2>9 DEF Tidy
    <3> QED
      BY <2>2, <2>10, <3>1 DEF SinkStates
  <2> QED
    BY <2>1, <2>16, <2>17
<1> QED
  BY <1>3, <1>4

IsSinking(a, n, s, h) == a = [i \in 0..n |-> IF i = 0 THEN s ELSE Sunk(a[i - 1], h)]

Sinks(n, s, h) == \E a : IsSinking(a, n, s, h) /\ Sink(s, h) = a[n]

LEMMA SinkDef ==
  ASSUME NEW s, NEW h, NEW n, n = Cardinality(DOMAIN s.tree.red), NEW a, IsSinking(a, n, s, h)
  PROVE  Sinks(n, s, h)
<1> DEFINE b == CHOOSE c : IsSinking(c, n, s, h)
<1>1. IsSinking(b, n, s, h)
  OBVIOUS
<1>2. Sink(s, h) = b[n]
  BY DEF Sink, IsSinking
<1> QED
  BY <1>1, <1>2 DEF Sinks

Sunken(t) == [tree |-> t, p |-> NIL, q |-> HEAD, dir |-> 1]

\* The loop of dict_remove, from a tidy tree, leads to the end of the path of h.
LEMMA SinkEnds ==
  ASSUME NEW N, NEW t, NEW B, NEW H, Tidy(N, t, B, H), NEW h \in Nat
  PROVE  Ahead(N, t, h, Sink(Sunken(t), h), 0)
<1>1. PICK s, n, r : s = Sunken(t) /\ n = Cardinality(N) /\ r = t.link[HEAD][1]
  OBVIOUS
<1>2. s.tree = t /\ s.p = NIL /\ s.q = HEAD /\ s.dir = 1
  BY <1>1 DEF Sunken
<1>3. Typed(N, t.link, t.red, B, H) /\ t \in Trees(N) /\ Ordered(N, t.link, B)
  BY SoundTypes DEF Tidy, Sound
<1>4. /\ N \subseteq Int /\ NIL \notin N /\ HEAD \in N /\ IsFiniteSet(N) /\ B[HEAD] = N
      /\ 1 \in {0, 1} /\ 0 \in {0, 1} /\ NIL \in Int /\ HEAD \in Int
  BY <1>3 DEF Typed, NIL, HEAD
<1>5. DOMAIN s.tree.red = N
  BY <1>2, <1>3 DEF Trees
<1>6. n \in Nat /\ Cardinality(B[r]) \in Nat /\ Cardinality(B[r]) <= n
  <2>1. /\ Cardinality(B[HEAD]) \in Nat /\ Cardinality(B[t.link[HEAD][1]]) \in Nat
        /\ Cardinality(B[t.link[HEAD][1]]) + 1 <= Cardinality(B[HEAD])
    BY <1>3, <1>4, LighterBelow
  <2>2. n \in Nat /\ Cardinality(B[r]) \in Nat /\ Cardinality(B[r]) + 1 <= n
    BY <1>1, <1>4, <2>1
  <2> QED
    BY <2>2
<1>7. Ahead(N, t, h, s, n)
  <2>1. Side(HEAD < h) = 1
    BY DEF Side, HEAD
  <2>2. Path(N, t.link, B, h, h, HEAD)
    <3>1. SUFFICES ASSUME NEW a \in N, NEW d \in {0, 1}, HEAD \in B[t.link[a][d]] PROVE FALSE
      BY DEF Path
    <3>2. a \notin B[HEAD]
      BY <1>3, <3>1, BelowAntisym
    <3> QED
      BY <1>4, <3>2
  <2>3. AtNode(N, B, h, s)
    BY <1>2, <1>4, <2>1, <2>2 DEF AtNode, Placed
  <2>4. Kept(t, s.tree)
    BY <1>2 DEF Kept
  <2>5. Cardinality(B[s.tree.link[s.q][s.dir]]) <= n
    BY <1>1, <1>2, <1>6
  <2> QED
    BY <1>2, <2>3, <2>4, <2>5 DEF Ahead
<1>8. s \in SinkStates(N)
  <2>1. s = [tree |-> t, p |-> NIL, q |-> HEAD, dir |-> 1]
    BY <1>1 DEF Sunken
  <2> QED
    BY <1>3, <1>4, <2>1 DEF SinkStates
<1>9. \E a : IsSinking(a, n, s, h)
  <2> DEFINE X == {x \in SinkStates(N) : \E m \in Int : Ahead(N, t, h, x, m)}
             G == [z \in X \X (1..n) |-> Sunk(z[1], h)]
  <2>1. \A x \in X : Sunk(x, h) \in X
    <3>1. TAKE x \in X
    <3>2. PICK m \in Int : Ahead(N, t, h, x, m)
      OBVIOUS
    <3>3. Sunk(x, h) \in SinkStates(N) /\ Ahead(N, t, h, Sunk(x, h), m - 1)
      BY <3>2, SunkAhead
    <3> QED
      BY <3>3
  <2>2. G \in [X \X (1..n) -> X]
    BY <2>1
  <2>3. s \in X
    BY <1>6, <1>7, <1>8
  <2>4. \A x \in X : \A i \in 1..n : G[<<x, i>>] = Sunk(x, h)
    OBVIOUS
  <2> HIDE DEF X, G
  <2>5. PICK f : IsRun(f, X, s, n, G)
    BY <1>6, <2>2, <2>3, Recursion
  <2>6. /\ f \in [0..n -> X] /\ f[0] = s
        /\ \A i \in 1..n : f[i] = Sunk(f[i - 1], h)
    <3>1. f \in [0..n -> X] /\ f[0] = s /\ \A i \in 1..n : f[i] = G[<<f[i - 1], i>>]
      BY <2>5 DEF IsRun
    <3>2. \A i \in 1..n : f[i - 1] \in X
      BY <1>6, <3>1
    <3> QED
      BY <2>4, <3>1, <3>2
  <2>7. f = [i \in 0..n |-> IF i = 0 THEN s ELSE Sunk(f[i - 1], h)]
    BY <1>6, <2>6
  <2> QED
    BY <2>7 DEF IsSinking
<1>10. Sinks(n, s, h)
  <2>1. n = Cardinality(DOMAIN s.tree.red)
    BY <1>1, <1>5
  <2> QED
    BY <1>9, <2>1, SinkDef
<1>11. PICK a : IsSinking(a, n, s, h) /\ Sink(s, h) = a[n]
  BY <1>10 DEF Sinks
<1>12. a[0] = s /\ \A i \in Nat : i + 1 \in 0..n => a[i + 1] = Sunk(a[i], h)
  BY <1>6, <1>11 DEF IsSinking
<1> DEFINE S == {i \in Nat : i \in 0..n => a[i] \in SinkStates(N) /\ Ahead(N, t, h, a[i], n - i)}
<1>13. 0 \in S
  BY <1>6, <1>7, <1>8, <1>12
<1>14. \A i \in Nat : i \in S => i + 1 \in S
  <2>1. SUFFICES ASSUME NEW i \in Nat, i \in S, i + 1 \in 0..n
                 PROVE  a[i + 1] \in SinkStates(N) /\ Ahead(N, t, h, a[i + 1], n - (i + 1))
    OBVIOUS
  <2>2. i \in 0..n
    BY <1>6, <2>1
  <2>3. PICK m : m = n - i
    OBVIOUS
  <2>4. m \in Int /\ m - 1 = n - (i + 1)
    BY <1>6, <2>3
  <2>5. a[i] \in SinkStates(N) /\ Ahead(N, t, h, a[i], m)
    BY <2>1, <2>2, <2>3
  <2>6. Sunk(a[i], h) \in SinkStates(N) /\ Ahead(N, t, h, Sunk(a[i], h), m - 1)
    BY <2>4, <2>5, SunkAhead
  <2>7. a[i + 1] = Sunk(a[i], h)
    BY <1>12, <2>1
  <2> QED
    BY <2>4, <2>6, <2>7
<1>15. n \in S
  <2> HIDE DEF S
  <2> QED
    BY <1>6, <1>13, <1>14, UpTo
<1>16. n - n = 0 /\ n \in 0..n
  BY <1>6
<1>17. Ahead(N, t, h, a[n], 0)
  BY <1>15, <1>16
<1> QED
  BY <1>1, <1>11, <1>17


-----------------------------------------------------------------------------
(* The node at the end of the path goes, and its data move to node h. *)

\* n is a leaf below p, red or the root, and the last node before h in the order
\* of those below h, or h itself.
LastNode(N, t, B, h, p, n) ==
  /\ n \in N /\ n # HEAD /\ p \in N /\ \E e \in {0, 1} : t.link[p][e] = n
  /\ t.link[n][0] = NIL /\ t.link[n][1] = NIL
  /\ t.red[n] \/ p = HEAD
  /\ n = h \/ n \in B[t.link[h][0]]
  /\ \A m \in B[t.link[h][0]] : m <= n

LEMMA LastIs ==
  ASSUME NEW N, NEW t, NEW B, NEW H, Tidy(N, t, B, H), NEW h \in Nat, h \in N,
         NEW p, NEW n, NEW l, n \in N, l = Side(n < h), Path(N, t.link, B, h, h, n),
         Placed(N, t, p, n, l), t.link[n][l] = NIL
  PROVE  LastNode(N, t, B, h, p, n)
<1>1. PICK L, R : L = t.link /\ R = t.red
  OBVIOUS
<1>2. Typed(N, L, R, B, H) /\ Ordered(N, L, B) /\ NoRedRed(N, L, R) /\ Even(N, L, R, H)
  BY <1>1, SoundTypes DEF Tidy, Sound
<1>3. /\ N \subseteq Int /\ HEAD \in N /\ B[HEAD] = N /\ L[HEAD][0] = NIL /\ B[NIL] = {}
      /\ NIL \notin N
  BY <1>2 DEF Typed
<1>4. l \in {0, 1} /\ 1 - l \in {0, 1} /\ 1 - l # l
  BY <1>3, HeadingDef, BeyondDef
<1>5. n # HEAD
  <2>1. SUFFICES ASSUME n = HEAD PROVE FALSE
    OBVIOUS
  <2>2. l = 1
    BY <2>1 DEF Side, HEAD
  <2>3. B[HEAD] = {HEAD} \cup B[L[HEAD][1]] \cup B[L[HEAD][0]]
    BY <1>2, <1>3, BelowOnce
  <2>4. h = HEAD
    BY <1>1, <1>3, <2>1, <2>2, <2>3
  <2> QED
    BY <2>4 DEF HEAD
<1>6. p \in N /\ Pushed(t, p, n, l)
  BY <1>5 DEF Placed
<1>7. PICK e \in {0, 1} : L[p][e] = n
  BY <1>1, <1>5 DEF Placed
<1>8. \/ R[n]
      \/ p = HEAD /\ ~IsRed(R, L[n][0]) /\ ~IsRed(R, L[n][1])
  <2>1. ~IsRed(R, L[n][l])
    BY <1>1 DEF IsRed
  <2> QED
    BY <1>1, <1>6, <2>1 DEF Pushed
<1>9. L[n][1 - l] = NIL
  <2>1. PICK o : o = L[n][1 - l]
    OBVIOUS
  <2>2. SUFFICES ASSUME o # NIL PROVE FALSE
    BY <2>1
  <2>3. o \in N /\ o # HEAD
    <3>1. L[n][1 - l] \in N \cup {NIL} /\ L[n][1 - l] # HEAD
      BY <1>2, <1>4 DEF Typed
    <3> QED
      BY <2>1, <2>2, <3>1
  <2>4. ~R[o]
    <3>1. R[n] => ~IsRed(R, o)
      BY <1>2, <1>4, <2>1 DEF NoRedRed
    <3>2. ~IsRed(R, L[n][0]) /\ ~IsRed(R, L[n][1]) => ~IsRed(R, o)
      <4>1. 1 - l = 0 \/ 1 - l = 1
        BY <1>4
      <4> QED
        BY <2>1, <4>1
    <3> QED
      BY <1>8, <2>2, <3>1, <3>2 DEF IsRed
  <2>5. H \in [N \cup {NIL} -> Nat] /\ H[NIL] = 0
    BY <1>2 DEF Even
  <2>6. H[o] = H[L[o][0]] + 1 /\ L[o][0] \in N \cup {NIL}
    BY <1>2, <2>3, <2>4 DEF Even, Typed
  <2>7. /\ H[n] = IF R[n] THEN H[L[n][l]] ELSE H[L[n][l]] + 1
        /\ H[n] = IF R[n] THEN H[o] ELSE H[o] + 1
    BY <1>2, <1>4, <1>5, <2>1 DEF Even
  <2>8. H[o] \in Nat /\ H[L[o][0]] \in Nat /\ H[L[n][l]] = 0
    BY <1>1, <2>3, <2>5, <2>6
  <2>9. H[o] = 0
    BY <2>7, <2>8
  <2> QED
    BY <2>6, <2>8, <2>9
<1>10. L[n][0] = NIL /\ L[n][1] = NIL
  <2>1. (l = 0 /\ 1 - l = 1) \/ (l = 1 /\ 1 - l = 0)
    BY <1>4
  <2> QED
    BY <1>1, <1>9, <2>1
<1>11. B[n] = {n}
  <2>1. B[n] = {n} \cup B[L[n][0]] \cup B[L[n][1]]
    BY <1>2, BelowOnce
  <2> QED
    BY <1>3, <1>10, <2>1
<1>12. /\ n \in B[HEAD] /\ h \in B[HEAD] /\ h \in Int /\ n \in Int
       /\ 0 \in {0, 1} /\ 1 \in {0, 1}
  BY <1>3
<1>13. \A a \in N : \A d \in {0, 1} : n \in B[L[a][d]] => Heading(d, a, h, h)
  BY <1>1 DEF Path
<1>14. \A a \in N : \A d \in {0, 1} : \A m \in B[L[a][d]] : m \in N /\ Beyond(d, a, m)
  BY <1>2 DEF Ordered, Typed
<1>15. n = h \/ n \in B[L[h][0]]
  <2>1. CASE h \in B[n]
    BY <1>11, <2>1
  <2>2. CASE n \in B[h]
    <3>1. B[h] = {h} \cup B[L[h][0]] \cup B[L[h][1]]
      BY <1>2, BelowOnce
    <3>2. n \notin B[L[h][1]]
      BY <1>12, <1>13 DEF Heading
    <3> QED
      BY <2>2, <3>1, <3>2
  <2>3. ASSUME NEW a \in N, NEW f \in {0, 1}, n \in B[L[a][f]], h \in B[L[a][1 - f]] PROVE FALSE
    <3>1. 1 - f \in {0, 1} /\ ((f = 0 /\ 1 - f = 1) \/ (f = 1 /\ 1 - f = 0))
      OBVIOUS
    <3>2. Heading(f, a, h, h) /\ Beyond(1 - f, a, h) /\ a \in Int
      BY <1>3, <1>13, <1>14, <2>3, <3>1
    <3> QED
      BY <1>12, <3>1, <3>2 DEF Heading, Beyond
  <2> QED
    BY <1>2, <1>3, <1>12, <2>1, <2>2, <2>3, Parting
<1>16. \A m \in B[L[h][0]] : m <= n
  <2>1. SUFFICES ASSUME NEW m \in B[L[h][0]], ~(m <= n) PROVE FALSE
    OBVIOUS
  <2>2. m \in N /\ m \in Int /\ m < h /\ n < m
    <3>1. m \in N /\ Beyond(0, h, m)
      BY <1>12, <1>14
    <3> QED
      BY <1>3, <1>12, <2>1, <3>1 DEF Beyond
  <2>3. CASE m \in B[n]
    BY <1>11, <1>12, <2>2, <2>3
  <2>4. CASE n \in B[m]
    <3>1. B[m] = {m} \cup B[L[m][0]] \cup B[L[m][1]]
      BY <1>2, <2>2, BelowOnce
    <3>2. n # m
      BY <1>12, <2>2
    <3>3. n \notin B[L[m][0]]
      BY <1>12, <1>13, <2>2 DEF Heading
    <3>4. n \notin B[L[m][1]]
      BY <1>12, <1>14, <2>2 DEF Beyond
    <3> QED
      BY <2>4, <3>1, <3>2, <3>3, <3>4
  <2>5. ASSUME NEW a \in N, NEW f \in {0, 1}, m \in B[L[a][f]], n \in B[L[a][1 - f]] PROVE FALSE
    <3>1. 1 - f \in {0, 1} /\ ((f = 0 /\ 1 - f = 1) \/ (f = 1 /\ 1 - f = 0))
      OBVIOUS
    <3>2. Heading(1 - f, a, h, h) /\ Beyond(f, a, m) /\ Beyond(1 - f, a, n) /\ a \in Int
      BY <1>3, <1>13, <1>14, <2>5, <3>1
    <3>3. CASE f = 1
      <4>1. h <= a /\ a < m
        BY <3>1, <3>2, <3>3 DEF Heading, Beyond
      <4> QED
        BY <1>12, <2>2, <3>2, <4>1
    <3>4. CASE f = 0
      <4>1. m < a /\ a < n
        BY <3>1, <3>2, <3>4 DEF Beyond
      <4> QED
        BY <1>12, <2>2, <3>2, <4>1
    <3> QED
      BY <3>1, <3>3, <3>4
  <2>6. m \in B[HEAD]
    BY <1>3, <2>2
  <2>7. \/ m \in B[n] \/ n \in B[m]
        \/ \E a \in N : \E f \in {0, 1} : m \in B[L[a][f]] /\ n \in B[L[a][1 - f]]
    <3>1. HEAD \in N /\ n \in B[HEAD]
      BY <1>3, <1>12
    <3> QED
      BY <1>2, <2>6, <3>1, Parting
  <2> QED
    BY <2>3, <2>4, <2>5, <2>7
<1> QED
  BY <1>1, <1>5, <1>6, <1>7, <1>8, <1>10, <1>15, <1>16 DEF LastNode


\* A leaf that is red, or the root, can be cut off.
Cut(N, L, R, M, C, p, e, n) ==
  /\ M = [m \in N \ {n} |-> [d \in {0, 1} |-> IF m = p /\ d = e THEN NIL ELSE L[m][d]]]
  /\ C = [m \in N \ {n} |-> R[m]]

Fits(N, L, B, h, n) ==
  /\ \A a \in N : \A d \in {0, 1} : h \in B[L[a][d]] => Beyond(d, a, n)
  /\ \A d \in {0, 1} : \A m \in B[L[h][d]] : Beyond(d, n, m)

LEMMA CutSound ==
  ASSUME NEW N, NEW t, NEW B, NEW H, Tidy(N, t, B, H), NEW h \in Nat, h \in N,
         NEW p, NEW n, LastNode(N, t, B, h, p, n), NEW e \in {0, 1}, t.link[p][e] = n,
         NEW M, NEW C, Cut(N, t.link, t.red, M, C, p, e, n)
  PROVE  \E D, K : /\ Sound(N \ {n}, M, C, D, K) /\ NoRedRed(N \ {n}, M, C)
                   /\ n = h \/ Fits(N \ {n}, M, D, h, n)
<1> DEFINE S == N \ {n}
<1>1. PICK L, R : L = t.link /\ R = t.red
  OBVIOUS
<1>2. Typed(N, L, R, B, H) /\ Ordered(N, L, B) /\ NoRedRed(N, L, R) /\ Even(N, L, R, H)
  BY <1>1, SoundTypes DEF Tidy, Sound
<1>3. /\ N \subseteq Int /\ NIL \notin N /\ IsFiniteSet(N) /\ HEAD \in N /\ ~R[HEAD]
      /\ L \in [N -> [{0, 1} -> N \cup {NIL}]]
      /\ B \in [N \cup {NIL} -> SUBSET N] /\ B[NIL] = {} /\ B[HEAD] = N
      /\ R \in [N -> BOOLEAN] /\ H \in [N \cup {NIL} -> Nat] /\ H[NIL] = 0
      /\ L[HEAD][0] = NIL
      /\ \A m \in N : \A d \in {0, 1} : L[m][d] \in N \cup {NIL}
  BY <1>2 DEF Typed
<1>4. /\ n \in N /\ n # HEAD /\ p \in N /\ L[p][e] = n
      /\ L[n][0] = NIL /\ L[n][1] = NIL
      /\ R[n] \/ p = HEAD
      /\ n = h \/ n \in B[L[h][0]]
      /\ \A m \in B[L[h][0]] : m <= n
  BY <1>1 DEF LastNode
<1>5. p \in S /\ HEAD \in S
  <2>1. L[p][e] # p
    BY <1>2, <1>4 DEF Typed
  <2> QED
    BY <1>3, <1>4, <2>1
<1>6. \A m \in N : \A d \in {0, 1} : L[m][d] = n => m = p /\ d = e
  <2>1. \A m, k \in N : \A d, f \in {0, 1} :
          L[m][d] = L[k][f] /\ L[m][d] # NIL => m = k /\ d = f
    BY <1>2 DEF Ordered
  <2>2. n # NIL
    BY <1>3, <1>4
  <2> QED
    BY <1>4, <2>1, <2>2
<1>7. /\ M \in [S -> [{0, 1} -> S \cup {NIL}]] /\ M[p][e] = NIL
      /\ \A m \in S : \A d \in {0, 1} : /\ M[m][d] \in S \cup {NIL}
                                        /\ (m = p /\ d = e) \/ M[m][d] = L[m][d]
  <2>1. M = [m \in S |-> [d \in {0, 1} |-> IF m = p /\ d = e THEN NIL ELSE L[m][d]]]
    BY <1>1 DEF Cut
  <2>2. \A m \in S : M[m] = [d \in {0, 1} |-> IF m = p /\ d = e THEN NIL ELSE L[m][d]]
    BY <2>1
  <2>3. ASSUME NEW m \in S PROVE M[m] \in [{0, 1} -> S \cup {NIL}]
    <3> DEFINE new(d) == IF m = p /\ d = e THEN NIL ELSE L[m][d]
    <3>1. ASSUME NEW d \in {0, 1} PROVE new(d) \in S \cup {NIL}
      <4>1. L[m][d] \in N \cup {NIL}
        BY <1>3
      <4>2. L[m][d] = n => m = p /\ d = e
        BY <1>6
      <4> QED
        BY <4>1, <4>2
    <3>2. M[m] = [d \in {0, 1} |-> new(d)]
      BY <2>2
    <3> HIDE DEF new
    <3> QED
      BY <3>1, <3>2
  <2>4. M \in [S -> [{0, 1} -> S \cup {NIL}]]
    BY <2>1, <2>3
  <2>5. \A m \in S : \A d \in {0, 1} : M[m][d] = IF m = p /\ d = e THEN NIL ELSE L[m][d]
    BY ZenonT(60), <2>2
  <2>6. \A m \in S : \A d \in {0, 1} : M[m][d] \in S \cup {NIL}
    BY <2>3
  <2> QED
    BY <1>5, <2>4, <2>5, <2>6
<1>8. C \in [S -> BOOLEAN] /\ \A m \in S : C[m] = R[m]
  BY <1>1, <1>3 DEF Cut
<1>9. PICK D, K : /\ D = [m \in S \cup {NIL} |-> B[m] \ {n}]
                  /\ K = [m \in S \cup {NIL} |-> H[m]]
  OBVIOUS
<1>10. /\ D \in [S \cup {NIL} -> SUBSET S] /\ D[NIL] = {}
       /\ \A m \in S \cup {NIL} : D[m] = B[m] \ {n}
       /\ K \in [S \cup {NIL} -> Nat] /\ K[NIL] = 0
       /\ \A m \in S \cup {NIL} : K[m] = H[m]
  BY <1>3, <1>9
<1>11. B[n] = {n}
  <2>1. B[n] = {n} \cup B[L[n][0]] \cup B[L[n][1]]
    BY <1>2, <1>4, BelowOnce
  <2> QED
    BY <1>3, <1>4, <2>1
<1>12. \A m \in S : \A d \in {0, 1} : D[M[m][d]] = B[L[m][d]] \ {n}
  <2>1. SUFFICES ASSUME NEW m \in S, NEW d \in {0, 1} PROVE D[M[m][d]] = B[L[m][d]] \ {n}
    OBVIOUS
  <2>2. CASE m = p /\ d = e
    BY <1>4, <1>7, <1>10, <1>11, <2>2
  <2>3. CASE ~(m = p /\ d = e)
    <3>1. M[m][d] = L[m][d] /\ M[m][d] \in S \cup {NIL}
      BY <1>7, <2>3
    <3> QED
      BY <1>10, <3>1
  <2> QED
    BY <2>2, <2>3
<1>13. Ordered(S, M, D)
  <2>1. S \subseteq Int /\ NIL \notin S /\ IsFiniteSet(S)
    BY <1>3, FS_Subset
  <2>2. \A m \in S : \A d, f \in {0, 1} : d # f => D[m] = {m} \cup D[M[m][d]] \cup D[M[m][f]]
    <3>1. SUFFICES ASSUME NEW m \in S, NEW d \in {0, 1}, NEW f \in {0, 1}, d # f
                   PROVE  D[m] = {m} \cup D[M[m][d]] \cup D[M[m][f]]
      OBVIOUS
    <3>2. B[m] = {m} \cup B[L[m][d]] \cup B[L[m][f]]
      BY <1>2, <3>1 DEF Ordered
    <3>3. D[m] = B[m] \ {n} /\ m # n
      BY <1>10, <3>1
    <3>4. D[M[m][d]] = B[L[m][d]] \ {n} /\ D[M[m][f]] = B[L[m][f]] \ {n}
      BY <1>12
    <3> QED
      BY <3>2, <3>3, <3>4
  <2>3. \A m \in S : \A d \in {0, 1} : \A x \in D[M[m][d]] : Beyond(d, m, x)
    <3>1. \A m \in N : \A d \in {0, 1} : \A x \in B[L[m][d]] : Beyond(d, m, x)
      BY <1>2 DEF Ordered
    <3> QED
      BY <1>12, <3>1
  <2>4. \A m, k \in S : \A d, f \in {0, 1} :
          M[m][d] = M[k][f] /\ M[m][d] # NIL => m = k /\ d = f
    <3>1. \A m, k \in N : \A d, f \in {0, 1} :
            L[m][d] = L[k][f] /\ L[m][d] # NIL => m = k /\ d = f
      BY <1>2 DEF Ordered
    <3>2. SUFFICES ASSUME NEW m \in S, NEW k \in S, NEW d \in {0, 1}, NEW f \in {0, 1},
                          M[m][d] = M[k][f], M[m][d] # NIL
                   PROVE  m = k /\ d = f
      OBVIOUS
    <3>3. M[m][d] = L[m][d] /\ M[k][f] = L[k][f]
      BY <1>7, <3>2
    <3>4. m \in N /\ k \in N
      BY <1>3
    <3>5. L[m][d] = L[k][f] /\ L[m][d] # NIL
      BY <3>2, <3>3
    <3> HIDE DEF S
    <3> QED
      BY <3>1, <3>4, <3>5
  <2> QED
    BY <1>7, <1>10, <2>1, <2>2, <2>3, <2>4 DEF Ordered
<1>14. Even(S, M, C, K)
  <2>1. SUFFICES ASSUME NEW m \in S \ {HEAD}, NEW d \in {0, 1}
                 PROVE  K[m] = IF C[m] THEN K[M[m][d]] ELSE K[M[m][d]] + 1
    BY <1>8, <1>10 DEF Even
  <2>2. H[m] = IF R[m] THEN H[L[m][d]] ELSE H[L[m][d]] + 1
    BY <1>2, <2>1 DEF Even
  <2>3. K[m] = H[m] /\ C[m] = R[m]
    BY <1>8, <1>10, <2>1
  <2>4. K[M[m][d]] = H[L[m][d]]
    <3>1. CASE m = p /\ d = e
      <4>1. R[n]
        BY <1>4, <2>1, <3>1
      <4>2. H[n] = H[L[n][0]]
        BY <1>2, <1>4, <4>1 DEF Even
      <4> QED
        BY <1>3, <1>4, <1>7, <1>10, <3>1, <4>2
    <3>2. CASE ~(m = p /\ d = e)
      <4>1. M[m][d] = L[m][d] /\ M[m][d] \in S \cup {NIL}
        BY <1>7, <2>1, <3>2
      <4> QED
        BY <1>10, <4>1
    <3> QED
      BY <3>1, <3>2
  <2> QED
    BY <2>2, <2>3, <2>4
<1>15. Headed(S, M, C, D)
  <2>1. M[HEAD][0] = NIL
    BY <1>3, <1>5, <1>7
  <2> QED
    BY <1>3, <1>5, <1>8, <1>10, <2>1 DEF Headed
<1>16. NoRedRed(S, M, C)
  <2>1. SUFFICES ASSUME NEW m \in S, NEW d \in {0, 1}, C[m], IsRed(C, M[m][d]) PROVE FALSE
    BY DEF NoRedRed
  <2>2. M[m][d] # NIL /\ M[m][d] \in S /\ C[M[m][d]]
    BY <1>7, <2>1 DEF IsRed
  <2>3. M[m][d] = L[m][d]
    BY <1>7, <2>2
  <2>4. R[m] /\ IsRed(R, L[m][d])
    BY <1>8, <2>1, <2>2, <2>3 DEF IsRed
  <2> QED
    BY <1>2, <2>4 DEF NoRedRed
<1>17. n = h \/ Fits(S, M, D, h, n)
  <2>1. SUFFICES ASSUME n # h PROVE Fits(S, M, D, h, n)
    OBVIOUS
  <2>2. /\ n \in B[L[h][0]] /\ h \in S /\ 0 \in {0, 1} /\ 1 \in {0, 1} /\ n \in Int /\ h \in Int
        /\ \A m \in N : \A d \in {0, 1} : \A x \in B[L[m][d]] : Beyond(d, m, x) /\ x \in N
    BY <1>2, <1>3, <1>4, <2>1 DEF Ordered
  <2>3. n \in B[h]
    <3>1. B[L[h][0]] \subseteq B[h]
      BY <1>2, <2>2, BelowOnce
    <3> QED
      BY <2>2, <3>1
  <2>4. ASSUME NEW a \in S, NEW d \in {0, 1}, h \in D[M[a][d]] PROVE Beyond(d, a, n)
    <3>1. h \in B[L[a][d]] /\ L[a][d] \in N \cup {NIL}
      BY <1>3, <1>12, <2>4
    <3>2. B[h] \subseteq B[L[a][d]]
      BY <1>2, <3>1, BelowBelow
    <3> QED
      BY <2>2, <2>3, <3>2
  <2>5. ASSUME NEW d \in {0, 1}, NEW m \in D[M[h][d]] PROVE Beyond(d, n, m)
    <3>1. m \in B[L[h][d]] /\ m # n
      BY <1>12, <2>2, <2>5
    <3>2. m \in N /\ m \in Int /\ Beyond(d, h, m)
      BY <1>3, <2>2, <3>1
    <3>3. CASE d = 0
      <4>1. m <= n
        BY <1>4, <3>1, <3>3
      <4> QED
        BY <2>2, <3>1, <3>2, <3>3, <4>1 DEF Beyond
    <3>4. CASE d = 1
      <4>1. Beyond(0, h, n)
        BY <2>2
      <4> QED
        BY <2>2, <3>2, <3>4, <4>1 DEF Beyond
    <3> QED
      BY <3>3, <3>4
  <2> QED
    BY <2>4, <2>5 DEF Fits
<1> QED
  BY <1>13, <1>14, <1>15, <1>16, <1>17 DEF Sound


\* The nodes of N go by other names in M, in the same order: nm gives the new
\* name of a node and ol the old one.
Renaming(N, L, B, M, nm, ol) ==
  /\ M \subseteq Int /\ NIL \notin M /\ IsFiniteSet(M) /\ HEAD \in M
  /\ nm \in [N \cup {NIL} -> M \cup {NIL}] /\ ol \in [M \cup {NIL} -> N \cup {NIL}]
  /\ \A c \in N \cup {NIL} : ol[nm[c]] = c
  /\ \A c \in M \cup {NIL} : nm[ol[c]] = c
  /\ nm[NIL] = NIL /\ ol[NIL] = NIL /\ nm[HEAD] = HEAD /\ ol[HEAD] = HEAD
  /\ \A a \in N : \A d \in {0, 1} : \A m \in B[L[a][d]] : Beyond(d, nm[a], nm[m])

RenamedLinks(L, R, M, nm, ol, K, C) ==
  /\ K = [m \in M |-> [d \in {0, 1} |-> nm[L[ol[m]][d]]]]
  /\ C = [m \in M |-> R[ol[m]]]

LEMMA Renamed ==
  ASSUME NEW N, NEW L, NEW R, NEW B, NEW H, Sound(N, L, R, B, H), NoRedRed(N, L, R),
         NEW M, NEW nm, NEW ol, Renaming(N, L, B, M, nm, ol),
         NEW K, NEW C, RenamedLinks(L, R, M, nm, ol, K, C)
  PROVE  \E D, G : Sound(M, K, C, D, G) /\ NoRedRed(M, K, C)
<1>1. Typed(N, L, R, B, H) /\ Ordered(N, L, B) /\ Even(N, L, R, H)
  BY SoundTypes DEF Sound
<1>2. /\ NIL \notin N /\ HEAD \in N /\ ~R[HEAD] /\ L[HEAD][0] = NIL
      /\ B \in [N \cup {NIL} -> SUBSET N] /\ B[NIL] = {} /\ B[HEAD] = N
      /\ R \in [N -> BOOLEAN] /\ H \in [N \cup {NIL} -> Nat] /\ H[NIL] = 0
      /\ \A m \in N : \A d \in {0, 1} : L[m][d] \in N \cup {NIL}
  BY <1>1 DEF Typed
<1>3. /\ M \subseteq Int /\ NIL \notin M /\ IsFiniteSet(M) /\ HEAD \in M
      /\ nm \in [N \cup {NIL} -> M \cup {NIL}] /\ ol \in [M \cup {NIL} -> N \cup {NIL}]
      /\ \A c \in N \cup {NIL} : ol[nm[c]] = c
      /\ \A c \in M \cup {NIL} : nm[ol[c]] = c
      /\ nm[NIL] = NIL /\ ol[NIL] = NIL /\ nm[HEAD] = HEAD /\ ol[HEAD] = HEAD
      /\ \A a \in N : \A d \in {0, 1} : \A m \in B[L[a][d]] : Beyond(d, nm[a], nm[m])
  BY DEF Renaming
<1>4. \A m \in M : ol[m] \in N /\ nm[ol[m]] = m
  <2>1. TAKE m \in M
  <2>2. ol[m] \in N \cup {NIL} /\ nm[ol[m]] = m /\ m # NIL
    BY <1>3
  <2>3. ol[m] # NIL
    BY <1>3, <2>2
  <2> QED
    BY <2>2, <2>3
<1>5. \A c \in N : nm[c] \in M /\ ol[nm[c]] = c
  <2>1. TAKE c \in N
  <2>2. nm[c] \in M \cup {NIL} /\ ol[nm[c]] = c /\ c # NIL
    BY <1>2, <1>3
  <2>3. nm[c] # NIL
    BY <1>3, <2>2
  <2> QED
    BY <2>2, <2>3
<1>6. \A m \in M : \A d \in {0, 1} :
        /\ K[m][d] = nm[L[ol[m]][d]] /\ K[m][d] \in M \cup {NIL}
        /\ ol[K[m][d]] = L[ol[m]][d] /\ L[ol[m]][d] \in N \cup {NIL}
  <2>1. TAKE m \in M
  <2>2. TAKE d \in {0, 1}
  <2>3. K[m] = [f \in {0, 1} |-> nm[L[ol[m]][f]]]
    BY DEF RenamedLinks
  <2>4. K[m][d] = nm[L[ol[m]][d]]
    BY <2>3
  <2>5. L[ol[m]][d] \in N \cup {NIL}
    BY <1>2, <1>4
  <2> QED
    BY <1>3, <2>4, <2>5
<1>7. K \in [M -> [{0, 1} -> M \cup {NIL}]]
  <2>1. ASSUME NEW m \in M PROVE K[m] \in [{0, 1} -> M \cup {NIL}]
    <3>1. K[m] = [f \in {0, 1} |-> nm[L[ol[m]][f]]]
      BY DEF RenamedLinks
    <3>2. \A f \in {0, 1} : nm[L[ol[m]][f]] \in M \cup {NIL}
      BY <1>6
    <3> QED
      BY <3>1, <3>2
  <2> QED
    BY <2>1 DEF RenamedLinks
<1> DEFINE below(m) == {x \in M : ol[x] \in B[ol[m]]}
<1>8. PICK D, G : /\ D = [m \in M \cup {NIL} |-> below(m)]
                  /\ G = [m \in M \cup {NIL} |-> H[ol[m]]]
  OBVIOUS
<1>9. /\ D \in [M \cup {NIL} -> SUBSET M]
      /\ \A m \in M \cup {NIL} : \A x : x \in D[m] <=> x \in M /\ ol[x] \in B[ol[m]]
  <2>1. \A m \in M \cup {NIL} : below(m) \in SUBSET M
    OBVIOUS
  <2>2. \A m : \A x : x \in below(m) <=> x \in M /\ ol[x] \in B[ol[m]]
    OBVIOUS
  <2> HIDE DEF below
  <2>3. D \in [M \cup {NIL} -> SUBSET M] /\ \A m \in M \cup {NIL} : D[m] = below(m)
    BY <1>8, <2>1
  <2> QED
    BY <2>2, <2>3
<1>10. D[NIL] = {}
  <2>1. NIL \in M \cup {NIL} /\ B[ol[NIL]] = {}
    BY <1>2, <1>3
  <2>2. PICK S : S = D[NIL]
    OBVIOUS
  <2>3. \A x : x \notin S
    BY <1>9, <2>1, <2>2
  <2> QED
    BY <2>2, <2>3
<1>11. D[HEAD] = M
  <2>1. HEAD \in M \cup {NIL} /\ B[ol[HEAD]] = N
    BY <1>2, <1>3
  <2>2. PICK S : S = D[HEAD]
    OBVIOUS
  <2>3. \A x : x \in S <=> x \in M
    BY <1>4, <1>9, <2>1, <2>2
  <2> QED
    BY <2>2, <2>3
<1>12. /\ C \in [M -> BOOLEAN] /\ \A m \in M : C[m] = R[ol[m]]
  BY <1>2, <1>4 DEF RenamedLinks
<1>13. /\ G \in [M \cup {NIL} -> Nat] /\ \A m \in M \cup {NIL} : G[m] = H[ol[m]]
  BY <1>2, <1>3, <1>8
<1>14. \A m \in M : \A d \in {0, 1} : \A x :
         x \in D[K[m][d]] <=> x \in M /\ ol[x] \in B[L[ol[m]][d]]
  BY <1>6, <1>9
<1>15. /\ \A n \in N : \A d, e \in {0, 1} :
            d # e => B[n] = {n} \cup B[L[n][d]] \cup B[L[n][e]]
       /\ \A m, n \in N : \A d, e \in {0, 1} :
            L[m][d] = L[n][e] /\ L[m][d] # NIL => m = n /\ d = e
  BY <1>1 DEF Ordered
<1>16. Ordered(M, K, D)
  <2>1. \A m \in M : \A d, e \in {0, 1} : d # e => D[m] = {m} \cup D[K[m][d]] \cup D[K[m][e]]
    <3>1. SUFFICES ASSUME NEW m \in M, NEW d \in {0, 1}, NEW e \in {0, 1}, d # e, NEW x
                   PROVE  x \in D[m] <=> x = m \/ x \in D[K[m][d]] \/ x \in D[K[m][e]]
      OBVIOUS
    <3>2. PICK y : y = ol[m]
      OBVIOUS
    <3>3. y \in N /\ B[y] = {y} \cup B[L[y][d]] \cup B[L[y][e]]
      BY <1>4, <1>15, <3>1, <3>2
    <3>4. x \in D[m] <=> x \in M /\ ol[x] \in B[y]
      BY <1>9, <3>2
    <3>5. /\ x \in D[K[m][d]] <=> x \in M /\ ol[x] \in B[L[y][d]]
          /\ x \in D[K[m][e]] <=> x \in M /\ ol[x] \in B[L[y][e]]
      BY <1>14, <3>2
    <3>6. x \in M => (ol[x] = y <=> x = m)
      BY <1>4, <3>2
    <3> QED
      BY <3>3, <3>4, <3>5, <3>6
  <2>2. \A m \in M : \A d \in {0, 1} : \A x \in D[K[m][d]] : Beyond(d, m, x)
    <3>1. SUFFICES ASSUME NEW m \in M, NEW d \in {0, 1}, NEW x \in D[K[m][d]] PROVE Beyond(d, m, x)
      OBVIOUS
    <3>2. x \in M /\ ol[x] \in B[L[ol[m]][d]] /\ ol[m] \in N
      BY <1>4, <1>14
    <3>3. Beyond(d, nm[ol[m]], nm[ol[x]])
      BY <1>3, <3>2
    <3> QED
      BY <1>4, <3>2, <3>3
  <2>3. \A m, k \in M : \A d, e \in {0, 1} :
          K[m][d] = K[k][e] /\ K[m][d] # NIL => m = k /\ d = e
    <3>1. SUFFICES ASSUME NEW m \in M, NEW k \in M, NEW d \in {0, 1}, NEW e \in {0, 1},
                          K[m][d] = K[k][e], K[m][d] # NIL
                   PROVE  m = k /\ d = e
      OBVIOUS
    <3>2. L[ol[m]][d] = L[ol[k]][e] /\ L[ol[m]][d] # NIL
      BY <1>3, <1>6, <3>1
    <3>3. ol[m] = ol[k] /\ d = e
      <4>1. ol[m] \in N /\ ol[k] \in N
        BY <1>4, <3>1
      <4> QED
        BY <1>15, <3>1, <3>2, <4>1
    <3> QED
      BY <1>4, <3>3
  <2> QED
    <3>1. D \in [M \cup {NIL} -> SUBSET M]
      BY <1>9
    <3>2. M \subseteq Int /\ NIL \notin M /\ IsFiniteSet(M)
      BY <1>3
    <3> HIDE DEF below
    <3> QED
      BY <1>7, <1>10, <2>1, <2>2, <2>3, <3>1, <3>2 DEF Ordered
<1>17. Even(M, K, C, G)
  <2>1. G[NIL] = 0
    <3>1. G[NIL] = H[ol[NIL]]
      BY <1>13
    <3> QED
      BY <1>2, <1>3, <3>1
  <2>2. ASSUME NEW m \in M \ {HEAD}, NEW d \in {0, 1}
        PROVE  G[m] = IF C[m] THEN G[K[m][d]] ELSE G[K[m][d]] + 1
    <3>1. ol[m] \in N /\ ol[m] # HEAD
      BY <1>3, <1>4, <2>2
    <3>2. H[ol[m]] = IF R[ol[m]] THEN H[L[ol[m]][d]] ELSE H[L[ol[m]][d]] + 1
      BY <1>1, <3>1 DEF Even
    <3>3. G[m] = H[ol[m]] /\ G[K[m][d]] = H[L[ol[m]][d]] /\ C[m] = R[ol[m]]
      BY <1>6, <1>12, <1>13
    <3> QED
      BY <3>2, <3>3
  <2> QED
    BY <1>12, <1>13, <2>1, <2>2 DEF Even
<1>18. Headed(M, K, C, D)
  <2>1. K[HEAD][0] = NIL
    BY <1>2, <1>3, <1>6
  <2>2. ~C[HEAD]
    BY <1>2, <1>3, <1>12
  <2> QED
    BY <1>3, <1>11, <2>1, <2>2 DEF Headed
<1>19. NoRedRed(M, K, C)
  <2>1. SUFFICES ASSUME NEW m \in M, NEW d \in {0, 1}, C[m], IsRed(C, K[m][d]) PROVE FALSE
    BY DEF NoRedRed
  <2>2. K[m][d] \in M /\ C[K[m][d]] /\ K[m][d] # NIL
    BY <1>6, <2>1 DEF IsRed
  <2>3. R[ol[m]] /\ R[L[ol[m]][d]] /\ ol[m] \in N /\ L[ol[m]][d] # NIL
    <3>1. C[m] = R[ol[m]] /\ C[K[m][d]] = R[ol[K[m][d]]]
      BY <1>12, <2>2
    <3>2. ol[K[m][d]] = L[ol[m]][d] /\ K[m][d] = nm[L[ol[m]][d]] /\ ol[m] \in N
      BY <1>4, <1>6
    <3>3. L[ol[m]][d] # NIL
      BY <1>3, <2>2, <3>2
    <3> QED
      BY <2>1, <2>2, <3>1, <3>2, <3>3
  <2>4. IsRed(R, L[ol[m]][d])
    BY <2>3 DEF IsRed
  <2> QED
    BY <2>3, <2>4 DEF NoRedRed
<1> QED
  BY <1>16, <1>17, <1>18, <1>19 DEF Sound


\* h gives way to n.
GivesWay(L, R, h, n, M, K, C) ==
  /\ K = [m \in M |-> [d \in {0, 1} |-> LET c == L[IF m = n THEN h ELSE m][d]
                                         IN  IF c = h THEN n ELSE c]]
  /\ C = [m \in M |-> R[IF m = n THEN h ELSE m]]

LEMMA RenameSound ==
  ASSUME NEW N, NEW L, NEW R, NEW B, NEW H, Sound(N, L, R, B, H), NoRedRed(N, L, R),
         NEW h, h \in N, h # HEAD, NEW n \in Int, n \notin N, n # NIL, Fits(N, L, B, h, n),
         NEW M, M = (N \ {h}) \cup {n}, NEW K, NEW C, GivesWay(L, R, h, n, M, K, C)
  PROVE  \E D, G : Sound(M, K, C, D, G) /\ NoRedRed(M, K, C)
<1>1. Typed(N, L, R, B, H) /\ Ordered(N, L, B)
  BY SoundTypes DEF Sound
<1>2. /\ N \subseteq Int /\ NIL \notin N /\ HEAD \in N /\ IsFiniteSet(N) /\ HEAD # NIL
      /\ B \in [N \cup {NIL} -> SUBSET N]
      /\ \A m \in N : \A d \in {0, 1} : L[m][d] \in N \cup {NIL}
  BY <1>1 DEF Typed, HEAD, NIL
<1>3. PICK nm, ol : /\ nm = [c \in N \cup {NIL} |-> IF c = h THEN n ELSE c]
                    /\ ol = [m \in M \cup {NIL} |-> IF m = n THEN h ELSE m]
  OBVIOUS
<1>4. M \subseteq Int /\ NIL \notin M /\ HEAD \in M
  BY <1>2
<1>5. IsFiniteSet(M)
  BY <1>2, FS_RemoveElement, FS_AddElement
<1>6. nm \in [N \cup {NIL} -> M \cup {NIL}] /\ ol \in [M \cup {NIL} -> N \cup {NIL}]
  <2>1. \A c \in N \cup {NIL} : (IF c = h THEN n ELSE c) \in M \cup {NIL}
    OBVIOUS
  <2>2. \A m \in M \cup {NIL} : (IF m = n THEN h ELSE m) \in N \cup {NIL}
    OBVIOUS
  <2> QED
    BY <1>3, <2>1, <2>2
<1>7. \A c \in N \cup {NIL} : ol[nm[c]] = c /\ nm[c] = IF c = h THEN n ELSE c
  <2>1. TAKE c \in N \cup {NIL}
  <2>2. nm[c] = IF c = h THEN n ELSE c
    BY <1>3
  <2>3. nm[c] \in M \cup {NIL} /\ c # n
    BY <1>6
  <2>4. ol[nm[c]] = IF nm[c] = n THEN h ELSE nm[c]
    BY <1>3, <2>3
  <2> QED
    BY <2>2, <2>3, <2>4
<1>8. \A c \in M \cup {NIL} : nm[ol[c]] = c /\ ol[c] = IF c = n THEN h ELSE c
  <2>1. TAKE c \in M \cup {NIL}
  <2>2. ol[c] = IF c = n THEN h ELSE c
    BY <1>3
  <2>3. ol[c] \in N \cup {NIL} /\ (c # n => c # h)
    BY <1>2, <1>6
  <2>4. nm[ol[c]] = IF ol[c] = h THEN n ELSE ol[c]
    BY <1>3, <2>3
  <2> QED
    BY <2>2, <2>3, <2>4
<1>9. nm[NIL] = NIL /\ ol[NIL] = NIL /\ nm[HEAD] = HEAD /\ ol[HEAD] = HEAD
  <2>1. NIL # h /\ HEAD # n
    BY <1>2
  <2> QED
    BY <1>2, <1>4, <1>7, <1>8, <2>1
<1>10. \A a \in N : \A d \in {0, 1} : \A m \in B[L[a][d]] : Beyond(d, nm[a], nm[m])
  <2>1. SUFFICES ASSUME NEW a \in N, NEW d \in {0, 1}, NEW m \in B[L[a][d]]
                 PROVE  Beyond(d, nm[a], nm[m])
    OBVIOUS
  <2>2. Beyond(d, a, m) /\ m \in N
    BY <1>1, <1>2 DEF Ordered
  <2>3. /\ nm[a] = IF a = h THEN n ELSE a
        /\ nm[m] = IF m = h THEN n ELSE m
    BY <1>7, <2>2
  <2>4. CASE a = h
    <3>1. Beyond(d, n, m)
      BY <2>4 DEF Fits
    <3>2. m # h
      BY <1>2, <2>2, <2>4, BeyondDef
    <3> QED
      BY <2>3, <2>4, <3>1, <3>2
  <2>5. CASE a # h /\ m = h
    <3>1. Beyond(d, a, n)
      BY <2>5 DEF Fits
    <3> QED
      BY <2>3, <2>5, <3>1
  <2>6. CASE a # h /\ m # h
    BY <2>2, <2>3, <2>6
  <2> QED
    BY <2>4, <2>5, <2>6
<1>11. Renaming(N, L, B, M, nm, ol)
  BY <1>4, <1>5, <1>6, <1>7, <1>8, <1>9, <1>10 DEF Renaming
<1>12. K = [m \in M |-> [d \in {0, 1} |-> nm[L[ol[m]][d]]]]
  <2>1. ASSUME NEW m \in M PROVE K[m] = [d \in {0, 1} |-> nm[L[ol[m]][d]]]
    <3>1. PICK x : x = IF m = n THEN h ELSE m
      OBVIOUS
    <3>2. ol[m] = x /\ x \in N
      BY <1>8, <3>1
    <3>3. \A d \in {0, 1} : nm[L[x][d]] = IF L[x][d] = h THEN n ELSE L[x][d]
      BY <1>2, <1>7, <3>2
    <3>4. K[m] = [d \in {0, 1} |-> IF L[x][d] = h THEN n ELSE L[x][d]]
      BY <3>1 DEF GivesWay
    <3> QED
      BY <3>2, <3>3, <3>4
  <2> QED
    BY <2>1 DEF GivesWay
<1>13. C = [m \in M |-> R[ol[m]]]
  BY <1>8 DEF GivesWay
<1>14. RenamedLinks(L, R, M, nm, ol, K, C)
  BY <1>12, <1>13 DEF RenamedLinks
<1> QED
  BY <1>11, <1>14, Renamed


\* The other nodes keep their data; a key is that of some node.
Replaced(N, t, h, u) ==
  /\ \E D, K : Tidy(N \ {h}, u, D, K)
  /\ \A m \in N \ {h} : u.data[m] = t.data[m]
  /\ \A m \in N \ {h, HEAD} : \E o \in N \ {HEAD} : u.key[m] = t.key[o]

LEMMA ReplaceIs ==
  ASSUME NEW N, NEW t, NEW B, NEW H, Tidy(N, t, B, H), NEW h \in Nat, h \in N,
         NEW p, NEW n, LastNode(N, t, B, h, p, n), NEW u, u = Replace(t, p, n, h)
  PROVE  Replaced(N, t, h, u)
<1> DEFINE S == N \ {h}
           Name(c) == IF c = h THEN n ELSE c
           Old(m) == IF m = n THEN h ELSE m
<1>1. PICK L, R : L = t.link /\ R = t.red
  OBVIOUS
<1>2. /\ Typed(N, L, R, B, H) /\ Ordered(N, L, B) /\ t \in Trees(N)
      /\ L \in [N -> [{0, 1} -> N \cup {NIL}]] /\ R \in [N -> BOOLEAN]
      /\ NIL \notin N /\ NIL \in N \cup {NIL} /\ N \subseteq Int
  BY <1>1, SoundTypes DEF Tidy, Sound, Typed
<1>3. /\ n \in N /\ n # HEAD /\ p \in N /\ L[n][0] = NIL /\ L[n][1] = NIL
      /\ h \in N /\ h # HEAD /\ h # NIL /\ n # NIL
  BY <1>1, <1>2 DEF LastNode, HEAD
<1>4. PICK e \in {0, 1} : L[p][e] = n
  BY <1>1 DEF LastNode
<1>5. Side(t.link[p][1] = n) = e
  <2>1. \A m, k \in N : \A d, f \in {0, 1} :
          L[m][d] = L[k][f] /\ L[m][d] # NIL => m = k /\ d = f
    BY <1>2 DEF Ordered
  <2>2. e = 0 => L[p][1] # n
    BY <1>3, <1>4, <2>1
  <2> QED
    BY <1>1, <1>4, <2>2 DEF Side
<1>6. t.link[n][Side(t.link[n][0] = NIL)] = NIL
  BY <1>1, <1>3 DEF Side
<1>7. PICK t1 : t1 = SetLink(t, p, e, NIL)
  OBVIOUS
<1>8. /\ t1 \in Trees(N) /\ t1.red = R /\ t1.data = t.data /\ t1.key = t.key /\ t1.link[p][e] = NIL
      /\ \A m \in N : \A f \in {0, 1} : (m = p /\ f = e) \/ t1.link[m][f] = L[m][f]
  <2>1. Relinked(N, t, t1, p, e, NIL)
    BY <1>2, <1>3, <1>7, SetLinkIs
  <2> QED
    BY <1>1, <2>1 DEF Relinked
<1>9. /\ DOMAIN t1.red = N /\ t1.link \in [N -> [{0, 1} -> N \cup {NIL}]]
      /\ t.data \in [N -> Data \cup {NULL}] /\ t.key \in [N -> Keys \cup {0}]
  BY <1>2, <1>8 DEF Trees
<1>10. u = [link |-> [m \in S |-> [d \in {0, 1} |-> Name(t1.link[Old(m)][d])]],
            red  |-> [m \in S |-> t1.red[Old(m)]],
            data |-> [m \in S |-> t1.data[m]],
            key  |-> [m \in S |-> t1.key[Old(m)]]]
  <2>1. SetLink(t, p, Side(t.link[p][1] = n), t.link[n][Side(t.link[n][0] = NIL)]) = t1
    BY <1>5, <1>6, <1>7
  <2>2. DOMAIN SetLink(t, p, Side(t.link[p][1] = n), t.link[n][Side(t.link[n][0] = NIL)]).red = N
    BY <1>9, <2>1
  <2>3. u = [link |-> [m \in N \ {h} |-> [d \in {0, 1} |-> Name(t1.link[Old(m)][d])]],
             red  |-> [m \in N \ {h} |-> t1.red[Old(m)]],
             data |-> [m \in N \ {h} |-> t1.data[m]],
             key  |-> [m \in N \ {h} |-> t1.key[Old(m)]]]
    BY ZenonT(60), <2>1, <2>2 DEF Replace
  <2> QED
    BY <2>3
<1>11. /\ u = [link |-> u.link, red |-> u.red, data |-> u.data, key |-> u.key]
       /\ u.link = [m \in S |-> [d \in {0, 1} |-> Name(t1.link[Old(m)][d])]]
       /\ u.red = [m \in S |-> R[Old(m)]]
       /\ u.data = [m \in S |-> t.data[m]]
       /\ u.key = [m \in S |-> t.key[Old(m)]]
  BY <1>8, <1>10
<1>12. PICK M, C : Cut(N, L, R, M, C, p, e, n)
  BY DEF Cut
<1>13. PICK D, K : /\ Sound(N \ {n}, M, C, D, K) /\ NoRedRed(N \ {n}, M, C)
                   /\ n = h \/ Fits(N \ {n}, M, D, h, n)
  BY <1>1, <1>4, <1>12, CutSound
<1>14. \A m \in N \ {n} : M[m] = t1.link[m]
  <2>1. TAKE m \in N \ {n}
  <2>2. M[m] = [d \in {0, 1} |-> IF m = p /\ d = e THEN NIL ELSE L[m][d]]
    BY <1>12 DEF Cut
  <2>3. \A d \in {0, 1} : t1.link[m][d] = IF m = p /\ d = e THEN NIL ELSE L[m][d]
    BY <1>8
  <2>4. t1.link[m] \in [{0, 1} -> N \cup {NIL}]
    BY <1>9
  <2> QED
    BY <2>2, <2>3, <2>4
<1>15. \A m \in S : Old(m) \in N \ {n} \/ (n = h /\ Old(m) = m /\ m \in N \ {n})
  BY <1>3
<1>16. \E F, G : Sound(S, u.link, u.red, F, G) /\ NoRedRed(S, u.link, u.red)
  <2>1. CASE n = h
    <3>1. ASSUME NEW m \in S PROVE u.link[m] = M[m]
      <4>1. u.link[m] = [d \in {0, 1} |-> Name(t1.link[Old(m)][d])]
        BY <1>11
      <4>2. \A c : Name(c) = c
        BY <2>1
      <4>3. Old(m) = m /\ M[m] = t1.link[m] /\ t1.link[m] \in [{0, 1} -> N \cup {NIL}]
        BY <1>9, <1>14, <2>1
      <4> HIDE DEF Name, Old
      <4> QED
        BY <4>1, <4>2, <4>3
    <3>2. u.link = M
      <4>1. M = [m \in S |-> M[m]]
        BY <1>12, <2>1 DEF Cut
      <4>2. u.link = [m \in S |-> u.link[m]]
        BY <1>11
      <4> QED
        BY <3>1, <4>1, <4>2
    <3>3. u.red = C
      BY <1>11, <1>12, <2>1 DEF Cut
    <3> QED
      BY <1>13, <2>1, <3>2, <3>3
  <2>2. CASE n # h
    <3>1. PICK T, X, Y : T = N \ {n} /\ X = u.link /\ Y = u.red
      OBVIOUS
    <3>2. \A m \in S : X[m] = [d \in {0, 1} |-> LET c == M[IF m = n THEN h ELSE m][d]
                                                IN  IF c = h THEN n ELSE c]
      <4>1. TAKE m \in S
      <4>2. X[m] = [d \in {0, 1} |-> Name(t1.link[Old(m)][d])]
        BY <1>11, <3>1
      <4>3. M[Old(m)] = t1.link[Old(m)]
        BY <1>14, <1>15, <2>2
      <4> QED
        BY <4>2, <4>3
    <3>3. Y = [m \in S |-> C[IF m = n THEN h ELSE m]]
      <4>1. \A m \in S : R[Old(m)] = C[Old(m)]
        BY <1>12, <1>15, <2>2 DEF Cut
      <4> QED
        BY <1>11, <3>1, <4>1
    <3>4. GivesWay(M, C, h, n, S, X, Y)
      <4>1. X = [m \in S |-> X[m]]
        BY <1>11, <3>1
      <4> QED
        BY <3>2, <3>3, <4>1 DEF GivesWay
    <3>5. S = (T \ {h}) \cup {n} /\ h \in T /\ n \notin T /\ n \in Int
      BY <1>2, <1>3, <2>2, <3>1
    <3>6. Sound(T, M, C, D, K) /\ NoRedRed(T, M, C) /\ Fits(T, M, D, h, n)
      BY <1>13, <2>2, <3>1
    <3>7. PICK V : V = S
      OBVIOUS
    <3>8. \E F, G : Sound(V, X, Y, F, G) /\ NoRedRed(V, X, Y)
      BY <1>3, <3>4, <3>5, <3>6, <3>7, RenameSound
    <3> QED
      BY <3>1, <3>7, <3>8
  <2> QED
    BY <2>1, <2>2
<1>17. u \in Trees(S)
  <2>1. PICK F, G : Sound(S, u.link, u.red, F, G)
    BY <1>16
  <2>2. Typed(S, u.link, u.red, F, G)
    BY <2>1, SoundTypes
  <2>3. u.link \in [S -> [{0, 1} -> S \cup {NIL}]] /\ u.red \in [S -> BOOLEAN]
    BY <2>2 DEF Typed
  <2>4. u.data \in [S -> Data \cup {NULL}] /\ u.key \in [S -> Keys \cup {0}]
    <3>1. \A m \in S : Old(m) \in N
      BY <1>3
    <3> HIDE DEF Old
    <3> QED
      BY <1>9, <1>11, <3>1
  <2> QED
    BY <1>11, <2>3, <2>4 DEF Trees
<1>18. \A m \in S : u.data[m] = t.data[m]
  BY <1>11
<1>19. \A m \in N \ {h, HEAD} : \E o \in N \ {HEAD} : u.key[m] = t.key[o]
  <2>1. TAKE m \in N \ {h, HEAD}
  <2>2. Old(m) \in N \ {HEAD} /\ m \in S
    BY <1>3
  <2>3. u.key[m] = t.key[Old(m)]
    BY <1>11, <2>2
  <2> QED
    BY <2>2, <2>3
<1>20. \E F, G : Tidy(S, u, F, G)
  BY <1>16, <1>17 DEF Tidy
<1> HIDE DEF S
<1> QED
  BY <1>18, <1>19, <1>20 DEF Replaced, S


-----------------------------------------------------------------------------
(* What is computed from a tree. *)

\* dict_search finds the datum of h if h is a node.
IsFrom(f, t, h) ==
  f = [n \in DOMAIN t.red \cup {NIL} |->
         IF n = NIL THEN NULL
         ELSE IF n = h THEN t.data[n]
         ELSE f[t.link[n][Side(h > n)]]]

LEMMA FoundIs ==
  ASSUME NEW N, NEW t \in Trees(N), NEW B, Ordered(N, t.link, B), NEW r, r \in N \cup {NIL},
         NEW h \in Int
  PROVE  Found(t, r, h) = IF h \in B[r] THEN t.data[h] ELSE NULL
<1>1. PICK L : L = t.link
  OBVIOUS
<1>2. /\ N \subseteq Int /\ NIL \notin N /\ B[NIL] = {} /\ DOMAIN t.red = N
      /\ \A n \in N : \A d \in {0, 1} : L[n][d] \in N \cup {NIL}
      /\ \A n \in N : \A d, e \in {0, 1} : d # e => B[n] = {n} \cup B[L[n][d]] \cup B[L[n][e]]
      /\ \A n \in N : \A d \in {0, 1} : \A m \in B[L[n][d]] : Beyond(d, n, m)
  BY <1>1 DEF Ordered, Trees
<1> DEFINE val(n) == IF h \in B[n] THEN t.data[h] ELSE NULL
           f == CHOOSE g : IsFrom(g, t, h)
<1>3. \A n \in N : n # h => val(n) = val(L[n][Side(h > n)])
  <2>1. SUFFICES ASSUME NEW n \in N, n # h PROVE h \in B[n] <=> h \in B[L[n][Side(h > n)]]
    OBVIOUS
  <2>2. PICK d : d = Side(h > n)
    OBVIOUS
  <2>3. d \in {0, 1} /\ 1 - d \in {0, 1} /\ 1 - d # d /\ ~Beyond(1 - d, n, h)
    BY <1>2, <2>1, <2>2 DEF Side, Beyond
  <2>4. B[n] = {n} \cup B[L[n][d]] \cup B[L[n][1 - d]]
    BY <1>2, <2>3
  <2>5. h \notin B[L[n][1 - d]]
    BY <1>2, <2>3
  <2> QED
    BY <2>1, <2>2, <2>4, <2>5
<1>4. \A n \in N : Side(h > n) \in {0, 1}
  BY DEF Side
<1>5. IsFrom(f, t, h)
  <2>1. PICK w : w = [n \in N \cup {NIL} |-> val(n)]
    OBVIOUS
  <2>2. \A n \in N \cup {NIL} : w[n] = IF n = NIL THEN NULL
                                       ELSE IF n = h THEN t.data[n]
                                       ELSE w[t.link[n][Side(h > n)]]
    <3>1. SUFFICES ASSUME NEW n \in N \cup {NIL}
                   PROVE  w[n] = IF n = NIL THEN NULL
                                 ELSE IF n = h THEN t.data[n]
                                 ELSE w[t.link[n][Side(h > n)]]
      OBVIOUS
    <3>2. w[n] = val(n)
      BY <2>1
    <3>3. CASE n = NIL
      BY <1>2, <3>2, <3>3
    <3>4. CASE n # NIL /\ n = h
      <4>1. B[n] = {n} \cup B[L[n][0]] \cup B[L[n][1]]
        BY <1>2, <3>4
      <4> QED
        BY <3>2, <3>4, <4>1
    <3>5. CASE n # NIL /\ n # h
      <4>1. n \in N /\ L[n][Side(h > n)] \in N \cup {NIL}
        BY <1>2, <1>4, <3>5
      <4>2. w[L[n][Side(h > n)]] = val(L[n][Side(h > n)])
        BY <2>1, <4>1
      <4>3. val(n) = val(L[n][Side(h > n)])
        BY <1>3, <3>5, <4>1
      <4> HIDE DEF val
      <4> QED
        BY <1>1, <3>2, <3>5, <4>2, <4>3
    <3> QED
      BY <3>3, <3>4, <3>5
  <2>3. IsFrom(w, t, h)
    <3>1. w = [n \in N \cup {NIL} |-> w[n]]
      BY <2>1
    <3> HIDE DEF val
    <3> QED
      BY <1>2, <2>2, <3>1 DEF IsFrom
  <2> QED
    BY <2>3
<1>6. Found(t, r, h) = f[r]
  BY DEF Found, IsFrom
<1> DEFINE Q == {n \in N \cup {NIL} : f[n] = val(n)}
<1> HIDE DEF f
<1>7. \A n \in N \cup {NIL} : f[n] = IF n = NIL THEN NULL
                                     ELSE IF n = h THEN t.data[n]
                                     ELSE f[L[n][Side(h > n)]]
  BY <1>1, <1>2, <1>5 DEF IsFrom
<1>8. NIL \in Q
  BY <1>2, <1>7
<1>9. \A n \in N : L[n][0] \in Q /\ L[n][1] \in Q => n \in Q
  <2>1. SUFFICES ASSUME NEW n \in N, L[n][0] \in Q, L[n][1] \in Q PROVE f[n] = val(n)
    OBVIOUS
  <2>2. CASE n = h
    <3>1. B[n] = {n} \cup B[L[n][0]] \cup B[L[n][1]]
      BY <1>2
    <3> QED
      BY <1>2, <1>7, <2>2, <3>1
  <2>3. CASE n # h
    <3>1. f[n] = f[L[n][Side(h > n)]]
      BY <1>2, <1>7, <2>3
    <3>2. L[n][Side(h > n)] \in Q
      BY <1>4, <2>1
    <3>3. val(n) = val(L[n][Side(h > n)])
      BY <1>3, <2>3
    <3> HIDE DEF val
    <3> QED
      BY <3>1, <3>2, <3>3
  <2> QED
    BY <2>2, <2>3
<1>10. N \subseteq Q
  <2> HIDE DEF Q
  <2> QED
    BY <1>1, <1>8, <1>9, TreeInduction
<1> QED
  BY <1>6, <1>8, <1>10

\* The height the invariant gives to a tree is the one RedBlack computes.
IsHeight(f, t) ==
  f = [n \in DOMAIN t.red \cup {NIL} |->
         IF n = NIL THEN 0
         ELSE LET a == f[t.link[n][0]]
                  b == f[t.link[n][1]]
              IN  IF a # b \/ a = -1 THEN -1 ELSE a + Side(~t.red[n])]

LEMMA HeightIs ==
  ASSUME NEW N, NEW t \in Trees(N), NEW B, Ordered(N, t.link, B), HEAD \notin N,
         NEW H, Even(N, t.link, t.red, H), NEW r, r \in N \cup {NIL}
  PROVE  BlackHeight(t, r) # -1
<1>1. PICK L, R : L = t.link /\ R = t.red
  OBVIOUS
<1>2. /\ NIL \notin N /\ DOMAIN R = N
      /\ \A n \in N : \A d \in {0, 1} : L[n][d] \in N \cup {NIL}
      /\ R \in [N -> BOOLEAN]
  BY <1>1 DEF Ordered, Trees
<1>3. /\ H \in [N \cup {NIL} -> Nat] /\ H[NIL] = 0
      /\ \A n \in N : \A d \in {0, 1} : H[n] = IF R[n] THEN H[L[n][d]] ELSE H[L[n][d]] + 1
  BY <1>1 DEF Even
<1> DEFINE f == CHOOSE g : IsHeight(g, t)
           over(g, n) == LET a == g[t.link[n][0]]
                             b == g[t.link[n][1]]
                         IN  IF a # b \/ a = -1 THEN -1 ELSE a + Side(~t.red[n])
<1>4. ASSUME NEW n \in N, NEW g, g[L[n][0]] = H[L[n][0]], g[L[n][1]] = H[L[n][1]]
      PROVE  over(g, n) = H[n]
  <2>1. PICK a, b, c : a = H[L[n][0]] /\ b = H[L[n][1]] /\ c = H[n]
    OBVIOUS
  <2>2. a \in Nat /\ b \in Nat /\ c \in Nat
    BY <1>2, <1>3, <2>1
  <2>3. c = (IF R[n] THEN a ELSE a + 1) /\ c = (IF R[n] THEN b ELSE b + 1)
    BY <1>3, <2>1
  <2>4. a = b /\ a # -1
    BY <2>2, <2>3
  <2>5. over(g, n) = a + Side(~R[n])
    BY <1>1, <1>4, <2>1, <2>4
  <2>6. Side(~R[n]) = IF R[n] THEN 0 ELSE 1
    BY DEF Side
  <2> HIDE DEF over
  <2>7. CASE R[n]
    BY <2>1, <2>2, <2>3, <2>5, <2>6, <2>7
  <2>8. CASE ~R[n]
    BY <2>1, <2>2, <2>3, <2>5, <2>6, <2>8
  <2> QED
    BY <2>7, <2>8
<1>5. IsHeight(f, t)
  <2>1. \A n \in N : over(H, n) = H[n]
    BY <1>4
  <2>2. H = [n \in N \cup {NIL} |-> IF n = NIL THEN 0 ELSE over(H, n)]
    <3> HIDE DEF over
    <3>1. \A n \in N \cup {NIL} : H[n] = IF n = NIL THEN 0 ELSE over(H, n)
      BY <1>3, <2>1
    <3> QED
      BY <1>3, <3>1
  <2>3. IsHeight(H, t)
    BY ZenonT(60), <1>1, <1>2, <2>2 DEF IsHeight
  <2> QED
    BY <2>3
<1>6. BlackHeight(t, r) = f[r]
  BY DEF BlackHeight, IsHeight
<1> DEFINE Q == {n \in N \cup {NIL} : f[n] = H[n]}
<1> HIDE DEF f
<1>7. /\ f[NIL] = 0
      /\ \A n \in N : f[n] = over(f, n)
  <2>1. f = [n \in N \cup {NIL} |-> IF n = NIL THEN 0 ELSE over(f, n)]
    BY ZenonT(60), <1>1, <1>2, <1>5 DEF IsHeight
  <2> HIDE DEF over
  <2>2. \A n \in N \cup {NIL} : f[n] = IF n = NIL THEN 0 ELSE over(f, n)
    BY <2>1
  <2> QED
    BY <1>2, <2>2
<1>8. NIL \in Q
  BY <1>3, <1>7
<1>9. \A n \in N : L[n][0] \in Q /\ L[n][1] \in Q => n \in Q
  <2>1. SUFFICES ASSUME NEW n \in N, L[n][0] \in Q, L[n][1] \in Q PROVE f[n] = H[n]
    OBVIOUS
  <2>2. over(f, n) = H[n]
    BY <1>4, <2>1
  <2> HIDE DEF over
  <2> QED
    BY <1>7, <2>2
<1>10. N \subseteq Q
  <2> HIDE DEF Q
  <2> QED
    BY <1>1, <1>8, <1>9, TreeInduction
<1>11. f[r] = H[r] /\ H[r] \in Nat
  BY <1>3, <1>8, <1>10
<1> QED
  BY <1>6, <1>11


\* The elements of S in ascending order.
Ascending(o, S) ==
  /\ o \in Seq(Int) /\ S = {o[i] : i \in DOMAIN o}
  /\ \A i, j \in DOMAIN o : i < j => o[i] < o[j]

LEMMA JoinAscending ==
  ASSUME NEW o, NEW S, Ascending(o, S), NEW p, NEW T, Ascending(p, T), NEW n \in Int,
         \A x \in S : x < n, \A x \in T : n < x
  PROVE  Ascending(o \o <<n>> \o p, S \cup {n} \cup T)
<1>1. PICK q, w, k, l : q = o \o <<n>> /\ w = q \o p /\ k = Len(o) /\ l = Len(p)
  OBVIOUS
<1>2. /\ o \in Seq(Int) /\ p \in Seq(Int) /\ k \in Nat /\ l \in Nat
      /\ DOMAIN o = 1..k /\ DOMAIN p = 1..l
      /\ \A i \in 1..k : o[i] \in S /\ o[i] \in Int
      /\ \A i \in 1..l : p[i] \in T /\ p[i] \in Int
      /\ \A x \in S : \E i \in 1..k : x = o[i]
      /\ \A x \in T : \E i \in 1..l : x = p[i]
      /\ \A i, j \in 1..k : i < j => o[i] < o[j]
      /\ \A i, j \in 1..l : i < j => p[i] < p[j]
  <2>1. /\ o \in Seq(Int) /\ S = {o[i] : i \in DOMAIN o}
        /\ \A i, j \in DOMAIN o : i < j => o[i] < o[j]
    BY DEF Ascending
  <2>2. /\ p \in Seq(Int) /\ T = {p[i] : i \in DOMAIN p}
        /\ \A i, j \in DOMAIN p : i < j => p[i] < p[j]
    BY DEF Ascending
  <2>3. k \in Nat /\ DOMAIN o = 1..k /\ \A i \in 1..k : o[i] \in Int
    BY <1>1, <2>1
  <2>4. l \in Nat /\ DOMAIN p = 1..l /\ \A i \in 1..l : p[i] \in Int
    BY <1>1, <2>2
  <2> QED
    BY <2>1, <2>2, <2>3, <2>4
<1>3. /\ q \in Seq(Int) /\ Len(q) = k + 1
      /\ \A i \in 1..k : q[i] = o[i]
      /\ q[k + 1] = n
  <2>1. <<n>> \in Seq(Int) /\ Len(<<n>>) = 1 /\ <<n>>[1] = n
    OBVIOUS
  <2>2. /\ q \in Seq(Int) /\ Len(q) = k + 1
        /\ \A i \in 1..(k + 1) : q[i] = IF i <= k THEN o[i] ELSE <<n>>[i - k]
    BY <1>1, <1>2, <2>1, ConcatProperties
  <2> QED
    BY <1>2, <2>1, <2>2
<1>4. /\ w \in Seq(Int) /\ Len(w) = k + 1 + l
      /\ \A i \in 1..(k + 1 + l) : w[i] = IF i <= k + 1 THEN q[i] ELSE p[i - (k + 1)]
  BY <1>1, <1>2, <1>3, ConcatProperties
<1>5. DOMAIN w = 1..(k + 1 + l)
  BY <1>4
<1>6. /\ \A i \in 1..k : w[i] = o[i] /\ i \in DOMAIN w
      /\ w[k + 1] = n /\ k + 1 \in DOMAIN w
      /\ \A i \in 1..l : w[k + 1 + i] = p[i] /\ k + 1 + i \in DOMAIN w
  <2>1. \A i \in 1..k : w[i] = o[i] /\ i \in DOMAIN w
    BY <1>2, <1>3, <1>4, <1>5
  <2>2. w[k + 1] = n /\ k + 1 \in DOMAIN w
    BY <1>2, <1>3, <1>4, <1>5
  <2>3. \A i \in 1..l : w[k + 1 + i] = p[i] /\ k + 1 + i \in DOMAIN w
    <3>1. TAKE i \in 1..l
    <3>2. /\ k + 1 + i \in 1..(k + 1 + l) /\ ~(k + 1 + i <= k + 1)
          /\ (k + 1 + i) - (k + 1) = i
      BY <1>2
    <3> QED
      BY <1>4, <1>5, <3>2
  <2> QED
    BY <2>1, <2>2, <2>3
<1>7. \A i \in DOMAIN w : \/ i \in 1..k
                          \/ i = k + 1
                          \/ \E j \in 1..l : i = k + 1 + j
  <2>1. SUFFICES ASSUME NEW i \in 1..(k + 1 + l), ~(i \in 1..k), i # k + 1
                 PROVE  \E j \in 1..l : i = k + 1 + j
    BY <1>5
  <2>2. i - (k + 1) \in 1..l /\ i = k + 1 + (i - (k + 1))
    BY <1>2, <2>1
  <2> QED
    BY <2>2
<1>8. S \cup {n} \cup T = {w[i] : i \in DOMAIN w}
  <2>1. ASSUME NEW x \in S \cup {n} \cup T PROVE \E i \in DOMAIN w : x = w[i]
    <3>1. CASE x \in S
      BY <1>2, <1>6, <3>1
    <3>2. CASE x = n
      BY <1>6, <3>2
    <3>3. CASE x \in T
      <4>1. PICK i \in 1..l : x = p[i]
        BY <1>2, <3>3
      <4> QED
        BY <1>6, <4>1
    <3> QED
      BY <2>1, <3>1, <3>2, <3>3
  <2>2. ASSUME NEW i \in DOMAIN w PROVE w[i] \in S \cup {n} \cup T
    <3>1. CASE i \in 1..k
      BY <1>2, <1>6, <3>1
    <3>2. CASE i = k + 1
      BY <1>6, <3>2
    <3>3. ASSUME NEW j \in 1..l, i = k + 1 + j PROVE w[i] \in T
      BY <1>2, <1>6, <3>3
    <3> QED
      BY <1>7, <3>1, <3>2, <3>3
  <2> QED
    BY <2>1, <2>2
<1>9. ASSUME NEW i \in DOMAIN w, NEW j \in DOMAIN w, i < j PROVE w[i] < w[j]
  <2>1. i \in Int /\ j \in Int
    BY <1>5
  <2>2. CASE i \in 1..k
    <3>1. w[i] = o[i] /\ o[i] \in Int /\ o[i] < n
      BY <1>2, <1>6, <2>2
    <3>2. CASE j \in 1..k
      BY <1>2, <1>6, <1>9, <2>2, <3>2
    <3>3. CASE j = k + 1
      BY <1>6, <3>1, <3>3
    <3>4. ASSUME NEW b \in 1..l, j = k + 1 + b PROVE w[i] < w[j]
      <4>1. w[j] = p[b] /\ p[b] \in Int /\ n < p[b]
        BY <1>2, <1>6, <3>4
      <4> QED
        BY <3>1, <4>1
    <3> QED
      BY <1>7, <3>2, <3>3, <3>4
  <2>3. CASE i = k + 1
    <3>1. PICK b \in 1..l : j = k + 1 + b
      <4>1. j \notin 1..k /\ j # k + 1
        BY <1>2, <1>9, <2>1, <2>3
      <4> QED
        BY <1>7, <4>1
    <3>2. w[i] = n /\ w[j] = p[b] /\ n < p[b]
      BY <1>2, <1>6, <2>3, <3>1
    <3> QED
      BY <3>2
  <2>4. ASSUME NEW a \in 1..l, i = k + 1 + a PROVE w[i] < w[j]
    <3>1. PICK b \in 1..l : j = k + 1 + b
      <4>1. j \notin 1..k /\ j # k + 1
        BY <1>2, <1>9, <2>1, <2>4
      <4> QED
        BY <1>7, <4>1
    <3>2. a < b
      BY <1>2, <1>9, <2>4, <3>1
    <3> QED
      BY <1>2, <1>6, <2>4, <3>1, <3>2
  <2> QED
    BY <1>7, <2>2, <2>3, <2>4
<1> QED
  BY ZenonT(60), <1>1, <1>4, <1>8, <1>9 DEF Ascending

\* dict_foreach visits the nodes in ascending order.
IsVisit(f, t) ==
  f = [n \in DOMAIN t.red \cup {NIL} |->
         IF n = NIL THEN <<>>
         ELSE f[t.link[n][0]] \o <<n>> \o f[t.link[n][1]]]

\* Such a function exists for the nodes below c, and so for all nodes.
Visits(f, L, B, c) ==
  /\ f \in [B[c] \cup {NIL} -> Seq(Int)] /\ f[NIL] = <<>>
  /\ \A n \in B[c] : /\ L[n][0] \in B[c] \cup {NIL} /\ L[n][1] \in B[c] \cup {NIL}
                     /\ f[n] = f[L[n][0]] \o <<n>> \o f[L[n][1]]

LEMMA VisitExists ==
  ASSUME NEW N, NEW L, NEW B, Ordered(N, L, B), NEW c \in N \cup {NIL}
  PROVE  \E f : Visits(f, L, B, c)
<1>1. /\ N \subseteq Int /\ NIL \notin N /\ B[NIL] = {}
      /\ \A n \in N : \A d \in {0, 1} : L[n][d] \in N \cup {NIL}
      /\ 0 \in {0, 1} /\ 1 \in {0, 1} /\ 0 # 1
  BY DEF Ordered
<1> DEFINE Q == {n \in N \cup {NIL} : \E f : Visits(f, L, B, n)}
<1>2. NIL \in Q
  <2>1. PICK f : f = [n \in B[NIL] \cup {NIL} |-> <<>>]
    OBVIOUS
  <2>2. f \in [B[NIL] \cup {NIL} -> Seq(Int)] /\ f[NIL] = <<>>
    BY <2>1
  <2>3. Visits(f, L, B, NIL)
    BY <1>1, <2>2 DEF Visits
  <2> QED
    BY <2>3
<1>3. ASSUME NEW n \in N, L[n][0] \in Q, L[n][1] \in Q PROVE n \in Q
  <2>1. PICK a, b : a = L[n][0] /\ b = L[n][1]
    OBVIOUS
  <2>2. PICK f, g : Visits(f, L, B, a) /\ Visits(g, L, B, b)
    BY <1>3, <2>1
  <2>3. a \in N \cup {NIL} /\ b \in N \cup {NIL}
    BY <1>1, <2>1
  <2>4. /\ B[n] = {n} \cup B[a] \cup B[b] /\ B[a] \subseteq N /\ B[b] \subseteq N
        /\ n \notin B[a] /\ n \notin B[b] /\ \A m \in B[a] : m \notin B[b]
        /\ a # NIL => a \in B[a]
        /\ b # NIL => b \in B[b]
    <3>1. /\ n \notin B[a] /\ B[n] = {n} \cup B[a] \cup B[b] /\ B[n] \subseteq N
          /\ \A m \in B[a] : m \notin B[b]
          /\ a # NIL => a \in B[a]
      BY <1>1, <2>1, BelowOnce
    <3>2. n \notin B[b] /\ (b # NIL => b \in B[b])
      BY <1>1, <2>1, BelowOnce
    <3> QED
      BY <3>1, <3>2
  <2> DEFINE val(m) == IF m = NIL THEN <<>>
                       ELSE IF m = n THEN f[a] \o <<n>> \o g[b]
                       ELSE IF m \in B[a] THEN f[m] ELSE g[m]
  <2>5. PICK w : w = [m \in B[n] \cup {NIL} |-> val(m)]
    OBVIOUS
  <2>6. /\ f \in [B[a] \cup {NIL} -> Seq(Int)] /\ f[NIL] = <<>>
        /\ g \in [B[b] \cup {NIL} -> Seq(Int)] /\ g[NIL] = <<>>
    BY <2>2 DEF Visits
  <2>7. f[a] \in Seq(Int) /\ g[b] \in Seq(Int) /\ <<n>> \in Seq(Int)
    <3>1. a \in B[a] \cup {NIL} /\ b \in B[b] \cup {NIL}
      BY <2>4
    <3>2. n \in Int
      BY <1>1
    <3> QED
      BY <2>6, <3>1, <3>2
  <2>8. f[a] \o <<n>> \o g[b] \in Seq(Int)
    BY <2>7, ConcatProperties
  <2>9. \A m \in B[n] \cup {NIL} : val(m) \in Seq(Int)
    <3>1. TAKE m \in B[n] \cup {NIL}
    <3>2. CASE m = NIL
      BY <3>2
    <3>3. CASE m # NIL /\ m = n
      BY <2>8, <3>3
    <3>4. CASE m # NIL /\ m # n /\ m \in B[a]
      BY <2>6, <3>4
    <3>5. CASE m # NIL /\ m # n /\ m \notin B[a]
      <4>1. m \in B[b]
        BY <2>4, <3>5
      <4> QED
        BY <2>6, <3>5, <4>1
    <3> QED
      BY <3>2, <3>3, <3>4, <3>5
  <2>10. w \in [B[n] \cup {NIL} -> Seq(Int)] /\ \A m \in B[n] \cup {NIL} : w[m] = val(m)
    <3> HIDE DEF val
    <3> QED
      BY <2>5, <2>9
  <2>11. /\ w[NIL] = <<>>
         /\ w[n] = f[a] \o <<n>> \o g[b]
         /\ \A m \in B[a] \cup {NIL} : w[m] = f[m]
         /\ \A m \in B[b] \cup {NIL} : w[m] = g[m]
    <3>1. w[NIL] = <<>>
      BY <2>10
    <3>2. w[n] = f[a] \o <<n>> \o g[b]
      <4>1. n # NIL /\ n \in B[n] \cup {NIL}
        BY <1>1, <2>4
      <4> QED
        BY <2>10, <4>1
    <3>3. ASSUME NEW m \in B[a] \cup {NIL} PROVE w[m] = f[m]
      <4>1. CASE m = NIL
        BY <2>6, <3>1, <4>1
      <4>2. CASE m # NIL
        <5>1. m \in B[a] /\ m # n /\ m \in B[n] \cup {NIL}
          BY <2>4, <4>2
        <5> QED
          BY <2>10, <4>2, <5>1
      <4> QED
        BY <4>1, <4>2
    <3>4. ASSUME NEW m \in B[b] \cup {NIL} PROVE w[m] = g[m]
      <4>1. CASE m = NIL
        BY <2>6, <3>1, <4>1
      <4>2. CASE m # NIL
        <5>1. m \in B[b] /\ m # n /\ m \in B[n] \cup {NIL} /\ m \notin B[a]
          BY <2>4, <4>2
        <5> QED
          BY <2>10, <4>2, <5>1
      <4> QED
        BY <4>1, <4>2
    <3> QED
      BY <3>1, <3>2, <3>3, <3>4
  <2>12. ASSUME NEW m \in B[n]
         PROVE  /\ L[m][0] \in B[n] \cup {NIL} /\ L[m][1] \in B[n] \cup {NIL}
                /\ w[m] = w[L[m][0]] \o <<m>> \o w[L[m][1]]
    <3> HIDE DEF val
    <3>1. CASE m = n
      <4>1. a \in B[a] \cup {NIL} /\ b \in B[b] \cup {NIL}
        BY <2>4
      <4>2. a \in B[n] \cup {NIL} /\ b \in B[n] \cup {NIL}
        BY <2>4, <4>1
      <4>3. w[a] = f[a] /\ w[b] = g[b]
        BY <2>11, <4>1
      <4> QED
        BY <2>1, <2>11, <3>1, <4>2, <4>3
    <3>2. CASE m \in B[a]
      <4>1. /\ L[m][0] \in B[a] \cup {NIL} /\ L[m][1] \in B[a] \cup {NIL}
            /\ f[m] = f[L[m][0]] \o <<m>> \o f[L[m][1]]
        BY <2>2, <3>2 DEF Visits
      <4>2. w[m] = f[m] /\ w[L[m][0]] = f[L[m][0]] /\ w[L[m][1]] = f[L[m][1]]
        BY <2>11, <3>2, <4>1
      <4>3. L[m][0] \in B[n] \cup {NIL} /\ L[m][1] \in B[n] \cup {NIL}
        BY <2>4, <4>1
      <4> QED
        BY <4>1, <4>2, <4>3
    <3>3. CASE m \in B[b]
      <4>1. /\ L[m][0] \in B[b] \cup {NIL} /\ L[m][1] \in B[b] \cup {NIL}
            /\ g[m] = g[L[m][0]] \o <<m>> \o g[L[m][1]]
        BY <2>2, <3>3 DEF Visits
      <4>2. w[m] = g[m] /\ w[L[m][0]] = g[L[m][0]] /\ w[L[m][1]] = g[L[m][1]]
        BY <2>11, <3>3, <4>1
      <4>3. L[m][0] \in B[n] \cup {NIL} /\ L[m][1] \in B[n] \cup {NIL}
        BY <2>4, <4>1
      <4> QED
        BY <4>1, <4>2, <4>3
    <3> QED
      BY <2>4, <2>12, <3>1, <3>2, <3>3
  <2>13. Visits(w, L, B, n)
    BY <2>10, <2>11, <2>12 DEF Visits
  <2> QED
    BY <2>13
<1>4. N \subseteq Q
  <2> HIDE DEF Q
  <2> QED
    BY <1>2, <1>3, TreeInduction
<1> QED
  BY <1>2, <1>4


LEMMA NothingAscends == Ascending(<<>>, {})
<1>1. <<>> \in Seq(Int) /\ DOMAIN <<>> = {}
  OBVIOUS
<1> QED
  BY <1>1 DEF Ascending

LEMMA InOrderIs ==
  ASSUME NEW N, NEW t \in Trees(N), NEW B, Ordered(N, t.link, B), NEW r, r \in N \cup {NIL},
         B[r] = N
  PROVE  Ascending(InOrder(t, r), N)
<1>1. PICK L : L = t.link
  OBVIOUS
<1>2. /\ N \subseteq Int /\ NIL \notin N /\ B[NIL] = {} /\ DOMAIN t.red = N
      /\ \A n \in N : \A d \in {0, 1} : L[n][d] \in N \cup {NIL}
      /\ \A n \in N : \A d, e \in {0, 1} : d # e => B[n] = {n} \cup B[L[n][d]] \cup B[L[n][e]]
      /\ \A n \in N : \A d \in {0, 1} : \A m \in B[L[n][d]] : Beyond(d, n, m)
      /\ B \in [N \cup {NIL} -> SUBSET N]
  BY <1>1 DEF Ordered, Trees
<1> DEFINE f == CHOOSE g : IsVisit(g, t)
<1>3. IsVisit(f, t)
  <2>1. PICK g : Visits(g, L, B, r)
    BY <1>1, VisitExists
  <2>2. /\ g \in [N \cup {NIL} -> Seq(Int)] /\ g[NIL] = <<>>
        /\ \A n \in N : g[n] = g[L[n][0]] \o <<n>> \o g[L[n][1]]
    BY <2>1 DEF Visits
  <2>3. \A n \in N \cup {NIL} : g[n] = IF n = NIL THEN <<>>
                                       ELSE g[t.link[n][0]] \o <<n>> \o g[t.link[n][1]]
    BY <1>1, <1>2, <2>2
  <2>4. g = [n \in N \cup {NIL} |-> g[n]]
    BY <2>2
  <2>5. IsVisit(g, t)
    BY ZenonT(60), <1>2, <2>3, <2>4 DEF IsVisit
  <2> QED
    BY <2>5
<1>4. InOrder(t, r) = f[r]
  BY DEF InOrder, IsVisit
<1> HIDE DEF f
<1>5. \A n \in N \cup {NIL} : f[n] = IF n = NIL THEN <<>>
                                     ELSE f[L[n][0]] \o <<n>> \o f[L[n][1]]
  BY ZenonT(60), <1>1, <1>2, <1>3 DEF IsVisit
<1> DEFINE Q == {n \in N \cup {NIL} : Ascending(f[n], B[n])}
<1>6. NIL \in Q
  <2>1. f[NIL] = <<>>
    BY <1>5
  <2> QED
    BY <1>2, <2>1, NothingAscends
<1>7. ASSUME NEW n \in N, L[n][0] \in Q, L[n][1] \in Q PROVE n \in Q
  <2>1. PICK a, b : a = L[n][0] /\ b = L[n][1]
    OBVIOUS
  <2>2. Ascending(f[a], B[a]) /\ Ascending(f[b], B[b])
    BY <1>7, <2>1
  <2>3. f[n] = f[a] \o <<n>> \o f[b]
    BY <1>2, <1>5, <2>1
  <2>4. B[n] = B[a] \cup {n} \cup B[b]
    <3>1. B[n] = {n} \cup B[L[n][0]] \cup B[L[n][1]]
      BY <1>2
    <3> QED
      BY <2>1, <3>1
  <2>5. (\A x \in B[a] : x < n) /\ (\A x \in B[b] : n < x)
    BY <1>2, <2>1 DEF Beyond
  <2>6. Ascending(f[a] \o <<n>> \o f[b], B[a] \cup {n} \cup B[b])
    <3>1. n \in Int
      BY <1>2
    <3> QED
      BY <2>2, <2>5, <3>1, JoinAscending
  <2> QED
    BY <2>3, <2>4, <2>6
<1>8. N \subseteq Q
  <2> HIDE DEF Q
  <2> QED
    BY <1>1, <1>6, <1>7, TreeInduction
<1>9. Ascending(f[r], B[r])
  BY <1>6, <1>8
<1> QED
  BY <1>4, <1>9


-----------------------------------------------------------------------------
(* The calls, on a tree t with nodes N and root r. *)
Kempt(N, t, r) == \E B, H : Rooted(N, t, r, B, H)

LEMMA KemptParts ==
  ASSUME NEW N, NEW t, NEW r, Kempt(N, t, r)
  PROVE  /\ t \in Trees(N) /\ N \subseteq Nat /\ IsFiniteSet(N) /\ DOMAIN t.red = N
         /\ r \in N \cup {NIL} /\ (r = NIL => N = {}) /\ ~IsRed(t.red, r)
         /\ NoRedRed(N, t.link, t.red)
         /\ \A n \in N : \A d \in {0, 1} : t.link[n][d] \in N \cup {NIL}
         /\ BlackHeight(t, r) # -1
         /\ Ascending(InOrder(t, r), N)
         /\ \A h \in Int : Found(t, r, h) = IF h \in N THEN t.data[h] ELSE NULL
<1>1. PICK B, H : Rooted(N, t, r, B, H)
  BY DEF Kempt
<1>2. /\ t \in Trees(N) /\ N \subseteq Nat /\ Ordered(N, t.link, B)
      /\ Even(N, t.link, t.red, H) /\ NoRedRed(N, t.link, t.red)
      /\ r \in N \cup {NIL} /\ B[r] = N /\ ~IsRed(t.red, r)
  BY <1>1 DEF Rooted
<1>3. IsFiniteSet(N) /\ \A n \in N : \A d \in {0, 1} : t.link[n][d] \in N \cup {NIL}
  BY <1>2 DEF Ordered
<1>4. DOMAIN t.red = N
  BY <1>2 DEF Trees
<1>5. r = NIL => N = {}
  BY <1>2 DEF Ordered
<1>6. HEAD \notin N
  BY <1>2 DEF HEAD
<1>7. BlackHeight(t, r) # -1
  BY <1>2, <1>6, HeightIs
<1>8. Ascending(InOrder(t, r), N)
  BY <1>2, InOrderIs
<1>9. \A h \in Int : Found(t, r, h) = IF h \in N THEN t.data[h] ELSE NULL
  <2>1. TAKE h \in Int
  <2>2. Found(t, r, h) = IF h \in B[r] THEN t.data[h] ELSE NULL
    BY <1>2, FoundIs
  <2> QED
    BY <1>2, <2>2
<1> QED
  BY <1>2, <1>3, <1>4, <1>5, <1>7, <1>8, <1>9

\* No node: after dict_create, and after dict_free.
LEMMA EmptyKempt ==
  ASSUME NEW t \in Trees({})
  PROVE  Kempt({}, t, NIL)
<1>1. PICK B, H : B = [n \in {NIL} |-> {}] /\ H = [n \in {NIL} |-> 0]
  OBVIOUS
<1>2. IsFiniteSet({})
  BY FS_EmptySet
<1>3. /\ t.link \in [{} -> [{0, 1} -> {} \cup {NIL}]] /\ t.red \in [{} -> BOOLEAN]
      /\ B \in [{} \cup {NIL} -> SUBSET {}] /\ H \in [{} \cup {NIL} -> Nat]
      /\ B[NIL] = {} /\ H[NIL] = 0
  BY <1>1 DEF Trees
<1>4. Ordered({}, t.link, B)
  BY <1>2, <1>3 DEF Ordered
<1>5. Even({}, t.link, t.red, H)
  BY <1>3 DEF Even
<1>6. NoRedRed({}, t.link, t.red) /\ ~IsRed(t.red, NIL)
  BY DEF NoRedRed, IsRed
<1>7. Rooted({}, t, NIL, B, H)
  BY <1>3, <1>4, <1>5, <1>6 DEF Rooted
<1> QED
  BY <1>7 DEF Kempt

\* The first node.
FirstNode(N, u, h, v, k) == Kempt(N, u, h) /\ u.data[h] = v /\ u.key[h] = k

LEMMA FirstKempt ==
  ASSUME NEW t \in Trees({}), NEW h \in Nat, NEW v \in Data \cup {NULL}, NEW k \in Keys,
         NEW u, u = Put(t, h, Leaf, FALSE, v, k), NEW S, S = {h}
  PROVE  FirstNode(S, u, h, v, k)
<1>1. Leaf \in [{0, 1} -> {} \cup {h, NIL}]
  BY DEF Leaf
<1>2. PutAs({}, t, u, h, Leaf, FALSE, v, k)
  BY <1>1, PutIs
<1>3. /\ u \in Trees({} \cup {h}) /\ u.link[h] = Leaf /\ u.red[h] = FALSE
      /\ u.data[h] = v /\ u.key[h] = k
  BY <1>2 DEF PutAs
<1>4. {} \cup {h} = {h}
  OBVIOUS
<1>5. /\ u \in Trees({h}) /\ ~u.red[h] /\ u.link \in [{h} -> [{0, 1} -> {h} \cup {NIL}]]
      /\ u.red \in [{h} -> BOOLEAN] /\ \A d \in {0, 1} : u.link[h][d] = NIL
  <2>1. u \in Trees({h}) /\ \A d \in {0, 1} : u.link[h][d] = NIL
    BY <1>3, <1>4 DEF Leaf
  <2> QED
    BY <1>3, <2>1 DEF Trees
<1>6. PICK B, H : /\ B = [n \in {h} \cup {NIL} |-> IF n = NIL THEN {} ELSE {h}]
                  /\ H = [n \in {h} \cup {NIL} |-> IF n = NIL THEN 0 ELSE 1]
  OBVIOUS
<1>7. h # NIL /\ h \in Int
  BY DEF NIL
<1>8. /\ B \in [{h} \cup {NIL} -> SUBSET {h}] /\ H \in [{h} \cup {NIL} -> Nat]
      /\ B[NIL] = {} /\ B[h] = {h} /\ H[NIL] = 0 /\ H[h] = 1
  BY <1>6, <1>7
<1>9. IsFiniteSet({h})
  BY FS_Singleton
<1>10. Ordered({h}, u.link, B)
  <2>1. PICK N, L : N = {h} /\ L = u.link
    OBVIOUS
  <2>2. N \subseteq Int /\ NIL \notin N /\ IsFiniteSet(N)
    BY <1>7, <1>9, <2>1
  <2>3. L \in [N -> [{0, 1} -> N \cup {NIL}]] /\ B \in [N \cup {NIL} -> SUBSET N] /\ B[NIL] = {}
    BY <1>5, <1>8, <2>1
  <2>4. \A n \in N : \A d \in {0, 1} : L[n][d] = NIL /\ B[L[n][d]] = {} /\ B[n] = {n} /\ n = h
    BY <1>5, <1>8, <2>1
  <2>5. \A n \in N : \A d, e \in {0, 1} : d # e => B[n] = {n} \cup B[L[n][d]] \cup B[L[n][e]]
    <3>1. SUFFICES ASSUME NEW n \in N, NEW d \in {0, 1}, NEW e \in {0, 1}
                   PROVE  B[n] = {n} \cup B[L[n][d]] \cup B[L[n][e]]
      OBVIOUS
    <3>2. B[n] = {n} /\ B[L[n][d]] = {} /\ B[L[n][e]] = {}
      BY <2>4
    <3> QED
      BY <3>2
  <2>6. Ordered(N, L, B)
    BY <2>2, <2>3, <2>4, <2>5 DEF Ordered
  <2> QED
    BY <2>1, <2>6
<1>11. Even({h}, u.link, u.red, H)
  <2>1. ASSUME NEW n \in {h} \ {HEAD}, NEW d \in {0, 1}
        PROVE  H[n] = IF u.red[n] THEN H[u.link[n][d]] ELSE H[u.link[n][d]] + 1
    <3>1. n = h /\ u.link[h][d] = NIL
      BY <1>5, <2>1
    <3>2. ~u.red[n] /\ H[n] = 1 /\ H[u.link[n][d]] = 0
      BY <1>5, <1>8, <3>1
    <3> QED
      BY <3>2
  <2> QED
    BY <1>5, <1>8, <2>1 DEF Even
<1>12. NoRedRed({h}, u.link, u.red) /\ ~IsRed(u.red, h)
  BY <1>5 DEF NoRedRed, IsRed
<1>13. Rooted({h}, u, h, B, H)
  BY <1>5, <1>8, <1>10, <1>11, <1>12 DEF Rooted
<1> QED
  BY <1>3, <1>13 DEF Kempt, FirstNode


\* What the loop of _inssearch leaves of a tree t that has a root: u, below the
\* false root.
GrownBelow(N, t, h, v, k, u) ==
  /\ \E B, H : Tidy(N \cup {HEAD} \cup {h}, u, B, H)
  /\ \A n \in N : u.data[n] = t.data[n] /\ u.key[n] = t.key[n]
  /\ h \notin N => u.data[h] = v /\ u.key[h] = k

LEMMA InsertGrows ==
  ASSUME NEW N, NEW t, NEW r, Kempt(N, t, r), r # NIL, NEW h \in Nat, NEW v \in Data \cup {NULL},
         NEW k \in Keys
  PROVE  GrownBelow(N, t, h, v, k, Descend(Begun(Headless(t, r)), h, v, k))
<1>1. PICK B, H : Rooted(N, t, r, B, H)
  BY DEF Kempt
<1>2. PICK w : w = Headless(t, r)
  OBVIOUS
<1>3. Underneath(N, t, r, w)
  BY <1>1, <1>2, HeadAdded
<1>4. PICK M, C, D : M = N \cup {HEAD} /\ Tidy(M, w, C, D)
  BY <1>3 DEF Underneath
<1>5. /\ w.link[HEAD][1] # NIL /\ ~w.red[w.link[HEAD][1]]
      /\ \A n \in N : w.data[n] = t.data[n] /\ w.key[n] = t.key[n]
  BY <1>3 DEF Underneath
<1>6. PICK u : u = Descend(Begun(w), h, v, k)
  OBVIOUS
<1>7. Grown(M, w, h, v, k, u)
  BY <1>4, <1>5, <1>6, DescendGrows
<1>8. /\ \E B2, H2 : Tidy(M \cup {h}, u, B2, H2)
      /\ \A n \in M : u.data[n] = w.data[n] /\ u.key[n] = w.key[n]
      /\ h \notin M => u.data[h] = v /\ u.key[h] = k
  BY <1>7 DEF Grown
<1>9. h \notin N => h \notin M
  BY <1>4 DEF HEAD
<1>10. GrownBelow(N, t, h, v, k, u)
  BY <1>4, <1>5, <1>8, <1>9 DEF GrownBelow
<1> QED
  BY <1>2, <1>6, <1>10

\* The node of h may get another key and datum.
Rewritten(u, h, v, k) == [u EXCEPT !.key[h] = k, !.data[h] = v]

LEMMA RewrittenIs ==
  ASSUME NEW M, NEW u, NEW B, NEW H, Tidy(M, u, B, H), NEW h \in M, NEW v \in Data \cup {NULL},
         NEW k \in Keys, NEW x, x = Rewritten(u, h, v, k)
  PROVE  /\ Tidy(M, x, B, H) /\ x.link = u.link
         /\ x.data[h] = v /\ x.key[h] = k
         /\ \A n \in M \ {h} : x.data[n] = u.data[n] /\ x.key[n] = u.key[n]
<1>1. /\ u \in Trees(M) /\ Sound(M, u.link, u.red, B, H) /\ NoRedRed(M, u.link, u.red)
  BY DEF Tidy
<1>2. /\ u = [link |-> u.link, red |-> u.red, data |-> u.data, key |-> u.key]
      /\ u.link \in [M -> [{0, 1} -> M \cup {NIL}]] /\ u.red \in [M -> BOOLEAN]
      /\ u.data \in [M -> Data \cup {NULL}] /\ u.key \in [M -> Keys \cup {0}]
  BY <1>1 DEF Trees
<1>3. PICK a, b : a = [u.data EXCEPT ![h] = v] /\ b = [u.key EXCEPT ![h] = k]
  OBVIOUS
<1>4. x = [link |-> u.link, red |-> u.red, data |-> a, key |-> b]
  BY <1>2, <1>3 DEF Rewritten
<1>5. /\ a \in [M -> Data \cup {NULL}] /\ b \in [M -> Keys \cup {0}] /\ a[h] = v /\ b[h] = k
      /\ \A n \in M \ {h} : a[n] = u.data[n] /\ b[n] = u.key[n]
  BY <1>2, <1>3
<1>6. x.link = u.link /\ x.red = u.red /\ x.data = a /\ x.key = b
  BY <1>4
<1>7. x \in Trees(M)
  BY <1>2, <1>4, <1>5 DEF Trees
<1> QED
  BY <1>1, <1>5, <1>6, <1>7 DEF Tidy

\* The tree below the false root becomes the dictionary's.
LEMMA AdoptedKempt ==
  ASSUME NEW N, N \subseteq Nat, NEW M, M = N \cup {HEAD}, NEW u, NEW B, NEW H, Tidy(M, u, B, H)
  PROVE  Standing(N, u, Adopted(u)) /\ Kempt(N, Adopted(u), u.link[HEAD][1])
<1>1. M \ {HEAD} = N
  BY DEF HEAD
<1>2. Standing(M \ {HEAD}, u, Adopted(u))
  BY <1>1, HeadDropped
<1> QED
  BY <1>1, <1>2 DEF Standing, Kempt

\* What a call of _inssearch does: u and s are the tree and the root after it.
InsertDone(N, t, u, s, h, v, k, replace) ==
  /\ Kempt(N \cup {h}, u, s)
  /\ \A n \in N \ {h} : u.data[n] = t.data[n] /\ u.key[n] = t.key[n]
  /\ h \notin N \/ replace \/ t.data[h] = NULL => u.data[h] = v /\ u.key[h] = k
  /\ ~(h \notin N \/ replace \/ t.data[h] = NULL) => u.data[h] = t.data[h] /\ u.key[h] = t.key[h]

LEMMA InsertNew ==
  ASSUME NEW N, NEW t, NEW r, Kempt(N, t, r), r # NIL, NEW h \in Nat, NEW v \in Data \cup {NULL},
         NEW k \in Keys, NEW replace, h \notin N,
         NEW u, u = Descend(Begun(Headless(t, r)), h, v, k)
  PROVE  InsertDone(N, t, Adopted(u), u.link[HEAD][1], h, v, k, replace)
<1>1. GrownBelow(N, t, h, v, k, u)
  BY InsertGrows
<1>2. /\ \E B, H : Tidy(N \cup {HEAD} \cup {h}, u, B, H)
      /\ \A n \in N : u.data[n] = t.data[n] /\ u.key[n] = t.key[n]
      /\ u.data[h] = v /\ u.key[h] = k
  BY <1>1 DEF GrownBelow
<1>3. PICK P, M, x, s : P = N \cup {h} /\ M = P \cup {HEAD} /\ x = Adopted(u) /\ s = u.link[HEAD][1]
  OBVIOUS
<1>4. M = N \cup {HEAD} \cup {h} /\ P \subseteq Nat
  BY <1>3, KemptParts
<1>5. PICK B, H : Tidy(M, u, B, H)
  BY <1>2, <1>4
<1>6. Standing(P, u, x) /\ Kempt(P, x, s)
  BY <1>3, <1>4, <1>5, AdoptedKempt
<1>7. \A n \in P : x.data[n] = u.data[n] /\ x.key[n] = u.key[n]
  BY <1>6 DEF Standing
<1>8. /\ Kempt(N \cup {h}, x, s) /\ x.data[h] = v /\ x.key[h] = k
      /\ \A n \in N \ {h} : x.data[n] = t.data[n] /\ x.key[n] = t.key[n]
  BY <1>2, <1>3, <1>6, <1>7
<1>9. InsertDone(N, t, x, s, h, v, k, replace)
  BY <1>8 DEF InsertDone
<1> QED
  BY <1>3, <1>9

LEMMA InsertOld ==
  ASSUME NEW N, NEW t, NEW r, Kempt(N, t, r), r # NIL, NEW h \in N, NEW v \in Data \cup {NULL},
         NEW k \in Keys, NEW replace,
         NEW w, w = Descend(Begun(Headless(t, r)), h, v, k),
         NEW u, u = IF replace \/ t.data[h] = NULL THEN Rewritten(w, h, v, k) ELSE w
  PROVE  InsertDone(N, t, Adopted(u), u.link[HEAD][1], h, v, k, replace)
<1>1. PICK M, x, s : M = N \cup {HEAD} /\ x = Adopted(u) /\ s = u.link[HEAD][1]
  OBVIOUS
<1>2. N \subseteq Nat
  BY KemptParts
<1>3. h \in Nat /\ N \cup {HEAD} \cup {h} = M /\ N \cup {h} = N /\ h \in M
  BY <1>1, <1>2
<1>4. GrownBelow(N, t, h, v, k, w)
  BY <1>3, InsertGrows
<1>5. /\ \E B, H : Tidy(M, w, B, H)
      /\ \A n \in N : w.data[n] = t.data[n] /\ w.key[n] = t.key[n]
  BY <1>3, <1>4 DEF GrownBelow
<1>6. PICK B, H : Tidy(M, w, B, H)
  BY <1>5
<1>7. PICK c : c <=> replace \/ t.data[h] = NULL
  OBVIOUS
<1>8. /\ Tidy(M, u, B, H)
      /\ \A n \in N \ {h} : u.data[n] = t.data[n] /\ u.key[n] = t.key[n]
      /\ c => u.data[h] = v /\ u.key[h] = k
      /\ ~c => u.data[h] = t.data[h] /\ u.key[h] = t.key[h]
  <2>1. CASE c
    <3>1. u = Rewritten(w, h, v, k)
      BY <1>7, <2>1
    <3>2. /\ Tidy(M, u, B, H) /\ u.data[h] = v /\ u.key[h] = k
          /\ \A n \in M \ {h} : u.data[n] = w.data[n] /\ u.key[n] = w.key[n]
      BY <1>3, <1>6, <3>1, RewrittenIs
    <3> QED
      BY <1>1, <1>5, <2>1, <3>2
  <2>2. CASE ~c
    <3>1. u = w
      BY <1>7, <2>2
    <3> QED
      BY <1>5, <1>6, <2>2, <3>1
  <2> QED
    BY <2>1, <2>2
<1>9. Standing(N, u, x) /\ Kempt(N, x, s)
  BY <1>1, <1>2, <1>8, AdoptedKempt
<1>10. \A n \in N : x.data[n] = u.data[n] /\ x.key[n] = u.key[n]
  BY <1>9 DEF Standing
<1>11. /\ Kempt(N \cup {h}, x, s)
       /\ \A n \in N \ {h} : x.data[n] = t.data[n] /\ x.key[n] = t.key[n]
       /\ c => x.data[h] = v /\ x.key[h] = k
       /\ ~c => x.data[h] = t.data[h] /\ x.key[h] = t.key[h]
  BY <1>3, <1>8, <1>9, <1>10
<1>12. InsertDone(N, t, x, s, h, v, k, replace)
  BY <1>7, <1>11 DEF InsertDone
<1> QED
  BY <1>1, <1>12


\* What dict_remove does: u and s are the tree and the root after it.
RemoveDone(N, t, u, s, h) ==
  /\ Kempt(N \ {h}, u, s)
  /\ \A n \in N \ {h} : u.data[n] = t.data[n] /\ \E o \in N : u.key[n] = t.key[o]

\* The end of the path in a tidy tree z.tree with the data and keys of t.
Bottom(N, t, h, z) ==
  /\ \E B, H : /\ Tidy(N \cup {HEAD}, z.tree, B, H) /\ AtNode(N \cup {HEAD}, B, h, z)
               /\ z.tree.link[z.q][z.dir] = NIL
  /\ \A n \in N : z.tree.data[n] = t.data[n] /\ z.tree.key[n] = t.key[n]

LEMMA SinkBottom ==
  ASSUME NEW N, NEW t, NEW r, Kempt(N, t, r), NEW h \in Nat
  PROVE  Bottom(N, t, h, Sink(Sunken(Headless(t, r)), h))
<1>1. PICK B, H : Rooted(N, t, r, B, H)
  BY DEF Kempt
<1>2. PICK w : w = Headless(t, r)
  OBVIOUS
<1>3. Underneath(N, t, r, w)
  BY <1>1, <1>2, HeadAdded
<1>4. PICK M, C, D : M = N \cup {HEAD} /\ Tidy(M, w, C, D)
  BY <1>3 DEF Underneath
<1>5. \A n \in N : w.data[n] = t.data[n] /\ w.key[n] = t.key[n]
  BY <1>3 DEF Underneath
<1>6. PICK z : z = Sink(Sunken(w), h)
  OBVIOUS
<1>7. Ahead(M, w, h, z, 0)
  BY <1>4, <1>6, SinkEnds
<1>8. PICK E, F : /\ Tidy(M, z.tree, E, F) /\ AtNode(M, E, h, z) /\ Kept(w, z.tree)
                  /\ \/ z.tree.link[z.q][z.dir] = NIL
                     \/ Cardinality(E[z.tree.link[z.q][z.dir]]) <= 0
  BY <1>7 DEF Ahead
<1>9. z.tree.link[z.q][z.dir] = NIL
  <2>1. PICK L, c : L = z.tree.link /\ c = L[z.q][z.dir]
    OBVIOUS
  <2>2. Typed(M, L, z.tree.red, E, F)
    BY <1>8, <2>1, SoundTypes DEF Tidy
  <2>3. z.q \in M /\ z.dir \in {0, 1}
    <3>1. z.q \in M /\ z.dir = Side(z.q < h)
      BY <1>8 DEF AtNode
    <3> QED
      BY <3>1 DEF Side
  <2>4. c \in M \cup {NIL} /\ (c \in M => c \in E[c])
    BY <2>1, <2>2, <2>3 DEF Typed
  <2>5. SUFFICES ASSUME c # NIL PROVE FALSE
    BY <2>1
  <2>6. c \in E[c] /\ E[c] \in SUBSET M /\ IsFiniteSet(M)
    BY <2>2, <2>4, <2>5 DEF Typed
  <2>7. IsFiniteSet(E[c]) /\ E[c] # {}
    BY <2>6, FS_Subset
  <2>8. Cardinality(E[c]) \in Nat /\ Cardinality(E[c]) # 0
    BY <2>7, FS_CardinalityType, FS_EmptySet
  <2> QED
    BY <1>8, <2>1, <2>5, <2>8
<1>10. \A n \in N : z.tree.data[n] = t.data[n] /\ z.tree.key[n] = t.key[n]
  BY <1>5, <1>8 DEF Kept
<1>11. Bottom(N, t, h, z)
  BY <1>4, <1>8, <1>9, <1>10 DEF Bottom
<1> QED
  BY <1>2, <1>6, <1>11

LEMMA RemoveNone ==
  ASSUME NEW N, NEW t, NEW r, Kempt(N, t, r), NEW h \in Nat, h \notin N,
         NEW u, u = Sink(Sunken(Headless(t, r)), h).tree
  PROVE  RemoveDone(N, t, Adopted(u), u.link[HEAD][1], h)
<1>1. PICK z : z = Sink(Sunken(Headless(t, r)), h)
  OBVIOUS
<1>2. Bottom(N, t, h, z)
  BY <1>1, SinkBottom
<1>3. PICK M, B, H, x, s : /\ M = N \cup {HEAD} /\ Tidy(M, u, B, H)
                           /\ x = Adopted(u) /\ s = u.link[HEAD][1]
  BY <1>1, <1>2 DEF Bottom
<1>4. \A n \in N : u.data[n] = t.data[n] /\ u.key[n] = t.key[n]
  BY <1>1, <1>2 DEF Bottom
<1>5. N \subseteq Nat /\ N \ {h} = N
  BY KemptParts
<1>6. Standing(N, u, x) /\ Kempt(N, x, s)
  BY <1>3, <1>5, AdoptedKempt
<1>7. \A n \in N : x.data[n] = u.data[n] /\ x.key[n] = u.key[n]
  BY <1>6 DEF Standing
<1>8. RemoveDone(N, t, x, s, h)
  BY <1>4, <1>5, <1>6, <1>7 DEF RemoveDone
<1> QED
  BY <1>3, <1>8

LEMMA RemoveNode ==
  ASSUME NEW N, NEW t, NEW r, Kempt(N, t, r), NEW h \in N,
         NEW z, z = Sink(Sunken(Headless(t, r)), h), NEW u, u = Replace(z.tree, z.p, z.q, h)
  PROVE  RemoveDone(N, t, Adopted(u), u.link[HEAD][1], h)
<1>1. N \subseteq Nat /\ h \in Nat
  BY KemptParts
<1>2. Bottom(N, t, h, z)
  BY <1>1, SinkBottom
<1>3. PICK M, w, p, n, B, H :
        /\ M = N \cup {HEAD} /\ w = z.tree /\ p = z.p /\ n = z.q
        /\ Tidy(M, w, B, H) /\ AtNode(M, B, h, z) /\ w.link[n][z.dir] = NIL
  BY <1>2 DEF Bottom
<1>4. \A m \in N : w.data[m] = t.data[m] /\ w.key[m] = t.key[m]
  BY <1>2, <1>3 DEF Bottom
<1>5. LastNode(M, w, B, h, p, n)
  <2>1. /\ n \in M /\ z.dir = Side(n < h) /\ Path(M, w.link, B, h, h, n)
        /\ Placed(M, w, p, n, z.dir)
    BY <1>3 DEF AtNode
  <2> QED
    BY <1>1, <1>3, <2>1, LastIs
<1>6. u = Replace(w, p, n, h)
  BY <1>3
<1>7. /\ \E D, K : Tidy(M \ {h}, u, D, K)
      /\ \A m \in M \ {h} : u.data[m] = w.data[m]
      /\ \A m \in M \ {h, HEAD} : \E o \in M \ {HEAD} : u.key[m] = w.key[o]
  <2>1. Tidy(M, w, B, H) /\ h \in Nat /\ h \in M
    BY <1>1, <1>3
  <2>2. Replaced(M, w, h, u)
    BY <1>5, <1>6, <2>1, ReplaceIs
  <2> QED
    BY <2>2 DEF Replaced
<1>8. PICK P, x, s : P = N \ {h} /\ x = Adopted(u) /\ s = u.link[HEAD][1]
  OBVIOUS
<1>9. PICK S, D, K : S = P \cup {HEAD} /\ Tidy(S, u, D, K)
  <2>1. PICK S : S = M \ {h}
    OBVIOUS
  <2>2. S = P \cup {HEAD}
    BY <1>1, <1>3, <1>8, <2>1 DEF HEAD
  <2> QED
    BY <1>7, <2>1, <2>2
<1>10. Standing(P, u, x) /\ Kempt(P, x, s)
  BY <1>1, <1>8, <1>9, AdoptedKempt
<1>11. \A m \in P : x.data[m] = u.data[m] /\ x.key[m] = u.key[m]
  BY <1>10 DEF Standing
<1>12. ASSUME NEW m \in P PROVE x.data[m] = t.data[m] /\ \E o \in N : x.key[m] = t.key[o]
  <2>1. m \in N /\ m # h /\ m # HEAD /\ m \in M \ {h, HEAD}
    BY <1>1, <1>3, <1>8 DEF HEAD
  <2>2. x.data[m] = t.data[m]
    BY <1>4, <1>7, <1>11, <2>1
  <2>3. PICK o \in M \ {HEAD} : u.key[m] = w.key[o]
    BY <1>7, <2>1
  <2>4. o \in N
    BY <1>3
  <2> QED
    BY <1>4, <1>11, <2>2, <2>3, <2>4
<1>13. RemoveDone(N, t, x, s, h)
  BY <1>8, <1>10, <1>12 DEF RemoveDone
<1> QED
  BY <1>8, <1>13

\* What dict_free does.
LEMMA FreeEmpties ==
  ASSUME NEW N, NEW t, NEW r, Kempt(N, t, r), NEW o, o = InOrder(t, r),
         NEW v, v = {o[i] : i \in DOMAIN o}
  PROVE  v = N /\ Kempt({}, Drop(t, v), NIL)
<1>1. v = N
  BY KemptParts DEF Ascending
<1>2. t \in Trees(N)
  BY KemptParts
<1>3. Drop(t, N) \in Trees({})
  <2>1. DOMAIN t.link = N /\ DOMAIN t.red = N /\ DOMAIN t.data = N /\ DOMAIN t.key = N
    BY <1>2 DEF Trees
  <2>2. \A f : DOMAIN f = N => [m \in DOMAIN f \ N |-> f[m]] = [m \in {} |-> f[m]]
    OBVIOUS
  <2>3. Drop(t, N) = [link |-> [m \in {} |-> t.link[m]], red |-> [m \in {} |-> t.red[m]],
                      data |-> [m \in {} |-> t.data[m]], key |-> [m \in {} |-> t.key[m]]]
    BY <2>1 DEF Drop
  <2> QED
    BY <2>3 DEF Trees
<1> QED
  BY <1>1, <1>3, EmptyKempt


-----------------------------------------------------------------------------
(* The dictionary. *)
DictOK(N, t, r, c) ==
  /\ Kempt(N, t, r) /\ N \subseteq Hashes /\ \A n \in N : t.key[n] \in Keys
  /\ c \in Nat /\ Cardinality(N) <= c

LEMMA InsertOK ==
  ASSUME NEW N, NEW t, NEW r, NEW c, DictOK(N, t, r, c), NEW k \in Keys, NEW h, h = Hash(k),
         NEW v, NEW u, NEW s, NEW replace, InsertDone(N, t, u, s, h, v, k, replace),
         NEW d, d = IF h \in N THEN c ELSE c + 1
  PROVE  /\ DictOK(N \cup {h}, u, s, d)
         /\ d - Cardinality(N \cup {h}) = c - Cardinality(N)
         /\ \A n \in N \cup {h} : (n \in N /\ u.key[n] = t.key[n]) \/ Hash(u.key[n]) = n
<1>1. /\ Kempt(N, t, r) /\ N \subseteq Hashes /\ \A n \in N : t.key[n] \in Keys
      /\ c \in Nat /\ Cardinality(N) <= c
  BY DEF DictOK
<1>2. /\ Kempt(N \cup {h}, u, s)
      /\ \A n \in N \ {h} : u.key[n] = t.key[n]
      /\ u.key[h] = k \/ (h \in N /\ u.key[h] = t.key[h])
  BY DEF InsertDone
<1>3. IsFiniteSet(N) /\ Cardinality(N) \in Nat /\ h \in Hashes
  BY <1>1, KemptParts, FS_CardinalityType DEF Hashes
<1>4. /\ d \in Nat /\ Cardinality(N \cup {h}) \in Nat
      /\ d - Cardinality(N \cup {h}) = c - Cardinality(N)
      /\ Cardinality(N \cup {h}) <= d
  <2>1. CASE h \in N
    <3>1. N \cup {h} = N
      BY <2>1
    <3> QED
      BY <1>1, <1>3, <2>1, <3>1
  <2>2. CASE h \notin N
    <3>1. Cardinality(N \cup {h}) = Cardinality(N) + 1
      BY <1>3, <2>2, FS_AddElement
    <3> QED
      BY <1>1, <1>3, <2>2, <3>1
  <2> QED
    BY <2>1, <2>2
<1>5. \A n \in N \cup {h} : u.key[n] \in Keys
  BY <1>1, <1>2
<1>6. \A n \in N \cup {h} : (n \in N /\ u.key[n] = t.key[n]) \/ Hash(u.key[n]) = n
  BY <1>2
<1>7. N \cup {h} \subseteq Hashes
  BY <1>1, <1>3
<1>8. DictOK(N \cup {h}, u, s, d)
  BY <1>2, <1>4, <1>5, <1>7 DEF DictOK
<1> QED
  BY <1>4, <1>6, <1>8

LEMMA RemoveOK ==
  ASSUME NEW N, NEW t, NEW r, NEW c, DictOK(N, t, r, c), NEW h, NEW u, NEW s,
         RemoveDone(N, t, u, s, h)
  PROVE  DictOK(N \ {h}, u, s, c)
<1>1. /\ Kempt(N, t, r) /\ N \subseteq Hashes /\ \A n \in N : t.key[n] \in Keys
      /\ c \in Nat /\ Cardinality(N) <= c
  BY DEF DictOK
<1>2. Kempt(N \ {h}, u, s) /\ \A n \in N \ {h} : \E o \in N : u.key[n] = t.key[o]
  BY DEF RemoveDone
<1>3. IsFiniteSet(N)
  BY <1>1, KemptParts
<1>4. /\ Cardinality(N \ {h}) \in Nat /\ Cardinality(N) \in Nat
      /\ Cardinality(N \ {h}) <= Cardinality(N)
  BY <1>3, FS_CardinalityType, FS_Subset
<1>5. Cardinality(N \ {h}) <= c
  BY <1>1, <1>4
<1>6. \A n \in N \ {h} : u.key[n] \in Keys
  BY <1>1, <1>2
<1> QED
  BY <1>1, <1>2, <1>5, <1>6 DEF DictOK

\* The map the tree stands for.
MapOf(N, t) == [h \in Hashes |-> IF h \in N THEN t.data[h] ELSE NULL]

LEMMA InsertMap ==
  ASSUME NEW N, NEW t, NEW h \in Hashes, NEW v, NEW k, NEW u, NEW s, NEW replace,
         InsertDone(N, t, u, s, h, v, k, replace)
  PROVE  MapOf(N \cup {h}, u) = IF replace \/ MapOf(N, t)[h] = NULL
                                THEN [MapOf(N, t) EXCEPT ![h] = v] ELSE MapOf(N, t)
<1>1. /\ \A n \in N \ {h} : u.data[n] = t.data[n]
      /\ h \notin N \/ replace \/ t.data[h] = NULL => u.data[h] = v
      /\ ~(h \notin N \/ replace \/ t.data[h] = NULL) => u.data[h] = t.data[h]
  BY DEF InsertDone
<1>2. MapOf(N, t)[h] = IF h \in N THEN t.data[h] ELSE NULL
  BY DEF MapOf
<1>3. CASE h \notin N \/ replace \/ t.data[h] = NULL
  <2>1. replace \/ MapOf(N, t)[h] = NULL
    BY <1>2, <1>3
  <2>2. u.data[h] = v
    BY <1>1, <1>3
  <2>3. \A g \in Hashes : (IF g \in N \cup {h} THEN u.data[g] ELSE NULL)
                          = IF g = h THEN v ELSE IF g \in N THEN t.data[g] ELSE NULL
    BY <1>1, <2>2
  <2>4. MapOf(N \cup {h}, u) = [MapOf(N, t) EXCEPT ![h] = v]
    BY <2>3 DEF MapOf
  <2> QED
    BY <2>1, <2>4
<1>4. CASE ~(h \notin N \/ replace \/ t.data[h] = NULL)
  <2>1. ~(replace \/ MapOf(N, t)[h] = NULL)
    BY <1>2, <1>4
  <2>2. \A g \in Hashes : (IF g \in N \cup {h} THEN u.data[g] ELSE NULL)
                          = IF g \in N THEN t.data[g] ELSE NULL
    BY <1>1, <1>4
  <2>3. MapOf(N \cup {h}, u) = MapOf(N, t)
    BY <2>2 DEF MapOf
  <2> QED
    BY <2>1, <2>3
<1> QED
  BY <1>3, <1>4

LEMMA RemoveMap ==
  ASSUME NEW N, NEW t, NEW h, NEW u, NEW s, RemoveDone(N, t, u, s, h)
  PROVE  MapOf(N \ {h}, u) = [MapOf(N, t) EXCEPT ![h] = NULL]
<1>1. \A n \in N \ {h} : u.data[n] = t.data[n]
  BY DEF RemoveDone
<1>2. \A g \in Hashes : (IF g \in N \ {h} THEN u.data[g] ELSE NULL)
                        = IF g = h THEN NULL ELSE IF g \in N THEN t.data[g] ELSE NULL
  BY <1>1
<1> QED
  BY <1>2 DEF MapOf

\* The inductive invariant: a red-black search tree between the calls, and a
\* copy of a key for every node.
DictInv ==
  DictOK(Nodes, tree, root, copies) /\ call.ret \in Data \cup {NULL}

LEMMA SearchIs ==
  ASSUME DictInv
  PROVE  [h \in Hashes |-> Search(h)] = MapOf(Nodes, tree)
<1>1. Kempt(Nodes, tree, root)
  BY DEF DictInv, DictOK
<1>2. \A h \in Hashes : Search(h) = IF h \in Nodes THEN tree.data[h] ELSE NULL
  <2>1. TAKE h \in Hashes
  <2>2. h \in Int
    BY DictAssumption
  <2> QED
    BY <1>1, <2>2, KemptParts DEF Search
<1> QED
  BY <1>2 DEF MapOf

\* What a call does to tree and copies.
Inserts(k, v, replace) ==
  /\ InsertDone(Nodes, tree, tree', root', Hash(k), v, k, replace)
  /\ copies' = IF Hash(k) \in Nodes THEN copies ELSE copies + 1

LEMMA InsSearchStep ==
  ASSUME DictInv, NEW k \in Keys, NEW v \in Data, NEW replace \in BOOLEAN,
         InsSearch(k, v, replace)
  PROVE  Inserts(k, v, replace)
<1>1. Kempt(Nodes, tree, root)
  BY DEF DictInv, DictOK
<1>2. /\ tree \in Trees(Nodes) /\ Nodes \subseteq Nat /\ (root = NIL => Nodes = {})
      /\ root \in Nodes \cup {NIL}
  BY <1>1, KemptParts
<1>3. PICK h : h = Hash(k) /\ h \in Hashes /\ h \in Nat
  BY DictAssumption DEF Hashes
<1>4. PICK t, w : /\ w = Descend(Begun(Headless(tree, root)), h, v, k)
                  /\ t = IF replace \/ tree.data[h] = NULL THEN Rewritten(w, h, v, k) ELSE w
  OBVIOUS
<1>5. w = Descend([tree |-> WithHead, t |-> HEAD, g |-> NIL, p |-> NIL,
                   q |-> root, dir |-> 0, last |-> 0], h, v, k)
  <2>1. Headless(tree, root) = WithHead
    BY DEF Headless, WithHead
  <2>2. Headless(tree, root).link[HEAD][1] = root
    <3>1. PICK B, H : Rooted(Nodes, tree, root, B, H)
      BY <1>1 DEF Kempt
    <3>2. PICK u : u = Headless(tree, root)
      OBVIOUS
    <3>3. Underneath(Nodes, tree, root, u)
      BY <3>1, <3>2, HeadAdded
    <3> QED
      BY <3>2, <3>3 DEF Underneath
  <2>3. Begun(Headless(tree, root)) = [tree |-> WithHead, t |-> HEAD, g |-> NIL, p |-> NIL,
                                       q |-> root, dir |-> 0, last |-> 0]
    BY <2>1, <2>2 DEF Begun
  <2> QED
    BY <1>4, <2>3
<1>6. \/ /\ root = NIL /\ root' = h /\ tree' = Put(tree, h, Leaf, FALSE, v, k)
         /\ copies' = copies + 1
      \/ root # NIL /\ h \notin Nodes /\ Adopt(w) /\ copies' = copies + 1
      \/ root # NIL /\ h \in Nodes /\ Adopt(t) /\ copies' = copies
  BY <1>3, <1>4, <1>5 DEF InsSearch, Rewritten
<1>7. CASE /\ root = NIL /\ root' = h /\ tree' = Put(tree, h, Leaf, FALSE, v, k)
           /\ copies' = copies + 1
  <2>1. Nodes = {} /\ tree \in Trees({}) /\ Nodes \cup {h} = {h}
    BY <1>2, <1>7
  <2>2. Kempt({h}, tree', h) /\ tree'.data[h] = v /\ tree'.key[h] = k
    <3>1. PICK x, u : x = tree /\ u = tree'
      OBVIOUS
    <3>2. x \in Trees({}) /\ v \in Data \cup {NULL} /\ u = Put(x, h, Leaf, FALSE, v, k)
      BY <1>7, <2>1, <3>1
    <3>3. PICK S : S = {h}
      OBVIOUS
    <3>4. FirstNode(S, u, h, v, k)
      BY <1>3, <3>2, <3>3, FirstKempt
    <3> QED
      BY <3>1, <3>3, <3>4 DEF FirstNode
  <2>3. InsertDone(Nodes, tree, tree', root', h, v, k, replace)
    BY <1>7, <2>1, <2>2 DEF InsertDone
  <2> QED
    BY <1>3, <1>7, <2>1, <2>3 DEF Inserts
<1>8. CASE root # NIL /\ h \notin Nodes /\ Adopt(w) /\ copies' = copies + 1
  <2>1. tree' = Adopted(w) /\ root' = w.link[HEAD][1]
    BY <1>8 DEF Adopt, Adopted
  <2>2. InsertDone(Nodes, tree, Adopted(w), w.link[HEAD][1], h, v, k, replace)
    BY <1>1, <1>3, <1>4, <1>8, InsertNew
  <2> QED
    BY <1>3, <1>8, <2>1, <2>2 DEF Inserts
<1>9. CASE root # NIL /\ h \in Nodes /\ Adopt(t) /\ copies' = copies
  <2>1. tree' = Adopted(t) /\ root' = t.link[HEAD][1]
    BY <1>9 DEF Adopt, Adopted
  <2>2. InsertDone(Nodes, tree, Adopted(t), t.link[HEAD][1], h, v, k, replace)
    BY <1>1, <1>3, <1>4, <1>9, InsertOld
  <2> QED
    BY <1>3, <1>9, <2>1, <2>2 DEF Inserts
<1> QED
  BY <1>6, <1>7, <1>8, <1>9


LEMMA DictInitInv == DictInit => DictInv
<1> SUFFICES ASSUME DictInit PROVE DictInv
  OBVIOUS
<1>1. tree = NoNodes /\ root = NIL /\ copies = 0 /\ call.ret = NULL
  BY DEF DictInit
<1>2. NoNodes \in Trees({}) /\ DOMAIN NoNodes.red = {}
  BY DEF NoNodes, Trees
<1>3. PICK t : t = NoNodes
  OBVIOUS
<1>4. Kempt({}, t, NIL)
  BY <1>2, <1>3, EmptyKempt
<1>5. Nodes = {} /\ Kempt(Nodes, tree, root)
  BY <1>1, <1>2, <1>3, <1>4 DEF Nodes
<1>6. Cardinality({}) = 0
  BY FS_EmptySet
<1> QED
  BY <1>1, <1>5, <1>6 DEF DictInv, DictOK

-----------------------------------------------------------------------------
(* The steps.  Each keeps the invariant; what KeysBelong and DictionarySpec *)
(* say of it follows from the same facts.                                   *)

\* What KeysBelong says of a step.
KeysKept ==
  call'.op # "remove" =>
    /\ copies' - Cardinality(Nodes') = copies - Cardinality(Nodes)
    /\ \A n \in Nodes' :
         \/ n \in Nodes /\ tree'.key[n] = tree.key[n]
         \/ Hash(tree'.key[n]) = n

\* What DictionarySpec says of a step.
MapStep ==
  LET h == Hash(call'.key)
      v == call'.data
  IN  \/ call'.op = "insert" /\ Map!Insert(h, v)
      \/ call'.op = "search_insert" /\ Map!SearchInsert(h, v)
      \/ call'.op = "remove" /\ Map!Remove(h)
      \/ call'.op = "search" /\ Map!Search(h, call'.ret)
      \/ call'.op = "free" /\ Map!Clear

LEMMA NodesAre ==
  ASSUME NEW N, NEW t, NEW r, NEW c, DictOK(N, t, r, c)
  PROVE  DOMAIN t.red = N
BY KemptParts DEF DictOK

LEMMA SearchIsNext ==
  ASSUME DictInv'
  PROVE  [h \in Hashes |-> Search(h)]' = MapOf(Nodes', tree')
<1>1. Kempt(Nodes', tree', root')
  BY DEF DictInv, DictOK
<1>2. \A h \in Hashes : Search(h)' = IF h \in Nodes' THEN tree'.data[h] ELSE NULL
  <2>1. TAKE h \in Hashes
  <2>2. h \in Int
    BY DictAssumption
  <2> QED
    BY <1>1, <2>2, KemptParts DEF Search
<1> QED
  BY <1>2 DEF MapOf

LEMMA InsertingStep ==
  ASSUME DictInv, NEW k \in Keys, NEW v \in Data, NEW replace \in BOOLEAN,
         InsSearch(k, v, replace), call'.ret \in Data \cup {NULL}
  PROVE  /\ DictInv' /\ KeysKept
         /\ MapOf(Nodes', tree') =
              IF replace \/ MapOf(Nodes, tree)[Hash(k)] = NULL
              THEN [MapOf(Nodes, tree) EXCEPT ![Hash(k)] = v] ELSE MapOf(Nodes, tree)
<1>1. PICK h, u, s, d, N : h = Hash(k) /\ u = tree' /\ s = root' /\ d = copies' /\ N = Nodes
  OBVIOUS
<1>2. h \in Hashes
  BY <1>1 DEF Hashes
<1>3. InsertDone(N, tree, u, s, h, v, k, replace) /\ d = IF h \in N THEN copies ELSE copies + 1
  BY <1>1, InsSearchStep DEF Inserts
<1>4. DictOK(N, tree, root, copies)
  BY <1>1 DEF DictInv
<1>5. /\ DictOK(N \cup {h}, u, s, d)
      /\ d - Cardinality(N \cup {h}) = copies - Cardinality(N)
      /\ \A n \in N \cup {h} : (n \in N /\ u.key[n] = tree.key[n]) \/ Hash(u.key[n]) = n
  BY <1>1, <1>3, <1>4, InsertOK
<1>6. DOMAIN u.red = N \cup {h}
  BY <1>5, NodesAre
<1>7. Nodes' = N \cup {h}
  BY <1>1, <1>6 DEF Nodes
<1>8. DictInv' /\ KeysKept
  BY <1>1, <1>5, <1>7 DEF DictInv, KeysKept
<1>9. MapOf(N \cup {h}, u) = IF replace \/ MapOf(N, tree)[h] = NULL
                             THEN [MapOf(N, tree) EXCEPT ![h] = v] ELSE MapOf(N, tree)
  BY <1>2, <1>3, InsertMap
<1> QED
  BY <1>1, <1>7, <1>8, <1>9

LEMMA RemovingStep ==
  ASSUME DictInv, NEW k \in Keys, DictRemove(k)
  PROVE  /\ DictInv' /\ KeysKept
         /\ MapOf(Nodes', tree') = [MapOf(Nodes, tree) EXCEPT ![Hash(k)] = NULL]
<1>1. Kempt(Nodes, tree, root)
  BY DEF DictInv, DictOK
<1>2. PICK h, u, s, N, z, w :
        /\ h = Hash(k) /\ u = tree' /\ s = root' /\ N = Nodes
        /\ z = Sink(Sunken(Headless(tree, root)), h) /\ w = z.tree
  OBVIOUS
<1>3. h \in Hashes /\ h \in Nat
  BY <1>2, DictAssumption DEF Hashes
<1>4. z = Sink([tree |-> WithHead, p |-> NIL, q |-> HEAD, dir |-> 1], h)
  BY <1>2 DEF Sunken, Headless, WithHead
<1>5. /\ copies' = copies /\ call'.op = "remove" /\ call'.ret = NULL
      /\ \/ root = NIL /\ tree' = tree /\ root' = root
         \/ root # NIL /\ h \notin N /\ Adopt(w)
         \/ root # NIL /\ h \in N /\ Adopt(Replace(z.tree, z.p, z.q, h))
  BY <1>2, <1>4 DEF DictRemove, Call
<1>6. RemoveDone(N, tree, u, s, h)
  <2>1. CASE root = NIL /\ tree' = tree /\ root' = root
    <3>1. N = {} /\ N \ {h} = {}
      BY <1>1, <1>2, <2>1, KemptParts
    <3>2. Kempt(N \ {h}, u, s)
      BY <1>1, <1>2, <2>1, <3>1
    <3> QED
      BY <3>1, <3>2 DEF RemoveDone
  <2>2. CASE root # NIL /\ h \notin N /\ Adopt(w)
    <3>1. u = Adopted(w) /\ s = w.link[HEAD][1]
      BY <1>2, <2>2 DEF Adopt, Adopted
    <3>2. RemoveDone(N, tree, Adopted(w), w.link[HEAD][1], h)
      BY <1>1, <1>2, <1>3, <2>2, RemoveNone
    <3> QED
      BY <3>1, <3>2
  <2>3. CASE root # NIL /\ h \in N /\ Adopt(Replace(z.tree, z.p, z.q, h))
    <3>1. PICK x : x = Replace(z.tree, z.p, z.q, h)
      OBVIOUS
    <3>2. u = Adopted(x) /\ s = x.link[HEAD][1]
      BY <1>2, <2>3, <3>1 DEF Adopt, Adopted
    <3>3. RemoveDone(N, tree, Adopted(x), x.link[HEAD][1], h)
      BY <1>1, <1>2, <2>3, <3>1, RemoveNode
    <3> QED
      BY <3>2, <3>3
  <2> QED
    BY <1>5, <2>1, <2>2, <2>3
<1>7. DictOK(N, tree, root, copies)
  BY <1>2 DEF DictInv
<1>8. DictOK(N \ {h}, u, s, copies)
  BY <1>6, <1>7, RemoveOK
<1>9. DOMAIN u.red = N \ {h}
  BY <1>8, NodesAre
<1>10. Nodes' = N \ {h}
  BY <1>2, <1>9 DEF Nodes
<1>11. DictInv' /\ KeysKept
  BY <1>2, <1>5, <1>8, <1>10 DEF DictInv, KeysKept
<1>12. MapOf(N \ {h}, u) = [MapOf(N, tree) EXCEPT ![h] = NULL]
  BY <1>6, RemoveMap
<1> QED
  BY <1>2, <1>10, <1>11, <1>12

LEMMA FreeingStep ==
  ASSUME DictInv, DictFree
  PROVE  /\ DictInv' /\ KeysKept
         /\ MapOf(Nodes', tree') = [h \in Hashes |-> NULL]
<1>1. /\ Kempt(Nodes, tree, root) /\ copies \in Nat /\ Cardinality(Nodes) <= copies
  BY DEF DictInv, DictOK
<1>2. PICK N, o, v, w : /\ N = Nodes /\ o = InOrder(tree, root)
                        /\ v = {o[i] : i \in DOMAIN o} /\ w = Drop(tree, v)
  OBVIOUS
<1>3. /\ tree' = w /\ root' = NIL /\ copies' = copies - Cardinality(v)
      /\ call'.op = "free" /\ call'.ret = NULL
  BY <1>2 DEF DictFree, Call
<1>4. v = N /\ Kempt({}, w, NIL)
  BY <1>1, <1>2, FreeEmpties
<1>5. DOMAIN w.red = {}
  BY <1>4, KemptParts
<1>6. Nodes' = {}
  BY <1>3, <1>5 DEF Nodes
<1>7. IsFiniteSet(N) /\ Cardinality(N) \in Nat /\ Cardinality({}) = 0
  BY <1>1, <1>2, KemptParts, FS_CardinalityType, FS_EmptySet
<1>8. copies' \in Nat /\ copies' - Cardinality(Nodes') = copies - Cardinality(Nodes)
  BY <1>1, <1>2, <1>3, <1>4, <1>6, <1>7
<1>9. Kempt(Nodes', tree', root') /\ Cardinality(Nodes') <= copies'
  BY <1>3, <1>4, <1>6, <1>7, <1>8
<1>10. DictInv' /\ KeysKept
  BY <1>3, <1>6, <1>8, <1>9 DEF DictInv, DictOK, KeysKept
<1> QED
  BY <1>6, <1>10 DEF MapOf


\* A call of dict.h keeps the invariant, and does what the two properties say.
LEMMA CallStep ==
  ASSUME DictInv, DictNext
  PROVE  DictInv' /\ KeysKept /\ MapStep
<1>1. [h \in Hashes |-> Search(h)] = MapOf(Nodes, tree)
  BY SearchIs
<1>2. ASSUME NEW k \in Keys, NEW v \in Data, DictInsert(k, v)
      PROVE  DictInv' /\ KeysKept /\ MapStep
  <2>1. /\ InsSearch(k, v, TRUE) /\ call'.op = "insert" /\ call'.key = k
        /\ call'.data = v /\ call'.ret \in Data \cup {NULL}
    BY <1>2 DEF DictInsert, Call
  <2>2. /\ DictInv' /\ KeysKept
        /\ MapOf(Nodes', tree') = [MapOf(Nodes, tree) EXCEPT ![Hash(k)] = v]
    BY <2>1, InsertingStep
  <2>3. [h \in Hashes |-> Search(h)]' = MapOf(Nodes', tree')
    BY <2>2, SearchIsNext
  <2>4. Map!Insert(Hash(k), v)
    BY <1>1, <2>2, <2>3 DEF Map!Insert
  <2> QED
    BY <2>1, <2>2, <2>4 DEF MapStep
<1>3. ASSUME NEW k \in Keys, NEW v \in Data, DictSearchInsert(k, v)
      PROVE  DictInv' /\ KeysKept /\ MapStep
  <2>1. /\ InsSearch(k, v, FALSE) /\ call'.op = "search_insert" /\ call'.key = k
        /\ call'.data = v /\ call'.ret \in Data \cup {NULL}
    BY <1>3 DEF DictSearchInsert, Call
  <2>2. /\ DictInv' /\ KeysKept
        /\ MapOf(Nodes', tree') =
             IF MapOf(Nodes, tree)[Hash(k)] = NULL
             THEN [MapOf(Nodes, tree) EXCEPT ![Hash(k)] = v] ELSE MapOf(Nodes, tree)
    BY <2>1, InsertingStep
  <2>3. [h \in Hashes |-> Search(h)]' = MapOf(Nodes', tree')
    BY <2>2, SearchIsNext
  <2>4. Map!SearchInsert(Hash(k), v)
    BY <1>1, <2>2, <2>3 DEF Map!SearchInsert, Map!Insert
  <2> QED
    BY <2>1, <2>2, <2>4 DEF MapStep
<1>4. ASSUME NEW k \in Keys, DictSearch(k)
      PROVE  DictInv' /\ KeysKept /\ MapStep
  <2>1. /\ call'.op = "search" /\ call'.key = k /\ call'.ret = Search(Hash(k))
        /\ UNCHANGED <<tree, root, copies>>
    BY <1>4 DEF DictSearch, Call
  <2>2. Hash(k) \in Hashes
    BY DEF Hashes
  <2>3. Search(Hash(k)) = [h \in Hashes |-> Search(h)][Hash(k)]
    BY <2>2
  <2>4. Search(Hash(k)) = MapOf(Nodes, tree)[Hash(k)]
    BY <1>1, <2>3
  <2>5. Search(Hash(k)) = IF Hash(k) \in Nodes THEN tree.data[Hash(k)] ELSE NULL
    BY <2>2, <2>4 DEF MapOf
  <2>6. tree \in Trees(Nodes)
    BY KemptParts DEF DictInv, DictOK
  <2>7. Search(Hash(k)) \in Data \cup {NULL}
    BY <2>5, <2>6 DEF Trees
  <2>8. Nodes' = Nodes
    BY <2>1 DEF Nodes
  <2>9. DictInv' /\ KeysKept
    BY <2>1, <2>7, <2>8 DEF DictInv, KeysKept
  <2>10. [h \in Hashes |-> Search(h)]' = MapOf(Nodes', tree')
    BY <2>9, SearchIsNext
  <2>11. Map!Search(Hash(k), call'.ret)
    BY <1>1, <2>1, <2>3, <2>8, <2>10 DEF Map!Search
  <2> QED
    BY <2>1, <2>9, <2>11 DEF MapStep
<1>5. ASSUME NEW k \in Keys, DictRemove(k)
      PROVE  DictInv' /\ KeysKept /\ MapStep
  <2>1. call'.op = "remove" /\ call'.key = k
    BY <1>5 DEF DictRemove, Call
  <2>2. /\ DictInv' /\ KeysKept
        /\ MapOf(Nodes', tree') = [MapOf(Nodes, tree) EXCEPT ![Hash(k)] = NULL]
    BY <1>5, RemovingStep
  <2>3. [h \in Hashes |-> Search(h)]' = MapOf(Nodes', tree')
    BY <2>2, SearchIsNext
  <2>4. Map!Remove(Hash(k))
    BY <1>1, <2>2, <2>3 DEF Map!Remove
  <2> QED
    BY <2>1, <2>2, <2>4 DEF MapStep
<1>6. ASSUME DictFree PROVE DictInv' /\ KeysKept /\ MapStep
  <2>1. call'.op = "free"
    BY <1>6 DEF DictFree, Call
  <2>2. DictInv' /\ KeysKept /\ MapOf(Nodes', tree') = [h \in Hashes |-> NULL]
    BY <1>6, FreeingStep
  <2>3. [h \in Hashes |-> Search(h)]' = MapOf(Nodes', tree')
    BY <2>2, SearchIsNext
  <2>4. Map!Clear
    BY <2>2, <2>3 DEF Map!Clear
  <2> QED
    BY <2>1, <2>2, <2>4 DEF MapStep
<1> QED
  BY <1>2, <1>3, <1>4, <1>5, <1>6 DEF DictNext

-----------------------------------------------------------------------------
(* Theorems *)

\* Between the calls the tree is a red-black search tree of the hashes, with
\* every node under the root and under one parent, and no fewer copies of keys
\* than nodes: of whatever size, and whatever dict_insert and dict_remove
\* rotated on the way down.
THEOREM DictInductive == DictSpec => []DictInv
<1>1. DictInit => DictInv
  BY DictInitInv
<1>2. DictInv /\ [DictNext]_dictVars => DictInv'
  <2> SUFFICES ASSUME DictInv, [DictNext]_dictVars PROVE DictInv'
    OBVIOUS
  <2>1. CASE DictNext
    BY <2>1, CallStep
  <2>2. CASE UNCHANGED dictVars
    BY <2>2 DEF dictVars, DictInv, Nodes
  <2> QED
    BY <2>1, <2>2
<1> QED
  BY <1>1, <1>2, PTL DEF DictSpec

\* No link leads to a freed node, the root is black, no red node has a red
\* child and all paths down have as many black nodes: a dictionary with any
\* number of keys stays balanced under inserts and removes in any order.
THEOREM Balanced == DictSpec => []RedBlack
<1>1. DictInv => RedBlack
  <2> SUFFICES ASSUME DictInv PROVE RedBlack
    OBVIOUS
  <2>1. /\ Kempt(Nodes, tree, root) /\ Nodes \subseteq Hashes
        /\ \A n \in Nodes : tree.key[n] \in Keys
        /\ copies \in Nat /\ call.ret \in Data \cup {NULL}
    BY DEF DictInv, DictOK
  <2>2. /\ tree \in Trees(Nodes) /\ root \in Nodes \cup {NIL} /\ ~IsRed(tree.red, root)
        /\ NoRedRed(Nodes, tree.link, tree.red) /\ BlackHeight(tree, root) # -1
        /\ \A n \in Nodes : \A d \in {0, 1} : tree.link[n][d] \in Nodes \cup {NIL}
    BY <2>1, KemptParts
  <2>3. \A n \in Nodes : tree.data[n] \in Data \cup {NULL}
    BY <2>2 DEF Trees
  <2>4. DictTypeOK
    BY <2>1, <2>2, <2>3 DEF DictTypeOK
  <2>5. ~Red(tree, root)
    BY <2>2 DEF Red, IsRed
  <2>6. \A n \in Nodes : \A d \in {0, 1} : tree.red[n] => ~Red(tree, tree.link[n][d])
    BY <2>2 DEF Red, IsRed, NoRedRed
  <2> QED
    BY <2>2, <2>4, <2>5, <2>6 DEF RedBlack
<1> QED
  BY <1>1, DictInductive, PTL

\* dict_foreach comes to every node, once, and in the order of the hashes.
THEOREM VisitsAll == DictSpec => []VisitsAllInOrder
<1>1. DictInv => VisitsAllInOrder
  <2> SUFFICES ASSUME DictInv PROVE VisitsAllInOrder
    OBVIOUS
  <2>1. Ascending(InOrder(tree, root), Nodes)
    BY KemptParts DEF DictInv, DictOK
  <2> QED
    BY <2>1 DEF Ascending, VisitsAllInOrder
<1> QED
  BY <1>1, DictInductive, PTL

\* No call but dict_remove leaves a node with a key that is not its own, or
\* leaks a copy of a key.
THEOREM KeysStay == DictSpec => KeysBelong
<1>1. DictInv /\ [DictNext]_dictVars => [KeysKept]_dictVars
  BY CallStep
<1> QED
  BY <1>1, DictInductive, PTL DEF DictSpec, KeysBelong, KeysKept

\* The tree implements the map of dict.h: each call changes what dict_search
\* finds as the call of that name on a map does, for any set of keys, with
\* hashes that collide.
THEOREM TreeIsMap == DictSpec => DictionarySpec
<1>1. DictInit => Map!Init
  <2> SUFFICES ASSUME DictInit PROVE Map!Init
    OBVIOUS
  <2>1. [h \in Hashes |-> Search(h)] = MapOf(Nodes, tree)
    BY DictInitInv, SearchIs
  <2>2. Nodes = {}
    BY DEF DictInit, NoNodes, Nodes
  <2> QED
    BY <2>1, <2>2 DEF Map!Init, MapOf
<1>2. DictInv /\ [DictNext]_dictVars => [MapStep]_dictVars
  BY CallStep
<1> QED
  BY <1>1, <1>2, DictInductive, PTL DEF DictSpec, DictionarySpec, MapStep
=============================================================================
