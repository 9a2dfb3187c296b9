--------------------------- MODULE LanguageProofs ---------------------------
(***************************************************************************)
(* Theorems about the language of the shell.                               *)
(*                                                                         *)
(* Syntax: every block of ast.c has one owner.  What is held by the stack  *)
(* and the program, H, stands apart from the memory m, so that a lemma     *)
(* about a constructor says what it does with any memory in good order:    *)
(* Good(m, H) before, and after it with the new structure among what is    *)
(* held.  A step of the parser is then a sequence of such calls.           *)
(*                                                                         *)
(* Values: the words of an int, for any width.                             *)
(***************************************************************************)
EXTENDS Syntax, Values, Lemmas, SequenceTheorems

-----------------------------------------------------------------------------
(* What is reached from a block, K being the kids of each block: the least *)
(* set that is closed.                                                     *)

ClosedUnder(K, C) == \A b \in C : K[b] \subseteq C

Reached(K, a) ==
  {b \in DOMAIN K : \A C \in SUBSET DOMAIN K : a \in C /\ ClosedUnder(K, C) => b \in C}

\* Nothing holds itself: going from kid to kid one comes to an end.
Grounded(K) == \A S \in SUBSET DOMAIN K : S # {} => \E a \in S : K[a] \cap S = {}

\* The closed set and its least member.
LEMMA ReachedClosed ==
  ASSUME NEW D, NEW K \in [D -> SUBSET D], NEW a \in D
  PROVE  /\ a \in Reached(K, a) /\ Reached(K, a) \subseteq D
         /\ ClosedUnder(K, Reached(K, a))
<1>1. ASSUME NEW b \in Reached(K, a), NEW c \in K[b] PROVE c \in Reached(K, a)
  BY <1>1 DEF Reached, ClosedUnder
<1> QED
  BY <1>1 DEF Reached, ClosedUnder

LEMMA ReachedLeast ==
  ASSUME NEW D, NEW K \in [D -> SUBSET D], NEW a \in D,
         NEW C \in SUBSET D, a \in C, ClosedUnder(K, C)
  PROVE  Reached(K, a) \subseteq C
BY DEF Reached

\* A block is reached from its owner, or is where one begins.
LEMMA ReachedByOwner ==
  ASSUME NEW D, NEW K \in [D -> SUBSET D], NEW a \in D, NEW x \in Reached(K, a), x # a
  PROVE  \E b \in Reached(K, a) : x \in K[b]
<1>1. SUFFICES ASSUME \A b \in Reached(K, a) : x \notin K[b] PROVE FALSE
  OBVIOUS
<1> DEFINE C == Reached(K, a) \ {x}
<1>2. C \in SUBSET D /\ a \in C /\ ClosedUnder(K, C)
  BY <1>1, ReachedClosed DEF ClosedUnder
<1> QED
  BY <1>2, ReachedLeast

\* The tree of a block is the block and the trees of its kids.
LEMMA ReachedUnfolds ==
  ASSUME NEW D, NEW K \in [D -> SUBSET D], NEW a \in D
  PROVE  Reached(K, a) = {a} \cup UNION {Reached(K, c) : c \in K[a]}
<1> DEFINE U == {a} \cup UNION {Reached(K, c) : c \in K[a]}
<1>1. \A c \in K[a] : c \in D /\ c \in Reached(K, a)
  BY ReachedClosed DEF ClosedUnder
<1>2. \A c \in K[a] : Reached(K, c) \subseteq Reached(K, a)
  BY <1>1, ReachedClosed, ReachedLeast
<1>3. U \subseteq Reached(K, a)
  BY <1>2, ReachedClosed
<1>4. U \in SUBSET D
  BY <1>3, ReachedClosed
<1>5. ASSUME NEW b \in U, NEW d \in K[b] PROVE d \in U
  <2>1. CASE b = a
    BY <1>1, <1>5, <2>1, ReachedClosed
  <2>2. CASE b # a
    <3>1. PICK c \in K[a] : b \in Reached(K, c)
      BY <1>5, <2>2
    <3>2. d \in Reached(K, c)
      BY <1>1, <1>5, <3>1, ReachedClosed DEF ClosedUnder
    <3> QED
      BY <3>1, <3>2
  <2> QED
    BY <2>1, <2>2
<1>6. Reached(K, a) \subseteq U
  <2>1. a \in U /\ ClosedUnder(K, U)
    BY <1>5 DEF ClosedUnder
  <2> HIDE DEF U
  <2> QED
    BY <1>4, <2>1, ReachedLeast
<1> QED
  BY <1>3, <1>6

LEMMA ReachedFrom ==
  ASSUME NEW D, NEW K \in [D -> SUBSET D], NEW a \in D, NEW x
  PROVE  x \in Reached(K, a) <=> x = a \/ \E c \in K[a] : x \in Reached(K, c)
<1>1. Reached(K, a) = {a} \cup UNION {Reached(K, c) : c \in K[a]}
  BY ReachedUnfolds
<1> QED
  BY <1>1, Zenon

LEMMA InUnion ==
  ASSUME NEW A, NEW B, NEW g, NEW a, A = {a} \cup UNION {g[c] : c \in B}, NEW x
  PROVE  x \in A <=> x = a \/ \E c \in B : x \in g[c]
BY Zenon

\* It is what the recursive definition of a tree defines.
LEMMA TreesAreReached ==
  ASSUME NEW D, NEW K \in [D -> SUBSET D], Grounded(K),
         NEW f, f = [b \in D |-> {b} \cup UNION {f[c] : c \in K[b]}]
  PROVE  \A a \in D : f[a] = Reached(K, a)
<1> DEFINE S == {a \in D : f[a] # Reached(K, a)}
<1>1. SUFFICES ASSUME S # {} PROVE FALSE
  OBVIOUS
<1>2. PICK a \in S : K[a] \cap S = {}
  BY <1>1 DEF Grounded
<1>3. ASSUME NEW c \in K[a] PROVE f[c] = Reached(K, c)
  <2>1. K[a] \in SUBSET D
    BY <1>2
  <2>2. c \in D /\ c \notin S
    BY <1>2, <1>3, <2>1
  <2> QED
    BY <2>2
<1>4. f[a] = {a} \cup UNION {f[c] : c \in K[a]}
  BY <1>2
<1>5. ASSUME NEW x PROVE x \in f[a] <=> x \in Reached(K, a)
  <2>1. a \in D
    BY <1>2
  <2>2. x \in f[a] <=> x = a \/ \E c \in K[a] : x \in f[c]
    BY <1>4, InUnion
  <2>3. x \in Reached(K, a) <=> x = a \/ \E c \in K[a] : x \in Reached(K, c)
    BY <2>1, ReachedFrom
  <2> QED
    BY <1>3, <2>2, <2>3, Zenon
<1>6. f[a] = Reached(K, a)
  BY <1>5, Zenon
<1> QED
  BY <1>2, <1>6

LEMMA TreesExist ==
  ASSUME NEW D, NEW K \in [D -> SUBSET D]
  PROVE  \E f : f = [b \in D |-> {b} \cup UNION {f[c] : c \in K[b]}]
<1> DEFINE f == [b \in D |-> Reached(K, b)]
<1>1. ASSUME NEW b \in D PROVE f[b] = {b} \cup UNION {f[c] : c \in K[b]}
  <2>1. \A c \in K[b] : f[c] = Reached(K, c)
    <3>1. \A c \in K[b] : c \in D
      OBVIOUS
    <3> QED
      BY <3>1
  <2>2. f[b] = Reached(K, b)
    OBVIOUS
  <2> HIDE DEF f
  <2>3. ASSUME NEW x
        PROVE  x \in f[b] <=> x \in {b} \cup UNION {f[c] : c \in K[b]}
    <3>1. x \in f[b] <=> x = b \/ \E c \in K[b] : x \in Reached(K, c)
      BY <2>2, ReachedFrom
    <3> QED
      BY <2>1, <3>1, Zenon
  <2> QED
    BY <2>3, Zenon
<1>2. f = [b \in D |-> {b} \cup UNION {f[c] : c \in K[b]}]
  BY <1>1
<1> QED
  BY <1>2

\* From of module Syntax, which is recursive, is the least closed set.
LEMMA FromIs ==
  ASSUME NEW D, NEW K \in [D -> SUBSET D], Grounded(K), NEW a \in D
  PROVE  From(K, a) = Reached(K, a)
<1> DEFINE IsTrees(f) == f = [b \in D |-> {b} \cup UNION {f[c] : c \in K[b]}]
           from == CHOOSE f : IsTrees(f)
<1>1. From(K, a) = from[a]
  BY DEF From
<1>2. \E f : IsTrees(f)
  BY ZenonT(60), TreesExist
<1> HIDE DEF IsTrees
<1>3. IsTrees(from)
  BY <1>2
<1> HIDE DEF from
<1>4. from = [b \in D |-> {b} \cup UNION {from[c] : c \in K[b]}]
  BY <1>3 DEF IsTrees
<1>5. from[a] = Reached(K, a)
  BY <1>4, TreesAreReached
<1> QED
  BY <1>1, <1>5

-----------------------------------------------------------------------------
(* Addresses *)

LEMMA PlaceGrows ==
  ASSUME NEW S \in SUBSET Nat, NEW a \in S
  PROVE  /\ IsFiniteSet({b \in S : b <= a})
         /\ Place(S, a) \in Nat \ {0}
         /\ \A c \in S : a < c => Place(S, a) < Place(S, c)
<1> DEFINE Upto(x) == {b \in S : b <= x}
<1>1. ASSUME NEW x \in Nat PROVE IsFiniteSet(Upto(x))
  <2>1. Upto(x) \in SUBSET Nat /\ \A y \in Upto(x) : y <= x
    OBVIOUS
  <2> QED
    BY <2>1, FS_BoundedSetOfNaturals
<1>2. a \in Upto(a) /\ Place(S, a) = Cardinality(Upto(a)) /\ a \in Nat
  BY DEF Place
<1>3. Cardinality(Upto(a)) \in Nat /\ Cardinality(Upto(a)) # 0
  <2> HIDE DEF Upto
  <2> QED
    BY <1>1, <1>2, FS_CardinalityType, FS_EmptySet
<1>4. ASSUME NEW c \in S, a < c PROVE Place(S, a) < Place(S, c)
  <2>1. Upto(a) \subseteq Upto(c) /\ c \in Upto(c) /\ c \notin Upto(a) /\ c \in Nat
    <3>1. \A b \in S : b \in Nat
      OBVIOUS
    <3>2. a \in Nat /\ c \in Nat /\ a \in S /\ c \in S
      OBVIOUS
    <3>3. \A b \in S : b <= a => b <= c
      BY <1>4, <3>1, <3>2
    <3>4. c <= c /\ ~(c <= a)
      BY <1>4, <3>2
    <3> QED
      BY <3>2, <3>3, <3>4
  <2>2. Place(S, c) = Cardinality(Upto(c))
    BY DEF Place
  <2> HIDE DEF Upto
  <2>3. IsFiniteSet(Upto(c)) /\ Upto(a) \in SUBSET Upto(c) /\ Upto(a) # Upto(c)
    BY <1>1, <2>1
  <2>4. Cardinality(Upto(a)) <= Cardinality(Upto(c)) /\ Cardinality(Upto(a)) # Cardinality(Upto(c))
    BY <2>3, FS_Subset
  <2>5. Cardinality(Upto(c)) \in Nat
    BY <2>3, FS_CardinalityType
  <2> QED
    BY <1>2, <1>3, <2>2, <2>4, <2>5
<1>5. IsFiniteSet(Upto(a))
  BY <1>1, <1>2
<1> QED
  BY <1>2, <1>3, <1>4, <1>5

LEMMA NthOf ==
  ASSUME NEW S \in SUBSET Nat, NEW F \in SUBSET S, IsFiniteSet(F),
         NEW n \in Nat \ {0}, n <= Cardinality(F)
  PROVE  Nth(S, n) \in S /\ Place(S, Nth(S, n)) = n
<1> DEFINE Places == {k \in Nat : k < n => \E a \in S : Place(S, a) = k + 1}
<1>0. Cardinality(F) \in Nat /\ \A G : IsFiniteSet(G) /\ Cardinality(G) < n => F \ G # {}
  <2>1. Cardinality(F) \in Nat
    BY FS_CardinalityType
  <2>2. ASSUME NEW G, IsFiniteSet(G), Cardinality(G) < n, F \ G = {} PROVE FALSE
    <3>1. F \in SUBSET G
      BY <2>2
    <3>2. Cardinality(F) <= Cardinality(G) /\ Cardinality(G) \in Nat
      BY <2>2, <3>1, FS_Subset, FS_CardinalityType
    <3> QED
      BY <2>1, <2>2, <3>2
  <2> QED
    BY <2>1, <2>2
<1>1. 0 \in Places
  <2>1. S # {}
    <3>1. F \ {} # {}
      BY <1>0, FS_EmptySet
    <3> QED
      BY <3>1
  <2>2. PICK a \in S : \A b \in S : a <= b
    BY <2>1, Least
  <2>3. {b \in S : b <= a} = {a}
    <3>1. ASSUME NEW b \in S PROVE b <= a <=> b = a
      <4>1. b \in Nat /\ a \in Nat /\ a <= b
        BY <2>2
      <4> QED
        BY <4>1
    <3> QED
      BY <3>1
  <2>4. Cardinality({a}) = 1
    BY FS_Singleton
  <2>5. Place(S, a) = 0 + 1
    BY <2>3, <2>4 DEF Place
  <2> QED
    BY <2>5
<1>2. ASSUME NEW k \in Nat, k \in Places PROVE k + 1 \in Places
  <2>0. SUFFICES ASSUME k + 1 < n PROVE \E c \in S : Place(S, c) = (k + 1) + 1
    OBVIOUS
  <2>1. PICK a \in S : Place(S, a) = k + 1
    BY <1>2, <2>0
  <2> DEFINE R == {b \in S : b > a}
             U == {b \in S : b <= a}
  <2>2. IsFiniteSet(U) /\ Cardinality(U) = k + 1
    BY <2>1, PlaceGrows DEF Place
  <2>3. R # {}
    <3>1. F \ U # {}
      BY <1>0, <2>0, <2>2
    <3>2. PICK b \in F : b \notin U
      BY <3>1
    <3>3. b \in S /\ a \in Nat /\ b \in Nat /\ ~(b <= a)
      BY <3>2
    <3> QED
      BY <3>3
  <2>4. PICK c \in R : \A b \in R : c <= b
    BY <2>3, Least
  <2>5. {b \in S : b <= c} = U \cup {c} /\ c \notin U
    <3>1. ASSUME NEW b \in S PROVE b <= c <=> b <= a \/ b = c
      <4>1. b \in Nat /\ a \in Nat /\ c \in Nat /\ c > a /\ (b > a => c <= b)
        BY <2>4
      <4> QED
        BY <4>1
    <3>2. c \in S /\ ~(c <= a)
      BY <2>4
    <3> QED
      BY <3>1, <3>2
  <2>6. Cardinality(U \cup {c}) = (k + 1) + 1
    <3> HIDE DEF U
    <3> QED
      BY <2>2, <2>5, FS_AddElement
  <2>7. Place(S, c) = (k + 1) + 1 /\ c \in S
    BY <2>4, <2>5, <2>6 DEF Place
  <2> QED
    BY <2>7
<1>3. Nat \subseteq Places
  <2> HIDE DEF Places
  <2> QED
    BY <1>1, <1>2, UpTo
<1>4. n - 1 \in Nat /\ (n - 1) + 1 = n /\ n - 1 < n
  OBVIOUS
<1>5. PICK a \in S : Place(S, a) = n
  BY <1>3, <1>4
<1> QED
  BY <1>5 DEF Nth

\* The number of blocks in use, and that at least n blocks are free.
Size(m) == Cardinality(DOMAIN m.node)
Room(m, n) == \E F \in SUBSET Free(m) : IsFiniteSet(F) /\ n <= Cardinality(F)

LEMMA RoomFor ==
  ASSUME NEW m, NEW n \in Nat, Room(m, n), NEW k \in Nat, k <= n
  PROVE  Room(m, k)
<1>1. PICK F \in SUBSET Free(m) : IsFiniteSet(F) /\ n <= Cardinality(F)
  BY DEF Room
<1>2. Cardinality(F) \in Nat
  BY <1>1, FS_CardinalityType
<1> QED
  BY <1>1, <1>2 DEF Room

\* With x blocks more in use at most x are no longer free.
LEMMA RoomLeft ==
  ASSUME NEW m, NEW f, IsFiniteSet(DOMAIN m.node), IsFiniteSet(DOMAIN f.node),
         DOMAIN m.node \subseteq DOMAIN f.node, NEW x \in Nat, Size(f) <= Size(m) + x,
         NEW n \in Nat, Room(m, n + x)
  PROVE  Room(f, n)
<1>1. PICK F \in SUBSET Free(m) : IsFiniteSet(F) /\ n + x <= Cardinality(F)
  BY DEF Room
<1> DEFINE D == DOMAIN m.node
           E == DOMAIN f.node
           N == E \ D
           G == F \ N
<1>2. G \in SUBSET Free(f)
  BY <1>1 DEF Free
<1>3. /\ IsFiniteSet(D) /\ IsFiniteSet(E) /\ D \in SUBSET E /\ E \cap D = D
      /\ Size(m) = Cardinality(D) /\ Size(f) = Cardinality(E)
  BY DEF Size
<1> HIDE DEF D, E
<1>4. IsFiniteSet(N) /\ Cardinality(N) = Cardinality(E) - Cardinality(D)
  <2>1. IsFiniteSet(E \ D) /\ Cardinality(E \ D) = Cardinality(E) - Cardinality(E \cap D)
    BY <1>3, FS_Difference
  <2> QED
    BY <1>3, <2>1
<1>5. Cardinality(D) \in Nat /\ Cardinality(E) \in Nat
  BY <1>3, FS_CardinalityType
<1> HIDE DEF N
<1>6. IsFiniteSet(G) /\ Cardinality(G) = Cardinality(F) - Cardinality(F \cap N)
  BY <1>1, FS_Difference
<1>7. Cardinality(F \cap N) <= Cardinality(N)
  BY <1>4, FS_Intersection
<1>8. Cardinality(F) \in Nat /\ Cardinality(F \cap N) \in Nat
  <2>1. IsFiniteSet(F \cap N)
    BY <1>4, FS_Intersection
  <2> QED
    BY <1>1, <2>1, FS_CardinalityType
<1>9. n <= Cardinality(G)
  BY <1>1, <1>3, <1>4, <1>5, <1>6, <1>7, <1>8
<1> HIDE DEF G
<1> QED
  BY <1>2, <1>6, <1>9 DEF Room

LEMMA FreeBlocks ==
  ASSUME NEW m, Room(m, 1)
  PROVE  NULL \notin Free(m) /\ Nth(Free(m), 1) \in Free(m)
<1>1. Free(m) \in SUBSET Nat /\ NULL \notin Free(m)
  BY SyntaxAssumption DEF Free
<1>2. PICK F \in SUBSET Free(m) : IsFiniteSet(F) /\ 1 <= Cardinality(F)
  BY DEF Room
<1> QED
  BY <1>1, <1>2, NthOf

\* There is a free block for every one of T.
LEMMA NewPlaces ==
  ASSUME NEW m, NEW T \in SUBSET Nat, IsFiniteSet(T), Room(m, Cardinality(T))
  PROVE  /\ \A b \in T : Nth(Free(m), Place(T, b)) \in Free(m)
         /\ \A b, c \in T : Nth(Free(m), Place(T, b)) = Nth(Free(m), Place(T, c)) => b = c
<1>1. Free(m) \in SUBSET Nat
  BY SyntaxAssumption DEF Free
<1>2. ASSUME NEW b \in T
      PROVE  Place(T, b) \in Nat \ {0} /\ Place(T, b) <= Cardinality(T)
  <2>1. {c \in T : c <= b} \in SUBSET T
    OBVIOUS
  <2>2. Cardinality({c \in T : c <= b}) <= Cardinality(T)
    BY <2>1, FS_Subset
  <2> QED
    BY <2>2, PlaceGrows DEF Place
<1>3. ASSUME NEW b \in T
      PROVE  /\ Nth(Free(m), Place(T, b)) \in Free(m)
             /\ Place(Free(m), Nth(Free(m), Place(T, b))) = Place(T, b)
  <2>1. PICK F \in SUBSET Free(m) : IsFiniteSet(F) /\ Cardinality(T) <= Cardinality(F)
    BY DEF Room
  <2>2. Place(T, b) \in Nat \ {0} /\ Place(T, b) <= Cardinality(F)
    <3>1. Cardinality(T) \in Nat /\ Cardinality(F) \in Nat
      BY <2>1, FS_CardinalityType
    <3> QED
      BY <1>2, <2>1, <3>1
  <2> QED
    BY <1>1, <2>1, <2>2, NthOf
<1>4. ASSUME NEW b \in T, NEW c \in T, Place(T, b) = Place(T, c) PROVE b = c
  <2>1. b < c => Place(T, b) < Place(T, c)
    BY PlaceGrows
  <2>2. c < b => Place(T, c) < Place(T, b)
    BY PlaceGrows
  <2>3. b \in Nat /\ c \in Nat /\ Place(T, b) \in Nat /\ Place(T, c) \in Nat
    BY <1>2
  <2> QED
    BY <1>4, <2>1, <2>2, <2>3
<1> QED
  BY <1>3, <1>4

-----------------------------------------------------------------------------
(* A memory in good order *)

Kinds == Expressions \cup Statements \cup {"cell", "text", "buffer"}

KindIn(m, a) ==
  IF a = NULL THEN "NULL" ELSE IF a \in DOMAIN m.node THEN m.node[a].kind ELSE "free"

\* Every pointer leads to a structure of the type of its field.
WellFormed(m) ==
  /\ m = [node |-> m.node, lost |-> m.lost]
  /\ DOMAIN m.node \subseteq Blocks /\ IsFiniteSet(DOMAIN m.node)
  /\ m.node \in [DOMAIN m.node -> [kind : Kinds, kids : Seq(Nat)]]
  /\ \A a \in DOMAIN m.node :
       LET f == Fields(m.node[a].kind) IN
       /\ Len(m.node[a].kids) = Len(f)
       /\ \A i \in DOMAIN f : KindIn(m, m.node[a].kids[i]) \in f[i]
  /\ m.lost \subseteq DOMAIN m.node

\* One field points to a block, or somebody else, H being what others hold, or
\* the block is lost.  No block holds itself, and all can be come to.
Owned(m, H) ==
  /\ H \subseteq DOMAIN m.node /\ H \cap m.lost = {}
  /\ \A a \in DOMAIN m.node : \A i \in DOMAIN m.node[a].kids :
       m.node[a].kids[i] \notin H \cup m.lost
  /\ \A a, b \in DOMAIN m.node :
       \A i \in DOMAIN m.node[a].kids, j \in DOMAIN m.node[b].kids :
         m.node[a].kids[i] = m.node[b].kids[j] /\ m.node[a].kids[i] # NULL => a = b /\ i = j
  /\ Grounded(KidsOf(m))
  /\ \A C \in SUBSET DOMAIN m.node :
       m.lost \cup H \subseteq C /\ ClosedUnder(KidsOf(m), C) => DOMAIN m.node \subseteq C

Good(m, H) == WellFormed(m) /\ Owned(m, H)

\* n is m and more blocks.
Extends(m, n) ==
  /\ DOMAIN m.node \subseteq DOMAIN n.node /\ n.lost = m.lost
  /\ \A a \in DOMAIN m.node : n.node[a] = m.node[a]

LEMMA KindNames ==
  "NULL" \notin Kinds /\ "free" \notin Kinds /\ Literals \subseteq Kinds
BY GrammarAssumption DEF Kinds, Expressions, Statements, Operators

\* The fields of a structure, two at most.
LEMMA FieldKinds ==
  ASSUME NEW k \in Kinds
  PROVE  /\ Fields(k) \in Seq(SUBSET (Kinds \cup {"NULL"})) /\ Len(Fields(k)) \in 0..2
         /\ \A i \in DOMAIN Fields(k) : Fields(k)[i] \subseteq Kinds \cup {"NULL"}
<1> DEFINE E == Expressions
           T == Kinds \cup {"NULL"}
<1>1. {"text"} \subseteq T /\ E \subseteq T /\ {"cell", "NULL"} \subseteq T
      /\ E \cup Statements \subseteq T
  BY DEF Kinds
<1>2. \/ Fields(k) = <<{"text"}>> \/ Fields(k) = <<E>> \/ Fields(k) = <<E, E>>
      \/ Fields(k) = <<E, {"text"}>> \/ Fields(k) = <<{"text"}, E>>
      \/ Fields(k) = <<{"cell", "NULL"}>> \/ Fields(k) = <<E \cup Statements, {"cell", "NULL"}>>
      \/ Fields(k) = <<>>
  BY DEF Fields
<1> HIDE DEF E, T
<1>3. ASSUME NEW S \in SUBSET T, NEW R \in SUBSET T
      PROVE  /\ <<S>> \in Seq(SUBSET T) /\ Len(<<S>>) \in 0..2
             /\ <<S, R>> \in Seq(SUBSET T) /\ Len(<<S, R>>) \in 0..2
             /\ <<>> \in Seq(SUBSET T) /\ Len(<<>>) \in 0..2
  OBVIOUS
<1>4. Fields(k) \in Seq(SUBSET T) /\ Len(Fields(k)) \in 0..2
  <2>1. \A S \in SUBSET T : Fields(k) = <<S>> => Fields(k) \in Seq(SUBSET T) /\ Len(Fields(k)) \in 0..2
    BY <1>3
  <2>2. \A S, R \in SUBSET T :
          Fields(k) = <<S, R>> => Fields(k) \in Seq(SUBSET T) /\ Len(Fields(k)) \in 0..2
    BY <1>3
  <2>3. Fields(k) = <<>> => Fields(k) \in Seq(SUBSET T) /\ Len(Fields(k)) \in 0..2
    BY <1>3
  <2> QED
    BY <1>1, <1>2, <2>1, <2>2, <2>3, Zenon
<1>5. \A i \in DOMAIN Fields(k) : Fields(k)[i] \subseteq T
  BY <1>4
<1> QED
  BY <1>4, <1>5 DEF T

\* The kids of a block are what its fields point to.
LEMMA KidsAre ==
  ASSUME NEW m, WellFormed(m)
  PROVE  /\ KidsOf(m) \in [DOMAIN m.node -> SUBSET DOMAIN m.node]
         /\ \A a \in DOMAIN m.node :
              /\ KidsOf(m)[a] = Kids(m, a)
              /\ \A x \in Kids(m, a) : x \in Blocks /\ x # NULL
              /\ \A x \in Kids(m, a) : \E i \in DOMAIN m.node[a].kids : m.node[a].kids[i] = x
              /\ \A i \in DOMAIN m.node[a].kids :
                   m.node[a].kids[i] = NULL \/ m.node[a].kids[i] \in Kids(m, a)
<1>1. KidsOf(m) \in [DOMAIN m.node -> SUBSET DOMAIN m.node]
  BY DEF KidsOf, Kids
<1>2. ASSUME NEW a \in DOMAIN m.node, NEW x \in Kids(m, a)
      PROVE  x \in Blocks /\ x # NULL /\ \E i \in DOMAIN m.node[a].kids : m.node[a].kids[i] = x
  BY <1>2, SyntaxAssumption DEF Kids, Range, WellFormed
<1>3. ASSUME NEW a \in DOMAIN m.node, NEW i \in DOMAIN m.node[a].kids
      PROVE  m.node[a].kids[i] = NULL \/ m.node[a].kids[i] \in Kids(m, a)
  <2>1. /\ m.node[a].kind \in Kinds /\ m.node[a].kids \in Seq(Nat)
        /\ Len(m.node[a].kids) = Len(Fields(m.node[a].kind))
        /\ \A j \in DOMAIN Fields(m.node[a].kind) :
             KindIn(m, m.node[a].kids[j]) \in Fields(m.node[a].kind)[j]
    BY DEF WellFormed
  <2>2. i \in DOMAIN Fields(m.node[a].kind)
    BY <1>3, <2>1, FieldKinds
  <2>3. KindIn(m, m.node[a].kids[i]) \in Kinds \cup {"NULL"}
    BY <2>1, <2>2, FieldKinds
  <2>4. KindIn(m, m.node[a].kids[i]) # "free"
    BY <2>3, KindNames
  <2>5. m.node[a].kids[i] = NULL \/ m.node[a].kids[i] \in DOMAIN m.node
    BY <2>4 DEF KindIn
  <2> QED
    BY <1>3, <2>5 DEF Kids, Range
<1>4. \A a \in DOMAIN m.node : KidsOf(m)[a] = Kids(m, a)
  BY DEF KidsOf
<1> QED
  BY <1>1, <1>2, <1>3, <1>4

\* The types after blocks were added.
LEMMA GrownWellFormed ==
  ASSUME NEW m, WellFormed(m), NEW n, Extends(m, n),
         n = [node |-> n.node, lost |-> n.lost],
         n.node = [a \in DOMAIN n.node |-> n.node[a]],
         DOMAIN n.node \subseteq Blocks, IsFiniteSet(DOMAIN n.node),
         \A a \in DOMAIN n.node \ DOMAIN m.node :
           /\ n.node[a] \in [kind : Kinds, kids : Seq(Nat)]
           /\ Len(n.node[a].kids) = Len(Fields(n.node[a].kind))
           /\ \A i \in DOMAIN Fields(n.node[a].kind) :
                KindIn(n, n.node[a].kids[i]) \in Fields(n.node[a].kind)[i]
  PROVE  WellFormed(n)
<1>1. ASSUME NEW a \in DOMAIN n.node
      PROVE  /\ n.node[a] \in [kind : Kinds, kids : Seq(Nat)]
             /\ Len(n.node[a].kids) = Len(Fields(n.node[a].kind))
             /\ \A i \in DOMAIN Fields(n.node[a].kind) :
                  KindIn(n, n.node[a].kids[i]) \in Fields(n.node[a].kind)[i]
  <2>1. CASE a \notin DOMAIN m.node
    BY <2>1
  <2>2. CASE a \in DOMAIN m.node
    <3>1. /\ n.node[a] = m.node[a] /\ n.node[a] \in [kind : Kinds, kids : Seq(Nat)]
          /\ Len(n.node[a].kids) = Len(Fields(n.node[a].kind))
      BY <2>2 DEF Extends, WellFormed
    <3>2. ASSUME NEW i \in DOMAIN Fields(n.node[a].kind)
          PROVE  KindIn(n, n.node[a].kids[i]) \in Fields(n.node[a].kind)[i]
      <4>1. KindIn(m, m.node[a].kids[i]) \in Fields(m.node[a].kind)[i]
        BY <2>2, <3>1, <3>2 DEF WellFormed
      <4>2. i \in DOMAIN m.node[a].kids
        BY <3>1, <3>2, FieldKinds
      <4>3. m.node[a].kids[i] = NULL \/ m.node[a].kids[i] \in DOMAIN m.node
        BY <2>2, <4>2, KidsAre DEF Kids
      <4>4. KindIn(n, m.node[a].kids[i]) = KindIn(m, m.node[a].kids[i])
        BY <4>3 DEF KindIn, Extends
      <4> QED
        BY <3>1, <4>1, <4>4
    <3> QED
      BY <3>1, <3>2
  <2> QED
    BY <2>1, <2>2
<1>2. n.node \in [DOMAIN n.node -> [kind : Kinds, kids : Seq(Nat)]]
  <2> DEFINE R == [kind : Kinds, kids : Seq(Nat)]
             D == DOMAIN n.node
  <2>1. \A a \in D : n.node[a] \in R
    BY <1>1
  <2>2. n.node = [a \in D |-> n.node[a]]
    OBVIOUS
  <2> HIDE DEF R, D
  <2>3. [a \in D |-> n.node[a]] \in [D -> R]
    BY <2>1
  <2>4. n.node \in [D -> R]
    BY <2>2, <2>3
  <2> QED
    BY <2>4 DEF R, D
<1>3. n.lost \subseteq DOMAIN n.node
  BY DEF Extends, WellFormed
<1> QED
  BY <1>1, <1>2, <1>3 DEF WellFormed

\* Old blocks keep their kids.
LEMMA OldKids ==
  ASSUME NEW m, NEW n, WellFormed(m), Extends(m, n), DOMAIN n.node \subseteq Blocks
  PROVE  \A a \in DOMAIN m.node : Kids(n, a) = Kids(m, a)
<1> SUFFICES ASSUME NEW a \in DOMAIN m.node PROVE Kids(n, a) = Kids(m, a)
  OBVIOUS
<1>1. n.node[a] = m.node[a] /\ DOMAIN m.node \subseteq DOMAIN n.node
  BY DEF Extends
<1>2. ASSUME NEW x \in Kids(n, a) PROVE x \in Kids(m, a)
  <2>1. PICK i \in DOMAIN m.node[a].kids : x = m.node[a].kids[i]
    BY <1>1, <1>2 DEF Kids, Range
  <2>2. x # NULL
    BY <1>2, SyntaxAssumption DEF Kids
  <2> QED
    BY <2>1, <2>2, KidsAre
<1>3. Kids(m, a) \subseteq Kids(n, a)
  BY <1>1 DEF Kids
<1> QED
  BY <1>2, <1>3

-----------------------------------------------------------------------------
(* A new structure takes what it points to from whoever held it *)

LEMMA NewDoes ==
  ASSUME NEW m, WellFormed(m), Room(m, 1), NEW kind, NEW kids, NEW r, r = New(m, kind, kids)
  PROVE  /\ r.val \in Blocks /\ r.val # NULL /\ r.val \notin DOMAIN m.node
         /\ r.mem = [node |-> r.mem.node, lost |-> r.mem.lost]
         /\ DOMAIN r.mem.node = DOMAIN m.node \cup {r.val}
         /\ IsFiniteSet(DOMAIN r.mem.node) /\ DOMAIN r.mem.node \subseteq Blocks
         /\ r.mem.node = [a \in DOMAIN r.mem.node |-> r.mem.node[a]]
         /\ r.mem.node[r.val] = [kind |-> kind, kids |-> kids]
         /\ Extends(m, r.mem)
<1> DEFINE a == Nth(Free(m), 1)
           node2 == [b \in DOMAIN m.node \cup {a} |->
                       IF b = a THEN [kind |-> kind, kids |-> kids] ELSE m.node[b]]
<1>1. a \in Free(m) /\ NULL \notin Free(m)
  BY FreeBlocks DEF WellFormed
<1>2. a \in Blocks /\ a # NULL /\ a \notin DOMAIN m.node
  BY <1>1 DEF Free
<1>3. r.val = a /\ r.mem = [m EXCEPT !.node = node2]
  BY DEF New
<1>4. r.mem = [node |-> node2, lost |-> m.lost]
  BY <1>3 DEF WellFormed
<1> HIDE DEF a
<1>5. /\ DOMAIN node2 = DOMAIN m.node \cup {a}
      /\ node2 = [b \in DOMAIN node2 |-> node2[b]]
      /\ node2[a] = [kind |-> kind, kids |-> kids]
      /\ \A b \in DOMAIN m.node : node2[b] = m.node[b]
  BY <1>2
<1>6. IsFiniteSet(DOMAIN m.node \cup {a})
  <2> DEFINE D == DOMAIN m.node
  <2>1. IsFiniteSet(D)
    BY DEF WellFormed
  <2> HIDE DEF D
  <2>2. IsFiniteSet(D \cup {a})
    BY <2>1, FS_AddElement
  <2> QED
    BY <2>2 DEF D
<1> HIDE DEF node2
<1>7. Extends(m, r.mem)
  BY <1>4, <1>5 DEF Extends
<1> QED
  BY <1>2, <1>3, <1>4, <1>5, <1>6, <1>7 DEF WellFormed

LEMMA NewOwned ==
  ASSUME NEW m, NEW H, Good(m, H), NEW n, WellFormed(n), Extends(m, n),
         NEW a, a \in Blocks, a \notin DOMAIN m.node, DOMAIN n.node = DOMAIN m.node \cup {a},
         NEW kids, kids = n.node[a].kids,
         \A i \in DOMAIN kids : kids[i] = NULL \/ kids[i] \in H,
         \A i, j \in DOMAIN kids : kids[i] = kids[j] /\ kids[i] # NULL => i = j
  PROVE  Owned(n, (H \ Range(kids)) \cup {a})
<1> DEFINE G == (H \ Range(kids)) \cup {a}
           D == DOMAIN m.node
           E == DOMAIN n.node
<1>1. /\ H \subseteq D /\ H \cap m.lost = {} /\ m.lost \subseteq D /\ n.lost = m.lost
      /\ NULL \notin Blocks /\ D \subseteq Blocks /\ E \subseteq Blocks /\ a \in E /\ E = D \cup {a}
      /\ \A b \in D : n.node[b] = m.node[b]
  BY SyntaxAssumption DEF Good, WellFormed, Owned, Extends
<1>2. G \subseteq E /\ G \cap n.lost = {}
  BY <1>1
<1>3. \A b \in D : \A i \in DOMAIN n.node[b].kids :
        /\ n.node[b].kids[i] = NULL \/ n.node[b].kids[i] \in D
        /\ n.node[b].kids[i] \notin H /\ n.node[b].kids[i] \notin m.lost
  BY <1>1, KidsAre DEF Good, Owned, Kids
<1>4. ASSUME NEW b \in E, NEW i \in DOMAIN n.node[b].kids
      PROVE  n.node[b].kids[i] \notin G \cup n.lost
  <2>1. CASE b \in D
    BY <1>1, <1>3, <1>4, <2>1
  <2>2. CASE b = a
    <3>1. i \in DOMAIN kids /\ n.node[b].kids[i] = kids[i] /\ kids[i] \in Range(kids)
      BY <1>4, <2>2 DEF Range
    <3>2. kids[i] = NULL \/ kids[i] \in H
      BY <3>1
    <3> QED
      BY <1>1, <3>1, <3>2
  <2> QED
    BY <1>1, <2>1, <2>2
<1>5. ASSUME NEW b \in E, NEW c \in E,
             NEW i \in DOMAIN n.node[b].kids, NEW j \in DOMAIN n.node[c].kids,
             n.node[b].kids[i] = n.node[c].kids[j], n.node[b].kids[i] # NULL
      PROVE  b = c /\ i = j
  <2>1. CASE b \in D /\ c \in D
    <3>1. n.node[b] = m.node[b] /\ n.node[c] = m.node[c]
      BY <1>1, <2>1
    <3>2. i \in DOMAIN m.node[b].kids /\ j \in DOMAIN m.node[c].kids
          /\ m.node[b].kids[i] = m.node[c].kids[j] /\ m.node[b].kids[i] # NULL
      BY <1>5, <3>1
    <3> QED
      BY <2>1, <3>2 DEF Good, Owned
  <2>2. CASE b \in D /\ c = a
    <3>1. n.node[b].kids[i] \notin H
      BY <1>3, <1>5, <2>2
    <3>2. kids[j] \in H
      BY <1>5, <2>2
    <3> QED
      BY <1>5, <2>2, <3>1, <3>2
  <2>3. CASE b = a /\ c \in D
    <3>1. n.node[c].kids[j] \notin H
      BY <1>3, <1>5, <2>3
    <3>2. kids[i] \in H
      BY <1>5, <2>3
    <3> QED
      BY <1>5, <2>3, <3>1, <3>2
  <2>4. CASE b = a /\ c = a
    BY <1>5, <2>4
  <2> QED
    BY <1>1, <2>1, <2>2, <2>3, <2>4
<1>6. /\ \A b \in D : KidsOf(n)[b] = KidsOf(m)[b] /\ KidsOf(n)[b] \subseteq D
      /\ KidsOf(n)[a] \subseteq H /\ \A x \in H \cap Range(kids) : x \in KidsOf(n)[a]
      /\ KidsOf(n) \in [E -> SUBSET E] /\ KidsOf(m) \in [D -> SUBSET D]
  <2>1. KidsOf(n) \in [E -> SUBSET E] /\ KidsOf(m) \in [D -> SUBSET D]
    BY KidsAre DEF Good
  <2>2. ASSUME NEW b \in D PROVE KidsOf(n)[b] = KidsOf(m)[b] /\ KidsOf(n)[b] \subseteq D
    <3>1. KidsOf(n)[b] = Kids(n, b) /\ KidsOf(m)[b] = Kids(m, b)
      BY <1>1, KidsAre DEF Good
    <3>2. Kids(n, b) = Kids(m, b)
      BY <1>1, OldKids DEF Good
    <3> QED
      BY <2>1, <3>1, <3>2
  <2>3. KidsOf(n)[a] = Kids(n, a)
    BY <1>1, KidsAre
  <2>4. ASSUME NEW x \in Kids(n, a) PROVE x \in H
    <3>1. x # NULL /\ \E i \in DOMAIN kids : kids[i] = x
      BY <1>1, <2>4, KidsAre
    <3> QED
      BY <3>1
  <2>5. \A x \in H \cap Range(kids) : x \in Kids(n, a)
    BY <1>1 DEF Kids
  <2> QED
    BY <2>1, <2>2, <2>3, <2>4, <2>5
<1>7. Grounded(KidsOf(n))
  <2>1. SUFFICES ASSUME NEW S \in SUBSET E, S # {}
                 PROVE  \E b \in S : KidsOf(n)[b] \cap S = {}
    BY <1>6 DEF Grounded
  <2>2. CASE S \cap D = {}
    <3>1. S = {a}
      BY <1>1, <2>1, <2>2
    <3> QED
      BY <1>1, <1>6, <3>1
  <2>3. CASE S \cap D # {}
    <3>1. PICK b \in S \cap D : KidsOf(m)[b] \cap (S \cap D) = {}
      BY <1>6, <2>3 DEF Good, Owned, Grounded
    <3> QED
      BY <1>6, <3>1
  <2> QED
    BY <2>2, <2>3
<1>8. ASSUME NEW C \in SUBSET E, n.lost \cup G \subseteq C, ClosedUnder(KidsOf(n), C)
      PROVE  E \subseteq C
  <2>1. a \in C /\ KidsOf(n)[a] \subseteq C
    BY <1>8 DEF ClosedUnder
  <2>2. H \subseteq C
    BY <1>6, <1>8, <2>1
  <2>3. ClosedUnder(KidsOf(m), C \cap D)
    BY <1>6, <1>8 DEF ClosedUnder
  <2>4. m.lost \cup H \subseteq C \cap D
    BY <1>1, <1>8, <2>2
  <2>5. D \subseteq C \cap D
    BY <2>3, <2>4 DEF Good, Owned
  <2> QED
    BY <1>1, <2>1, <2>5
<1> QED
  BY <1>2, <1>4, <1>5, <1>7, <1>8 DEF Owned

\* r is the memory m and a new structure.
LEMMA SizeIs ==
  ASSUME NEW m, IsFiniteSet(DOMAIN m.node)
  PROVE  Size(m) \in Nat
BY FS_CardinalityType DEF Size

LEMMA StillRoom ==
  ASSUME NEW m, WellFormed(m), NEW f, WellFormed(f), DOMAIN m.node \subseteq DOMAIN f.node,
         NEW n \in Nat, NEW k \in Nat, Room(m, n), Size(f) + k <= Size(m) + n, Size(m) <= Size(f)
  PROVE  Room(f, k)
<1>1. Size(m) \in Nat /\ Size(f) \in Nat /\ IsFiniteSet(DOMAIN m.node) /\ IsFiniteSet(DOMAIN f.node)
  BY SizeIs DEF WellFormed
<1>2. PICK x \in Nat : x = Size(f) - Size(m)
  BY <1>1
<1>3. Room(m, k + x)
  <2>1. k + x \in Nat /\ k + x <= n
    BY <1>1, <1>2
  <2> QED
    BY <2>1, RoomFor
<1>4. Size(f) <= Size(m) + x
  BY <1>1, <1>2
<1> QED
  BY <1>1, <1>3, <1>4, RoomLeft

\* Memory that grew is larger.
LEMMA SizeGrows ==
  ASSUME NEW m, WellFormed(m), NEW f, WellFormed(f), DOMAIN m.node \subseteq DOMAIN f.node
  PROVE  Size(m) \in Nat /\ Size(f) \in Nat /\ Size(m) <= Size(f)
<1> DEFINE D == DOMAIN m.node
           E == DOMAIN f.node
<1>1. IsFiniteSet(D) /\ IsFiniteSet(E) /\ D \in SUBSET E /\ Size(m) = Cardinality(D)
      /\ Size(f) = Cardinality(E)
  BY DEF WellFormed, Size
<1> HIDE DEF D, E
<1> QED
  BY <1>1, FS_Subset, FS_CardinalityType

OneMore(m, kind, kids, r) ==
  /\ Extends(m, r.mem) /\ r.val \in Blocks /\ r.val # NULL /\ r.val \notin DOMAIN m.node
  /\ DOMAIN r.mem.node = DOMAIN m.node \cup {r.val} /\ Size(r.mem) = Size(m) + 1
  /\ r.mem.node[r.val] = [kind |-> kind, kids |-> kids]

LEMMA NewKeeps ==
  ASSUME NEW m, NEW H, Good(m, H), Room(m, 1), NEW kind \in Kinds, NEW kids \in Seq(Nat),
         Len(kids) = Len(Fields(kind)),
         \A i \in DOMAIN Fields(kind) : KindIn(m, kids[i]) \in Fields(kind)[i],
         \A i \in DOMAIN kids : kids[i] = NULL \/ kids[i] \in H,
         \A i, j \in DOMAIN kids : kids[i] = kids[j] /\ kids[i] # NULL => i = j,
         NEW r, r = New(m, kind, kids)
  PROVE  Good(r.mem, (H \ Range(kids)) \cup {r.val}) /\ OneMore(m, kind, kids, r)
<1> DEFINE a == r.val
           n == r.mem
<1>1. /\ a \in Blocks /\ a # NULL /\ a \notin DOMAIN m.node
      /\ n = [node |-> n.node, lost |-> n.lost]
      /\ DOMAIN n.node = DOMAIN m.node \cup {a}
      /\ IsFiniteSet(DOMAIN n.node) /\ DOMAIN n.node \subseteq Blocks
      /\ n.node = [b \in DOMAIN n.node |-> n.node[b]]
      /\ n.node[a] = [kind |-> kind, kids |-> kids]
      /\ Extends(m, n)
  BY NewDoes DEF Good
<1> HIDE DEF a, n
<1>2. WellFormed(n)
  <2>1. ASSUME NEW b \in DOMAIN n.node \ DOMAIN m.node
        PROVE  /\ n.node[b] \in [kind : Kinds, kids : Seq(Nat)]
               /\ Len(n.node[b].kids) = Len(Fields(n.node[b].kind))
               /\ \A i \in DOMAIN Fields(n.node[b].kind) :
                    KindIn(n, n.node[b].kids[i]) \in Fields(n.node[b].kind)[i]
    <3>1. n.node[b] = [kind |-> kind, kids |-> kids]
      BY <1>1, <2>1
    <3>2. n.node[b].kids = kids /\ n.node[b].kind = kind
          /\ n.node[b] \in [kind : Kinds, kids : Seq(Nat)]
      BY <3>1
    <3>3. ASSUME NEW i \in DOMAIN Fields(kind) PROVE KindIn(n, kids[i]) \in Fields(kind)[i]
      <4>1. i \in DOMAIN kids
        BY FieldKinds
      <4>2. kids[i] = NULL \/ kids[i] \in DOMAIN m.node
        BY <4>1 DEF Good, Owned
      <4>3. KindIn(n, kids[i]) = KindIn(m, kids[i])
        BY <1>1, <4>2 DEF KindIn, Extends
      <4> QED
        BY <4>3
    <3> QED
      BY <3>2, <3>3
  <2> QED
    BY <1>1, <2>1, GrownWellFormed DEF Good
<1>3. kids = n.node[a].kids
  BY <1>1
<1>4. Owned(n, (H \ Range(kids)) \cup {a})
  BY <1>1, <1>2, <1>3, NewOwned
<1>5. Size(n) = Size(m) + 1
  <2> DEFINE D == DOMAIN m.node
  <2>1. IsFiniteSet(D) /\ a \notin D /\ DOMAIN n.node = D \cup {a} /\ Size(m) = Cardinality(D)
    BY <1>1 DEF Good, WellFormed, Size
  <2> HIDE DEF D
  <2>2. Cardinality(D \cup {a}) = Cardinality(D) + 1
    BY <2>1, FS_AddElement
  <2> QED
    BY <2>1, <2>2 DEF Size
<1> QED
  BY <1>1, <1>2, <1>4, <1>5 DEF Good, OneMore, a, n

-----------------------------------------------------------------------------
(* Copies of trees *)

\* c is a copy of the blocks T in m at other addresses, which at maps to.
CopiedBy(m, n, T, at) ==
  /\ at[NULL] = NULL
  /\ \A b \in T : at[b] \in Blocks \ DOMAIN m.node
  /\ \A b, c \in T : at[b] = at[c] => b = c
  /\ DOMAIN n.node = DOMAIN m.node \cup {at[b] : b \in T}
  /\ \A b \in T : n.node[at[b]] =
       [kind |-> m.node[b].kind,
        kids |-> [i \in DOMAIN m.node[b].kids |-> at[m.node[b].kids[i]]]]

LEMMA CopyTreeDoes ==
  ASSUME NEW m, WellFormed(m), Grounded(KidsOf(m)), NEW a \in DOMAIN m.node,
         Room(m, Size(m)), NEW r, r = CopyTree(m, a)
  PROVE  \E at : /\ CopiedBy(m, r.mem, Reached(KidsOf(m), a), at) /\ r.val = at[a]
                 /\ r.mem = [node |-> r.mem.node, lost |-> r.mem.lost]
                 /\ r.mem.node = [c \in DOMAIN r.mem.node |-> r.mem.node[c]]
                 /\ Extends(m, r.mem)
<1> DEFINE T == Tree(m, a)
           D == DOMAIN m.node
           at == [b \in T \cup {NULL} |-> IF b = NULL THEN NULL ELSE Nth(Free(m), Place(T, b))]
           copied == {at[b] : b \in T}
           copy(c) == LET n == m.node[CHOOSE b \in T : at[b] = c] IN
                      [n EXCEPT !.kids = [i \in DOMAIN n.kids |-> at[n.kids[i]]]]
           node2 == [c \in D \cup copied |-> IF c \in copied THEN copy(c) ELSE m.node[c]]
<1>1. T = Reached(KidsOf(m), a)
  BY KidsAre, FromIs DEF Tree
<1>2. T \in SUBSET Nat /\ NULL \notin T /\ T \subseteq D
  <2>1. Reached(KidsOf(m), a) \subseteq D
    BY KidsAre, ReachedClosed
  <2> QED
    BY <1>1, <2>1, SyntaxAssumption DEF WellFormed
<1>3. r.val = at[a] /\ r.mem = [m EXCEPT !.node = node2]
  BY DEF CopyTree
<1>4. r.mem = [node |-> node2, lost |-> m.lost]
  BY <1>3 DEF WellFormed
<1> HIDE DEF T
<1>5. /\ \A b \in T : at[b] = Nth(Free(m), Place(T, b))
      /\ at[NULL] = NULL
  BY <1>2
<1> HIDE DEF at
<1>6. /\ \A b \in T : at[b] \in Free(m)
      /\ \A b, c \in T : at[b] = at[c] => b = c
  <2>1. IsFiniteSet(T) /\ T \in SUBSET Nat /\ Room(m, Cardinality(T))
    <3>1. IsFiniteSet(D) /\ T \in SUBSET D /\ Size(m) = Cardinality(D)
      BY <1>2 DEF WellFormed, Size
    <3> HIDE DEF D
    <3>2. IsFiniteSet(T) /\ Cardinality(T) <= Cardinality(D)
      BY <3>1, FS_Subset
    <3>3. Cardinality(T) \in Nat /\ Cardinality(D) \in Nat
      BY <3>1, <3>2, FS_CardinalityType
    <3> QED
      BY <1>2, <3>1, <3>2, <3>3, RoomFor
  <2>2. /\ \A b \in T : Nth(Free(m), Place(T, b)) \in Free(m)
        /\ \A b, c \in T : Nth(Free(m), Place(T, b)) = Nth(Free(m), Place(T, c)) => b = c
    BY <2>1, NewPlaces
  <2>3. ASSUME NEW b \in T, NEW c \in T, at[b] = at[c] PROVE b = c
    <3>1. Nth(Free(m), Place(T, b)) = Nth(Free(m), Place(T, c))
      BY <1>5, <2>3
    <3> QED
      BY <2>2, <3>1
  <2> QED
    BY <1>5, <2>2, <2>3
<1>7. \A b \in T : at[b] \in Blocks \ D
  BY <1>6 DEF Free
<1>8. ASSUME NEW b \in T
      PROVE  node2[at[b]] = [kind |-> m.node[b].kind,
                             kids |-> [i \in DOMAIN m.node[b].kids |-> at[m.node[b].kids[i]]]]
  <2>1. at[b] \in copied
    OBVIOUS
  <2>2. (CHOOSE d \in T : at[d] = at[b]) = b
    BY <1>6
  <2>3. node2[at[b]] = copy(at[b])
    BY <2>1
  <2>4. node2[at[b]] = [m.node[b] EXCEPT !.kids = [i \in DOMAIN m.node[b].kids |-> at[m.node[b].kids[i]]]]
    BY <2>2, <2>3
  <2>5. m.node[b] \in [kind : Kinds, kids : Seq(Nat)]
    BY <1>2 DEF WellFormed
  <2> HIDE DEF node2
  <2> QED
    BY <2>4, <2>5
<1>9. \A b \in D : node2[b] = m.node[b]
  BY <1>7
<1>10. DOMAIN node2 = D \cup {at[b] : b \in T} /\ node2 = [c \in DOMAIN node2 |-> node2[c]]
  OBVIOUS
<1> HIDE DEF node2
<1>11. CopiedBy(m, r.mem, T, at)
  BY <1>4, <1>5, <1>6, <1>7, <1>8, <1>10 DEF CopiedBy
<1>12. Extends(m, r.mem)
  BY <1>4, <1>9, <1>10 DEF Extends
<1> QED
  BY <1>1, <1>3, <1>4, <1>10, <1>11, <1>12

LEMMA FiniteImage ==
  ASSUME NEW T, IsFiniteSet(T), NEW f
  PROVE  IsFiniteSet({f[b] : b \in T}) /\ Cardinality({f[b] : b \in T}) <= Cardinality(T)
<1> DEFINE S == {f[b] : b \in T}
           g == [b \in T |-> f[b]]
<1>1. g \in Surjection(T, S)
  BY DEF Surjection
<1> HIDE DEF S, g
<1>2. IsFiniteSet(S) /\ Cardinality(S) <= Cardinality(T)
  BY <1>1, FS_Surjection
<1> QED
  BY <1>2 DEF S

LEMMA CopyWellFormed ==
  ASSUME NEW m, WellFormed(m), NEW n, Extends(m, n),
         NEW T \in SUBSET DOMAIN m.node, ClosedUnder(KidsOf(m), T),
         NEW at, CopiedBy(m, n, T, at),
         n = [node |-> n.node, lost |-> n.lost],
         n.node = [a \in DOMAIN n.node |-> n.node[a]]
  PROVE  WellFormed(n)
<1> DEFINE D == DOMAIN m.node
           copied == {at[b] : b \in T}
<1>1. IsFiniteSet(D) /\ D \subseteq Blocks /\ DOMAIN n.node = D \cup copied
      /\ NULL \notin Blocks /\ NULL \notin T /\ at[NULL] = NULL
  BY SyntaxAssumption DEF WellFormed, CopiedBy
<1>2. IsFiniteSet(copied) /\ copied \subseteq Blocks
  <2>1. IsFiniteSet(T)
    <3> HIDE DEF D
    <3>1. T \in SUBSET D
      BY DEF D
    <3> QED
      BY <1>1, <3>1, FS_Subset
  <2>2. copied \subseteq Blocks
    BY DEF CopiedBy
  <2> QED
    BY <2>1, <2>2, FiniteImage
<1>3. IsFiniteSet(DOMAIN n.node) /\ DOMAIN n.node \subseteq Blocks
  <2> HIDE DEF D, copied
  <2>1. IsFiniteSet(D \cup copied)
    BY <1>1, <1>2, FS_Union
  <2> QED
    BY <1>1, <1>2, <2>1
<1>5. \A k \in T : /\ at[k] \in Blocks /\ at[k] # NULL /\ at[k] \in DOMAIN n.node
                   /\ n.node[at[k]].kind = m.node[k].kind
  <2>1. ASSUME NEW k \in T
        PROVE  /\ at[k] \in Blocks /\ at[k] # NULL
               /\ n.node[at[k]].kind = m.node[k].kind
    <3>1. at[k] \in Blocks /\ at[k] # NULL
      BY <1>1 DEF CopiedBy
    <3>2. n.node[at[k]] = [kind |-> m.node[k].kind,
                           kids |-> [i \in DOMAIN m.node[k].kids |-> at[m.node[k].kids[i]]]]
      BY DEF CopiedBy
    <3> QED
      BY <3>1, <3>2
  <2>2. ASSUME NEW k \in T PROVE at[k] \in DOMAIN n.node
    BY <1>1
  <2> QED
    BY <2>1, <2>2
<1>4. ASSUME NEW c \in DOMAIN n.node \ DOMAIN m.node
      PROVE  /\ n.node[c] \in [kind : Kinds, kids : Seq(Nat)]
             /\ Len(n.node[c].kids) = Len(Fields(n.node[c].kind))
             /\ \A i \in DOMAIN Fields(n.node[c].kind) :
                  KindIn(n, n.node[c].kids[i]) \in Fields(n.node[c].kind)[i]
  <2>1. PICK b \in T : c = at[b]
    BY <1>1
  <2> DEFINE kind == m.node[b].kind
             kids == m.node[b].kids
             new == [i \in DOMAIN kids |-> at[kids[i]]]
  <2>2. /\ kind \in Kinds /\ kids \in Seq(Nat) /\ Len(kids) = Len(Fields(kind))
        /\ \A i \in DOMAIN Fields(kind) : KindIn(m, kids[i]) \in Fields(kind)[i]
    BY DEF WellFormed
  <2>3. n.node[c] = [kind |-> kind, kids |-> new]
    BY <2>1 DEF CopiedBy
  <2>4. ASSUME NEW i \in DOMAIN kids
        PROVE  at[kids[i]] \in Nat /\ KindIn(n, at[kids[i]]) = KindIn(m, kids[i])
    <3>1. CASE kids[i] = NULL
      BY <1>1, <3>1 DEF KindIn, NULL
    <3>2. CASE kids[i] # NULL
      <4>1. kids[i] \in Kids(m, b) /\ KidsOf(m)[b] = Kids(m, b)
        BY <3>2, KidsAre
      <4>2. kids[i] \in T
        BY <4>1 DEF ClosedUnder
      <4>3. /\ at[kids[i]] \in Blocks /\ at[kids[i]] # NULL /\ at[kids[i]] \in DOMAIN n.node
            /\ n.node[at[kids[i]]].kind = m.node[kids[i]].kind
        BY <1>5, <4>2
      <4>4. at[kids[i]] \in Nat
        BY <4>3, SyntaxAssumption
      <4> QED
        BY <3>2, <4>2, <4>3, <4>4 DEF KindIn
    <3> QED
      BY <3>1, <3>2
  <2> HIDE DEF kind, kids
  <2>5. new \in Seq(Nat) /\ Len(new) = Len(kids) /\ DOMAIN new = DOMAIN kids
    BY <2>2, <2>4
  <2>6. \A i \in DOMAIN Fields(kind) : i \in DOMAIN kids
    BY <2>2, FieldKinds
  <2>7. \A i \in DOMAIN Fields(kind) : KindIn(n, new[i]) \in Fields(kind)[i]
    BY <2>2, <2>4, <2>6
  <2> HIDE DEF new
  <2> QED
    BY <2>2, <2>3, <2>5, <2>7
<1> QED
  BY <1>3, <1>4, GrownWellFormed

LEMMA CopyOwned ==
  ASSUME NEW m, NEW H, Good(m, H), NEW n, WellFormed(n), Extends(m, n), NEW a \in H,
         NEW T, T = Reached(KidsOf(m), a), NEW at, CopiedBy(m, n, T, at)
  PROVE  Owned(n, H \cup {at[a]})
<1> DEFINE G == H \cup {at[a]}
           D == DOMAIN m.node
           E == DOMAIN n.node
           K == KidsOf(m)
           L == KidsOf(n)
<1>1. /\ H \subseteq D /\ H \cap m.lost = {} /\ m.lost \subseteq D /\ n.lost = m.lost
      /\ NULL \notin D /\ NULL \notin E /\ D \subseteq E
      /\ \A b \in D : n.node[b] = m.node[b]
  BY SyntaxAssumption DEF Good, WellFormed, Owned, Extends
<1>2. K \in [D -> SUBSET D] /\ L \in [E -> SUBSET E]
  BY KidsAre DEF Good
<1>3. a \in T /\ T \subseteq D /\ ClosedUnder(K, T)
  BY <1>1, <1>2, ReachedClosed
<1>4. /\ \A b \in T : at[b] \in E /\ at[b] \notin D /\ at[b] # NULL
      /\ \A b, c \in T : at[b] = at[c] => b = c
      /\ \A x \in E : x \in D \/ \E b \in T : x = at[b]
      /\ at[NULL] = NULL
  <2>1. /\ \A b \in T : at[b] \in Blocks \ D
        /\ \A b, c \in T : at[b] = at[c] => b = c
        /\ E = D \cup {at[b] : b \in T}
        /\ at[NULL] = NULL
    BY DEF CopiedBy
  <2>2. NULL \notin Blocks
    BY SyntaxAssumption
  <2>3. \A b \in T : at[b] \in E
    BY <2>1
  <2>4. \A x \in E : x \in D \/ \E b \in T : x = at[b]
    BY <2>1
  <2> QED
    BY <2>1, <2>2, <2>3, <2>4
<1>5. ASSUME NEW b \in D, NEW i \in DOMAIN n.node[b].kids
      PROVE  /\ i \in DOMAIN m.node[b].kids /\ n.node[b].kids[i] = m.node[b].kids[i]
             /\ n.node[b].kids[i] \notin H \cup m.lost
             /\ n.node[b].kids[i] = NULL \/ n.node[b].kids[i] \in D
  <2>1. i \in DOMAIN m.node[b].kids /\ n.node[b].kids[i] = m.node[b].kids[i]
    BY <1>1, <1>5
  <2>2. m.node[b].kids[i] = NULL \/ m.node[b].kids[i] \in Kids(m, b)
    BY <2>1, KidsAre DEF Good
  <2> QED
    BY <2>1, <2>2 DEF Good, Owned, Kids
<1>6. ASSUME NEW b \in T, NEW i \in DOMAIN n.node[at[b]].kids
      PROVE  /\ i \in DOMAIN m.node[b].kids
             /\ n.node[at[b]].kids[i] = at[m.node[b].kids[i]]
             /\ m.node[b].kids[i] = NULL \/ m.node[b].kids[i] \in T
             /\ m.node[b].kids[i] = NULL \/ m.node[b].kids[i] \in K[b]
             /\ m.node[b].kids[i] \notin H
  <2>1. n.node[at[b]] = [kind |-> m.node[b].kind,
                         kids |-> [j \in DOMAIN m.node[b].kids |-> at[m.node[b].kids[j]]]]
    BY DEF CopiedBy
  <2>2. i \in DOMAIN m.node[b].kids /\ n.node[at[b]].kids[i] = at[m.node[b].kids[i]]
    BY <1>6, <2>1
  <2>3. b \in D
    BY <1>3
  <2>4. m.node[b].kids[i] = NULL \/ m.node[b].kids[i] \in Kids(m, b)
    BY <2>2, <2>3, KidsAre DEF Good
  <2>5. m.node[b].kids[i] = NULL \/ m.node[b].kids[i] \in K[b]
    BY <2>3, <2>4, KidsAre DEF Good
  <2>6. m.node[b].kids[i] = NULL \/ m.node[b].kids[i] \in T
    BY <1>3, <2>5 DEF ClosedUnder
  <2>7. m.node[b].kids[i] \notin H
    BY <2>2, <2>3 DEF Good, Owned
  <2> QED
    BY <2>2, <2>5, <2>6, <2>7
<1>7. \A b \in D : L[b] = K[b] /\ K[b] \subseteq D
  <2>1. \A b \in D : Kids(n, b) = Kids(m, b)
    BY OldKids DEF Good, WellFormed
  <2>2. \A b \in D : L[b] = Kids(n, b) /\ K[b] = Kids(m, b)
    BY <1>1, KidsAre DEF Good
  <2> QED
    BY <1>2, <2>1, <2>2
<1>8. ASSUME NEW b \in T, NEW x \in L[at[b]]
      PROVE  \E c \in T : c \in K[b] /\ x = at[c]
  <2>1. at[b] \in E /\ x \in Kids(n, at[b])
    BY <1>4, <1>8, KidsAre
  <2>2. PICK i \in DOMAIN n.node[at[b]].kids : n.node[at[b]].kids[i] = x
    BY <2>1, KidsAre
  <2>3. x # NULL
    BY <2>1, KidsAre
  <2>4. x = at[m.node[b].kids[i]] /\ m.node[b].kids[i] # NULL
    BY <1>4, <1>6, <2>2, <2>3
  <2> QED
    BY <1>6, <2>2, <2>4
<1>9. ASSUME NEW b \in T, NEW c \in K[b] PROVE at[c] \in L[at[b]]
  <2>1. b \in D /\ c \in Kids(m, b)
    BY <1>3, <1>9, KidsAre DEF Good
  <2>2. PICK i \in DOMAIN m.node[b].kids : m.node[b].kids[i] = c
    BY <2>1, KidsAre DEF Good
  <2>3. n.node[at[b]] = [kind |-> m.node[b].kind,
                         kids |-> [j \in DOMAIN m.node[b].kids |-> at[m.node[b].kids[j]]]]
    BY DEF CopiedBy
  <2>4. i \in DOMAIN n.node[at[b]].kids /\ n.node[at[b]].kids[i] = at[c]
    BY <2>2, <2>3
  <2>5. c \in T
    BY <1>3, <1>9 DEF ClosedUnder
  <2>6. at[c] # NULL /\ at[b] \in E
    BY <1>4, <2>5
  <2>7. at[c] \in Kids(n, at[b])
    BY <2>4, <2>6, KidsAre
  <2> QED
    BY <2>6, <2>7, KidsAre
<1> HIDE DEF D, E, K, L
<1>10. G \subseteq E /\ G \cap n.lost = {}
  BY <1>1, <1>3, <1>4
<1>11. ASSUME NEW x \in E, NEW i \in DOMAIN n.node[x].kids
       PROVE  n.node[x].kids[i] \notin G \cup n.lost
  <2>1. CASE x \in D
    BY <1>1, <1>3, <1>4, <1>5, <1>11, <2>1
  <2>2. CASE x \notin D
    <3>1. PICK b \in T : x = at[b]
      BY <1>4, <2>2
    <3>2. n.node[x].kids[i] = at[m.node[b].kids[i]] /\ m.node[b].kids[i] \notin H
          /\ (m.node[b].kids[i] = NULL \/ m.node[b].kids[i] \in T)
      BY <1>6, <1>11, <3>1
    <3>3. m.node[b].kids[i] # a
      BY <3>2
    <3> QED
      BY <1>1, <1>3, <1>4, <3>2, <3>3
  <2> QED
    BY <2>1, <2>2
<1>12. ASSUME NEW x \in E, NEW y \in E,
              NEW i \in DOMAIN n.node[x].kids, NEW j \in DOMAIN n.node[y].kids,
              n.node[x].kids[i] = n.node[y].kids[j], n.node[x].kids[i] # NULL
       PROVE  x = y /\ i = j
  <2>1. CASE x \in D /\ y \in D
    <3>1. i \in DOMAIN m.node[x].kids /\ j \in DOMAIN m.node[y].kids
          /\ m.node[x].kids[i] = m.node[y].kids[j] /\ m.node[x].kids[i] # NULL
      BY <1>5, <1>12, <2>1
    <3> QED
      BY <2>1, <3>1 DEF Good, Owned, D
  <2>2. CASE x \in D /\ y \notin D
    <3>1. PICK c \in T : y = at[c]
      BY <1>4, <2>2
    <3>2. n.node[x].kids[i] \in D
      BY <1>5, <1>12, <2>2
    <3> QED
      BY <1>4, <1>6, <1>12, <3>1, <3>2
  <2>3. CASE x \notin D /\ y \in D
    <3>1. PICK c \in T : x = at[c]
      BY <1>4, <2>3
    <3>2. n.node[y].kids[j] \in D
      BY <1>5, <1>12, <2>3
    <3> QED
      BY <1>4, <1>6, <1>12, <3>1, <3>2
  <2>4. CASE x \notin D /\ y \notin D
    <3>1. PICK b \in T : x = at[b]
      BY <1>4, <2>4
    <3>2. PICK c \in T : y = at[c]
      BY <1>4, <2>4
    <3>3. /\ i \in DOMAIN m.node[b].kids /\ n.node[x].kids[i] = at[m.node[b].kids[i]]
          /\ m.node[b].kids[i] = NULL \/ m.node[b].kids[i] \in T
      BY <1>6, <1>12, <3>1
    <3>4. /\ j \in DOMAIN m.node[c].kids /\ n.node[y].kids[j] = at[m.node[c].kids[j]]
          /\ m.node[c].kids[j] = NULL \/ m.node[c].kids[j] \in T
      BY <1>6, <1>12, <3>2
    <3>5. m.node[b].kids[i] # NULL /\ m.node[c].kids[j] # NULL
      BY <1>4, <1>12, <3>3, <3>4
    <3>6. m.node[b].kids[i] = m.node[c].kids[j]
      <4> DEFINE p == m.node[b].kids[i]
                 q == m.node[c].kids[j]
      <4>1. p \in T /\ q \in T /\ at[p] = at[q]
        BY <1>12, <3>3, <3>4, <3>5
      <4> HIDE DEF p, q
      <4>2. p = q
        BY <1>4, <4>1
      <4> QED
        BY <4>2 DEF p, q
    <3>7. b \in D /\ c \in D
      BY <1>3
    <3>8. \A u, v \in D :
            \A k \in DOMAIN m.node[u].kids, l \in DOMAIN m.node[v].kids :
              m.node[u].kids[k] = m.node[v].kids[l] /\ m.node[u].kids[k] # NULL => u = v /\ k = l
      BY DEF Good, Owned, D
    <3>9. b = c /\ i = j
      BY <3>3, <3>4, <3>5, <3>6, <3>7, <3>8
    <3> QED
      BY <3>1, <3>2, <3>9
  <2> QED
    BY <2>1, <2>2, <2>3, <2>4
<1>13. Grounded(L)
  <2>1. SUFFICES ASSUME NEW S \in SUBSET E, S # {}
                 PROVE  \E b \in S : L[b] \cap S = {}
    BY <1>2 DEF Grounded
  <2>2. Grounded(K)
    BY DEF Good, Owned, K
  <2>3. CASE S \cap D # {}
    <3>1. PICK b \in S \cap D : K[b] \cap (S \cap D) = {}
      BY <1>2, <2>2, <2>3 DEF Grounded
    <3> QED
      BY <1>7, <3>1
  <2>4. CASE S \cap D = {}
    <3> DEFINE R == {b \in T : at[b] \in S}
    <3>1. R # {} /\ R \in SUBSET D
      BY <1>3, <1>4, <2>1, <2>4
    <3>2. PICK b \in R : K[b] \cap R = {}
      BY <1>2, <2>2, <3>1 DEF Grounded
    <3>3. ASSUME NEW x \in L[at[b]], x \in S PROVE FALSE
      <4>1. PICK c \in T : c \in K[b] /\ x = at[c]
        BY <1>8, <3>2, <3>3
      <4> QED
        BY <3>2, <3>3, <4>1
    <3> QED
      BY <3>2, <3>3
  <2> QED
    BY <2>3, <2>4
<1>14. ASSUME NEW C \in SUBSET E, n.lost \cup G \subseteq C, ClosedUnder(L, C)
       PROVE  E \subseteq C
  <2>1. ClosedUnder(K, C \cap D)
    BY <1>7, <1>14 DEF ClosedUnder
  <2>2. m.lost \cup H \subseteq C \cap D
    BY <1>1, <1>14
  <2>3. D \subseteq C \cap D
    BY <2>1, <2>2 DEF Good, Owned, D, K
  <2> DEFINE R == {b \in T : at[b] \in C}
  <2>4. R \in SUBSET D /\ a \in R
    BY <1>3, <1>14
  <2>5. ASSUME NEW b \in R, NEW c \in K[b] PROVE c \in R
    <3>1. c \in T
      BY <1>3, <2>5 DEF ClosedUnder
    <3>2. at[c] \in L[at[b]] /\ at[b] \in C
      BY <1>9, <2>5
    <3>3. at[c] \in C
      BY <1>14, <3>2 DEF ClosedUnder
    <3> QED
      BY <3>1, <3>3
  <2>6. ClosedUnder(K, R)
    BY <2>5 DEF ClosedUnder
  <2> HIDE DEF R
  <2>7. T \subseteq R
    BY <1>1, <1>2, <2>4, <2>6, ReachedLeast DEF K
  <2> QED
    BY <1>4, <2>3, <2>7 DEF R
<1> QED
  BY <1>10, <1>11, <1>12, <1>13, <1>14 DEF Owned, D, E, K, L

LEMMA CopyTreeKeeps ==
  ASSUME NEW m, NEW H, Good(m, H), Room(m, Size(m)), NEW a \in H, NEW r, r = CopyTree(m, a)
  PROVE  /\ Good(r.mem, H \cup {r.val}) /\ Extends(m, r.mem) /\ Size(r.mem) <= 2 * Size(m)
         /\ r.val \in Blocks /\ r.val \notin DOMAIN m.node
         /\ KindIn(r.mem, r.val) = KindIn(m, a)
<1> DEFINE T == Reached(KidsOf(m), a)
<1>1. a \in DOMAIN m.node /\ WellFormed(m) /\ Grounded(KidsOf(m))
  BY DEF Good, Owned
<1>2. PICK at : /\ CopiedBy(m, r.mem, T, at) /\ r.val = at[a]
                /\ r.mem = [node |-> r.mem.node, lost |-> r.mem.lost]
                /\ r.mem.node = [c \in DOMAIN r.mem.node |-> r.mem.node[c]]
                /\ Extends(m, r.mem)
  BY <1>1, CopyTreeDoes
<1>3. a \in T /\ T \in SUBSET DOMAIN m.node /\ ClosedUnder(KidsOf(m), T)
  BY <1>1, KidsAre, ReachedClosed
<1> HIDE DEF T
<1>4. WellFormed(r.mem)
  BY <1>1, <1>2, <1>3, CopyWellFormed
<1>5. Owned(r.mem, H \cup {r.val})
  BY <1>2, <1>4, CopyOwned DEF T
<1>6. /\ r.val \in Blocks /\ r.val \notin DOMAIN m.node /\ r.val \in DOMAIN r.mem.node
      /\ r.mem.node[r.val] = [kind |-> m.node[a].kind,
                              kids |-> [i \in DOMAIN m.node[a].kids |-> at[m.node[a].kids[i]]]]
  BY <1>2, <1>3 DEF CopiedBy
<1>7. KindIn(r.mem, r.val) = KindIn(m, a)
  <2>1. a # NULL /\ r.val # NULL
    BY <1>1, <1>6, SyntaxAssumption DEF WellFormed
  <2> QED
    BY <1>1, <1>6, <2>1 DEF KindIn
<1>8. Size(r.mem) <= 2 * Size(m)
  <2> DEFINE D == DOMAIN m.node
             copied == {at[b] : b \in T}
  <2>1. /\ IsFiniteSet(D) /\ T \in SUBSET D /\ Size(m) = Cardinality(D)
        /\ DOMAIN r.mem.node = D \cup copied /\ Size(r.mem) = Cardinality(D \cup copied)
    BY <1>1, <1>2, <1>3 DEF WellFormed, Size, CopiedBy
  <2> HIDE DEF D
  <2>2. IsFiniteSet(T) /\ Cardinality(T) <= Cardinality(D)
    BY <2>1, FS_Subset
  <2>3. IsFiniteSet(copied) /\ Cardinality(copied) <= Cardinality(T)
    BY <2>2, FiniteImage
  <2> HIDE DEF copied
  <2>4. Cardinality(D \cup copied) = Cardinality(D) + Cardinality(copied) - Cardinality(D \cap copied)
    BY <2>1, <2>3, FS_Union
  <2>5. /\ Cardinality(D) \in Nat /\ Cardinality(copied) \in Nat /\ Cardinality(T) \in Nat
        /\ Cardinality(D \cap copied) \in Nat
    <3>1. IsFiniteSet(D \cap copied)
      BY <2>1, FS_Intersection
    <3> QED
      BY <2>1, <2>2, <2>3, <3>1, FS_CardinalityType
  <2> QED
    BY <2>1, <2>2, <2>3, <2>4, <2>5
<1> QED
  BY <1>2, <1>4, <1>5, <1>6, <1>7, <1>8 DEF Good

\* What the copy of a is, a being the value of sym.
CopyKind(m, sym, a) ==
  IF a # NULL THEN KindIn(m, a) ELSE IF sym = "expr" THEN "other" ELSE "NULL"

\* r is the memory m and a copy of a.
OneCopy(m, sym, a, r) ==
  /\ Extends(m, r.mem) /\ Size(r.mem) <= 2 * Size(m) + 1
  /\ r.val \in Nat /\ r.val \notin DOMAIN m.node
  /\ KindIn(r.mem, r.val) = CopyKind(m, sym, a)

LEMMA CopyKeeps ==
  ASSUME NEW m, NEW H, Good(m, H), Room(m, Size(m) + 1), NEW a, a = NULL \/ a \in H,
         NEW sym, NEW r, r = Copy(m, sym, a)
  PROVE  Good(r.mem, H \cup ({r.val} \ {NULL})) /\ OneCopy(m, sym, a, r)
<1>1. H \subseteq Blocks /\ NULL \notin Blocks /\ Blocks \subseteq Nat /\ NULL \in Nat
      /\ DOMAIN m.node \subseteq Blocks
  BY SyntaxAssumption DEF Good, Owned, WellFormed, NULL
<1>2. Size(m) \in Nat /\ Room(m, Size(m)) /\ Room(m, 1)
  <2>1. Size(m) \in Nat
    BY SizeIs DEF Good, WellFormed
  <2> QED
    BY <2>1, RoomFor
<1>3. CASE a # NULL
  <2>1. r = CopyTree(m, a)
    BY <1>3 DEF Copy
  <2>2. /\ Good(r.mem, H \cup {r.val}) /\ Extends(m, r.mem) /\ Size(r.mem) <= 2 * Size(m)
        /\ r.val \in Blocks /\ r.val \notin DOMAIN m.node
        /\ KindIn(r.mem, r.val) = KindIn(m, a)
    BY <1>3, <1>2, <2>1, CopyTreeKeeps
  <2>3. H \cup {r.val} = H \cup ({r.val} \ {NULL})
    BY <1>1, <2>2
  <2>4. Size(r.mem) <= 2 * Size(m) + 1
    <3>1. Size(r.mem) \in Nat
      BY <2>2, SizeIs DEF Good, WellFormed
    <3> QED
      BY <1>2, <2>2, <3>1
  <2> QED
    BY <1>1, <1>3, <2>2, <2>3, <2>4 DEF OneCopy, CopyKind
<1>4. CASE a = NULL /\ sym = "expr"
  <2>1. r = New(m, "other", <<>>)
    BY <1>4 DEF Copy
  <2>2. "other" \in Kinds /\ Fields("other") = <<>>
    <3>1. "other" \notin Literals
      BY GrammarAssumption
    <3> QED
      BY <3>1 DEF Kinds, Expressions, Fields, Operators
  <2>3. PICK none, kind : none = <<>> /\ kind = "other"
    OBVIOUS
  <2>4. kind \in Kinds
    BY <2>2, <2>3
  <2>5. /\ none \in Seq(Nat) /\ Len(none) = Len(Fields(kind))
        /\ \A i \in DOMAIN Fields(kind) : KindIn(m, none[i]) \in Fields(kind)[i]
        /\ \A i \in DOMAIN none : none[i] = NULL \/ none[i] \in H
        /\ \A i, j \in DOMAIN none : none[i] = none[j] /\ none[i] # NULL => i = j
        /\ Range(none) = {}
    BY <2>2, <2>3 DEF Range
  <2>6. r = New(m, kind, none)
    BY <2>1, <2>3
  <2>7. Good(r.mem, (H \ Range(none)) \cup {r.val}) /\ OneMore(m, kind, none, r)
    BY <1>2, <2>4, <2>5, <2>6, NewKeeps
  <2>8. (H \ Range(none)) \cup {r.val} = H \cup ({r.val} \ {NULL})
    BY <2>5, <2>7 DEF OneMore
  <2>9. KindIn(r.mem, r.val) = "other"
    BY <2>3, <2>7 DEF KindIn, OneMore
  <2>10. Size(r.mem) <= 2 * Size(m) + 1
    BY <1>2, <2>7 DEF OneMore
  <2> QED
    BY <1>1, <1>4, <2>7, <2>8, <2>9, <2>10 DEF OneMore, OneCopy, CopyKind
<1>5. CASE a = NULL /\ sym # "expr"
  <2>1. r = [mem |-> m, val |-> NULL]
    BY <1>5 DEF Copy
  <2>2. r.mem = m /\ r.val = NULL /\ H \cup ({r.val} \ {NULL}) = H
    BY <2>1
  <2>3. Extends(m, m) /\ KindIn(m, NULL) = "NULL"
    BY DEF Extends, KindIn
  <2>4. Size(m) <= 2 * Size(m) + 1
    BY <1>2
  <2> QED
    BY <1>1, <1>5, <2>2, <2>3, <2>4 DEF OneCopy, CopyKind
<1> QED
  BY <1>3, <1>4, <1>5

-----------------------------------------------------------------------------
(* What is held by two leads to nothing in common *)

LEMMA OneParent ==
  ASSUME NEW m, NEW H, Good(m, H)
  PROVE  /\ \A x \in DOMAIN m.node : \A k \in KidsOf(m)[x] : k \notin H /\ k \notin m.lost
         /\ \A x, y \in DOMAIN m.node : \A k \in KidsOf(m)[x] : k \in KidsOf(m)[y] => x = y
<1>1. ASSUME NEW x \in DOMAIN m.node, NEW k \in KidsOf(m)[x] PROVE k \notin H /\ k \notin m.lost
  <2>1. k \in Kids(m, x)
    BY <1>1, KidsAre DEF Good
  <2>2. PICK i \in DOMAIN m.node[x].kids : m.node[x].kids[i] = k
    BY <2>1, KidsAre DEF Good
  <2> QED
    BY <2>2 DEF Good, Owned
<1>2. ASSUME NEW x \in DOMAIN m.node, NEW y \in DOMAIN m.node, NEW k \in KidsOf(m)[x],
             k \in KidsOf(m)[y]
      PROVE  x = y
  <2>1. k \in Kids(m, x) /\ k \in Kids(m, y) /\ k # NULL
    BY <1>2, KidsAre DEF Good
  <2>2. PICK i \in DOMAIN m.node[x].kids : m.node[x].kids[i] = k
    BY <2>1, KidsAre DEF Good
  <2>3. PICK j \in DOMAIN m.node[y].kids : m.node[y].kids[j] = k
    BY <2>1, KidsAre DEF Good
  <2> QED
    BY <2>1, <2>2, <2>3 DEF Good, Owned
<1> QED
  BY <1>1, <1>2

LEMMA Disjoint ==
  ASSUME NEW m, NEW H, Good(m, H), NEW a \in H, NEW b \in H, a # b
  PROVE  Reached(KidsOf(m), a) \cap Reached(KidsOf(m), b) = {}
<1> DEFINE D == DOMAIN m.node
           K == KidsOf(m)
           A == Reached(K, a)
           B == Reached(K, b)
<1>1. K \in [D -> SUBSET D] /\ a \in D /\ b \in D
  BY KidsAre DEF Good, Owned
<1>2. \A x \in D : \A k \in K[x] : k \notin H
  BY OneParent
<1>3. \A x, y \in D : \A k \in K[x] : k \in K[y] => x = y
  BY OneParent
<1> HIDE DEF D, K
<1>4. A \subseteq D /\ a \in A /\ ClosedUnder(K, A) /\ B \subseteq D /\ ClosedUnder(K, B)
  BY <1>1, ReachedClosed
<1>5. ASSUME NEW x \in B, x # b PROVE \E y \in B : x \in K[y]
  BY <1>1, <1>5, ReachedByOwner
<1>6. A \subseteq D /\ A = Reached(K, a) /\ B = Reached(K, b)
  BY <1>4
<1> HIDE DEF A, B
<1>7. a \notin B
  BY <1>2, <1>4, <1>5
<1>8. ASSUME NEW x \in A \ B, NEW k \in K[x] PROVE k \in A \ B
  <2>1. k \in A /\ k # b
    BY <1>2, <1>4, <1>8 DEF ClosedUnder
  <2>2. ASSUME k \in B PROVE FALSE
    <3>1. PICK y \in B : k \in K[y]
      BY <1>5, <2>1, <2>2
    <3>2. x \in D /\ y \in D /\ k \in K[x] /\ k \in K[y]
      BY <1>4, <1>8, <3>1
    <3>3. x = y
      BY <1>3, <3>2
    <3> QED
      BY <1>8, <3>3
  <2> QED
    BY <2>1, <2>2
<1>9. A \ B \in SUBSET D /\ a \in A \ B /\ ClosedUnder(K, A \ B)
  BY <1>4, <1>7, <1>8 DEF ClosedUnder
<1>10. A \subseteq A \ B
  <2> DEFINE C == A \ B
  <2>1. C \in SUBSET D /\ a \in C /\ ClosedUnder(K, C)
    BY <1>9
  <2> HIDE DEF C
  <2>2. Reached(K, a) \subseteq C
    BY <1>1, <2>1, ReachedLeast
  <2> QED
    BY <1>6, <2>2 DEF C
<1>11. A \cap B = {}
  BY <1>10
<1> QED
  BY <1>11 DEF A, B, K

-----------------------------------------------------------------------------
(* Freeing and losing *)

\* F is what one comes to from V, leaving out the parts of attribute expressions.
FreedSet(m, V, F) ==
  /\ V \subseteq F /\ F \subseteq DOMAIN m.node /\ ClosedUnder(FreedKids(m), F)
  /\ \A x \in F : x \in V \/ \E y \in F : x \in FreedKids(m)[y]

LEMMA FreedKidsAre ==
  ASSUME NEW m, WellFormed(m), Grounded(KidsOf(m))
  PROVE  /\ FreedKids(m) \in [DOMAIN m.node -> SUBSET DOMAIN m.node]
         /\ \A a \in DOMAIN m.node :
              FreedKids(m)[a] = IF m.node[a].kind = "attr" THEN {} ELSE KidsOf(m)[a]
         /\ Grounded(FreedKids(m))
<1>1. \A a \in DOMAIN m.node : Kids(m, a) \in SUBSET DOMAIN m.node /\ KidsOf(m)[a] = Kids(m, a)
  BY KidsAre DEF Kids
<1>2. FreedKids(m) \in [DOMAIN m.node -> SUBSET DOMAIN m.node]
  BY <1>1 DEF FreedKids
<1>3. \A a \in DOMAIN m.node :
        FreedKids(m)[a] = IF m.node[a].kind = "attr" THEN {} ELSE KidsOf(m)[a]
  BY <1>1 DEF FreedKids
<1>4. ASSUME NEW S \in SUBSET DOMAIN FreedKids(m), S # {}
      PROVE  \E a \in S : FreedKids(m)[a] \cap S = {}
  <2>1. S \in SUBSET DOMAIN KidsOf(m) /\ S \subseteq DOMAIN m.node
    BY <1>2, KidsAre
  <2>2. PICK a \in S : KidsOf(m)[a] \cap S = {}
    BY <1>4, <2>1 DEF Grounded
  <2> QED
    BY <1>3, <2>1, <2>2
<1> QED
  BY <1>2, <1>3, <1>4 DEF Grounded

LEMMA FreedSetIs ==
  ASSUME NEW m, WellFormed(m), Grounded(KidsOf(m)), NEW R, R \subseteq DOMAIN m.node \cup {NULL}
  PROVE  FreedSet(m, R \ {NULL}, UNION {Freed(m, a) : a \in R})
<1> DEFINE D == DOMAIN m.node
           J == FreedKids(m)
           V == R \ {NULL}
           F == UNION {Freed(m, a) : a \in R}
<1>1. J \in [D -> SUBSET D] /\ Grounded(J) /\ NULL \notin D
  BY FreedKidsAre, SyntaxAssumption DEF WellFormed
<1>2. \A a \in D : Freed(m, a) = Reached(J, a)
  BY <1>1, FromIs DEF Freed
<1>3. Freed(m, NULL) = {}
  BY <1>1 DEF Freed, From
<1>4. ASSUME NEW x PROVE x \in F <=> \E a \in V : x \in Reached(J, a)
  <2>1. x \in F <=> \E a \in R : x \in Freed(m, a)
    BY Zenon
  <2>2. \A a \in R : IF a = NULL THEN a \notin V /\ Freed(m, a) = {}
                                 ELSE a \in V /\ Freed(m, a) = Reached(J, a)
    BY <1>2, <1>3
  <2>3. \A a \in V : a \in R
    OBVIOUS
  <2> HIDE DEF F, V, J
  <2> QED
    BY <2>1, <2>2, <2>3
<1> HIDE DEF F, V, J, D
<1>5. V \subseteq D
  BY <1>1 DEF V, D
<1>6. \A a \in V : a \in Reached(J, a) /\ Reached(J, a) \subseteq D /\ ClosedUnder(J, Reached(J, a))
  BY <1>1, <1>5, ReachedClosed
<1>7. V \subseteq F /\ F \subseteq D
  BY <1>4, <1>6
<1>8. ASSUME NEW x \in F, NEW k \in J[x] PROVE k \in F
  <2>1. PICK a \in V : x \in Reached(J, a)
    BY <1>4, <1>8
  <2>2. k \in Reached(J, a)
    BY <1>6, <1>8, <2>1 DEF ClosedUnder
  <2> QED
    BY <1>4, <2>2
<1>9. ASSUME NEW x \in F, x \notin V PROVE \E y \in F : x \in J[y]
  <2>1. PICK a \in V : x \in Reached(J, a)
    BY <1>4, <1>9
  <2>2. PICK y \in Reached(J, a) : x \in J[y]
    BY <1>1, <1>5, <1>9, <2>1, ReachedByOwner
  <2> QED
    BY <1>4, <2>2
<1>10. FreedSet(m, V, F)
  BY <1>7, <1>8, <1>9 DEF FreedSet, ClosedUnder, D, J
<1> QED
  BY <1>10 DEF V, F

\* f is m without the blocks F; the parts of the attribute expressions in it are
\* lost.
FreedFrom(m, F, f) ==
  /\ f = [node |-> f.node, lost |-> f.lost]
  /\ f.node = [a \in DOMAIN m.node \ F |-> m.node[a]]
  /\ m.lost \subseteq f.lost
  /\ \A x \in F : m.node[x].kind = "attr" => KidsOf(m)[x] \subseteq f.lost
  /\ \A k \in f.lost : k \in m.lost \/ \E x \in F : m.node[x].kind = "attr" /\ k \in KidsOf(m)[x]

LEMMA FreeDoes ==
  ASSUME NEW m, WellFormed(m), Grounded(KidsOf(m)), NEW vals,
         Range(vals) \subseteq DOMAIN m.node \cup {NULL}, NEW f, f = FreeAll(m, vals)
  PROVE  \E F : FreedSet(m, Range(vals) \ {NULL}, F) /\ FreedFrom(m, F, f)
<1> DEFINE F == UNION {Freed(m, a) : a \in Range(vals)}
           attrs == {a \in F : m.node[a].kind = "attr"}
           lost2 == m.lost \cup UNION {Kids(m, a) : a \in attrs}
<1>1. FreedSet(m, Range(vals) \ {NULL}, F)
  BY FreedSetIs
<1>2. f = [node |-> Restrict(m.node, DOMAIN m.node \ F), lost |-> lost2]
  BY DEF FreeAll
<1>3. F \subseteq DOMAIN m.node
  BY <1>1 DEF FreedSet
<1> HIDE DEF F
<1>4. \A a \in F : KidsOf(m)[a] = Kids(m, a)
  BY <1>3, KidsAre
<1>5. ASSUME NEW k
      PROVE  k \in lost2 <=> k \in m.lost \/ \E x \in F : m.node[x].kind = "attr" /\ k \in KidsOf(m)[x]
  <2>1. k \in lost2 <=> k \in m.lost \/ \E x \in attrs : k \in Kids(m, x)
    BY Zenon
  <2>2. \A x : x \in attrs <=> x \in F /\ m.node[x].kind = "attr"
    OBVIOUS
  <2> HIDE DEF attrs, lost2
  <2> QED
    BY <1>4, <2>1, <2>2
<1> HIDE DEF lost2
<1>6. /\ m.lost \subseteq lost2
      /\ \A x \in F : m.node[x].kind = "attr" => KidsOf(m)[x] \subseteq lost2
      /\ \A k \in lost2 :
           k \in m.lost \/ \E x \in F : m.node[x].kind = "attr" /\ k \in KidsOf(m)[x]
  BY <1>5
<1>7. f.lost = lost2 /\ f.node = [a \in DOMAIN m.node \ F |-> m.node[a]]
      /\ f = [node |-> f.node, lost |-> f.lost]
  BY <1>2 DEF Restrict
<1>8. FreedFrom(m, F, f)
  BY <1>6, <1>7 DEF FreedFrom
<1> QED
  BY <1>1, <1>8

LEMMA FreeKeeps ==
  ASSUME NEW m, NEW H, Good(m, H), NEW vals, Range(vals) \subseteq H \cup {NULL},
         NEW f, f = FreeAll(m, vals)
  PROVE  /\ Good(f, H \ Range(vals))
         /\ \A a \in DOMAIN f.node : a \in DOMAIN m.node /\ f.node[a] = m.node[a]
<1> DEFINE D == DOMAIN m.node
           E == DOMAIN f.node
           K == KidsOf(m)
           L == KidsOf(f)
           V == Range(vals) \ {NULL}
           G == H \ Range(vals)
<1>1. /\ WellFormed(m) /\ Grounded(K) /\ H \subseteq D /\ H \cap m.lost = {} /\ m.lost \subseteq D
      /\ NULL \notin D /\ D \subseteq Blocks /\ IsFiniteSet(D)
  BY SyntaxAssumption DEF Good, Owned, WellFormed
<1>2. PICK F : FreedSet(m, V, F) /\ FreedFrom(m, F, f)
  BY <1>1, FreeDoes
<1>3. V \subseteq H /\ V \subseteq F /\ F \subseteq D /\ G \cap V = {} /\ G \cup V = H
  BY <1>1, <1>2 DEF FreedSet
<1>4. K \in [D -> SUBSET D]
  BY <1>1, KidsAre
<1>5. E = D \ F /\ \A a \in E : f.node[a] = m.node[a]
  BY <1>2 DEF FreedFrom
<1>6. /\ \A x \in D : \A k \in K[x] : k \notin H /\ k \notin m.lost
      /\ \A x, y \in D : \A k \in K[x] : k \in K[y] => x = y
  BY OneParent
<1>7. /\ \A x \in F : \A k \in K[x] : IF m.node[x].kind = "attr" THEN k \in f.lost ELSE k \in F
      /\ \A x \in F : x \in V \/ \E y \in F : m.node[y].kind # "attr" /\ x \in K[y]
      /\ \A k \in f.lost : k \in m.lost \/ \E x \in F : m.node[x].kind = "attr" /\ k \in K[x]
      /\ m.lost \subseteq f.lost
  <2>1. \A x \in F : FreedKids(m)[x] = IF m.node[x].kind = "attr" THEN {} ELSE K[x]
    BY <1>1, <1>3, FreedKidsAre
  <2>2. ASSUME NEW x \in F, NEW k \in K[x]
        PROVE  IF m.node[x].kind = "attr" THEN k \in f.lost ELSE k \in F
    <3>1. CASE m.node[x].kind = "attr"
      <4>1. KidsOf(m)[x] \subseteq f.lost
        BY <1>2, <3>1 DEF FreedFrom
      <4> QED
        BY <2>2, <3>1, <4>1
    <3>2. CASE m.node[x].kind # "attr"
      <4>1. k \in FreedKids(m)[x]
        BY <2>1, <2>2, <3>2
      <4> QED
        BY <1>2, <3>2, <4>1 DEF FreedSet, ClosedUnder
    <3> QED
      BY <3>1, <3>2
  <2>3. ASSUME NEW x \in F, x \notin V PROVE \E y \in F : m.node[y].kind # "attr" /\ x \in K[y]
    <3>1. PICK y \in F : x \in FreedKids(m)[y]
      BY <1>2, <2>3 DEF FreedSet
    <3> QED
      BY <2>1, <3>1
  <2>4. /\ \A k \in f.lost : k \in m.lost \/ \E x \in F : m.node[x].kind = "attr" /\ k \in K[x]
        /\ m.lost \subseteq f.lost
    BY <1>2 DEF FreedFrom
  <2> QED
    BY <2>2, <2>3, <2>4
\* A block that stays is no part of one that goes.
<1>8. ASSUME NEW x \in E, NEW k \in K[x] PROVE k \in E
  <2>1. x \in D /\ x \notin F /\ k \in D /\ k \notin V
    BY <1>3, <1>4, <1>5, <1>6, <1>8
  <2>2. ASSUME k \in F PROVE FALSE
    <3>1. PICK y \in F : k \in K[y]
      BY <1>7, <2>1, <2>2
    <3>2. x = y
      BY <1>3, <1>6, <1>8, <2>1, <3>1
    <3> QED
      BY <2>1, <3>1, <3>2
  <2> QED
    BY <1>5, <2>1, <2>2
<1>9. ASSUME NEW x \in D, x \notin V, \A y \in F : m.node[y].kind # "attr" => x \notin K[y]
      PROVE  x \in E
  BY <1>5, <1>7, <1>9
<1>10. f.lost \subseteq E
  <2>1. SUFFICES ASSUME NEW k \in f.lost PROVE k \in E
    OBVIOUS
  <2>2. CASE k \in m.lost
    BY <1>1, <1>3, <1>6, <1>9, <2>2
  <2>3. CASE k \notin m.lost
    <3>1. PICK x \in F : m.node[x].kind = "attr" /\ k \in K[x]
      BY <1>7, <2>1, <2>3
    <3>2. k \in D /\ k \notin V
      BY <1>3, <1>4, <1>6, <3>1
    <3>3. \A y \in F : m.node[y].kind # "attr" => k \notin K[y]
      BY <1>3, <1>6, <3>1
    <3> QED
      BY <1>9, <3>2, <3>3
  <2> QED
    BY <2>2, <2>3
<1>11. G \subseteq E /\ G \cap f.lost = {}
  <2>1. ASSUME NEW h \in G PROVE h \in E /\ h \notin f.lost
    <3>1. h \in D /\ h \notin V /\ h \in H /\ h \notin m.lost
      BY <1>1, <1>3
    <3>2. \A y \in F : h \notin K[y]
      BY <1>3, <1>6, <3>1
    <3> QED
      BY <1>7, <1>9, <3>1, <3>2
  <2> QED
    BY <2>1
<1>12. ASSUME NEW x \in E, NEW i \in DOMAIN f.node[x].kids
       PROVE  /\ i \in DOMAIN m.node[x].kids /\ f.node[x].kids[i] = m.node[x].kids[i]
              /\ f.node[x].kids[i] = NULL \/ f.node[x].kids[i] \in K[x]
              /\ f.node[x].kids[i] = NULL \/ f.node[x].kids[i] \in E
  <2>1. x \in D /\ i \in DOMAIN m.node[x].kids /\ f.node[x].kids[i] = m.node[x].kids[i]
    BY <1>5, <1>12
  <2>2. m.node[x].kids[i] = NULL \/ m.node[x].kids[i] \in K[x]
    BY <1>1, <2>1, KidsAre
  <2> QED
    BY <1>8, <2>1, <2>2
<1>13. WellFormed(f)
  <2>1. f = [node |-> f.node, lost |-> f.lost]
    BY <1>2 DEF FreedFrom
  <2>2. IsFiniteSet(E) /\ E \subseteq Blocks
    <3> HIDE DEF D, E
    <3>1. E \in SUBSET D
      BY <1>5
    <3> QED
      BY <1>1, <3>1, FS_Subset
  <2>3. f.node \in [E -> [kind : Kinds, kids : Seq(Nat)]]
    <3> DEFINE R == [kind : Kinds, kids : Seq(Nat)]
    <3>1. m.node \in [D -> R] /\ f.node = [a \in D \ F |-> m.node[a]]
      BY <1>1, <1>2 DEF WellFormed, FreedFrom
    <3>2. E = D \ F
      BY <1>5
    <3> HIDE DEF R, D, E
    <3>3. \A a \in D \ F : m.node[a] \in R
      BY <3>1
    <3>4. [a \in D \ F |-> m.node[a]] \in [D \ F -> R]
      BY <3>3
    <3>5. f.node \in [E -> R]
      BY <3>1, <3>2, <3>4
    <3> QED
      BY <3>5 DEF R
  <2>4. ASSUME NEW x \in E
        PROVE  /\ Len(f.node[x].kids) = Len(Fields(f.node[x].kind))
               /\ \A i \in DOMAIN Fields(f.node[x].kind) :
                    KindIn(f, f.node[x].kids[i]) \in Fields(f.node[x].kind)[i]
    <3>1. /\ x \in D /\ f.node[x] = m.node[x] /\ m.node[x].kids \in Seq(Nat)
          /\ m.node[x].kind \in Kinds /\ Len(m.node[x].kids) = Len(Fields(m.node[x].kind))
          /\ \A i \in DOMAIN Fields(m.node[x].kind) :
               KindIn(m, m.node[x].kids[i]) \in Fields(m.node[x].kind)[i]
      BY <1>1, <1>5 DEF WellFormed
    <3>2. ASSUME NEW i \in DOMAIN Fields(m.node[x].kind)
          PROVE  KindIn(f, m.node[x].kids[i]) = KindIn(m, m.node[x].kids[i])
      <4>1. i \in DOMAIN m.node[x].kids
        BY <3>1, <3>2, FieldKinds
      <4>2. m.node[x].kids[i] = NULL \/ m.node[x].kids[i] \in E
        BY <1>12, <3>1, <4>1
      <4> QED
        BY <1>5, <4>2 DEF KindIn
    <3> QED
      BY <3>1, <3>2
  <2> QED
    BY <1>10, <2>1, <2>2, <2>3, <2>4 DEF WellFormed
<1>14. \A x \in E : L[x] = K[x]
  <2>1. SUFFICES ASSUME NEW x \in E PROVE L[x] = K[x]
    OBVIOUS
  <2>2. x \in D /\ L[x] = Kids(f, x) /\ K[x] = Kids(m, x) /\ f.node[x] = m.node[x]
    BY <1>1, <1>5, <1>13, KidsAre
  <2>3. \A k : k \in Kids(f, x) => k \in Kids(m, x)
    BY <1>5, <2>2 DEF Kids
  <2>4. \A k : k \in Kids(m, x) => k \in Kids(f, x)
    BY <1>8, <2>2 DEF Kids
  <2>5. Kids(f, x) = Kids(m, x)
    BY <2>3, <2>4, Zenon
  <2> QED
    BY <2>2, <2>5
<1>15. L \in [E -> SUBSET E]
  BY <1>13, KidsAre
<1> HIDE DEF D, E, K, L, V, G
<1>16. ASSUME NEW x \in E, NEW i \in DOMAIN f.node[x].kids
       PROVE  f.node[x].kids[i] \notin G \cup f.lost
  <2>1. CASE f.node[x].kids[i] = NULL
    BY <1>1, <1>5, <1>10, <1>11, <2>1
  <2>2. CASE f.node[x].kids[i] # NULL
    <3>1. f.node[x].kids[i] \in K[x] /\ x \in D /\ x \notin F
      BY <1>5, <1>12, <1>16, <2>2
    <3>2. f.node[x].kids[i] \notin G /\ f.node[x].kids[i] \notin m.lost
      BY <1>3, <1>6, <3>1
    <3>3. \A y \in F : f.node[x].kids[i] \notin K[y]
      BY <1>3, <1>6, <3>1
    <3> QED
      BY <1>7, <3>2, <3>3
  <2> QED
    BY <2>1, <2>2
<1>17. ASSUME NEW x \in E, NEW y \in E,
              NEW i \in DOMAIN f.node[x].kids, NEW j \in DOMAIN f.node[y].kids,
              f.node[x].kids[i] = f.node[y].kids[j], f.node[x].kids[i] # NULL
       PROVE  x = y /\ i = j
  <2>1. \A u, v \in D :
          \A k \in DOMAIN m.node[u].kids, l \in DOMAIN m.node[v].kids :
            m.node[u].kids[k] = m.node[v].kids[l] /\ m.node[u].kids[k] # NULL => u = v /\ k = l
    BY DEF Good, Owned, D
  <2>2. /\ i \in DOMAIN m.node[x].kids /\ j \in DOMAIN m.node[y].kids
        /\ m.node[x].kids[i] = m.node[y].kids[j] /\ m.node[x].kids[i] # NULL
        /\ x \in D /\ y \in D
    BY <1>5, <1>12, <1>17
  <2> QED
    BY <2>1, <2>2
<1>18. Grounded(L)
  <2>1. SUFFICES ASSUME NEW S \in SUBSET E, S # {}
                 PROVE  \E b \in S : L[b] \cap S = {}
    BY <1>15 DEF Grounded
  <2>2. S \in SUBSET D
    BY <1>5, <2>1
  <2>3. PICK b \in S : K[b] \cap S = {}
    BY <1>1, <1>4, <2>1, <2>2 DEF Grounded
  <2> QED
    BY <1>14, <2>1, <2>3
<1>19. ASSUME NEW C \in SUBSET E, f.lost \cup G \subseteq C, ClosedUnder(L, C)
       PROVE  E \subseteq C
  <2> DEFINE B == C \cup F
  <2>1. B \in SUBSET D /\ m.lost \cup H \subseteq B
    BY <1>3, <1>5, <1>7, <1>19
  <2>2. ASSUME NEW b \in B, NEW k \in K[b] PROVE k \in B
    <3>1. CASE b \in F
      BY <1>7, <1>19, <2>2, <3>1
    <3>2. CASE b \in C
      <4>1. k \in L[b]
        BY <1>14, <1>19, <2>2, <3>2
      <4> QED
        BY <1>19, <3>2, <4>1 DEF ClosedUnder
    <3> QED
      BY <2>2, <3>1, <3>2
  <2>3. ClosedUnder(K, B)
    BY <2>2 DEF ClosedUnder
  <2> HIDE DEF B
  <2>4. D \subseteq B
    BY <2>1, <2>3 DEF Good, Owned, D, K
  <2> QED
    BY <1>5, <2>4 DEF B
<1>20. Owned(f, G)
  BY <1>11, <1>16, <1>17, <1>18, <1>19 DEF Owned, E, L
<1> QED
  BY <1>5, <1>13, <1>20 DEF Good, E, D, G

\* What nobody holds any more is lost.
LEMMA LoseKeeps ==
  ASSUME NEW m, NEW H, Good(m, H), NEW b \in H,
         NEW f, f = [node |-> m.node, lost |-> m.lost \cup {b}]
  PROVE  Good(f, H \ {b})
<1>1. f.node = m.node /\ f.lost = m.lost \cup {b} /\ f = [node |-> f.node, lost |-> f.lost]
  OBVIOUS
<1>2. KidsOf(f) = KidsOf(m) /\ \A x : KindIn(f, x) = KindIn(m, x)
  BY <1>1 DEF KidsOf, Kids, KindIn
<1>3. WellFormed(f)
  BY <1>1, <1>2 DEF Good, Owned, WellFormed
<1>4. Owned(f, H \ {b})
  <2>1. f.lost \cup (H \ {b}) = m.lost \cup H /\ (H \ {b}) \cap f.lost = {}
        /\ H \ {b} \subseteq DOMAIN f.node
    BY <1>1 DEF Good, Owned
  <2> QED
    BY <1>1, <1>2, <2>1 DEF Good, Owned
<1> QED
  BY <1>3, <1>4 DEF Good

-----------------------------------------------------------------------------
(* The end of a list *)

Cells(m) == {d \in DOMAIN m.node : m.node[d].kind = "cell"}

IsEnd(m, end) ==
  end = [b \in Cells(m) |->
           IF m.node[b].kids[2] = NULL THEN b ELSE end[m.node[b].kids[2]]]

LEMMA CellIs ==
  ASSUME NEW m, WellFormed(m), NEW b \in Cells(m)
  PROVE  /\ b \in DOMAIN m.node /\ m.node[b].kids \in Seq(Nat) /\ Len(m.node[b].kids) = 2
         /\ m.node[b].kids[2] = NULL \/ m.node[b].kids[2] \in Cells(m)
         /\ m.node[b].kids[2] = NULL \/ m.node[b].kids[2] \in KidsOf(m)[b]
<1>1. b \in DOMAIN m.node /\ m.node[b].kind = "cell"
  BY DEF Cells
<1>2. "cell" \notin Literals
  BY GrammarAssumption
<1>3. Fields("cell") = <<Expressions \cup Statements, {"cell", "NULL"}>>
  BY <1>2 DEF Fields, Operators
<1>4. /\ m.node[b].kids \in Seq(Nat) /\ Len(m.node[b].kids) = 2
      /\ KindIn(m, m.node[b].kids[2]) \in {"cell", "NULL"}
  <2>1. Len(m.node[b].kids) = Len(Fields("cell")) /\ m.node[b].kids \in Seq(Nat)
    BY <1>1 DEF WellFormed
  <2>2. \A i \in DOMAIN Fields("cell") : KindIn(m, m.node[b].kids[i]) \in Fields("cell")[i]
    BY <1>1 DEF WellFormed
  <2>3. Len(Fields("cell")) = 2 /\ 2 \in DOMAIN Fields("cell") /\ Fields("cell")[2] = {"cell", "NULL"}
    BY <1>3
  <2> QED
    BY <2>1, <2>2, <2>3
<1>5. m.node[b].kids[2] = NULL \/ m.node[b].kids[2] \in Cells(m)
  <2>1. "NULL" \notin Kinds
    BY KindNames
  <2>2. \A x \in DOMAIN m.node : m.node[x].kind \in Kinds
    BY DEF WellFormed
  <2> QED
    BY <1>4, <2>1, <2>2 DEF KindIn, Cells
<1>6. m.node[b].kids[2] = NULL \/ m.node[b].kids[2] \in KidsOf(m)[b]
  <2>1. 2 \in DOMAIN m.node[b].kids
    BY <1>4
  <2> QED
    BY <1>1, <2>1, KidsAre
<1> QED
  BY <1>1, <1>4, <1>5, <1>6

LEMMA EndsExist ==
  ASSUME NEW m, WellFormed(m)
  PROVE  \E end : IsEnd(m, end)
<1> DEFINE S == Cells(m)
           next(b) == m.node[b].kids[2]
           N == [b \in S |-> {next(b)} \ {NULL}]
           ends(b) == {x \in Reached(N, b) : next(x) = NULL}
           end == [b \in S |-> CHOOSE x : x \in ends(b)]
<1>1. \A b \in S : next(b) = NULL \/ next(b) \in S
  BY CellIs
<1> HIDE DEF S, next
<1>2. N \in [S -> SUBSET S]
  BY <1>1
<1>3. \A b \in S : N[b] = {next(b)} \ {NULL}
  OBVIOUS
<1> HIDE DEF N
<1>4. ASSUME NEW b \in S, next(b) = NULL PROVE end[b] = b
  <2>1. N[b] = {}
    BY <1>3, <1>4
  <2>2. \A x : x \in Reached(N, b) <=> x = b
    BY <1>2, <2>1, ReachedFrom
  <2>3. ends(b) = {b}
    BY <1>4, <2>2
  <2>4. (CHOOSE x : x \in {b}) = b
    OBVIOUS
  <2> HIDE DEF ends
  <2> QED
    BY <2>3, <2>4
<1>5. ASSUME NEW b \in S, next(b) # NULL PROVE end[b] = end[next(b)]
  <2>1. N[b] = {next(b)} /\ next(b) \in S
    BY <1>1, <1>3, <1>5
  <2>2. \A x : x \in Reached(N, b) <=> x = b \/ x \in Reached(N, next(b))
    <3>1. \A x : x \in Reached(N, b) <=> x = b \/ \E c \in N[b] : x \in Reached(N, c)
      BY <1>2, ReachedFrom
    <3> QED
      BY <2>1, <3>1
  <2>3. ends(b) = ends(next(b))
    BY <1>5, <2>2
  <2> HIDE DEF ends
  <2> QED
    BY <2>1, <2>3
<1> HIDE DEF end
<1>6. end = [b \in S |-> IF next(b) = NULL THEN b ELSE end[next(b)]]
  <2>1. \A b \in S : end[b] = IF next(b) = NULL THEN b ELSE end[next(b)]
    BY <1>4, <1>5
  <2>2. end = [b \in S |-> end[b]]
    BY DEF end
  <2> QED
    BY <2>1, <2>2
<1> QED
  BY <1>6 DEF IsEnd, S, next

LEMMA EndIs ==
  ASSUME NEW m, WellFormed(m), Grounded(KidsOf(m)), NEW end, IsEnd(m, end), NEW list \in Cells(m)
  PROVE  /\ end[list] \in Cells(m) /\ m.node[end[list]].kids[2] = NULL
         /\ end[list] \in Reached(KidsOf(m), list)
<1> DEFINE K == KidsOf(m)
           Q(b) == /\ end[b] \in Cells(m) /\ m.node[end[b]].kids[2] = NULL
                   /\ end[b] \in Reached(K, b)
           S == {b \in Cells(m) : ~Q(b)}
<1>1. SUFFICES ASSUME S # {} PROVE FALSE
  OBVIOUS
<1>2. K \in [DOMAIN m.node -> SUBSET DOMAIN m.node] /\ S \in SUBSET DOMAIN m.node
  BY KidsAre DEF Cells
<1>3. PICK b \in S : K[b] \cap S = {}
  <2> HIDE DEF S
  <2> QED
    BY <1>1, <1>2 DEF Grounded
<1>4. b \in Cells(m) /\ b \in DOMAIN m.node /\ b \in Reached(K, b)
  BY <1>2, ReachedClosed DEF Cells
<1>5. end[b] = IF m.node[b].kids[2] = NULL THEN b ELSE end[m.node[b].kids[2]]
  BY <1>4 DEF IsEnd
<1>6. CASE m.node[b].kids[2] = NULL
  BY <1>3, <1>4, <1>5, <1>6
<1>7. CASE m.node[b].kids[2] # NULL
  <2> DEFINE c == m.node[b].kids[2]
  <2>1. c \in Cells(m) /\ c \in K[b] /\ end[b] = end[c]
    BY <1>4, <1>5, <1>7, CellIs
  <2> HIDE DEF c
  <2>2. Q(c)
    BY <1>3, <2>1
  <2>3. \A x \in Reached(K, c) : x \in Reached(K, b)
    BY <1>2, <1>4, <2>1, ReachedFrom
  <2> QED
    BY <1>3, <2>1, <2>2, <2>3
<1> QED
  BY <1>6, <1>7

-----------------------------------------------------------------------------
(* A list that grows by a cell at its end *)

SameKinds(m, n) ==
  \A x \in DOMAIN m.node : x \in DOMAIN n.node /\ n.node[x].kind = m.node[x].kind

\* The list that ends with e goes on with c.
Linked(m, e, c) == [m EXCEPT !.node[e].kids[2] = c]

LEMMA LinkedKeeps ==
  ASSUME NEW m, NEW H, Good(m, H), NEW e \in Cells(m), m.node[e].kids[2] = NULL,
         NEW c \in H, c \in Cells(m), e \notin Reached(KidsOf(m), c),
         NEW f, f = Linked(m, e, c)
  PROVE  Good(f, H \ {c}) /\ SameKinds(m, f)
<1> DEFINE D == DOMAIN m.node
           K == KidsOf(m)
           L == KidsOf(f)
           X == Reached(K, c)
<1>1. /\ WellFormed(m) /\ Grounded(K) /\ H \subseteq D /\ H \cap m.lost = {} /\ m.lost \subseteq D
      /\ NULL \notin D /\ D \subseteq Blocks /\ IsFiniteSet(D) /\ e \in D /\ c \in D /\ c # NULL
      /\ c \in Nat /\ K \in [D -> SUBSET D]
  <2>1. WellFormed(m) /\ Grounded(K) /\ H \subseteq D /\ H \cap m.lost = {} /\ m.lost \subseteq D
        /\ D \subseteq Blocks /\ IsFiniteSet(D) /\ e \in D /\ c \in D
    BY DEF Good, Owned, WellFormed, Cells
  <2>2. NULL \notin D /\ c # NULL /\ c \in Nat
    BY <2>1, SyntaxAssumption
  <2> QED
    BY <2>1, <2>2, KidsAre
<1>2. m = [node |-> m.node, lost |-> m.lost] /\ m.node \in [D -> [kind : Kinds, kids : Seq(Nat)]]
      /\ m.node[e].kids \in Seq(Nat) /\ Len(m.node[e].kids) = 2
  BY <1>1, CellIs DEF WellFormed
<1>3. /\ f = [node |-> f.node, lost |-> f.lost] /\ f.lost = m.lost /\ DOMAIN f.node = D
      /\ f.node = [m.node EXCEPT ![e].kids[2] = c]
  BY <1>2 DEF Linked
<1>4. /\ \A x \in D : x # e => f.node[x] = m.node[x]
      /\ f.node[e] = [m.node[e] EXCEPT !.kids[2] = c]
  BY <1>1, <1>2, <1>3
<1>5. /\ f.node[e].kind = m.node[e].kind
      /\ f.node[e].kids = [m.node[e].kids EXCEPT ![2] = c]
      /\ f.node[e] \in [kind : Kinds, kids : Seq(Nat)]
  <2>1. m.node[e] \in [kind : Kinds, kids : Seq(Nat)]
    BY <1>1, <1>2
  <2> DEFINE kids == m.node[e].kids
             kind == m.node[e].kind
  <2>2. m.node[e] = [kind |-> kind, kids |-> kids] /\ kind \in Kinds
    BY <2>1
  <2>3. f.node[e] = [m.node[e] EXCEPT !.kids = [kids EXCEPT ![2] = c]]
    BY <1>4
  <2>4. kids \in Seq(Nat) /\ 2 \in 1..Len(kids) /\ c \in Nat
    BY <1>1, <1>2
  <2> HIDE DEF kids, kind
  <2>5. [kids EXCEPT ![2] = c] \in Seq(Nat)
    BY <2>4
  <2>6. f.node[e] = [kind |-> kind, kids |-> [kids EXCEPT ![2] = c]]
    BY <2>2, <2>3
  <2> QED
    <3> DEFINE longer == [kids EXCEPT ![2] = c]
    <3>1. longer \in Seq(Nat) /\ kind \in Kinds /\ f.node[e] = [kind |-> kind, kids |-> longer]
      BY <2>2, <2>5, <2>6
    <3> HIDE DEF longer
    <3>2. f.node[e].kind = kind /\ f.node[e].kids = longer
          /\ f.node[e] \in [kind : Kinds, kids : Seq(Nat)]
      BY <3>1
    <3> QED
      BY <3>2 DEF longer, kids, kind
<1>6. /\ DOMAIN f.node[e].kids = 1..2 /\ DOMAIN m.node[e].kids = 1..2
      /\ f.node[e].kids[1] = m.node[e].kids[1] /\ f.node[e].kids[2] = c
      /\ Len(f.node[e].kids) = 2
  BY <1>2, <1>5
<1> HIDE DEF D, K, L, X
<1>7. \A x \in D : f.node[x].kind = m.node[x].kind
  BY <1>4, <1>5
<1>8. \A x : KindIn(f, x) = KindIn(m, x)
  BY <1>3, <1>7 DEF KindIn, D
<1>9. WellFormed(f)
  <2>1. ASSUME NEW x \in D
        PROVE  /\ Len(f.node[x].kids) = Len(Fields(f.node[x].kind))
               /\ \A i \in DOMAIN Fields(f.node[x].kind) :
                    KindIn(f, f.node[x].kids[i]) \in Fields(f.node[x].kind)[i]
    <3>1. /\ Len(m.node[x].kids) = Len(Fields(m.node[x].kind))
          /\ \A i \in DOMAIN Fields(m.node[x].kind) :
               KindIn(m, m.node[x].kids[i]) \in Fields(m.node[x].kind)[i]
      BY <1>1 DEF WellFormed, D
    <3>2. CASE x # e
      BY <1>4, <1>8, <3>1, <3>2
    <3>3. CASE x = e
      <4>1. m.node[e].kind = "cell" /\ "cell" \notin Literals
        BY GrammarAssumption DEF Cells
      <4>2. Fields("cell") = <<Expressions \cup Statements, {"cell", "NULL"}>>
        BY <4>1 DEF Fields, Operators
      <4>3. KindIn(m, c) = "cell"
        BY <1>1 DEF KindIn, Cells
      <4>4. KindIn(f, f.node[e].kids[1]) = KindIn(m, m.node[e].kids[1])
            /\ KindIn(f, f.node[e].kids[2]) = "cell"
        BY <1>6, <1>8, <4>3
      <4>5. f.node[e].kind = "cell"
        BY <1>5, <4>1
      <4>6. DOMAIN Fields("cell") = 1..2 /\ Len(Fields("cell")) = 2
            /\ Fields("cell")[2] = {"cell", "NULL"}
        BY <4>2
      <4>7. KindIn(m, m.node[e].kids[1]) \in Fields("cell")[1]
        BY <3>1, <3>3, <4>1, <4>6
      <4>8. \A i \in 1..2 : i = 1 \/ i = 2
        OBVIOUS
      <4>9. \A i \in 1..2 : KindIn(f, f.node[e].kids[i]) \in Fields("cell")[i]
        BY <4>4, <4>6, <4>7, <4>8
      <4> QED
        BY <1>6, <3>3, <4>5, <4>6, <4>9
    <3> QED
      BY <3>2, <3>3
  <2>2. f.node \in [D -> [kind : Kinds, kids : Seq(Nat)]]
    <3> DEFINE R == [kind : Kinds, kids : Seq(Nat)]
    <3>1. \A x \in D : f.node[x] \in R
      BY <1>2, <1>4, <1>5
    <3>2. f.node = [x \in D |-> f.node[x]]
      BY <1>2, <1>3
    <3> HIDE DEF R
    <3>3. f.node \in [D -> R]
      BY <3>1, <3>2
    <3> QED
      BY <3>3 DEF R
  <2> QED
    BY <1>1, <1>3, <2>1, <2>2 DEF WellFormed
<1>10. L \in [D -> SUBSET D]
  BY <1>3, <1>9, KidsAre DEF L
<1>11. ASSUME NEW x \in D, NEW i \in DOMAIN f.node[x].kids
       PROVE  /\ i \in DOMAIN m.node[x].kids
              /\ f.node[x].kids[i] = IF x = e /\ i = 2 THEN c ELSE m.node[x].kids[i]
  <2>1. CASE x # e
    BY <1>4, <1>11, <2>1
  <2>2. CASE x = e
    <3>1. i = 1 \/ i = 2
      BY <1>6, <1>11, <2>2
    <3> QED
      BY <1>6, <1>11, <2>2, <3>1
  <2> QED
    BY <2>1, <2>2
<1>12. /\ \A x \in D : x # e => L[x] = K[x]
       /\ \A k : k \in L[e] <=> k \in K[e] \/ k = c
  <2>1. /\ \A x \in D : L[x] = Kids(f, x) /\ K[x] = Kids(m, x)
    BY <1>1, <1>3, <1>9, KidsAre DEF L, K, D
  <2>2. \A x \in D : x # e => Kids(f, x) = Kids(m, x)
    BY <1>3, <1>4 DEF Kids, D
  <2>3. Range(f.node[e].kids) = {m.node[e].kids[1], c}
    BY <1>6 DEF Range
  <2>4. Range(m.node[e].kids) = {m.node[e].kids[1], NULL}
    BY <1>6 DEF Range
  <2>5. \A k : k \in Kids(f, e) <=> k \in Kids(m, e) \/ k = c
    BY <1>1, <1>3, <2>3, <2>4 DEF Kids, D
  <2> QED
    BY <1>1, <2>1, <2>2, <2>5
<1>13. /\ \A x \in D : \A i \in DOMAIN m.node[x].kids : m.node[x].kids[i] \notin H \cup m.lost
       /\ \A u, v \in D :
            \A k \in DOMAIN m.node[u].kids, l \in DOMAIN m.node[v].kids :
              m.node[u].kids[k] = m.node[v].kids[l] /\ m.node[u].kids[k] # NULL => u = v /\ k = l
  BY DEF Good, Owned, D
<1>14. ASSUME NEW x \in D, NEW i \in DOMAIN f.node[x].kids
       PROVE  f.node[x].kids[i] \notin (H \ {c}) \cup f.lost
  BY <1>1, <1>3, <1>11, <1>13, <1>14
<1>15. ASSUME NEW x \in D, NEW y \in D,
              NEW i \in DOMAIN f.node[x].kids, NEW j \in DOMAIN f.node[y].kids,
              f.node[x].kids[i] = f.node[y].kids[j], f.node[x].kids[i] # NULL
       PROVE  x = y /\ i = j
  <2>1. /\ i \in DOMAIN m.node[x].kids /\ j \in DOMAIN m.node[y].kids
        /\ m.node[x].kids[i] # c /\ m.node[y].kids[j] # c
    BY <1>11, <1>13, <1>15
  <2>2. CASE x = e /\ i = 2
    BY <1>11, <1>15, <2>1, <2>2
  <2>3. CASE y = e /\ j = 2
    BY <1>11, <1>15, <2>1, <2>3
  <2>4. CASE ~(x = e /\ i = 2) /\ ~(y = e /\ j = 2)
    <3>1. m.node[x].kids[i] = m.node[y].kids[j] /\ m.node[x].kids[i] # NULL
      BY <1>11, <1>15, <2>4
    <3> QED
      BY <1>13, <2>1, <3>1
  <2> QED
    BY <2>2, <2>3, <2>4
<1>16. X \subseteq D /\ c \in X /\ ClosedUnder(K, X) /\ e \notin X
  BY <1>1, ReachedClosed DEF X, K
<1>17. Grounded(L)
  <2>1. SUFFICES ASSUME NEW S \in SUBSET D, S # {}
                 PROVE  \E b \in S : L[b] \cap S = {}
    BY <1>10 DEF Grounded
  <2>2. CASE S \cap X # {}
    <3>1. PICK b \in S \cap X : K[b] \cap (S \cap X) = {}
      BY <1>1, <2>1, <2>2 DEF Grounded
    <3>2. K[b] \subseteq X /\ L[b] = K[b]
      BY <1>12, <1>16, <2>1, <3>1 DEF ClosedUnder
    <3> QED
      BY <3>1, <3>2
  <2>3. CASE S \cap X = {}
    <3>1. PICK b \in S : K[b] \cap S = {}
      BY <1>1, <2>1 DEF Grounded
    <3>2. c \notin S
      BY <1>16, <2>3
    <3> QED
      BY <1>12, <2>1, <3>1, <3>2
  <2> QED
    BY <2>2, <2>3
<1>18. ASSUME NEW C \in SUBSET D, f.lost \cup (H \ {c}) \subseteq C, ClosedUnder(L, C)
       PROVE  D \subseteq C
  <2> DEFINE B == C \cup X
  <2>1. B \in SUBSET D /\ m.lost \cup H \subseteq B
    BY <1>3, <1>16, <1>18
  <2>2. ASSUME NEW b \in B, NEW k \in K[b] PROVE k \in B
    <3>1. CASE b \in X
      BY <1>16, <2>2, <3>1 DEF ClosedUnder
    <3>2. CASE b \in C
      <4>1. k \in L[b]
        BY <1>12, <1>18, <2>2, <3>2
      <4> QED
        BY <1>18, <3>2, <4>1 DEF ClosedUnder
    <3> QED
      BY <2>2, <3>1, <3>2
  <2>3. ClosedUnder(K, B)
    BY <2>2 DEF ClosedUnder
  <2> HIDE DEF B
  <2>4. D \subseteq B
    BY <2>1, <2>3 DEF Good, Owned, D, K
  <2> USE DEF B
  <2>5. e \in C
    BY <1>1, <1>16, <2>4 DEF D
  <2>6. c \in C
    BY <1>12, <1>18, <2>5 DEF ClosedUnder
  <2>7. ASSUME NEW b \in C, NEW k \in K[b] PROVE k \in C
    <3>1. k \in L[b]
      BY <1>12, <1>18, <2>7
    <3> QED
      BY <1>18, <3>1 DEF ClosedUnder
  <2>8. ClosedUnder(K, C)
    BY <2>7 DEF ClosedUnder
  <2>9. X \subseteq C
    BY <1>1, <1>18, <2>6, <2>8, ReachedLeast DEF X
  <2> QED
    BY <2>4, <2>9
<1>19. Owned(f, H \ {c})
  <2>1. H \ {c} \subseteq D /\ (H \ {c}) \cap f.lost = {}
    BY <1>1, <1>3
  <2>2. \A x, y \in D :
          \A i \in DOMAIN f.node[x].kids, j \in DOMAIN f.node[y].kids :
            f.node[x].kids[i] = f.node[y].kids[j] /\ f.node[x].kids[i] # NULL => x = y /\ i = j
    BY <1>15
  <2>3. \A C \in SUBSET D : f.lost \cup (H \ {c}) \subseteq C /\ ClosedUnder(L, C) => D \subseteq C
    BY <1>18
  <2> QED
    <3> DEFINE E == DOMAIN f.node
               G == H \ {c}
    <3>1. G \subseteq E /\ G \cap f.lost = {}
      BY <1>3, <2>1
    <3>2. \A x \in E : \A i \in DOMAIN f.node[x].kids : f.node[x].kids[i] \notin G \cup f.lost
      BY <1>3, <1>14
    <3>3. \A x, y \in E :
            \A i \in DOMAIN f.node[x].kids, j \in DOMAIN f.node[y].kids :
              f.node[x].kids[i] = f.node[y].kids[j] /\ f.node[x].kids[i] # NULL => x = y /\ i = j
      BY <1>3, <2>2
    <3>4. \A C \in SUBSET E : f.lost \cup G \subseteq C /\ ClosedUnder(L, C) => E \subseteq C
      BY <1>3, <2>3
    <3> HIDE DEF G
    <3>5. Owned(f, G)
      BY <1>17, <3>1, <3>2, <3>3, <3>4 DEF Owned, L
    <3> QED
      BY <3>5 DEF G
<1> QED
  BY <1>3, <1>7, <1>9, <1>19 DEF Good, SameKinds, D

LEMMA LinkDoes ==
  ASSUME NEW m, WellFormed(m), NEW sym, NEW list, NEW a,
         NEW c, c = Copy(m, sym, a), NEW cell, cell = New(c.mem, "cell", <<c.val, NULL>>)
  PROVE  /\ list = NULL => Link(m, sym, list, a) = cell
         /\ list # NULL =>
              \E end : /\ IsEnd(m, end)
                       /\ Link(m, sym, list, a) =
                            [mem |-> Linked(cell.mem, end[list], cell.val),
                             val |-> list]
<1> DEFINE Ends(e) ==
             e = [b \in {d \in DOMAIN m.node : m.node[d].kind = "cell"} |->
                    IF m.node[b].kids[2] = NULL THEN b ELSE e[m.node[b].kids[2]]]
           end == CHOOSE e : Ends(e)
<1>1. \A e : Ends(e) <=> IsEnd(m, e)
  BY DEF IsEnd, Cells
<1>2. Link(m, sym, list, a) =
        IF list = NULL THEN cell
        ELSE [mem |-> Linked(cell.mem, end[list], cell.val), val |-> list]
  BY DEF Link, Linked
<1> HIDE DEF Ends
<1>3. Ends(end)
  BY <1>1, EndsExist
<1> HIDE DEF end
<1>4. IsEnd(m, end)
  BY <1>1, <1>3
<1> QED
  BY <1>2, <1>4

\* More blocks change nothing in what is reached from one.
LEMMA OldReached ==
  ASSUME NEW m, NEW n, WellFormed(m), WellFormed(n), Extends(m, n), NEW a \in DOMAIN m.node
  PROVE  Reached(KidsOf(m), a) = Reached(KidsOf(n), a)
<1> DEFINE D == DOMAIN m.node
           E == DOMAIN n.node
           K == KidsOf(m)
           L == KidsOf(n)
<1>1. K \in [D -> SUBSET D] /\ L \in [E -> SUBSET E] /\ D \subseteq E
  BY KidsAre DEF Extends
<1>2. \A b \in D : L[b] = K[b]
  <2>1. \A b \in D : Kids(n, b) = Kids(m, b)
    BY OldKids DEF WellFormed
  <2> QED
    BY <1>1, <2>1, KidsAre
<1> HIDE DEF K, L
<1>3. Reached(K, a) \subseteq Reached(L, a)
  <2> DEFINE C == Reached(L, a) \cap D
  <2>1. a \in Reached(L, a) /\ ClosedUnder(L, Reached(L, a))
    BY <1>1, ReachedClosed
  <2>2. C \in SUBSET D /\ a \in C /\ ClosedUnder(K, C)
    BY <1>1, <1>2, <2>1 DEF ClosedUnder
  <2> HIDE DEF C
  <2>3. Reached(K, a) \subseteq C
    BY <1>1, <2>2, ReachedLeast
  <2> QED
    BY <2>3 DEF C
<1>4. Reached(L, a) \subseteq Reached(K, a)
  <2> DEFINE C == Reached(K, a)
  <2>1. C \subseteq D /\ a \in C /\ ClosedUnder(K, C)
    BY <1>1, ReachedClosed
  <2> HIDE DEF C
  <2>2. C \in SUBSET E /\ a \in C /\ ClosedUnder(L, C) /\ a \in E
    BY <1>1, <1>2, <2>1 DEF ClosedUnder
  <2>3. Reached(L, a) \subseteq C
    BY <1>1, <2>2, ReachedLeast
  <2> QED
    BY <2>3 DEF C
<1> QED
  BY <1>3, <1>4 DEF K, L

\* What a cell's first field may point to.
Listed(m, sym, a) ==
  IF a = NULL THEN sym = "expr" ELSE KindIn(m, a) \in Expressions \cup Statements

LEMMA NewCell ==
  ASSUME NEW m, NEW H, Good(m, H), Room(m, Size(m) + 2), NEW a, a = NULL \/ a \in H,
         NEW sym, Listed(m, sym, a), NEW c, c = Copy(m, sym, a),
         NEW cell, cell = New(c.mem, "cell", <<c.val, NULL>>)
  PROVE  /\ Good(cell.mem, H \cup {cell.val}) /\ Extends(m, cell.mem)
         /\ cell.val \in Blocks /\ cell.val \notin DOMAIN m.node /\ cell.val \in Cells(cell.mem)
         /\ Size(cell.mem) <= 2 * Size(m) + 2
<1>0. Size(m) \in Nat /\ Room(m, Size(m) + 1)
  <2>1. Size(m) \in Nat
    BY SizeIs DEF Good, WellFormed
  <2> QED
    BY <2>1, RoomFor
<1>1. /\ Good(c.mem, H \cup ({c.val} \ {NULL})) /\ Extends(m, c.mem)
      /\ c.val \in Nat /\ c.val \notin DOMAIN m.node
      /\ KindIn(c.mem, c.val) \in Expressions \cup Statements
      /\ Size(c.mem) <= 2 * Size(m) + 1
  <2>1. "other" \in Expressions
    BY DEF Expressions
  <2>2. Good(c.mem, H \cup ({c.val} \ {NULL})) /\ OneCopy(m, sym, a, c)
    BY <1>0, CopyKeeps
  <2> QED
    BY <2>1, <2>2 DEF Listed, OneCopy, CopyKind
<1>2. NULL \notin H /\ H \subseteq DOMAIN m.node /\ NULL \notin DOMAIN m.node
  BY SyntaxAssumption DEF Good, Owned, WellFormed
<1>3. c.val # NULL
  <2>1. "NULL" \notin Expressions \cup Statements
    BY KindNames DEF Kinds
  <2> QED
    BY <1>1, <2>1 DEF KindIn
<1>4. PICK kids, kind : kids = <<c.val, NULL>> /\ kind = "cell"
  OBVIOUS
<1>5. kind \in Kinds /\ Fields(kind) = <<Expressions \cup Statements, {"cell", "NULL"}>>
  <2>1. "cell" \notin Literals
    BY GrammarAssumption
  <2> QED
    BY <1>4, <2>1 DEF Kinds, Fields, Operators
<1>6. /\ kids \in Seq(Nat) /\ Len(kids) = 2 /\ DOMAIN kids = 1..2
      /\ kids[1] = c.val /\ kids[2] = NULL /\ Range(kids) = {c.val, NULL}
  BY <1>1, <1>4 DEF Range, NULL
<1>7. /\ DOMAIN Fields(kind) = 1..2 /\ Len(Fields(kind)) = 2
      /\ Fields(kind)[1] = Expressions \cup Statements /\ Fields(kind)[2] = {"cell", "NULL"}
  BY <1>5
<1>8. \A i \in 1..2 : i = 1 \/ i = 2
  OBVIOUS
<1>9. /\ \A i \in DOMAIN Fields(kind) : KindIn(c.mem, kids[i]) \in Fields(kind)[i]
      /\ \A i \in DOMAIN kids : kids[i] = NULL \/ kids[i] \in H \cup ({c.val} \ {NULL})
      /\ \A i, j \in DOMAIN kids : kids[i] = kids[j] /\ kids[i] # NULL => i = j
      /\ Len(kids) = Len(Fields(kind))
  <2>1. KindIn(c.mem, NULL) = "NULL"
    BY DEF KindIn
  <2> QED
    BY <1>1, <1>3, <1>6, <1>7, <1>8, <2>1
<1>10. cell = New(c.mem, kind, kids)
  BY <1>4
<1>11. Room(c.mem, 1) /\ Size(c.mem) \in Nat
  <2>1. WellFormed(m) /\ WellFormed(c.mem) /\ DOMAIN m.node \subseteq DOMAIN c.mem.node
    BY <1>1 DEF Good, Extends
  <2>2. Size(m) <= Size(c.mem) /\ Size(c.mem) \in Nat
    BY <2>1, SizeGrows
  <2>3. Size(c.mem) + 1 <= Size(m) + (Size(m) + 2)
    BY <1>0, <1>1, <2>2
  <2> QED
    BY <1>0, <2>1, <2>2, <2>3, StillRoom
<1>12. /\ Good(cell.mem, ((H \cup ({c.val} \ {NULL})) \ Range(kids)) \cup {cell.val})
       /\ OneMore(c.mem, kind, kids, cell)
  <2> DEFINE G == H \cup ({c.val} \ {NULL})
  <2>1. Good(c.mem, G) /\ \A i \in DOMAIN kids : kids[i] = NULL \/ kids[i] \in G
    BY <1>1, <1>9
  <2> HIDE DEF G
  <2>2. Good(cell.mem, (G \ Range(kids)) \cup {cell.val}) /\ OneMore(c.mem, kind, kids, cell)
    BY <1>5, <1>6, <1>9, <1>10, <1>11, <2>1, NewKeeps
  <2> QED
    BY <2>2 DEF G
<1>13. ((H \cup ({c.val} \ {NULL})) \ Range(kids)) \cup {cell.val} = H \cup {cell.val}
  <2>1. c.val \notin H
    BY <1>1, <1>2
  <2> QED
    BY <1>2, <1>6, <2>1
<1>14. Extends(m, cell.mem)
  BY <1>1, <1>12 DEF Extends, OneMore
<1>15. cell.val \in Blocks /\ cell.val \notin DOMAIN m.node /\ cell.val \in Cells(cell.mem)
  BY <1>1, <1>4, <1>12 DEF OneMore, Extends, Cells
<1>16. Size(cell.mem) <= 2 * Size(m) + 2
  BY <1>0, <1>1, <1>11, <1>12 DEF OneMore
<1> QED
  BY <1>12, <1>13, <1>14, <1>15, <1>16

\* r is the memory m with list, or a new one, longer by a cell.
OneLink(m, list, r) ==
  /\ SameKinds(m, r.mem) /\ Size(r.mem) <= 2 * Size(m) + 2
  /\ r.val \in Blocks /\ r.val \in Cells(r.mem)
  /\ IF list = NULL THEN r.val \notin DOMAIN m.node ELSE r.val = list

LEMMA LinkKeeps ==
  ASSUME NEW m, NEW H, Good(m, H), Room(m, Size(m) + 2), NEW a, a = NULL \/ a \in H,
         NEW sym, Listed(m, sym, a), NEW list, list = NULL \/ (list \in H /\ list \in Cells(m)),
         NEW r, r = Link(m, sym, list, a)
  PROVE  Good(r.mem, H \cup {r.val}) /\ OneLink(m, list, r)
<1>1. PICK c : c = Copy(m, sym, a)
  OBVIOUS
<1>2. PICK cell : cell = New(c.mem, "cell", <<c.val, NULL>>)
  OBVIOUS
<1>3. /\ Good(cell.mem, H \cup {cell.val}) /\ Extends(m, cell.mem)
      /\ cell.val \in Blocks /\ cell.val \notin DOMAIN m.node /\ cell.val \in Cells(cell.mem)
      /\ Size(cell.mem) <= 2 * Size(m) + 2
  BY <1>1, <1>2, NewCell
<1>4. WellFormed(m) /\ Grounded(KidsOf(m)) /\ H \subseteq DOMAIN m.node /\ WellFormed(cell.mem)
      /\ DOMAIN m.node \subseteq Blocks
  BY <1>3 DEF Good, Owned, WellFormed
<1>5. CASE list = NULL
  <2>1. r = cell
    BY <1>1, <1>2, <1>4, <1>5, LinkDoes
  <2> QED
    BY <1>3, <1>5, <2>1 DEF OneLink, SameKinds, Extends
<1>6. CASE list # NULL
  <2>1. list \in H /\ list \in Cells(m)
    BY <1>6
  <2>2. PICK end : /\ IsEnd(m, end)
                   /\ r = [mem |-> Linked(cell.mem, end[list], cell.val),
                           val |-> list]
    <3>1. \E end : /\ IsEnd(m, end)
                   /\ Link(m, sym, list, a) =
                        [mem |-> Linked(cell.mem, end[list], cell.val),
                         val |-> list]
      BY <1>1, <1>2, <1>4, <1>6, LinkDoes
    <3> QED
      BY <3>1
  <2>3. PICK e : e = end[list]
    OBVIOUS
  <2>4. e \in Cells(m) /\ m.node[e].kids[2] = NULL /\ e \in Reached(KidsOf(m), list)
    BY <1>4, <2>1, <2>2, <2>3, EndIs
  <2>5. e \in Cells(cell.mem) /\ cell.mem.node[e].kids[2] = NULL
    BY <1>3, <2>4 DEF Cells, Extends
  <2>6. e \in Reached(KidsOf(cell.mem), list)
    <3>1. Reached(KidsOf(m), list) = Reached(KidsOf(cell.mem), list)
      BY <1>3, <1>4, <2>1, OldReached
    <3> QED
      BY <2>4, <3>1
  <2>7. e \notin Reached(KidsOf(cell.mem), cell.val)
    <3>1. list # cell.val
      BY <1>3, <1>4, <2>1
    <3>2. list \in H \cup {cell.val} /\ cell.val \in H \cup {cell.val}
      BY <2>1
    <3>3. Reached(KidsOf(cell.mem), list) \cap Reached(KidsOf(cell.mem), cell.val) = {}
      BY <1>3, <3>1, <3>2, Disjoint
    <3> QED
      BY <2>6, <3>3
  <2>8. r.mem = Linked(cell.mem, e, cell.val) /\ r.val = list
    BY <2>2, <2>3
  <2>9. Good(r.mem, (H \cup {cell.val}) \ {cell.val}) /\ SameKinds(cell.mem, r.mem)
    <3> DEFINE G == H \cup {cell.val}
    <3>1. Good(cell.mem, G) /\ cell.val \in G
      BY <1>3
    <3> HIDE DEF G
    <3>2. Good(r.mem, G \ {cell.val}) /\ SameKinds(cell.mem, r.mem)
      BY <1>3, <2>5, <2>7, <2>8, <3>1, LinkedKeeps
    <3> QED
      BY <3>2 DEF G
  <2>10. (H \cup {cell.val}) \ {cell.val} = H \cup {r.val}
    BY <1>3, <1>4, <2>1, <2>8
  <2>11. SameKinds(m, r.mem) /\ r.val \in Cells(r.mem) /\ r.val \in Blocks
    BY <1>3, <1>4, <2>1, <2>8, <2>9 DEF SameKinds, Extends, Cells
  <2>12. Size(r.mem) <= 2 * Size(m) + 2
    <3>1. cell.mem = [node |-> cell.mem.node, lost |-> cell.mem.lost]
          /\ cell.mem.node = [b \in DOMAIN cell.mem.node |-> cell.mem.node[b]]
      BY <1>4 DEF WellFormed
    <3>2. DOMAIN r.mem.node = DOMAIN cell.mem.node
      BY <2>8, <3>1 DEF Linked
    <3> QED
      BY <1>3, <3>2 DEF Size
  <2> QED
    BY <1>6, <2>8, <2>9, <2>10, <2>11, <2>12 DEF OneLink
<1> QED
  BY <1>5, <1>6

-----------------------------------------------------------------------------
(* What the rules of the grammar do with their values: one or two of them *)
(* are copied, and then freed.                                             *)

LEMMA CopyAllDoes ==
  ASSUME NEW m, NEW syms, NEW vals, Len(vals) \in 0..2,
         NEW c, c = Copy(m, syms[1], vals[1]), NEW d, d = Copy(c.mem, syms[2], vals[2])
  PROVE  CopyAll(m, syms, vals) =
           IF Len(vals) = 0 THEN [mem |-> m, vals |-> <<>>]
           ELSE IF Len(vals) = 1 THEN [mem |-> c.mem, vals |-> <<c.val>>]
           ELSE [mem |-> d.mem, vals |-> <<c.val, d.val>>]
<1> DEFINE n == Len(vals)
           next(s, i) == LET e == Copy(s.mem, syms[i], vals[i])
                         IN [mem |-> e.mem, vals |-> Append(s.vals, e.val)]
           first == [mem |-> m, vals |-> <<>>]
           IsDone(f) == f = [i \in 0..n |-> IF i = 0 THEN first ELSE next(f[i - 1], i)]
           done == CHOOSE f : IsDone(f)
           one == [mem |-> c.mem, vals |-> <<c.val>>]
           two == [mem |-> d.mem, vals |-> <<c.val, d.val>>]
<1>1. CopyAll(m, syms, vals) = done[n]
  BY DEF CopyAll
<1>2. next(first, 1) = one /\ next(one, 2) = two
  OBVIOUS
<1> HIDE DEF next, first, one, two
<1>3. \E f : IsDone(f)
  <2> DEFINE f == [i \in 0..n |-> IF i = 0 THEN first ELSE IF i = 1 THEN one ELSE two]
  <2>1. ASSUME NEW i \in 0..n
        PROVE  f[i] = IF i = 0 THEN first ELSE next(f[i - 1], i)
    <3>1. i = 0 \/ i = 1 \/ i = 2
      OBVIOUS
    <3>2. CASE i = 0
      BY <3>2
    <3>3. CASE i = 1
      <4>1. f[i] = one /\ f[0] = first /\ i - 1 = 0
        BY <3>3
      <4> HIDE DEF f
      <4> QED
        BY <1>2, <3>3, <4>1
    <3>4. CASE i = 2
      <4>1. f[i] = two /\ f[1] = one /\ i - 1 = 1
        BY <3>4
      <4> HIDE DEF f
      <4> QED
        BY <1>2, <3>4, <4>1
    <3> QED
      BY <3>1, <3>2, <3>3, <3>4
  <2>2. f = [i \in 0..n |-> f[i]]
    OBVIOUS
  <2> HIDE DEF f
  <2>3. IsDone(f)
    BY <2>1, <2>2
  <2> QED
    BY <2>3
<1>4. IsDone(done)
  <2> HIDE DEF IsDone
  <2> QED
    BY <1>3
<1> HIDE DEF done
<1>5. \A i \in 0..n : done[i] = IF i = 0 THEN first ELSE next(done[i - 1], i)
  BY <1>4
<1> HIDE DEF IsDone
<1>6. n \in 0..2 /\ (n = 0 \/ n = 1 \/ n = 2)
  OBVIOUS
<1>7. done[0] = first
  BY <1>5, <1>6
<1>8. n >= 1 => done[1] = one
  <2>1. n >= 1 => 1 \in 0..n /\ 1 # 0 /\ 1 - 1 = 0
    BY <1>6
  <2>2. n >= 1 => done[1] = next(done[0], 1)
    BY <1>5, <2>1
  <2> QED
    BY <1>2, <1>7, <2>2
<1>9. n >= 2 => done[2] = two
  <2>1. n >= 2 => n >= 1 /\ 2 \in 0..n /\ 2 # 0 /\ 2 - 1 = 1
    BY <1>6
  <2>2. n >= 2 => done[2] = next(done[1], 2)
    BY <1>5, <2>1
  <2> QED
    BY <1>2, <1>8, <2>1, <2>2
<1>10. CASE n = 0
  BY <1>1, <1>7, <1>10 DEF first
<1>11. CASE n = 1
  BY <1>1, <1>8, <1>11 DEF one
<1>12. CASE n = 2
  BY <1>1, <1>9, <1>12 DEF two
<1> QED
  BY <1>6, <1>10, <1>11, <1>12

\* r holds copies of vals.
CopiesOf(m, syms, vals, r) ==
  /\ Extends(m, r.mem) /\ Size(r.mem) <= 4 * Size(m) + 3
  /\ r.vals \in Seq(Nat) /\ Len(r.vals) = Len(vals)
  /\ \A i \in 1..Len(vals) :
       r.vals[i] \notin DOMAIN m.node /\ KindIn(r.mem, r.vals[i]) = CopyKind(m, syms[i], vals[i])
  /\ \A i, j \in 1..Len(vals) : r.vals[i] = r.vals[j] /\ r.vals[i] # NULL => i = j

LEMMA CopyAllKeeps ==
  ASSUME NEW m, NEW H, Good(m, H), Room(m, 3 * Size(m) + 3), NEW syms, NEW vals, Len(vals) \in 0..2,
         \A i \in 1..Len(vals) : vals[i] = NULL \/ vals[i] \in H,
         NEW r, r = CopyAll(m, syms, vals)
  PROVE  Good(r.mem, H \cup (Range(r.vals) \ {NULL})) /\ CopiesOf(m, syms, vals, r)
<1>0. Size(m) \in Nat /\ Room(m, Size(m) + 1)
  <2>1. Size(m) \in Nat
    BY SizeIs DEF Good, WellFormed
  <2>2. Size(m) + 1 \in Nat /\ 3 * Size(m) + 3 \in Nat /\ Size(m) + 1 <= 3 * Size(m) + 3
    BY <2>1
  <2> QED
    BY <2>1, <2>2, RoomFor
<1>1. PICK c : c = Copy(m, syms[1], vals[1])
  OBVIOUS
<1>2. PICK d : d = Copy(c.mem, syms[2], vals[2])
  OBVIOUS
<1>3. r = IF Len(vals) = 0 THEN [mem |-> m, vals |-> <<>>]
          ELSE IF Len(vals) = 1 THEN [mem |-> c.mem, vals |-> <<c.val>>]
          ELSE [mem |-> d.mem, vals |-> <<c.val, d.val>>]
  BY <1>1, <1>2, CopyAllDoes
<1>4. Len(vals) >= 1 =>
        /\ Good(c.mem, H \cup ({c.val} \ {NULL})) /\ Extends(m, c.mem)
        /\ c.val \in Nat /\ c.val \notin DOMAIN m.node
        /\ KindIn(c.mem, c.val) = CopyKind(m, syms[1], vals[1])
        /\ Size(c.mem) <= 2 * Size(m) + 1
  <2>1. SUFFICES ASSUME Len(vals) >= 1
                 PROVE  /\ Good(c.mem, H \cup ({c.val} \ {NULL})) /\ Extends(m, c.mem)
                        /\ c.val \in Nat /\ c.val \notin DOMAIN m.node
                        /\ KindIn(c.mem, c.val) = CopyKind(m, syms[1], vals[1])
                        /\ Size(c.mem) <= 2 * Size(m) + 1
    OBVIOUS
  <2>2. 1 \in 1..Len(vals)
    BY <2>1
  <2>3. vals[1] = NULL \/ vals[1] \in H
    BY <2>2
  <2> QED
    BY <1>0, <1>1, <2>3, CopyKeeps DEF OneCopy
<1>5. \A x \in DOMAIN m.node : x # NULL
  BY SyntaxAssumption DEF Good, WellFormed
<1>6. CASE Len(vals) = 0
  <2>1. r.mem = m /\ r.vals = <<>>
    BY <1>3, <1>6
  <2>2. Range(r.vals) = {}
    BY <2>1 DEF Range
  <2>3. Extends(m, m)
    BY DEF Extends
  <2>4. H \cup (Range(r.vals) \ {NULL}) = H /\ Len(r.vals) = 0 /\ r.vals \in Seq(Nat)
    BY <2>1, <2>2
  <2>5. \A i : i \notin 1..Len(vals)
    BY <1>6
  <2>6. Size(r.mem) <= 4 * Size(m) + 3
    <3>1. Size(m) <= 4 * Size(m) + 3
      BY <1>0
    <3> QED
      BY <2>1, <3>1
  <2> QED
    BY <1>6, <2>1, <2>3, <2>4, <2>5, <2>6 DEF CopiesOf
<1>7. CASE Len(vals) = 1
  <2>1. r.mem = c.mem /\ r.vals = <<c.val>>
    BY <1>3, <1>7
  <2>2. Range(r.vals) = {c.val} /\ r.vals[1] = c.val /\ Len(r.vals) = 1
    BY <2>1 DEF Range
  <2>3. r.vals \in Seq(Nat)
    BY <1>4, <1>7, <2>1
  <2>4. \A i \in 1..1 : i = 1
    OBVIOUS
  <2>5. Size(c.mem) <= 4 * Size(m) + 3
    <3>1. Size(c.mem) \in Nat
      BY <1>4, <1>7, SizeIs DEF Good, WellFormed
    <3> QED
      BY <1>0, <1>4, <1>7, <3>1
  <2>6. /\ Extends(m, c.mem) /\ Good(c.mem, H \cup ({c.val} \ {NULL})) /\ c.val \notin DOMAIN m.node
        /\ KindIn(c.mem, c.val) = CopyKind(m, syms[1], vals[1])
    BY <1>4, <1>7
  <2>7. Size(r.mem) <= 4 * Size(m) + 3
    BY <2>1, <2>5
  <2>8. CopiesOf(m, syms, vals, r)
    BY <1>7, <2>1, <2>2, <2>3, <2>4, <2>6, <2>7 DEF CopiesOf
  <2> QED
    BY <2>1, <2>2, <2>6, <2>8
<1>8. CASE Len(vals) = 2
  <2>1. r.mem = d.mem /\ r.vals = <<c.val, d.val>>
    BY <1>3, <1>8
  <2>2. Range(r.vals) = {c.val, d.val} /\ r.vals[1] = c.val /\ r.vals[2] = d.val /\ Len(r.vals) = 2
    BY <2>1 DEF Range
  <2>3. /\ Good(c.mem, H \cup ({c.val} \ {NULL})) /\ Extends(m, c.mem)
        /\ c.val \in Nat /\ c.val \notin DOMAIN m.node
        /\ KindIn(c.mem, c.val) = CopyKind(m, syms[1], vals[1])
        /\ Size(c.mem) <= 2 * Size(m) + 1
    BY <1>4, <1>8
  <2>4. Size(c.mem) \in Nat /\ Room(c.mem, Size(c.mem) + 1)
    <3>1. WellFormed(m) /\ WellFormed(c.mem) /\ DOMAIN m.node \subseteq DOMAIN c.mem.node
      BY <2>3 DEF Good, Extends
    <3>2. Size(m) <= Size(c.mem) /\ Size(c.mem) \in Nat
      BY <3>1, SizeGrows
    <3>3. Size(c.mem) + (Size(c.mem) + 1) <= Size(m) + (3 * Size(m) + 3)
      BY <1>0, <2>3, <3>2
    <3>4. 3 * Size(m) + 3 \in Nat /\ Size(c.mem) + 1 \in Nat
      BY <1>0, <3>2
    <3> QED
      BY <3>1, <3>2, <3>3, <3>4, StillRoom
  <2>5. 2 \in 1..Len(vals)
    BY <1>8
  <2>6. vals[2] = NULL \/ vals[2] \in H
    BY <2>5
  <2>7. /\ Good(d.mem, H \cup ({c.val} \ {NULL}) \cup ({d.val} \ {NULL})) /\ Extends(c.mem, d.mem)
        /\ d.val \in Nat /\ d.val \notin DOMAIN c.mem.node
        /\ KindIn(d.mem, d.val) = CopyKind(c.mem, syms[2], vals[2])
        /\ Size(d.mem) <= 2 * Size(c.mem) + 1
    <3> DEFINE G == H \cup ({c.val} \ {NULL})
    <3>1. Good(c.mem, G) /\ (vals[2] = NULL \/ vals[2] \in G)
      BY <2>3, <2>6
    <3> HIDE DEF G
    <3>2. Good(d.mem, G \cup ({d.val} \ {NULL})) /\ OneCopy(c.mem, syms[2], vals[2], d)
      BY <1>2, <2>4, <3>1, CopyKeeps
    <3> QED
      BY <3>2 DEF G, OneCopy
  <2>8. H \cup ({c.val} \ {NULL}) \cup ({d.val} \ {NULL}) = H \cup (Range(r.vals) \ {NULL})
    BY <2>2
  <2>9. CopyKind(c.mem, syms[2], vals[2]) = CopyKind(m, syms[2], vals[2])
    <3>1. vals[2] # NULL => vals[2] \in DOMAIN m.node
      BY <2>6 DEF Good, Owned
    <3> QED
      BY <2>3, <3>1 DEF CopyKind, KindIn, Extends
  <2>10. Extends(m, d.mem) /\ d.val \notin DOMAIN m.node
    BY <2>3, <2>7 DEF Extends
  <2>11. c.val # NULL => c.val \in DOMAIN c.mem.node /\ KindIn(d.mem, c.val) = KindIn(c.mem, c.val)
    <3>1. c.val # NULL => c.val \in DOMAIN c.mem.node
      BY <2>3 DEF Good, Owned
    <3> QED
      BY <2>7, <3>1 DEF Extends, KindIn
  <2>12. KindIn(d.mem, c.val) = CopyKind(m, syms[1], vals[1])
    BY <2>3, <2>11 DEF KindIn
  <2>13. c.val = d.val => c.val = NULL
    BY <2>7, <2>11
  <2>14. r.vals \in Seq(Nat)
    BY <2>1, <2>3, <2>7
  <2>15. \A i \in 1..2 : i = 1 \/ i = 2
    OBVIOUS
  <2>16. CopiesOf(m, syms, vals, r)
    <3>1. /\ Extends(m, r.mem) /\ r.vals \in Seq(Nat) /\ Len(r.vals) = 2
      BY <2>1, <2>2, <2>10, <2>14
    <3>2. ASSUME NEW i \in 1..2
          PROVE  r.vals[i] \notin DOMAIN m.node
                 /\ KindIn(r.mem, r.vals[i]) = CopyKind(m, syms[i], vals[i])
      BY <2>1, <2>2, <2>3, <2>7, <2>9, <2>10, <2>12, <2>15
    <3>3. ASSUME NEW i \in 1..2, NEW j \in 1..2, r.vals[i] = r.vals[j], r.vals[i] # NULL
          PROVE  i = j
      BY <2>2, <2>13, <2>15, <3>3
    <3>4. Size(r.mem) <= 4 * Size(m) + 3
      <4>1. Size(d.mem) \in Nat
        BY <2>7, SizeIs DEF Good, WellFormed
      <4> QED
        BY <1>0, <2>1, <2>3, <2>4, <2>7, <4>1
    <3> QED
      BY <1>8, <3>1, <3>2, <3>3, <3>4 DEF CopiesOf
  <2> QED
    BY <2>1, <2>7, <2>8, <2>16
<1> QED
  BY <1>6, <1>7, <1>8

\* What a rule leaves: f, with its structure v of kind for the arguments.
Done(m, H, args, kind, v, f) ==
  /\ Good(f, (H \ Range(args)) \cup {v}) /\ v \in Blocks /\ KindIn(f, v) = kind
  /\ \A h \in H \ Range(args) : KindIn(f, h) = KindIn(m, h)

\* The arguments of a rule are freed when its structure v stands.
LEMMA FreeArgs ==
  ASSUME NEW m, NEW H, Good(m, H), NEW n, NEW v \in Blocks, Good(n, H \cup {v}), SameKinds(m, n),
         NEW args, Range(args) \subseteq H \cup {NULL}, v \notin Range(args),
         NEW f, f = FreeAll(n, args)
  PROVE  Done(m, H, args, KindIn(n, v), v, f)
<1> DEFINE G == H \cup {v}
<1>1. Good(n, G) /\ Range(args) \subseteq G \cup {NULL}
  OBVIOUS
<1>2. G \ Range(args) = (H \ Range(args)) \cup {v}
  OBVIOUS
<1> HIDE DEF G
<1>3. /\ Good(f, G \ Range(args))
      /\ \A a \in DOMAIN f.node : a \in DOMAIN n.node /\ f.node[a] = n.node[a]
  BY <1>1, FreeKeeps
<1>4. Good(f, (H \ Range(args)) \cup {v})
  BY <1>2, <1>3
<1>5. v \in DOMAIN f.node /\ H \ Range(args) \subseteq DOMAIN f.node /\ H \subseteq DOMAIN m.node
  BY <1>4 DEF Good, Owned
<1>6. KindIn(f, v) = KindIn(n, v)
  BY <1>3, <1>5 DEF KindIn
<1>7. ASSUME NEW h \in H \ Range(args) PROVE KindIn(f, h) = KindIn(m, h)
  <2>1. h \in DOMAIN f.node /\ h \in DOMAIN n.node /\ h \in DOMAIN m.node
        /\ f.node[h] = n.node[h] /\ n.node[h].kind = m.node[h].kind
    BY <1>3, <1>5 DEF SameKinds
  <2> QED
    BY <2>1 DEF KindIn
<1> QED
  BY <1>4, <1>6, <1>7 DEF Done

LEMMA MakeKeeps ==
  ASSUME NEW m, NEW H, Good(m, H), Room(m, 3 * Size(m) + 4), NEW syms, NEW args,
         NEW kind \in Kinds, Len(args) = Len(Fields(kind)),
         DOMAIN args = 1..Len(args), \A i \in 1..Len(args) : args[i] = NULL \/ args[i] \in H,
         \A i \in 1..Len(args) : CopyKind(m, syms[i], args[i]) \in Fields(kind)[i],
         NEW copies, copies = CopyAll(m, syms, args),
         NEW made, made = New(copies.mem, kind, copies.vals),
         NEW f, f = FreeAll(made.mem, args)
  PROVE  Done(m, H, args, kind, made.val, f) /\ made.val \notin H
<1> DEFINE G == H \cup (Range(copies.vals) \ {NULL})
<1>1. Len(args) \in 0..2 /\ DOMAIN Fields(kind) = 1..Len(args)
  BY FieldKinds
<1>2. Good(copies.mem, G) /\ CopiesOf(m, syms, args, copies) /\ Size(m) \in Nat
  <2>1. Size(m) \in Nat
    BY SizeIs DEF Good, WellFormed
  <2>2. Room(m, 3 * Size(m) + 3)
    <3>1. 3 * Size(m) + 3 \in Nat /\ 3 * Size(m) + 4 \in Nat /\ 3 * Size(m) + 3 <= 3 * Size(m) + 4
      BY <2>1
    <3> QED
      BY <3>1, RoomFor
  <2> QED
    BY <1>1, <2>1, <2>2, CopyAllKeeps
<1>3. /\ copies.vals \in Seq(Nat) /\ DOMAIN copies.vals = 1..Len(args)
      /\ Len(copies.vals) = Len(Fields(kind))
      /\ \A i \in DOMAIN Fields(kind) : KindIn(copies.mem, copies.vals[i]) \in Fields(kind)[i]
      /\ \A i, j \in DOMAIN copies.vals :
           copies.vals[i] = copies.vals[j] /\ copies.vals[i] # NULL => i = j
      /\ \A i \in DOMAIN copies.vals : copies.vals[i] = NULL \/ copies.vals[i] \in G
      /\ \A i \in DOMAIN copies.vals : copies.vals[i] \notin DOMAIN m.node
      /\ Extends(m, copies.mem)
  <2>1. copies.vals \in Seq(Nat) /\ Len(copies.vals) = Len(args) /\ Extends(m, copies.mem)
    BY <1>2 DEF CopiesOf
  <2>2. DOMAIN copies.vals = 1..Len(args)
    BY <2>1
  <2>3. \A i \in 1..Len(args) :
          /\ KindIn(copies.mem, copies.vals[i]) = CopyKind(m, syms[i], args[i])
          /\ copies.vals[i] \notin DOMAIN m.node
    BY <1>2 DEF CopiesOf
  <2>4. \A i, j \in 1..Len(args) : copies.vals[i] = copies.vals[j] /\ copies.vals[i] # NULL => i = j
    BY <1>2 DEF CopiesOf
  <2>5. \A i \in DOMAIN copies.vals : copies.vals[i] \in Range(copies.vals)
    BY DEF Range
  <2> QED
    BY <1>1, <2>1, <2>2, <2>3, <2>4, <2>5
<1>4. Room(copies.mem, 1)
  <2>1. WellFormed(m) /\ WellFormed(copies.mem) /\ DOMAIN m.node \subseteq DOMAIN copies.mem.node
    BY <1>2, <1>3 DEF Good, Extends
  <2>2. Size(m) <= Size(copies.mem) /\ Size(copies.mem) \in Nat
    BY <2>1, SizeGrows
  <2>3. Size(copies.mem) <= 4 * Size(m) + 3
    BY <1>2 DEF CopiesOf
  <2>4. Size(copies.mem) + 1 <= Size(m) + (3 * Size(m) + 4) /\ 3 * Size(m) + 4 \in Nat
    BY <1>2, <2>2, <2>3
  <2> QED
    BY <2>1, <2>2, <2>4, StillRoom
<1>5. Good(made.mem, (G \ Range(copies.vals)) \cup {made.val})
      /\ OneMore(copies.mem, kind, copies.vals, made)
  <2> HIDE DEF G
  <2> QED
    BY ZenonT(60), <1>2, <1>3, <1>4, NewKeeps
<1>6. H \subseteq DOMAIN m.node /\ NULL \notin H
  BY SyntaxAssumption DEF Good, Owned, WellFormed
<1>7. (G \ Range(copies.vals)) \cup {made.val} = H \cup {made.val}
  <2>1. \A x \in Range(copies.vals) : x \notin H
    BY <1>3, <1>6 DEF Range
  <2> QED
    BY <2>1
<1>8. Good(made.mem, H \cup {made.val})
  BY <1>5, <1>7
<1>9. SameKinds(m, made.mem)
  BY <1>3, <1>5 DEF SameKinds, Extends, OneMore
<1>10. /\ made.val \in Blocks /\ made.val # NULL /\ made.val \notin DOMAIN m.node
      /\ KindIn(made.mem, made.val) = kind
  BY <1>3, <1>5 DEF OneMore, Extends, KindIn
<1>11. Range(args) \subseteq H \cup {NULL} /\ made.val \notin Range(args)
  BY <1>6, <1>10 DEF Range
<1>12. Done(m, H, args, KindIn(made.mem, made.val), made.val, f)
  BY <1>8, <1>9, <1>10, <1>11, FreeArgs
<1> QED
  BY <1>6, <1>10, <1>12

\* v is the list, or a new one.
Appended(list, v, H) == (list = NULL => v \notin H) /\ (list # NULL => v = list)

LEMMA StatementKeeps ==
  ASSUME NEW m, NEW H, Good(m, H), Room(m, Size(m) + 2), NEW sym, NEW a, a = NULL \/ a \in H,
         Listed(m, sym, a), NEW list, list = NULL \/ (list \in H /\ list \in Cells(m)), list # a \/ a = NULL,
         NEW longer, longer = Link(m, sym, list, a),
         NEW f, f = FreeAll(longer.mem, <<a>>)
  PROVE  Done(m, H, <<a>>, "cell", longer.val, f) /\ Appended(list, longer.val, H)
<1>1. /\ Good(longer.mem, H \cup {longer.val}) /\ SameKinds(m, longer.mem)
      /\ longer.val \in Blocks /\ longer.val \in Cells(longer.mem)
      /\ IF list = NULL THEN longer.val \notin DOMAIN m.node ELSE longer.val = list
  BY LinkKeeps DEF OneLink
<1>2. H \subseteq DOMAIN m.node /\ NULL \notin Blocks
  BY SyntaxAssumption DEF Good, Owned
<1>3. PICK args : args = <<a>>
  OBVIOUS
<1>4. Range(args) = {a}
  BY <1>3 DEF Range
<1>5. Range(args) \subseteq H \cup {NULL} /\ longer.val \notin Range(args)
  BY <1>1, <1>2, <1>4
<1>6. f = FreeAll(longer.mem, args)
  BY <1>3
<1>7. Done(m, H, args, KindIn(longer.mem, longer.val), longer.val, f)
  BY <1>1, <1>5, <1>6, FreeArgs
<1>8. KindIn(longer.mem, longer.val) = "cell"
  BY <1>1, <1>2 DEF KindIn, Cells
<1>9. Done(m, H, args, "cell", longer.val, f)
  BY <1>7, <1>8
<1> QED
  BY <1>1, <1>2, <1>3, <1>9 DEF Appended

\* The list that AppendTo makes.
Longer(m, list, args) ==
  LET longer[i \in 0..Len(args)] ==
        IF i = 0 THEN [mem |-> m, val |-> list]
        ELSE Link(longer[i - 1].mem, "expr", longer[i - 1].val, args[i])
  IN longer[Len(args)]

LEMMA LongerIs ==
  ASSUME NEW m, NEW list, NEW args, Len(args) \in 1..2,
         NEW p, p = Link(m, "expr", list, args[1])
  PROVE  Longer(m, list, args) =
           IF Len(args) = 1 THEN p ELSE Link(p.mem, "expr", p.val, args[2])
<1> DEFINE n == Len(args)
           first == [mem |-> m, val |-> list]
           next(s, i) == Link(s.mem, "expr", s.val, args[i])
           IsLonger(f) == f = [i \in 0..n |-> IF i = 0 THEN first ELSE next(f[i - 1], i)]
           longer == CHOOSE f : IsLonger(f)
           q == Link(p.mem, "expr", p.val, args[2])
<1>1. Longer(m, list, args) = longer[n]
  BY DEF Longer
<1>2. next(first, 1) = p /\ next(p, 2) = q
  OBVIOUS
<1> HIDE DEF next, first, q
<1>3. n = 1 \/ n = 2
  OBVIOUS
<1>4. \E f : IsLonger(f)
  <2> DEFINE f == [i \in 0..n |-> IF i = 0 THEN first ELSE IF i = 1 THEN p ELSE q]
  <2>1. ASSUME NEW i \in 0..n
        PROVE  f[i] = IF i = 0 THEN first ELSE next(f[i - 1], i)
    <3>1. i = 0 \/ i = 1 \/ i = 2
      <4>1. i \in 0..1 \/ i \in 0..2
        BY <1>3
      <4> QED
        BY <4>1
    <3>2. CASE i = 0
      BY <3>2
    <3>3. CASE i = 1
      <4>1. f[i] = p /\ f[0] = first /\ i - 1 = 0
        BY <3>3
      <4> HIDE DEF f
      <4> QED
        BY <1>2, <3>3, <4>1
    <3>4. CASE i = 2
      <4>1. f[i] = q /\ f[1] = p /\ i - 1 = 1
        BY <3>4
      <4> HIDE DEF f
      <4> QED
        BY <1>2, <3>4, <4>1
    <3> QED
      BY <3>1, <3>2, <3>3, <3>4
  <2>2. f = [i \in 0..n |-> f[i]]
    OBVIOUS
  <2> HIDE DEF f
  <2>3. IsLonger(f)
    BY <2>1, <2>2
  <2> QED
    BY <2>3
<1>5. IsLonger(longer)
  <2> HIDE DEF IsLonger
  <2> QED
    BY <1>4
<1> HIDE DEF longer
<1>6. \A i \in 0..n : longer[i] = IF i = 0 THEN first ELSE next(longer[i - 1], i)
  BY <1>5
<1> HIDE DEF IsLonger
<1>7. longer[0] = first
  BY <1>3, <1>6
<1>8. longer[1] = p
  <2>1. 1 \in 0..n /\ 1 # 0 /\ 1 - 1 = 0
    BY <1>3
  <2>2. longer[1] = next(longer[0], 1)
    BY <1>6, <2>1
  <2> QED
    BY <1>2, <1>7, <2>2
<1>9. n = 2 => longer[2] = q
  <2>1. n = 2 => 2 \in 0..n /\ 2 # 0 /\ 2 - 1 = 1
    OBVIOUS
  <2>2. n = 2 => longer[2] = next(longer[1], 2)
    BY <1>6, <2>1
  <2> QED
    BY <1>2, <1>8, <2>2
<1> QED
  BY <1>1, <1>3, <1>8, <1>9 DEF q

\* What AppendTo is given: expressions, and a list that is none of them.
MayAppend(m, H, args, list) ==
  /\ Len(args) \in 1..2 /\ DOMAIN args = 1..Len(args)
  /\ \A i \in 1..Len(args) : (args[i] = NULL \/ args[i] \in H) /\ Listed(m, "expr", args[i])
  /\ list = NULL \/ (list \in H /\ list \in Cells(m) /\ list \notin Range(args))

LEMMA AppendKeeps ==
  ASSUME NEW m, NEW H, Good(m, H), Room(m, 3 * Size(m) + 6), NEW args, NEW list, MayAppend(m, H, args, list),
         NEW longer, longer = Longer(m, list, args),
         NEW f, f = FreeAll(longer.mem, args)
  PROVE  Done(m, H, args, "cell", longer.val, f) /\ Appended(list, longer.val, H)
<1>1. /\ Len(args) \in 1..2 /\ DOMAIN args = 1..Len(args)
      /\ \A i \in 1..Len(args) : args[i] = NULL \/ args[i] \in H
      /\ \A i \in 1..Len(args) : Listed(m, "expr", args[i])
      /\ list = NULL \/ (list \in H /\ list \in Cells(m))
      /\ list = NULL \/ list \notin Range(args)
  BY DEF MayAppend
<1>2. Size(m) \in Nat /\ Room(m, Size(m) + 2)
  <2>1. Size(m) \in Nat
    BY SizeIs DEF Good, WellFormed
  <2>2. Size(m) + 2 \in Nat /\ 3 * Size(m) + 6 \in Nat /\ Size(m) + 2 <= 3 * Size(m) + 6
    BY <2>1
  <2> QED
    BY <2>1, <2>2, RoomFor
<1>3. PICK p : p = Link(m, "expr", list, args[1])
  OBVIOUS
<1>4. PICK q : q = Link(p.mem, "expr", p.val, args[2])
  OBVIOUS
<1>5. longer = IF Len(args) = 1 THEN p ELSE q
  BY <1>1, <1>3, <1>4, LongerIs
<1>6. /\ Good(p.mem, H \cup {p.val}) /\ SameKinds(m, p.mem)
      /\ p.val \in Blocks /\ p.val \in Cells(p.mem)
      /\ IF list = NULL THEN p.val \notin DOMAIN m.node ELSE p.val = list
      /\ Size(p.mem) <= 2 * Size(m) + 2
  <2>1. 1 \in 1..Len(args)
    BY <1>1
  <2>2. (args[1] = NULL \/ args[1] \in H) /\ Listed(m, "expr", args[1])
    BY <1>1, <2>1
  <2> QED
    <3>1. Good(p.mem, H \cup {p.val}) /\ OneLink(m, list, p)
      BY <1>1, <1>2, <1>3, <2>2, LinkKeeps
    <3> QED
      BY <3>1 DEF OneLink
<1>7. H \subseteq DOMAIN m.node /\ NULL \notin Blocks /\ H \subseteq Blocks
  BY SyntaxAssumption DEF Good, Owned, WellFormed
<1>8. Len(args) = 2 =>
        /\ Good(q.mem, (H \cup {p.val}) \cup {q.val}) /\ SameKinds(p.mem, q.mem)
        /\ q.val \in Cells(q.mem) /\ q.val = p.val
  <2>1. SUFFICES ASSUME Len(args) = 2
                 PROVE  /\ Good(q.mem, (H \cup {p.val}) \cup {q.val}) /\ SameKinds(p.mem, q.mem)
                        /\ q.val \in Cells(q.mem) /\ q.val = p.val
    OBVIOUS
  <2>2. 2 \in 1..Len(args)
    BY <2>1
  <2>3. args[2] = NULL \/ args[2] \in H
    BY <1>1, <2>2
  <2>4. Listed(p.mem, "expr", args[2])
    <3>1. Listed(m, "expr", args[2])
      BY <1>1, <2>2
    <3>2. args[2] # NULL => KindIn(p.mem, args[2]) = KindIn(m, args[2])
      BY <1>6, <1>7, <2>3 DEF KindIn, SameKinds
    <3> QED
      BY <3>1, <3>2 DEF Listed
  <2>5. Room(p.mem, Size(p.mem) + 2)
    <3>1. WellFormed(m) /\ WellFormed(p.mem) /\ DOMAIN m.node \subseteq DOMAIN p.mem.node
      BY <1>6 DEF Good, SameKinds
    <3>2. Size(m) <= Size(p.mem) /\ Size(p.mem) \in Nat
      BY <3>1, SizeGrows
    <3>3. Size(p.mem) + (Size(p.mem) + 2) <= Size(m) + (3 * Size(m) + 6)
      BY <1>2, <1>6, <3>2
    <3>4. 3 * Size(m) + 6 \in Nat /\ Size(p.mem) + 2 \in Nat
      BY <1>2, <3>2
    <3> QED
      BY <3>1, <3>2, <3>3, <3>4, StillRoom
  <2> DEFINE G == H \cup {p.val}
  <2>6. Good(p.mem, G) /\ p.val \in G /\ (args[2] = NULL \/ args[2] \in G) /\ p.val # NULL
    BY <1>6, <1>7, <2>3
  <2> HIDE DEF G
  <2>7. Good(q.mem, G \cup {q.val}) /\ OneLink(p.mem, p.val, q)
    BY <1>4, <1>6, <2>4, <2>5, <2>6, LinkKeeps
  <2> QED
    BY <2>6, <2>7 DEF G, OneLink
<1>9. /\ Good(longer.mem, H \cup {longer.val}) /\ SameKinds(m, longer.mem)
      /\ longer.val \in Cells(longer.mem) /\ longer.val = p.val
  <2>1. CASE Len(args) = 1
    BY <1>5, <1>6, <2>1
  <2>2. CASE Len(args) = 2
    <3>1. longer = q /\ (H \cup {p.val}) \cup {q.val} = H \cup {q.val}
      BY <1>5, <1>8, <2>2
    <3>2. SameKinds(m, q.mem)
      BY <1>6, <1>8, <2>2 DEF SameKinds
    <3> QED
      BY <1>8, <2>2, <3>1, <3>2
  <2>3. Len(args) = 1 \/ Len(args) = 2
    BY <1>1
  <2> QED
    BY <2>1, <2>2, <2>3
<1>10. Range(args) \subseteq H \cup {NULL} /\ longer.val \notin Range(args)
  <2>1. \A x \in Range(args) : x = NULL \/ x \in H
    BY <1>1 DEF Range
  <2> QED
    BY <1>1, <1>6, <1>7, <1>9, <2>1
<1>11. Done(m, H, args, KindIn(longer.mem, longer.val), longer.val, f)
  BY <1>6, <1>9, <1>10, FreeArgs
<1>12. KindIn(longer.mem, longer.val) = "cell"
  BY <1>6, <1>7, <1>9 DEF KindIn, Cells
<1> QED
  BY <1>6, <1>7, <1>9, <1>11, <1>12 DEF Appended

-----------------------------------------------------------------------------
(* The parser's stack *)

SymbolNames ==
  Tokens \cup {EndOfFile, "input", "stmt", "expr", "exprlist", "opt_exprlist", "dictlist",
               "opt_dictlist"}

\* What the stack st and the program p point to.
HeldBy(st, p) == ({st[i].val : i \in DOMAIN st} \cup {p}) \ {NULL}

Popped(st, k) == {st[i].val : i \in (Len(st) - k + 1)..Len(st)}

\* The inductive invariant: m is in good order, held by the stack and the
\* program, which share nothing, and all point to what they should.
InOrder(m, st, p) ==
  /\ st \in Seq([sym : SymbolNames, val : Nat]) /\ p \in Nat
  /\ Good(m, HeldBy(st, p))
  /\ \A i, j \in DOMAIN st : st[i].val = st[j].val /\ st[i].val # NULL => i = j
  /\ \A i \in DOMAIN st : st[i].val # NULL => st[i].val # p
  /\ \A i \in DOMAIN st : KindIn(m, st[i].val) \in Holds(st[i].sym)
  /\ KindIn(m, p) \in {"cell", "NULL"}

SyntaxInv == InOrder(Memory, stack, program)

\* The heap has room for the step that takes most, which is to add two copies
\* to a list: the program goes on as if no malloc ever failed, and so does the
\* specification, which says nothing of a heap that ran out.
Roomy == Room(Memory, 3 * Size(Memory) + 6)

LEMMA RoomIs ==
  ASSUME SyntaxInv, Roomy
  PROVE  /\ Room(Memory, 1) /\ Room(Memory, 2) /\ Size(Memory) \in Nat
         /\ Room(Memory, Size(Memory) + 2) /\ Room(Memory, 3 * Size(Memory) + 4)
<1>1. Size(Memory) \in Nat
  BY SizeIs DEF SyntaxInv, InOrder, Good, WellFormed
<1>2. PICK n \in Nat : n = Size(Memory)
  BY <1>1
<1>3. Room(Memory, 3 * n + 6)
  BY <1>2 DEF Roomy
<1>4. \A k \in Nat : k <= 3 * n + 6 => Room(Memory, k)
  <2>1. 3 * n + 6 \in Nat
    OBVIOUS
  <2> QED
    BY <1>3, <2>1, RoomFor
<1>5. n + 2 <= 3 * n + 6 /\ 3 * n + 4 <= 3 * n + 6 /\ 1 <= 3 * n + 6 /\ 2 <= 3 * n + 6
      /\ n + 2 \in Nat /\ 3 * n + 4 \in Nat
  OBVIOUS
<1> QED
  BY <1>2, <1>4, <1>5

LEMMA OrderIs ==
  ASSUME NEW m, NEW st, NEW p, InOrder(m, st, p)
  PROVE  /\ st \in Seq([sym : SymbolNames, val : Nat]) /\ Len(st) \in Nat /\ DOMAIN st = 1..Len(st)
         /\ HeldBy(st, p) \subseteq DOMAIN m.node /\ NULL \notin HeldBy(st, p)
         /\ \A i \in DOMAIN st :
              /\ st[i].val \in Nat /\ st[i].sym \in SymbolNames
              /\ st[i].val = NULL \/ st[i].val \in HeldBy(st, p)
         /\ p = NULL \/ p \in HeldBy(st, p)
         /\ \A x : KindIn(m, x) = "NULL" => x = NULL
         /\ \A h \in HeldBy(st, p) : KindIn(m, h) # "NULL"
         /\ NULL \notin DOMAIN m.node
<1>1. st \in Seq([sym : SymbolNames, val : Nat]) /\ Good(m, HeldBy(st, p))
  BY DEF InOrder
<1>2. \A i \in DOMAIN st : st[i] \in [sym : SymbolNames, val : Nat]
  <2> DEFINE R == [sym : SymbolNames, val : Nat]
  <2>1. st \in Seq(R)
    BY <1>1
  <2> HIDE DEF R
  <2>2. \A i \in DOMAIN st : st[i] \in R
    BY <2>1
  <2> QED
    BY <2>2 DEF R
<1>3. \A i \in DOMAIN st : st[i].val \in Nat /\ st[i].sym \in SymbolNames
                           /\ (st[i].val = NULL \/ st[i].val \in HeldBy(st, p))
  <2>1. \A i \in DOMAIN st : st[i].val \in Nat /\ st[i].sym \in SymbolNames
    BY <1>2
  <2>2. \A i \in DOMAIN st : st[i].val = NULL \/ st[i].val \in HeldBy(st, p)
    BY DEF HeldBy
  <2> QED
    BY <2>1, <2>2
<1>4. \A x : KindIn(m, x) = "NULL" => x = NULL
  BY <1>1, KindNames DEF KindIn, Good, WellFormed
<1>5. HeldBy(st, p) \subseteq DOMAIN m.node /\ NULL \notin HeldBy(st, p)
      /\ (p = NULL \/ p \in HeldBy(st, p)) /\ NULL \notin DOMAIN m.node
  <2>1. NULL \notin Blocks
    BY SyntaxAssumption
  <2> QED
    BY <1>1, <2>1 DEF Good, Owned, WellFormed, HeldBy
<1> QED
  BY <1>1, <1>3, <1>4, <1>5

\* What is left when k symbols are popped.
IsBelow(st, p, k, below) ==
  /\ below \in Seq([sym : SymbolNames, val : Nat])
  /\ DOMAIN below = 1..(Len(st) - k) /\ Len(below) = Len(st) - k /\ Len(below) \in Nat
  /\ \A i \in 1..(Len(st) - k) : i \in DOMAIN st /\ below[i] = st[i]
  /\ HeldBy(below, p) = HeldBy(st, p) \ Popped(st, k)

\* Symbols are popped.
LEMMA PopIs ==
  ASSUME NEW m, NEW st, NEW p, InOrder(m, st, p), NEW k \in 0..Len(st)
  PROVE  IsBelow(st, p, k, SubSeq(st, 1, Len(st) - k))
<1> DEFINE below == SubSeq(st, 1, Len(st) - k)
<1>1. /\ st \in Seq([sym : SymbolNames, val : Nat]) /\ Len(st) \in Nat /\ DOMAIN st = 1..Len(st)
  BY OrderIs
<1> DEFINE n == Len(st) - k
<1>2. n \in 0..Len(st) /\ n + k = Len(st) /\ n \in Nat /\ k \in Nat
  BY <1>1
<1> HIDE DEF n
<1>3. /\ below \in Seq([sym : SymbolNames, val : Nat]) /\ Len(below) = n /\ DOMAIN below = 1..n
      /\ \A i \in 1..n : below[i] = st[i]
  <2> DEFINE R == [sym : SymbolNames, val : Nat]
  <2>1. st \in Seq(R)
    BY <1>1
  <2> HIDE DEF R
  <2>2. SubSeq(st, 1, n) \in Seq(R) /\ Len(SubSeq(st, 1, n)) = n
        /\ \A i \in 1..n : SubSeq(st, 1, n)[i] = st[i]
    BY <1>1, <1>2, <2>1
  <2>3. below = SubSeq(st, 1, n)
    BY DEF n
  <2> QED
    BY <2>2, <2>3 DEF R
<1>4. \A i \in 1..Len(st) : i \in 1..n \/ i \in (n + 1)..Len(st)
  BY <1>1, <1>2
<1>5. \A i \in 1..n : i \in 1..Len(st) /\ i \notin (n + 1)..Len(st)
  BY <1>1, <1>2
<1>6. \A i \in (n + 1)..Len(st) : i \in 1..Len(st)
  BY <1>1, <1>2
<1>7. Popped(st, k) = {st[i].val : i \in (n + 1)..Len(st)}
  BY DEF Popped, n
<1>8. ASSUME NEW x PROVE x \in HeldBy(below, p) <=> x \in HeldBy(st, p) /\ x \notin Popped(st, k)
  <2>1. x \in HeldBy(below, p) <=> x # NULL /\ (x = p \/ \E i \in 1..n : st[i].val = x)
    BY <1>3 DEF HeldBy
  <2>2. x \in HeldBy(st, p) <=> x # NULL /\ (x = p \/ \E i \in 1..Len(st) : st[i].val = x)
    BY <1>1 DEF HeldBy
  <2>3. x \in Popped(st, k) <=> \E i \in (n + 1)..Len(st) : st[i].val = x
    BY <1>7
  <2>4. /\ \A i, j \in 1..Len(st) : st[i].val = st[j].val /\ st[i].val # NULL => i = j
        /\ \A i \in 1..Len(st) : st[i].val # NULL => st[i].val # p
    BY <1>1 DEF InOrder
  <2> QED
    BY <1>4, <1>5, <1>6, <2>1, <2>2, <2>3, <2>4
<1>9. HeldBy(below, p) = HeldBy(st, p) \ Popped(st, k)
  BY <1>8
<1> QED
  BY <1>1, <1>2, <1>3, <1>5, <1>9 DEF n, IsBelow

\* They leave, and the program may be another.
LEMMA PopKeeps ==
  ASSUME NEW m, NEW st, NEW p, InOrder(m, st, p), NEW k \in 0..Len(st),
         NEW below, IsBelow(st, p, k, below), NEW f, NEW q \in Nat,
         Good(f, HeldBy(below, q)), q = p \/ q \notin HeldBy(st, p),
         \A h \in HeldBy(st, p) \ Popped(st, k) : KindIn(f, h) = KindIn(m, h),
         KindIn(f, q) \in {"cell", "NULL"}
  PROVE  InOrder(f, below, q)
<1> DEFINE n == Len(st) - k
<1>1. /\ below \in Seq([sym : SymbolNames, val : Nat]) /\ DOMAIN below = 1..n
      /\ \A i \in 1..n : i \in DOMAIN st /\ below[i] = st[i]
      /\ HeldBy(below, p) = HeldBy(st, p) \ Popped(st, k)
  BY DEF IsBelow
<1> HIDE DEF n
<1>2. /\ \A i, j \in DOMAIN st : st[i].val = st[j].val /\ st[i].val # NULL => i = j
      /\ \A i \in DOMAIN st : st[i].val # NULL => st[i].val # p
      /\ \A i \in DOMAIN st : KindIn(m, st[i].val) \in Holds(st[i].sym)
  BY DEF InOrder
<1>3. /\ \A i, j \in DOMAIN below : below[i].val = below[j].val /\ below[i].val # NULL => i = j
      /\ \A i \in DOMAIN below : below[i].val # NULL => below[i].val # p
  BY <1>1, <1>2
<1>4. ASSUME NEW i \in DOMAIN below PROVE KindIn(f, below[i].val) \in Holds(below[i].sym)
  <2>1. KindIn(m, below[i].val) \in Holds(below[i].sym)
    BY <1>1, <1>2, <1>4
  <2>2. below[i].val # NULL => below[i].val \in HeldBy(below, p)
    BY <1>4 DEF HeldBy
  <2>3. KindIn(f, below[i].val) = KindIn(m, below[i].val)
    <3>1. KindIn(f, NULL) = KindIn(m, NULL)
      BY DEF KindIn
    <3> QED
      BY <1>1, <2>2, <3>1
  <2> QED
    BY <2>1, <2>3
<1>5. ASSUME NEW i \in DOMAIN below, below[i].val # NULL PROVE below[i].val # q
  <2>1. below[i].val \in HeldBy(st, p)
    BY <1>1, <1>5, OrderIs
  <2> QED
    BY <1>3, <1>5, <2>1
<1> QED
  BY <1>1, <1>3, <1>4, <1>5 DEF InOrder

\* A symbol with its value takes their place.
LEMMA PushKeeps ==
  ASSUME NEW m, NEW st, NEW p, InOrder(m, st, p), NEW k \in 0..Len(st),
         NEW f, NEW v \in Nat, NEW H, H = HeldBy(st, p) \ Popped(st, k),
         Good(f, H \cup ({v} \ {NULL})), v \notin H,
         \A h \in H : KindIn(f, h) = KindIn(m, h),
         NEW sym \in SymbolNames, KindIn(f, v) \in Holds(sym)
  PROVE  InOrder(f, Append(SubSeq(st, 1, Len(st) - k), [sym |-> sym, val |-> v]), p)
<1> DEFINE n == Len(st) - k
           below == SubSeq(st, 1, n)
           top == [sym |-> sym, val |-> v]
           new == Append(below, top)
<1>0. IsBelow(st, p, k, below)
  BY PopIs
<1>1. /\ below \in Seq([sym : SymbolNames, val : Nat]) /\ DOMAIN below = 1..n /\ Len(below) = n
      /\ \A i \in 1..n : i \in DOMAIN st /\ below[i] = st[i]
      /\ HeldBy(below, p) = H /\ n \in Nat
  BY <1>0 DEF IsBelow
<1> HIDE DEF n, below
<1>2. /\ new \in Seq([sym : SymbolNames, val : Nat]) /\ Len(new) = n + 1 /\ DOMAIN new = 1..(n + 1)
      /\ \A i \in 1..n : new[i] = below[i] /\ new[n + 1] = top
  <2> DEFINE R == [sym : SymbolNames, val : Nat]
  <2>1. below \in Seq(R) /\ top \in R
    BY <1>1
  <2> HIDE DEF R, top
  <2>2. new \in Seq(R) /\ Len(new) = n + 1 /\ DOMAIN new = 1..(n + 1)
        /\ \A i \in 1..n : new[i] = below[i] /\ new[n + 1] = top
    BY <1>1, <2>1
  <2> QED
    BY <2>2 DEF R
<1>3. new[n + 1] = top
  <2> HIDE DEF top
  <2>1. Append(below, top)[Len(below) + 1] = top
    BY <1>1
  <2> QED
    BY <1>1, <2>1
<1>4. top.val = v /\ top.sym = sym
  OBVIOUS
<1> HIDE DEF new, top
<1>5. \A i \in DOMAIN new : i \in 1..n \/ i = n + 1
  BY <1>1, <1>2
<1>6. /\ \A i, j \in 1..n : below[i].val = below[j].val /\ below[i].val # NULL => i = j
      /\ \A i \in 1..n : below[i].val # NULL => below[i].val # p
      /\ \A i \in 1..n : below[i].val # NULL => below[i].val \in H
      /\ \A i \in 1..n : KindIn(m, below[i].val) \in Holds(below[i].sym)
      /\ p = NULL \/ p \in H
      /\ p \in Nat /\ KindIn(m, p) \in {"cell", "NULL"}
  <2>1. /\ \A i, j \in DOMAIN st : st[i].val = st[j].val /\ st[i].val # NULL => i = j
        /\ \A i \in DOMAIN st : st[i].val # NULL => st[i].val # p
        /\ \A i \in DOMAIN st : KindIn(m, st[i].val) \in Holds(st[i].sym)
        /\ p \in Nat /\ KindIn(m, p) \in {"cell", "NULL"}
    BY DEF InOrder
  <2>2. \A i \in 1..n : below[i].val # NULL => below[i].val \in HeldBy(below, p)
    BY <1>1 DEF HeldBy
  <2>3. p = NULL \/ p \in HeldBy(below, p)
    BY DEF HeldBy
  <2> QED
    BY <1>1, <2>1, <2>2, <2>3
<1>7. ASSUME NEW i \in DOMAIN new, NEW j \in DOMAIN new,
             new[i].val = new[j].val, new[i].val # NULL
      PROVE  i = j
  BY <1>2, <1>3, <1>4, <1>5, <1>6, <1>7
<1>8. ASSUME NEW i \in DOMAIN new, new[i].val # NULL PROVE new[i].val # p
  BY <1>2, <1>3, <1>4, <1>5, <1>6, <1>8
<1>9. KindIn(f, NULL) = KindIn(m, NULL)
  BY DEF KindIn
<1>10. ASSUME NEW i \in DOMAIN new PROVE KindIn(f, new[i].val) \in Holds(new[i].sym)
  <2>1. CASE i = n + 1
    BY <1>3, <1>4, <2>1
  <2>2. CASE i \in 1..n
    <3>1. new[i] = below[i]
      BY <1>2, <2>2
    <3>2. KindIn(f, below[i].val) = KindIn(m, below[i].val)
      BY <1>6, <1>9, <2>2
    <3> QED
      BY <1>6, <2>2, <3>1, <3>2
  <2> QED
    BY <1>5, <1>10, <2>1, <2>2
<1>11. KindIn(f, p) \in {"cell", "NULL"}
  BY <1>6, <1>9
<1>12. HeldBy(new, p) = H \cup ({v} \ {NULL})
  <2>1. ASSUME NEW x PROVE x \in HeldBy(new, p) <=> x \in HeldBy(below, p) \/ (x = v /\ x # NULL)
    <3>1. x \in HeldBy(new, p) <=> x # NULL /\ (x = p \/ \E i \in DOMAIN new : new[i].val = x)
      BY DEF HeldBy
    <3>2. x \in HeldBy(below, p) <=> x # NULL /\ (x = p \/ \E i \in 1..n : below[i].val = x)
      BY <1>1 DEF HeldBy
    <3>3. n + 1 \in DOMAIN new /\ \A i \in 1..n : i \in DOMAIN new
      BY <1>1, <1>2
    <3>4. (\E i \in DOMAIN new : new[i].val = x) <=> (x = v \/ \E i \in 1..n : below[i].val = x)
      BY <1>2, <1>3, <1>4, <1>5, <3>3
    <3> QED
      BY <3>1, <3>2, <3>4
  <2> QED
    BY <1>1, <2>1
<1>13. InOrder(f, new, p)
  BY <1>2, <1>6, <1>7, <1>8, <1>10, <1>11, <1>12 DEF InOrder
<1> QED
  BY <1>13 DEF new, top, below, n

-----------------------------------------------------------------------------
(* The rules *)

\* The symbols rhs end the stack st.
Ends(st, rhs) ==
  /\ Len(rhs) \in 0..Len(st)
  /\ \A i \in 1..Len(rhs) :
       Len(st) - Len(rhs) + i \in DOMAIN st /\ st[Len(st) - Len(rhs) + i].sym = rhs[i]

LEMMA EndsIs ==
  ASSUME NEW m, NEW st, NEW p, InOrder(m, st, p), NEW rhs, Len(rhs) \in Nat,
         EndsWith([i \in DOMAIN st |-> st[i].sym], rhs)
  PROVE  Ends(st, rhs)
<1> DEFINE syms == [i \in DOMAIN st |-> st[i].sym]
<1>1. Len(st) \in Nat /\ DOMAIN st = 1..Len(st) /\ \A i \in DOMAIN st : st[i].sym \in SymbolNames
  BY OrderIs
<1>2. syms \in Seq(SymbolNames) /\ Len(syms) = Len(st) /\ \A i \in 1..Len(st) : syms[i] = st[i].sym
  BY <1>1
<1> HIDE DEF syms
<1>3. PICK b : b = Len(syms) - Len(rhs)
  OBVIOUS
<1>4. b \in Nat /\ SubSeq(syms, b + 1, Len(syms)) = rhs
  <2>1. EndsWith(syms, rhs)
    BY DEF syms
  <2>2. b \in Int /\ b >= 0 /\ SubSeq(syms, b + 1, Len(syms)) = rhs
    BY <1>1, <1>2, <1>3, <2>1 DEF EndsWith
  <2> QED
    BY <2>2
<1>5. ASSUME NEW i \in 1..Len(rhs) PROVE b + i \in 1..Len(st) /\ rhs[i] = syms[b + i]
  <2>1. b + i \in 1..Len(st) /\ i \in 1..(Len(syms) - b) /\ i + (b + 1) - 1 = b + i
        /\ Len(syms) - (b + 1) + 1 = Len(syms) - b
    BY <1>1, <1>2, <1>3, <1>4
  <2>2. b + 1 \in Int /\ Len(syms) \in Int /\ i \in 1..(Len(syms) - (b + 1) + 1)
    BY <1>2, <1>4, <2>1
  <2>3. SubSeq(syms, b + 1, Len(syms))[i] = syms[i + (b + 1) - 1]
    BY <1>2, <2>2
  <2> QED
    BY <1>4, <2>1, <2>3
<1>6. Len(rhs) \in 0..Len(st)
  BY <1>1, <1>2, <1>3, <1>4
<1>7. \A i \in 1..Len(rhs) : b + i \in DOMAIN st /\ st[b + i].sym = rhs[i]
  BY <1>1, <1>2, <1>5
<1> QED
  BY <1>2, <1>3, <1>6, <1>7 DEF Ends

\* A reduced rule leaves a symbol below.
LEMMA ReduceIs ==
  ASSUME NEW m, NEW st, NEW p, InOrder(m, st, p), NEW r, Len(r.rhs) \in Nat,
         MayReduce([i \in DOMAIN st |-> st[i].sym], r)
  PROVE  Ends(st, r.rhs)
BY EndsIs DEF MayReduce

LEMMA HoldsAre ==
  /\ \A t \in SymbolNames \ {"ident", "string", "expr", "stmt", "exprlist", "dictlist",
                             "opt_exprlist", "opt_dictlist"} : Holds(t) = {"NULL"}
  /\ Holds("ident") = {"text"} /\ Holds("string") = {"text"}
  /\ Holds("expr") = Expressions \cup {"NULL"} /\ Holds("stmt") = Statements
  /\ Holds("exprlist") = {"cell"} /\ Holds("dictlist") = {"cell"}
  /\ Holds("opt_exprlist") = {"cell", "NULL"} /\ Holds("opt_dictlist") = {"cell", "NULL"}
BY DEF Holds

LEMMA TokensHold ==
  /\ \A t \in SymbolNames : t \in Tokens \cup {EndOfFile, "input"} /\ t \notin {"ident", "string"}
                               => Holds(t) = {"NULL"}
  /\ Tokens \cup {EndOfFile, "input", "stmt", "expr", "exprlist", "opt_exprlist", "dictlist",
                  "opt_dictlist"} \subseteq SymbolNames
<1>1. ASSUME NEW t \in Tokens
      PROVE  t \notin {"expr", "stmt", "exprlist", "dictlist", "opt_exprlist", "opt_dictlist"}
  BY GrammarAssumption DEF Tokens, Starts, Operators
<1> QED
  BY <1>1, HoldsAre DEF SymbolNames, EndOfFile

\* What the copy of a value of a symbol is.
CopyHolds(sym) == IF sym = "expr" THEN Expressions ELSE Holds(sym)

LEMMA CopyIs ==
  ASSUME NEW m, NEW st, NEW p, InOrder(m, st, p), NEW i \in DOMAIN st
  PROVE  CopyKind(m, st[i].sym, st[i].val) \in CopyHolds(st[i].sym)
<1>1. KindIn(m, st[i].val) \in Holds(st[i].sym)
  BY DEF InOrder
<1>2. CASE st[i].val # NULL
  <2>1. KindIn(m, st[i].val) # "NULL"
    BY <1>2, OrderIs
  <2> QED
    BY <1>1, <1>2, <2>1, HoldsAre DEF CopyKind, CopyHolds
<1>3. CASE st[i].val = NULL
  <2>1. KindIn(m, st[i].val) = "NULL"
    BY <1>3 DEF KindIn
  <2> QED
    BY <1>1, <1>3, <2>1 DEF CopyKind, CopyHolds, Expressions
<1> QED
  BY <1>2, <1>3

LEMMA FieldsAre ==
  /\ \A n \in Literals : Fields(n) = <<>>
  /\ \A op \in Operators : Fields(op) = <<Expressions, Expressions>>
  /\ Fields("item") = <<Expressions, Expressions>>
  /\ Fields("ident") = <<{"text"}>> /\ Fields("string") = <<{"text"}>>
  /\ Fields("neg") = <<Expressions>> /\ Fields("print") = <<Expressions>>
  /\ Fields("list") = <<{"cell", "NULL"}>> /\ Fields("dict") = <<{"cell", "NULL"}>>
  /\ Fields("attr") = <<Expressions, {"text"}>>
  /\ Fields("assign") = <<{"text"}, Expressions>>
<1>1. \A n \in Literals :
        n \notin Operators \cup {"ident", "string", "buffer", "neg", "print", "item", "attr",
                                 "assign", "list", "dict", "cell"}
  BY GrammarAssumption
<1>2. \A op \in Operators :
        op \notin {"ident", "string", "buffer", "neg", "print", "attr", "assign", "list", "dict", "cell"}
  BY DEF Operators
<1>3. \A n \in Literals : Fields(n) = <<>>
  BY <1>1 DEF Fields
<1>4. ASSUME NEW op \in Operators PROVE Fields(op) = <<Expressions, Expressions>>
  <2>1. op \in Operators \cup {"item"} /\ op \notin {"ident", "string", "buffer"}
        /\ op \notin {"neg", "print"} /\ op # "attr" /\ op # "assign" /\ op \notin {"list", "dict"}
        /\ op # "cell"
    BY <1>2
  <2> QED
    BY <2>1 DEF Fields
<1>5. \A k \in {"ident", "string", "neg", "print", "item", "attr", "assign", "list", "dict"} :
        k \notin Operators
  BY DEF Operators
<1> QED
  BY <1>3, <1>4, <1>5 DEF Fields

\* A rule that makes a structure makes one of its left side's, whose fields
\* are for copies of its arguments; its other symbols have no value.
MakeFits(r) ==
  /\ r.lhs \in SymbolNames /\ r.kind \in Kinds \cap Holds(r.lhs)
  /\ Len(r.rhs) \in Nat
  /\ Len(r.args) = Len(Fields(r.kind)) /\ DOMAIN r.args = 1..Len(r.args)
  /\ \A i \in 1..Len(r.args) :
       r.args[i] \in 1..Len(r.rhs) /\ CopyHolds(r.rhs[r.args[i]]) \subseteq Fields(r.kind)[i]
  /\ \A j \in 1..Len(r.rhs) :
       (\A i \in 1..Len(r.args) : r.args[i] # j) => Holds(r.rhs[j]) = {"NULL"}

LEMMA MakesFit ==
  ASSUME NEW kind, NEW lhs, NEW under, NEW rhs, NEW args,
         lhs \in SymbolNames, kind \in Kinds \cap Holds(lhs), Len(rhs) \in Nat,
         Len(args) = Len(Fields(kind)), DOMAIN args = 1..Len(args),
         \A i \in 1..Len(args) :
           args[i] \in 1..Len(rhs) /\ CopyHolds(rhs[args[i]]) \subseteq Fields(kind)[i],
         \A j \in 1..Len(rhs) : (\A i \in 1..Len(args) : args[i] # j) => Holds(rhs[j]) = {"NULL"}
  PROVE  MakeFits(Makes(kind, lhs, under, rhs, args))
BY DEF MakeFits, Makes

LEMMA MakeRulesFit ==
  ASSUME NEW r \in MakeRules
  PROVE  MakeFits(r)
<1>1. /\ \A k \in Literals \cup Operators \cup
                  {"ident", "string", "item", "neg", "list", "dict", "attr"} :
           k \in Kinds \cap Holds("expr")
      /\ {"assign", "print"} \subseteq Kinds \cap Holds("stmt")
      /\ {"expr", "stmt"} \subseteq SymbolNames
  BY HoldsAre DEF Kinds, Expressions, Statements, SymbolNames
<1>2. /\ \A t \in Literals \cup Operators \cup {"item", "]", "neg", "[", "{", "}", ".", "="} :
           Holds(t) = {"NULL"}
      /\ CopyHolds("expr") = Expressions
      /\ CopyHolds("ident") = {"text"} /\ CopyHolds("string") = {"text"}
      /\ CopyHolds("opt_exprlist") = {"cell", "NULL"}
      /\ CopyHolds("opt_dictlist") = {"cell", "NULL"}
  <2>1. \A t \in Literals \cup Operators \cup {"item", "]", "neg", "[", "{", "}", ".", "="} :
          t \in Tokens /\ t \notin {"ident", "string"}
    BY GrammarAssumption DEF Tokens, Starts, Operators
  <2> QED
    BY <2>1, HoldsAre, TokensHold DEF CopyHolds
<1>3. ASSUME NEW n \in Literals PROVE MakeFits(Makes(n, "expr", Opens, <<n>>, <<>>))
  <2> DEFINE rhs == <<n>>
             args == <<>>
  <2>1. Len(rhs) = 1 /\ rhs[1] = n /\ Len(args) = 0 /\ DOMAIN args = 1..0
    OBVIOUS
  <2>2. n \in Kinds \cap Holds("expr") /\ Len(args) = Len(Fields(n)) /\ Holds(n) = {"NULL"}
    BY <1>1, <1>2, FieldsAre
  <2> HIDE DEF rhs, args
  <2> QED
    BY <1>1, <2>1, <2>2, MakesFit DEF rhs, args
<1>4. ASSUME NEW k, NEW lhs \in {"expr", "stmt"}, NEW under,
             NEW a, NEW F,
             k \in Kinds \cap Holds(lhs), Fields(k) = <<F>>,
             CopyHolds(a) \subseteq F
      PROVE  MakeFits(Makes(k, lhs, under, <<a>>, <<1>>))
  <2> DEFINE rhs == <<a>>
             args == <<1>>
             fields == <<F>>
  <2>1. /\ Len(rhs) = 1 /\ rhs[1] = a
        /\ Len(args) = 1 /\ DOMAIN args = 1..1 /\ args[1] = 1
        /\ Len(fields) = 1 /\ fields[1] = F
    OBVIOUS
  <2> HIDE DEF rhs, args
  <2>2. Fields(k) = fields
    BY <1>4
  <2> HIDE DEF fields
  <2>3. /\ \A i \in 1..Len(args) :
             args[i] \in 1..Len(rhs) /\ CopyHolds(rhs[args[i]]) \subseteq Fields(k)[i]
        /\ \A j \in 1..Len(rhs) :
             (\A i \in 1..Len(args) : args[i] # j) => Holds(rhs[j]) = {"NULL"}
    BY <1>4, <2>1, <2>2
  <2>4. Len(args) = Len(Fields(k)) /\ Len(rhs) \in Nat /\ DOMAIN args = 1..Len(args)
        /\ lhs \in SymbolNames /\ k \in Kinds \cap Holds(lhs)
    BY <1>1, <1>4, <2>1, <2>2
  <2>5. MakeFits(Makes(k, lhs, under, rhs, args))
    BY <2>3, <2>4, MakesFit
  <2> QED
    BY <2>5 DEF rhs, args
<1>5. ASSUME NEW k, NEW lhs \in {"expr", "stmt"}, NEW under,
             NEW o, NEW a, NEW F,
             k \in Kinds \cap Holds(lhs), Fields(k) = <<F>>,
             CopyHolds(a) \subseteq F,
             Holds(o) = {"NULL"}
      PROVE  MakeFits(Makes(k, lhs, under, <<o, a>>, <<2>>))
  <2> DEFINE rhs == <<o, a>>
             args == <<2>>
             fields == <<F>>
  <2>1. /\ Len(rhs) = 2 /\ rhs[1] = o /\ rhs[2] = a
        /\ Len(args) = 1 /\ DOMAIN args = 1..1 /\ args[1] = 2
        /\ Len(fields) = 1 /\ fields[1] = F
    OBVIOUS
  <2> HIDE DEF rhs, args
  <2>2. Fields(k) = fields
    BY <1>5
  <2> HIDE DEF fields
  <2>3. /\ \A i \in 1..Len(args) :
             args[i] \in 1..Len(rhs) /\ CopyHolds(rhs[args[i]]) \subseteq Fields(k)[i]
        /\ \A j \in 1..Len(rhs) :
             (\A i \in 1..Len(args) : args[i] # j) => Holds(rhs[j]) = {"NULL"}
    BY <1>5, <2>1, <2>2
  <2>4. Len(args) = Len(Fields(k)) /\ Len(rhs) \in Nat /\ DOMAIN args = 1..Len(args)
        /\ lhs \in SymbolNames /\ k \in Kinds \cap Holds(lhs)
    BY <1>1, <1>5, <2>1, <2>2
  <2>5. MakeFits(Makes(k, lhs, under, rhs, args))
    BY <2>3, <2>4, MakesFit
  <2> QED
    BY <2>5 DEF rhs, args
<1>6. ASSUME NEW k, NEW lhs \in {"expr", "stmt"}, NEW under,
             NEW o, NEW a, NEW c, NEW F,
             k \in Kinds \cap Holds(lhs), Fields(k) = <<F>>,
             CopyHolds(a) \subseteq F,
             Holds(o) = {"NULL"},
             Holds(c) = {"NULL"}
      PROVE  MakeFits(Makes(k, lhs, under, <<o, a, c>>, <<2>>))
  <2> DEFINE rhs == <<o, a, c>>
             args == <<2>>
             fields == <<F>>
  <2>1. /\ Len(rhs) = 3 /\ rhs[1] = o /\ rhs[2] = a /\ rhs[3] = c
        /\ Len(args) = 1 /\ DOMAIN args = 1..1 /\ args[1] = 2
        /\ Len(fields) = 1 /\ fields[1] = F
    OBVIOUS
  <2> HIDE DEF rhs, args
  <2>2. Fields(k) = fields
    BY <1>6
  <2> HIDE DEF fields
  <2>3. /\ \A i \in 1..Len(args) :
             args[i] \in 1..Len(rhs) /\ CopyHolds(rhs[args[i]]) \subseteq Fields(k)[i]
        /\ \A j \in 1..Len(rhs) :
             (\A i \in 1..Len(args) : args[i] # j) => Holds(rhs[j]) = {"NULL"}
    BY <1>6, <2>1, <2>2
  <2>4. Len(args) = Len(Fields(k)) /\ Len(rhs) \in Nat /\ DOMAIN args = 1..Len(args)
        /\ lhs \in SymbolNames /\ k \in Kinds \cap Holds(lhs)
    BY <1>1, <1>6, <2>1, <2>2
  <2>5. MakeFits(Makes(k, lhs, under, rhs, args))
    BY <2>3, <2>4, MakesFit
  <2> QED
    BY <2>5 DEF rhs, args
<1>7. ASSUME NEW k, NEW lhs \in {"expr", "stmt"}, NEW under,
             NEW a, NEW o, NEW b, NEW F, NEW G,
             k \in Kinds \cap Holds(lhs), Fields(k) = <<F, G>>,
             CopyHolds(a) \subseteq F, CopyHolds(b) \subseteq G,
             Holds(o) = {"NULL"}
      PROVE  MakeFits(Makes(k, lhs, under, <<a, o, b>>, <<1, 3>>))
  <2> DEFINE rhs == <<a, o, b>>
             args == <<1, 3>>
             fields == <<F, G>>
  <2>1. /\ Len(rhs) = 3 /\ rhs[1] = a /\ rhs[2] = o /\ rhs[3] = b
        /\ Len(args) = 2 /\ DOMAIN args = 1..2 /\ args[1] = 1 /\ args[2] = 3
        /\ Len(fields) = 2 /\ fields[1] = F /\ fields[2] = G
    OBVIOUS
  <2> HIDE DEF rhs, args
  <2>2. Fields(k) = fields
    BY <1>7
  <2> HIDE DEF fields
  <2>3. /\ \A i \in 1..Len(args) :
             args[i] \in 1..Len(rhs) /\ CopyHolds(rhs[args[i]]) \subseteq Fields(k)[i]
        /\ \A j \in 1..Len(rhs) :
             (\A i \in 1..Len(args) : args[i] # j) => Holds(rhs[j]) = {"NULL"}
    BY <1>7, <2>1, <2>2
  <2>4. Len(args) = Len(Fields(k)) /\ Len(rhs) \in Nat /\ DOMAIN args = 1..Len(args)
        /\ lhs \in SymbolNames /\ k \in Kinds \cap Holds(lhs)
    BY <1>1, <1>7, <2>1, <2>2
  <2>5. MakeFits(Makes(k, lhs, under, rhs, args))
    BY <2>3, <2>4, MakesFit
  <2> QED
    BY <2>5 DEF rhs, args
<1>8. ASSUME NEW k, NEW lhs \in {"expr", "stmt"}, NEW under,
             NEW a, NEW o, NEW b, NEW c, NEW F, NEW G,
             k \in Kinds \cap Holds(lhs), Fields(k) = <<F, G>>,
             CopyHolds(a) \subseteq F, CopyHolds(b) \subseteq G,
             Holds(o) = {"NULL"},
             Holds(c) = {"NULL"}
      PROVE  MakeFits(Makes(k, lhs, under, <<a, o, b, c>>, <<1, 3>>))
  <2> DEFINE rhs == <<a, o, b, c>>
             args == <<1, 3>>
             fields == <<F, G>>
  <2>1. /\ Len(rhs) = 4 /\ rhs[1] = a /\ rhs[2] = o /\ rhs[3] = b /\ rhs[4] = c
        /\ Len(args) = 2 /\ DOMAIN args = 1..2 /\ args[1] = 1 /\ args[2] = 3
        /\ Len(fields) = 2 /\ fields[1] = F /\ fields[2] = G
    OBVIOUS
  <2> HIDE DEF rhs, args
  <2>2. Fields(k) = fields
    BY <1>8
  <2> HIDE DEF fields
  <2>3. /\ \A i \in 1..Len(args) :
             args[i] \in 1..Len(rhs) /\ CopyHolds(rhs[args[i]]) \subseteq Fields(k)[i]
        /\ \A j \in 1..Len(rhs) :
             (\A i \in 1..Len(args) : args[i] # j) => Holds(rhs[j]) = {"NULL"}
    BY <1>8, <2>1, <2>2
  <2>4. Len(args) = Len(Fields(k)) /\ Len(rhs) \in Nat /\ DOMAIN args = 1..Len(args)
        /\ lhs \in SymbolNames /\ k \in Kinds \cap Holds(lhs)
    BY <1>1, <1>8, <2>1, <2>2
  <2>5. MakeFits(Makes(k, lhs, under, rhs, args))
    BY <2>3, <2>4, MakesFit
  <2> QED
    BY <2>5 DEF rhs, args
<1>9. \A op \in Operators : MakeFits(Makes(op, "expr", Opens, <<"expr", op, "expr">>, <<1, 3>>))
  BY <1>1, <1>2, <1>7, FieldsAre
<1>10. /\ MakeFits(Makes("ident", "expr", Opens, <<"ident">>, <<1>>))
       /\ MakeFits(Makes("string", "expr", Opens, <<"string">>, <<1>>))
       /\ MakeFits(Makes("print", "stmt", {"input"}, <<"expr">>, <<1>>))
  BY <1>1, <1>2, <1>4, FieldsAre
<1>11. /\ MakeFits(Makes("list", "expr", Opens, <<"[", "opt_exprlist", "]">>, <<2>>))
       /\ MakeFits(Makes("dict", "expr", Opens, <<"{", "opt_dictlist", "}">>, <<2>>))
  BY <1>1, <1>2, <1>6, FieldsAre
<1>12. /\ MakeFits(Makes("attr", "expr", Opens, <<"expr", ".", "ident">>, <<1, 3>>))
       /\ MakeFits(Makes("assign", "stmt", {"input"}, <<"ident", "=", "expr">>, <<1, 3>>))
  BY <1>1, <1>2, <1>7, FieldsAre
<1>13. MakeFits(Makes("item", "expr", Opens, <<"expr", "item", "expr", "]">>, <<1, 3>>))
  BY <1>1, <1>2, <1>8, FieldsAre
<1>14. MakeFits(Makes("neg", "expr", Opens, <<"neg", "expr">>, <<2>>))
  BY <1>1, <1>2, <1>5, FieldsAre
<1> QED
  BY <1>3, <1>9, <1>10, <1>11, <1>12, <1>13, <1>14 DEF MakeRules

\* A rule that hands a value on hands it to a symbol that may have it.
HandFits(r) ==
  /\ r.lhs \in SymbolNames /\ Len(r.rhs) \in Nat /\ r.arg \in 0..Len(r.rhs)
  /\ r.arg = 0 => "NULL" \in Holds(r.lhs)
  /\ r.arg # 0 => Holds(r.rhs[r.arg]) \subseteq Holds(r.lhs)
  /\ \A j \in 1..Len(r.rhs) : j # r.arg => Holds(r.rhs[j]) = {"NULL"}

LEMMA HandsFit ==
  ASSUME NEW lhs \in SymbolNames, NEW under, NEW rhs, NEW arg, Len(rhs) \in Nat,
         arg \in 0..Len(rhs), arg = 0 => "NULL" \in Holds(lhs),
         arg # 0 => Holds(rhs[arg]) \subseteq Holds(lhs),
         \A j \in 1..Len(rhs) : j # arg => Holds(rhs[j]) = {"NULL"}
  PROVE  HandFits(Hands(lhs, under, rhs, arg))
BY DEF HandFits, Hands

LEMMA HandRulesFit ==
  ASSUME NEW r \in HandRules
  PROVE  HandFits(r)
<1>1. \A t \in {"none", "(", ")", ","} : Holds(t) = {"NULL"}
  <2>1. \A t \in {"none", "(", ")", ","} : t \in Tokens /\ t \notin {"ident", "string"}
    BY DEF Tokens, Starts
  <2> QED
    BY <2>1, TokensHold DEF SymbolNames
<1>2. /\ \A t \in {"expr", "opt_exprlist", "opt_dictlist"} :
           t \in SymbolNames /\ "NULL" \in Holds(t)
      /\ Holds("exprlist") \subseteq Holds("opt_exprlist")
      /\ Holds("dictlist") \subseteq Holds("opt_dictlist")
  <2>1. \A t \in {"expr", "opt_exprlist", "opt_dictlist"} : t \in SymbolNames
    BY DEF SymbolNames
  <2> QED
    BY <2>1, HoldsAre
<1>3. ASSUME NEW lhs \in SymbolNames, NEW under, "NULL" \in Holds(lhs)
      PROVE  /\ HandFits(Hands(lhs, under, <<>>, 0))
             /\ \A c : Holds(c) = {"NULL"} => HandFits(Hands(lhs, under, <<c>>, 0))
  <2>1. ASSUME NEW rhs, NEW arg, arg = 0, Len(rhs) = 0 PROVE HandFits(Hands(lhs, under, rhs, arg))
    BY <1>3, <2>1, HandsFit
  <2>2. ASSUME NEW c, NEW rhs, NEW arg, arg = 0, Len(rhs) = 1, rhs[1] = c, Holds(c) = {"NULL"}
        PROVE HandFits(Hands(lhs, under, rhs, arg))
    BY <1>3, <2>2, HandsFit
  <2> QED
    BY <2>1, <2>2
<1>4. ASSUME NEW lhs \in SymbolNames, NEW under, NEW a, Holds(a) \subseteq Holds(lhs)
      PROVE  /\ HandFits(Hands(lhs, under, <<a>>, 1))
             /\ \A c : Holds(c) = {"NULL"} => HandFits(Hands(lhs, under, <<a, c>>, 1))
             /\ \A o, c : Holds(o) = {"NULL"} /\ Holds(c) = {"NULL"} =>
                            HandFits(Hands(lhs, under, <<o, a, c>>, 2))
  <2>1. ASSUME NEW rhs, NEW arg, arg = 1, Len(rhs) = 1, rhs[1] = a
        PROVE  HandFits(Hands(lhs, under, rhs, arg))
    BY <1>4, <2>1, HandsFit
  <2>2. ASSUME NEW c, NEW rhs, NEW arg, arg = 1, Len(rhs) = 2, rhs[1] = a, rhs[2] = c,
               Holds(c) = {"NULL"}
        PROVE HandFits(Hands(lhs, under, rhs, arg))
    BY <1>4, <2>2, HandsFit
  <2>3. ASSUME NEW o, NEW c, NEW rhs, NEW arg, arg = 2, Len(rhs) = 3, rhs[1] = o, rhs[2] = a,
               rhs[3] = c, Holds(o) = {"NULL"}, Holds(c) = {"NULL"}
        PROVE HandFits(Hands(lhs, under, rhs, arg))
    BY <1>4, <2>3, HandsFit
  <2> QED
    BY <2>1, <2>2, <2>3
<1>5. /\ HandFits(Hands("expr", Opens, <<"none">>, 0))
      /\ HandFits(Hands("expr", Opens, <<"(", "expr", ")">>, 2))
  BY <1>1, <1>2, <1>3, <1>4, Zenon
<1>6. /\ HandFits(Hands("opt_exprlist", {"["}, <<>>, 0))
      /\ HandFits(Hands("opt_exprlist", {"["}, <<"exprlist">>, 1))
      /\ HandFits(Hands("opt_exprlist", {"["}, <<"exprlist", ",">>, 1))
  BY <1>1, <1>2, <1>3, <1>4, Zenon
<1>7. /\ HandFits(Hands("opt_dictlist", {"{"}, <<>>, 0))
      /\ HandFits(Hands("opt_dictlist", {"{"}, <<"dictlist">>, 1))
      /\ HandFits(Hands("opt_dictlist", {"{"}, <<"dictlist", ",">>, 1))
  BY <1>1, <1>2, <1>3, <1>4, Zenon
<1> QED
  BY <1>5, <1>6, <1>7, Zenon DEF HandRules

\* A rule that appends to a list appends the values of expressions.
AppendFits(r) ==
  /\ r.lhs \in SymbolNames /\ "cell" \in Holds(r.lhs)
  /\ Len(r.rhs) \in Nat /\ r.list \in 0..Len(r.rhs)
  /\ r.list # 0 => Holds(r.rhs[r.list]) = {"cell"}
  /\ Len(r.args) \in 1..2 /\ DOMAIN r.args = 1..Len(r.args)
  /\ \A i \in 1..Len(r.args) :
       r.args[i] \in 1..Len(r.rhs) /\ r.args[i] # r.list /\ r.rhs[r.args[i]] = "expr"
  /\ \A j \in 1..Len(r.rhs) :
       (\A i \in 1..Len(r.args) : r.args[i] # j) /\ j # r.list => Holds(r.rhs[j]) = {"NULL"}

LEMMA AppendsFit ==
  ASSUME NEW lhs \in SymbolNames, NEW under, NEW rhs, NEW list, NEW args,
         "cell" \in Holds(lhs), Len(rhs) \in Nat, list \in 0..Len(rhs),
         list # 0 => Holds(rhs[list]) = {"cell"},
         Len(args) \in 1..2, DOMAIN args = 1..Len(args),
         \A i \in 1..Len(args) : args[i] \in 1..Len(rhs) /\ args[i] # list /\ rhs[args[i]] = "expr",
         \A j \in 1..Len(rhs) :
           (\A i \in 1..Len(args) : args[i] # j) /\ j # list => Holds(rhs[j]) = {"NULL"}
  PROVE  AppendFits(Appends(lhs, under, rhs, list, args))
BY DEF AppendFits, Appends

LEMMA AppendRulesFit ==
  ASSUME NEW r \in AppendRules
  PROVE  AppendFits(r)
<1>1. Holds(",") = {"NULL"} /\ Holds(":") = {"NULL"}
  <2>1. \A t \in {",", ":"} : t \in Tokens /\ t \notin {"ident", "string"}
    BY DEF Tokens
  <2> QED
    BY <2>1, TokensHold DEF SymbolNames
<1>2. \A t \in {"exprlist", "dictlist"} : t \in SymbolNames /\ Holds(t) = {"cell"}
  BY HoldsAre DEF SymbolNames
<1>3. ASSUME NEW lhs \in SymbolNames, NEW under, Holds(lhs) = {"cell"}
      PROVE  /\ AppendFits(Appends(lhs, under, <<"expr">>, 0, <<1>>))
             /\ \A c : Holds(c) = {"NULL"} =>
                         /\ AppendFits(Appends(lhs, under, <<lhs, c, "expr">>, 1, <<3>>))
                         /\ AppendFits(Appends(lhs, under, <<"expr", c, "expr">>, 0, <<1, 3>>))
             /\ \A c, d : Holds(c) = {"NULL"} /\ Holds(d) = {"NULL"} =>
                  AppendFits(Appends(lhs, under, <<lhs, c, "expr", d, "expr">>, 1, <<3, 5>>))
  <2>1. ASSUME NEW rhs, NEW list, NEW args, Len(rhs) = 1, rhs[1] = "expr", list = 0,
               Len(args) = 1, DOMAIN args = 1..1, args[1] = 1
        PROVE  AppendFits(Appends(lhs, under, rhs, list, args))
    BY <1>3, <2>1, AppendsFit
  <2>2. ASSUME NEW c, Holds(c) = {"NULL"}, NEW rhs, NEW list, NEW args,
               Len(rhs) = 3, rhs[1] = lhs, rhs[2] = c, rhs[3] = "expr", list = 1,
               Len(args) = 1, DOMAIN args = 1..1, args[1] = 3
        PROVE  AppendFits(Appends(lhs, under, rhs, list, args))
    BY <1>3, <2>2, AppendsFit
  <2>3. ASSUME NEW c, Holds(c) = {"NULL"}, NEW rhs, NEW list, NEW args,
               Len(rhs) = 3, rhs[1] = "expr", rhs[2] = c, rhs[3] = "expr", list = 0,
               Len(args) = 2, DOMAIN args = 1..2, args[1] = 1, args[2] = 3
        PROVE  AppendFits(Appends(lhs, under, rhs, list, args))
    <3>1. \A i \in 1..Len(args) : i = 1 \/ i = 2
      BY <2>3
    <3>2. \A i \in 1..Len(args) : args[i] \in 1..Len(rhs) /\ args[i] # list /\ rhs[args[i]] = "expr"
      BY <2>3, <3>1
    <3>3. ASSUME NEW j \in 1..Len(rhs), \A i \in 1..Len(args) : args[i] # j, j # list
          PROVE  Holds(rhs[j]) = {"NULL"}
      BY <2>3, <3>3
    <3>4. list # 0 => Holds(rhs[list]) = {"cell"}
      BY <1>3, <2>3
    <3>5. /\ Len(args) \in 1..2 /\ DOMAIN args = 1..Len(args)
          /\ Len(rhs) \in Nat /\ list \in 0..Len(rhs)
      BY <2>3
    <3> QED
      BY <1>3, <3>2, <3>3, <3>4, <3>5, AppendsFit
  <2>4. ASSUME NEW c, Holds(c) = {"NULL"}, NEW d, Holds(d) = {"NULL"},
               NEW rhs, NEW list, NEW args,
               Len(rhs) = 5, rhs[1] = lhs, rhs[2] = c, rhs[3] = "expr", rhs[4] = d, rhs[5] = "expr",
               list = 1, Len(args) = 2, DOMAIN args = 1..2, args[1] = 3, args[2] = 5
        PROVE  AppendFits(Appends(lhs, under, rhs, list, args))
    <3>1. \A i \in 1..Len(args) : i = 1 \/ i = 2
      BY <2>4
    <3>2. \A i \in 1..Len(args) : args[i] \in 1..Len(rhs) /\ args[i] # list /\ rhs[args[i]] = "expr"
      BY <2>4, <3>1
    <3>3. ASSUME NEW j \in 1..Len(rhs), \A i \in 1..Len(args) : args[i] # j, j # list
          PROVE  Holds(rhs[j]) = {"NULL"}
      BY <2>4, <3>3
    <3>4. list # 0 => Holds(rhs[list]) = {"cell"}
      BY <1>3, <2>4
    <3>5. /\ Len(args) \in 1..2 /\ DOMAIN args = 1..Len(args)
          /\ Len(rhs) \in Nat /\ list \in 0..Len(rhs)
      BY <2>4
    <3> QED
      BY <1>3, <3>2, <3>3, <3>4, <3>5, AppendsFit
  <2> QED
    BY <2>1, <2>2, <2>3, <2>4
<1>4. /\ AppendFits(Appends("exprlist", {"["}, <<"expr">>, 0, <<1>>))
      /\ AppendFits(Appends("exprlist", {"["}, <<"exprlist", ",", "expr">>, 1, <<3>>))
  BY <1>1, <1>2, <1>3, Zenon
<1>5. /\ AppendFits(Appends("dictlist", {"{"}, <<"expr", ":", "expr">>, 0, <<1, 3>>))
      /\ AppendFits(
           Appends("dictlist", {"{"}, <<"dictlist", ",", "expr", ":", "expr">>, 1, <<3, 5>>))
  BY <1>1, <1>2, <1>3, Zenon
<1> QED
  BY <1>4, <1>5, Zenon DEF AppendRules

-----------------------------------------------------------------------------
(* The steps *)

\* What the symbols of a rule hold are its arguments, A, or nothing.
Arguments(st, rhs, A) ==
  /\ A \subseteq {st[Len(st) - Len(rhs) + j].val : j \in 1..Len(rhs)}
  /\ \A j \in 1..Len(rhs) :
       st[Len(st) - Len(rhs) + j].val \in A \/ Holds(rhs[j]) = {"NULL"}

LEMMA RestIs ==
  ASSUME NEW m, NEW st, NEW p, InOrder(m, st, p), NEW rhs, Ends(st, rhs), NEW A,
         Arguments(st, rhs, A)
  PROVE  HeldBy(st, p) \ Popped(st, Len(rhs)) = HeldBy(st, p) \ A
<1> DEFINE n == Len(st) - Len(rhs)
<1>1. Len(st) \in Nat /\ NULL \notin HeldBy(st, p) /\ \A x : KindIn(m, x) = "NULL" => x = NULL
  BY OrderIs
<1>2. Len(rhs) \in Nat /\ n \in Nat /\ n + Len(rhs) = Len(st)
      /\ \A j \in 1..Len(rhs) : n + j \in DOMAIN st /\ st[n + j].sym = rhs[j]
  BY <1>1 DEF Ends
<1> HIDE DEF n
<1>3. /\ \A x \in A : \E j \in 1..Len(rhs) : x = st[n + j].val
      /\ \A j \in 1..Len(rhs) : st[n + j].val \in A \/ Holds(rhs[j]) = {"NULL"}
  BY DEF n, Arguments
<1>4. ASSUME NEW i \in (n + 1)..Len(st) PROVE i - n \in 1..Len(rhs) /\ n + (i - n) = i
  <2>1. n \in Int /\ i \in Int /\ Len(st) \in Int /\ Len(rhs) \in Int /\ n + Len(rhs) = Len(st)
        /\ n + 1 <= i /\ i <= Len(st)
    BY <1>1, <1>2, <1>4
  <2> QED
    BY <2>1
<1>5. \A j \in 1..Len(rhs) : n + j \in (n + 1)..Len(st)
  BY <1>1, <1>2
<1>6. Popped(st, Len(rhs)) = {st[i].val : i \in (n + 1)..Len(st)}
  BY DEF Popped, n
<1>7. A \subseteq Popped(st, Len(rhs))
  BY <1>3, <1>5, <1>6
<1>8. ASSUME NEW x \in Popped(st, Len(rhs)), x \notin A PROVE x = NULL
  <2>1. PICK i \in (n + 1)..Len(st) : x = st[i].val
    BY <1>6
  <2>2. Holds(rhs[i - n]) = {"NULL"}
    BY <1>3, <1>4, <1>8, <2>1
  <2>3. i \in DOMAIN st /\ st[i].sym = rhs[i - n]
    BY <1>2, <1>4
  <2>4. KindIn(m, st[i].val) \in Holds(st[i].sym)
    BY <2>3 DEF InOrder
  <2> QED
    BY <1>1, <2>1, <2>2, <2>3, <2>4
<1> QED
  BY <1>1, <1>7, <1>8

\* A value of a rule's right side.
LEMMA ValueIs ==
  ASSUME NEW m, NEW st, NEW p, InOrder(m, st, p), NEW rhs, Ends(st, rhs), NEW j \in 1..Len(rhs),
         NEW a, a = st[Len(st) - Len(rhs) + j].val
  PROVE  /\ a \in Nat /\ (a = NULL \/ a \in HeldBy(st, p)) /\ KindIn(m, a) \in Holds(rhs[j])
         /\ CopyKind(m, rhs[j], a) \in CopyHolds(rhs[j])
         /\ a \in {st[Len(st) - Len(rhs) + i].val : i \in 1..Len(rhs)}
         /\ a # NULL => a # p
<1>1. PICK i \in DOMAIN st : i = Len(st) - Len(rhs) + j
  BY DEF Ends
<1>2. st[i].sym = rhs[j] /\ a = st[i].val
  BY <1>1 DEF Ends
<1>3. KindIn(m, a) \in Holds(rhs[j]) /\ (a # NULL => a # p)
  BY <1>2 DEF InOrder
<1>4. CopyKind(m, rhs[j], a) \in CopyHolds(rhs[j])
  BY <1>2, CopyIs
<1>5. a \in Nat /\ (a = NULL \/ a \in HeldBy(st, p))
  BY <1>2, OrderIs
<1> QED
  BY <1>3, <1>4, <1>5

LEMMA NowIs ==
  ASSUME NEW f, NEW H, Good(f, H), IsNow(f), InOrder(f, stack', program')
  PROVE  SyntaxInv'
<1>1. f = [node |-> node', lost |-> lost']
  BY DEF Good, WellFormed, IsNow
<1> QED
  BY <1>1 DEF SyntaxInv, Memory

LEMMA MakeStep ==
  ASSUME Roomy, SyntaxInv, NEW r \in MakeRules, Make(r)
  PROVE  SyntaxInv'
<1> DEFINE n == Len(r.rhs)
           k == Len(stack) - n
           H == HeldBy(stack, program)
           syms == [i \in DOMAIN r.args |-> r.rhs[r.args[i]]]
           args == [i \in DOMAIN r.args |-> Values(n)[r.args[i]]]
           copies == CopyAll(Memory, syms, args)
           made == New(copies.mem, r.kind, copies.vals)
           f == FreeAll(made.mem, args)
<1>1. MakeFits(r)
  BY MakeRulesFit
<1>2. InOrder(Memory, stack, program) /\ Good(Memory, H)
  BY DEF SyntaxInv, InOrder
<1>3. Ends(stack, r.rhs) /\ n \in 0..Len(stack)
  <2>1. Len(r.rhs) \in Nat
    BY <1>1 DEF MakeFits
  <2>2. MayReduce([i \in DOMAIN stack |-> stack[i].sym], r)
    BY DEF Make, Symbols
  <2>3. Ends(stack, r.rhs)
    BY <1>2, <2>1, <2>2, ReduceIs
  <2> QED
    BY <2>3 DEF Ends
<1>4. /\ IsNow(f) /\ program' = program
      /\ stack' = Append(SubSeq(stack, 1, Len(stack) - n), [sym |-> r.lhs, val |-> made.val])
  BY DEF Make, Put, Under
<1>5. DOMAIN r.args = 1..Len(r.args) /\ Len(r.args) = Len(Fields(r.kind)) /\ r.kind \in Kinds
      /\ r.kind \in Holds(r.lhs) /\ r.lhs \in SymbolNames
      /\ \A i \in 1..Len(r.args) : r.args[i] \in 1..n
  BY <1>1 DEF MakeFits
<1>6. \A j \in 1..n : Values(n)[j] = stack[Len(stack) - n + j].val
  BY DEF Values
<1>7. DOMAIN args = 1..Len(r.args) /\ Len(args) = Len(r.args)
      /\ \A i \in 1..Len(r.args) :
           args[i] = stack[Len(stack) - n + r.args[i]].val /\ syms[i] = r.rhs[r.args[i]]
  <2>1. Len(r.args) \in Nat
    BY <1>5, FieldKinds
  <2>2. args = [i \in 1..Len(r.args) |-> Values(n)[r.args[i]]]
    BY <1>5
  <2>3. DOMAIN args = 1..Len(r.args) /\ Len(args) = Len(r.args)
    BY <2>1, <2>2
  <2>4. \A i \in 1..Len(r.args) : args[i] = Values(n)[r.args[i]] /\ syms[i] = r.rhs[r.args[i]]
    BY <1>5
  <2> HIDE DEF args, syms
  <2> QED
    BY <1>5, <1>6, <2>3, <2>4
<1> HIDE DEF args, syms
<1>8. ASSUME NEW i \in 1..Len(args)
      PROVE  /\ args[i] = NULL \/ args[i] \in H
             /\ CopyKind(Memory, syms[i], args[i]) \in Fields(r.kind)[i]
             /\ args[i] \in {stack[Len(stack) - n + j].val : j \in 1..n}
  <2>1. PICK j \in 1..n : j = r.args[i] /\ CopyHolds(r.rhs[j]) \subseteq Fields(r.kind)[i]
    BY <1>1, <1>7 DEF MakeFits
  <2>2. args[i] = stack[Len(stack) - n + j].val /\ syms[i] = r.rhs[j]
    BY <1>7, <2>1
  <2>3. /\ args[i] = NULL \/ args[i] \in H
        /\ CopyKind(Memory, r.rhs[j], args[i]) \in CopyHolds(r.rhs[j])
        /\ args[i] \in {stack[Len(stack) - n + l].val : l \in 1..n}
    BY <1>2, <1>3, <2>2, ValueIs
  <2> QED
    BY <2>1, <2>2, <2>3
<1>9. Done(Memory, H, args, r.kind, made.val, f) /\ made.val \notin H
  <2>1. Len(args) = Len(Fields(r.kind)) /\ DOMAIN args = 1..Len(args)
    BY <1>5, <1>7
  <2>2. Room(Memory, 3 * Size(Memory) + 4)
    BY RoomIs
  <2> HIDE DEF H
  <2> QED
    BY <1>2, <1>5, <1>8, <2>1, <2>2, MakeKeeps
<1>10. H \ Popped(stack, n) = H \ Range(args)
  <2>1. Range(args) \subseteq {stack[Len(stack) - n + j].val : j \in 1..n}
    BY <1>7, <1>8 DEF Range
  <2>2. ASSUME NEW j \in 1..n
        PROVE  stack[Len(stack) - n + j].val \in Range(args) \/ Holds(r.rhs[j]) = {"NULL"}
    <3>1. CASE \E i \in 1..Len(r.args) : r.args[i] = j
      BY <1>7, <3>1 DEF Range
    <3>2. CASE \A i \in 1..Len(r.args) : r.args[i] # j
      BY <1>1, <3>2 DEF MakeFits
    <3> QED
      BY <3>1, <3>2
  <2>3. Arguments(stack, r.rhs, Range(args))
    BY <2>1, <2>2 DEF Arguments
  <2> QED
    BY <1>2, <1>3, <2>3, RestIs
<1> HIDE DEF H, f, made
<1>11. InOrder(f, stack', program)
  <2> DEFINE G == H \ Range(args)
  <2>1. /\ Good(f, G \cup {made.val}) /\ made.val \in Blocks /\ KindIn(f, made.val) = r.kind
        /\ \A h \in G : KindIn(f, h) = KindIn(Memory, h)
    BY <1>9 DEF Done
  <2>2. made.val # NULL /\ made.val \in Nat /\ made.val \notin G
    BY <1>9, <2>1, SyntaxAssumption
  <2>3. G = HeldBy(stack, program) \ Popped(stack, n)
    BY <1>10 DEF H
  <2>4. G \cup {made.val} = G \cup ({made.val} \ {NULL})
    BY <2>2
  <2> HIDE DEF G
  <2>5. InOrder(f, Append(SubSeq(stack, 1, Len(stack) - n), [sym |-> r.lhs, val |-> made.val]),
                program)
    BY <1>2, <1>3, <1>5, <2>1, <2>2, <2>3, <2>4, PushKeeps
  <2> QED
    BY <1>4, <2>5
<1>12. Good(f, (H \ Range(args)) \cup {made.val})
  BY <1>9 DEF Done
<1> QED
  BY <1>4, <1>11, <1>12, NowIs

LEMMA HandStep ==
  ASSUME SyntaxInv, NEW r \in HandRules, Hand(r)
  PROVE  SyntaxInv'
<1> DEFINE n == Len(r.rhs)
           H == HeldBy(stack, program)
           v == IF r.arg = 0 THEN NULL ELSE Values(n)[r.arg]
<1>1. HandFits(r)
  BY HandRulesFit
<1>2. InOrder(Memory, stack, program) /\ Good(Memory, H) /\ NULL \notin H
  BY OrderIs DEF SyntaxInv, InOrder
<1>3. Ends(stack, r.rhs) /\ n \in 0..Len(stack)
  <2>1. Len(r.rhs) \in Nat
    BY <1>1 DEF HandFits
  <2>2. MayReduce([i \in DOMAIN stack |-> stack[i].sym], r)
    BY DEF Hand, Symbols
  <2>3. Ends(stack, r.rhs)
    BY <1>2, <2>1, <2>2, ReduceIs
  <2> QED
    BY <2>3 DEF Ends
<1>4. /\ IsNow(Memory) /\ program' = program
      /\ stack' = Append(SubSeq(stack, 1, Len(stack) - n), [sym |-> r.lhs, val |-> v])
  BY DEF Hand, Put, Under, IsNow, Memory
<1>5. /\ r.lhs \in SymbolNames /\ r.arg \in 0..n
      /\ r.arg = 0 => "NULL" \in Holds(r.lhs)
      /\ r.arg # 0 => Holds(r.rhs[r.arg]) \subseteq Holds(r.lhs)
      /\ \A j \in 1..n : j # r.arg => Holds(r.rhs[j]) = {"NULL"}
  BY <1>1 DEF HandFits
<1>6. /\ v \in Nat /\ (v = NULL \/ v \in H) /\ KindIn(Memory, v) \in Holds(r.lhs)
      /\ H \ Popped(stack, n) = H \ {v}
  <2>1. CASE r.arg = 0
    <3>1. v = NULL /\ KindIn(Memory, v) = "NULL" /\ v \in Nat
      BY <2>1 DEF KindIn, NULL
    <3>2. "NULL" \in Holds(r.lhs) /\ \A j \in 1..n : Holds(r.rhs[j]) = {"NULL"}
      <4>1. \A j \in 1..n : j # r.arg
        BY <2>1
      <4> QED
        BY <1>5, <2>1, <4>1
    <3>3. Arguments(stack, r.rhs, {})
      BY <3>2 DEF Arguments
    <3>4. H \ Popped(stack, n) = H \ {}
      BY <1>2, <1>3, <3>3, RestIs
    <3> QED
      BY <1>2, <3>1, <3>2, <3>4
  <2>2. CASE r.arg # 0
    <3>1. PICK j \in 1..n :
            /\ j = r.arg /\ Holds(r.rhs[j]) \subseteq Holds(r.lhs)
            /\ \A i \in 1..n : i # j => Holds(r.rhs[i]) = {"NULL"}
      <4>1. r.arg \in 1..n
        BY <1>3, <1>5, <2>2
      <4> QED
        BY <1>5, <2>2, <4>1
    <3>2. v = stack[Len(stack) - n + j].val
      BY <2>2, <3>1 DEF Values
    <3> HIDE DEF v
    <3>3. /\ v \in Nat /\ (v = NULL \/ v \in H) /\ KindIn(Memory, v) \in Holds(r.rhs[j])
          /\ v \in {stack[Len(stack) - n + i].val : i \in 1..n}
      BY <1>2, <1>3, <3>1, <3>2, ValueIs
    <3>4. Arguments(stack, r.rhs, {v})
      BY <3>1, <3>2, <3>3 DEF Arguments
    <3>5. H \ Popped(stack, n) = H \ {v}
      BY <1>2, <1>3, <3>4, RestIs
    <3> QED
      BY <3>1, <3>3, <3>5
  <2> QED
    BY <2>1, <2>2
<1> HIDE DEF v, H
<1>7. InOrder(Memory, stack', program)
  <2> DEFINE G == H \ {v}
  <2>1. G = HeldBy(stack, program) \ Popped(stack, n)
    BY <1>6 DEF H
  <2>2. G \cup ({v} \ {NULL}) = H /\ v \notin G
    BY <1>2, <1>6
  <2> HIDE DEF G
  <2>3. Good(Memory, G \cup ({v} \ {NULL}))
    BY <1>2, <2>2
  <2>4. InOrder(Memory, Append(SubSeq(stack, 1, Len(stack) - n), [sym |-> r.lhs, val |-> v]),
                program)
    BY <1>2, <1>3, <1>5, <1>6, <2>1, <2>2, <2>3, PushKeeps
  <2> QED
    BY <1>4, <2>4
<1> QED
  BY <1>2, <1>4, <1>7, NowIs

LEMMA AppendStep ==
  ASSUME Roomy, SyntaxInv, NEW r \in AppendRules, AppendTo(r)
  PROVE  SyntaxInv'
<1> DEFINE n == Len(r.rhs)
           H == HeldBy(stack, program)
           args == [i \in DOMAIN r.args |-> Values(n)[r.args[i]]]
           list == IF r.list = 0 THEN NULL ELSE Values(n)[r.list]
           longer == Longer(Memory, list, args)
           f == FreeAll(longer.mem, args)
<1>1. AppendFits(r)
  BY AppendRulesFit
<1>2. InOrder(Memory, stack, program) /\ Good(Memory, H) /\ NULL \notin H
  BY OrderIs DEF SyntaxInv, InOrder
<1>3. Ends(stack, r.rhs) /\ n \in 0..Len(stack) /\ Len(stack) \in Nat
  <2>1. Len(r.rhs) \in Nat
    BY <1>1 DEF AppendFits
  <2>2. MayReduce([i \in DOMAIN stack |-> stack[i].sym], r)
    BY DEF AppendTo, Symbols
  <2>3. Ends(stack, r.rhs)
    BY <1>2, <2>1, <2>2, ReduceIs
  <2> QED
    BY <1>2, <2>3, OrderIs DEF Ends
<1>4. /\ IsNow(f) /\ program' = program
      /\ stack' = Append(SubSeq(stack, 1, Len(stack) - n), [sym |-> r.lhs, val |-> longer.val])
  BY DEF AppendTo, Put, Under, Longer
<1>5. DOMAIN r.args = 1..Len(r.args) /\ Len(r.args) \in 1..2 /\ r.lhs \in SymbolNames
      /\ r.list \in 0..n /\ "cell" \in Holds(r.lhs)
      /\ \A i \in 1..Len(r.args) :
           r.args[i] \in 1..n /\ r.args[i] # r.list /\ r.rhs[r.args[i]] = "expr"
  BY <1>1 DEF AppendFits
<1>6. \A j \in 1..n : Values(n)[j] = stack[Len(stack) - n + j].val
  BY DEF Values
<1>7. DOMAIN args = 1..Len(r.args) /\ Len(args) = Len(r.args)
      /\ \A i \in 1..Len(r.args) : args[i] = stack[Len(stack) - n + r.args[i]].val
  <2>1. args = [i \in 1..Len(r.args) |-> Values(n)[r.args[i]]]
    BY <1>5
  <2>2. DOMAIN args = 1..Len(r.args) /\ Len(args) = Len(r.args)
    BY <1>5, <2>1
  <2>3. \A i \in 1..Len(r.args) : args[i] = Values(n)[r.args[i]]
    BY <1>5
  <2> HIDE DEF args
  <2> QED
    BY <1>5, <1>6, <2>2, <2>3
<1> HIDE DEF args
<1>8. ASSUME NEW i \in 1..Len(args)
      PROVE  /\ args[i] = NULL \/ args[i] \in H
             /\ Listed(Memory, "expr", args[i])
             /\ args[i] \in {stack[Len(stack) - n + j].val : j \in 1..n}
  <2>1. PICK j \in 1..n : j = r.args[i] /\ r.rhs[j] = "expr"
    BY <1>5, <1>7
  <2>2. args[i] = stack[Len(stack) - n + j].val
    BY <1>7, <2>1
  <2>3. /\ args[i] = NULL \/ args[i] \in H
        /\ CopyKind(Memory, r.rhs[j], args[i]) \in CopyHolds(r.rhs[j])
        /\ args[i] \in {stack[Len(stack) - n + l].val : l \in 1..n}
    BY <1>2, <1>3, <2>2, ValueIs
  <2>4. Listed(Memory, "expr", args[i])
    BY <2>1, <2>3 DEF Listed, CopyKind, CopyHolds
  <2> QED
    BY <2>3, <2>4
<1>9. /\ Range(args) \subseteq {stack[Len(stack) - n + j].val : j \in 1..n}
      /\ \A j \in 1..n : stack[Len(stack) - n + j].val \in Range(args) \/ j = r.list
                         \/ Holds(r.rhs[j]) = {"NULL"}
  <2>1. Range(args) \subseteq {stack[Len(stack) - n + j].val : j \in 1..n}
    BY <1>7, <1>8 DEF Range
  <2>2. ASSUME NEW j \in 1..n, j # r.list
        PROVE  stack[Len(stack) - n + j].val \in Range(args) \/ Holds(r.rhs[j]) = {"NULL"}
    <3>1. CASE \E i \in 1..Len(r.args) : r.args[i] = j
      BY <1>7, <3>1 DEF Range
    <3>2. CASE \A i \in 1..Len(r.args) : r.args[i] # j
      BY <1>1, <2>2, <3>2 DEF AppendFits
    <3> QED
      BY <3>1, <3>2
  <2> QED
    BY <2>1, <2>2
<1>10. /\ list = NULL \/ (list \in H /\ list \in Cells(Memory))
       /\ list = NULL \/ list \notin Range(args)
       /\ H \ Popped(stack, n) = (H \ Range(args)) \ {list}
  <2>1. CASE r.list = 0
    <3>1. list = NULL /\ \A j \in 1..n : j # r.list
      BY <2>1
    <3>2. Arguments(stack, r.rhs, Range(args))
      BY <1>9, <3>1 DEF Arguments
    <3>3. H \ Popped(stack, n) = H \ Range(args)
      BY <1>2, <1>3, <3>2, RestIs
    <3> QED
      BY <1>2, <3>1, <3>3
  <2>2. CASE r.list # 0
    <3>1. PICK l \in 1..n : l = r.list /\ Holds(r.rhs[l]) = {"cell"}
      BY <1>1, <2>2 DEF AppendFits
    <3>2. list = stack[Len(stack) - n + l].val
      BY <1>6, <2>2, <3>1
    <3> HIDE DEF list
    <3>3. /\ list = NULL \/ list \in H
          /\ KindIn(Memory, list) \in Holds(r.rhs[l])
          /\ list \in {stack[Len(stack) - n + i].val : i \in 1..n}
      BY <1>2, <1>3, <3>1, <3>2, ValueIs
    <3>4. KindIn(Memory, list) = "cell"
      BY <3>1, <3>3
    <3>5. list # NULL /\ list \in H /\ list \in Cells(Memory)
      BY <3>3, <3>4 DEF KindIn, Cells
    <3>6. list \notin Range(args)
      <4>1. ASSUME NEW i \in 1..Len(args), args[i] = list PROVE FALSE
        <5>1. PICK a \in 1..n : a = r.args[i] /\ a # r.list
          BY <1>5, <1>7
        <5>2. PICK b \in 1..n : b = l /\ b = r.list
          BY <3>1
        <5>3. stack[Len(stack) - n + a].val = stack[Len(stack) - n + b].val
              /\ stack[Len(stack) - n + a].val # NULL
          BY <1>7, <3>2, <3>5, <4>1, <5>1, <5>2
        <5>4. Len(stack) - n + a \in DOMAIN stack /\ Len(stack) - n + b \in DOMAIN stack
          BY <1>3 DEF Ends
        <5>5. Len(stack) - n + a = Len(stack) - n + b
          BY <1>2, <5>3, <5>4 DEF InOrder
        <5>6. n \in Int /\ Len(stack) \in Int /\ a \in Int /\ b \in Int
          BY <1>3
        <5> QED
          BY <5>1, <5>2, <5>5, <5>6
      <4> QED
        BY <1>7, <4>1 DEF Range
    <3>7. Arguments(stack, r.rhs, Range(args) \cup {list})
      BY <1>9, <3>1, <3>2, <3>3 DEF Arguments
    <3>8. H \ Popped(stack, n) = H \ (Range(args) \cup {list})
      BY <1>2, <1>3, <3>7, RestIs
    <3> QED
      BY <3>5, <3>6, <3>8
  <2> QED
    BY <2>1, <2>2
<1> HIDE DEF list
<1>11. /\ Done(Memory, H, args, "cell", longer.val, f)
       /\ list = NULL => longer.val \notin H
       /\ list # NULL => longer.val = list
  <2>1. MayAppend(Memory, H, args, list)
    BY <1>5, <1>7, <1>8, <1>10 DEF MayAppend
  <2> HIDE DEF H
  <2>2. Done(Memory, H, args, "cell", longer.val, f) /\ Appended(list, longer.val, H)
    BY <1>2, <2>1, AppendKeeps DEF Roomy
  <2> QED
    BY <2>2 DEF Appended
<1> HIDE DEF H, f, longer
<1>12. InOrder(f, stack', program)
  <2> DEFINE G == (H \ Range(args)) \ {list}
  <2>1. /\ Good(f, (H \ Range(args)) \cup {longer.val}) /\ longer.val \in Blocks
        /\ KindIn(f, longer.val) = "cell"
        /\ \A h \in H \ Range(args) : KindIn(f, h) = KindIn(Memory, h)
    BY <1>11 DEF Done
  <2>2. longer.val # NULL /\ longer.val \in Nat
    BY <2>1, SyntaxAssumption
  <2>3. G = HeldBy(stack, program) \ Popped(stack, n)
    BY <1>10 DEF H
  <2>4. (H \ Range(args)) \cup {longer.val} = G \cup ({longer.val} \ {NULL})
        /\ longer.val \notin G /\ G \subseteq H \ Range(args)
    BY <1>2, <1>10, <1>11, <2>2
  <2> HIDE DEF G
  <2>5. InOrder(f, Append(SubSeq(stack, 1, Len(stack) - n),
                          [sym |-> r.lhs, val |-> longer.val]), program)
    BY <1>2, <1>3, <1>5, <2>1, <2>2, <2>3, <2>4, PushKeeps
  <2> QED
    BY <1>4, <2>5
<1>13. Good(f, (H \ Range(args)) \cup {longer.val})
  BY <1>11 DEF Done
<1> QED
  BY <1>4, <1>12, <1>13, NowIs

\* What ends with the symbols rhs ends with all of them but the first.
LEMMA EndsTail ==
  ASSUME NEW m, NEW st, NEW p, InOrder(m, st, p), NEW rhs, Ends(st, rhs), NEW tail,
         Len(rhs) = Len(tail) + 1, Len(tail) \in Nat,
         \A i \in 1..Len(tail) : tail[i] = rhs[i + 1]
  PROVE  Ends(st, tail)
<1>1. Len(st) \in Nat /\ Len(tail) \in Nat /\ Len(rhs) \in 0..Len(st)
  BY OrderIs DEF Ends
<1>2. Len(tail) \in 0..Len(st)
  BY <1>1
<1>3. ASSUME NEW i \in 1..Len(tail)
      PROVE  Len(st) - Len(tail) + i \in DOMAIN st /\ st[Len(st) - Len(tail) + i].sym = tail[i]
  <2>1. i + 1 \in 1..Len(rhs) /\ Len(st) - Len(rhs) + (i + 1) = Len(st) - Len(tail) + i
    BY <1>1
  <2>2. Len(st) - Len(rhs) + (i + 1) \in DOMAIN st
        /\ st[Len(st) - Len(rhs) + (i + 1)].sym = rhs[i + 1]
    BY <2>1 DEF Ends
  <2> QED
    BY <2>1, <2>2
<1> QED
  BY <1>2, <1>3 DEF Ends

LEMMA EmptyLineStep ==
  ASSUME SyntaxInv, EmptyLine
  PROVE  SyntaxInv'
<1> DEFINE H == HeldBy(stack, program)
<1>1. InOrder(Memory, stack, program) /\ Good(Memory, H) /\ NULL \notin H
      /\ program \in Nat /\ KindIn(Memory, program) \in {"cell", "NULL"}
  BY OrderIs DEF SyntaxInv, InOrder
<1>2. PICK c : c = ";" /\ EndsWith([i \in DOMAIN stack |-> stack[i].sym], <<"input", c>>)
  BY Zenon DEF EmptyLine, Symbols
<1>3. Holds(c) = {"NULL"}
  <2>1. c \in Tokens /\ c \notin {"ident", "string"}
    BY <1>2 DEF Tokens
  <2> QED
    BY <2>1, TokensHold DEF SymbolNames
<1>4. Ends(stack, <<c>>)
  <2>1. PICK rhs : rhs = <<"input", c>>
    OBVIOUS
  <2>2. PICK tail : tail = <<c>>
    OBVIOUS
  <2>3. Len(rhs) = 2 /\ Len(tail) = 1 /\ \A i \in 1..1 : tail[i] = rhs[i + 1]
    BY <2>1, <2>2
  <2>4. EndsWith([i \in DOMAIN stack |-> stack[i].sym], rhs)
    BY <1>2, <2>1
  <2>5. Ends(stack, rhs)
    BY <1>1, <2>3, <2>4, EndsIs
  <2>6. Ends(stack, tail)
    <3>1. Len(rhs) = Len(tail) + 1 /\ Len(tail) \in Nat
          /\ \A i \in 1..Len(tail) : tail[i] = rhs[i + 1]
      BY <2>3
    <3> QED
      BY <1>1, <2>5, <3>1, EndsTail
  <2> QED
    BY <2>2, <2>6
<1>5. H \ Popped(stack, 1) = H /\ 1 \in 0..Len(stack)
  <2>1. PICK rhs : rhs = <<c>>
    OBVIOUS
  <2>2. Len(rhs) = 1 /\ rhs[1] = c /\ Ends(stack, rhs)
    BY <1>4, <2>1
  <2>3. Arguments(stack, rhs, {})
    BY <1>3, <2>2 DEF Arguments
  <2>4. H \ Popped(stack, Len(rhs)) = H \ {}
    BY <1>1, <2>2, <2>3, RestIs
  <2> QED
    BY <2>2, <2>4 DEF Ends
<1>6. IsNow(Memory) /\ program' = program /\ stack' = SubSeq(stack, 1, Len(stack) - 1)
  BY DEF EmptyLine, Under, IsNow, Memory
<1>7. IsBelow(stack, program, 1, stack')
  BY <1>1, <1>5, <1>6, PopIs
<1>8. HeldBy(stack', program) = H
  BY <1>5, <1>7 DEF IsBelow
<1>9. InOrder(Memory, stack', program)
  <2>1. Good(Memory, HeldBy(stack', program))
    BY <1>1, <1>8
  <2> HIDE DEF H
  <2> QED
    BY <1>1, <1>5, <1>7, <2>1, PopKeeps
<1> QED
  BY <1>1, <1>6, <1>9, NowIs

LEMMA StatementStep ==
  ASSUME Roomy, SyntaxInv, NEW end \in LineEnds, Statement(end)
  PROVE  SyntaxInv'
<1> DEFINE H == HeldBy(stack, program)
           a == stack[Len(stack) - 1].val
           longer == Link(Memory, "stmt", program, a)
           f == FreeAll(longer.mem, <<a>>)
<1>1. InOrder(Memory, stack, program) /\ Good(Memory, H) /\ NULL \notin H
      /\ program \in Nat /\ KindIn(Memory, program) \in {"cell", "NULL"}
  BY OrderIs DEF SyntaxInv, InOrder
<1>2. EndsWith([i \in DOMAIN stack |-> stack[i].sym], <<"input", "stmt", end>>)
      /\ Values(2)[1] = stack[Len(stack) - 2 + 1].val /\ Len(stack) \in Nat
  BY <1>1, OrderIs DEF Statement, Symbols, Values
<1>3. Holds(end) = {"NULL"}
  <2>1. end \in Tokens \cup {EndOfFile} /\ end \notin {"ident", "string"}
    BY DEF Tokens, LineEnds, EndOfFile
  <2> QED
    BY <2>1, TokensHold DEF SymbolNames
<1>4. PICK rhs : rhs = <<"stmt", end>>
  OBVIOUS
<1>5. Ends(stack, rhs) /\ Len(rhs) = 2 /\ rhs[1] = "stmt" /\ rhs[2] = end
  <2>1. PICK all : all = <<"input", "stmt", end>>
    OBVIOUS
  <2>2. Len(all) = 3 /\ Len(rhs) = 2 /\ \A i \in 1..2 : rhs[i] = all[i + 1]
    BY <1>4, <2>1
  <2>3. EndsWith([i \in DOMAIN stack |-> stack[i].sym], all)
    BY <1>2, <2>1
  <2>4. Ends(stack, all)
    BY <1>1, <2>2, <2>3, EndsIs
  <2>5. Ends(stack, rhs)
    <3>1. Len(all) = Len(rhs) + 1 /\ Len(rhs) \in Nat
          /\ \A i \in 1..Len(rhs) : rhs[i] = all[i + 1]
      BY <2>2
    <3> QED
      BY <1>1, <2>4, <3>1, EndsTail
  <2> QED
    BY <1>4, <2>5
<1>6. a = stack[Len(stack) - Len(rhs) + 1].val /\ 2 \in 0..Len(stack)
      /\ Len(stack) - 2 + 1 = Len(stack) - 1
  BY <1>2, <1>5 DEF Ends
<1>7. /\ IsNow(f) /\ program' = longer.val
      /\ stack' = SubSeq(stack, 1, Len(stack) - 2)
  BY <1>2, <1>6 DEF Statement, Under
<1> HIDE DEF a
<1>8. /\ a = NULL \/ a \in H
      /\ KindIn(Memory, a) \in Statements
      /\ a \in {stack[Len(stack) - Len(rhs) + i].val : i \in 1..Len(rhs)}
      /\ a # NULL => a # program
  <2>1. 1 \in 1..Len(rhs) /\ Holds(rhs[1]) = Statements
    BY <1>5, HoldsAre
  <2> HIDE DEF H
  <2>2. PICK j \in 1..Len(rhs) : j = 1 /\ a = stack[Len(stack) - Len(rhs) + j].val
    BY <1>6, <2>1
  <2>3. /\ a = NULL \/ a \in HeldBy(stack, program)
        /\ KindIn(Memory, a) \in Holds(rhs[j])
        /\ a \in {stack[Len(stack) - Len(rhs) + i].val : i \in 1..Len(rhs)}
        /\ a # NULL => a # program
    <3>1. Ends(stack, rhs)
      BY <1>5
    <3> QED
      BY <1>1, <2>2, <3>1, ValueIs
  <2> QED
    BY <2>1, <2>2, <2>3 DEF H
<1>9. H \ Popped(stack, 2) = H \ {a}
  <2>1. Arguments(stack, rhs, {a})
    <3>1. ASSUME NEW j \in 1..Len(rhs)
          PROVE  stack[Len(stack) - Len(rhs) + j].val \in {a} \/ Holds(rhs[j]) = {"NULL"}
      <4>1. j = 1 \/ j = 2
        BY <1>5
      <4> QED
        BY <1>3, <1>5, <1>6, <4>1
    <3> QED
      BY <1>8, <3>1 DEF Arguments
  <2>2. H \ Popped(stack, Len(rhs)) = H \ {a}
    <3>1. Ends(stack, rhs)
      BY <1>5
    <3> QED
      BY <1>1, <2>1, <3>1, RestIs
  <2> QED
    BY <1>5, <2>2
<1>10. Done(Memory, H, <<a>>, "cell", longer.val, f) /\ Appended(program, longer.val, H)
  <2>1. a # NULL /\ Listed(Memory, "stmt", a)
    <3>1. a # NULL
      BY <1>8 DEF KindIn, Statements
    <3> QED
      BY <1>8, <3>1 DEF Listed
  <2>2. program = NULL \/ (program \in H /\ program \in Cells(Memory))
    <3>1. program = NULL \/ program \in H
      BY <1>1, OrderIs
    <3>2. program # NULL => program \in Cells(Memory)
      BY <1>1, OrderIs DEF KindIn, Cells
    <3> QED
      BY <3>1, <3>2
  <2> HIDE DEF H
  <2> QED
    BY <1>1, <1>8, <2>1, <2>2, RoomIs, StatementKeeps
<1> HIDE DEF longer, f
<1>11. /\ Good(f, (H \ {a}) \cup {longer.val}) /\ longer.val \in Blocks
       /\ KindIn(f, longer.val) = "cell" /\ longer.val # NULL /\ longer.val \in Nat
       /\ \A h \in H \ {a} : KindIn(f, h) = KindIn(Memory, h)
  <2>1. Range(<<a>>) = {a}
    BY DEF Range
  <2> QED
    BY <1>10, <2>1, SyntaxAssumption DEF Done
<1>12. IsBelow(stack, program, 2, stack')
  BY <1>1, <1>6, <1>7, PopIs
<1>13. HeldBy(stack', longer.val) = (H \ {a}) \cup {longer.val}
  <2>1. HeldBy(stack', program) = H \ {a}
    BY <1>9, <1>12 DEF IsBelow
  <2>2. HeldBy(stack', longer.val) = (HeldBy(stack', program) \ {program}) \cup {longer.val}
        \/ HeldBy(stack', longer.val) = HeldBy(stack', program) \cup {longer.val}
    BY <1>11 DEF HeldBy
  <2>3. program = NULL \/ program = longer.val
    BY <1>10 DEF Appended
  <2> QED
    BY <1>11, <2>1, <2>3 DEF HeldBy
<1>14. InOrder(f, stack', longer.val)
  <2>1. Good(f, HeldBy(stack', longer.val))
    BY <1>11, <1>13
  <2>2. longer.val = program \/ longer.val \notin HeldBy(stack, program)
    BY <1>10 DEF Appended
  <2>3. \A h \in HeldBy(stack, program) \ Popped(stack, 2) : KindIn(f, h) = KindIn(Memory, h)
    BY <1>9, <1>11
  <2>4. KindIn(f, longer.val) \in {"cell", "NULL"}
    BY <1>11
  <2> HIDE DEF H
  <2> QED
    BY <1>1, <1>6, <1>11, <1>12, <2>1, <2>2, <2>3, <2>4, PopKeeps
<1> QED
  BY <1>7, <1>11, <1>14, NowIs

LEMMA TextIs ==
  ASSUME NEW m, NEW H, Good(m, H), Room(m, 1), NEW r, r = New(m, "text", <<>>)
  PROVE  Good(r.mem, H \cup {r.val}) /\ OneMore(m, "text", <<>>, r)
<1>1. PICK kids \in Seq(Nat) : kids = <<>>
  <2>1. <<>> \in Seq(Nat)
    OBVIOUS
  <2> QED
    BY <2>1, Zenon
<1>2. PICK kind \in Kinds : kind = "text"
  BY DEF Kinds
<1>3. Fields(kind) = <<>> /\ Len(kids) = Len(Fields(kind)) /\ DOMAIN Fields(kind) = {}
      /\ DOMAIN kids = {} /\ Range(kids) = {}
  <2>1. kind \notin Operators
    BY <1>2 DEF Operators
  <2>2. Fields(kind) = <<>>
    BY <1>2, <2>1 DEF Fields
  <2>3. DOMAIN kids = {} /\ Len(kids) = 0
    BY <1>1
  <2>4. Range(kids) = {}
    BY <2>3 DEF Range
  <2>5. DOMAIN Fields(kind) = {} /\ Len(Fields(kind)) = 0
    BY <2>2
  <2> QED
    BY <2>2, <2>3, <2>4, <2>5
<1>4. r = New(m, kind, kids)
  BY <1>1, <1>2
<1>5. Good(r.mem, (H \ Range(kids)) \cup {r.val}) /\ OneMore(m, kind, kids, r)
  BY <1>3, <1>4, NewKeeps
<1> QED
  BY <1>1, <1>2, <1>3, <1>5

LEMMA ShiftStep ==
  ASSUME Roomy, SyntaxInv, NEW t \in Tokens \cup {EndOfFile}, Shift(t)
  PROVE  SyntaxInv'
<1> DEFINE H == HeldBy(stack, program)
           text == New(Memory, "text", <<>>)
<1>1. InOrder(Memory, stack, program) /\ Good(Memory, H) /\ NULL \notin H
      /\ H \subseteq DOMAIN Memory.node
  BY OrderIs DEF SyntaxInv, InOrder
<1>2. t \in SymbolNames
  BY DEF SymbolNames
<1>3. 0 \in 0..Len(stack) /\ Popped(stack, 0) = {} /\ H \ Popped(stack, 0) = H
  <2>1. Len(stack) \in Nat
    BY <1>1, OrderIs
  <2>2. (Len(stack) - 0 + 1)..Len(stack) = {}
    BY <2>1
  <2> QED
    BY <2>1, <2>2 DEF Popped
<1>4. CASE t \in {"ident", "string"}
  <2>1. /\ IsNow(text.mem) /\ program' = program
        /\ stack' = Append(SubSeq(stack, 1, Len(stack) - 0), [sym |-> t, val |-> text.val])
    BY <1>4 DEF Shift, Put, Under
  <2>2. Good(text.mem, H \cup {text.val}) /\ OneMore(Memory, "text", <<>>, text)
    BY <1>1, RoomIs, TextIs
  <2> HIDE DEF text
  <2>3. /\ text.val \in Blocks /\ text.val # NULL /\ text.val \in Nat /\ text.val \notin H
        /\ KindIn(text.mem, text.val) = "text"
        /\ \A h \in H : KindIn(text.mem, h) = KindIn(Memory, h)
    <3>1. /\ text.val \in Blocks /\ text.val # NULL /\ text.val \notin DOMAIN Memory.node
          /\ KindIn(text.mem, text.val) = "text" /\ Extends(Memory, text.mem)
      BY <2>2 DEF OneMore, KindIn
    <3>2. \A h \in DOMAIN Memory.node : KindIn(text.mem, h) = KindIn(Memory, h)
      BY <3>1 DEF Extends, KindIn
    <3> QED
      BY <1>1, <3>1, <3>2, SyntaxAssumption
  <2>4. Good(text.mem, H \cup ({text.val} \ {NULL})) /\ KindIn(text.mem, text.val) \in Holds(t)
    <3>1. Holds(t) = {"text"}
      BY <1>4, HoldsAre
    <3>2. {text.val} \ {NULL} = {text.val}
      BY <2>3
    <3> QED
      BY <2>2, <2>3, <3>1, <3>2
  <2>5. H = HeldBy(stack, program) \ Popped(stack, 0)
    BY <1>3
  <2> HIDE DEF H
  <2>6. InOrder(text.mem, Append(SubSeq(stack, 1, Len(stack) - 0), [sym |-> t, val |-> text.val]),
                program)
    BY <1>1, <1>2, <1>3, <2>3, <2>4, <2>5, PushKeeps
  <2>7. InOrder(text.mem, stack', program')
    BY <2>1, <2>6
  <2> QED
    BY <2>1, <2>2, <2>7, NowIs
<1>5. CASE t \notin {"ident", "string"}
  <2>1. /\ IsNow(Memory) /\ program' = program
        /\ stack' = Append(SubSeq(stack, 1, Len(stack) - 0), [sym |-> t, val |-> NULL])
    BY <1>5 DEF Shift, Put, Under, IsNow, Memory
  <2>2. PICK v \in Nat : v = NULL
    BY DEF NULL
  <2>3. Holds(t) = {"NULL"} /\ KindIn(Memory, v) \in Holds(t)
    BY <1>2, <1>5, <2>2, TokensHold DEF KindIn
  <2>4. Good(Memory, H \cup ({v} \ {NULL})) /\ v \notin H
    BY <1>1, <2>2
  <2>5. H = HeldBy(stack, program) \ Popped(stack, 0)
    BY <1>3
  <2> HIDE DEF H
  <2>6. InOrder(Memory, Append(SubSeq(stack, 1, Len(stack) - 0), [sym |-> t, val |-> v]), program)
    BY <1>1, <1>2, <1>3, <2>3, <2>4, <2>5, PushKeeps
  <2>7. InOrder(Memory, stack', program')
    BY <2>1, <2>2, <2>6
  <2> QED
    BY <1>1, <2>1, <2>7, NowIs
<1> QED
  BY <1>4, <1>5

\* Blocks come and go, but those the stack and the program hold stay.
LEMMA SameOrder ==
  ASSUME NEW m, NEW st, NEW p, InOrder(m, st, p), NEW f, Good(f, HeldBy(st, p)),
         \A h \in HeldBy(st, p) : KindIn(f, h) = KindIn(m, h)
  PROVE  InOrder(f, st, p)
<1>1. KindIn(f, NULL) = KindIn(m, NULL)
  BY DEF KindIn
<1>2. \A i \in DOMAIN st : KindIn(f, st[i].val) = KindIn(m, st[i].val)
  BY <1>1, OrderIs
<1>3. KindIn(f, p) = KindIn(m, p)
  BY <1>1, OrderIs
<1> QED
  BY <1>2, <1>3 DEF InOrder

LEMMA OpenStringStep ==
  ASSUME Roomy, SyntaxInv, OpenString
  PROVE  SyntaxInv'
<1> DEFINE H == HeldBy(stack, program)
           text == New(Memory, "text", <<>>)
           buf == New(text.mem, "buffer", <<text.val>>)
           f == [node |-> buf.mem.node, lost |-> buf.mem.lost \cup {buf.val}]
<1>1. InOrder(Memory, stack, program) /\ Good(Memory, H) /\ NULL \notin H
      /\ H \subseteq DOMAIN Memory.node
  BY OrderIs DEF SyntaxInv, InOrder
<1>2. /\ node' = buf.mem.node /\ lost' = Memory.lost \cup {buf.val}
      /\ stack' = stack /\ program' = program
  BY DEF OpenString, Memory
<1>3. Good(text.mem, H \cup {text.val}) /\ OneMore(Memory, "text", <<>>, text)
  BY <1>1, RoomIs, TextIs
<1> HIDE DEF text
<1>4. Room(text.mem, 1)
  <2>1. WellFormed(Memory) /\ WellFormed(text.mem) /\ DOMAIN Memory.node \subseteq DOMAIN text.mem.node
        /\ Size(text.mem) = Size(Memory) + 1
    BY <1>1, <1>3 DEF Good, OneMore
  <2>2. Size(Memory) \in Nat /\ Size(text.mem) + 1 <= Size(Memory) + 2 /\ Size(Memory) <= Size(text.mem)
    BY <2>1, RoomIs
  <2> QED
    BY <2>1, <2>2, RoomIs, StillRoom
<1>5. Good(buf.mem, H \cup {buf.val}) /\ OneMore(text.mem, "buffer", <<text.val>>, buf)
  <2>1. text.val \in Nat /\ text.val \notin H /\ KindIn(text.mem, text.val) = "text"
    <3>1. text.val \in Blocks /\ text.val # NULL /\ text.val \notin DOMAIN Memory.node
          /\ KindIn(text.mem, text.val) = "text"
      BY <1>3 DEF OneMore, KindIn
    <3> QED
      BY <1>1, <3>1, SyntaxAssumption
  <2>2. PICK kids \in Seq(Nat) : kids = <<text.val>>
    <3>1. \A v \in Nat : <<v>> \in Seq(Nat)
      OBVIOUS
    <3> QED
      BY <2>1, <3>1, Zenon
  <2>3. PICK kind \in Kinds : kind = "buffer"
    BY DEF Kinds
  <2>4. Fields(kind) = <<{"text"}>>
    BY <2>3 DEF Fields, Operators
  <2>5. DOMAIN kids = 1..1 /\ Len(kids) = 1 /\ kids[1] = text.val /\ Range(kids) = {text.val}
    BY <2>2 DEF Range
  <2>6. DOMAIN Fields(kind) = 1..1 /\ Len(Fields(kind)) = 1 /\ Fields(kind)[1] = {"text"}
    BY <2>4
  <2> DEFINE G == H \cup {text.val}
  <2>7. /\ \A i \in DOMAIN Fields(kind) : KindIn(text.mem, kids[i]) \in Fields(kind)[i]
        /\ \A i \in DOMAIN kids : kids[i] = NULL \/ kids[i] \in G
        /\ \A i, j \in DOMAIN kids : kids[i] = kids[j] /\ kids[i] # NULL => i = j
        /\ Len(kids) = Len(Fields(kind))
    BY <2>1, <2>5, <2>6
  <2>8. buf = New(text.mem, kind, kids)
    BY <2>2, <2>3
  <2> HIDE DEF G, buf
  <2>9. Good(buf.mem, (G \ Range(kids)) \cup {buf.val}) /\ OneMore(text.mem, kind, kids, buf)
    BY <1>3, <1>4, <2>7, <2>8, NewKeeps DEF G
  <2>10. G \ Range(kids) = H
    BY <2>1, <2>5 DEF G
  <2> QED
    BY <2>2, <2>3, <2>9, <2>10
<1> HIDE DEF buf
<1>6. /\ buf.val \notin H /\ buf.mem.lost = Memory.lost
      /\ \A h \in H : KindIn(buf.mem, h) = KindIn(Memory, h)
  <2>1. Extends(Memory, text.mem) /\ Extends(text.mem, buf.mem)
        /\ buf.val \notin DOMAIN text.mem.node
    BY <1>3, <1>5 DEF OneMore
  <2> QED
    BY <1>1, <2>1 DEF Extends, KindIn
<1>7. Good(f, H)
  <2> DEFINE G == H \cup {buf.val}
  <2>1. Good(buf.mem, G) /\ buf.val \in G
    BY <1>5
  <2> HIDE DEF G, f
  <2>2. Good(f, G \ {buf.val})
    BY <2>1, LoseKeeps DEF f
  <2>3. G \ {buf.val} = H
    BY <1>6 DEF G
  <2> QED
    BY <2>2, <2>3
<1>8. \A h \in H : KindIn(f, h) = KindIn(Memory, h)
  BY <1>6 DEF KindIn
<1>9. IsNow(f)
  BY <1>2, <1>6 DEF IsNow
<1> HIDE DEF f
<1>10. InOrder(f, stack, program)
  BY <1>1, <1>7, <1>8, SameOrder
<1> QED
  BY <1>2, <1>7, <1>9, <1>10, NowIs

\* Everything can be come to from what is held or lost.
LEMMA AllReached ==
  ASSUME NEW m, NEW H, Good(m, H), NEW x
  PROVE  x \in DOMAIN m.node <=> \E a \in m.lost \cup H : x \in Tree(m, a)
<1> DEFINE D == DOMAIN m.node
           K == KidsOf(m)
           C == {y \in D : \E a \in m.lost \cup H : y \in Reached(K, a)}
<1>1. K \in [D -> SUBSET D] /\ Grounded(K) /\ m.lost \cup H \subseteq D
  BY KidsAre DEF Good, Owned, WellFormed
<1>2. \A a \in m.lost \cup H : Tree(m, a) = Reached(K, a)
  <2>1. \A a \in D : From(K, a) = Reached(K, a)
    BY <1>1, FromIs
  <2> QED
    BY <1>1, <2>1 DEF Tree
<1> HIDE DEF D, K
<1>3. \A a \in D : a \in Reached(K, a) /\ Reached(K, a) \subseteq D /\ ClosedUnder(K, Reached(K, a))
  BY <1>1, ReachedClosed
<1>4. m.lost \cup H \subseteq C /\ C \subseteq D
  BY <1>1, <1>3
<1>5. ClosedUnder(K, C)
  <2>1. ASSUME NEW b \in C, NEW c \in K[b] PROVE c \in C
    <3>1. PICK a \in m.lost \cup H : b \in Reached(K, a)
      OBVIOUS
    <3>2. c \in Reached(K, a)
      BY <1>1, <1>3, <3>1 DEF ClosedUnder
    <3>3. c \in D
      BY <1>1, <1>3, <3>2
    <3> QED
      BY <3>2, <3>3
  <2> QED
    BY <2>1 DEF ClosedUnder
<1>6. D \subseteq C
  <2> HIDE DEF C
  <2>1. C \in SUBSET DOMAIN m.node /\ ClosedUnder(KidsOf(m), C)
    BY <1>4, <1>5 DEF D, K
  <2> QED
    BY <1>4, <2>1 DEF D, Good, Owned
<1>7. x \in D <=> x \in C
  BY <1>4, <1>6
<1>8. x \in C <=> \E a \in m.lost \cup H : x \in Reached(K, a)
  BY <1>1, <1>3
<1> QED
  BY <1>2, <1>7, <1>8 DEF D

\* Nothing is in use.
LEMMA EmptyGood ==
  ASSUME NEW f, f = [node |-> f.node, lost |-> f.lost], DOMAIN f.node = {}, f.lost = {},
         f.node = [x \in DOMAIN f.node |-> f.node[x]]
  PROVE  Good(f, {})
<1>1. f.node \in [DOMAIN f.node -> [kind : Kinds, kids : Seq(Nat)]]
  BY Zenon
<1>2. IsFiniteSet(DOMAIN f.node)
  BY FS_EmptySet
<1>3. WellFormed(f)
  BY <1>1, <1>2 DEF WellFormed
<1>4. Grounded(KidsOf(f))
  BY DEF Grounded, KidsOf
<1>5. Owned(f, {})
  BY <1>4 DEF Owned
<1> QED
  BY <1>3, <1>5 DEF Good

\* The parser waits for a line.
LEMMA EmptyOrder ==
  ASSUME NEW f, NEW q \in Nat, Good(f, {q} \ {NULL}), KindIn(f, q) \in {"cell", "NULL"}
  PROVE  InOrder(f, <<>>, q)
<1>1. PICK st : st = <<>>
  OBVIOUS
<1>2. st \in Seq([sym : SymbolNames, val : Nat]) /\ DOMAIN st = {}
  <2> DEFINE R == [sym : SymbolNames, val : Nat]
  <2> HIDE DEF R
  <2>1. st \in Seq(R) /\ DOMAIN st = {}
    BY <1>1
  <2> QED
    BY <2>1 DEF R
<1>3. HeldBy(st, q) = {q} \ {NULL}
  BY <1>2 DEF HeldBy
<1>4. InOrder(f, st, q)
  BY <1>2, <1>3 DEF InOrder
<1> QED
  BY <1>1, <1>4

LEMMA InitIs ==
  ASSUME Init
  PROVE  SyntaxInv
<1>1. /\ Memory.node = node /\ Memory.lost = lost
      /\ Memory = [node |-> Memory.node, lost |-> Memory.lost]
  BY DEF Memory
<1>2. DOMAIN node = {} /\ node = [x \in DOMAIN node |-> node[x]] /\ lost = {}
      /\ stack = <<>> /\ program = NULL
  BY DEF Init
<1>3. Good(Memory, {})
  BY <1>1, <1>2, EmptyGood
<1>4. program \in Nat /\ {program} \ {NULL} = {} /\ KindIn(Memory, program) = "NULL"
  BY <1>2 DEF NULL, KindIn
<1>5. Good(Memory, {program} \ {NULL})
  BY <1>3, <1>4
<1>6. InOrder(Memory, <<>>, program)
  BY <1>4, <1>5, EmptyOrder
<1> QED
  BY <1>2, <1>6 DEF SyntaxInv

LEMMA AcceptStep ==
  ASSUME SyntaxInv, Accept
  PROVE  SyntaxInv'
<1>1. InOrder(Memory, stack, program) /\ Good(Memory, HeldBy(stack, program))
      /\ program \in Nat /\ KindIn(Memory, program) \in {"cell", "NULL"}
  BY DEF SyntaxInv, InOrder
<1>2. IsNow(Memory) /\ program' = program /\ stack' = <<>> /\ Symbols = <<"input">>
  BY DEF Accept, IsNow, Memory
<1>3. HeldBy(stack, program) = {program} \ {NULL}
  <2>1. \A i \in DOMAIN stack : stack[i].val = NULL
    <3>1. DOMAIN Symbols = DOMAIN stack /\ \A i \in DOMAIN stack : stack[i].sym = "input"
      <4>1. DOMAIN Symbols = DOMAIN stack /\ \A i \in DOMAIN stack : stack[i].sym = Symbols[i]
        BY DEF Symbols
      <4> QED
        BY <1>2, <4>1
    <3>2. Holds("input") = {"NULL"}
      BY HoldsAre DEF SymbolNames
    <3>3. \A i \in DOMAIN stack : KindIn(Memory, stack[i].val) \in Holds(stack[i].sym)
      BY <1>1 DEF InOrder
    <3>4. \A x : KindIn(Memory, x) = "NULL" => x = NULL
      BY <1>1, OrderIs
    <3> QED
      BY <3>1, <3>2, <3>3, <3>4
  <2> QED
    BY <2>1 DEF HeldBy
<1>4. InOrder(Memory, <<>>, program)
  <2>1. Good(Memory, {program} \ {NULL})
    BY <1>1, <1>3
  <2> QED
    BY <1>1, <2>1, EmptyOrder
<1>5. InOrder(Memory, stack', program')
  BY <1>2, <1>4
<1> QED
  BY <1>1, <1>2, <1>5, NowIs

LEMMA RunStep ==
  ASSUME SyntaxInv, Run
  PROVE  SyntaxInv'
<1> DEFINE f == FreeAll(Memory, <<program>>)
<1>1. InOrder(Memory, stack, program) /\ Good(Memory, HeldBy(stack, program))
  BY DEF SyntaxInv, InOrder
<1>2. IsNow(f) /\ program' = NULL /\ stack' = <<>> /\ stack = <<>> /\ program # NULL
  BY DEF Run
<1>3. HeldBy(stack, program) = {program}
  <2>1. DOMAIN stack = {}
    BY <1>2
  <2> QED
    BY <1>2, <2>1 DEF HeldBy
<1>4. Good(f, {})
  <2>1. PICK vals : vals = <<program>>
    OBVIOUS
  <2>2. Range(vals) = {program}
    BY <2>1 DEF Range
  <2> DEFINE H == {program}
  <2>3. Good(Memory, H) /\ Range(vals) \subseteq H \cup {NULL} /\ H \ Range(vals) = {}
    BY <1>1, <1>3, <2>2
  <2>4. f = FreeAll(Memory, vals)
    BY <2>1
  <2> HIDE DEF H, f
  <2>5. Good(f, H \ Range(vals))
    BY <2>3, <2>4, FreeKeeps
  <2> QED
    BY <2>3, <2>5
<1> HIDE DEF f
<1>5. InOrder(f, <<>>, NULL)
  <2>1. NULL \in Nat /\ {NULL} \ {NULL} = {} /\ KindIn(f, NULL) = "NULL"
    BY DEF NULL, KindIn
  <2>2. Good(f, {NULL} \ {NULL})
    BY <1>4, <2>1
  <2> QED
    BY <2>1, <2>2, EmptyOrder
<1>6. InOrder(f, stack', program')
  BY <1>2, <1>5
<1> QED
  BY <1>2, <1>4, <1>6, NowIs

LEMMA SyntaxErrorStep ==
  ASSUME SyntaxInv, SyntaxError
  PROVE  SyntaxInv'
<1> DEFINE H == HeldBy(stack, program)
           all == [i \in DOMAIN stack |-> stack[i].val]
           vals == Append(all, program)
           f == FreeAll(Memory, vals)
<1>1. /\ InOrder(Memory, stack, program) /\ Good(Memory, H) /\ program \in Nat
      /\ Len(stack) \in Nat /\ DOMAIN stack = 1..Len(stack)
      /\ \A i \in DOMAIN stack : stack[i].val \in Nat /\ (stack[i].val = NULL \/ stack[i].val \in H)
      /\ program = NULL \/ program \in H
  BY OrderIs DEF SyntaxInv, InOrder
<1>2. IsNow(f) /\ stack' = <<>> /\ program' = NULL
  BY DEF SyntaxError
<1>3. /\ DOMAIN vals = 1..(Len(stack) + 1) /\ vals[Len(stack) + 1] = program
      /\ \A i \in DOMAIN stack : vals[i] = stack[i].val
  <2>1. all \in Seq(Nat) /\ Len(all) = Len(stack) /\ \A i \in DOMAIN stack : all[i] = stack[i].val
    BY <1>1
  <2> HIDE DEF all
  <2> QED
    BY <1>1, <2>1
<1> HIDE DEF vals
<1>4. \A i \in 1..(Len(stack) + 1) : i \in DOMAIN stack \/ i = Len(stack) + 1
  BY <1>1
<1>5. \A i \in DOMAIN stack : i \in DOMAIN vals
  BY <1>1, <1>3
<1>6. Range(vals) \subseteq H \cup {NULL}
  BY <1>1, <1>3, <1>4 DEF Range
<1>7. H \ Range(vals) = {}
  <2>1. Len(stack) + 1 \in DOMAIN vals
    BY <1>1, <1>3
  <2>2. program \in Range(vals) /\ \A i \in DOMAIN stack : stack[i].val \in Range(vals)
    BY <1>3, <1>5, <2>1 DEF Range
  <2> QED
    BY <2>2 DEF HeldBy
<1> HIDE DEF H
<1>8. Good(f, {})
  <2> HIDE DEF f
  <2>1. Good(f, H \ Range(vals))
    BY <1>1, <1>6, FreeKeeps DEF f
  <2> QED
    BY <1>7, <2>1
<1> HIDE DEF f
<1>9. InOrder(f, <<>>, NULL)
  <2>1. NULL \in Nat /\ {NULL} \ {NULL} = {} /\ KindIn(f, NULL) = "NULL"
    BY DEF NULL, KindIn
  <2>2. Good(f, {NULL} \ {NULL})
    BY <1>8, <2>1
  <2> QED
    BY <2>1, <2>2, EmptyOrder
<1>10. InOrder(f, stack', program')
  BY <1>2, <1>9
<1> QED
  BY <1>2, <1>8, <1>10, NowIs

LEMMA PromptStep ==
  ASSUME SyntaxInv, Prompt
  PROVE  SyntaxInv'
<1> DEFINE f == [node |-> node', lost |-> lost']
           U == UNION {Tree(Memory, a) : a \in lost}
<1>1. InOrder(Memory, stack, program) /\ Good(Memory, HeldBy(stack, program))
  BY DEF SyntaxInv, InOrder
<1>2. /\ stack = <<>> /\ program = NULL /\ lost' = {} /\ program' = NULL
      /\ stack' = <<[sym |-> "input", val |-> NULL]>>
      /\ node' = Restrict(node, DOMAIN node \ U)
  BY DEF Prompt
<1>3. HeldBy(stack, program) = {}
  BY <1>2 DEF HeldBy
<1>4. DOMAIN node \subseteq U
  <2>1. ASSUME NEW x \in DOMAIN node PROVE x \in U
    <3>1. Memory.node = node /\ Memory.lost = lost
      BY DEF Memory
    <3>2. PICK a \in lost : x \in Tree(Memory, a)
      BY <1>1, <1>3, <3>1, AllReached
    <3> QED
      BY <3>2
  <2> QED
    BY <2>1
<1> HIDE DEF U
<1>5. DOMAIN node' = {} /\ node' = [x \in DOMAIN node' |-> node'[x]]
  BY <1>2, <1>4 DEF Restrict
<1>6. IsNow(f) /\ f.node = node' /\ f.lost = lost'
  BY DEF IsNow
<1>7. f = [node |-> f.node, lost |-> f.lost]
  BY <1>6
<1> HIDE DEF f
<1>8. Good(f, {})
  BY <1>2, <1>5, <1>6, <1>7, EmptyGood
<1>9. InOrder(f, stack', program')
  <2>1. PICK st : st = stack'
    OBVIOUS
  <2>2. /\ st \in Seq([sym : SymbolNames, val : Nat]) /\ DOMAIN st = 1..1
        /\ st[1].val = NULL /\ st[1].sym = "input"
    <3> DEFINE R == [sym : SymbolNames, val : Nat]
    <3>1. PICK top \in R : top = [sym |-> "input", val |-> NULL]
      BY DEF NULL, SymbolNames
    <3> HIDE DEF R
    <3>2. st = <<top>>
      BY <1>2, <2>1, <3>1
    <3>3. st \in Seq(R) /\ DOMAIN st = 1..1 /\ st[1] = top
      BY <3>2
    <3> QED
      BY <3>1, <3>3 DEF R
  <2>3. HeldBy(st, NULL) = {}
    BY <2>2 DEF HeldBy
  <2>4. Holds("input") = {"NULL"} /\ KindIn(f, NULL) = "NULL" /\ NULL \in Nat
    BY HoldsAre DEF SymbolNames, KindIn, NULL
  <2>5. InOrder(f, st, NULL)
    BY <1>8, <2>2, <2>3, <2>4 DEF InOrder
  <2> QED
    BY <1>2, <2>1, <2>5
<1> QED
  BY <1>6, <1>8, <1>9, NowIs

-----------------------------------------------------------------------------
(* The theorems *)

LEMMA SyntaxStep ==
  ASSUME Roomy, SyntaxInv, [Next]_vars
  PROVE  SyntaxInv'
<1>1. CASE Prompt
  BY <1>1, PromptStep
<1>2. CASE \E t \in Tokens \cup {EndOfFile} : Shift(t)
  BY <1>2, ShiftStep
<1>3. CASE OpenString
  BY <1>3, OpenStringStep
<1>4. CASE \E r \in MakeRules : Make(r)
  BY <1>4, MakeStep
<1>5. CASE \E r \in HandRules : Hand(r)
  BY <1>5, HandStep
<1>6. CASE \E r \in AppendRules : AppendTo(r)
  BY <1>6, AppendStep
<1>7. CASE EmptyLine
  BY <1>7, EmptyLineStep
<1>8. CASE \E end \in LineEnds : Statement(end)
  BY <1>8, StatementStep
<1>9. CASE Accept
  BY <1>9, AcceptStep
<1>10. CASE SyntaxError
  BY <1>10, SyntaxErrorStep
<1>11. CASE Run
  BY <1>11, RunStep
<1>12. CASE UNCHANGED vars
  <2>1. Memory' = Memory /\ stack' = stack /\ program' = program
    BY <1>12 DEF vars, Memory
  <2> QED
    BY <2>1 DEF SyntaxInv
<1> QED
  BY <1>1, <1>2, <1>3, <1>4, <1>5, <1>6, <1>7, <1>8, <1>9, <1>10, <1>11, <1>12 DEF Next, Parse

\* As long as the heap has room the memory is in good order: what the constructors
\* of ast.c take for granted of their arguments they leave to the next, through
\* every rule of parse.y, every run of a line and every syntax error.
THEOREM SyntaxInvariant == Spec /\ []Roomy => []SyntaxInv
<1>1. Init => SyntaxInv
  BY InitIs
<1>2. Roomy /\ SyntaxInv /\ [Next]_vars => SyntaxInv'
  BY SyntaxStep
<1> QED
  BY <1>1, <1>2, PTL DEF Spec

LEMMA TypesFollow ==
  ASSUME SyntaxInv
  PROVE  SyntaxTypeOK
<1>1. /\ InOrder(Memory, stack, program) /\ WellFormed(Memory)
      /\ Memory.node = node /\ Memory.lost = lost
  BY DEF SyntaxInv, InOrder, Good, Memory
<1>2. \A x : KindOf(x) = KindIn(Memory, x)
  BY <1>1 DEF KindOf, KindIn
<1>3. /\ DOMAIN node \subseteq Blocks /\ lost \subseteq DOMAIN node
      /\ \A a \in DOMAIN node :
           LET f == Fields(node[a].kind) IN
           /\ Len(node[a].kids) = Len(f)
           /\ \A i \in DOMAIN f : KindIn(Memory, node[a].kids[i]) \in f[i]
  BY <1>1 DEF WellFormed
<1>4. /\ \A i \in DOMAIN stack : KindIn(Memory, stack[i].val) \in Holds(stack[i].sym)
      /\ KindIn(Memory, program) \in {"cell", "NULL"}
  BY <1>1 DEF InOrder
<1> QED
  BY <1>2, <1>3, <1>4 DEF SyntaxTypeOK

\* What the pointers point to.
LEMMA PointersAre ==
  ASSUME NEW p \in Pointers
  PROVE  \/ \E a \in DOMAIN node : \E i \in 1..2 :
              /\ p = <<"field", a, i>>
              /\ Target(p) = IF i \in DOMAIN node[a].kids THEN node[a].kids[i] ELSE NULL
         \/ \E i \in DOMAIN stack : p = <<"stack", i>> /\ Target(p) = stack[i].val
         \/ p = <<"program">> /\ Target(p) = program
<1>1. CASE \E a \in DOMAIN node, i \in 1..2 : p = <<"field", a, i>>
  <2>1. PICK a \in DOMAIN node, i \in 1..2 : p = <<"field", a, i>>
    BY <1>1
  <2>2. p[1] = "field" /\ p[2] = a /\ p[3] = i
    BY <2>1
  <2> QED
    BY <2>1, <2>2 DEF Target
<1>2. CASE \E i \in DOMAIN stack : p = <<"stack", i>>
  <2>1. PICK i \in DOMAIN stack : p = <<"stack", i>>
    BY <1>2
  <2>2. p[1] = "stack" /\ p[2] = i
    BY <2>1
  <2> QED
    BY <2>1, <2>2 DEF Target
<1>3. CASE p = <<"program">>
  <2>1. p[1] = "program"
    BY <1>3
  <2> QED
    BY <1>3, <2>1 DEF Target
<1>4. \/ \E a \in DOMAIN node, i \in 1..2 : p = <<"field", a, i>>
      \/ \E i \in DOMAIN stack : p = <<"stack", i>>
      \/ p = <<"program">>
  BY DEF Pointers
<1> QED
  BY <1>1, <1>2, <1>3, <1>4

LEMMA OwnersFollow ==
  ASSUME SyntaxInv
  PROVE  OneOwner
<1> DEFINE H == HeldBy(stack, program)
<1>1. /\ InOrder(Memory, stack, program) /\ Good(Memory, H)
      /\ Memory.node = node /\ Memory.lost = lost
  <2>1. InOrder(Memory, stack, program) /\ Good(Memory, H)
    BY DEF SyntaxInv, InOrder
  <2>2. Memory.node = node /\ Memory.lost = lost
    BY DEF Memory
  <2> QED
    BY <2>1, <2>2
<1>2. /\ \A a \in DOMAIN node : \A i \in DOMAIN node[a].kids : node[a].kids[i] \notin H \cup lost
      /\ \A a, b \in DOMAIN node :
           \A i \in DOMAIN node[a].kids, j \in DOMAIN node[b].kids :
             node[a].kids[i] = node[b].kids[j] /\ node[a].kids[i] # NULL => a = b /\ i = j
      /\ H \cap lost = {} /\ NULL \notin lost
  <2> DEFINE m == Memory
  <2>1. Owned(m, H) /\ NULL \notin DOMAIN node /\ lost \subseteq DOMAIN node
        /\ m.node = node /\ m.lost = lost
    BY <1>1, SyntaxAssumption DEF Good, WellFormed
  <2> HIDE DEF H, m
  <2>2. H \cap m.lost = {} /\ \A a \in DOMAIN m.node : \A i \in DOMAIN m.node[a].kids :
                               m.node[a].kids[i] \notin H \cup m.lost
    BY <2>1 DEF Owned
  <2>3. \A a, b \in DOMAIN m.node :
          \A i \in DOMAIN m.node[a].kids, j \in DOMAIN m.node[b].kids :
            m.node[a].kids[i] = m.node[b].kids[j] /\ m.node[a].kids[i] # NULL => a = b /\ i = j
    BY <2>1 DEF Owned
  <2> QED
    BY <2>1, <2>2, <2>3
<1>3. /\ \A i, j \in DOMAIN stack : stack[i].val = stack[j].val /\ stack[i].val # NULL => i = j
      /\ \A i \in DOMAIN stack : stack[i].val # NULL => stack[i].val # program
      /\ \A i \in DOMAIN stack : stack[i].val = NULL \/ stack[i].val \in H
      /\ program = NULL \/ program \in H
  BY <1>1, OrderIs DEF InOrder
<1>4. \A p \in Pointers : Target(p) \notin lost
  BY <1>2, <1>3, PointersAre
<1>5. ASSUME NEW p \in Pointers, NEW q \in Pointers, Target(p) = Target(q), Target(p) # NULL
      PROVE  p = q
  BY <1>2, <1>3, <1>5, PointersAre
<1>6. DOMAIN node = UNION {Tree(Memory, a) :
                             a \in lost \cup {program} \cup {stack[i].val : i \in DOMAIN stack}}
  <2>1. Tree(Memory, NULL) = {}
    <3>1. NULL \notin DOMAIN KidsOf(Memory)
      BY <1>1, OrderIs DEF KidsOf
    <3> QED
      BY <3>1 DEF Tree, From
  <2>2. /\ lost \cup {program} \cup {stack[i].val : i \in DOMAIN stack}
             \subseteq lost \cup H \cup {NULL}
        /\ lost \cup H \subseteq lost \cup {program} \cup {stack[i].val : i \in DOMAIN stack}
    BY <1>3 DEF HeldBy
  <2> DEFINE A == lost \cup {program} \cup {stack[i].val : i \in DOMAIN stack}
  <2> HIDE DEF H
  <2>3. ASSUME NEW x PROVE x \in DOMAIN node <=> \E a \in lost \cup H : x \in Tree(Memory, a)
    BY <1>1, AllReached
  <2>4. ASSUME NEW x PROVE x \in DOMAIN node <=> \E a \in A : x \in Tree(Memory, a)
    BY <2>1, <2>2, <2>3
  <2> HIDE DEF A
  <2>5. DOMAIN node = UNION {Tree(Memory, a) : a \in A}
    BY <2>4, Zenon
  <2> QED
    BY <2>5 DEF A
<1> QED
  BY <1>4, <1>5, <1>6 DEF OneOwner

\* Every pointer leads to a structure of the type of its field, in a block that
\* was not freed: as long as the heap has room, however long the lines are,
\* however deep their expressions and wherever they stop being a program.
THEOREM SyntaxTypes == Spec /\ []Roomy => []SyntaxTypeOK
<1>1. SyntaxInv => SyntaxTypeOK
  BY TypesFollow
<1> QED
  BY <1>1, SyntaxInvariant, PTL

\* A block is freed once, by the one that points to it: no two structures of
\* ast.c, values of parse.y's stack or the statements of the program share one,
\* and but for the parts of attribute expressions and the buffers of strings
\* left open, all that is in use will be freed.  The heap has room.
THEOREM OneOwnerHolds == Spec /\ []Roomy => []OneOwner
<1>1. SyntaxInv => OneOwner
  BY OwnersFollow
<1> QED
  BY <1>1, SyntaxInvariant, PTL

-----------------------------------------------------------------------------
(* Values: the words of an int *)

LEMMA Widths == Half \in Nat \ {0} /\ 2 * Half \in Nat \ {0}
BY ValuesAssumption

\* What an int holds of a number differs from it by a multiple of all words.
LEMMA IntKeepsResidue ==
  ASSUME NEW z \in Int
  PROVE  Int32(z) \in Int /\ Int32(z) % Half = z % Half
<1> DEFINE w == z % (2 * Half)
           q == z \div (2 * Half)
           r == z % Half
           c == z \div Half
<1>1. w \in 0..((2 * Half) - 1) /\ q \in Int /\ z = ((2 * Half) * q) + w
  BY Widths, Division
<1>2. Int32(z) \in Int /\ Int32(z) = IF w < Half THEN w ELSE w - (2 * Half)
  BY <1>1, Widths DEF Int32
<1>3. r \in 0..(Half - 1) /\ c \in Int /\ z = (Half * c) + r
  BY Widths, Division
<1> HIDE DEF w, q, r, c
<1>4. PICK d \in Int : Int32(z) = (Half * d) + r
  <2>1. (2 * Half) * q = Half * (2 * q) /\ 2 * q \in Int
    BY <1>1, Widths
  <2>2. w = (Half * (c - (2 * q))) + r
    <3>1. Half * (c - (2 * q)) = (Half * c) - (Half * (2 * q))
      BY <1>1, <1>3, Widths
    <3>2. Half * c \in Int /\ Half * (2 * q) \in Int
      BY <1>3, <2>1, Widths, Product
    <3> QED
      BY <1>1, <1>3, <2>1, <3>1, <3>2
  <2>3. w - (2 * Half) = (Half * ((c - (2 * q)) - 2)) + r
    <3>1. Half * ((c - (2 * q)) - 2) = (Half * (c - (2 * q))) - (2 * Half)
      BY <1>1, <1>3, Widths
    <3>2. Half * (c - (2 * q)) \in Int
      BY <1>3, <2>1, Widths, Product
    <3> QED
      BY <1>1, <1>3, <2>2, <3>1, <3>2, Widths
  <2>4. c - (2 * q) \in Int /\ (c - (2 * q)) - 2 \in Int
    BY <1>1, <1>3
  <2> QED
    BY <1>2, <2>2, <2>3, <2>4
<1>5. Int32(z) % Half = r
  <2>1. Half \in Nat \ {0} /\ Int32(z) \in Int
    BY <1>2, Widths
  <2> QED
    BY ZenonT(60), <1>3, <1>4, <2>1, OneResidue
<1> QED
  BY <1>2, <1>5 DEF r

\* A number below Half is its own residue.
LEMMA Small == ASSUME NEW n \in 0..(Half - 1) PROVE n % Half = n
<1>1. n \in Int /\ 0 \in Int /\ n = (Half * 0) + n
  BY Widths
<1> QED
  BY <1>1, Widths, OneResidue

\* val_number and VAL_NUMBER (program.h 11, program.c val_number): the number in
\* the word made of any integer is its residue modulo Half; a small number comes
\* back as it is, a negative one as a large one.
THEOREM NumberIsResidue ==
  ASSUME NEW z \in Int
  PROVE  /\ IsNumber(Number(z)) /\ NumberOf(Number(z)) = z % Half
         /\ IsNumber(Number(Int32(z))) /\ NumberOf(Number(Int32(z))) = z % Half
<1>1. ASSUME NEW n \in Int
      PROVE  IsNumber(Number(n)) /\ NumberOf(Number(n)) = n % Half
  <2> DEFINE r == n % Half
             q == n \div Half
  <2>1. r \in 0..(Half - 1) /\ q \in Int /\ n = (Half * q) + r
    BY Widths, Division
  <2> HIDE DEF r, q
  <2>2. 2 * n = ((2 * Half) * q) + (2 * r)
    <3>1. (2 * Half) * q = 2 * (Half * q) /\ Half * q \in Int
      BY <2>1, Widths, Product
    <3> QED
      BY <2>1, <3>1
  <2>3. 2 * n \in Int /\ 2 * r \in 0..((2 * Half) - 1)
    BY <2>1, Widths
  <2>4. Number(n) = (2 * r) + 1
    BY <2>1, <2>2, <2>3, Widths, OneResidue DEF Number
  <2>5. ((2 * r) + 1) % 2 = 1 /\ ((2 * r) + 1) \div 2 = r
    BY <2>1, Widths
  <2> QED
    BY <2>4, <2>5 DEF IsNumber, NumberOf, r
<1> QED
  BY <1>1, IntKeepsResidue

-----------------------------------------------------------------------------
\* x to the n, exactly.
Power(x) ==
  LET p[n \in Nat] == IF n = 0 THEN 1 ELSE p[n - 1] * x IN p

LEMMA PowerDef ==
  ASSUME NEW x \in Int
  PROVE  /\ Power(x) \in [Nat -> Int]
         /\ Power(x)[0] = 1 /\ \A n \in Nat \ {0} : Power(x)[n] = Power(x)[n - 1] * x
<1> DEFINE G == [a \in Int \X Nat |-> a[1] * x]
           Body(f) == [n \in Nat |-> IF n = 0 THEN 1 ELSE f[n - 1] * x]
<1>1. G \in [Int \X Nat -> Int]
  BY Product
<1>2. PICK f : IsRecursive(f, Int, 1, G)
  <2> HIDE DEF G
  <2> QED
    BY <1>1, RecursionOnNat
<1>3. f = Body(f)
  <2>1. ASSUME NEW n \in Nat PROVE f[n] = Body(f)[n]
    <3>1. CASE n = 0
      BY <1>2, <3>1 DEF IsRecursive
    <3>2. CASE n # 0
      <4>1. f[n] = G[<<f[n - 1], n>>]
        BY <1>2, <3>2 DEF IsRecursive
      <4>2. f[n - 1] \in Int
        BY <1>2, <3>2 DEF IsRecursive
      <4> QED
        BY <3>2, <4>1, <4>2
    <3> QED
      BY <3>1, <3>2
  <2> QED
    BY <1>2, <2>1 DEF IsRecursive
<1> HIDE DEF G, Body
<1>4. Power(x) = Body(Power(x))
  <2>1. Power(x) = CHOOSE g : g = Body(g)
    BY DEF Power, Body
  <2> HIDE DEF Power
  <2> QED
    BY <1>3, <2>1
<1> DEFINE p == Power(x)
<1>5. /\ p = [n \in Nat |-> p[n]]
      /\ p[0] = 1 /\ \A n \in Nat \ {0} : p[n] = p[n - 1] * x
  <2> HIDE DEF p
  <2> QED
    BY <1>4 DEF Body, p
<1>6. \A n \in Nat : p[n] \in Int
  <2> DEFINE S == {n \in Nat : p[n] \in Int}
  <2> HIDE DEF p
  <2>1. 0 \in S
    BY <1>5
  <2>2. ASSUME NEW n \in Nat, n \in S PROVE n + 1 \in S
    <3>1. n + 1 \in Nat \ {0} /\ (n + 1) - 1 = n
      OBVIOUS
    <3>2. p[n + 1] = p[n] * x
      BY <1>5, <3>1
    <3> QED
      BY <2>2, <3>2, Product
  <2> HIDE DEF S
  <2>3. Nat \subseteq S
    BY <2>1, <2>2, UpTo
  <2> QED
    BY <2>3 DEF S
<1> HIDE DEF p
<1>7. p \in [Nat -> Int]
  BY <1>5, <1>6
<1> QED
  BY <1>5, <1>7 DEF p

\* The loop of powi.
PowiLoop(x) ==
  LET r[n \in Nat] == IF n <= 1 THEN x ELSE Int32(r[n - 1] * x) IN r

LEMMA PowiLoopDef ==
  ASSUME NEW x \in Int
  PROVE  /\ PowiLoop(x) \in [Nat -> Int] /\ PowiLoop(x)[1] = x
         /\ \A n \in Nat : n > 1 => PowiLoop(x)[n] = Int32(PowiLoop(x)[n - 1] * x)
<1> DEFINE G == [a \in Int \X Nat |-> IF a[2] <= 1 THEN x ELSE Int32(a[1] * x)]
           Body(f) == [n \in Nat |-> IF n <= 1 THEN x ELSE Int32(f[n - 1] * x)]
<1>1. G \in [Int \X Nat -> Int]
  <2>1. ASSUME NEW a \in Int \X Nat PROVE G[a] \in Int
    <3>1. a[1] * x \in Int
      BY Product
    <3> QED
      BY <3>1, IntKeepsResidue
  <2> QED
    BY <2>1
<1>2. PICK f : IsRecursive(f, Int, x, G)
  BY <1>1, RecursionOnNat
<1>3. f = Body(f)
  <2>1. ASSUME NEW n \in Nat PROVE f[n] = Body(f)[n]
    <3>1. CASE n = 0
      BY <1>2, <3>1 DEF IsRecursive
    <3>2. CASE n # 0
      <4>1. f[n] = G[<<f[n - 1], n>>]
        BY <1>2, <3>2 DEF IsRecursive
      <4>2. f[n - 1] \in Int
        BY <1>2, <3>2 DEF IsRecursive
      <4> QED
        BY <4>1, <4>2
    <3> QED
      BY <3>1, <3>2
  <2> QED
    BY <1>2, <2>1 DEF IsRecursive
<1> HIDE DEF G
<1>4. PowiLoop(x) = Body(PowiLoop(x))
  <2>1. PowiLoop(x) = CHOOSE g : g = Body(g)
    BY DEF PowiLoop
  <2> HIDE DEF Body
  <2> QED
    BY <1>3, <2>1
<1> DEFINE p == PowiLoop(x)
<1>5. /\ p = [n \in Nat |-> p[n]]
      /\ p[0] = x /\ p[1] = x /\ \A n \in Nat : n > 1 => p[n] = Int32(p[n - 1] * x)
  <2>1. p = Body(p)
    BY <1>4
  <2> HIDE DEF p
  <2> QED
    BY <2>1
<1> HIDE DEF Body
<1>6. \A n \in Nat : p[n] \in Int
  <2> DEFINE S == {n \in Nat : p[n] \in Int}
  <2> HIDE DEF p
  <2>1. 0 \in S
    BY <1>5
  <2>2. ASSUME NEW n \in Nat, n \in S PROVE n + 1 \in S
    <3>1. n + 1 > 1 => p[n + 1] = Int32(p[n] * x)
      BY <1>5
    <3>2. Int32(p[n] * x) \in Int
      BY <2>2, Product, IntKeepsResidue
    <3>3. ~(n + 1 > 1) => p[n + 1] = x
      BY <1>5
    <3> QED
      BY <3>1, <3>2, <3>3
  <2> HIDE DEF S
  <2>3. Nat \subseteq S
    BY <2>1, <2>2, UpTo
  <2> QED
    BY <2>3 DEF S
<1> HIDE DEF p
<1>7. p \in [Nat -> Int]
  BY <1>5, <1>6
<1> QED
  BY <1>5, <1>7 DEF p

LEMMA PowiIsLoop ==
  ASSUME NEW x, NEW y
  PROVE  Powi(x, y) = IF y <= 0 THEN 1 ELSE PowiLoop(x)[y]
BY DEF Powi, PowiLoop

\* powi multiplies in ints, which wrap at every step: the residue is that of the
\* power all the same.
LEMMA PowiIsPower ==
  ASSUME NEW x \in Int, NEW y \in Nat
  PROVE  Powi(x, y) \in Int /\ Powi(x, y) % Half = Power(x)[y] % Half
<1> DEFINE r == PowiLoop(x)
           p == Power(x)
           S == {n \in Nat : r[n + 1] % Half = p[n + 1] % Half}
<1>1. /\ r \in [Nat -> Int] /\ r[1] = x
      /\ \A n \in Nat : n > 1 => r[n] = Int32(r[n - 1] * x)
  BY PowiLoopDef
<1>2. /\ p \in [Nat -> Int] /\ p[0] = 1
      /\ \A n \in Nat \ {0} : p[n] = p[n - 1] * x
  BY PowerDef
<1> HIDE DEF r, p
<1>3. 0 \in S
  <2>1. p[1] = p[0] * x
    <3>1. 1 \in Nat \ {0} /\ 1 - 1 = 0
      OBVIOUS
    <3> QED
      BY <1>2, <3>1
  <2> QED
    BY <1>1, <1>2, <2>1
<1>4. ASSUME NEW n \in Nat, n \in S PROVE n + 1 \in S
  <2> DEFINE m == n + 2
  <2>1. m \in Nat \ {0} /\ m > 1 /\ m - 1 = n + 1 /\ n + 1 \in Nat
    OBVIOUS
  <2> HIDE DEF m
  <2>2. r[m] = Int32(r[n + 1] * x) /\ p[m] = p[n + 1] * x
    BY <1>1, <1>2, <2>1
  <2>3. r[n + 1] \in Int /\ p[n + 1] \in Int
    BY <1>1, <1>2, <2>1
  <2>4. (r[n + 1] * x) % Half = (p[n + 1] * x) % Half
    BY <1>4, <2>3, Widths, ResidueOfProduct
  <2>5. r[n + 1] * x \in Int
    BY <2>3, Product
  <2>6. r[m] % Half = p[m] % Half
    BY <2>2, <2>4, <2>5, IntKeepsResidue
  <2> QED
    BY <2>6 DEF m
<1> HIDE DEF S
<1>5. Nat \subseteq S
  BY <1>3, <1>4, UpTo
<1>6. CASE y = 0
  BY <1>2, <1>6, PowiIsLoop DEF p
<1>7. CASE y # 0
  <2>1. y - 1 \in S /\ (y - 1) + 1 = y /\ y > 0
    BY <1>5, <1>7
  <2>2. r[y] % Half = p[y] % Half /\ r[y] \in Int
    BY <1>1, <2>1 DEF S
  <2>3. Powi(x, y) = r[y]
    BY <2>1, PowiIsLoop DEF r
  <2> QED
    BY <2>2, <2>3 DEF p
<1> QED
  BY <1>6, <1>7

-----------------------------------------------------------------------------
\* What an operator should make of two numbers.
Exactly(op, x, y) ==
  CASE op = "+" -> x + y
    [] op = "-" -> x - y
    [] op = "*" -> x * y
    [] op = "**" -> Power(x)[y]
    [] op = "/" -> x \div y
    [] op = "%" -> x % y

LEMMA NumberNat == \A v \in Nat : NumberOf(v) \in Nat
BY DEF NumberOf

\* The operators of eval (program.c) on two numbers, for words of any width: the
\* result is a word with bit 0 set whose number is what exact arithmetic gives,
\* modulo Half.  It does not matter that powi and the sums wrap within an int,
\* nor that VAL_NUMBER brings negative numbers back as large ones.
THEOREM ArithmeticIsExact ==
  ASSUME NEW lhs \in Nat, NEW rhs \in Nat, IsNumber(lhs), IsNumber(rhs),
         NEW op \in {"+", "-", "*", "**", "/", "%"},
         ~(op \in {"/", "%"} /\ NumberOf(rhs) = 0)
  PROVE  /\ IsNumber(Binary(op, lhs, rhs))
         /\ NumberOf(Binary(op, lhs, rhs))
              = Exactly(op, NumberOf(lhs), NumberOf(rhs)) % Half
<1> DEFINE x == NumberOf(lhs)
           y == NumberOf(rhs)
<1>1. x \in Nat /\ y \in Nat
  BY NumberNat
<1>2. CASE op \in {"+", "-", "*"}
  <2> DEFINE z == Exactly(op, x, y)
  <2>1. /\ Binary(op, lhs, rhs) = Number(Int32(z))
        /\ z = IF op = "+" THEN x + y ELSE IF op = "-" THEN x - y ELSE x * y
    BY <1>2 DEF Binary, Exactly
  <2>2. z \in Int
    <3>1. x + y \in Int /\ x - y \in Int /\ x * y \in Int
      BY <1>1, Product
    <3> QED
      BY <2>1, <3>1
  <2> QED
    BY <2>1, <2>2, NumberIsResidue
<1>3. CASE op = "**"
  <2>1. Binary(op, lhs, rhs) = Number(Powi(x, y)) /\ Exactly(op, x, y) = Power(x)[y]
    BY <1>3 DEF Binary, Exactly
  <2>2. Powi(x, y) \in Int /\ Powi(x, y) % Half = Power(x)[y] % Half
    <3>1. x \in Int /\ y \in Nat
      BY <1>1
    <3> HIDE DEF x, y
    <3> QED
      BY <3>1, PowiIsPower
  <2> QED
    BY <2>1, <2>2, NumberIsResidue
<1>4. CASE op \in {"/", "%"}
  <2> DEFINE z == IF op = "/" THEN x \div y ELSE x % y
  <2>1. Binary(op, lhs, rhs) = Number(z) /\ Exactly(op, x, y) = z
    BY <1>4 DEF Binary, Exactly
  <2>2. z \in Int
    <3>1. x \in Int /\ y \in Nat \ {0}
      BY <1>1, <1>4
    <3> HIDE DEF x, y
    <3>2. x \div y \in Int
      BY <3>1, Division
    <3>3. x % y \in Int
      BY <3>1, Division
    <3> QED
      BY <3>2, <3>3
  <2> QED
    BY <2>1, <2>2, NumberIsResidue
<1> QED
  BY <1>2, <1>3, <1>4

\* A minus sign makes the negative number of a number, modulo Half, and 0 of
\* anything else.
THEOREM NegationIsExact ==
  ASSUME NEW v \in Nat
  PROVE  /\ IsNumber(Negated(v))
         /\ NumberOf(Negated(v)) = (IF IsNumber(v) THEN -NumberOf(v) ELSE 0) % Half
<1>1. NumberOf(v) \in Nat /\ -NumberOf(v) \in Int /\ 0 \in Int
  BY NumberNat
<1> QED
  BY <1>1, NumberIsResidue DEF Negated

\* eval of an operator never makes an even word other than 0 of any two values:
\* object_mark would follow it as the address of an object.
THEOREM ArithmeticMakesNoPointer ==
  ASSUME NEW lhs \in Nat, NEW rhs \in Nat, NEW op \in {"+", "-", "*", "**", "/", "%"}
  PROVE  \/ Binary(op, lhs, rhs) \in {None, Fault}
         \/ IsNumber(Binary(op, lhs, rhs))
<1>1. CASE IsNumber(lhs) /\ IsNumber(rhs) /\ ~(op \in {"/", "%"} /\ NumberOf(rhs) = 0)
  BY <1>1, ArithmeticIsExact
<1>2. CASE ~(IsNumber(lhs) /\ IsNumber(rhs)) \/ (op \in {"/", "%"} /\ NumberOf(rhs) = 0)
  BY <1>2 DEF Binary
<1> QED
  BY <1>1, <1>2

-----------------------------------------------------------------------------
(* The text of a number, vasputf: n is divided by the powers of the base. *)

\* The powers of a base grow.
LEMMA PowersGrow ==
  ASSUME NEW b \in Nat \ {0, 1}
  PROVE  /\ Power(b) \in [Nat -> Nat \ {0}] /\ Power(b)[0] = 1
         /\ \A k \in Nat : Power(b)[k + 1] = Power(b)[k] * b /\ Power(b)[k] < Power(b)[k + 1]
         /\ \A k \in Nat : k < Power(b)[k]
<1> DEFINE pow == Power(b)
           S == {k \in Nat : pow[k] \in Nat /\ k < pow[k]}
<1>1. /\ pow \in [Nat -> Int]
      /\ pow[0] = 1 /\ \A k \in Nat \ {0} : pow[k] = pow[k - 1] * b
  BY PowerDef
<1> HIDE DEF pow
<1>2. ASSUME NEW k \in Nat PROVE pow[k + 1] = pow[k] * b
  <2>1. k + 1 \in Nat \ {0} /\ (k + 1) - 1 = k
    OBVIOUS
  <2> QED
    BY <1>1, <2>1
<1>3. ASSUME NEW k \in Nat, pow[k] \in Nat, k < pow[k]
      PROVE  pow[k + 1] \in Nat /\ pow[k] < pow[k + 1] /\ k + 1 < pow[k + 1]
  <2>1. pow[k] * 2 <= pow[k] * b /\ pow[k] * b \in Int
    BY <1>3, ProductGrows
  <2> QED
    BY <1>2, <1>3, <2>1
<1>4. 0 \in S
  BY <1>1
<1>5. \A k \in Nat : k \in S => k + 1 \in S
  BY <1>3
<1> HIDE DEF S
<1>6. \A k \in Nat : pow[k] \in Nat /\ k < pow[k]
  BY <1>4, <1>5, UpTo DEF S
<1>7. pow \in [Nat -> Nat \ {0}]
  BY <1>1, <1>6
<1> QED
  BY <1>1, <1>2, <1>3, <1>6, <1>7 DEF pow

\* Division by a product is division by its factors, one after the other.
LEMMA Nested ==
  ASSUME NEW n \in Nat, NEW i \in Nat \ {0}, NEW b \in Nat \ {0}
  PROVE  /\ i * b \in Nat \ {0} /\ n \div i \in Nat
         /\ n \div (i * b) = (n \div i) \div b
         /\ (n % (i * b)) \div i = (n \div i) % b
         /\ (n % (i * b)) - ((n \div i) % b) * i = n % i
<1> DEFINE Q == n \div i
           r == n % i
           R == Q \div b
           c == Q % b
<1>1. r \in 0..(i - 1) /\ Q \in Nat /\ n = (i * Q) + r
  <2>1. r \in 0..(i - 1) /\ n = (i * Q) + r
    BY Division
  <2> QED
    BY <2>1, NatDivision
<1> HIDE DEF Q, r
<1>2. c \in 0..(b - 1) /\ R \in Nat /\ Q = (b * R) + c
  <2>1. Q \in Int
    BY <1>1
  <2>2. c \in 0..(b - 1) /\ Q = (b * R) + c
    BY <2>1, Division
  <2>3. R \in Nat
    BY <1>1, NatDivision
  <2> QED
    BY <2>2, <2>3
<1> HIDE DEF c, R
<1>3. i * b \in Nat \ {0}
  <2>1. i * 1 <= i * b /\ i * b \in Int
    BY ProductGrows
  <2> QED
    BY <2>1
<1>4. i * c \in Nat /\ (i * c) + r \in 0..((i * b) - 1)
  <2>1. i * c <= i * (b - 1) /\ i * c \in Int /\ i * 0 <= i * c
    BY <1>2, ProductGrows
  <2>2. i * (b - 1) = (i * b) - i
    OBVIOUS
  <2> QED
    BY <1>1, <1>3, <2>1, <2>2
<1>5. n = ((i * b) * R) + ((i * c) + r)
  <2> DEFINE t == b * R
  <2>1. t \in Int /\ Q = t + c
    BY <1>2, Product
  <2>2. (i * b) * R = i * t
    BY <1>2
  <2> HIDE DEF t
  <2>3. i * Q = (i * t) + (i * c) /\ i * t \in Int
    BY <1>2, <2>1, Product
  <2> DEFINE u == i * t
             v == i * c
             w == i * Q
             z == (i * b) * R
  <2>4. u \in Int /\ v \in Nat /\ w = u + v /\ z = u /\ n = w + r
    BY <1>1, <1>4, <2>2, <2>3
  <2> HIDE DEF u, v, w, z
  <2>5. n = z + (v + r)
    BY <1>1, <2>4
  <2> QED
    BY <2>5 DEF z, v
<1>6. n \div (i * b) = R
  <2>1. n \in Int /\ R \in Int
    BY <1>2
  <2> QED
    BY <1>3, <1>4, <1>5, <2>1, OneQuotient
<1>7. n % (i * b) = (i * c) + r
  <2>1. n \in Int /\ R \in Int
    BY <1>2
  <2> QED
    BY <1>3, <1>4, <1>5, <2>1, OneResidue
<1>8. ((i * c) + r) \div i = c
  <2>1. (i * c) + r \in Int /\ c \in Int
    BY <1>1, <1>2, <1>4
  <2> QED
    BY <1>1, <2>1, OneQuotient
<1>9. ((i * c) + r) - c * i = r
  <2>1. c * i = i * c
    BY <1>2
  <2> QED
    BY <1>1, <1>4, <2>1
<1> QED
  BY <1>1, <1>3, <1>6, <1>7, <1>8, <1>9 DEF Q, R, c, r

\* A quotient is at least b if the number is at least b times the divisor.
LEMMA QuotientAtLeast ==
  ASSUME NEW n \in Nat, NEW i \in Nat \ {0}, NEW b \in Nat
  PROVE  n \div i >= b <=> i * b <= n
<1> DEFINE Q == n \div i
           r == n % i
<1>1. r \in 0..(i - 1) /\ Q \in Nat /\ n = (i * Q) + r
  <2>1. r \in 0..(i - 1) /\ n = (i * Q) + r
    BY Division
  <2> QED
    BY <2>1, NatDivision
<1> HIDE DEF Q, r
<1>2. i * Q \in Int /\ i * b \in Int
  BY <1>1, Product
<1>3. CASE Q >= b
  <2>1. i * b <= i * Q
    BY <1>1, <1>3, ProductGrows
  <2> QED
    BY <1>1, <1>2, <1>3, <2>1 DEF Q
<1>4. CASE Q <= b - 1
  <2>1. i * Q <= i * (b - 1)
    BY <1>1, <1>4, ProductGrows
  <2>2. i * (b - 1) = (i * b) - i
    OBVIOUS
  <2> QED
    BY <1>1, <1>2, <1>4, <2>1, <2>2 DEF Q
<1> QED
  BY <1>1, <1>3, <1>4

-----------------------------------------------------------------------------
\* The loop that looks for the first power.
IndexLoop(n, base, width) ==
  LET from[i \in Nat] == [digits \in Nat |->
        IF n \div i >= base \/ digits < width THEN from[i * base][digits + 1] ELSE i]
  IN from
IndexBody(f, n, base, width) ==
  [i \in Nat |-> [digits \in Nat |->
     IF n \div i >= base \/ digits < width THEN f[i * base][digits + 1] ELSE i]]

\* It ends, whatever it is begun with: the index grows beyond the number, and
\* the digits come to the width.
LEMMA IndexLoopDef ==
  ASSUME NEW n \in Nat, NEW b \in Nat \ {0, 1}, NEW w \in Nat
  PROVE  IndexLoop(n, b, w) = IndexBody(IndexLoop(n, b, w), n, b, w)
<1> DEFINE X == [Nat -> [Nat -> Nat]]
           Body(f) == IndexBody(f, n, b, w)
           zero == [i \in Nat |-> [d \in Nat |-> 0]]
           G == [a \in X \X Nat |-> Body(a[1])]
           Left == [i \in Nat |-> [d \in Nat |->
                     (IF i <= n THEN (n + 1) - i ELSE 0) + (IF d < w THEN w - d ELSE 0) + 1]]
<1>1. \A f \in X : Body(f) \in X
  <2>1. SUFFICES ASSUME NEW f \in X, NEW i \in Nat, NEW d \in Nat
                 PROVE  (IF n \div i >= b \/ d < w THEN f[i * b][d + 1] ELSE i) \in Nat
    BY DEF IndexBody
  <2>2. i * b \in Nat /\ d + 1 \in Nat
    OBVIOUS
  <2>3. f[i * b][d + 1] \in Nat
    BY <2>2
  <2> QED
    BY <2>3
<1>2. \A f \in X : \A i, d \in Nat :
        Body(f)[i][d] = IF n \div i >= b \/ d < w THEN f[i * b][d + 1] ELSE i
  BY DEF IndexBody
<1>3. zero \in X
  OBVIOUS
<1> HIDE DEF Body, zero
<1>4. PICK F : /\ F \in [Nat -> X] /\ F[0] = zero
               /\ \A k \in Nat : F[k + 1] = Body(F[k])
  <2>1. G \in [X \X Nat -> X]
    BY <1>1
  <2>2. PICK F : IsRecursive(F, X, zero, G)
    <3> HIDE DEF G, X
    <3> QED
      BY <1>3, <2>1, RecursionOnNat
  <2>3. ASSUME NEW k \in Nat PROVE F[k + 1] = Body(F[k])
    <3>1. k + 1 \in Nat /\ k + 1 # 0 /\ (k + 1) - 1 = k /\ F[k] \in X
      <4> HIDE DEF G, X
      <4> QED
        BY <2>2 DEF IsRecursive
    <3>2. F[k + 1] = G[<<F[k], k + 1>>]
      BY <2>2, <3>1 DEF IsRecursive
    <3> QED
      BY <3>1, <3>2
  <2> QED
    BY <2>2, <2>3 DEF IsRecursive
<1> HIDE DEF G, X
<1>5. \A k \in Nat : \A d \in Nat : F[k][0][d] = 0
  <2> DEFINE S == {k \in Nat : \A d \in Nat : F[k][0][d] = 0}
  <2>1. 0 \in S
    BY <1>4 DEF zero
  <2>2. ASSUME NEW k \in Nat, k \in S PROVE k + 1 \in S
    <3>1. SUFFICES ASSUME NEW d \in Nat PROVE F[k + 1][0][d] = 0
      OBVIOUS
    <3>2. F[k] \in X /\ F[k + 1] = Body(F[k]) /\ 0 * b = 0 /\ d + 1 \in Nat
      BY <1>4
    <3>3. F[k + 1][0][d] = IF n \div 0 >= b \/ d < w THEN F[k][0 * b][d + 1] ELSE 0
      BY <1>2, <3>2
    <3>4. F[k][0 * b][d + 1] = 0
      BY <2>2, <3>2
    <3> QED
      BY <3>3, <3>4
  <2> HIDE DEF S
  <2>3. Nat \subseteq S
    BY <2>1, <2>2, UpTo
  <2> QED
    BY <2>3 DEF S
<1>6. ASSUME NEW i \in Nat \ {0}, NEW d \in Nat, n \div i >= b \/ d < w
      PROVE  Left[i * b][d + 1] < Left[i][d] /\ i * b \in Nat \ {0}
  <2>1. i * b >= i * 2 /\ i * b \in Int
    BY ProductGrows
  <2>2. i * b > i /\ i * b \in Nat \ {0}
    BY <2>1
  <2>3. n \div i >= b => i * b <= n
    BY QuotientAtLeast
  <2> DEFINE j == i * b
  <2>4. j > i /\ j \in Nat /\ (n \div i >= b => j <= n)
    BY <2>2, <2>3
  <2> HIDE DEF j
  <2>5. Left[j][d + 1] < Left[i][d]
    BY <1>6, <2>4
  <2> QED
    BY <2>2, <2>5 DEF j
<1>7. \A i \in Nat \ {0} : \A d \in Nat : Left[i][d] \in Nat /\ 0 < Left[i][d] /\ Left[i][d] <= n + w + 1
  OBVIOUS
<1> HIDE DEF Left
<1>8. \A k \in Nat : \A i \in Nat \ {0} : \A d \in Nat :
        Left[i][d] <= k => F[k + 1][i][d] = F[k][i][d]
  <2> DEFINE S == {k \in Nat : \A i \in Nat \ {0} : \A d \in Nat :
                                 Left[i][d] <= k => F[k + 1][i][d] = F[k][i][d]}
  <2>1. 0 \in S
    BY <1>7
  <2>2. ASSUME NEW k \in Nat, k \in S PROVE k + 1 \in S
    <3>1. SUFFICES ASSUME NEW i \in Nat \ {0}, NEW d \in Nat, Left[i][d] <= k + 1
                   PROVE  F[(k + 1) + 1][i][d] = F[k + 1][i][d]
      OBVIOUS
    <3>2. /\ F[k] \in X /\ F[k + 1] \in X /\ i \in Nat
          /\ F[k + 1] = Body(F[k]) /\ F[(k + 1) + 1] = Body(F[k + 1])
      BY <1>4
    <3> DEFINE more == n \div i >= b \/ d < w
    <3>3. /\ F[(k + 1) + 1][i][d] = IF more THEN F[k + 1][i * b][d + 1] ELSE i
          /\ F[k + 1][i][d] = IF more THEN F[k][i * b][d + 1] ELSE i
      BY <1>2, <3>2
    <3>4. more => F[k + 1][i * b][d + 1] = F[k][i * b][d + 1]
      <4>1. SUFFICES ASSUME more PROVE F[k + 1][i * b][d + 1] = F[k][i * b][d + 1]
        OBVIOUS
      <4>2. Left[i * b][d + 1] < Left[i][d] /\ i * b \in Nat \ {0} /\ d + 1 \in Nat
        BY <1>6, <4>1
      <4>3. Left[i * b][d + 1] <= k
        BY <1>7, <3>1, <4>2
      <4> QED
        BY <2>2, <4>2, <4>3
    <3> HIDE DEF more
    <3> QED
      BY <3>3, <3>4
  <2> HIDE DEF S
  <2>3. Nat \subseteq S
    BY <2>1, <2>2, UpTo
  <2> QED
    BY <2>3 DEF S
<1> DEFINE f == F[n + w + 1]
<1>9. f = Body(f)
  <2>1. f \in X /\ F[(n + w + 1) + 1] \in X /\ F[(n + w + 1) + 1] = Body(f)
    BY <1>4
  <2>2. ASSUME NEW i \in Nat, NEW d \in Nat PROVE F[(n + w + 1) + 1][i][d] = f[i][d]
    <3>1. CASE i = 0
      BY <1>5, <3>1
    <3>2. CASE i # 0
      <4>1. i \in Nat \ {0} /\ n + w + 1 \in Nat /\ Left[i][d] <= n + w + 1
        BY <1>7, <3>2
      <4> QED
        BY <1>8, <4>1
    <3> QED
      BY <3>1, <3>2
  <2> DEFINE g == F[(n + w + 1) + 1]
  <2>3. g \in X /\ g = Body(f) /\ \A i, d \in Nat : g[i][d] = f[i][d]
    BY <2>1, <2>2
  <2> HIDE DEF g, f
  <2>4. ASSUME NEW i \in Nat PROVE g[i] = f[i]
    <3>1. g[i] \in [Nat -> Nat] /\ f[i] \in [Nat -> Nat] /\ \A d \in Nat : g[i][d] = f[i][d]
      BY <2>1, <2>3 DEF X
    <3> QED
      BY <3>1
  <2>5. g = f
    BY <2>1, <2>3, <2>4 DEF X
  <2> QED
    BY <2>3, <2>5
<1> HIDE DEF f
<1>10. IndexLoop(n, b, w) = CHOOSE g : g = Body(g)
  BY DEF IndexLoop, IndexBody, Body
<1> QED
  BY <1>9, <1>10 DEF Body

\* vasputf begins with the highest power that is needed, for the number or for
\* the width.
LEMMA FirstIndexIs ==
  ASSUME NEW n \in Nat, NEW b \in Nat \ {0, 1}, NEW w \in Nat
  PROVE  \E k \in Nat :
           /\ FirstIndex(n, b, w) = Power(b)[k]
           /\ n < Power(b)[k + 1] /\ w <= k + 1
           /\ k = 0 \/ Power(b)[k] <= n \/ k < w
<1> DEFINE pow == Power(b)
           f == IndexLoop(n, b, w)
           T == {k \in Nat : n < pow[k + 1] /\ w <= k + 1}
<1>1. /\ pow \in [Nat -> Nat \ {0}] /\ pow[0] = 1
      /\ \A k \in Nat : pow[k + 1] = pow[k] * b /\ pow[k] < pow[k + 1]
      /\ \A k \in Nat : k < pow[k]
  BY PowersGrow
<1>2. FirstIndex(n, b, w) = f[1][1]
  BY DEF FirstIndex, IndexLoop
<1>3. ASSUME NEW i \in Nat, NEW d \in Nat
      PROVE  f[i][d] = IF n \div i >= b \/ d < w THEN f[i * b][d + 1] ELSE i
  <2>1. f = IndexBody(f, n, b, w)
    BY IndexLoopDef
  <2> HIDE DEF f
  <2> QED
    BY <2>1 DEF IndexBody
<1> HIDE DEF pow, f
<1>4. PICK k \in T : \A j \in T : k <= j
  <2>1. n + w \in T
    <3>1. n + w < pow[n + w] /\ pow[n + w] < pow[(n + w) + 1] /\ pow[n + w] \in Nat /\ pow[(n + w) + 1] \in Nat
      BY <1>1
    <3> QED
      BY <3>1
  <2>2. T # {} /\ T \subseteq Nat
    BY <2>1
  <2> HIDE DEF T
  <2> QED
    BY <2>2, Least
<1>5. \A j \in Nat : j < k => pow[j + 1] <= n \/ j + 1 < w
  <2>1. SUFFICES ASSUME NEW j \in Nat, j < k PROVE pow[j + 1] <= n \/ j + 1 < w
    OBVIOUS
  <2>2. j \notin T
    BY <1>4, <2>1
  <2>3. pow[j + 1] \in Nat
    BY <1>1
  <2> QED
    BY <2>2, <2>3
<1>6. f[pow[0]][0 + 1] = pow[k]
  <2> DEFINE S == {j \in Nat : j <= k => f[pow[k - j]][(k - j) + 1] = pow[k]}
  <2>1. 0 \in S
    <3>1. k - 0 = k /\ pow[k] \in Nat \ {0} /\ k + 1 \in Nat /\ pow[k + 1] = pow[k] * b /\ pow[k + 1] \in Nat
      BY <1>1
    <3>2. ~(n \div pow[k] >= b) /\ ~(k + 1 < w)
      BY <1>4, <3>1, QuotientAtLeast
    <3>3. f[pow[k]][k + 1] = pow[k]
      BY <1>3, <3>1, <3>2
    <3> QED
      BY <3>1, <3>3
  <2>2. ASSUME NEW j \in Nat, j \in S PROVE j + 1 \in S
    <3>1. SUFFICES ASSUME j + 1 <= k PROVE f[pow[k - (j + 1)]][(k - (j + 1)) + 1] = pow[k]
      OBVIOUS
    <3> DEFINE l == k - (j + 1)
    <3>2. l \in Nat /\ l < k /\ l + 1 \in Nat /\ l + 1 = k - j /\ (l + 1) + 1 = (k - j) + 1
      BY <3>1
    <3>3. f[pow[l + 1]][(l + 1) + 1] = pow[k]
      BY <2>2, <3>1, <3>2
    <3> HIDE DEF l
    <3>4. pow[l] \in Nat \ {0} /\ pow[l + 1] = pow[l] * b /\ pow[l + 1] \in Nat
      BY <1>1, <3>2
    <3>5. n \div pow[l] >= b \/ l + 1 < w
      BY <1>5, <3>2, <3>4, QuotientAtLeast
    <3>6. f[pow[l]][l + 1] = f[pow[l] * b][(l + 1) + 1]
      BY <1>3, <3>2, <3>4, <3>5
    <3>7. f[pow[l]][l + 1] = pow[k]
      BY <3>3, <3>4, <3>6
    <3> QED
      BY <3>7 DEF l
  <2> HIDE DEF S
  <2>3. k \in S /\ k - k = 0
    BY <2>1, <2>2, UpTo
  <2>4. f[pow[k - k]][(k - k) + 1] = pow[k]
    BY <2>3 DEF S
  <2> QED
    BY <2>3, <2>4
<1>7. k = 0 \/ pow[k] <= n \/ k < w
  <2>1. SUFFICES ASSUME k # 0 PROVE pow[k] <= n \/ k < w
    OBVIOUS
  <2>2. k - 1 \in Nat /\ k - 1 < k /\ (k - 1) + 1 = k
    BY <2>1
  <2> QED
    BY <1>5, <2>2
<1>8. FirstIndex(n, b, w) = pow[k]
  BY <1>1, <1>2, <1>6
<1> QED
  BY <1>4, <1>7, <1>8 DEF pow

-----------------------------------------------------------------------------
\* The loop that puts out one digit after the other.
Character(n, i, m) == IF m \div i = 0 /\ i > n /\ i # 1 THEN Pad ELSE m \div i
DigitLoop(n, base) ==
  LET out[i \in Nat] == [m \in Nat |->
        LET c == m \div i IN
        <<IF c = 0 /\ i > n /\ i # 1 THEN Pad ELSE c>>
          \o IF i >= base THEN out[i \div base][m - c * i] ELSE <<>>]
  IN out
DigitBody(f, n, base) ==
  [i \in Nat |-> [m \in Nat |->
     <<Character(n, i, m)>>
       \o IF i >= base THEN f[i \div base][m - (m \div i) * i] ELSE <<>>]]

\* It ends: the index becomes smaller each time.
LEMMA DigitLoopDef ==
  ASSUME NEW n \in Nat, NEW b \in Nat \ {0, 1}
  PROVE  DigitLoop(n, b) = DigitBody(DigitLoop(n, b), n, b)
<1> DEFINE Shown == {Character(n, a[1], a[2]) : a \in Nat \X Nat}
           Y == Seq(Shown)
           X == [Nat -> [Nat -> Y]]
           Body(f) == DigitBody(f, n, b)
           Rest(f, i, m) == IF i >= b THEN f[i \div b][m - (m \div i) * i] ELSE <<>>
           zero == [i \in Nat |-> [m \in Nat |-> <<>>]]
           G == [a \in X \X Nat |-> Body(a[1])]
<1>1. ASSUME NEW i \in Nat, i >= b, NEW m \in Nat
      PROVE  i \div b \in Nat /\ i \div b < i /\ m - (m \div i) * i \in Nat
  <2>1. i \div b \in Nat
    BY NatDivision
  <2>2. i \div b < i
    <3>1. b * i >= 2 * i /\ b * i \in Nat /\ i < 2 * i
      BY <1>1
    <3>2. i < b * i
      BY <3>1
    <3> QED
      BY <3>2, QuotientBelow
  <2>3. m - (m \div i) * i \in Nat
    <3>1. i \in Nat \ {0} /\ m \in Int
      BY <1>1
    <3>2. (m % i) \in 0..(i - 1) /\ (m \div i) \in Int /\ m = (i * (m \div i)) + (m % i)
      BY <3>1, Division
    <3>3. (m \div i) * i = i * (m \div i) /\ i * (m \div i) \in Int
      BY <3>2, Product
    <3> QED
      BY <3>2, <3>3
  <2> QED
    BY <2>1, <2>2, <2>3
<1>2. ASSUME NEW f \in X, NEW i \in Nat, NEW m \in Nat
      PROVE  <<Character(n, i, m)>> \o Rest(f, i, m) \in Y
  <2>1. Character(n, i, m) \in Shown
    <3>1. <<i, m>> \in Nat \X Nat /\ <<i, m>>[1] = i /\ <<i, m>>[2] = m
      OBVIOUS
    <3> QED
      BY <3>1, Zenon
  <2>2. Rest(f, i, m) \in Seq(Shown)
    <3>1. CASE i >= b
      <4>1. f[i \div b][m - (m \div i) * i] \in Y
        BY <1>1, <3>1
      <4> QED
        BY <3>1, <4>1
    <3>2. CASE ~(i >= b)
      BY <3>2
    <3> QED
      BY <3>1, <3>2
  <2> HIDE DEF Shown, Rest
  <2>3. <<Character(n, i, m)>> \in Seq(Shown)
    BY <2>1
  <2> QED
    BY <2>2, <2>3, ConcatProperties
<1>3. \A f \in X : Body(f) \in X
  <2> SUFFICES ASSUME NEW f \in X PROVE Body(f) \in X
    OBVIOUS
  <2> DEFINE g == [i \in Nat |-> [m \in Nat |-> <<Character(n, i, m)>> \o Rest(f, i, m)]]
  <2>1. Body(f) = g
    BY DEF DigitBody
  <2>2. ASSUME NEW i \in Nat PROVE g[i] \in [Nat -> Y]
    <3> HIDE DEF Y, X
    <3>1. ASSUME NEW m \in Nat PROVE <<Character(n, i, m)>> \o Rest(f, i, m) \in Y
      BY <1>2
    <3> HIDE DEF Rest
    <3> QED
      BY <3>1
  <2> HIDE DEF Body, Rest, Y
  <2>3. g \in [Nat -> [Nat -> Y]]
    BY <2>2
  <2> QED
    BY <2>1, <2>3
<1>4. \A f : \A i, m \in Nat : Body(f)[i][m] = <<Character(n, i, m)>> \o Rest(f, i, m)
  BY DEF DigitBody
<1>5. zero \in X
  BY EmptySeq
<1> HIDE DEF Body, zero, Y
<1>6. PICK F : F \in [Nat -> X] /\ \A k \in Nat : F[k + 1] = Body(F[k])
  <2>1. G \in [X \X Nat -> X]
    BY <1>3
  <2>2. PICK F : IsRecursive(F, X, zero, G)
    <3> HIDE DEF G, X
    <3> QED
      BY <1>5, <2>1, RecursionOnNat
  <2>3. ASSUME NEW k \in Nat PROVE F[k + 1] = Body(F[k])
    <3>1. k + 1 \in Nat /\ k + 1 # 0 /\ (k + 1) - 1 = k /\ F[k] \in X
      <4> HIDE DEF G, X
      <4> QED
        BY <2>2 DEF IsRecursive
    <3>2. F[k + 1] = G[<<F[k], k + 1>>]
      BY <2>2, <3>1 DEF IsRecursive
    <3> QED
      BY <3>1, <3>2
  <2> QED
    BY <2>2, <2>3 DEF IsRecursive
<1> HIDE DEF G
<1>7. ASSUME NEW k \in Nat, NEW l \in Nat, NEW i \in Nat,
             i >= b => F[k][i \div b] = F[l][i \div b]
      PROVE  F[k + 1][i] = F[l + 1][i]
  <2>1. F[k + 1] = Body(F[k]) /\ F[l + 1] = Body(F[l]) /\ F[k + 1] \in X /\ F[l + 1] \in X
    BY <1>6
  <2>2. F[k + 1][i] \in [Nat -> Y] /\ F[l + 1][i] \in [Nat -> Y]
    BY <2>1
  <2>3. ASSUME NEW m \in Nat PROVE F[k + 1][i][m] = F[l + 1][i][m]
    <3>1. Rest(F[k], i, m) = Rest(F[l], i, m)
      BY <1>7
    <3>2. F[k + 1][i][m] = <<Character(n, i, m)>> \o Rest(F[k], i, m)
      <4>1. Body(F[k])[i][m] = <<Character(n, i, m)>> \o Rest(F[k], i, m)
        BY <1>4
      <4> HIDE DEF Rest
      <4> QED
        BY <2>1, <4>1
    <3>3. F[l + 1][i][m] = <<Character(n, i, m)>> \o Rest(F[l], i, m)
      <4>1. Body(F[l])[i][m] = <<Character(n, i, m)>> \o Rest(F[l], i, m)
        BY <1>4
      <4> HIDE DEF Rest
      <4> QED
        BY <2>1, <4>1
    <3> HIDE DEF Rest
    <3> QED
      BY <3>1, <3>2, <3>3
  <2> QED
    BY <2>2, <2>3
<1>8. \A k \in Nat : \A l \in 0..k : \A i \in Nat : i < l => F[l][i] = F[i + 1][i]
  <2> DEFINE S == {k \in Nat : \A l \in 0..k : \A i \in Nat : i < l => F[l][i] = F[i + 1][i]}
  <2>1. 0 \in S
    OBVIOUS
  <2>2. ASSUME NEW k \in Nat, k \in S PROVE k + 1 \in S
    <3>1. SUFFICES ASSUME NEW i \in Nat, i < k + 1 PROVE F[k + 1][i] = F[i + 1][i]
      BY <2>2
    <3>2. i >= b => F[k][i \div b] = F[i][i \div b]
      <4>1. SUFFICES ASSUME i >= b PROVE F[k][i \div b] = F[i][i \div b]
        OBVIOUS
      <4>2. i \div b \in Nat /\ i \div b < i /\ i \div b < k /\ i \in 0..k /\ k \in 0..k
        BY <1>1, <3>1, <4>1
      <4> QED
        BY <2>2, <4>2
    <3> QED
      BY <1>7, <3>2
  <2> HIDE DEF S
  <2>3. Nat \subseteq S
    BY <2>1, <2>2, UpTo
  <2> QED
    BY <2>3 DEF S
<1> DEFINE f == [i \in Nat |-> F[i + 1][i]]
<1>9. f \in X
  <2>1. \A i \in Nat : F[i + 1] \in X
    BY <1>6
  <2> QED
    BY <2>1
<1>10. ASSUME NEW i \in Nat, NEW m \in Nat PROVE f[i][m] = Body(f)[i][m]
  <2>1. F[i + 1] = Body(F[i])
    BY <1>6
  <2>2. Rest(F[i], i, m) = Rest(f, i, m)
    <3>1. CASE i >= b
      <4>1. i \div b \in Nat /\ i \div b < i /\ i \in 0..i
        BY <1>1, <3>1
      <4>2. F[i][i \div b] = f[i \div b]
        BY <1>8, <4>1
      <4> QED
        BY <3>1, <4>2
    <3>2. CASE ~(i >= b)
      BY <3>2
    <3> QED
      BY <3>1, <3>2
  <2>3. f[i][m] = Body(F[i])[i][m]
    BY <2>1
  <2> HIDE DEF f
  <2>4. Body(F[i])[i][m] = <<Character(n, i, m)>> \o Rest(F[i], i, m)
    BY <1>4
  <2>5. Body(f)[i][m] = <<Character(n, i, m)>> \o Rest(f, i, m)
    BY <1>4
  <2> HIDE DEF Rest
  <2> QED
    BY <2>2, <2>3, <2>4, <2>5
<1>11. f = Body(f)
  <2>1. Body(f) \in X
    BY <1>3, <1>9
  <2> HIDE DEF f
  <2>2. ASSUME NEW i \in Nat PROVE f[i] = Body(f)[i]
    <3>1. f[i] \in [Nat -> Y] /\ Body(f)[i] \in [Nat -> Y]
      BY <1>9, <2>1
    <3> QED
      BY <1>10, <3>1
  <2> QED
    BY <1>9, <2>1, <2>2
<1> HIDE DEF f
<1>12. DigitLoop(n, b) = CHOOSE g : g = Body(g)
  BY DEF DigitLoop, DigitBody, Character, Body
<1> QED
  BY <1>11, <1>12 DEF Body

\* So a character comes first, and the rest from the next smaller power.
LEMMA DigitLoopIs ==
  ASSUME NEW n \in Nat, NEW b \in Nat \ {0, 1}, NEW i \in Nat, NEW m \in Nat
  PROVE  DigitLoop(n, b)[i][m] =
           <<Character(n, i, m)>>
             \o IF i >= b THEN DigitLoop(n, b)[i \div b][m - (m \div i) * i] ELSE <<>>
<1> DEFINE out == DigitLoop(n, b)
           body == DigitBody(out, n, b)
           rest == IF i >= b THEN out[i \div b][m - (m \div i) * i] ELSE <<>>
<1>1. out = body
  BY DigitLoopDef
<1>2. body[i][m] = <<Character(n, i, m)>> \o rest
  BY DEF DigitBody
<1> HIDE DEF out, body, rest
<1>3. out[i][m] = <<Character(n, i, m)>> \o rest
  BY <1>1, <1>2
<1> QED
  BY <1>3 DEF out, rest

\* The powers are in order.
LEMMA PowersOrdered ==
  ASSUME NEW b \in Nat \ {0, 1}, NEW k \in Nat, NEW l \in Nat, k <= l
  PROVE  Power(b)[k] <= Power(b)[l]
<1> DEFINE pow == Power(b)
           S == {j \in Nat : pow[k] <= pow[k + j]}
<1>1. pow \in [Nat -> Nat \ {0}] /\ \A j \in Nat : pow[j] < pow[j + 1]
  BY PowersGrow
<1> HIDE DEF pow
<1>2. 0 \in S
  BY <1>1
<1>3. ASSUME NEW j \in Nat, j \in S PROVE j + 1 \in S
  <2>1. k + j \in Nat /\ k + (j + 1) = (k + j) + 1 /\ pow[k] <= pow[k + j]
    BY <1>3
  <2>2. pow[k + j] < pow[(k + j) + 1] /\ pow[k] \in Nat /\ pow[k + j] \in Nat /\ pow[(k + j) + 1] \in Nat
    BY <1>1, <2>1
  <2>3. pow[k] <= pow[k + (j + 1)]
    BY <2>1, <2>2
  <2> QED
    BY <2>3
<1> HIDE DEF S
<1>4. l - k \in S
  BY <1>2, <1>3, UpTo
<1>5. k + (l - k) = l
  OBVIOUS
<1> QED
  BY <1>4, <1>5 DEF S, pow

\* The character for the power q of the base.
DigitAt(n, b, q) ==
  IF n < Power(b)[q] /\ q # 0 THEN Pad ELSE (n \div Power(b)[q]) % b

\* The text has a character for every power from the first one down to 1.
LEMMA FormattedIs ==
  ASSUME NEW n \in Nat, NEW b \in Nat \ {0, 1}, NEW w \in Nat, NEW k \in Nat,
         FirstIndex(n, b, w) = Power(b)[k], n < Power(b)[k + 1]
  PROVE  Formatted(n, b, w) = [p \in 1..(k + 1) |-> DigitAt(n, b, (k + 1) - p)]
<1> DEFINE pow == Power(b)
           out == DigitLoop(n, b)
           text(j) == [p \in 1..(j + 1) |-> DigitAt(n, b, (j + 1) - p)]
<1>1. /\ pow \in [Nat -> Nat \ {0}] /\ pow[0] = 1
      /\ \A j \in Nat : pow[j + 1] = pow[j] * b /\ pow[j] < pow[j + 1]
  BY PowersGrow
<1>2. Formatted(n, b, w) = out[pow[k]][n]
  BY DEF Formatted, DigitLoop
<1>3. \A i, m \in Nat : out[i][m] =
        <<Character(n, i, m)>> \o IF i >= b THEN out[i \div b][m - (m \div i) * i] ELSE <<>>
  BY DigitLoopIs
<1>4. \A j \in Nat : DigitAt(n, b, j) \in Int
  <2>1. SUFFICES ASSUME NEW j \in Nat PROVE (n \div pow[j]) % b \in Int
    BY DEF DigitAt, Pad
  <2> HIDE DEF pow
  <2>2. n \div pow[j] \in Nat
    BY <1>1, NatDivision
  <2> QED
    BY <2>2
<1>5. ASSUME NEW j \in Nat
      PROVE  LET m == n % pow[j + 1] IN
             /\ m \in Nat /\ Character(n, pow[j], m) = DigitAt(n, b, j)
             /\ m - (m \div pow[j]) * pow[j] = n % pow[j]
  <2> DEFINE i == pow[j]
             h == pow[j + 1]
  <2>1. i \in Nat \ {0} /\ h = i * b /\ h \in Nat \ {0} /\ (i = 1 <=> j = 0)
    <3>1. ASSUME j # 0 PROVE pow[j] # 1
      <4>1. j - 1 \in Nat /\ (j - 1) + 1 = j
        BY <3>1
      <4>2. pow[j - 1] < pow[j] /\ pow[j - 1] \in Nat \ {0} /\ pow[j] \in Nat
        BY <1>1, <4>1
      <4> QED
        BY <4>2
    <3> QED
      BY <1>1, <3>1
  <2> HIDE DEF i, h
  <2> DEFINE m == n % h
             c == (n \div i) % b
  <2>2. n \div i \in Nat /\ (n % (i * b)) \div i = c /\ (n % (i * b)) - c * i = n % i
    <3>1. b \in Nat \ {0} /\ i \in Nat \ {0}
      BY <2>1
    <3>2. /\ i * b \in Nat \ {0} /\ n \div i \in Nat
          /\ n \div (i * b) = (n \div i) \div b
          /\ (n % (i * b)) \div i = (n \div i) % b
          /\ (n % (i * b)) - ((n \div i) % b) * i = n % i
      BY <3>1, Nested, Zenon
    <3> QED
      BY <3>2, Zenon
  <2>3. m \in Nat /\ m \div i = c /\ m - (m \div i) * i = n % i
    <3>1. m \in Nat
      <4>1. n \in Int /\ h \in Nat \ {0}
        BY <2>1
      <4>2. m \in 0..(h - 1)
        BY <4>1, Division
      <4> QED
        BY <4>1, <4>2
    <3>2. n % (i * b) = m
      BY <2>1
    <3> HIDE DEF m, c
    <3> QED
      BY <2>2, <3>1, <3>2
  <2>4. n < i => n \div i = 0
    <3>1. SUFFICES ASSUME n < i PROVE n \div i = 0
      OBVIOUS
    <3>2. n = (i * 0) + n /\ n \in 0..(i - 1) /\ n \in Int /\ 0 \in Int
      BY <2>1, <3>1
    <3> QED
      BY <2>1, <3>2, OneQuotient
  <2>5. n < i => c = 0
    BY <2>4
  <2>6. Character(n, i, m) = IF n < i /\ j # 0 THEN Pad ELSE c
    <3> HIDE DEF m, c
    <3> QED
      BY <2>1, <2>3, <2>5 DEF Character
  <2>7. Character(n, i, m) = DigitAt(n, b, j)
    BY <2>6 DEF DigitAt, pow, i
  <2> QED
    BY <2>3, <2>7 DEF i, h
<1> HIDE DEF pow, out
<1>6. \A j \in Nat : out[pow[j]][n % pow[j + 1]] = text(j)
  <2> DEFINE S == {j \in Nat : out[pow[j]][n % pow[j + 1]] = text(j)}
  <2>1. 0 \in S
    <3> DEFINE m == n % pow[0 + 1]
    <3>1. m \in Nat /\ Character(n, pow[0], m) = DigitAt(n, b, 0) /\ pow[0] = 1 /\ ~(pow[0] >= b)
      BY <1>1, <1>5
    <3> HIDE DEF m
    <3>2. out[pow[0]][m] = <<DigitAt(n, b, 0)>> \o <<>>
      <4>1. pow[0] \in Nat
        BY <3>1
      <4> QED
        BY <1>3, <3>1, <4>1
    <3>3. DigitAt(n, b, 0) \in Int
      BY <1>4
    <3>4. <<DigitAt(n, b, 0)>> \o <<>> = <<DigitAt(n, b, 0)>>
      <4>1. <<DigitAt(n, b, 0)>> \in Seq(Int)
        BY <3>3
      <4> QED
        BY <4>1, ConcatEmptySeq
    <3>5. <<DigitAt(n, b, 0)>> = text(0)
      BY <3>3
    <3> QED
      BY <3>2, <3>4, <3>5 DEF m
  <2>2. ASSUME NEW j \in Nat, j \in S PROVE j + 1 \in S
    <3> DEFINE i == pow[j + 1]
               m == n % pow[(j + 1) + 1]
               e == DigitAt(n, b, j + 1)
    <3>1. m \in Nat /\ Character(n, i, m) = e /\ m - (m \div i) * i = n % i
      <4>1. j + 1 \in Nat
        OBVIOUS
      <4> QED
        BY <1>5, <4>1
    <3>2. i \in Nat /\ i >= b /\ i \div b = pow[j]
      <4> DEFINE h == pow[j]
      <4>1. h \in Nat \ {0} /\ i = h * b
        BY <1>1
      <4> HIDE DEF h, i
      <4>2. b * 1 <= b * h /\ b * h \in Int /\ h * b = b * h
        BY <4>1, ProductGrows
      <4>3. i = (b * h) + 0 /\ i \in Nat /\ i >= b /\ 0 \in 0..(b - 1)
        BY <4>1, <4>2
      <4>4. i \div b = h
        <5>1. i \in Int /\ h \in Int
          BY <4>1, <4>3
        <5> QED
          BY <4>3, <5>1, OneQuotient
      <4> QED
        BY <4>3, <4>4 DEF h
    <3>3. out[i \div b][m - (m \div i) * i] = text(j)
      BY <2>2, <3>1, <3>2
    <3> HIDE DEF i, m, e
    <3>4. out[i][m] = <<e>> \o text(j)
      BY <1>3, <3>1, <3>2, <3>3
    <3>5. <<e>> \o text(j) = text(j + 1)
      <4>1. e \in Int /\ <<e>> \in Seq(Int)
        BY <1>4 DEF e
      <4>2. \A p \in 1..(j + 1) : DigitAt(n, b, (j + 1) - p) \in Int
        BY <1>4
      <4>3. text(j) \in Seq(Int) /\ Len(text(j)) = j + 1
        BY <4>2
      <4> DEFINE s == text(j)
                 t == text(j + 1)
      <4>4. /\ s \in Seq(Int) /\ Len(s) = j + 1 /\ \A p \in 1..(j + 1) : s[p] = DigitAt(n, b, (j + 1) - p)
            /\ t = [p \in 1..((j + 1) + 1) |-> DigitAt(n, b, ((j + 1) + 1) - p)]
        BY <4>3
      <4> HIDE DEF s, t
      <4>5. /\ <<e>> \o s \in Seq(Int) /\ Len(<<e>> \o s) = 1 + (j + 1)
            /\ \A p \in 1..(1 + (j + 1)) : (<<e>> \o s)[p] = IF p <= 1 THEN <<e>>[p] ELSE s[p - 1]
        <5>1. Len(<<e>>) = 1
          OBVIOUS
        <5> QED
          BY <4>1, <4>4, <5>1, ConcatProperties
      <4> DEFINE u == <<e>> \o s
      <4>6. u = [p \in 1..(1 + (j + 1)) |-> u[p]]
        <5>1. u \in Seq(Int) /\ Len(u) = 1 + (j + 1)
          BY <4>5
        <5> HIDE DEF u
        <5> QED
          BY <5>1
      <4>7. ASSUME NEW p \in 1..((j + 1) + 1) PROVE u[p] = DigitAt(n, b, ((j + 1) + 1) - p)
        <5>1. CASE p = 1
          BY <4>5, <5>1 DEF e
        <5>2. CASE p # 1
          <6>1. p - 1 \in 1..(j + 1) /\ (j + 1) - (p - 1) = ((j + 1) + 1) - p /\ ~(p <= 1)
                /\ p \in 1..(1 + (j + 1))
            BY <5>2
          <6>2. u[p] = s[p - 1]
            BY <4>5, <6>1
          <6> QED
            BY <4>4, <6>1, <6>2
        <5> QED
          BY <5>1, <5>2
      <4>8. 1 + (j + 1) = (j + 1) + 1
        OBVIOUS
      <4> HIDE DEF u
      <4>9. u = t
        BY <4>4, <4>6, <4>7, <4>8
      <4> QED
        BY <4>9 DEF u, s, t
    <3>6. out[pow[j + 1]][n % pow[(j + 1) + 1]] = text(j + 1)
      <4> HIDE DEF text
      <4> QED
        BY <3>4, <3>5, Zenon DEF i, m
    <3> QED
      BY <3>6
  <2> HIDE DEF S
  <2>3. Nat \subseteq S
    BY <2>1, <2>2, UpTo
  <2> QED
    BY <2>3 DEF S
<1>7. n % pow[k + 1] = n
  <2> DEFINE i == pow[k + 1]
  <2>1. i \in Nat \ {0} /\ n < i
    <3>1. pow[k + 1] \in Nat \ {0}
      BY <1>1
    <3> QED
      BY <3>1 DEF pow
  <2> HIDE DEF i
  <2>2. n = (i * 0) + n /\ n \in 0..(i - 1) /\ n \in Int /\ 0 \in Int
    BY <2>1
  <2>3. n % i = n
    BY <2>1, <2>2, OneResidue
  <2> QED
    BY <2>3 DEF i
<1>8. out[pow[k]][n] = text(k)
  BY <1>6, <1>7
<1> QED
  BY <1>2, <1>8 DEF pow, out

-----------------------------------------------------------------------------
(* FoldLeft, over sequences of numbers *)

LEMMA MaxIs ==
  ASSUME NEW N \in Nat, NEW s \in SUBSET (1..N), s # {}
  PROVE  Max(s) \in s /\ \A x \in s : Max(s) >= x
<1> DEFINE T == {N - x : x \in s}
<1>1. T \subseteq Nat /\ T # {}
  <2>1. PICK z \in s : TRUE
    OBVIOUS
  <2>2. N - z \in T
    OBVIOUS
  <2>3. ASSUME NEW x \in s PROVE N - x \in Nat
    <3>1. x \in 1..N
      OBVIOUS
    <3> QED
      BY <3>1
  <2> QED
    BY <2>2, <2>3
<1>2. PICK t \in T : \A u \in T : t <= u
  <2> HIDE DEF T
  <2> QED
    BY <1>1, Least
<1>3. PICK y \in s : t = N - y
  BY <1>2
<1>4. \A x \in s : y >= x
  <2>1. SUFFICES ASSUME NEW x \in s PROVE y >= x
    OBVIOUS
  <2>2. t <= N - x
    BY <1>2
  <2> QED
    BY <1>3, <2>2
<1> QED
  BY <1>3, <1>4 DEF Max

LEMMA MaxOfFirst ==
  ASSUME NEW N \in Nat, NEW t \in 1..N
  PROVE  Max(1..t) = t /\ (1..t) \ {t} = 1..(t - 1)
<1>1. Max(1..t) \in 1..t /\ \A x \in 1..t : Max(1..t) >= x
  <2>1. 1..t \in SUBSET (1..N) /\ 1..t # {}
    OBVIOUS
  <2> QED
    BY <2>1, MaxIs
<1>2. t \in 1..t
  OBVIOUS
<1>3. Max(1..t) >= t
  BY <1>1, <1>2
<1> HIDE DEF Max
<1>4. Max(1..t) = t
  BY <1>1, <1>3
<1> QED
  BY <1>4

\* A fold over the sets of numbers up to n, the greatest taken out first.
IsFold(f, n, X, base, H) ==
  /\ f \in [SUBSET (1..n) -> X]
  /\ \A s \in SUBSET (1..n) :
       f[s] = IF s = {} THEN base ELSE H[<<f[s \ {Max(s)}], Max(s)>>]

\* There is one, for any operation.
LEMMA FoldExists ==
  ASSUME NEW N \in Nat, NEW X, NEW base \in X, NEW H \in [X \X (1..N) -> X]
  PROVE  \E f : IsFold(f, N, X, base, H)
<1> DEFINE S == {n \in Nat : n <= N => \E f : IsFold(f, n, X, base, H)}
<1>1. 0 \in S
  <2>1. SUBSET (1..0) = {{}}
    OBVIOUS
  <2> DEFINE f == [s \in SUBSET (1..0) |-> base]
  <2>2. IsFold(f, 0, X, base, H)
    BY <2>1 DEF IsFold
  <2> QED
    BY <2>2
<1>2. ASSUME NEW n \in Nat, n \in S PROVE n + 1 \in S
  <2>1. SUFFICES ASSUME n + 1 <= N PROVE \E f : IsFold(f, n + 1, X, base, H)
    OBVIOUS
  <2>2. PICK f : IsFold(f, n, X, base, H)
    BY <1>2, <2>1
  <2> DEFINE g == [s \in SUBSET (1..(n + 1)) |-> IF n + 1 \in s THEN H[<<f[s \ {n + 1}], n + 1>>] ELSE f[s]]
  <2>3. ASSUME NEW s \in SUBSET (1..(n + 1))
        PROVE  /\ n + 1 \in s => s \ {n + 1} \in SUBSET (1..n) /\ s # {} /\ Max(s) = n + 1
               /\ n + 1 \notin s => s \in SUBSET (1..n)
               /\ s # {} => Max(s) \in s
    <3>1. n + 1 \notin s => s \in SUBSET (1..n)
      OBVIOUS
    <3>2. s \ {n + 1} \in SUBSET (1..n)
      OBVIOUS
    <3>3. s # {} => Max(s) \in s /\ \A x \in s : Max(s) >= x
      <4>1. n + 1 \in Nat /\ s \in SUBSET (1..(n + 1))
        OBVIOUS
      <4> QED
        BY <4>1, MaxIs
    <3>4. n + 1 \in s => Max(s) = n + 1
      <4>1. SUFFICES ASSUME n + 1 \in s PROVE Max(s) = n + 1
        OBVIOUS
      <4>2. Max(s) \in s /\ Max(s) >= n + 1
        BY <3>3, <4>1
      <4>3. Max(s) \in 1..(n + 1)
        BY <4>2
      <4> QED
        BY <4>2, <4>3
    <3> QED
      BY <3>1, <3>2, <3>3, <3>4
  <2>4. ASSUME NEW s \in SUBSET (1..(n + 1)) PROVE g[s] \in X
    <3>1. CASE n + 1 \in s
      <4>1. f[s \ {n + 1}] \in X
        BY <2>2, <2>3, <3>1 DEF IsFold
      <4>2. <<f[s \ {n + 1}], n + 1>> \in X \X (1..N)
        BY <2>1, <4>1
      <4> QED
        BY <3>1, <4>2
    <3>2. CASE n + 1 \notin s
      BY <2>2, <2>3, <3>2 DEF IsFold
    <3> QED
      BY <3>1, <3>2
  <2>5. ASSUME NEW s \in SUBSET (1..(n + 1))
        PROVE  g[s] = IF s = {} THEN base ELSE H[<<g[s \ {Max(s)}], Max(s)>>]
    <3>1. CASE n + 1 \in s
      <4>1. s \ {n + 1} \in SUBSET (1..(n + 1)) /\ n + 1 \notin s \ {n + 1}
        OBVIOUS
      <4>2. g[s \ {n + 1}] = f[s \ {n + 1}]
        BY <4>1
      <4>3. s # {} /\ Max(s) = n + 1
        BY <2>3, <3>1
      <4>4. g[s] = H[<<f[s \ {n + 1}], n + 1>>]
        BY <3>1
      <4> HIDE DEF g
      <4> QED
        BY <4>2, <4>3, <4>4
    <3>2. CASE n + 1 \notin s
      <4>1. s \in SUBSET (1..n) /\ s \ {Max(s)} \in SUBSET (1..(n + 1)) /\ n + 1 \notin s \ {Max(s)}
        BY <2>3, <3>2
      <4>2. g[s \ {Max(s)}] = f[s \ {Max(s)}] /\ g[s] = f[s]
        BY <3>2, <4>1
      <4>3. f[s] = IF s = {} THEN base ELSE H[<<f[s \ {Max(s)}], Max(s)>>]
        BY <2>2, <4>1 DEF IsFold
      <4> HIDE DEF g
      <4> QED
        BY <4>2, <4>3
    <3> QED
      BY <3>1, <3>2
  <2>6. g \in [SUBSET (1..(n + 1)) -> X]
    BY <2>4
  <2> HIDE DEF g
  <2>7. IsFold(g, n + 1, X, base, H)
    BY <2>5, <2>6 DEF IsFold
  <2> QED
    BY <2>7
<1> HIDE DEF S
<1>3. N \in S
  BY <1>1, <1>2, UpTo
<1> QED
  BY <1>3 DEF S

\* The number whose digits, in base b, are a sequence: h[t] is what the first t
\* of them make.
LEMMA ReadingIs ==
  ASSUME NEW N \in Nat, NEW seq \in [1..N -> Int], NEW b \in Nat,
         NEW h \in [0..N -> Int], h[0] = 0, \A t \in 1..N : h[t] = h[t - 1] * b + seq[t]
  PROVE  Reading(seq, b) = h[N]
<1> DEFINE Body(f) == [s \in SUBSET (1..N) |->
                         IF s = {} THEN 0 ELSE f[s \ {Max(s)}] * b + seq[Max(s)]]
           H == [a \in Int \X (1..N) |-> a[1] * b + seq[a[2]]]
           it == CHOOSE f : f = Body(f)
           S == {t \in Nat : t <= N => it[1..t] = h[t]}
<1>1. DOMAIN seq = 1..N
  OBVIOUS
<1>2. Reading(seq, b) = it[1..N]
  BY <1>1 DEF Reading, FoldLeft, MapThenFoldSet
<1>3. H \in [Int \X (1..N) -> Int]
  BY Product
<1>4. PICK f : IsFold(f, N, Int, 0, H)
  <2>1. 0 \in Int
    OBVIOUS
  <2> HIDE DEF H, Body, it, S
  <2> QED
    BY <1>3, <2>1, FoldExists
<1>5. f = Body(f)
  <2>1. ASSUME NEW s \in SUBSET (1..N) PROVE f[s] = Body(f)[s]
    <3>1. CASE s = {}
      BY <1>4, <3>1 DEF IsFold
    <3>2. CASE s # {}
      <4>1. Max(s) \in 1..N /\ s \ {Max(s)} \in SUBSET (1..N)
        BY <3>2, MaxIs
      <4>2. f[s \ {Max(s)}] \in Int
        BY <1>4, <4>1 DEF IsFold
      <4>3. f[s] = f[s \ {Max(s)}] * b + seq[Max(s)]
        BY <1>4, <3>2, <4>1, <4>2 DEF IsFold
      <4> QED
        BY <3>2, <4>3
    <3> QED
      BY <3>1, <3>2
  <2>2. f = [s \in SUBSET (1..N) |-> f[s]]
    BY <1>4 DEF IsFold
  <2> QED
    BY <2>1, <2>2
<1> HIDE DEF Body, H
<1>6. it = Body(it)
  BY <1>5
<1> HIDE DEF it
<1>7. \A s \in SUBSET (1..N) : it[s] = IF s = {} THEN 0 ELSE it[s \ {Max(s)}] * b + seq[Max(s)]
  <2> DEFINE g == Body(it)
  <2>1. \A s \in SUBSET (1..N) : g[s] = IF s = {} THEN 0 ELSE it[s \ {Max(s)}] * b + seq[Max(s)]
    BY DEF Body
  <2>2. it = g
    BY <1>6
  <2> HIDE DEF g
  <2> QED
    BY <2>1, <2>2
<1>8. 0 \in S
  <2>1. 1..0 = {} /\ {} \in SUBSET (1..N)
    OBVIOUS
  <2> QED
    BY <1>7, <2>1
<1>9. ASSUME NEW t \in Nat, t \in S PROVE t + 1 \in S
  <2>1. SUFFICES ASSUME t + 1 <= N PROVE it[1..(t + 1)] = h[t + 1]
    OBVIOUS
  <2>2. t + 1 \in 1..N /\ (t + 1) - 1 = t /\ 1..(t + 1) \in SUBSET (1..N) /\ 1..(t + 1) # {}
    <3>1. t + 1 \in 1..N /\ (t + 1) - 1 = t /\ t + 1 \in 1..(t + 1)
      BY <2>1
    <3>2. \A x \in 1..(t + 1) : x \in 1..N
      BY <2>1
    <3> QED
      BY <3>1, <3>2
  <2>3. Max(1..(t + 1)) = t + 1 /\ (1..(t + 1)) \ {t + 1} = 1..t
    BY <2>2, MaxOfFirst
  <2>4. it[1..(t + 1)] = it[1..t] * b + seq[t + 1]
    BY <1>7, <2>2, <2>3
  <2>5. it[1..t] = h[t]
    BY <1>9, <2>1
  <2> QED
    BY <2>2, <2>4, <2>5
<1> HIDE DEF S
<1>10. N \in S
  BY <1>8, <1>9, UpTo
<1> QED
  BY <1>2, <1>10 DEF S

\* The same of atoi, with what an int holds.
LEMMA AtoiIs ==
  ASSUME NEW N \in Nat, NEW seq \in [1..N -> Int],
         NEW h \in [0..N -> Int], h[0] = 0, \A t \in 1..N : h[t] = Int32(h[t - 1] * 10 + seq[t])
  PROVE  Atoi(seq) = h[N]
<1> DEFINE Body(f) == [s \in SUBSET (1..N) |->
                         IF s = {} THEN 0 ELSE Int32(f[s \ {Max(s)}] * 10 + seq[Max(s)])]
           H == [a \in Int \X (1..N) |-> Int32(a[1] * 10 + seq[a[2]])]
           it == CHOOSE f : f = Body(f)
           S == {t \in Nat : t <= N => it[1..t] = h[t]}
<1>1. DOMAIN seq = 1..N
  OBVIOUS
<1>2. Atoi(seq) = it[1..N]
  BY <1>1 DEF Atoi, FoldLeft, MapThenFoldSet
<1>3. H \in [Int \X (1..N) -> Int]
  <2>1. ASSUME NEW a \in Int \X (1..N) PROVE Int32(a[1] * 10 + seq[a[2]]) \in Int
    <3>1. a[1] * 10 + seq[a[2]] \in Int
      OBVIOUS
    <3> QED
      BY <3>1, IntKeepsResidue
  <2> QED
    BY <2>1
<1>4. PICK f : IsFold(f, N, Int, 0, H)
  <2>1. 0 \in Int
    OBVIOUS
  <2> HIDE DEF H, Body, it, S
  <2> QED
    BY <1>3, <2>1, FoldExists
<1>5. f = Body(f)
  <2>1. ASSUME NEW s \in SUBSET (1..N) PROVE f[s] = Body(f)[s]
    <3>1. CASE s = {}
      BY <1>4, <3>1 DEF IsFold
    <3>2. CASE s # {}
      <4>1. Max(s) \in 1..N /\ s \ {Max(s)} \in SUBSET (1..N)
        BY <3>2, MaxIs
      <4>2. f[s \ {Max(s)}] \in Int
        BY <1>4, <4>1 DEF IsFold
      <4>3. f[s] = Int32(f[s \ {Max(s)}] * 10 + seq[Max(s)])
        BY <1>4, <3>2, <4>1, <4>2 DEF IsFold
      <4> QED
        BY <3>2, <4>3
    <3> QED
      BY <3>1, <3>2
  <2>2. f = [s \in SUBSET (1..N) |-> f[s]]
    BY <1>4 DEF IsFold
  <2> QED
    BY <2>1, <2>2
<1> HIDE DEF Body, H
<1>6. it = Body(it)
  BY <1>5
<1> HIDE DEF it
<1>7. \A s \in SUBSET (1..N) : it[s] = IF s = {} THEN 0 ELSE Int32(it[s \ {Max(s)}] * 10 + seq[Max(s)])
  <2> DEFINE g == Body(it)
  <2>1. \A s \in SUBSET (1..N) : g[s] = IF s = {} THEN 0 ELSE Int32(it[s \ {Max(s)}] * 10 + seq[Max(s)])
    BY DEF Body
  <2>2. it = g
    BY <1>6
  <2> HIDE DEF g
  <2> QED
    BY <2>1, <2>2
<1>8. 0 \in S
  <2>1. 1..0 = {} /\ {} \in SUBSET (1..N)
    OBVIOUS
  <2> QED
    BY <1>7, <2>1
<1>9. ASSUME NEW t \in Nat, t \in S PROVE t + 1 \in S
  <2>1. SUFFICES ASSUME t + 1 <= N PROVE it[1..(t + 1)] = h[t + 1]
    OBVIOUS
  <2>2. t + 1 \in 1..N /\ (t + 1) - 1 = t /\ 1..(t + 1) \in SUBSET (1..N) /\ 1..(t + 1) # {}
    <3>1. t + 1 \in 1..N /\ (t + 1) - 1 = t /\ t + 1 \in 1..(t + 1)
      BY <2>1
    <3>2. \A x \in 1..(t + 1) : x \in 1..N
      BY <2>1
    <3> QED
      BY <3>1, <3>2
  <2>3. Max(1..(t + 1)) = t + 1 /\ (1..(t + 1)) \ {t + 1} = 1..t
    BY <2>2, MaxOfFirst
  <2>4. it[1..(t + 1)] = Int32(it[1..t] * 10 + seq[t + 1])
    BY <1>7, <2>2, <2>3
  <2>5. it[1..t] = h[t]
    BY <1>9, <2>1
  <2> QED
    BY <2>2, <2>4, <2>5
<1> HIDE DEF S
<1>10. N \in S
  BY <1>8, <1>9, UpTo
<1> QED
  BY <1>2, <1>10 DEF S

-----------------------------------------------------------------------------
\* An int holds what is below Half.
LEMMA SmallInt == ASSUME NEW z \in 0..(Half - 1) PROVE Int32(z) = z
<1> DEFINE m == 2 * Half
<1>1. m \in Nat \ {0} /\ Half \in Nat \ {0} /\ z < m /\ z \in 0..(m - 1)
  BY Widths
<1>2. z \in Int /\ 0 \in Int /\ z = (m * 0) + z
  BY <1>1
<1>3. z % m = z
  <2> HIDE DEF m
  <2> QED
    BY <1>1, <1>2, OneResidue
<1> QED
  BY <1>1, <1>3 DEF Int32

\* The quotients of a number by the powers of a base.
QuotientsOf(n, b) == [q \in Nat |-> n \div Power(b)[q]]

\* They go from the number itself down to 0, with the digits between them.
LEMMA Quotients ==
  ASSUME NEW n \in Nat, NEW b \in Nat \ {0, 1}
  PROVE  LET c == QuotientsOf(n, b)
         IN /\ c \in [Nat -> 0..n] /\ c[0] = n
            /\ \A q \in Nat : /\ c[q] = c[q + 1] * b + (c[q] % b)
                              /\ c[q] % b \in 0..(b - 1)
                              /\ (n < Power(b)[q] <=> c[q] = 0)
<1> DEFINE pow == Power(b)
           c == [q \in Nat |-> n \div pow[q]]
<1>1. /\ pow \in [Nat -> Nat \ {0}] /\ pow[0] = 1
      /\ \A q \in Nat : pow[q + 1] = pow[q] * b
  BY PowersGrow
<1> HIDE DEF pow
<1>2. ASSUME NEW q \in Nat PROVE c[q] \in 0..n /\ (n < pow[q] <=> c[q] = 0)
  <2> DEFINE i == pow[q]
             Q == n \div i
             r == n % i
  <2>1. i \in Nat \ {0}
    BY <1>1
  <2> HIDE DEF i
  <2>2. r \in 0..(i - 1) /\ Q \in Nat /\ n = (i * Q) + r
    <3>1. n \in Int /\ n \in Nat
      OBVIOUS
    <3>2. r \in 0..(i - 1) /\ n = (i * Q) + r
      BY <2>1, <3>1, Division
    <3> QED
      BY <2>1, <3>1, <3>2, NatDivision
  <2>3. Q >= 1 <=> i <= n
    <3>1. n \in Nat /\ 1 \in Nat /\ i * 1 = i
      BY <2>1
    <3> QED
      BY <2>1, <3>1, QuotientAtLeast
  <2> HIDE DEF Q, r
  <2>4. Q * 1 <= Q * i /\ Q * i \in Int /\ Q * i = i * Q
    <3>1. 1 <= i /\ 1 \in Int /\ i \in Int /\ Q \in Nat
      BY <2>1, <2>2
    <3> QED
      BY <3>1, ProductGrows
  <2>5. Q <= n
    BY <2>2, <2>4
  <2>6. Q \in 0..n /\ (n < i <=> Q = 0)
    BY <2>1, <2>2, <2>3, <2>5
  <2> QED
    BY <2>6 DEF Q, i
<1>3. ASSUME NEW q \in Nat
      PROVE  c[q] = c[q + 1] * b + (c[q] % b) /\ c[q] % b \in 0..(b - 1)
  <2> DEFINE i == pow[q]
             Q == n \div i
  <2>1. i \in Nat \ {0} /\ b \in Nat \ {0} /\ pow[q + 1] = i * b
    BY <1>1
  <2> HIDE DEF i
  <2>2. /\ i * b \in Nat \ {0} /\ Q \in Nat
        /\ n \div (i * b) = Q \div b
        /\ (n % (i * b)) \div i = Q % b
        /\ (n % (i * b)) - (Q % b) * i = n % i
    BY <2>1, Nested, Zenon
  <2>3. Q \in Nat /\ n \div (i * b) = Q \div b
    BY <2>2, Zenon
  <2>4. c[q] = Q /\ c[q + 1] = n \div (i * b)
    BY <2>1 DEF i
  <2> HIDE DEF Q, c
  <2>5. Q % b \in 0..(b - 1) /\ Q = (b * (Q \div b)) + (Q % b) /\ Q \div b \in Nat
    <3>1. Q \in Int
      BY <2>3
    <3>2. Q % b \in 0..(b - 1) /\ Q = (b * (Q \div b)) + (Q % b)
      BY <2>1, <3>1, Division
    <3> QED
      BY <2>1, <2>3, <3>2, NatDivision
  <2>6. b * (Q \div b) = (Q \div b) * b
    BY <2>1, <2>5
  <2> QED
    BY <2>3, <2>4, <2>5, <2>6
<1>4. c[0] = n
  <2>1. n = (1 * n) + 0 /\ n \in Int /\ 1 \in Nat \ {0} /\ 0 \in 0..(1 - 1)
    OBVIOUS
  <2>2. n \div 1 = n
    BY <2>1, OneQuotient
  <2> QED
    BY <1>1, <2>2
<1>5. c \in [Nat -> 0..n]
  BY <1>2
<1>6. QuotientsOf(n, b) = c
  BY DEF QuotientsOf, pow
<1> HIDE DEF c
<1> QED
  BY <1>2, <1>3, <1>4, <1>5, <1>6 DEF pow

\* The text that has pad padding characters in front of the digit for the power
\* top, which is the first that is not 0.
TextFrom(n, b, w, top, pad) ==
  /\ Formatted(n, b, w) =
       [p \in 1..(pad + top + 1) |->
          IF p <= pad THEN Pad ELSE QuotientsOf(n, b)[(pad + top + 1) - p] % b]
  /\ QuotientsOf(n, b)[top + 1] = 0 /\ (top # 0 => QuotientsOf(n, b)[top] # 0)
  /\ w <= pad + top + 1 /\ (pad # 0 => w = pad + top + 1)

\* The text has a padding character for every power above the first digit, and
\* behind them the digits, without a zero in front; it is as wide as its field,
\* or as its digits.
LEMMA PaddedText ==
  ASSUME NEW n \in Nat, NEW b \in Nat \ {0, 1}, NEW w \in Nat
  PROVE  \E top, pad \in Nat : TextFrom(n, b, w, top, pad)
<1> DEFINE pow == Power(b)
           c == QuotientsOf(n, b)
           D == {q \in Nat : n < pow[q + 1]}
<1>1. /\ pow \in [Nat -> Nat \ {0}] /\ pow[0] = 1
      /\ \A q \in Nat : pow[q] < pow[q + 1]
  BY PowersGrow
<1>2. \A q \in Nat : n < pow[q] <=> c[q] = 0
  BY Quotients
<1>3. PICK k \in Nat :
        /\ FirstIndex(n, b, w) = pow[k]
        /\ n < pow[k + 1] /\ w <= k + 1
        /\ k = 0 \/ pow[k] <= n \/ k < w
  BY FirstIndexIs
<1>4. Formatted(n, b, w) = [p \in 1..(k + 1) |-> DigitAt(n, b, (k + 1) - p)]
  BY <1>3, FormattedIs
<1>5. \A i, j \in Nat : i <= j => pow[i] <= pow[j]
  BY PowersOrdered
<1>6. \A q \in Nat : DigitAt(n, b, q) = IF n < pow[q] /\ q # 0 THEN Pad ELSE c[q] % b
  BY DEF DigitAt, QuotientsOf
<1> HIDE DEF pow, c
<1>7. PICK d \in D : \A q \in D : d <= q
  <2>1. k \in D /\ D \subseteq Nat
    BY <1>3
  <2> HIDE DEF D
  <2> QED
    BY <2>1, Least
<1>8. d <= k /\ d \in Nat /\ k - d \in Nat /\ (k - d) + d + 1 = k + 1
  BY <1>3, <1>7
<1>9. \A q \in Nat : (n < pow[q] /\ q # 0) <=> q > d
  <2>1. SUFFICES ASSUME NEW q \in Nat PROVE (n < pow[q] /\ q # 0) <=> q > d
    OBVIOUS
  <2>2. CASE q > d
    <3>1. pow[d + 1] <= pow[q] /\ n < pow[d + 1] /\ pow[d + 1] \in Nat /\ pow[q] \in Nat
      BY <1>1, <1>5, <1>7, <2>2
    <3> QED
      BY <2>2, <3>1
  <2>3. CASE q <= d /\ q # 0
    <3>1. q - 1 \in Nat /\ (q - 1) + 1 = q /\ ~(d <= q - 1)
      BY <2>3
    <3>2. q - 1 \notin D
      BY <1>7, <3>1
    <3>3. ~(n < pow[q])
      BY <3>1, <3>2
    <3> QED
      BY <2>3, <3>3
  <2> QED
    BY <2>2, <2>3
<1> DEFINE m == k - d
<1>10. Formatted(n, b, w) =
         [p \in 1..(m + d + 1) |-> IF p <= m THEN Pad ELSE c[(m + d + 1) - p] % b]
  <2>1. ASSUME NEW p \in 1..(k + 1)
        PROVE  DigitAt(n, b, (k + 1) - p) = IF p <= m THEN Pad ELSE c[(k + 1) - p] % b
    <3> DEFINE q == (k + 1) - p
    <3>1. q \in Nat /\ (q > d <=> p <= m)
      BY <1>8
    <3> HIDE DEF q, m
    <3>2. DigitAt(n, b, q) = IF p <= m THEN Pad ELSE c[q] % b
      BY <1>6, <1>9, <3>1
    <3> QED
      BY <3>2 DEF q
  <2>2. m + d + 1 = k + 1
    BY <1>8
  <2> HIDE DEF m
  <2> QED
    BY <1>4, <2>1, <2>2
<1>11. c[d + 1] = 0
  BY <1>2, <1>7
<1>12. d # 0 => c[d] # 0
  BY <1>2, <1>8, <1>9
<1>13. w <= m + d + 1 /\ (m # 0 => w = m + d + 1)
  <2>1. SUFFICES ASSUME m # 0 PROVE w = k + 1
    BY <1>3, <1>8
  <2>2. k > d /\ k # 0
    BY <1>8, <2>1
  <2>3. n < pow[k] /\ pow[k] \in Nat
    BY <1>1, <1>9, <2>2
  <2> QED
    BY <1>3, <2>2, <2>3
<1>14. m \in Nat
  BY <1>8
<1>15. d \in Nat
  BY <1>8
<1> HIDE DEF m, D
<1>16. TextFrom(n, b, w, d, m)
  BY <1>10, <1>11, <1>12, <1>13 DEF TextFrom, c
<1> QED
  BY <1>14, <1>15, <1>16, Zenon

\* vasputf for %d and %x, with or without a width (console.c 187-225): whatever
\* the number, the base and the width, no padding comes behind a digit, there is
\* at least one digit and no zero in front, the text is as wide as its field or
\* as its digits, the digits are the number, and in decimal, if the number fits
\* a value, atoi reads it back.
THEOREM NumbersReadBack ==
  ASSUME NEW n \in Nat, NEW base \in Nat \ {0, 1}, NEW width \in Nat
  PROVE  ReadsBack(n, base, width)
<1> DEFINE c == QuotientsOf(n, base)
           text == Formatted(n, base, width)
<1>1. /\ c \in [Nat -> 0..n] /\ c[0] = n
      /\ \A q \in Nat : /\ c[q] = c[q + 1] * base + (c[q] % base)
                        /\ c[q] % base \in 0..(base - 1)
  <2>1. /\ c \in [Nat -> 0..n] /\ c[0] = n
        /\ \A q \in Nat : /\ c[q] = c[q + 1] * base + (c[q] % base)
                          /\ c[q] % base \in 0..(base - 1)
                          /\ (n < Power(base)[q] <=> c[q] = 0)
    BY Quotients DEF c
  <2> QED
    BY <2>1, Zenon
<1> HIDE DEF c, text
<1>2. PICK d \in Nat, pad \in Nat : TextFrom(n, base, width, d, pad)
  BY PaddedText, Zenon
<1> DEFINE N == d + 1
           padding == Cardinality({p \in DOMAIN text : text[p] = Pad})
           shown == SubSeq(text, padding + 1, Len(text))
<1>3. /\ text = [p \in 1..(pad + d + 1) |->
                    IF p <= pad THEN Pad ELSE c[(pad + d + 1) - p] % base]
      /\ c[d + 1] = 0 /\ (d # 0 => c[d] # 0)
      /\ width <= pad + d + 1 /\ (pad # 0 => width = pad + d + 1)
  BY <1>2 DEF TextFrom, c, text
<1>4. DOMAIN text = 1..(pad + N) /\ N \in Nat /\ N >= 1 /\ Len(text) = pad + N
  <2>1. DOMAIN text = 1..(pad + N) /\ pad + N \in Nat
    BY <1>3
  <2> QED
    BY <2>1
<1>5. \A p \in 1..(pad + N) :
        /\ p <= pad => text[p] = Pad
        /\ p > pad => text[p] = c[(pad + N) - p] % base /\ text[p] \in 0..(base - 1) /\ text[p] # Pad
  <2>1. SUFFICES ASSUME NEW p \in 1..(pad + N)
                 PROVE  /\ p <= pad => text[p] = Pad
                        /\ p > pad => /\ text[p] = c[(pad + N) - p] % base
                                      /\ text[p] \in 0..(base - 1) /\ text[p] # Pad
    OBVIOUS
  <2>2. text[p] = IF p <= pad THEN Pad ELSE c[(pad + N) - p] % base
    <3>1. pad + N = pad + d + 1
      OBVIOUS
    <3> QED
      BY <1>3, <3>1
  <2>3. (pad + N) - p \in Nat
    OBVIOUS
  <2>4. c[(pad + N) - p] % base \in 0..(base - 1)
    BY <1>1, <2>3
  <2> QED
    BY <2>2, <2>4 DEF Pad
<1> HIDE DEF N
<1>6. padding = pad
  <2>1. {p \in DOMAIN text : text[p] = Pad} = 1..pad
    <3>1. \A p \in DOMAIN text : text[p] = Pad <=> p \in 1..pad
      BY <1>4, <1>5
    <3>2. \A p \in 1..pad : p \in DOMAIN text
      BY <1>4
    <3> QED
      BY <3>1, <3>2
  <2>2. Cardinality(1..pad) = pad
    <3>1. 1 \in Int /\ pad \in Int
      OBVIOUS
    <3>2. Cardinality(1..pad) = IF 1 > pad THEN 0 ELSE pad - 1 + 1
      BY <3>1, FS_Interval
    <3> QED
      BY <3>2
  <2> QED
    BY <2>1, <2>2
<1>7. /\ shown \in [1..N -> 0..(base - 1)] /\ Len(shown) = N
      /\ \A t \in 1..N : shown[t] = c[N - t] % base
  <2> DEFINE from == pad + 1
             to == pad + N
             s == SubSeq(text, from, to)
  <2>1. \A i \in from..to : text[i] \in 0..(base - 1)
    BY <1>4, <1>5
  <2>2. from \in Int /\ to \in Int
    BY <1>4
  <2>3. /\ s \in Seq(0..(base - 1))
        /\ Len(s) = IF from <= to THEN (to - from) + 1 ELSE 0
        /\ \A i \in 1..((to - from) + 1) : s[i] = text[(from + i) - 1]
    <3> HIDE DEF from, to
    <3> QED
      BY <2>1, <2>2, SubSeqProperties
  <2>4. shown = s
    BY <1>4, <1>6
  <2>5. from <= to /\ (to - from) + 1 = N
    BY <1>4
  <2>6. Len(s) = N /\ s \in [1..N -> 0..(base - 1)]
    <3> HIDE DEF s, from, to
    <3> QED
      BY <1>4, <2>3, <2>5
  <2>7. ASSUME NEW t \in 1..N PROVE s[t] = c[N - t] % base
    <3>1. pad + t \in 1..(pad + N) /\ pad + t > pad /\ (pad + N) - (pad + t) = N - t
            /\ (from + t) - 1 = pad + t
      BY <1>4
    <3>2. s[t] = text[pad + t]
      BY <2>3, <2>5, <3>1
    <3>3. \A p \in 1..(pad + N) : p > pad => text[p] = c[(pad + N) - p] % base
      BY <1>5, Zenon
    <3>4. pad + t \in 1..(pad + N) /\ pad + t > pad
      BY <3>1
    <3>5. text[pad + t] = c[(pad + N) - (pad + t)] % base
      BY <3>3, <3>4, Zenon
    <3> HIDE DEF s, from, to
    <3> QED
      BY <3>1, <3>2, <3>5
  <2> HIDE DEF s, shown
  <2> QED
    BY <2>4, <2>6, <2>7
<1> HIDE DEF padding, shown
<1>8. /\ \A p \in 1..padding : text[p] = Pad
      /\ \A p \in DOMAIN shown : shown[p] \in 0..(base - 1)
  <2>1. DOMAIN shown = 1..N
    BY <1>7
  <2> QED
    BY <1>4, <1>5, <1>6, <1>7, <2>1
<1>9. shown # <<>> /\ (Len(shown) > 1 => shown[1] # 0)
  <2>1. shown # <<>>
    <3>1. Len(shown) >= 1
      BY <1>4, <1>7
    <3> QED
      BY <3>1
  <2>2. ASSUME Len(shown) > 1 PROVE shown[1] # 0
    <3>1. d # 0 /\ 1 \in 1..N /\ N - 1 = d
      BY <1>7, <2>2 DEF N
    <3> DEFINE r == c[d] % base
    <3>2. shown[1] = r
      BY <1>7, <3>1
    <3>3. c[d] = c[d + 1] * base + r /\ r \in 0..(base - 1)
      BY <1>1
    <3> HIDE DEF r
    <3>4. 0 * base = 0
      OBVIOUS
    <3>5. c[d] = 0 + r
      BY <1>3, <3>3, <3>4
    <3> QED
      BY <1>3, <3>1, <3>2, <3>3, <3>5
  <2> QED
    BY <2>1, <2>2
<1>10. Len(text) = IF width > Len(shown) THEN width ELSE Len(shown)
  <2>1. width <= pad + N /\ (pad # 0 => width = pad + N)
    BY <1>3 DEF N
  <2> QED
    BY <1>4, <1>7, <2>1
<1> DEFINE h == [t \in 0..N |-> c[N - t]]
<1>11. /\ h \in [0..N -> 0..n] /\ h[0] = 0 /\ h[N] = n
       /\ \A t \in 1..N : h[t] = h[t - 1] * base + shown[t]
  <2>1. \A t \in 0..N : N - t \in Nat
    BY <1>4
  <2>2. h \in [0..N -> 0..n]
    BY <1>1, <2>1
  <2>3. h[0] = 0 /\ h[N] = n
    <3>1. 0 \in 0..N /\ N \in 0..N /\ N - 0 = d + 1 /\ N - N = 0
      BY <1>4 DEF N
    <3> QED
      BY <1>1, <1>3, <3>1
  <2>4. ASSUME NEW t \in 1..N PROVE h[t] = h[t - 1] * base + shown[t]
    <3>1. t \in 0..N /\ t - 1 \in 0..N /\ N - t \in Nat /\ (N - t) + 1 = N - (t - 1)
      BY <1>4
    <3>2. h[t] = c[N - t] /\ h[t - 1] = c[(N - t) + 1] /\ shown[t] = c[N - t] % base
      BY <1>7, <3>1
    <3>3. c[N - t] = c[(N - t) + 1] * base + (c[N - t] % base)
      BY <1>1, <3>1
    <3> HIDE DEF h
    <3> QED
      BY <3>2, <3>3
  <2> HIDE DEF h
  <2> QED
    BY <2>2, <2>3, <2>4
<1>12. shown \in [1..N -> Int] /\ h \in [0..N -> Int]
  <2>1. \A t \in 1..N : shown[t] \in Int
    BY <1>7
  <2>2. \A t \in 0..N : h[t] \in Int
    BY <1>11
  <2> HIDE DEF h
  <2> QED
    BY <1>7, <1>11, <2>1, <2>2
<1> HIDE DEF h
<1>13. Reading(shown, base) = n
  <2>1. /\ N \in Nat /\ base \in Nat /\ h[0] = 0 /\ h[N] = n
        /\ \A t \in 1..N : h[t] = h[t - 1] * base + shown[t]
    BY <1>4, <1>11
  <2>2. Reading(shown, base) = h[N]
    BY ZenonT(60), <1>12, <2>1, ReadingIs
  <2> QED
    BY <2>1, <2>2
<1>14. base = 10 /\ n < Half => Atoi(shown) = n
  <2>1. SUFFICES ASSUME base = 10, n < Half PROVE Atoi(shown) = n
    OBVIOUS
  <2>2. ASSUME NEW t \in 1..N PROVE h[t] = Int32(h[t - 1] * 10 + shown[t])
    <3>1. t \in 0..N
      BY <1>4
    <3>2. h[t] \in 0..(Half - 1)
      BY <1>11, <2>1, <3>1, Widths
    <3>3. h[t] = h[t - 1] * 10 + shown[t]
      BY <1>11, <2>1
    <3>4. Int32(h[t]) = h[t]
      BY <3>2, SmallInt
    <3> QED
      BY <3>3, <3>4
  <2>3. Atoi(shown) = h[N]
    BY <1>4, <1>11, <1>12, <2>2, AtoiIs
  <2> QED
    BY <1>11, <2>3
<1> QED
  BY <1>8, <1>9, <1>10, <1>13, <1>14 DEF ReadsBack, text, padding, shown
=============================================================================
