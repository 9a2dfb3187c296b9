-------------------------- MODULE HeapAloneProofs --------------------------
(***************************************************************************)
(* Theorems about module HeapAlone, for every arena and all sizes asked    *)
(* for: the steps of malloc and free, if one caller alone takes them, make *)
(* the atomic calls of Heap.                                               *)
(***************************************************************************)
EXTENDS HeapAlone, Lemmas

\* The heap as the last call left it, with what is proved of Heap.
HP == INSTANCE HeapProofs WITH
  next <- start.next, prev <- start.prev, size <- start.size,
  free <- start.free, inUse <- start.inUse, held <- start.held

Old == HP!Entries
Has == held[Caller]
Now == cur[Caller]
Asked == want[Caller]

\* The links and sizes of the old blocks are as they were.
SameLinks ==
  /\ \A a \in Old : /\ next[a] = start.next[a] /\ prev[a] = start.prev[a]
                    /\ size[a] = start.size[a]
  /\ prev[NULL] = start.prev[NULL]
  /\ inUse = start.inUse

Untouched == SameLinks /\ \A a \in Old : free[a] = start.free[a]

\* The old block e is free and was joined with those from a to z.
Remaining(e, a, z) == {f \in Old : f = a \/ (f # e /\ f # z)}
Joined(e, a, z) ==
  LET after == start.next[z] IN
  /\ \A f \in Remaining(e, a, z) :
       /\ next[f] = IF f = a THEN after ELSE start.next[f]
       /\ prev[f] = IF f = after THEN a ELSE start.prev[f]
       /\ size[f] = IF f = a THEN HP!Gained(a, e) + start.size[e] + HP!Gained(z, e)
                             ELSE start.size[f]
       /\ free[f] = IF f = a THEN TRUE ELSE start.free[f]
  /\ prev[NULL] = start.prev[NULL]
  /\ inUse = start.inUse - start.size[e] - HP!HeaderOf(a, e) - HP!HeaderOf(z, e)

\* The caller has given back block e.
GaveBack(e) ==
  /\ e \in Old /\ ~start.free[e] /\ e + HeaderSize \in DOMAIN start.held
  /\ Has = [q \in DOMAIN start.held \ {e + HeaderSize} |-> start.held[q]]

\* The blocks before the one looked at do not fit.
NoneBefore ==
  \A f \in Old : Now = NULL \/ f < Now => ~(start.free[f] /\ start.size[f] >= Asked)

InMalloc == Asked \in Sizes /\ Has = start.held

\* How the memory and the heap before the call are related, at each place.
Progress ==
  \/ At(Caller, "out") /\ Untouched /\ Has = start.held
  \/ /\ At(Caller, "search") /\ Untouched /\ InMalloc
     /\ Now \in Old \cup {NULL} /\ NoneBefore
  \/ /\ At(Caller, "claim") /\ Untouched /\ InMalloc
     /\ HP!FirstFit(Now, Asked)
  \/ /\ At(Caller, "cut") /\ SameLinks /\ InMalloc
     /\ HP!FirstFit(Now, Asked)
     /\ \A a \in Old : free[a] = IF a = Now THEN FALSE ELSE start.free[a]
  \/ At(Caller, "check") /\ Untouched /\ GaveBack(Now)
  \/ /\ At(Caller, "back")
     /\ \E e \in Old : /\ GaveBack(e) /\ Now \in {e, HP!Into(e)}
                       /\ Joined(e, Now, e)
  \/ /\ At(Caller, "forth")
     /\ \E e \in Old : /\ GaveBack(e) /\ Now = HP!Into(e)
                       /\ \/ Joined(e, Now, e)
                          \/ Joined(e, Now, HP!Last(e))

\* The types of the memory and of what the caller looks at.
MemoryTypeOK ==
  /\ next \in [Addr -> Addr] /\ prev \in [Addr -> Addr]
  /\ size \in [Addr -> Int] /\ free \in [Addr -> BOOLEAN]
  /\ DOMAIN pc = {Caller} /\ DOMAIN cur = {Caller}
  /\ DOMAIN want = {Caller} /\ DOMAIN held = {Caller}
  /\ Now \in Addr /\ Asked \in Nat

\* What every call of malloc and free is proved to keep of the heap.
Sound == HP!HeapInv /\ HP!Aligned /\ HP!NullIsNoExpr

AloneInv == MemoryTypeOK /\ Sound /\ Progress
-----------------------------------------------------------------------------
(* The list *)

\* The blocks on the way from block a, as the least set with a that has the
\* next of each of its blocks.
Onward(nx, a) ==
  {x \in Addr \ {NULL} :
     \A C \in SUBSET Addr :
       a \in C /\ (\A c \in C : c = NULL \/ nx[c] \in C) => x \in C}

\* They are the block and those on the way from its next.
LEMMA OnwardFrom ==
  ASSUME NEW nx \in [Addr -> Addr], NEW a \in Addr
  PROVE  Onward(nx, a) = IF a = NULL THEN {} ELSE {a} \cup Onward(nx, nx[a])
<1> DEFINE Closed(C) == \A c \in C : c = NULL \/ nx[c] \in C
<1>1. CASE a = NULL
  <2>1. {NULL} \in SUBSET Addr /\ a \in {NULL} /\ Closed({NULL})
    BY <1>1 DEF Addr
  <2>2. ASSUME NEW x \in Onward(nx, a) PROVE FALSE
    BY <2>1, <2>2 DEF Onward
  <2> QED
    BY <1>1, <2>2
<1>2. CASE a # NULL
  <2>1. ASSUME NEW x \in Onward(nx, a) PROVE x = a \/ x \in Onward(nx, nx[a])
    <3>1. SUFFICES ASSUME x # a PROVE x \in Onward(nx, nx[a])
      OBVIOUS
    <3>2. x \in Addr \ {NULL}
      BY DEF Onward
    <3>3. ASSUME NEW C \in SUBSET Addr, nx[a] \in C, Closed(C) PROVE x \in C
      <4>1. C \cup {a} \in SUBSET Addr /\ a \in C \cup {a} /\ Closed(C \cup {a})
        BY <3>3
      <4>2. x \in C \cup {a}
        BY <4>1 DEF Onward
      <4> QED
        BY <3>1, <4>2
    <3> QED
      BY <3>2, <3>3 DEF Onward
  <2>2. a \in Onward(nx, a)
    BY <1>2 DEF Onward
  <2>3. ASSUME NEW x \in Onward(nx, nx[a]) PROVE x \in Onward(nx, a)
    <3>1. ASSUME NEW C \in SUBSET Addr, a \in C, Closed(C) PROVE x \in C
      <4>1. nx[a] \in C
        BY <1>2, <3>1
      <4> QED
        BY <3>1, <4>1 DEF Onward
    <3> QED
      BY <3>1 DEF Onward
  <2> HIDE DEF Closed
  <2> QED
    BY <1>2, <2>1, <2>2, <2>3
<1> QED
  BY <1>1, <1>2

\* Listed, for any links.
Way(nx) ==
  LET from[a \in Addr] == IF a = NULL THEN {} ELSE {a} \cup from[nx[a]]
  IN  from[Base]

\* It is the only set of blocks that the links lead through from Base.
LEMMA WayIs ==
  ASSUME NEW nx \in [Addr -> Addr], NEW S \in SUBSET (Addr \ {NULL}), Base \in S,
         \A a \in S : nx[a] = NULL \/ (nx[a] \in S /\ a < nx[a]),
         \A a \in S : a = Base \/ \E b \in S : b < a /\ nx[b] = a
  PROVE  Way(nx) = S
<1> DEFINE Is(f) == f = [a \in Addr |-> IF a = NULL THEN {}
                                                    ELSE {a} \cup f[nx[a]]]
           from == CHOOSE f : Is(f)
<1>1. Way(nx) = from[Base]
  BY DEF Way
<1>2. \E f : Is(f)
  <2> DEFINE f == [a \in Addr |-> Onward(nx, a)]
  <2>1. ASSUME NEW a \in Addr
        PROVE  f[a] = IF a = NULL THEN {} ELSE {a} \cup f[nx[a]]
    <3>1. nx[a] \in Addr
      OBVIOUS
    <3> QED
      BY <3>1, OnwardFrom
  <2>2. f = [a \in Addr |-> IF a = NULL THEN {} ELSE {a} \cup f[nx[a]]]
    <3>1. f = [a \in Addr |-> f[a]]
      OBVIOUS
    <3> HIDE DEF f
    <3> QED
      BY <2>1, <3>1, Zenon
  <2> HIDE DEF f
  <2> QED
    BY <2>2
<1> HIDE DEF Is
<1>3. Is(from)
  BY <1>2
<1> HIDE DEF from
<1>4. \A a \in Addr : from[a] = IF a = NULL THEN {} ELSE {a} \cup from[nx[a]]
  BY <1>3 DEF Is
<1>5. S \subseteq Nat /\ \A a \in S : a <= Upper /\ a \in Addr /\ a # NULL /\ Upper \in Nat
  BY StepsAssumption DEF Addr, Base, NULL
<1>6. ASSUME NEW a \in S PROVE from[a] \subseteq S
  <2> DEFINE T == {Upper - b : b \in {c \in S : ~(from[c] \subseteq S)}}
  <2>1. SUFFICES ASSUME T # {} PROVE FALSE
    OBVIOUS
  <2>2. T \subseteq Nat
    BY <1>5
  <2>3. PICK n \in T : \A m \in T : n <= m
    BY <2>1, <2>2, Least, Zenon
  <2>4. PICK b \in S : n = Upper - b /\ ~(from[b] \subseteq S)
    BY <2>3
  <2>5. from[b] = {b} \cup from[nx[b]]
    BY <1>4, <1>5
  <2>6. CASE nx[b] = NULL
    <3>1. from[nx[b]] = {}
      BY <1>4, <2>6 DEF Addr
    <3> QED
      BY <2>4, <2>5, <3>1
  <2>7. CASE nx[b] # NULL
    <3>1. nx[b] \in S /\ b < nx[b]
      BY <2>7
    <3>2. Upper - nx[b] \notin T
      <4> DEFINE c == nx[b]
      <4>3. b \in Nat /\ c \in Nat /\ Upper \in Nat /\ b < c
        BY <1>5, <3>1
      <4> HIDE DEF c, T
      <4>1. Upper - c < n /\ n \in Int /\ Upper - c \in Int
        BY <2>4, <4>3
      <4>2. ~(n <= Upper - c)
        BY <4>1
      <4> QED
        BY <2>3, <4>2 DEF c
    <3>3. from[nx[b]] \subseteq S
      BY <3>1, <3>2
    <3> QED
      BY <2>4, <2>5, <3>3
  <2> QED
    BY <2>6, <2>7
<1>7. ASSUME NEW a \in S PROVE a \in from[Base] /\ from[a] \subseteq from[Base]
  <2> DEFINE T == {c \in S : ~(c \in from[Base] /\ from[c] \subseteq from[Base])}
  <2>1. SUFFICES ASSUME T # {} PROVE FALSE
    OBVIOUS
  <2>2. T \subseteq Nat
    BY <1>5
  <2>3. PICK n \in T : \A m \in T : n <= m
    BY <2>1, <2>2, Least, Zenon
  <2>4. n \in S /\ from[n] = {n} \cup from[nx[n]]
    BY <1>4, <1>5, <2>3
  <2>5. n # Base
    BY <2>3, <2>4
  <2>6. PICK b \in S : b < n /\ nx[b] = n
    BY <2>4, <2>5
  <2>7. b \notin T
    <3>1. b \in Nat /\ n \in Nat
      BY <1>5, <2>4
    <3> QED
      BY <2>3, <2>6, <3>1
  <2>8. from[b] = {b} \cup from[n]
    BY <1>4, <1>5, <2>6
  <2> QED
    BY <2>3, <2>4, <2>7, <2>8
<1>8. from[Base] = S
  BY <1>6, <1>7
<1> QED
  BY <1>1, <1>8

-----------------------------------------------------------------------------
(* The heap as the last call left it *)

\* What HeapSteps and Heap name alike is the same: Lower is aligned already.
LEMMA SameNames ==
  /\ HP!Base = Base /\ HP!HeaderSize = 16 /\ HeaderSize = 16
  /\ HP!NULL = 0 /\ NULL = 0
  /\ Base \in Nat \ {0} /\ Base % 4 = 0 /\ Upper \in Nat
  /\ HP!HeapAssumption
<1>1. HP!Base = Base
  BY StepsAssumption DEF HP!Base, HP!Align, Base
<1> QED
  BY <1>1, StepsAssumption
     DEF HP!HeapAssumption, HP!HeapSize, HP!HeaderSize, HeaderSize, HP!NULL,
         NULL, Base

\* Sizes are aligned already.
LEMMA SizesAligned ==
  ASSUME NEW n \in Sizes
  PROVE  n \in Nat \ {0} /\ n % 4 = 0 /\ HP!Align(n) = n
BY StepsAssumption DEF HP!Align

\* A block and its neighbours.
LEMMA OldBlock ==
  ASSUME Sound, NEW e \in Old
  PROVE  /\ e \in Nat \ {0} /\ e \in Addr /\ e >= Base
         /\ start.size[e] \in Nat /\ e + 16 + start.size[e] <= Upper
         /\ start.free[e] \in BOOLEAN
         /\ start.next[e] # 0 =>
              /\ start.next[e] \in Old /\ start.next[e] = e + 16 + start.size[e]
              /\ start.prev[start.next[e]] = e /\ e < start.next[e]
         /\ start.prev[e] # 0 =>
              /\ start.prev[e] \in Old /\ start.prev[e] < e
              /\ start.next[start.prev[e]] = e
         /\ start.prev[e] = 0 => e = Base
<1>1. HP!HeapInv /\ e \in HP!Entries /\ HP!HeapAssumption
  BY SameNames DEF Sound, Old
<1>2. /\ e \in Nat /\ e >= HP!Base /\ start.size[e] \in Nat
      /\ HP!End(e) <= Upper
      /\ start.next[e] # HP!NULL => /\ start.next[e] \in HP!Entries
                                    /\ start.next[e] = HP!End(e)
                                    /\ start.prev[start.next[e]] = e
      /\ start.prev[e] # HP!NULL => /\ start.prev[e] \in HP!Entries
                                    /\ HP!End(start.prev[e]) = e
                                    /\ start.next[start.prev[e]] = e
  BY <1>1, HP!Neighbours
<1>3. HP!End(e) = e + 16 + start.size[e]
  BY SameNames DEF HP!End
<1>4. start.prev[e] # 0 => start.prev[e] < e
  <2>1. SUFFICES ASSUME start.prev[e] # 0 PROVE start.prev[e] < e
    OBVIOUS
  <2>2. start.prev[e] \in HP!Entries /\ HP!End(start.prev[e]) = e
    BY <1>2, <2>1, SameNames
  <2>3. start.prev[e] \in Nat /\ start.prev[e] < HP!End(start.prev[e])
    BY <1>1, <2>2, HP!Neighbours
  <2> QED
    BY <2>2, <2>3
<1>5. e % 4 = 0 /\ start.free[e] \in BOOLEAN
  BY <1>1 DEF Sound, HP!Aligned, HP!HeapInv, HP!HeapTypeOK
<1>6. start.prev[e] = 0 => e = Base
  BY <1>1, SameNames DEF HP!HeapInv, HP!Chained
<1>7. e \in Addr /\ e # 0
  BY <1>2, <1>3, <1>5, SameNames DEF Addr
<1> QED
  BY <1>2, <1>3, <1>4, <1>5, <1>6, <1>7, SameNames DEF Old

\* What is held lies in blocks that are not free, and Base is one.
LEMMA OldHeld ==
  ASSUME Sound
  PROVE  /\ Base \in Old /\ DOMAIN start.held \subseteq Nat
         /\ \A p \in DOMAIN start.held : p - 16 \in Old /\ ~start.free[p - 16]
         /\ start.next \in [Old -> Old \cup {0}]
         /\ DOMAIN start.prev = Old \cup {0} /\ start.prev \in [Old \cup {0} -> Nat]
         /\ start.size \in [Old -> Nat] /\ start.free \in [Old -> BOOLEAN]
         /\ start.inUse \in Int
BY SameNames DEF Sound, Old, HP!HeapInv, HP!HeapTypeOK, HP!HeldInUse

\* A call of Heap keeps what is proved of Heap.
LEMMA SoundNext ==
  ASSUME Sound, HP!HeapNext
  PROVE  Sound'
<1>1. HP!HeapAssumption /\ HP!HeapInv /\ HP!Aligned /\ HP!NullIsNoExpr
  BY SameNames DEF Sound
<1>2. HP!HeapInv'
  <2>1. CASE \E n \in Sizes : HP!Malloc(n)
    BY <1>1, <2>1, HP!MallocIInv
  <2>2. CASE \E p \in HP!Pointers : HP!Free(p)
    BY <1>1, <2>2, HP!FreeIInv
  <2> QED
    BY <2>1, <2>2 DEF HP!HeapNext
<1>3. HP!Aligned' /\ HP!NullIsNoExpr'
  BY <1>1, HP!AddressesNext
<1> QED
  BY <1>2, <1>3 DEF Sound

-----------------------------------------------------------------------------
(* The steps *)

\* At the return of a call, Image takes up the list as it is then.
LEMMA ImageTaken ==
  ASSUME NEW S, start' = Image', Way(next') = S
  PROVE  /\ start'.next = [a \in S |-> next'[a]]
         /\ start'.prev = [a \in S \cup {0} |-> prev'[a]]
         /\ start'.size = [a \in S |-> size'[a]]
         /\ start'.free = [a \in S |-> free'[a]]
         /\ start'.inUse = inUse' /\ start'.held = Has'
         /\ Old' = S /\ Untouched' /\ (Has = start.held)'
<1>1. Listed' = S
  BY DEF Listed, Way
<1>2. /\ start'.next = [a \in S |-> next'[a]]
      /\ start'.prev = [a \in S \cup {0} |-> prev'[a]]
      /\ start'.size = [a \in S |-> size'[a]]
      /\ start'.free = [a \in S |-> free'[a]]
      /\ start'.inUse = inUse' /\ start'.held = Has'
  BY <1>1 DEF Image, Restrict, Has, NULL
<1>3. Old' = S
  BY <1>2 DEF Old, HP!Entries
<1> QED
  BY <1>2, <1>3 DEF Untouched, SameLinks, NULL

\* heap_init makes the heap that Heap begins with.
LEMMA AloneInitOK == AloneInit => HP!HeapInit /\ AloneInv
<1> SUFFICES ASSUME AloneInit PROVE HP!HeapInit /\ AloneInv
  OBVIOUS
<1>1. Base \in Addr /\ Base # NULL /\ NULL \in Addr /\ Upper - Base - 16 \in Nat
  BY SameNames, StepsAssumption DEF Addr, Base, HeaderSize
<1>2. MemoryTypeOK
  <2>1. /\ next \in [Addr -> Addr] /\ prev \in [Addr -> Addr]
        /\ size \in [Addr -> Int] /\ free \in [Addr -> BOOLEAN]
    BY <1>1, SameNames DEF AloneInit, StepsInit
  <2> QED
    BY <1>1, <2>1, AloneAssumption DEF AloneInit, StepsInit, MemoryTypeOK, Now, Asked
<1>3. Way(next) = {Base}
  <2>1. next[Base] = NULL
    BY <1>1 DEF AloneInit, StepsInit
  <2> DEFINE S == {Base}
  <2>2. /\ S \in SUBSET (Addr \ {NULL}) /\ Base \in S
        /\ \A a \in S : next[a] = NULL \/ (next[a] \in S /\ a < next[a])
        /\ \A a \in S : a = Base \/ \E b \in S : b < a /\ next[b] = a
    BY <1>1, <2>1
  <2>3. next \in [Addr -> Addr]
    BY <1>2 DEF MemoryTypeOK
  <2> HIDE DEF S
  <2>4. Way(next) = S
    BY <2>2, <2>3, WayIs
  <2> QED
    BY <2>4 DEF S
<1>4. Listed = {Base}
  BY <1>3 DEF Listed, Way
<1>5. /\ start.next = [a \in {Base} |-> NULL]
      /\ start.prev = [a \in {Base, NULL} |-> NULL]
      /\ start.size = [a \in {Base} |-> Upper - Base - HeaderSize]
      /\ start.free = [a \in {Base} |-> TRUE]
      /\ start.inUse = 0 /\ start.held = [p \in {} |-> 0]
  <2>1. start = Image
    BY DEF AloneInit
  <2>2. {Base} \cup {NULL} = {Base, NULL}
    OBVIOUS
  <2>3. /\ start.next = [a \in {Base} |-> next[a]]
        /\ start.prev = [a \in {Base, NULL} |-> prev[a]]
        /\ start.size = [a \in {Base} |-> size[a]]
        /\ start.free = [a \in {Base} |-> free[a]]
        /\ start.inUse = inUse /\ start.held = held[Caller]
    BY <1>4, <2>1, <2>2 DEF Image, Restrict
  <2>4. /\ next[Base] = NULL /\ prev[Base] = NULL /\ prev[NULL] = NULL
        /\ size[Base] = Upper - Base - HeaderSize /\ free[Base] = TRUE
        /\ inUse = 0 /\ held[Caller] = [p \in {} |-> 0]
    <3>1. next[Base] = NULL /\ prev[Base] = NULL /\ prev[NULL] = NULL
      BY <1>1 DEF AloneInit, StepsInit
    <3>2. size[Base] = Upper - Base - HeaderSize
      BY <1>1 DEF AloneInit, StepsInit
    <3>3. free[Base] = TRUE
      BY <1>1 DEF AloneInit, StepsInit
    <3>4. inUse = 0 /\ held[Caller] = [p \in {} |-> 0]
      BY AloneAssumption DEF AloneInit, StepsInit
    <3> QED
      BY <3>1, <3>2, <3>3, <3>4
  <2>5. start.next = [a \in {Base} |-> NULL]
    <3>1. start.next = [a \in {Base} |-> next[a]]
      BY <2>3
    <3>2. \A a \in {Base} : next[a] = NULL
      BY <2>4
    <3> QED
      BY <3>1, <3>2, Zenon
  <2>6. start.prev = [a \in {Base, NULL} |-> NULL]
    <3>1. start.prev = [a \in {Base, NULL} |-> prev[a]]
      BY <2>3
    <3>2. \A a \in {Base, NULL} : prev[a] = NULL
      BY <2>4
    <3> QED
      BY <3>1, <3>2, Zenon
  <2>7. start.size = [a \in {Base} |-> Upper - Base - HeaderSize]
    <3>1. start.size = [a \in {Base} |-> size[a]]
      BY <2>3
    <3>2. \A a \in {Base} : size[a] = Upper - Base - HeaderSize
      BY <2>4
    <3> QED
      BY <3>1, <3>2, Zenon
  <2>8. start.free = [a \in {Base} |-> TRUE]
    <3>1. start.free = [a \in {Base} |-> free[a]]
      BY <2>3
    <3>2. \A a \in {Base} : free[a] = TRUE
      BY <2>4
    <3> QED
      BY <3>1, <3>2, Zenon
  <2> QED
    BY <2>3, <2>4, <2>5, <2>6, <2>7, <2>8
<1>6. HP!HeapInit
  <2>1. HP!HeapSize = Upper - Base - HeaderSize
    BY SameNames DEF HP!HeapSize
  <2>2. {HP!NULL, HP!Base} = {Base, NULL}
    BY SameNames
  <2> QED
    BY <1>5, <2>1, <2>2, SameNames DEF HP!HeapInit
<1>7. Sound
  BY <1>6, SameNames, HP!InitIInv, HP!AddressesInit DEF Sound
<1>8. Progress
  <2>1. Old = {Base}
    BY <1>5 DEF Old, HP!Entries
  <2>2. Untouched
    <3>1. /\ next[Base] = NULL /\ prev[Base] = NULL /\ prev[NULL] = NULL
          /\ size[Base] = Upper - Base - HeaderSize
      BY <1>1 DEF AloneInit, StepsInit
    <3>2. free[Base] = TRUE /\ inUse = 0
      BY <1>1 DEF AloneInit, StepsInit
    <3>3. /\ start.next[Base] = NULL /\ start.prev[Base] = NULL
          /\ start.prev[NULL] = NULL /\ start.size[Base] = Upper - Base - HeaderSize
          /\ start.free[Base] = TRUE /\ start.inUse = 0
      BY <1>5
    <3> QED
      BY <2>1, <3>1, <3>2, <3>3 DEF Untouched, SameLinks
  <2> QED
    BY <1>5, <2>2, AloneAssumption DEF AloneInit, StepsInit, Progress, At, Has
<1> QED
  BY <1>2, <1>6, <1>7, <1>8 DEF AloneInv

\* A step inside a call, and the last step of one.
InCall == start' = start /\ MemoryTypeOK' /\ Progress'
AsCall == HP!HeapNext /\ MemoryTypeOK' /\ Progress'

\* What of the heap before the call stays the same in a step inside it.
LEMMA StartSame ==
  ASSUME start' = start
  PROVE  Old' = Old
BY DEF Old, HP!Entries

\* malloc begins its search at the head of the list.
LEMMA CallMallocStep ==
  ASSUME AloneInv, NEW n \in Sizes, CallMalloc(Caller, n), start' = start
  PROVE  InCall
<1>1. Base \in Addr /\ n \in Nat
  BY OldHeld, OldBlock, SizesAligned DEF AloneInv
<1>2. /\ pc'[Caller] = "search" /\ Now' = Base /\ Asked' = n /\ Has' = Has
      /\ DOMAIN pc' = {Caller} /\ DOMAIN cur' = {Caller} /\ DOMAIN want' = {Caller}
      /\ held' = held /\ UNCHANGED memory
  BY DEF CallMalloc, Goto, AloneInv, MemoryTypeOK, Now, Asked, Has
<1>3. MemoryTypeOK'
  BY <1>1, <1>2 DEF AloneInv, MemoryTypeOK, memory
<1>4. Untouched /\ Has = start.held
  BY DEF CallMalloc, At, AloneInv, Progress
<1>5. Untouched' /\ InMalloc'
  BY <1>2, <1>4, StartSame DEF Untouched, SameLinks, InMalloc, memory
<1>6. Now' \in (Old \cup {NULL})' /\ NoneBefore'
  <2>1. Base \in Old /\ \A f \in Old : f \in Nat /\ f >= Base
    BY OldHeld, OldBlock DEF AloneInv
  <2>2. \A f \in Old : ~(f < Base)
    BY <2>1, SameNames
  <2>3. Old' = Old /\ Base # NULL
    BY StartSame, SameNames
  <2> QED
    BY <1>2, <2>1, <2>2, <2>3 DEF NoneBefore
<1> QED
  BY <1>2, <1>3, <1>5, <1>6 DEF InCall, Progress, At

\* Links that are as before lead through the blocks there were.
LEMMA WayOld ==
  ASSUME Sound, NEW nx \in [Addr -> Addr], \A a \in Old : nx[a] = start.next[a]
  PROVE  Way(nx) = Old
<1>1. Old \in SUBSET (Addr \ {NULL}) /\ Base \in Old
  BY OldBlock, OldHeld, SameNames
<1>2. \A a \in Old : nx[a] = NULL \/ (nx[a] \in Old /\ a < nx[a])
  BY OldBlock, SameNames
<1>3. ASSUME NEW a \in Old PROVE a = Base \/ \E b \in Old : b < a /\ nx[b] = a
  <2>1. CASE start.prev[a] = 0
    BY <2>1, OldBlock
  <2>2. CASE start.prev[a] # 0
    <3>1. start.prev[a] \in Old /\ start.prev[a] < a /\ start.next[start.prev[a]] = a
      BY <2>2, OldBlock
    <3> QED
      BY <3>1
  <2> QED
    BY <2>1, <2>2
<1> QED
  BY <1>1, <1>2, <1>3, WayIs

\* Between a block and its successor lies no other, and behind the last none.
LEMMA SucceededBy ==
  ASSUME Sound, NEW e \in Old, NEW f \in Old, e < f
  PROVE  start.next[e] # NULL /\ start.next[e] <= f
<1>1. /\ e + 16 + start.size[e] <= f /\ e \in Nat /\ f \in Nat
      /\ start.size[e] \in Nat
  <2>1. HP!End(e) <= f
    BY DEF Sound, Old, HP!HeapInv, HP!Chained
  <2> QED
    BY <2>1, OldBlock, SameNames DEF HP!End
<1>2. start.next[e] # NULL
  <2>1. SUFFICES ASSUME start.next[e] = NULL PROVE FALSE
    OBVIOUS
  <2>2. HP!End(e) = Upper
    BY <2>1, SameNames DEF Sound, Old, HP!HeapInv, HP!Chained
  <2>3. e + 16 + start.size[e] = Upper
    BY <2>2, SameNames DEF HP!End
  <2>4. f + 16 + start.size[f] <= Upper /\ start.size[f] \in Nat
    BY OldBlock
  <2> QED
    BY <1>1, <2>3, <2>4
<1> QED
  BY <1>1, <1>2, OldBlock, SameNames

\* malloc looked at every block and found none.
LEMMA SearchFails ==
  ASSUME AloneInv, Search(Caller), Now = NULL, Leave(Caller), start' = Image'
  PROVE  AsCall
<1>1. Untouched /\ InMalloc /\ NoneBefore /\ UNCHANGED memory /\ held' = held
  BY DEF Search, At, AloneInv, Progress
<1>2. MemoryTypeOK /\ Sound
  BY DEF AloneInv
<1>3. pc'[Caller] = "out" /\ Now' = NULL /\ Asked' = 0
      /\ DOMAIN pc' = {Caller} /\ DOMAIN cur' = {Caller} /\ DOMAIN want' = {Caller}
  BY <1>2 DEF Leave, Goto, MemoryTypeOK, Now, Asked
<1>4. MemoryTypeOK'
  BY <1>1, <1>2, <1>3, SameNames DEF MemoryTypeOK, memory, Addr
<1>5. Way(next') = Old
  BY <1>1, <1>2, WayOld DEF Untouched, SameLinks, memory, MemoryTypeOK
<1>6. Progress'
  BY <1>3, <1>5, ImageTaken DEF Progress, At
<1>7. HP!Malloc(Asked)
  <2>1. HP!Fits(HP!Align(Asked)) = {}
    BY <1>1, SizesAligned DEF HP!Fits, Old, NoneBefore, InMalloc
  <2>2. UNCHANGED <<start.next, start.prev, start.size, start.free>>
    <3>1. /\ start'.next = [a \in Old |-> next[a]]
          /\ start'.prev = [a \in Old \cup {0} |-> prev[a]]
          /\ start'.size = [a \in Old |-> size[a]]
          /\ start'.free = [a \in Old |-> free[a]]
      BY <1>1, <1>5, ImageTaken DEF memory
    <3>2. \A a \in Old : /\ next[a] = start.next[a] /\ prev[a] = start.prev[a]
                         /\ size[a] = start.size[a] /\ free[a] = start.free[a]
      BY <1>1 DEF Untouched, SameLinks
    <3>3. prev[0] = start.prev[0]
      BY <1>1 DEF Untouched, SameLinks, NULL
    <3>4. /\ DOMAIN start.prev = Old \cup {0} /\ start.prev \in [Old \cup {0} -> Nat]
          /\ start.next \in [Old -> Old \cup {0}]
          /\ start.size \in [Old -> Nat] /\ start.free \in [Old -> BOOLEAN]
      BY <1>2, OldHeld
    <3> QED
      BY <3>1, <3>2, <3>3, <3>4
  <2>3. start'.inUse = start.inUse /\ start'.held = start.held
    <3>1. start'.inUse = inUse' /\ start'.held = Has' /\ Has' = Has
      BY <1>1, <1>5, ImageTaken DEF Has
    <3> QED
      BY <1>1, <3>1 DEF memory, Untouched, SameLinks, InMalloc
  <2> QED
    BY <2>1, <2>2, <2>3 DEF HP!Malloc, HP!vars
<1>8. Asked \in Sizes
  BY <1>1 DEF InMalloc
<1> QED
  BY <1>4, <1>6, <1>7, <1>8 DEF AsCall, HP!HeapNext

\* malloc found the first block that fits, or goes on to the next one.
LEMMA SearchGoesOn ==
  ASSUME AloneInv, Search(Caller), Now # NULL, start' = start
  PROVE  InCall
<1>1. /\ Untouched /\ InMalloc /\ NoneBefore /\ UNCHANGED memory /\ held' = held
      /\ Now \in Old
  BY DEF Search, At, AloneInv, Progress
<1>2. MemoryTypeOK /\ Sound
  BY DEF AloneInv
<1>3. DOMAIN pc' = {Caller} /\ DOMAIN cur' = {Caller} /\ DOMAIN want' = {Caller}
  BY <1>2 DEF Search, Leave, Goto, MemoryTypeOK
<1>4. want' = want
  BY DEF Search, Now
<1>5. Untouched' /\ InMalloc' /\ Old' = Old
  BY <1>1, <1>4, StartSame DEF Untouched, SameLinks, InMalloc, memory, Has, Asked
<1>6. CASE Found(Caller)
  <2>1. pc'[Caller] = "claim" /\ cur' = cur
    BY <1>2, <1>6 DEF Search, Goto, MemoryTypeOK, Now
  <2>2. MemoryTypeOK'
    BY <1>1, <1>2, <1>3, <1>4, <2>1 DEF MemoryTypeOK, memory, Now, Asked
  <2>3. HP!FirstFit(Now, Asked)
    <3>1. start.free[Now] /\ start.size[Now] >= Asked
      BY <1>1, <1>6 DEF Found, Untouched, SameLinks, Now, Asked
    <3>2. ASSUME NEW f \in Old, start.free[f], start.size[f] >= Asked PROVE Now <= f
      <4>1. ~(f < Now)
        BY <1>1, <3>2 DEF NoneBefore
      <4>2. f \in Nat /\ Now \in Nat
        BY <1>1, <1>2, OldBlock
      <4> QED
        BY <4>1, <4>2
    <3> QED
      BY <1>1, <3>1, <3>2 DEF HP!FirstFit, HP!Fits, Old
  <2>4. HP!FirstFit(Now, Asked)'
    BY <1>4, <2>1, <2>3 DEF HP!FirstFit, HP!Fits, HP!Entries, Now, Asked
  <2> QED
    BY <1>5, <2>1, <2>2, <2>4 DEF InCall, Progress, At
<1>7. CASE ~Found(Caller)
  <2>1. pc' = pc /\ Now' = next[Now] /\ At(Caller, "search")
    BY <1>2, <1>7 DEF Search, MemoryTypeOK, Now
  <2>2. Now' = start.next[Now] /\ Now' \in Old \cup {NULL} /\ Now' \in Addr
    BY <1>1, <1>2, <2>1, OldBlock, SameNames DEF Untouched, SameLinks, MemoryTypeOK
  <2>3. MemoryTypeOK'
    BY <1>1, <1>2, <1>3, <1>4, <2>1, <2>2 DEF MemoryTypeOK, memory, Asked
  <2>4. ~(start.free[Now] /\ start.size[Now] >= Asked)
    BY <1>1, <1>7 DEF Found, Untouched, SameLinks, Now, Asked
  <2>5. ASSUME NEW f \in Old, Now' = NULL \/ f < Now'
        PROVE  ~(start.free[f] /\ start.size[f] >= Asked)
    <3>1. CASE f = Now
      BY <2>4, <3>1
    <3>2. CASE f < Now
      BY <1>1, <3>2 DEF NoneBefore
    <3>3. CASE Now < f
      <4>1. Now' # NULL /\ Now' <= f
        BY <1>1, <1>2, <2>2, <3>3, SucceededBy
      <4>2. Now' \in Nat /\ f \in Nat
        BY <1>2, <2>2, <4>1, OldBlock
      <4> QED
        BY <2>5, <4>1, <4>2
    <3>4. f \in Nat /\ Now \in Nat
      BY <1>1, <1>2, OldBlock
    <3> QED
      BY <3>1, <3>2, <3>3, <3>4
  <2>6. NoneBefore'
    BY <1>4, <1>5, <2>5 DEF NoneBefore, Asked
  <2> QED
    BY <1>5, <2>1, <2>2, <2>3, <2>6 DEF InCall, Progress, At
<1> QED
  BY <1>6, <1>7

\* malloc marks the block it found.
LEMMA ClaimStep ==
  ASSUME AloneInv, Claim(Caller), start' = start
  PROVE  InCall
<1>1. /\ Untouched /\ InMalloc /\ HP!FirstFit(Now, Asked)
      /\ UNCHANGED <<next, prev, size, inUse, cur, want, held>>
      /\ free' = [free EXCEPT ![Now] = FALSE]
  BY DEF Claim, At, AloneInv, Progress, Now
<1>2. MemoryTypeOK /\ Sound /\ Now \in Old
  BY <1>1 DEF AloneInv, HP!FirstFit, HP!Fits, Old
<1>3. pc'[Caller] = "cut" /\ DOMAIN pc' = {Caller} /\ free' \in [Addr -> BOOLEAN]
  BY <1>1, <1>2 DEF Claim, Goto, MemoryTypeOK
<1>4. MemoryTypeOK'
  BY <1>1, <1>2, <1>3 DEF MemoryTypeOK, Now, Asked
<1>5. SameLinks' /\ InMalloc' /\ HP!FirstFit(Now, Asked)'
  BY <1>1, StartSame
     DEF Untouched, SameLinks, InMalloc, Has, Now, Asked, HP!FirstFit, HP!Fits,
         HP!Entries
<1>6. \A a \in Old : free'[a] = IF a = Now THEN FALSE ELSE start.free[a]
  BY <1>1, <1>2, OldBlock DEF Untouched, MemoryTypeOK
<1>7. (\A a \in Old : free[a] = IF a = Now THEN FALSE ELSE start.free[a])'
  BY <1>1, <1>6, StartSame DEF Now
<1> QED
  BY <1>3, <1>4, <1>5, <1>7 DEF InCall, Progress, At

\* free is given a block that is in use.
LEMMA CallFreeStep ==
  ASSUME AloneInv, NEW p \in DOMAIN Has, CallFree(Caller, p), start' = start
  PROVE  InCall
<1>1. /\ Untouched /\ Has = start.held /\ UNCHANGED <<memory, want>>
  BY DEF CallFree, At, AloneInv, Progress
<1>2. MemoryTypeOK /\ Sound
  BY DEF AloneInv
<1>3. /\ pc'[Caller] = "check" /\ Now' = p - 16
      /\ Has' = [q \in DOMAIN Has \ {p} |-> Has[q]]
      /\ DOMAIN pc' = {Caller} /\ DOMAIN cur' = {Caller} /\ DOMAIN held' = {Caller}
  BY <1>2, SameNames DEF CallFree, Goto, MemoryTypeOK, Now, Has
<1>4. p \in Nat /\ p - 16 \in Old /\ ~start.free[p - 16] /\ p - 16 \in Addr
      /\ (p - 16) + 16 = p
  <2>1. p \in Nat /\ p - 16 \in Old /\ ~start.free[p - 16]
    BY <1>1, <1>2, OldHeld
  <2> QED
    BY <1>2, <2>1, OldBlock
<1>5. MemoryTypeOK'
  BY <1>1, <1>2, <1>3, <1>4 DEF MemoryTypeOK, memory, Asked
<1>6. Untouched'
  BY <1>1, StartSame DEF Untouched, SameLinks, memory
<1>7. GaveBack(Now)'
  BY <1>1, <1>3, <1>4, StartSame, SameNames DEF GaveBack
<1> QED
  BY <1>3, <1>5, <1>6, <1>7 DEF InCall, Progress, At

\* The block was not free: it is not reported, and free begins.
LEMMA CheckStep ==
  ASSUME AloneInv, Check(Caller)
  PROVE  /\ pc'[Caller] # "out"
         /\ start' = start => InCall
<1>1. Untouched /\ GaveBack(Now) /\ UNCHANGED <<next, prev, size, held>>
  BY DEF Check, At, AloneInv, Progress
<1>2. MemoryTypeOK /\ Sound /\ Now \in Old /\ ~start.free[Now] /\ ~free[Now]
  BY <1>1 DEF AloneInv, GaveBack, Untouched
<1>3. /\ free' = [free EXCEPT ![Now] = TRUE]
      /\ inUse' = inUse - size[Now]
      /\ pc'[Caller] = "back" /\ cur' = cur /\ want' = want
      /\ DOMAIN pc' = {Caller} /\ free' \in [Addr -> BOOLEAN]
  BY <1>2 DEF Check, Goto, MemoryTypeOK, Now
<1>4. MemoryTypeOK'
  BY <1>1, <1>2, <1>3 DEF MemoryTypeOK, Now, Asked
<1>5. ASSUME start' = start PROVE Progress'
  <2>1. GaveBack(Now)' /\ Now' = Now
    BY <1>1, <1>3, <1>5, StartSame DEF GaveBack, Has, Now
  <2>2. Joined(Now, Now, Now)'
    <3>1. Now \in Addr /\ Now # 0 /\ start.size[Now] \in Nat /\ start.inUse \in Int
      BY <1>2, OldBlock, OldHeld
    <3>2. ASSUME NEW f \in Old
          PROVE  /\ next'[f] = IF f = Now THEN start.next[Now] ELSE start.next[f]
                 /\ prev'[f] = IF f = start.next[Now] THEN Now ELSE start.prev[f]
                 /\ size'[f] = IF f = Now THEN 0 + start.size[Now] + 0 ELSE start.size[f]
                 /\ free'[f] = IF f = Now THEN TRUE ELSE start.free[f]
      <4>1. next'[f] = start.next[f] /\ prev'[f] = start.prev[f]
            /\ size'[f] = start.size[f] /\ free[f] = start.free[f] /\ f \in Addr
        BY <1>1, <1>2, OldBlock DEF Untouched, SameLinks
      <4>2. f = start.next[Now] => start.prev[f] = Now
        BY <1>2, OldBlock, SameNames
      <4>3. free'[f] = IF f = Now THEN TRUE ELSE start.free[f]
        BY <1>2, <1>3, <4>1 DEF MemoryTypeOK
      <4>4. f = Now => next'[f] = start.next[Now]
        BY <4>1
      <4>5. size'[f] = IF f = Now THEN 0 + start.size[Now] + 0 ELSE start.size[f]
        BY <3>1, <4>1
      <4>6. prev'[f] = IF f = start.next[Now] THEN Now ELSE start.prev[f]
        BY <4>1, <4>2
      <4> QED
        BY <4>1, <4>3, <4>4, <4>5, <4>6
    <3>3. prev'[NULL] = start.prev[NULL]
      BY <1>1 DEF Untouched, SameLinks
    <3>4. inUse' = start.inUse - start.size[Now] - 0 - 0
      BY <1>1, <1>2, <1>3, <3>1 DEF Untouched, SameLinks
    <3> QED
      <4>1. Old' = Old
        BY <1>5, StartSame
      <4>2. PICK e : e = Now
        OBVIOUS
      <4>3. e \in Old /\ Remaining(e, e, e)' \subseteq Old
        BY <1>2, <4>1, <4>2 DEF Remaining
      <4>4. HP!Gained(e, e)' = 0 /\ HP!HeaderOf(e, e)' = 0
        BY DEF HP!Gained, HP!HeaderOf
      <4>5. Joined(e, e, e)'
        BY <1>5, <3>2, <3>3, <3>4, <4>2, <4>3, <4>4 DEF Joined
      <4> QED
        BY <2>1, <4>2, <4>5
  <2>3. Now' \in Old'
    BY <1>2, <1>5, <2>1, StartSame
  <2> QED
    BY <1>3, <2>1, <2>2, <2>3 DEF Progress, At
<1> QED
  BY <1>3, <1>4, <1>5 DEF InCall

\* The neighbours that free joins a block with.
LEMMA OldMerged ==
  ASSUME Sound, NEW e \in Old, ~start.free[e]
  PROVE  LET a == HP!Into(e)
             z == HP!Last(e) IN
         /\ a \in Old /\ z \in Old
         /\ a = IF start.prev[e] # 0 /\ start.free[start.prev[e]]
                THEN start.prev[e] ELSE e
         /\ z = IF start.next[e] # 0 /\ start.free[start.next[e]]
                THEN start.next[e] ELSE e
         /\ a # e => start.free[a] /\ start.next[a] = e /\ a < e
         /\ z # e => start.free[z] /\ start.prev[z] = e /\ e < z
         /\ start.prev[a] # 0 => ~start.free[start.prev[a]]
         /\ start.next[z] # 0 => ~start.free[start.next[z]]
<1> DEFINE a == HP!Into(e)
           z == HP!Last(e)
<1>1. HP!HeapInv /\ HP!HeapAssumption /\ e \in HP!Entries /\ Old = HP!Entries
  BY SameNames DEF Sound, Old
<1>2. /\ a \in Old /\ z \in Old
      /\ a # e => start.free[a] /\ start.next[a] = e
      /\ z # e => start.free[z] /\ start.next[e] = z /\ start.prev[z] = e
      /\ start.prev[a] # 0 => ~start.free[start.prev[a]]
      /\ start.next[z] # 0 => ~start.free[start.next[z]]
  BY <1>1, SameNames, HP!MergedBlocks
<1>3. a = (IF start.prev[e] # 0 /\ start.free[start.prev[e]] THEN start.prev[e] ELSE e)
      /\ z = (IF start.next[e] # 0 /\ start.free[start.next[e]] THEN start.next[e] ELSE e)
  BY SameNames DEF HP!Into, HP!Last, HP!FreeBlock
<1>4. (a # e => a < e) /\ (z # e => e < z)
  <2>1. a # e => a < e
    BY <1>3, OldBlock
  <2>2. z # e => e < z
    BY <1>3, OldBlock
  <2> QED
    BY <2>1, <2>2
<1> QED
  BY <1>2, <1>3, <1>4

\* The block before is free: it takes up the block given back.
LEMMA BackJoins ==
  ASSUME MemoryTypeOK, Sound, NEW e \in Old, GaveBack(e),
         Joined(e, e, e), Now = e, NEW b \in Old, b = start.prev[e], b # 0,
         start.free[b],
         size' = [size EXCEPT ![b] = @ + 16 + size[e]],
         next' = [next EXCEPT ![b] = next[e]],
         prev' = IF next[e] = 0 THEN prev ELSE [prev EXCEPT ![next[e]] = b],
         inUse' = inUse - 16, free' = free, start' = start
  PROVE  Joined(e, b, e)'
<1> DEFINE c == start.next[e]
<1>1. /\ b # e /\ e \in Addr /\ b \in Addr /\ e # 0 /\ b # c /\ e # c
      /\ start.size[b] \in Nat /\ start.size[e] \in Nat /\ start.inUse \in Int
      /\ c # 0 => c \in Old
  BY OldBlock, OldHeld
<1>2. Remaining(e, e, e) = Old
  BY DEF Remaining
<1>3. /\ next[e] = c
      /\ \A f \in Old : /\ next[f] = start.next[f]
                        /\ prev[f] = IF f = c THEN e ELSE start.prev[f]
                        /\ f # e => size[f] = start.size[f]
                        /\ f # e => free[f] = start.free[f]
  BY <1>2 DEF Joined
<1>4. size[e] = start.size[e] /\ inUse = start.inUse - start.size[e]
      /\ prev[0] = start.prev[0]
  <2>1. HP!Gained(e, e) = 0 /\ HP!HeaderOf(e, e) = 0
    BY DEF HP!Gained, HP!HeaderOf
  <2>2. /\ size[e] = 0 + start.size[e] + 0
        /\ inUse = start.inUse - start.size[e] - 0 - 0
        /\ prev[NULL] = start.prev[NULL]
    BY <1>2, <2>1 DEF Joined
  <2> QED
    BY <1>1, <2>2, SameNames
<1>5. size[b] = start.size[b]
  BY <1>1, <1>3
<1>6. Old' = Old
  BY StartSame
<1>7. ASSUME NEW f \in Old, f # e
      PROVE  /\ next'[f] = IF f = b THEN c ELSE start.next[f]
             /\ prev'[f] = IF f = c THEN b ELSE start.prev[f]
             /\ size'[f] = IF f = b THEN 16 + start.size[b] + start.size[e]
                                    ELSE start.size[f]
             /\ free'[f] = IF f = b THEN TRUE ELSE start.free[f]
  <2>1. f \in Addr /\ f # 0
    BY OldBlock
  <2>2. next'[f] = IF f = b THEN c ELSE start.next[f]
    BY <1>1, <1>3, <2>1 DEF MemoryTypeOK
  <2>3. prev'[f] = IF f = c THEN b ELSE start.prev[f]
    BY <1>1, <1>3, <1>7, <2>1 DEF MemoryTypeOK
  <2>4. size'[f] = IF f = b THEN 16 + start.size[b] + start.size[e] ELSE start.size[f]
    <3>1. CASE f = b
      <4>1. size'[b] = size[b] + 16 + size[e]
        BY <1>1 DEF MemoryTypeOK
      <4> QED
        BY <1>1, <1>4, <1>5, <3>1, <4>1
    <3>2. CASE f # b
      BY <1>3, <1>7, <2>1, <3>2 DEF MemoryTypeOK
    <3> QED
      BY <3>1, <3>2
  <2>5. free'[f] = IF f = b THEN TRUE ELSE start.free[f]
    BY <1>3, <1>7
  <2> QED
    BY <2>2, <2>3, <2>4, <2>5
<1>8. prev'[NULL] = start.prev[NULL]
  BY <1>1, <1>3, <1>4, SameNames DEF MemoryTypeOK, Addr
<1>9. inUse' = start.inUse - start.size[e] - 16 - 0
  BY <1>1, <1>4
<1>10. /\ HP!Gained(b, e)' = 16 + start.size[b] /\ HP!Gained(e, e)' = 0
       /\ HP!HeaderOf(b, e)' = 16 /\ HP!HeaderOf(e, e)' = 0
  BY <1>1, SameNames DEF HP!Gained, HP!HeaderOf
<1>11. Remaining(e, b, e)' \subseteq Old \ {e}
  BY <1>1, <1>6 DEF Remaining
<1>12. 16 + start.size[b] + start.size[e] + 0 = 16 + start.size[b] + start.size[e]
  BY <1>1
<1>13. ASSUME NEW f \in Remaining(e, b, e)'
       PROVE  /\ next'[f] = IF f = b THEN start'.next[e] ELSE start'.next[f]
              /\ prev'[f] = IF f = start'.next[e] THEN b ELSE start'.prev[f]
              /\ size'[f] = IF f = b
                            THEN HP!Gained(b, e)' + start'.size[e] + HP!Gained(e, e)'
                            ELSE start'.size[f]
              /\ free'[f] = IF f = b THEN TRUE ELSE start'.free[f]
  <2>1. f \in Old /\ f # e
    BY <1>11
  <2>2. HP!Gained(b, e)' + start'.size[e] + HP!Gained(e, e)'
          = 16 + start.size[b] + start.size[e]
    BY <1>10, <1>12
  <2> QED
    BY ZenonT(60), <1>7, <2>1, <2>2
<1>14. inUse' = start'.inUse - start'.size[e] - HP!HeaderOf(b, e)' - HP!HeaderOf(e, e)'
  BY <1>9, <1>10
<1> QED
  BY <1>8, <1>13, <1>14 DEF Joined

\* free joins the block with the one before, or it is done with those before.
LEMMA BackStep ==
  ASSUME AloneInv, Back(Caller), start' = start
  PROVE  InCall
<1>1. PICK e \in Old : GaveBack(e) /\ Now \in {e, HP!Into(e)} /\ Joined(e, Now, e)
  BY DEF Back, At, AloneInv, Progress
<1>2. MemoryTypeOK /\ Sound /\ ~start.free[e]
  BY <1>1 DEF AloneInv, GaveBack
<1>3. /\ Now \in Old /\ Now <= e /\ Now \in Nat /\ Now # 0
      /\ Now # e => (start.prev[Now] # 0 => ~start.free[start.prev[Now]])
      /\ HP!Into(e) = IF start.prev[e] # 0 /\ start.free[start.prev[e]]
                      THEN start.prev[e] ELSE e
  BY <1>1, <1>2, OldMerged, OldBlock
<1>4. /\ free' = free /\ want' = want /\ held' = held
      /\ GaveBack(e)' /\ Old' = Old /\ HP!Into(e)' = HP!Into(e)
  BY <1>1, StartSame
     DEF Back, GaveBack, Has, HP!Into, HP!FreeBlock
<1>8. PICK b : b = start.prev[Now]
  OBVIOUS
<1>5. prev[Now] = b /\ (b # 0 => free[b] = start.free[b] /\ b \in Old /\ b # e /\ b < Now)
  <2>1. Now \in Remaining(e, Now, e) /\ Now # start.next[e]
    <3>1. start.next[e] # 0 => e < start.next[e] /\ start.next[e] \in Nat
      BY <1>2, OldBlock
    <3>2. e \in Nat
      BY <1>2, OldBlock
    <3> QED
      BY <1>3, <3>1, <3>2 DEF Remaining
  <2>2. prev[Now] = b
    BY <1>1, <1>8, <2>1 DEF Joined
  <2>3. ASSUME b # 0 PROVE free[b] = start.free[b] /\ b \in Old /\ b # e /\ b < Now
    <3>1. b \in Old /\ b < Now /\ b \in Nat
      BY <1>2, <1>3, <1>8, <2>3, OldBlock
    <3>2. b # e /\ b # Now
      <4>1. e \in Nat
        BY <1>2, OldBlock
      <4> QED
        BY <1>3, <3>1, <4>1
    <3>3. b \in Remaining(e, Now, e)
      BY <3>1, <3>2 DEF Remaining
    <3>4. free[b] = start.free[b]
      BY <1>1, <3>2, <3>3 DEF Joined
    <3> QED
      BY <3>1, <3>2, <3>4
  <2> QED
    BY <2>2, <2>3
<1>6. CASE b # 0 /\ free[b]
  <2>1. Now = e /\ HP!Into(e) = b
    BY <1>1, <1>3, <1>5, <1>6, <1>8
  <2>2. /\ size' = [size EXCEPT ![b] = @ + 16 + size[e]]
        /\ next' = [next EXCEPT ![b] = next[e]]
        /\ prev' = IF next[e] = 0 THEN prev ELSE [prev EXCEPT ![next[e]] = b]
        /\ inUse' = inUse - 16
        /\ cur' = [cur EXCEPT ![Caller] = b]
        /\ pc' = pc /\ At(Caller, "back")
    BY <1>5, <1>6, <2>1, SameNames DEF Back, Now
  <2>3. Now' = b /\ DOMAIN cur' = {Caller}
    BY <1>2, <2>2 DEF MemoryTypeOK, Now
  <2>4. Joined(e, b, e)'
    <3>1. /\ b \in Old /\ b = start.prev[e] /\ b # 0 /\ start.free[b]
          /\ Joined(e, e, e) /\ Now = e
      BY <1>1, <1>5, <1>6, <1>8, <2>1
    <3> QED
      BY <1>1, <1>2, <1>4, <2>2, <3>1, BackJoins
  <2>5. MemoryTypeOK'
    <3>1. e \in Addr /\ b \in Addr
      BY <1>2, <1>5, <1>6, OldBlock
    <3> QED
      BY <1>2, <1>4, <2>2, <2>3, <3>1 DEF MemoryTypeOK, Asked
  <2>7. At(Caller, "back")'
    BY <2>2 DEF At
  <2>8. Joined(e, Now, e)' /\ Now' \in {e, HP!Into(e)'}
    BY <1>4, <2>1, <2>3, <2>4
  <2> QED
    BY <1>4, <2>5, <2>7, <2>8 DEF InCall, Progress
<1>7. CASE ~(b # 0 /\ free[b])
  <2>1. /\ pc' = [pc EXCEPT ![Caller] = "forth"]
        /\ UNCHANGED <<size, next, prev, inUse, cur>>
    BY <1>5, <1>7, SameNames DEF Back, Goto, Now
  <2>2. pc'[Caller] = "forth" /\ DOMAIN pc' = {Caller} /\ Now' = Now
    BY <1>2, <2>1 DEF MemoryTypeOK, Now
  <2>3. MemoryTypeOK'
    BY <1>2, <1>4, <2>1, <2>2 DEF MemoryTypeOK, Asked
  <2>4. HP!Into(e) = Now
    BY <1>1, <1>3, <1>5, <1>7, <1>8
  <2>5. PICK a : a = Now
    OBVIOUS
  <2>6. Joined(e, a, e)
    BY <1>1, <2>5
  <2>7. Joined(e, a, e)'
    BY <1>4, <2>1, <2>6 DEF Joined, Remaining, HP!Gained, HP!HeaderOf
  <2> QED
    BY <1>1, <1>4, <2>2, <2>3, <2>4, <2>5, <2>7 DEF InCall, Progress, At
<1> QED
  BY <1>6, <1>7

\* The block behind is free: it is taken up.
LEMMA ForthJoins ==
  ASSUME MemoryTypeOK, Sound, NEW e \in Old, ~start.free[e],
         NEW a \in Old, a = HP!Into(e), Joined(e, a, e),
         NEW z \in Old, z = start.next[e], z # 0, start.free[z],
         size' = [size EXCEPT ![a] = @ + 16 + size[z]],
         prev' = IF next[z] = 0 THEN prev ELSE [prev EXCEPT ![next[z]] = a],
         next' = [next EXCEPT ![a] = next[z]],
         inUse' = inUse - 16, free' = free, start' = start
  PROVE  Joined(e, a, z)'
<1> DEFINE d == start.next[z]
<1>1. /\ z # e /\ z # a /\ a # 0 /\ a \in Addr /\ z \in Addr /\ d # a /\ d # z
      /\ start.size[a] \in Nat /\ start.size[e] \in Nat /\ start.size[z] \in Nat
      /\ start.inUse \in Int /\ (d # 0 => d \in Old)
  <2>1. a <= e
    BY OldMerged, OldBlock
  <2>2. /\ a \in Nat \ {0} /\ e \in Nat /\ z \in Nat /\ e < z /\ a \in Addr /\ z \in Addr
        /\ d # 0 => d \in Old /\ d \in Nat /\ z < d
        /\ start.size[a] \in Nat /\ start.size[e] \in Nat /\ start.size[z] \in Nat
    BY OldBlock
  <2> QED
    BY <2>1, <2>2, OldHeld
<1>2. z \in Remaining(e, a, e) /\ a \in Remaining(e, a, e)
  BY <1>1 DEF Remaining
<1>3. next[z] = d /\ size[z] = start.size[z]
  BY <1>1, <1>2 DEF Joined
<1>4. /\ \A f \in Remaining(e, a, e) :
           /\ next[f] = IF f = a THEN z ELSE start.next[f]
           /\ prev[f] = IF f = z THEN a ELSE start.prev[f]
           /\ f # a => size[f] = start.size[f]
           /\ free[f] = IF f = a THEN TRUE ELSE start.free[f]
      /\ prev[0] = start.prev[0]
  BY SameNames DEF Joined
<1>5. PICK g : g = HP!Gained(a, e)
  OBVIOUS
<1>6. PICK h : h = HP!HeaderOf(a, e)
  OBVIOUS
<1>7. g \in Nat /\ h \in Nat /\ HP!Gained(a, e)' = g /\ HP!HeaderOf(a, e)' = h
      /\ HP!Gained(z, e)' = 16 + start.size[z] /\ HP!HeaderOf(z, e)' = 16
      /\ HP!Gained(e, e) = 0 /\ HP!HeaderOf(e, e) = 0
  BY <1>1, <1>5, <1>6, SameNames DEF HP!Gained, HP!HeaderOf
<1>8. size[a] = g + start.size[e] + 0 /\ inUse = start.inUse - start.size[e] - h - 0
  BY <1>2, <1>5, <1>6, <1>7 DEF Joined
<1>9. size'[a] = g + start.size[e] + (16 + start.size[z])
  <2>1. size'[a] = size[a] + 16 + size[z]
    BY <1>1 DEF MemoryTypeOK
  <2> QED
    BY <1>1, <1>3, <1>7, <1>8, <2>1
<1>10. inUse' = start'.inUse - start'.size[e] - h - 16
  BY <1>1, <1>7, <1>8
<1>11. \A f \in Remaining(e, a, z)' : f \in Remaining(e, a, e) /\ f # z /\ f \in Old
  BY <1>1, StartSame DEF Remaining
<1>12. ASSUME NEW f \in Remaining(e, a, z)'
       PROVE  /\ next'[f] = IF f = a THEN start'.next[z] ELSE start'.next[f]
              /\ prev'[f] = IF f = start'.next[z] THEN a ELSE start'.prev[f]
              /\ size'[f] = IF f = a
                            THEN g + start'.size[e] + (16 + start.size[z])
                            ELSE start'.size[f]
              /\ free'[f] = IF f = a THEN TRUE ELSE start'.free[f]
  <2>1. f \in Remaining(e, a, e) /\ f # z /\ f \in Old /\ f \in Addr /\ f # 0
    BY <1>11, OldBlock
  <2>2. next'[f] = IF f = a THEN d ELSE start.next[f]
    BY <1>1, <1>3, <1>4, <2>1 DEF MemoryTypeOK
  <2>3. prev'[f] = IF f = d THEN a ELSE start.prev[f]
    BY <1>1, <1>3, <1>4, <2>1 DEF MemoryTypeOK
  <2>4. f # a => size'[f] = start.size[f]
    BY <1>1, <1>4, <2>1 DEF MemoryTypeOK
  <2>5. free'[f] = IF f = a THEN TRUE ELSE start.free[f]
    BY <1>4, <2>1
  <2> QED
    BY <1>9, <2>2, <2>3, <2>4, <2>5
<1>13. prev'[NULL] = start'.prev[NULL]
  BY <1>1, <1>3, <1>4, SameNames DEF MemoryTypeOK, Addr
<1>14. g + start'.size[e] + (16 + start.size[z])
         = HP!Gained(a, e)' + start'.size[e] + HP!Gained(z, e)'
  BY <1>7
<1>15. ASSUME NEW f \in Remaining(e, a, z)'
       PROVE  size'[f] = IF f = a
                         THEN HP!Gained(a, e)' + start'.size[e] + HP!Gained(z, e)'
                         ELSE start'.size[f]
  BY <1>12, <1>14
<1>16. inUse' = start'.inUse - start'.size[e] - HP!HeaderOf(a, e)' - HP!HeaderOf(z, e)'
  BY <1>7, <1>10
<1> QED
  BY <1>12, <1>13, <1>15, <1>16 DEF Joined

\* The links after free lead through the blocks that remain.
LEMMA WayRemaining ==
  ASSUME Sound, NEW e \in Old, ~start.free[e],
         NEW a, a = HP!Into(e), NEW z, z = HP!Last(e),
         NEW nx \in [Addr -> Addr],
         \A f \in Remaining(e, a, z) :
           nx[f] = IF f = a THEN start.next[z] ELSE start.next[f]
  PROVE  Way(nx) = Remaining(e, a, z)
<1> DEFINE S == Remaining(e, a, z)
           d == start.next[z]
<1>1. /\ a \in Old /\ z \in Old
      /\ a = IF start.prev[e] # 0 /\ start.free[start.prev[e]] THEN start.prev[e] ELSE e
      /\ z = IF start.next[e] # 0 /\ start.free[start.next[e]] THEN start.next[e] ELSE e
      /\ a # e => start.next[a] = e /\ a < e
      /\ z # e => start.prev[z] = e /\ e < z
  BY OldMerged
<1>2. \A f \in Old : f \in Nat \ {0} /\ f \in Addr /\ f >= Base
  BY OldBlock
<1>3. a <= e /\ e <= z /\ (d # 0 => d \in Old /\ z < d /\ start.prev[d] = z)
  BY <1>1, <1>2, OldBlock
<1>4. \A f \in S : f \in Old /\ (f # a => f # e /\ f # z)
  BY <1>1 DEF Remaining
<1>5. \A f \in Old : f = a \/ (f # e /\ f # z) => f \in S
  BY DEF Remaining
<1> HIDE DEF S, d
<1>6. Base \in S
  <2>1. Base \in Old /\ start.prev[Base] = 0
    BY <1>2, OldHeld, OldBlock, SameNames
  <2>2. Base = e => Base = a
    BY <1>1, <2>1
  <2>3. Base = z => Base = e
    BY <1>1, <1>2, <2>1, SameNames
  <2> QED
    BY <1>5, <2>1, <2>2, <2>3
<1>7. S \in SUBSET (Addr \ {NULL})
  BY <1>2, <1>4, SameNames
<1>8. ASSUME NEW f \in S PROVE nx[f] = NULL \/ (nx[f] \in S /\ f < nx[f])
  <2>1. CASE f = a
    <3>1. nx[f] = d
      BY <2>1 DEF S, d
    <3>2. d # 0 => d \in S /\ a < d
      <4>1. SUFFICES ASSUME d # 0 PROVE d \in S /\ a < d
        OBVIOUS
      <4>2. d \in Old /\ z < d /\ a \in Nat /\ e \in Nat /\ z \in Nat /\ d \in Nat
        BY <1>1, <1>2, <1>3, <4>1
      <4>3. a < d /\ d # e /\ d # z
        BY <1>3, <4>2
      <4> QED
        BY <1>5, <4>2, <4>3
    <3> QED
      BY <2>1, <3>1, <3>2, SameNames
  <2>2. CASE f # a
    <3>1. nx[f] = start.next[f] /\ f \in Old /\ f # e /\ f # z
      BY <1>4, <2>2 DEF S
    <3>2. start.next[f] # 0 =>
            start.next[f] \in Old /\ start.prev[start.next[f]] = f /\ f < start.next[f]
      BY <3>1, OldBlock
    <3>3. start.next[f] # 0 => start.next[f] # z \/ z = e
      BY <1>1, <3>1, <3>2
    <3>4. start.next[f] # 0 => start.next[f] # e \/ a = e
      BY <1>1, <2>2, <3>2
    <3> QED
      BY <1>5, <3>1, <3>2, <3>3, <3>4, SameNames
  <2> QED
    BY <2>1, <2>2
<1>9. ASSUME NEW f \in S PROVE f = Base \/ \E g \in S : g < f /\ nx[g] = f
  <2>1. SUFFICES ASSUME f # Base PROVE \E g \in S : g < f /\ nx[g] = f
    OBVIOUS
  <2>2. PICK g \in Old : g = start.prev[f] /\ g < f /\ start.next[g] = f /\ f \in Old
    BY <1>4, <2>1, OldBlock
  <2>3. CASE g # a /\ g # e /\ g # z
    <3>1. g \in S
      BY <1>5, <2>3
    <3>2. nx[g] = start.next[g]
      BY <2>3, <3>1 DEF S
    <3> QED
      BY <2>2, <3>1, <3>2
  <2>4. CASE g = a \/ g = e \/ g = z
    <3>1. f # a
      <4>1. a \in Nat /\ e \in Nat /\ z \in Nat /\ g \in Nat
        BY <1>1, <1>2
      <4> QED
        BY <1>3, <2>2, <2>4, <4>1
    <3>2. f # e /\ f # z
      BY <1>4, <3>1
    <3>3. g = z
      BY <1>1, <2>2, <2>4, <3>1, <3>2, <1>3
    <3>4. d = f
      BY <2>2, <3>3 DEF d
    <3>5. a \in S /\ nx[a] = d
      <4>1. a \in S
        BY <1>1, <1>5
      <4> QED
        BY <4>1 DEF S, d
    <3>6. a < f
      <4>1. a \in Nat /\ e \in Nat /\ z \in Nat /\ f \in Nat
        BY <1>1, <1>2, <2>2
      <4> QED
        BY <1>3, <2>2, <3>3, <4>1
    <3> QED
      BY <3>4, <3>5, <3>6
  <2> QED
    BY <2>3, <2>4
<1>10. Way(nx) = S
  BY <1>6, <1>7, <1>8, <1>9, WayIs
<1> QED
  BY <1>10 DEF S

\* free returns: what it did is what free of Heap does.
LEMMA ForthReturns ==
  ASSUME MemoryTypeOK, MemoryTypeOK', Sound, NEW e \in Old, GaveBack(e),
         NEW a, a = HP!Into(e), NEW z, z = HP!Last(e), Joined(e, a, z),
         UNCHANGED <<memory, held>>, pc'[Caller] = "out", start' = Image'
  PROVE  AsCall
<1> DEFINE S == Remaining(e, a, z)
           d == start.next[z]
<1>1. ~start.free[e] /\ 0 \notin Old /\ next' = next /\ prev' = prev /\ size' = size
      /\ free' = free /\ inUse' = inUse /\ Has' = Has
  BY OldBlock DEF GaveBack, memory, Has
<1>2. Way(next') = S
  <2>1. \A f \in S : next'[f] = IF f = a THEN d ELSE start.next[f]
    BY <1>1 DEF Joined
  <2>2. next' \in [Addr -> Addr]
    BY DEF MemoryTypeOK
  <2> QED
    BY <1>1, <2>1, <2>2, WayRemaining
<1>3. /\ start'.next = [f \in S |-> next'[f]]
      /\ start'.prev = [f \in S \cup {0} |-> prev'[f]]
      /\ start'.size = [f \in S |-> size'[f]]
      /\ start'.free = [f \in S |-> free'[f]]
      /\ start'.inUse = inUse' /\ start'.held = Has'
      /\ Untouched' /\ (Has = start.held)'
  <2> HIDE DEF S
  <2> QED
    BY <1>2, ImageTaken
<1>4. Progress'
  BY <1>3 DEF Progress, At
<1>5. S = {f \in HP!Entries : f = a \/ (f # e /\ f # z)}
  BY DEF Remaining, Old
<1>6. S \subseteq Old
  BY DEF Remaining
<1> HIDE DEF S
<1>7. start'.next = [f \in S |-> IF f = a THEN d ELSE start.next[f]]
  <2>1. \A f \in S : next'[f] = IF f = a THEN d ELSE start.next[f]
    BY <1>1 DEF Joined, S
  <2> QED
    BY <1>3, <2>1, Zenon
<1>8. start'.prev = [f \in S \cup {0} |-> IF f = d /\ f # 0 THEN a ELSE start.prev[f]]
  <2>1. \A f \in S \cup {0} : prev'[f] = IF f = d /\ f # 0 THEN a ELSE start.prev[f]
    BY <1>1, <1>6, SameNames DEF Joined, S
  <2> QED
    BY <1>3, <2>1, Zenon
<1>9. start'.size = [f \in S |-> IF f = a
                                 THEN HP!Gained(a, e) + start.size[e] + HP!Gained(z, e)
                                 ELSE start.size[f]]
  <2>1. \A f \in S : size'[f] = IF f = a
                                THEN HP!Gained(a, e) + start.size[e] + HP!Gained(z, e)
                                ELSE start.size[f]
    BY <1>1 DEF Joined, S
  <2> QED
    BY <1>3, <2>1, Zenon
<1>10. start'.free = [f \in S |-> IF f = a THEN TRUE ELSE start.free[f]]
  <2>1. \A f \in S : free'[f] = IF f = a THEN TRUE ELSE start.free[f]
    BY <1>1 DEF Joined, S
  <2> QED
    BY <1>3, <2>1, Zenon
<1>11. start'.inUse = start.inUse - start.size[e] - HP!HeaderOf(a, e) - HP!HeaderOf(z, e)
  BY <1>1, <1>3 DEF Joined
<1>12. HP!Merge(e)
  BY <1>5, <1>7, <1>8, <1>9, <1>10, <1>11, SameNames DEF HP!Merge
<1>13. HP!Release(e + 16)
  BY <1>1, <1>3, SameNames DEF HP!Release, GaveBack
<1>14. HP!Free(e + 16) /\ e + 16 \in HP!Pointers
  BY <1>1, <1>12, <1>13, SameNames DEF HP!Free, HP!Pointers, Old
<1> QED
  BY <1>4, <1>14 DEF AsCall, HP!HeapNext

\* free joins the block with the one behind, or it returns.
LEMMA ForthStep ==
  ASSUME AloneInv, Forth(Caller),
         start' = IF pc'[Caller] = "out" THEN Image' ELSE start
  PROVE  InCall \/ AsCall
<1>1. PICK e \in Old : /\ GaveBack(e) /\ Now = HP!Into(e)
                       /\ Joined(e, Now, e) \/ Joined(e, Now, HP!Last(e))
  BY DEF Forth, At, AloneInv, Progress
<1>2. PICK a : a = Now
  OBVIOUS
<1>3. PICK z : z = HP!Last(e)
  OBVIOUS
<1>4. PICK b : b = next[a]
  OBVIOUS
<1>5. MemoryTypeOK /\ Sound /\ ~start.free[e]
  BY <1>1 DEF AloneInv, GaveBack
<1>6. /\ a \in Old /\ a = HP!Into(e) /\ z \in Old
      /\ z = IF start.next[e] # 0 /\ start.free[start.next[e]] THEN start.next[e] ELSE e
      /\ start.next[z] # 0 => ~start.free[start.next[z]]
      /\ z # e => e < z
      /\ a <= e /\ e <= e /\ e <= z /\ a \in Nat /\ e \in Nat /\ z \in Nat
  <2>1. /\ a \in Old /\ a = HP!Into(e) /\ z \in Old
        /\ z = IF start.next[e] # 0 /\ start.free[start.next[e]] THEN start.next[e] ELSE e
        /\ start.next[z] # 0 => ~start.free[start.next[z]]
        /\ (z # e => e < z) /\ (a # e => a < e)
    BY <1>1, <1>2, <1>3, <1>5, OldMerged
  <2>2. a \in Nat /\ e \in Nat /\ z \in Nat
    BY <1>5, <2>1, OldBlock
  <2> QED
    BY <2>1, <2>2
<1>7. free' = free /\ held' = held /\ At(Caller, "forth")
  BY DEF Forth, Leave, Goto, At
<1>8. ASSUME NEW y \in Old, e <= y, Joined(e, a, y)
      PROVE  b = start.next[y] /\ (b # 0 => free[b] = start.free[b] /\ b \in Old)
  <2>1. a \in Remaining(e, a, y)
    BY <1>6 DEF Remaining
  <2>2. b = start.next[y]
    BY <1>4, <1>8, <2>1 DEF Joined
  <2>3. ASSUME b # 0 PROVE b \in Old /\ b # a /\ b # e /\ b # y
    <3>1. b \in Old /\ y < b /\ y \in Nat /\ b \in Nat
      BY <1>5, <2>2, <2>3, OldBlock
    <3> QED
      BY <1>6, <1>8, <3>1
  <2>4. b # 0 => b \in Remaining(e, a, y) /\ b # a
    BY <2>3 DEF Remaining
  <2>5. b # 0 => free[b] = start.free[b]
    BY <1>8, <2>4 DEF Joined
  <2> QED
    BY <2>2, <2>3, <2>5
<1>10. CASE b # 0 /\ free[b]
  <2>1. ~Joined(e, a, z) \/ z = e
    <3>1. SUFFICES ASSUME Joined(e, a, z), z # e PROVE FALSE
      OBVIOUS
    <3>2. b = start.next[z] /\ free[b] = start.free[b]
      BY <1>6, <1>8, <1>10, <3>1
    <3> QED
      BY <1>6, <1>10, <3>2
  <2>2. Joined(e, a, e)
    BY <1>1, <1>2, <1>3, <2>1
  <2>3. b = start.next[e] /\ start.free[b] /\ b \in Old
    BY <1>6, <1>8, <1>10, <2>2
  <2>4. z = b
    BY <1>6, <1>10, <2>3
  <2>5. /\ size' = [size EXCEPT ![a] = @ + 16 + size[b]]
        /\ prev' = IF next[b] = 0 THEN prev ELSE [prev EXCEPT ![next[b]] = a]
        /\ next' = [next EXCEPT ![a] = next[b]]
        /\ inUse' = inUse - 16
        /\ UNCHANGED <<pc, cur, want>>
    BY <1>2, <1>4, <1>10, SameNames DEF Forth, Now
  <2>6. start' = start
    BY <1>7, <2>5 DEF At
  <2>7. Joined(e, a, b)'
    BY <1>5, <1>6, <1>7, <1>10, <2>2, <2>3, <2>5, <2>6, ForthJoins
  <2>8. MemoryTypeOK'
    <3>1. a \in Addr /\ b \in Addr
      BY <1>5, <1>6, <2>3, OldBlock
    <3> QED
      BY <1>5, <1>7, <2>5, <3>1 DEF MemoryTypeOK, Now, Asked
  <2>9. /\ Now' = a /\ HP!Into(e)' = a /\ HP!Last(e)' = b /\ GaveBack(e)' /\ Old' = Old
        /\ At(Caller, "forth")'
    BY <1>1, <1>2, <1>3, <1>6, <1>7, <2>4, <2>5, <2>6, StartSame
       DEF Now, HP!Into, HP!Last, HP!FreeBlock, GaveBack, Has, At
  <2>10. Joined(e, Now, HP!Last(e))'
    BY <2>7, <2>9
  <2> QED
    BY <2>6, <2>8, <2>9, <2>10 DEF InCall, Progress
<1>11. CASE ~(b # 0 /\ free[b])
  <2>1. Leave(Caller) /\ UNCHANGED <<size, next, prev, inUse>>
    BY <1>2, <1>4, <1>11, SameNames DEF Forth, Now
  <2>2. /\ pc'[Caller] = "out" /\ Now' = NULL /\ Asked' = 0
        /\ DOMAIN pc' = {Caller} /\ DOMAIN cur' = {Caller} /\ DOMAIN want' = {Caller}
    BY <1>5, <2>1 DEF Leave, Goto, MemoryTypeOK, Now, Asked
  <2>3. MemoryTypeOK'
    BY <1>5, <1>7, <2>1, <2>2, SameNames DEF MemoryTypeOK, Addr
  <2>4. Joined(e, a, z)
    <3>1. SUFFICES ASSUME Joined(e, a, e) PROVE z = e
      BY <1>1, <1>2, <1>3
    <3>2. b = start.next[e] /\ (b # 0 => free[b] = start.free[b])
      BY <1>6, <1>8, <3>1
    <3> QED
      BY <1>6, <1>11, <3>2
  <2>5. AsCall
    BY <1>1, <1>3, <1>5, <1>6, <1>7, <2>1, <2>2, <2>3, <2>4, ForthReturns DEF memory
  <2> QED
    BY <2>5
<1> QED
  BY <1>10, <1>11

\* No subtraction of malloc wraps.
LEMMA NoWrap ==
  ASSUME NEW x \in Nat, NEW y \in Nat, y <= x, x <= Upper
  PROVE  Minus(x, y) = x - y
<1>1. x - y \in Nat /\ x - y < Word /\ Word \in Int
  BY StepsAssumption
<1> QED
  BY <1>1 DEF Minus

\* What malloc knows when it cuts block e to n bytes, and what it then does
\* whatever the block.
Cutting(e, n) ==
  /\ MemoryTypeOK /\ Sound /\ e \in Old /\ e \in Addr /\ n \in Sizes
  /\ n \in Nat \ {0} /\ HP!Align(n) = n /\ n <= start.size[e]
  /\ start.size[e] \in Nat /\ start.size[e] <= Upper
  /\ HP!FirstFit(e, n) /\ SameLinks
  /\ \A a \in Old : free[a] = IF a = e THEN FALSE ELSE start.free[a]
  /\ free[e] = FALSE /\ size[e] = start.size[e]
  /\ Minus(size[e], n) = start.size[e] - n
  /\ (start.size[e] - n > 16 + 4 =>
        Minus(size[e], n + HeaderSize) = start.size[e] - n - 16)
  /\ pc'[Caller] = "out" /\ DOMAIN pc' = {Caller} /\ DOMAIN cur' = {Caller}
  /\ DOMAIN want' = {Caller} /\ DOMAIN held' = {Caller}
  /\ Now' = NULL /\ Asked' = 0 /\ NULL \in Addr
  /\ Has' = [p \in DOMAIN start.held \cup {e + 16} |->
               IF p = e + 16 THEN n ELSE start.held[p]]

\* It follows from the invariant and the step.
LEMMA CutKnows ==
  ASSUME AloneInv, Cut(Caller), NEW e, e = Now, NEW n, n = Asked
  PROVE  Cutting(e, n)
<1>1. /\ SameLinks /\ InMalloc /\ HP!FirstFit(e, n)
      /\ \A a \in Old : free[a] = IF a = e THEN FALSE ELSE start.free[a]
  BY DEF Cut, At, AloneInv, Progress
<1>2. /\ MemoryTypeOK /\ Sound /\ e \in Old /\ n \in Sizes /\ start.size[e] >= n
  BY <1>1 DEF AloneInv, HP!FirstFit, HP!Fits, Old, InMalloc
<1>3. /\ e \in Addr /\ e \in Nat /\ start.size[e] \in Nat /\ start.size[e] <= Upper
      /\ n \in Nat \ {0} /\ HP!Align(n) = n /\ n <= start.size[e]
  <2>1. /\ e \in Addr /\ e \in Nat /\ start.size[e] \in Nat
        /\ e + 16 + start.size[e] <= Upper
    BY <1>2, OldBlock
  <2>2. n \in Nat \ {0} /\ HP!Align(n) = n
    BY <1>2, SizesAligned
  <2> QED
    BY <1>2, <2>1, <2>2, SameNames
<1>4. free[e] = FALSE /\ size[e] = start.size[e]
  BY <1>1, <1>2 DEF SameLinks
<1>5. Minus(size[e], n) = start.size[e] - n
  BY <1>3, <1>4, NoWrap
<1>6. start.size[e] - n > 16 + 4 =>
        Minus(size[e], n + HeaderSize) = start.size[e] - n - 16
  <2>1. SUFFICES ASSUME start.size[e] - n > 16 + 4
                 PROVE  Minus(size[e], n + HeaderSize) = start.size[e] - n - 16
    OBVIOUS
  <2>2. PICK x : x = start.size[e]
    OBVIOUS
  <2>3. n + 16 \in Nat /\ n + 16 <= x /\ x \in Nat /\ x <= Upper
    BY <1>3, <2>1, <2>2
  <2>4. Minus(x, n + 16) = x - (n + 16)
    BY <2>3, NoWrap
  <2>5. x - (n + 16) = x - n - 16
    BY <1>3, <2>3
  <2> QED
    BY <1>4, <2>2, <2>4, <2>5, SameNames
<1>7. /\ pc'[Caller] = "out" /\ DOMAIN pc' = {Caller} /\ DOMAIN cur' = {Caller}
      /\ DOMAIN want' = {Caller} /\ DOMAIN held' = {Caller}
      /\ Now' = NULL /\ Asked' = 0
  BY <1>2 DEF Cut, Leave, Goto, MemoryTypeOK, Now, Asked
<1>8. Has' = [p \in DOMAIN start.held \cup {e + 16} |->
                IF p = e + 16 THEN n ELSE start.held[p]]
  BY <1>1, <1>2, SameNames DEF Cut, MemoryTypeOK, Has, InMalloc, Now, Asked
<1>9. NULL \in Addr
  BY DEF Addr
<1> QED
  BY <1>1, <1>2, <1>3, <1>4, <1>5, <1>6, <1>7, <1>8, <1>9 DEF Cutting

\* malloc uses the block as it is.
LEMMA CutWhole ==
  ASSUME AloneInv, Cut(Caller), NEW e, e = Now, NEW n, n = Asked,
         start.size[e] - n <= 16 + 4, start' = Image'
  PROVE  AsCall
<1>1. /\ MemoryTypeOK /\ Sound /\ e \in Old /\ n \in Sizes
      /\ n \in Nat \ {0} /\ HP!Align(n) = n /\ HP!FirstFit(e, n) /\ SameLinks
      /\ start.size[e] \in Nat
      /\ \A a \in Old : free[a] = IF a = e THEN FALSE ELSE start.free[a]
      /\ Minus(size[e], n) = start.size[e] - n /\ size[e] = start.size[e]
      /\ pc'[Caller] = "out" /\ DOMAIN pc' = {Caller} /\ DOMAIN cur' = {Caller}
      /\ DOMAIN want' = {Caller} /\ DOMAIN held' = {Caller}
      /\ Now' = NULL /\ Asked' = 0 /\ NULL \in Addr
      /\ Has' = [p \in DOMAIN start.held \cup {e + 16} |->
                   IF p = e + 16 THEN n ELSE start.held[p]]
  <2>1. Cutting(e, n)
    BY CutKnows
  <2> QED
    BY <2>1 DEF Cutting
<1>2. inUse' = inUse + size[e] /\ UNCHANGED <<next, prev, size, free>>
  <2>1. Minus(size[e], n) <= HeaderSize + 4
    BY <1>1, SameNames
  <2> QED
    BY <2>1 DEF Cut, Now, Asked
<1>3. MemoryTypeOK'
  BY <1>1, <1>2 DEF MemoryTypeOK
<1>4. Way(next') = Old
  BY <1>1, <1>2, WayOld DEF SameLinks, MemoryTypeOK
<1>5. /\ start'.next = [a \in Old |-> next'[a]]
      /\ start'.prev = [a \in Old \cup {0} |-> prev'[a]]
      /\ start'.size = [a \in Old |-> size'[a]]
      /\ start'.free = [a \in Old |-> free'[a]]
      /\ start'.inUse = inUse' /\ start'.held = Has'
      /\ Untouched' /\ (Has = start.held)'
  BY <1>4, ImageTaken
<1>6. Progress'
  BY <1>1, <1>5 DEF Progress, At
<1>7. HP!TakeWhole(e)
  <2>1. \A a \in Old : /\ next'[a] = start.next[a] /\ prev'[a] = start.prev[a]
                       /\ size'[a] = start.size[a]
                       /\ free'[a] = IF a = e THEN FALSE ELSE start.free[a]
    BY <1>1, <1>2 DEF SameLinks
  <2>2. prev'[0] = start.prev[0] /\ inUse' = start.inUse + start.size[e]
    BY <1>1, <1>2, SameNames DEF SameLinks
  <2>3. /\ DOMAIN start.prev = Old \cup {0} /\ start.prev \in [Old \cup {0} -> Nat]
        /\ start.next \in [Old -> Old \cup {0}]
        /\ start.size \in [Old -> Nat] /\ start.free \in [Old -> BOOLEAN]
    BY <1>1, OldHeld
  <2>4. start'.next = start.next /\ start'.prev = start.prev /\ start'.size = start.size
    <3>1. start.next = [a \in Old |-> start.next[a]]
          /\ start.prev = [a \in Old \cup {0} |-> start.prev[a]]
          /\ start.size = [a \in Old |-> start.size[a]]
      BY <2>3
    <3>2. \A a \in Old \cup {0} : prev'[a] = start.prev[a]
      BY <2>1, <2>2
    <3> QED
      BY <1>5, <2>1, <3>1, <3>2, Zenon
  <2>5. start'.free = [start.free EXCEPT ![e] = FALSE]
    <3>1. start'.free = [a \in Old |-> IF a = e THEN FALSE ELSE start.free[a]]
      BY <1>5, <2>1, Zenon
    <3>2. [start.free EXCEPT ![e] = FALSE]
            = [a \in Old |-> IF a = e THEN FALSE ELSE start.free[a]]
      BY <2>3
    <3> QED
      BY <3>1, <3>2
  <2> QED
    BY <1>5, <2>2, <2>4, <2>5 DEF HP!TakeWhole
<1>8. HP!Hold(e + 16, n)
  BY <1>1, <1>5 DEF HP!Hold
<1>9. HP!Whole(e, n) /\ e \in HP!Fits(n)
  BY <1>1, SameNames DEF HP!Whole, HP!FirstFit
<1>10. HP!Malloc(n)
  BY <1>1, <1>7, <1>8, <1>9, SameNames DEF HP!Malloc
<1> QED
  BY <1>1, <1>3, <1>6, <1>10 DEF AsCall, HP!HeapNext

\* The links after a block was cut lead through the new one too.
LEMMA WaySplit ==
  ASSUME Sound, NEW e \in Old, NEW l \in Addr, l # 0, e < l,
         start.next[e] # 0 => l < start.next[e], l \notin Old,
         NEW nx \in [Addr -> Addr],
         \A f \in Old \cup {l} :
           nx[f] = IF f = e THEN l ELSE IF f = l THEN start.next[e] ELSE start.next[f]
  PROVE  Way(nx) = Old \cup {l}
<1> DEFINE S == Old \cup {l}
           d == start.next[e]
<1>1. \A f \in Old : /\ f \in Nat /\ f \in Addr /\ f # 0
                     /\ start.next[f] # 0 => start.next[f] \in Old /\ f < start.next[f]
  BY OldBlock
<1>2. S \in SUBSET (Addr \ {NULL}) /\ Base \in S
  BY <1>1, OldHeld, SameNames
<1>3. \A f \in S : nx[f] = IF f = e THEN l ELSE IF f = l THEN d ELSE start.next[f]
  OBVIOUS
<1>4. l \in S /\ e \in S /\ e # l
  OBVIOUS
<1>5. \A f \in S : f \in Old \/ f = l
  OBVIOUS
<1>6. Old \subseteq S
  OBVIOUS
<1> HIDE DEF S
<1>7. ASSUME NEW f \in S PROVE nx[f] = NULL \/ (nx[f] \in S /\ f < nx[f])
  BY <1>1, <1>3, <1>4, <1>5, <1>6, SameNames
<1>8. ASSUME NEW f \in S PROVE f = Base \/ \E g \in S : g < f /\ nx[g] = f
  <2>1. CASE f = l
    BY <1>3, <1>4, <2>1
  <2>2. CASE f # l /\ f # Base
    <3>1. PICK g \in Old : g < f /\ start.next[g] = f
      BY <1>5, <2>2, OldBlock
    <3>2. CASE g = e
      <4>1. d = f /\ f # 0
        BY <1>1, <1>5, <2>2, <3>1, <3>2
      <4>2. nx[l] = f /\ l < f
        BY <1>3, <1>4, <4>1
      <4> QED
        BY <1>4, <4>2
    <3>3. CASE g # e
      <4>1. g \in S /\ nx[g] = f
        BY <1>3, <1>6, <3>1, <3>3
      <4> QED
        BY <3>1, <4>1
    <3> QED
      BY <3>2, <3>3
  <2> QED
    BY <2>1, <2>2
<1>9. Way(nx) = S
  BY <1>2, <1>7, <1>8, WayIs
<1> QED
  BY <1>9 DEF S

\* malloc cuts the block in two.
LEMMA CutSplits ==
  ASSUME AloneInv, Cut(Caller), NEW e, e = Now, NEW n, n = Asked,
         start.size[e] - n > 16 + 4, start' = Image'
  PROVE  AsCall
<1>1. Cutting(e, n)
  BY CutKnows
<1>2. /\ MemoryTypeOK /\ Sound /\ e \in Old /\ e \in Addr /\ n \in Sizes
      /\ n \in Nat \ {0} /\ HP!Align(n) = n /\ HP!FirstFit(e, n) /\ SameLinks
      /\ start.size[e] \in Nat
      /\ \A a \in Old : free[a] = IF a = e THEN FALSE ELSE start.free[a]
      /\ Minus(size[e], n) = start.size[e] - n
      /\ Minus(size[e], n + HeaderSize) = start.size[e] - n - 16
      /\ pc'[Caller] = "out" /\ DOMAIN pc' = {Caller} /\ DOMAIN cur' = {Caller}
      /\ DOMAIN want' = {Caller} /\ DOMAIN held' = {Caller}
      /\ Now' = NULL /\ Asked' = 0 /\ NULL \in Addr
      /\ Has' = [p \in DOMAIN start.held \cup {e + 16} |->
                   IF p = e + 16 THEN n ELSE start.held[p]]
  BY <1>1 DEF Cutting
<1>3. PICK l : l = e + 16 + n
  OBVIOUS
<1>4. PICK d : d = start.next[e]
  OBVIOUS
<1>5. /\ l \in Addr
      /\ next' = [next EXCEPT ![l] = next[e], ![e] = l]
      /\ prev' = [prev EXCEPT ![l] = e, ![next[e]] = l]
      /\ size' = [size EXCEPT ![l] = start.size[e] - n - 16, ![e] = n]
      /\ free' = [free EXCEPT ![l] = TRUE]
      /\ inUse' = inUse + 16 + n
  <2>1. ~(Minus(size[e], n) <= HeaderSize + 4)
    <3>1. PICK x : x = start.size[e] - n
      OBVIOUS
    <3>2. x \in Int /\ x > 16 + 4
      BY <1>2, <3>1
    <3> QED
      BY <1>2, <3>1, <3>2, SameNames
  <2> QED
    BY <1>2, <1>3, <2>1, SameNames DEF Cut, Now, Asked
<1>6. /\ e \in Nat /\ l \in Nat /\ l # 0 /\ e < l /\ l # e /\ e # 0
      /\ d # 0 => d \in Old /\ l < d /\ d \in Nat
      /\ l \notin Old /\ e # d /\ l # d
  <2>1. e \in Nat \ {0} /\ l \in Nat /\ l # 0 /\ e < l /\ l # e
    BY <1>2, <1>3, OldBlock
  <2>2. d # 0 => d \in Old /\ l < d /\ d \in Nat
    <3>1. d # 0 => d \in Old /\ d = e + 16 + start.size[e]
      BY <1>2, <1>4, OldBlock
    <3> QED
      BY <1>2, <1>3, <2>1, <3>1
  <2>3. l \notin Old
    <3>1. SUFFICES ASSUME l \in Old PROVE FALSE
      OBVIOUS
    <3>2. start.next[e] # NULL /\ start.next[e] <= l
      BY <1>2, <2>1, <3>1, SucceededBy
    <3> QED
      BY <1>4, <2>1, <2>2, <3>2, SameNames
  <2> QED
    BY <2>1, <2>2, <2>3
<1>7. next[e] = d /\ d \in Addr
  <2>1. next[e] = d
    BY <1>2, <1>4 DEF SameLinks
  <2> QED
    BY <1>2, <2>1 DEF MemoryTypeOK
<1>8. MemoryTypeOK'
  <2>1. start.size[e] - n - 16 \in Int /\ n \in Int
    BY <1>2
  <2> HIDE DEF MemoryTypeOK
  <2>2. /\ next' \in [Addr -> Addr] /\ prev' \in [Addr -> Addr]
        /\ size' \in [Addr -> Int] /\ free' \in [Addr -> BOOLEAN]
    BY <1>2, <1>5, <1>7, <2>1 DEF MemoryTypeOK
  <2> QED
    BY <1>2, <2>2 DEF MemoryTypeOK
<1> DEFINE S == Old \cup {l}
<1>9. ASSUME NEW f \in S
      PROVE  /\ next'[f] = IF f = e THEN l ELSE IF f = l THEN d ELSE start.next[f]
             /\ size'[f] = IF f = e THEN n
                           ELSE IF f = l THEN start.size[e] - n - 16 ELSE start.size[f]
             /\ free'[f] = IF f = e THEN FALSE ELSE IF f = l THEN TRUE ELSE start.free[f]
  <2>1. f \in Addr /\ (f # l => f \in Old)
    BY <1>2, <1>5, OldBlock
  <2>2. f \in Old => next[f] = start.next[f] /\ size[f] = start.size[f]
    BY <1>2 DEF SameLinks
  <2>3. next'[f] = IF f = e THEN l ELSE IF f = l THEN d ELSE start.next[f]
    BY <1>2, <1>5, <1>6, <1>7, <2>1, <2>2 DEF MemoryTypeOK
  <2>4. size'[f] = IF f = e THEN n
                   ELSE IF f = l THEN start.size[e] - n - 16 ELSE start.size[f]
    BY <1>2, <1>5, <1>6, <2>1, <2>2 DEF MemoryTypeOK
  <2>5. free'[f] = IF f = e THEN FALSE ELSE IF f = l THEN TRUE ELSE start.free[f]
    BY <1>2, <1>5, <1>6, <2>1 DEF MemoryTypeOK
  <2> QED
    BY <2>3, <2>4, <2>5
<1>10. ASSUME NEW f \in S \cup {0}
       PROVE  prev'[f] = IF f = d THEN l ELSE IF f = l THEN e ELSE start.prev[f]
  <2>1. f \in Addr /\ (f # l => prev[f] = start.prev[f])
    BY <1>2, <1>5, OldBlock, SameNames DEF SameLinks
  <2> QED
    BY <1>2, <1>5, <1>6, <1>7, <2>1 DEF MemoryTypeOK
<1>11. Way(next') = S
  <2>1. next' \in [Addr -> Addr]
    BY <1>8 DEF MemoryTypeOK
  <2>2. \A f \in Old \cup {l} :
          next'[f] = IF f = e THEN l ELSE IF f = l THEN start.next[e] ELSE start.next[f]
    BY <1>4, <1>9
  <2> QED
    <3>1. /\ l \in Addr /\ l # 0 /\ e < l /\ l \notin Old
          /\ start.next[e] # 0 => l < start.next[e]
      BY <1>4, <1>5, <1>6
    <3>2. Way(next') = Old \cup {l}
      BY <1>2, <2>1, <2>2, <3>1, WaySplit
    <3> QED
      BY <3>2
<1>12. /\ start'.next = [a \in S |-> next'[a]]
       /\ start'.prev = [a \in S \cup {0} |-> prev'[a]]
       /\ start'.size = [a \in S |-> size'[a]]
       /\ start'.free = [a \in S |-> free'[a]]
       /\ start'.inUse = inUse' /\ start'.held = Has'
       /\ Untouched' /\ (Has = start.held)'
  <2> HIDE DEF S
  <2> QED
    BY <1>11, ImageTaken
<1>13. Progress'
  BY <1>2, <1>12 DEF Progress, At
<1>14. S = HP!Entries \cup {l} /\ S \cup {0} = HP!Entries \cup {l, HP!NULL}
  BY SameNames DEF Old
<1>15. l = e + HP!HeaderSize + n
  BY <1>3, SameNames
<1> HIDE DEF S
<1>16. start'.next = [f \in S |-> IF f = e THEN l ELSE IF f = l THEN d ELSE start.next[f]]
  BY <1>9, <1>12, Zenon
<1>17. start'.prev = [f \in S \cup {0} |->
                        IF f = d THEN l ELSE IF f = l THEN e ELSE start.prev[f]]
  BY <1>10, <1>12, Zenon
<1>18. start'.size = [f \in S |-> IF f = e THEN n
                                  ELSE IF f = l THEN start.size[e] - n - 16
                                  ELSE start.size[f]]
  BY <1>9, <1>12, Zenon
<1>19. start'.free = [f \in S |-> IF f = e THEN FALSE
                                  ELSE IF f = l THEN TRUE ELSE start.free[f]]
  BY <1>9, <1>12, Zenon
<1>20. start'.inUse = start.inUse + 16 + n
  BY <1>2, <1>5, <1>12 DEF SameLinks
<1>21. HP!Split(e, n)
  BY <1>4, <1>14, <1>15, <1>16, <1>17, <1>18, <1>19, <1>20, SameNames
     DEF HP!Split, HP!PrevWith
<1>22. HP!Hold(e + 16, n)
  BY <1>2, <1>12 DEF HP!Hold
<1>23. ~HP!Whole(e, n) /\ e \in HP!Fits(n)
  <2>1. ~(start.size[e] - n <= 16 + 4)
    <3>1. PICK x : x = start.size[e] - n
      OBVIOUS
    <3>2. x \in Int /\ x > 16 + 4
      BY <1>2, <3>1
    <3> QED
      BY <3>1, <3>2
  <2> QED
    BY <1>2, <2>1, SameNames DEF HP!Whole, HP!FirstFit
<1>24. HP!Malloc(n)
  BY <1>2, <1>21, <1>22, <1>23, SameNames DEF HP!Malloc
<1> QED
  BY <1>2, <1>8, <1>13, <1>24 DEF AsCall, HP!HeapNext

-----------------------------------------------------------------------------
\* Every step of the caller is a step inside a call, or a call of Heap.
LEMMA EveryStep ==
  ASSUME AloneInv, AloneNext
  PROVE  InCall \/ AsCall
<1>1. start' = IF pc'[Caller] = "out" THEN Image' ELSE start
  BY DEF AloneNext
<1>2. MemoryTypeOK
  BY DEF AloneInv
<1>3. CASE \E n \in Sizes : CallMalloc(Caller, n)
  <2>1. PICK n \in Sizes : CallMalloc(Caller, n)
    BY <1>3
  <2>2. pc'[Caller] = "search"
    BY <1>2, <2>1 DEF CallMalloc, Goto, MemoryTypeOK
  <2> QED
    BY <1>1, <2>1, <2>2, CallMallocStep
<1>4. CASE Search(Caller)
  <2>1. CASE Now = NULL
    <3>1. Leave(Caller) /\ pc'[Caller] = "out"
      BY <1>2, <1>4, <2>1 DEF Search, Now, Leave, Goto, MemoryTypeOK
    <3> QED
      BY <1>1, <1>4, <2>1, <3>1, SearchFails
  <2>2. CASE Now # NULL
    <3>1. pc'[Caller] # "out"
      BY <1>2, <1>4, <2>2 DEF Search, Now, Goto, At, MemoryTypeOK
    <3> QED
      BY <1>1, <1>4, <2>2, <3>1, SearchGoesOn
  <2> QED
    BY <2>1, <2>2
<1>5. CASE Claim(Caller)
  <2>1. pc'[Caller] = "cut"
    BY <1>2, <1>5 DEF Claim, Goto, MemoryTypeOK
  <2> QED
    BY <1>1, <1>5, <2>1, ClaimStep
<1>6. CASE Cut(Caller)
  <2>1. PICK e : e = Now
    OBVIOUS
  <2>2. PICK n : n = Asked
    OBVIOUS
  <2>3. Cutting(e, n)
    BY <1>6, <2>1, <2>2, CutKnows
  <2>4. pc'[Caller] = "out" /\ start.size[e] \in Nat /\ n \in Nat
    BY <2>3 DEF Cutting
  <2>5. start.size[e] - n <= 16 + 4 \/ start.size[e] - n > 16 + 4
    BY <2>4
  <2> QED
    BY <1>1, <1>6, <2>1, <2>2, <2>4, <2>5, CutWhole, CutSplits
<1>7. CASE \E p \in DOMAIN held[Caller] : CallFree(Caller, p)
  <2>1. PICK p \in DOMAIN Has : CallFree(Caller, p)
    BY <1>7 DEF Has
  <2>2. pc'[Caller] = "check"
    BY <1>2, <2>1 DEF CallFree, Goto, MemoryTypeOK
  <2> QED
    BY <1>1, <2>1, <2>2, CallFreeStep
<1>8. CASE Check(Caller)
  BY <1>1, <1>8, CheckStep
<1>9. CASE Back(Caller)
  <2>1. pc'[Caller] # "out"
    BY <1>2, <1>9 DEF Back, Goto, At, MemoryTypeOK
  <2> QED
    BY <1>1, <1>9, <2>1, BackStep
<1>10. CASE Forth(Caller)
  BY <1>1, <1>10, ForthStep
<1> QED
  BY <1>3, <1>4, <1>5, <1>6, <1>7, <1>8, <1>9, <1>10 DEF AloneNext, CallerStep

\* The inductive invariant: at each place in malloc and free the memory is the
\* heap before the call, changed as far as the call has come.
LEMMA AloneInductive ==
  ASSUME AloneInv, [AloneNext]_<<vars, start>>
  PROVE  AloneInv' /\ [HP!HeapNext]_HP!vars
<1>1. CASE AloneNext
  <2>1. InCall \/ AsCall
    BY <1>1, EveryStep
  <2>2. CASE InCall
    <3>1. Sound'
      BY <2>2 DEF InCall, AloneInv, Sound, HP!HeapInv, HP!HeapTypeOK, HP!Chained,
                  HP!NoTwoFree, HP!HeldInUse, HP!Aligned, HP!NullIsNoExpr,
                  HP!Entries, HP!End
    <3> QED
      BY <2>2, <3>1 DEF InCall, AloneInv, HP!vars
  <2>3. CASE AsCall
    BY <2>3, SoundNext DEF AsCall, AloneInv
  <2> QED
    BY <2>1, <2>2, <2>3
<1>2. CASE UNCHANGED <<vars, start>>
  <2>1. UNCHANGED <<next, prev, size, free, inUse, pc, cur, want, held, start>>
    BY <1>2 DEF vars, memory
  <2>2. MemoryTypeOK' /\ Sound'
    BY <2>1 DEF AloneInv, MemoryTypeOK, Now, Asked, Sound, HP!HeapInv, HP!HeapTypeOK,
                HP!Chained, HP!NoTwoFree, HP!HeldInUse, HP!Aligned, HP!NullIsNoExpr,
                HP!Entries, HP!End
  <2>3. Progress'
    <3>1. /\ Old' = Old /\ Now' = Now /\ Asked' = Asked /\ Has' = Has
          /\ \A label : At(Caller, label)' = At(Caller, label)
      BY <2>1, StartSame DEF Now, Asked, Has, At
    <3>2. Untouched' = Untouched /\ SameLinks' = SameLinks
      BY <2>1, <3>1 DEF Untouched, SameLinks
    <3>3. /\ InMalloc' = InMalloc /\ NoneBefore' = NoneBefore
          /\ HP!FirstFit(Now, Asked)' = HP!FirstFit(Now, Asked)
      BY <2>1, <3>1 DEF InMalloc, NoneBefore, HP!FirstFit, HP!Fits, HP!Entries
    <3>4. ASSUME NEW e
          PROVE  /\ GaveBack(e)' = GaveBack(e) /\ HP!Into(e)' = HP!Into(e)
                 /\ HP!Last(e)' = HP!Last(e)
      BY <2>1, <3>1 DEF GaveBack, HP!Into, HP!Last, HP!FreeBlock
    <3>5. ASSUME NEW e, NEW a, NEW z, Joined(e, a, z) PROVE Joined(e, a, z)'
      BY <2>1, <3>1, <3>5 DEF Joined, Remaining, HP!Gained, HP!HeaderOf
    <3>6. CASE At(Caller, "out") \/ At(Caller, "search") \/ At(Caller, "claim")
      BY <2>1, <3>1, <3>2, <3>3, <3>6 DEF AloneInv, Progress, At
    <3>7. CASE At(Caller, "cut")
      BY <2>1, <3>1, <3>2, <3>3, <3>7 DEF AloneInv, Progress, At
    <3>8. CASE At(Caller, "check")
      <4>1. GaveBack(Now)' = GaveBack(Now)
        BY <2>1, <3>1 DEF GaveBack
      <4> QED
        BY <2>1, <3>1, <3>2, <3>8, <4>1 DEF AloneInv, Progress, At
    <3>9. CASE At(Caller, "back")
      <4>1. PICK e \in Old : GaveBack(e) /\ Now \in {e, HP!Into(e)} /\ Joined(e, Now, e)
        BY <3>9 DEF AloneInv, Progress, At
      <4>2. PICK a : a = Now
        OBVIOUS
      <4>3. Joined(e, a, e)'
        BY <3>5, <4>1, <4>2
      <4>4. Joined(e, Now, e)'
        BY <3>1, <4>2, <4>3
      <4> QED
        BY <3>1, <3>4, <3>9, <4>1, <4>4 DEF Progress
    <3>10. CASE At(Caller, "forth")
      <4>1. PICK e \in Old : /\ GaveBack(e) /\ Now = HP!Into(e)
                             /\ Joined(e, Now, e) \/ Joined(e, Now, HP!Last(e))
        BY <3>10 DEF AloneInv, Progress, At
      <4>2. PICK a : a = Now
        OBVIOUS
      <4>3. PICK z : z = HP!Last(e)
        OBVIOUS
      <4>4. Joined(e, a, e)' \/ Joined(e, a, z)'
        BY <3>5, <4>1, <4>2, <4>3
      <4>5. Joined(e, Now, e)' \/ Joined(e, Now, HP!Last(e))'
        BY <3>1, <3>4, <4>2, <4>3, <4>4
      <4> QED
        BY <3>1, <3>4, <3>10, <4>1, <4>5 DEF Progress
    <3> QED
      BY <3>6, <3>7, <3>8, <3>9, <3>10 DEF AloneInv, Progress
  <2> QED
    BY <2>1, <2>2, <2>3 DEF AloneInv, HP!vars
<1> QED
  BY <1>1, <1>2

\* The two instances of Heap, with and without its proofs, say the same.
LEMMA SameInit == HP!HeapInit <=> H!HeapInit
BY DEF HP!HeapInit, H!HeapInit, HP!Base, H!Base, HP!Align, H!Align, HP!NULL, H!NULL,
       HP!HeapSize, H!HeapSize, HP!HeaderSize, H!HeaderSize

\* Their helpers are the same.
LEMMA SameBlocks ==
  /\ HP!Entries = H!Entries /\ HP!HeaderSize = H!HeaderSize /\ HP!NULL = H!NULL
  /\ \A n : HP!Align(n) = H!Align(n) /\ HP!Fits(n) = H!Fits(n)
  /\ \A e, m : /\ HP!FirstFit(e, m) <=> H!FirstFit(e, m)
               /\ HP!Whole(e, m) <=> H!Whole(e, m)
BY DEF HP!Entries, H!Entries, HP!HeaderSize, H!HeaderSize, HP!NULL, H!NULL,
       HP!Align, H!Align, HP!Fits, H!Fits, HP!FirstFit, H!FirstFit, HP!Whole, H!Whole

\* Their steps are the same.
LEMMA SameNext == HP!HeapNext => H!HeapNext
<1>1. UNCHANGED HP!vars => UNCHANGED H!vars
  BY DEF HP!vars, H!vars
<1>2. ASSUME NEW e, HP!TakeWhole(e) PROVE H!TakeWhole(e)
  BY <1>2 DEF HP!TakeWhole, H!TakeWhole
<1>3. ASSUME NEW e, NEW m, HP!Split(e, m) PROVE H!Split(e, m)
  BY <1>3, SameBlocks DEF HP!Split, H!Split, HP!PrevWith, H!PrevWith
<1>4. ASSUME NEW p, NEW n, HP!Hold(p, n) PROVE H!Hold(p, n)
  BY <1>4 DEF HP!Hold, H!Hold
<1>5. ASSUME NEW n, HP!Malloc(n) PROVE H!Malloc(n)
  <2>1. CASE (n = 0 \/ HP!Fits(HP!Align(n)) = {}) /\ UNCHANGED HP!vars
    BY <1>1, <2>1, SameBlocks DEF H!Malloc
  <2>2. ASSUME n # 0, NEW e \in HP!Fits(HP!Align(n)), HP!FirstFit(e, HP!Align(n)),
               \/ HP!Whole(e, HP!Align(n)) /\ HP!TakeWhole(e)
               \/ ~HP!Whole(e, HP!Align(n)) /\ HP!Split(e, HP!Align(n)),
               HP!Hold(e + HP!HeaderSize, n)
        PROVE  H!Malloc(n)
    BY <1>2, <1>3, <1>4, <2>2, SameBlocks DEF H!Malloc
  <2> QED
    BY <1>5, <2>1, <2>2 DEF HP!Malloc
<1>6. ASSUME NEW e, HP!Merge(e) PROVE H!Merge(e)
  <2>1. HP!Into(e) = H!Into(e) /\ HP!Last(e) = H!Last(e)
    BY SameBlocks DEF HP!Into, H!Into, HP!Last, H!Last, HP!FreeBlock, H!FreeBlock
  <2>2. \A b : HP!Gained(b, e) = H!Gained(b, e) /\ HP!HeaderOf(b, e) = H!HeaderOf(b, e)
    BY SameBlocks DEF HP!Gained, H!Gained, HP!HeaderOf, H!HeaderOf
  <2>3. PICK a : a = H!Into(e)
    OBVIOUS
  <2>4. PICK z : z = H!Last(e)
    OBVIOUS
  <2>5. HP!Into(e) = a /\ HP!Last(e) = z
    BY <2>1, <2>3, <2>4
  <2> QED
    BY <1>6, <2>2, <2>3, <2>4, <2>5, SameBlocks DEF HP!Merge, H!Merge
<1>7. ASSUME NEW p, HP!Free(p) PROVE H!Free(p)
  <2>1. \A q : HP!Release(q) => H!Release(q)
    BY DEF HP!Release, H!Release
  <2> QED
    BY <1>1, <1>6, <1>7, <2>1, SameBlocks DEF HP!Free, H!Free
<1>8. HP!Pointers = H!Pointers
  BY SameBlocks DEF HP!Pointers, H!Pointers
<1> QED
  BY <1>5, <1>7, <1>8 DEF HP!HeapNext, H!HeapNext

\* A caller that no interrupt takes out of malloc or free finds the heap as if
\* each call were one step: the search, the cut and the two loops that join
\* neighbours do together what Malloc, Split and Merge of Heap say, no size
\* wraps, and no block that was joined is left on the list.
THEOREM CallsAreAtomic == AloneSpec => ImplementsHeap
<1>1. AloneInit => HP!HeapInit /\ AloneInv
  BY AloneInitOK
<1>2. AloneInv /\ [AloneNext]_<<vars, start>> => AloneInv'
  BY AloneInductive
<1>3. AloneInv /\ [AloneNext]_<<vars, start>> => [H!HeapNext]_H!vars
  <2>1. UNCHANGED HP!vars => UNCHANGED H!vars
    BY DEF HP!vars, H!vars
  <2> QED
    BY <2>1, AloneInductive, SameNext
<1>4. HP!HeapInit => H!HeapInit
  BY SameInit
<1> QED
  BY <1>1, <1>2, <1>3, <1>4, PTL DEF AloneSpec, ImplementsHeap, H!HeapSpec

\* "double free!" of mem.c accuses nobody wrongly as long as no interrupt takes
\* its caller out of malloc or free; with two callers it does.
THEOREM NeverReportedAlone == AloneSpec => []NoFalseReport
<1>1. AloneInit => AloneInv /\ NoFalseReport
  BY AloneInitOK DEF AloneInit, StepsInit, NoFalseReport
<1>2. AloneInv /\ [AloneNext]_<<vars, start>> => AloneInv'
  BY AloneInductive
<1>3. AloneInv /\ NoFalseReport /\ [AloneNext]_<<vars, start>> => NoFalseReport'
  <2>1. SUFFICES ASSUME AloneInv, NoFalseReport, [AloneNext]_<<vars, start>>
                 PROVE  NoFalseReport'
    OBVIOUS
  <2>2. ASSUME Check(Caller) PROVE reported' = reported
    <3>1. ~free[cur[Caller]]
      BY <2>1, <2>2 DEF Check, At, AloneInv, Progress, Untouched, GaveBack, Now
    <3> QED
      BY <2>2, <3>1 DEF Check
  <2> QED
    BY <2>1, <2>2 DEF AloneNext, CallerStep, CallMalloc, Search, Claim, Cut, CallFree,
                      Back, Forth, NoFalseReport, vars
<1> QED
  BY <1>1, <1>2, <1>3, PTL DEF AloneSpec

============================================================================
