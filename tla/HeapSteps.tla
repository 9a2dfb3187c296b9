----------------------------- MODULE HeapSteps -----------------------------
(***************************************************************************)
(* malloc and free of mem.c as the tasks run them: nothing keeps an        *)
(* interrupt from handing the processor to another task in the middle of a *)
(* call, and mem.c takes no lock.  A call is cut where it reads the heap   *)
(* again after deciding something from what it read before; a finer cut    *)
(* would add interleavings and take none away.                             *)
(*                                                                         *)
(* A header stays in memory after its block was joined with another, so    *)
(* the fields are functions on all addresses.                              *)
(***************************************************************************)
EXTENDS Integers, FiniteSets

CONSTANTS
  Callers,       \* the tasks that call malloc and free
  Lower, Upper,  \* as in Heap
  Sizes,         \* the sizes asked for, multiples of 4 here and none of them 0
  MaxHeld,       \* bound: blocks one caller holds
  Word           \* the range of a uint32_t

NULL == 0
HeaderSize == 16
Base == Lower

ASSUME StepsAssumption ==
  /\ Lower \in Nat \ {0} /\ Lower % 4 = 0 /\ Upper \in Nat
  /\ Upper > Lower + HeaderSize /\ Word \in Nat /\ Word > Upper
  /\ \A n \in Sizes : n \in Nat \ {0} /\ n % 4 = 0

Addr == {a \in Base..Upper : a % 4 = 0} \cup {NULL}
Minus(x, y) == (x - y) % Word

VARIABLES
  next, prev, size, free, inUse,
  pc,         \* where each caller is: "out" of the heap, or in malloc or free
  cur,        \* search in malloc, entry in free
  want,       \* n in malloc
  held,       \* the blocks each caller was given and has not passed to free
  reported    \* "double free!" was printed

memory == <<next, prev, size, free, inUse>>
vars == <<memory, pc, cur, want, held, reported>>

StepsInit ==
  /\ next = [a \in Addr |-> NULL] /\ prev = [a \in Addr |-> NULL]
  /\ size = [a \in Addr |-> IF a = Base THEN Upper - Base - HeaderSize ELSE 0]
  /\ free = [a \in Addr |-> a = Base]
  /\ inUse = 0
  /\ pc = [c \in Callers |-> "out"]
  /\ cur = [c \in Callers |-> NULL]
  /\ want = [c \in Callers |-> 0]
  /\ held = [c \in Callers |-> [p \in {} |-> 0]]
  /\ reported = FALSE

Goto(c, label) == pc' = [pc EXCEPT ![c] = label]
At(c, label) == pc[c] = label

\* The caller returns; what it looked at is forgotten.
Leave(c) ==
  /\ Goto(c, "out")
  /\ cur' = [cur EXCEPT ![c] = NULL]
  /\ want' = [want EXCEPT ![c] = 0]

-----------------------------------------------------------------------------
(* malloc *)

CallMalloc(c, n) ==
  /\ At(c, "out") /\ Goto(c, "search")
  /\ Cardinality(DOMAIN held[c]) < MaxHeld
  /\ cur' = [cur EXCEPT ![c] = Base]
  /\ want' = [want EXCEPT ![c] = n]
  /\ UNCHANGED <<memory, held, reported>>

\* Mutant of Found: "free" is not asked.
FoundUsed(c) == size[cur[c]] >= want[c]

Found(c) == free[cur[c]] /\ size[cur[c]] >= want[c]

\* The search loop, one block at a time.
Search(c) ==
  /\ At(c, "search")
  /\ \/ cur[c] = NULL /\ Leave(c)
     \/ cur[c] # NULL /\ Found(c) /\ Goto(c, "claim") /\ UNCHANGED <<cur, want>>
     \/ cur[c] # NULL /\ ~Found(c) /\ cur' = [cur EXCEPT ![c] = next[@]]
        /\ UNCHANGED <<pc, want>>
  /\ UNCHANGED <<memory, held, reported>>

Claim(c) ==
  /\ At(c, "claim") /\ Goto(c, "cut")
  /\ free' = [free EXCEPT ![cur[c]] = FALSE]
  /\ UNCHANGED <<next, prev, size, inUse, cur, want, held, reported>>

\* The rest of malloc: the block is used whole or cut in two.
Cut(c) ==
  LET e == cur[c]
      l == e + HeaderSize + want[c] IN
  /\ At(c, "cut") /\ Leave(c)
  /\ IF Minus(size[e], want[c]) <= HeaderSize + 4
     THEN /\ inUse' = inUse + size[e]
          /\ UNCHANGED <<next, prev, size, free>>
     ELSE /\ l \in Addr
          /\ next' = [next EXCEPT ![l] = next[e], ![e] = l]
          /\ prev' = [prev EXCEPT ![l] = e, ![next[e]] = l]
          /\ size' = [size EXCEPT ![l] = Minus(size[e], want[c] + HeaderSize),
                                  ![e] = want[c]]
          /\ free' = [free EXCEPT ![l] = TRUE]
          /\ inUse' = inUse + HeaderSize + want[c]
  /\ held' = [held EXCEPT ![c] =
                [p \in DOMAIN @ \cup {e + HeaderSize} |->
                   IF p = e + HeaderSize THEN want[c] ELSE @[p]]]
  /\ UNCHANGED reported

-----------------------------------------------------------------------------
(* free *)

\* A caller frees each block it was given once.
CallFree(c, p) ==
  /\ At(c, "out") /\ Goto(c, "check")
  /\ cur' = [cur EXCEPT ![c] = p - HeaderSize]
  /\ held' = [held EXCEPT ![c] = [q \in DOMAIN @ \ {p} |-> @[q]]]
  /\ UNCHANGED <<memory, want, reported>>

Check(c) ==
  LET e == cur[c] IN
  /\ At(c, "check")
  /\ IF free[e]
     THEN reported' = TRUE /\ Leave(c) /\ UNCHANGED <<free, inUse>>
     ELSE /\ free' = [free EXCEPT ![e] = TRUE]
          /\ inUse' = inUse - size[e]
          /\ Goto(c, "back")
          /\ UNCHANGED <<cur, want, reported>>
  /\ UNCHANGED <<next, prev, size, held>>

\* One pass of the loop that joins the block with the one before it.
Back(c) ==
  LET e == cur[c]
      b == prev[e] IN
  /\ At(c, "back")
  /\ IF b # NULL /\ free[b]
     THEN /\ size' = [size EXCEPT ![b] = @ + HeaderSize + size[e]]
          /\ next' = [next EXCEPT ![b] = next[e]]
          /\ prev' = IF next[e] = NULL THEN prev ELSE [prev EXCEPT ![next[e]] = b]
          /\ inUse' = inUse - HeaderSize
          /\ cur' = [cur EXCEPT ![c] = b]
          /\ UNCHANGED pc
     ELSE Goto(c, "forth") /\ UNCHANGED <<size, next, prev, inUse, cur>>
  /\ UNCHANGED <<free, want, held, reported>>

\* One pass of the loop that joins it with the one behind it.
Forth(c) ==
  LET e == cur[c]
      b == next[e] IN
  /\ At(c, "forth")
  /\ IF b # NULL /\ free[b]
     THEN /\ size' = [size EXCEPT ![e] = @ + HeaderSize + size[b]]
          /\ prev' = IF next[b] = NULL THEN prev ELSE [prev EXCEPT ![next[b]] = e]
          /\ next' = [next EXCEPT ![e] = next[b]]
          /\ inUse' = inUse - HeaderSize
          /\ UNCHANGED <<pc, cur, want>>
     ELSE Leave(c) /\ UNCHANGED <<size, next, prev, inUse>>
  /\ UNCHANGED <<free, held, reported>>

-----------------------------------------------------------------------------
CallerStep(c) ==
  \/ \E n \in Sizes : CallMalloc(c, n)
  \/ Search(c) \/ Claim(c) \/ Cut(c)
  \/ \E p \in DOMAIN held[c] : CallFree(c, p)
  \/ Check(c) \/ Back(c) \/ Forth(c)

StepsNext == \E c \in Callers : CallerStep(c)

StepsSpec == StepsInit /\ [][StepsNext]_vars

\* The diagnostic "double free!" of mem.c accuses the callers: as each of them
\* frees what it was given once, it is never printed.
NoFalseReport == ~reported

=============================================================================
