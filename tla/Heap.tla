-------------------------------- MODULE Heap --------------------------------
(***************************************************************************)
(* malloc and free of mem.c, called by one task at a time.                 *)
(*                                                                         *)
(* The heap is a list of blocks.  A block is a header of HeaderSize bytes  *)
(* followed by its bytes; it is known by the address of its header, and    *)
(* malloc returns the address after the header.                            *)
(***************************************************************************)
EXTENDS Integers, FiniteSetsExt

CONSTANTS
  Lower, Upper,  \* the memory given to heap_init
  Sizes          \* the sizes callers ask for

NULL == 0
HeaderSize == 16   \* sizeof(struct heap_entry)

AlignNot(n) == n   \* mutant: sizes are taken as they are

\* The next multiple of 4.  A size within 3 of 2^32 would wrap to 0 here.
Align(n) == IF n % 4 = 0 THEN n ELSE n + 4 - (n % 4)

Base == Align(Lower)   \* heap
HeapSize == Upper - Base - HeaderSize

ASSUME HeapAssumption ==
  /\ Lower \in Nat \ {0} /\ Upper \in Nat
  /\ HeapSize > 0
  /\ Sizes \subseteq Nat

VARIABLES
  next, prev,    \* heap_entry->next, ->prev
  size, free,    \* heap_entry->size, ->free
  inUse,         \* heap_in_use
  held           \* what the callers hold: the size asked for, by address

vars == <<next, prev, size, free, inUse, held>>

Entries == DOMAIN size
End(e) == e + HeaderSize + size[e]

-----------------------------------------------------------------------------
HeapInit ==
  /\ next = [e \in {Base} |-> NULL]
  /\ prev = [e \in {NULL, Base} |-> NULL]
  /\ size = [e \in {Base} |-> HeapSize]
  /\ free = [e \in {Base} |-> TRUE]
  /\ inUse = 0
  /\ held = [p \in {} |-> 0]

Hold(p, n) ==
  held' = [q \in DOMAIN held \cup {p} |-> IF q = p THEN n ELSE held[q]]
Release(p) == held' = [q \in DOMAIN held \ {p} |-> held[q]]

\* The blocks that can take m bytes.  The list is searched from its head and
\* is in the order of the addresses (see Chained): the lowest is found first.
FitsUsed(m) == {e \in Entries : size[e] >= m}   \* mutant: "free" is not asked
Fits(m) == {e \in Entries : free[e] /\ size[e] >= m}
FirstFit(e, m) == e \in Fits(m) /\ \A f \in Fits(m) : e <= f

\* "No room for even one extra allocation": the block is used as it is.
Whole(e, m) == size[e] - m <= HeaderSize + 4

\* Mutant of TakeWhole: a header is counted although none was made.
TakeWholeAndHeader(e) ==
  /\ free' = [free EXCEPT ![e] = FALSE]
  /\ inUse' = inUse + HeaderSize + size[e]
  /\ UNCHANGED <<next, prev, size>>

TakeWhole(e) ==
  /\ free' = [free EXCEPT ![e] = FALSE]
  /\ inUse' = inUse + size[e]
  /\ UNCHANGED <<next, prev, size>>

\* Mutant of PrevWith: the old successor is asked for first.
PrevWithAsked(e, l) ==
  [f \in Entries \cup {l, NULL} |->
     IF f # NULL /\ f = next[e] THEN l ELSE IF f = l THEN e ELSE prev[f]]

\* The list once block l was put behind block e: every block's prev.  The old
\* successor is told of l before anybody asks whether there is one; behind the
\* last block this writes the prev field of a header at address NULL.
PrevWith(e, l) ==
  [f \in Entries \cup {l, NULL} |->
     IF f = next[e] THEN l ELSE IF f = l THEN e ELSE prev[f]]

\* The block is cut after m bytes, and the rest becomes a free block.
Split(e, m) ==
  LET l == e + HeaderSize + m IN
  /\ next' = [f \in Entries \cup {l} |->
                IF f = e THEN l ELSE IF f = l THEN next[e] ELSE next[f]]
  /\ prev' = PrevWith(e, l)
  /\ size' = [f \in Entries \cup {l} |->
                IF f = e THEN m
                ELSE IF f = l THEN size[e] - m - HeaderSize ELSE size[f]]
  /\ free' = [f \in Entries \cup {l} |->
                IF f = e THEN FALSE ELSE IF f = l THEN TRUE ELSE free[f]]
  /\ inUse' = inUse + HeaderSize + m

\* malloc(0) and malloc without room for n return NULL and change nothing.
Malloc(n) ==
  LET m == Align(n) IN
  \/ (n = 0 \/ Fits(m) = {}) /\ UNCHANGED vars
  \/ /\ n # 0
     /\ \E e \in Fits(m) :
          /\ FirstFit(e, m)
          /\ \/ Whole(e, m) /\ TakeWhole(e)
             \/ ~Whole(e, m) /\ Split(e, m)
          /\ Hold(e + HeaderSize, n)

FreeBlock(b) == b # NULL /\ free[b]

\* The blocks that free joins e with: Into(e)..Last(e), the neighbours before
\* and behind it if they are free.  Each of the two loops of the code makes at
\* most one pass, as no two neighbours were free before (see NoTwoFree).
IntoItself(e) == e   \* mutant: no merge with the block before
Into(e) == IF FreeBlock(prev[e]) THEN prev[e] ELSE e
Last(e) == IF FreeBlock(next[e]) THEN next[e] ELSE e

\* What a neighbour b adds to e: its header and its bytes.
Gained(b, e) == IF b = e THEN 0 ELSE HeaderSize + size[b]
HeaderOf(b, e) == IF b = e THEN 0 ELSE HeaderSize

Merge(e) ==
  LET into == Into(e)
      after == next[Last(e)]
      rest == {f \in Entries : f = into \/ (f # e /\ f # Last(e))} IN
  /\ next' = [f \in rest |-> IF f = into THEN after ELSE next[f]]
  /\ prev' = [f \in rest \cup {NULL} |->
                IF f = after /\ f # NULL THEN into ELSE prev[f]]
  /\ size' = [f \in rest |->
                IF f = into THEN Gained(into, e) + size[e] + Gained(Last(e), e)
                            ELSE size[f]]
  /\ free' = [f \in rest |-> IF f = into THEN TRUE ELSE free[f]]
  /\ inUse' = inUse - size[e] - HeaderOf(into, e) - HeaderOf(Last(e), e)

\* free(NULL) does nothing, and freeing a block that is free already is only
\* reported ("double free!").
Free(p) ==
  \/ p = NULL /\ UNCHANGED vars
  \/ \E e \in Entries :
       /\ p = e + HeaderSize
       /\ \/ free[e] /\ UNCHANGED vars
          \/ ~free[e] /\ Merge(e) /\ Release(p)

\* Callers free what they hold, NULL, and by mistake what is free already.
Pointers == {NULL} \cup {e + HeaderSize : e \in Entries}

HeapNext ==
  \/ \E n \in Sizes : Malloc(n)
  \/ \E p \in Pointers : Free(p)

HeapSpec == HeapInit /\ [][HeapNext]_vars

-----------------------------------------------------------------------------
HeapTypeOK ==
  /\ Entries \subseteq Base..Upper /\ Base \in Entries
  /\ size \in [Entries -> Nat] /\ free \in [Entries -> BOOLEAN]
  /\ next \in [Entries -> Entries \cup {NULL}]
  /\ prev \in [Entries \cup {NULL} -> Nat]
  /\ \A e \in Entries : prev[e] \in Entries \cup {NULL}
  /\ inUse \in Int
  /\ DOMAIN held \subseteq Nat /\ held \in [DOMAIN held -> Sizes]

\* The list is the tiling of the arena by its blocks, in both directions: a
\* block ends where its successor begins, the last one at Upper.
Chained ==
  /\ \A e \in Entries :
       IF next[e] = NULL THEN End(e) = Upper
                         ELSE next[e] = End(e) /\ prev[next[e]] = e
  /\ \A e \in Entries : IF prev[e] = NULL THEN e = Base ELSE next[prev[e]] = e
  /\ \A e, f \in Entries : e < f => End(e) <= f

\* free leaves no two neighbours free.
NoTwoFree == \A e \in Entries : next[e] # NULL => ~(free[e] /\ free[next[e]])

\* The blocks in use are those somebody holds, and are large enough.
HeldInUse ==
  /\ \A p \in DOMAIN held : /\ p - HeaderSize \in Entries
                            /\ ~free[p - HeaderSize]
                            /\ held[p] <= size[p - HeaderSize]
  /\ \A e \in Entries : ~free[e] => e + HeaderSize \in DOMAIN held

\* What every call of malloc and free keeps: the list tiles the arena, no two
\* neighbours are free, and the blocks in use are those held.  That blocks do not
\* overlap cannot be kept without the links: free joins what next and prev name,
\* not what is adjacent.
HeapInv == HeapTypeOK /\ Chained /\ NoTwoFree /\ HeldInUse

\* What a block takes of the arena for good: its header, and its bytes as long
\* as somebody holds them.
Cost == [e \in Entries |-> HeaderSize + IF free[e] THEN 0 ELSE size[e]]

\* heap_size - heap_in_use, which the manager shows, is what malloc can still
\* hand out: the bytes of the free blocks.  heap_in_use counts the bytes held
\* and every header but the first, and it is never negative.  When everything
\* was given back the heap is as heap_init left it.
Accounting ==
  /\ inUse >= 0
  /\ inUse + HeaderSize = MapThenSumSet(LAMBDA e : Cost[e], Entries)
  /\ HeapSize - inUse = MapThenSumSet(LAMBDA e : size[e], {e \in Entries : free[e]})
  /\ DOMAIN held = {} => Entries = {Base} /\ size[Base] = HeapSize

\* What malloc returns is a multiple of 4, whatever the memory began with and
\* whatever was asked for: program.h tells a pointer from a number by bit 0.
Aligned == \A e \in Entries : e % 4 = 0

\* Once a block was cut, the word at address 0 is an address in the heap, which
\* lies above the first megabyte.  The parser's NULL expressions for None, True
\* and False are copied and freed as if they were structures: the word is read
\* as their type, and 0 would make them numbers.
NullIsNoExpr == Entries # {Base} => prev[NULL] \in Base..Upper

A == INSTANCE Arena WITH Low <- Base + HeaderSize, High <- Upper
ArenaSpec == A!Spec
=============================================================================
