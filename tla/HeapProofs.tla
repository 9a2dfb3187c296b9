----------------------------- MODULE HeapProofs -----------------------------
(***************************************************************************)
(* Theorems about module Heap, for every arena and all sizes asked for.    *)
(***************************************************************************)
EXTENDS Heap, Lemmas

\* Align rounds up, and only 0 to 0.
LEMMA AlignUp ==
  ASSUME NEW n \in Nat
  PROVE  Align(n) \in Nat /\ n <= Align(n) /\ (n # 0 => Align(n) # 0)
BY DEF Align

\* The aligned start of the heap is an address, and the arena is not empty.
LEMMA BaseNat == Base \in Nat /\ Base > 0 /\ HeapSize \in Nat
                 /\ Base + HeaderSize + HeapSize = Upper
<1>1. Base \in Nat /\ Base > 0
  BY AlignUp, HeapAssumption DEF Base
<1> QED
  BY <1>1, HeapAssumption DEF HeapSize, HeaderSize

\* A block and its neighbours.
LEMMA Neighbours ==
  ASSUME HeapInv, NEW e \in Entries
  PROVE  /\ e \in Nat /\ e >= Base /\ size[e] \in Nat
         /\ End(e) \in Nat /\ e < End(e) /\ End(e) <= Upper
         /\ next[e] # NULL => /\ next[e] \in Entries /\ next[e] = End(e)
                              /\ prev[next[e]] = e
         /\ prev[e] # NULL => /\ prev[e] \in Entries /\ End(prev[e]) = e
                              /\ next[prev[e]] = e
<1>1. /\ e \in Nat /\ e >= Base /\ size[e] \in Nat /\ Upper \in Nat
      /\ End(e) \in Nat /\ e < End(e)
  BY BaseNat, HeapAssumption DEF HeapInv, HeapTypeOK, End, HeaderSize
<1>2. next[e] # NULL => /\ next[e] \in Entries /\ next[e] = End(e)
                        /\ prev[next[e]] = e
  BY DEF HeapInv, HeapTypeOK, Chained
<1>3. End(e) <= Upper
  BY <1>1, <1>2, BaseNat DEF HeapInv, HeapTypeOK, Chained
<1>4. ASSUME prev[e] # NULL
      PROVE  prev[e] \in Entries /\ End(prev[e]) = e /\ next[prev[e]] = e
  <2>1. prev[e] \in Entries /\ next[prev[e]] = e
    BY <1>4 DEF HeapInv, HeapTypeOK, Chained
  <2>2. e # NULL
    BY <1>1, BaseNat DEF NULL
  <2> QED
    BY <2>1, <2>2 DEF HeapInv, Chained
<1> QED
  BY <1>1, <1>2, <1>3, <1>4

-----------------------------------------------------------------------------
\* heap_init leaves one free block, the whole arena.
LEMMA InitIInv == HeapInit => HeapInv
<1> SUFFICES ASSUME HeapInit PROVE HeapInv
  OBVIOUS
<1>1. Entries = {Base} /\ DOMAIN held = {} /\ Base # NULL
  BY BaseNat DEF HeapInit, Entries, NULL
<1>2. HeapTypeOK
  BY <1>1, BaseNat, HeapAssumption DEF HeapInit, HeapTypeOK, Entries, NULL, HeaderSize
<1>3. Chained
  BY <1>1, BaseNat DEF HeapInit, Chained, End, NULL
<1>4. NoTwoFree /\ HeldInUse
  BY <1>1 DEF HeapInit, NoTwoFree, HeldInUse
<1> QED
  BY <1>2, <1>3, <1>4 DEF HeapInv

-----------------------------------------------------------------------------
\* A block that is used as it is changes no link.
LEMMA TakeWholeIInv ==
  ASSUME HeapInv, NEW n \in Sizes, NEW e \in Fits(Align(n)),
         TakeWhole(e), Hold(e + HeaderSize, n)
  PROVE  HeapInv'
<1>1. /\ e \in Entries /\ free[e] /\ size[e] >= Align(n) /\ n \in Nat
      /\ n <= Align(n) /\ Align(n) \in Nat
  BY AlignUp, HeapAssumption DEF Fits
<1>2. Entries' = Entries
  BY DEF TakeWhole, Entries
<1>3. /\ e \in Nat /\ size[e] \in Nat /\ inUse \in Int
      /\ \A f \in Entries : f \in Nat
  BY <1>1, Neighbours DEF HeapInv, HeapTypeOK
<1>4. /\ DOMAIN held' = DOMAIN held \cup {e + HeaderSize}
      /\ held'[e + HeaderSize] = n
      /\ \A p \in DOMAIN held : p # e + HeaderSize => held'[p] = held[p]
  BY DEF Hold
<1>5. HeapTypeOK'
  <2>1. DOMAIN held' \subseteq Nat /\ held' \in [DOMAIN held' -> Sizes]
    BY <1>3, <1>4 DEF HeapInv, HeapTypeOK, HeaderSize, Hold
  <2>2. inUse' \in Int
    BY <1>3 DEF TakeWhole
  <2> QED
    BY <1>2, <2>1, <2>2 DEF HeapInv, HeapTypeOK, TakeWhole
<1>6. Chained'
  BY <1>2 DEF HeapInv, Chained, TakeWhole, End
<1>7. \A f \in Entries : f # e => free'[f] = free[f]
  BY DEF TakeWhole, HeapInv, HeapTypeOK
<1>8. ~free'[e]
  BY <1>1 DEF TakeWhole, HeapInv, HeapTypeOK
<1>9. NoTwoFree'
  <2>1. \A f \in Entries : next[f] # NULL => next[f] \in Entries
    BY Neighbours
  <2> QED
    BY <1>2, <1>7, <1>8, <2>1 DEF HeapInv, NoTwoFree, TakeWhole
<1>10. HeldInUse'
  <2>1. ASSUME NEW p \in DOMAIN held'
        PROVE  /\ p - HeaderSize \in Entries /\ ~free'[p - HeaderSize]
               /\ held'[p] <= size'[p - HeaderSize]
    <3>1. CASE p = e + HeaderSize
      <4>1. p - HeaderSize = e
        BY <1>3, <3>1 DEF HeaderSize
      <4> QED
        BY <1>1, <1>3, <1>4, <1>8, <3>1, <4>1 DEF TakeWhole
    <3>2. CASE p # e + HeaderSize
      <4>1. p \in DOMAIN held /\ p \in Nat
        BY <1>4, <3>2 DEF HeapInv, HeapTypeOK
      <4>2. p - HeaderSize # e
        BY <1>3, <3>2, <4>1 DEF HeaderSize
      <4> QED
        BY <1>4, <1>7, <3>2, <4>1, <4>2 DEF HeapInv, HeldInUse, TakeWhole
    <3> QED
      BY <3>1, <3>2
  <2>2. \A f \in Entries : ~free'[f] => f + HeaderSize \in DOMAIN held'
    BY <1>4, <1>7 DEF HeapInv, HeldInUse
  <2> QED
    BY <1>2, <2>1, <2>2 DEF HeldInUse
<1> QED
  BY <1>5, <1>6, <1>9, <1>10 DEF HeapInv
-----------------------------------------------------------------------------
\* The new block l lies inside the block it was cut from.
LEMMA SplitIInv ==
  ASSUME HeapInv, NEW n \in Sizes, NEW e \in Fits(Align(n)), n # 0,
         ~Whole(e, Align(n)), Split(e, Align(n)), Hold(e + HeaderSize, n)
  PROVE  HeapInv'
<1> DEFINE m == Align(n)
           l == e + HeaderSize + m
<1>1. /\ e \in Entries /\ free[e] /\ size[e] >= m /\ n \in Nat
      /\ n <= m /\ m \in Nat /\ m > 0
  BY AlignUp, HeapAssumption DEF Fits
<1>2. /\ e \in Nat /\ e >= Base /\ Base > 0 /\ size[e] \in Nat /\ inUse \in Int
      /\ End(e) <= Upper /\ Upper \in Nat /\ Base \in Nat /\ End(e) \in Nat
      /\ \A f \in Entries : /\ f \in Nat /\ f >= Base /\ size[f] \in Nat
                            /\ End(f) \in Nat /\ f < End(f)
  BY <1>1, Neighbours, BaseNat, HeapAssumption DEF HeapInv, HeapTypeOK
<1>3. size[e] - m - HeaderSize > 4
  BY <1>1, <1>2 DEF Whole, HeaderSize
<1>4. l \in Nat /\ e < l /\ l < End(e)
  BY <1>1, <1>2, <1>3 DEF End, HeaderSize
<1>5. \A f \in Entries : l # f /\ (f < e => End(f) <= e) /\ (e < f => End(e) <= f)
  <2> HIDE DEF l
  <2>1. SUFFICES ASSUME NEW f \in Entries
                 PROVE  l # f /\ (f < e => End(f) <= e) /\ (e < f => End(e) <= f)
    OBVIOUS
  <2>2. (f < e => End(f) <= e) /\ (e < f => End(e) <= f)
    BY <1>1 DEF HeapInv, Chained
  <2> QED
    BY <1>2, <1>4, <2>2
<1>6. /\ next' = [f \in Entries \cup {l} |->
                    IF f = e THEN l ELSE IF f = l THEN next[e] ELSE next[f]]
      /\ prev' = [f \in Entries \cup {l, NULL} |->
                    IF f = next[e] THEN l ELSE IF f = l THEN e ELSE prev[f]]
      /\ size' = [f \in Entries \cup {l} |->
                    IF f = e THEN m
                    ELSE IF f = l THEN size[e] - m - HeaderSize ELSE size[f]]
      /\ free' = [f \in Entries \cup {l} |->
                    IF f = e THEN FALSE ELSE IF f = l THEN TRUE ELSE free[f]]
      /\ inUse' = inUse + HeaderSize + m
  BY DEF Split, PrevWith
<1>7. Entries' = Entries \cup {l}
  BY <1>6 DEF Entries
<1>8. /\ DOMAIN held' = DOMAIN held \cup {e + HeaderSize}
      /\ held'[e + HeaderSize] = n
      /\ \A p \in DOMAIN held : p # e + HeaderSize => held'[p] = held[p]
  BY DEF Hold
<1>9. l # NULL /\ e # NULL /\ \A f \in Entries : f # NULL
  BY <1>2, <1>4 DEF NULL
<1>10. /\ size'[e] = m /\ size'[l] = size[e] - m - HeaderSize
       /\ \A f \in Entries : f # e => size'[f] = size[f]
       /\ next'[e] = l /\ next'[l] = next[e]
       /\ \A f \in Entries : f # e => next'[f] = next[f]
       /\ ~free'[e] /\ free'[l]
       /\ \A f \in Entries : f # e => free'[f] = free[f]
  BY <1>1, <1>5, <1>6
<1>11. /\ next[e] # NULL => /\ next[e] \in Entries /\ next[e] = End(e)
                            /\ prev[next[e]] = e
       /\ \A f \in Entries : next[f] # NULL =>
             next[f] \in Entries /\ next[f] = End(f) /\ prev[next[f]] = f
       /\ \A f \in Entries : prev[f] # NULL =>
             prev[f] \in Entries /\ End(prev[f]) = f /\ next[prev[f]] = f
  BY <1>1, Neighbours
<1>12. /\ prev'[l] = e
       /\ next[e] # NULL => prev'[next[e]] = l
       /\ \A f \in Entries : f # next[e] => prev'[f] = prev[f]
  BY <1>5, <1>6, <1>9, <1>11
<1>13. /\ End(e)' = l /\ End(l)' = End(e)
       /\ \A f \in Entries : f # e => End(f)' = End(f)
  BY <1>1, <1>2, <1>4, <1>10 DEF End, HeaderSize
<1> HIDE DEF l, m
<1>14. HeapTypeOK'
  <2>1. DOMAIN held' \subseteq Nat /\ held' \in [DOMAIN held' -> Sizes]
    BY <1>2, <1>8 DEF HeapInv, HeapTypeOK, HeaderSize, Hold
  <2>2. inUse' \in Int
    BY <1>1, <1>2, <1>6 DEF HeaderSize
  <2>3. Entries' \subseteq Base..Upper /\ Base \in Entries'
    BY <1>2, <1>4, <1>7 DEF HeapInv, HeapTypeOK
  <2>4. size' \in [Entries' -> Nat]
    <3>1. size'[e] \in Nat /\ size'[l] \in Nat
      BY <1>1, <1>2, <1>3, <1>10 DEF HeaderSize
    <3>2. \A f \in Entries' : size'[f] \in Nat
      BY <1>2, <1>7, <1>10, <3>1
    <3> QED
      BY <1>6, <1>7, <3>2
  <2>5. free' \in [Entries' -> BOOLEAN]
    BY <1>6, <1>7 DEF HeapInv, HeapTypeOK
  <2>6. next' \in [Entries' -> Entries' \cup {NULL}]
    BY <1>1, <1>6, <1>7 DEF HeapInv, HeapTypeOK
  <2>7. prev' \in [Entries' \cup {NULL} -> Nat]
    BY <1>2, <1>4, <1>6, <1>7 DEF HeapInv, HeapTypeOK, NULL
  <2>8. ASSUME NEW f \in Entries' PROVE prev'[f] \in Entries' \cup {NULL}
    <3>1. CASE f = l
      BY <1>1, <1>7, <1>12, <3>1
    <3>2. CASE f \in Entries /\ f = next[e]
      BY <1>7, <1>9, <1>12, <3>2
    <3>3. CASE f \in Entries /\ f # next[e]
      BY <1>7, <1>11, <1>12, <3>3
    <3> QED
      BY <1>7, <3>1, <3>2, <3>3
  <2> QED
    BY <2>1, <2>2, <2>3, <2>4, <2>5, <2>6, <2>7, <2>8 DEF HeapTypeOK
<1>15. Chained'
  <2>1. ASSUME NEW f \in Entries'
        PROVE  IF next'[f] = NULL
               THEN End(f)' = Upper
               ELSE next'[f] = End(f)' /\ prev'[next'[f]] = f
    <3>1. CASE f = e
      BY <1>9, <1>10, <1>12, <1>13, <3>1
    <3>2. CASE f = l
      BY <1>1, <1>9, <1>10, <1>11, <1>12, <1>13, <3>2 DEF HeapInv, Chained
    <3>3. CASE f \in Entries /\ f # e
      <4>1. next'[f] = next[f] /\ End(f)' = End(f)
        BY <1>10, <1>13, <3>3
      <4>2. next[f] # NULL => next[f] # next[e]
        BY <1>1, <1>11, <3>3
      <4> QED
        BY <1>11, <1>12, <3>3, <4>1, <4>2 DEF HeapInv, Chained
    <3> QED
      BY <1>7, <3>1, <3>2, <3>3
  <2>2. ASSUME NEW f \in Entries'
        PROVE  IF prev'[f] = NULL THEN f = Base ELSE next'[prev'[f]] = f
    <3>1. CASE f = l
      BY <1>9, <1>10, <1>12, <3>1
    <3>2. CASE f \in Entries /\ f = next[e]
      BY <1>9, <1>10, <1>12, <3>2
    <3>3. CASE f \in Entries /\ f # next[e]
      <4>1. prev'[f] = prev[f]
        BY <1>12, <3>3
      <4>2. prev[f] # NULL => prev[f] # e /\ prev[f] \in Entries
        BY <1>11, <3>3
      <4> QED
        BY <1>10, <3>3, <4>1, <4>2 DEF HeapInv, Chained
    <3> QED
      BY <1>7, <3>1, <3>2, <3>3
  <2>3. ASSUME NEW f \in Entries', NEW g \in Entries', f < g
        PROVE  End(f)' <= g
    <3>1. End(e) \in Nat
      BY <1>1, Neighbours
    <3>2. CASE f = e
      BY <1>2, <1>4, <1>5, <1>7, <1>13, <2>3, <3>1, <3>2
    <3>3. CASE f = l
      BY <1>2, <1>4, <1>5, <1>7, <1>13, <2>3, <3>1, <3>3
    <3>4. CASE f \in Entries /\ f # e
      <4>1. End(f)' = End(f) /\ End(f) \in Nat
        BY <1>13, <3>4, Neighbours
      <4>2. CASE g = l
        BY <1>2, <1>4, <1>5, <2>3, <3>4, <4>1, <4>2
      <4>3. CASE g \in Entries
        BY <2>3, <3>4, <4>1, <4>3 DEF HeapInv, Chained
      <4> QED
        BY <1>7, <4>2, <4>3
    <3> QED
      BY <1>7, <3>2, <3>3, <3>4
  <2> QED
    BY <2>1, <2>2, <2>3 DEF Chained
<1>16. NoTwoFree'
  <2> SUFFICES ASSUME NEW f \in Entries', next'[f] # NULL
               PROVE  ~(free'[f] /\ free'[next'[f]])
    BY DEF NoTwoFree
  <2>1. CASE f = e
    BY <1>10, <2>1
  <2>2. CASE f = l
    BY <1>1, <1>4, <1>10, <1>11, <2>2 DEF HeapInv, NoTwoFree
  <2>3. CASE f \in Entries /\ f # e
    BY <1>10, <1>11, <2>3 DEF HeapInv, NoTwoFree
  <2> QED
    BY <1>7, <2>1, <2>2, <2>3
<1>17. HeldInUse'
  <2>1. ASSUME NEW p \in DOMAIN held'
        PROVE  /\ p - HeaderSize \in Entries' /\ ~free'[p - HeaderSize]
               /\ held'[p] <= size'[p - HeaderSize]
    <3>1. CASE p = e + HeaderSize
      <4>1. p - HeaderSize = e
        BY <1>2, <3>1 DEF HeaderSize
      <4> QED
        BY <1>1, <1>7, <1>8, <1>10, <3>1, <4>1
    <3>2. CASE p # e + HeaderSize
      <4>1. p \in DOMAIN held /\ p \in Nat
        BY <1>8, <3>2 DEF HeapInv, HeapTypeOK
      <4>2. p - HeaderSize # e
        BY <1>2, <3>2, <4>1 DEF HeaderSize
      <4>3. p - HeaderSize \in Entries
        BY <4>1 DEF HeapInv, HeldInUse
      <4> QED
        BY <1>7, <1>8, <1>10, <3>2, <4>1, <4>2, <4>3 DEF HeapInv, HeldInUse
    <3> QED
      BY <3>1, <3>2
  <2>2. \A f \in Entries' : ~free'[f] => f + HeaderSize \in DOMAIN held'
    BY <1>7, <1>8, <1>10 DEF HeapInv, HeldInUse
  <2> QED
    BY <2>1, <2>2 DEF HeldInUse
<1> QED
  BY <1>14, <1>15, <1>16, <1>17 DEF HeapInv

\* malloc, whether it fails, takes a block whole or cuts it.
LEMMA MallocIInv ==
  ASSUME HeapInv, NEW n \in Sizes, Malloc(n) PROVE HeapInv'
<1>1. CASE UNCHANGED vars
  BY <1>1 DEF vars, HeapInv, HeapTypeOK, Chained, NoTwoFree, HeldInUse, Entries, End
<1>2. ASSUME n # 0, NEW e \in Fits(Align(n)),
             \/ Whole(e, Align(n)) /\ TakeWhole(e)
             \/ ~Whole(e, Align(n)) /\ Split(e, Align(n)),
             Hold(e + HeaderSize, n)
      PROVE  HeapInv'
  BY <1>2, TakeWholeIInv, SplitIInv
<1> QED
  BY <1>1, <1>2 DEF Malloc

-----------------------------------------------------------------------------
\* The blocks from Into(e) to Last(e) are adjacent, and of them only e is in
\* use; the block before and the block behind them are not free.
LEMMA MergedBlocks ==
  ASSUME HeapInv, NEW e \in Entries, ~free[e]
  PROVE  LET a == Into(e)
             z == Last(e) IN
         /\ a \in Entries /\ z \in Entries
         /\ a # e => free[a] /\ prev[e] = a /\ next[a] = e /\ End(a) = e
         /\ z # e => free[z] /\ next[e] = z /\ prev[z] = e /\ End(e) = z
         /\ prev[a] # NULL => ~free[prev[a]]
         /\ next[z] # NULL => ~free[next[z]]
<1> DEFINE a == Into(e)
           z == Last(e)
<1>1. \A f \in Entries :
        /\ next[f] # NULL => /\ next[f] \in Entries /\ next[f] = End(f)
                             /\ prev[next[f]] = f /\ ~(free[f] /\ free[next[f]])
        /\ prev[f] # NULL => /\ prev[f] \in Entries /\ End(prev[f]) = f
                             /\ next[prev[f]] = f
  BY Neighbours DEF HeapInv, NoTwoFree
<1>2. \A f \in Entries : f # NULL
  BY Neighbours, BaseNat DEF NULL
<1>3. /\ a \in Entries
      /\ a # e => free[a] /\ prev[e] = a /\ next[a] = e /\ End(a) = e
      /\ prev[a] # NULL => ~free[prev[a]]
  <2>1. CASE FreeBlock(prev[e])
    BY <1>1, <1>2, <2>1 DEF Into, FreeBlock
  <2>2. CASE ~FreeBlock(prev[e])
    BY <2>2 DEF Into, FreeBlock
  <2> QED
    BY <2>1, <2>2
<1>4. /\ z \in Entries
      /\ z # e => free[z] /\ next[e] = z /\ prev[z] = e /\ End(e) = z
      /\ next[z] # NULL => ~free[next[z]]
  <2>1. CASE FreeBlock(next[e])
    BY <1>1, <2>1 DEF Last, FreeBlock
  <2>2. CASE ~FreeBlock(next[e])
    BY <2>2 DEF Last, FreeBlock
  <2> QED
    BY <2>1, <2>2
<1> QED
  BY <1>3, <1>4

\* free joins neighbours only and leaves the list a tiling of the arena.
LEMMA MergeIInv ==
  ASSUME HeapInv, NEW e \in Entries, ~free[e], Merge(e), Release(e + HeaderSize)
  PROVE  HeapInv'
<1> DEFINE a == Into(e)
           z == Last(e)
           after == next[z]
           rest == {f \in Entries : f = a \/ (f # e /\ f # z)}
<1>1. /\ a \in Entries /\ z \in Entries
      /\ a # e => free[a] /\ prev[e] = a /\ next[a] = e /\ End(a) = e
      /\ z # e => free[z] /\ next[e] = z /\ prev[z] = e /\ End(e) = z
      /\ prev[a] # NULL => ~free[prev[a]]
      /\ after # NULL => ~free[after]
  BY MergedBlocks
<1>2. /\ next' = [f \in rest |-> IF f = a THEN after ELSE next[f]]
      /\ prev' = [f \in rest \cup {NULL} |->
                    IF f = after /\ f # NULL THEN a ELSE prev[f]]
      /\ size' = [f \in rest |->
                    IF f = a THEN Gained(a, e) + size[e] + Gained(z, e) ELSE size[f]]
      /\ free' = [f \in rest |-> IF f = a THEN TRUE ELSE free[f]]
      /\ inUse' = inUse - size[e] - HeaderOf(a, e) - HeaderOf(z, e)
  BY DEF Merge
<1>3. Entries' = rest
  BY <1>2 DEF Entries
<1>4. \A f \in Entries :
        /\ f \in Nat /\ f >= Base /\ f # NULL /\ size[f] \in Nat
        /\ End(f) \in Nat /\ f < End(f) /\ End(f) = f + HeaderSize + size[f]
        /\ next[f] # NULL => /\ next[f] \in Entries /\ next[f] = End(f)
                             /\ prev[next[f]] = f
        /\ next[f] = NULL => End(f) = Upper
        /\ prev[f] # NULL => prev[f] \in Entries /\ next[prev[f]] = f
        /\ prev[f] = NULL => f = Base
  BY Neighbours, BaseNat DEF NULL, End, HeapInv, Chained
<1>5. /\ DOMAIN held' = DOMAIN held \ {e + HeaderSize}
      /\ \A p \in DOMAIN held' : held'[p] = held[p]
  BY DEF Release
<1> HIDE DEF a, z
<1>6. size'[a] \in Nat /\ a + HeaderSize + size'[a] = End(z)
  <2>1. a \in rest
    BY <1>1
  <2>2. size'[a] = Gained(a, e) + size[e] + Gained(z, e)
    BY <1>2, <2>1
  <2>4. /\ a \in Nat /\ size[a] \in Nat /\ e \in Nat /\ size[e] \in Nat
        /\ z \in Nat /\ size[z] \in Nat
        /\ End(z) = z + HeaderSize + size[z]
        /\ a # e => a + HeaderSize + size[a] = e
        /\ z # e => e + HeaderSize + size[e] = z
    BY <1>1, <1>4
  <2>5. Gained(a, e) = IF a = e THEN 0 ELSE HeaderSize + size[a]
    BY DEF Gained
  <2>6. Gained(z, e) = IF z = e THEN 0 ELSE HeaderSize + size[z]
    BY DEF Gained
  <2> QED
    BY <2>2, <2>4, <2>5, <2>6 DEF HeaderSize
<1>7. /\ a \in rest /\ (z # a => z \notin rest) /\ (e # a => e \notin rest)
      /\ rest \subseteq Entries
  BY <1>1
<1>8. after # NULL => after \in rest /\ after # a /\ prev[after] = z
  <2> SUFFICES ASSUME after # NULL
               PROVE  after \in rest /\ after # a /\ prev[after] = z
    OBVIOUS
  <2>1. after \in Entries /\ prev[after] = z /\ after = End(z) /\ z < after
    BY <1>1, <1>4
  <2>2. a <= e /\ e <= z
    BY <1>1, <1>4
  <2>3. a \in Nat /\ e \in Nat /\ z \in Nat /\ after \in Nat
    BY <1>1, <1>4, <2>1
  <2> QED
    BY <2>1, <2>2, <2>3
<1>9. ASSUME NEW f \in rest, f # a
      PROVE  /\ next[f] # NULL => next[f] \in rest /\ next[f] # after
             /\ prev[f] # NULL /\ f # after => prev[f] \in rest /\ prev[f] # a
  <2>1. f \in Entries /\ f # e /\ f # z
    BY <1>9
  <2>2. ASSUME next[f] # NULL PROVE next[f] \in rest /\ next[f] # after
    <3>1. next[f] \in Entries /\ prev[next[f]] = f
      BY <1>4, <2>1, <2>2
    <3>2. next[f] # after
      BY <1>8, <2>1, <3>1, <2>2
    <3>3. next[f] = e => a = e
      BY <1>1, <1>9, <3>1
    <3>4. next[f] = z => z = e
      BY <1>1, <2>1, <3>1
    <3> QED
      BY <3>1, <3>2, <3>3, <3>4
  <2>3. ASSUME prev[f] # NULL, f # after PROVE prev[f] \in rest /\ prev[f] # a
    <3>1. prev[f] \in Entries /\ next[prev[f]] = f
      BY <1>4, <2>1, <2>3
    <3>2. prev[f] # z
      BY <2>3, <3>1
    <3>3. prev[f] # e
      BY <1>1, <2>1, <3>1, <3>2
    <3>4. prev[f] # a
      BY <1>1, <2>1, <3>1, <3>3
    <3> QED
      BY <3>1, <3>2, <3>3, <3>4
  <2> QED
    BY <2>2, <2>3
<1>10. /\ next'[a] = after /\ free'[a]
       /\ \A f \in rest : f # a => /\ next'[f] = next[f] /\ free'[f] = free[f]
                                   /\ size'[f] = size[f] /\ End(f)' = End(f)
       /\ after # NULL => prev'[after] = a
       /\ \A f \in rest : f # after => prev'[f] = prev[f]
  BY <1>2, <1>7, <1>8 DEF End
<1>11. prev[a] # NULL => prev[a] \in rest /\ prev[a] # a /\ a # after
  <2> SUFFICES ASSUME prev[a] # NULL
               PROVE  prev[a] \in rest /\ prev[a] # a /\ a # after
    OBVIOUS
  <2>1. prev[a] \in Entries /\ next[prev[a]] = a /\ prev[a] < a
    BY <1>1, <1>4
  <2>2. a <= e /\ e <= z
    BY <1>1, <1>4
  <2>3. a \in Nat /\ e \in Nat /\ z \in Nat /\ prev[a] \in Nat
    BY <1>1, <1>4, <2>1
  <2>4. prev[a] # e /\ prev[a] # z
    BY <2>1, <2>2, <2>3
  <2> QED
    BY <1>1, <1>8, <2>1, <2>3, <2>4, <1>4
<1> HIDE DEF rest, after
<1>12. HeapTypeOK'
  <2>1. DOMAIN held' \subseteq Nat /\ held' \in [DOMAIN held' -> Sizes]
    BY DEF HeapInv, HeapTypeOK, Release
  <2>2. inUse' \in Int
    BY <1>2, <1>4 DEF HeapInv, HeapTypeOK, HeaderOf, HeaderSize
  <2>3. rest \subseteq Base..Upper
    BY <1>7 DEF HeapInv, HeapTypeOK
  <2>4. Base \in rest
    <3>1. Base \in Entries /\ Base \in Nat
      BY BaseNat DEF HeapInv, HeapTypeOK
    <3>2. CASE Base = a
      BY <1>7, <3>2
    <3>3. CASE Base # a
      <4>1. a \in Nat /\ a > Base /\ e \in Nat /\ z \in Nat /\ a <= e /\ e <= z
        BY <1>1, <1>4, <3>1, <3>3
      <4> QED
        BY <3>1, <3>3, <4>1 DEF rest
    <3> QED
      BY <3>2, <3>3
  <2>5. size' \in [rest -> Nat]
    <3>1. \A f \in rest : size'[f] \in Nat
      BY <1>4, <1>6, <1>7, <1>10
    <3> QED
      BY <1>2, <3>1
  <2>6. free' \in [rest -> BOOLEAN]
    BY <1>2, <1>7 DEF HeapInv, HeapTypeOK
  <2>7. next' \in [rest -> rest \cup {NULL}]
    <3>1. \A f \in rest : next'[f] \in rest \cup {NULL}
      BY <1>8, <1>9, <1>10
    <3> QED
      BY <1>2, <3>1
  <2>8. prev' \in [rest \cup {NULL} -> Nat]
    BY <1>1, <1>2, <1>4, <1>7 DEF HeapInv, HeapTypeOK
  <2>9. ASSUME NEW f \in rest PROVE prev'[f] \in rest \cup {NULL}
    <3>1. CASE f = after
      <4>1. f # NULL
        BY <1>4, <1>7
      <4> QED
        BY <1>7, <1>10, <3>1, <4>1
    <3>2. CASE f # after
      BY <1>9, <1>10, <1>11, <3>2
    <3> QED
      BY <3>1, <3>2
  <2> QED
    BY <1>3, <2>1, <2>2, <2>3, <2>4, <2>5, <2>6, <2>7, <2>8, <2>9 DEF HeapTypeOK
<1>13. Chained'
  <2>1. ASSUME NEW f \in rest
        PROVE  IF next'[f] = NULL
               THEN End(f)' = Upper
               ELSE next'[f] = End(f)' /\ prev'[next'[f]] = f
    <3>1. CASE f = a
      <4>1. End(f)' = End(z)
        BY <1>6, <3>1 DEF End
      <4>2. IF after = NULL THEN End(z) = Upper ELSE after = End(z)
        BY <1>1, <1>4 DEF after
      <4> QED
        BY <1>10, <3>1, <4>1, <4>2
    <3>2. CASE f # a
      BY <1>4, <1>7, <1>9, <1>10, <3>2
    <3> QED
      BY <3>1, <3>2
  <2>2. ASSUME NEW f \in rest
        PROVE  IF prev'[f] = NULL THEN f = Base ELSE next'[prev'[f]] = f
    <3>1. CASE f = after
      <4>1. f # NULL
        BY <1>4, <1>7
      <4> QED
        BY <1>1, <1>4, <1>10, <3>1, <4>1
    <3>2. CASE f # after
      BY <1>4, <1>7, <1>9, <1>10, <1>11, <3>2
    <3> QED
      BY <3>1, <3>2
  <2>3. ASSUME NEW f \in rest, NEW g \in rest, f < g
        PROVE  End(f)' <= g
    <3>1. f \in Entries /\ g \in Entries
      BY <1>7
    <3>2. \A x, y \in Entries : x < y => End(x) <= y
      BY DEF HeapInv, Chained
    <3>3. CASE f # a
      BY <1>10, <2>3, <3>1, <3>2, <3>3
    <3>4. CASE f = a
      <4>0. /\ a \in Nat /\ e \in Nat /\ z \in Nat /\ g \in Nat
            /\ End(e) \in Nat /\ End(a) \in Nat /\ a < g
        BY <1>1, <1>4, <2>3, <3>1, <3>4
      <4>1. g # e /\ g # z /\ g # a
        BY <1>7, <2>3, <3>4, <4>0
      <4>2. e < g
        BY <1>1, <3>1, <3>2, <4>0, <4>1
      <4>3. z < g
        BY <1>1, <3>1, <3>2, <4>0, <4>1, <4>2
      <4>4. End(f)' = End(z)
        BY <1>6, <3>4 DEF End
      <4> QED
        BY <1>1, <3>1, <3>2, <4>3, <4>4
    <3> QED
      BY <3>3, <3>4
  <2> QED
    BY <1>3, <2>1, <2>2, <2>3 DEF Chained
<1>14. NoTwoFree'
  <2> SUFFICES ASSUME NEW f \in rest, next'[f] # NULL
               PROVE  ~(free'[f] /\ free'[next'[f]])
    BY <1>3 DEF NoTwoFree
  <2>1. CASE f = a
    BY <1>1, <1>8, <1>10, <2>1
  <2>2. CASE f # a /\ next[f] = a
    <3>1. prev[a] = f /\ f # NULL
      BY <1>4, <1>7, <1>10, <2>2
    <3> QED
      BY <1>1, <1>10, <2>2, <3>1
  <2>3. CASE f # a /\ next[f] # a
    BY <1>7, <1>9, <1>10, <2>3 DEF HeapInv, NoTwoFree
  <2> QED
    BY <2>1, <2>2, <2>3
<1>15. HeldInUse'
  <2>1. ASSUME NEW p \in DOMAIN held'
        PROVE  /\ p - HeaderSize \in rest /\ ~free'[p - HeaderSize]
               /\ held'[p] <= size'[p - HeaderSize]
    <3>1. p \in DOMAIN held /\ p # e + HeaderSize /\ p \in Nat
      BY <1>5 DEF HeapInv, HeapTypeOK
    <3>2. /\ p - HeaderSize \in Entries /\ ~free[p - HeaderSize]
          /\ held[p] <= size[p - HeaderSize]
      BY <3>1 DEF HeapInv, HeldInUse
    <3>3. p - HeaderSize # e
      BY <1>4, <3>1 DEF HeaderSize
    <3>4. p - HeaderSize # a /\ p - HeaderSize # z
      BY <1>1, <3>2, <3>3
    <3>5. p - HeaderSize \in rest
      BY <3>2, <3>3, <3>4 DEF rest
    <3> QED
      BY <1>5, <1>10, <3>2, <3>4, <3>5
  <2>2. ASSUME NEW f \in rest, ~free'[f] PROVE f + HeaderSize \in DOMAIN held'
    <3>1. f # a /\ f \in Entries /\ ~free[f]
      BY <1>7, <1>10, <2>2
    <3>2. f # e
      BY <1>7, <3>1
    <3>3. f + HeaderSize # e + HeaderSize
      BY <1>4, <3>1, <3>2 DEF HeaderSize
    <3> QED
      BY <1>5, <3>1, <3>3 DEF HeapInv, HeldInUse
  <2> QED
    BY <1>3, <2>1, <2>2 DEF HeldInUse
<1> QED
  BY <1>12, <1>13, <1>14, <1>15 DEF HeapInv

\* Calls that change nothing: malloc(0), free(NULL), a double free, no room.
LEMMA StutterIInv == ASSUME HeapInv, UNCHANGED vars PROVE HeapInv'
BY DEF vars, HeapInv, HeapTypeOK, Chained, NoTwoFree, HeldInUse, Entries, End

\* free, whatever pointer it is given.
LEMMA FreeIInv == ASSUME HeapInv, NEW p, Free(p) PROVE HeapInv'
<1>1. CASE UNCHANGED vars
  BY <1>1, StutterIInv
<1>2. ASSUME NEW f \in Entries, p = f + HeaderSize,
             ~free[f], Merge(f), Release(p)
      PROVE  HeapInv'
  <2>1. Release(f + HeaderSize)
    BY <1>2 DEF Release
  <2> QED
    BY <1>2, <2>1, MergeIInv
<1> QED
  BY <1>1, <1>2 DEF Free

-----------------------------------------------------------------------------
\* The inductive invariant holds after any calls of malloc and free.
THEOREM Inductive == HeapSpec => []HeapInv
<1>1. HeapInv /\ [HeapNext]_vars => HeapInv'
  BY MallocIInv, FreeIInv, StutterIInv DEF HeapNext
<1> QED
  BY <1>1, InitIInv, PTL DEF HeapSpec

\* The fields of the blocks keep their types: in particular no size is ever
\* taken below zero by a split.
THEOREM TypeCorrect == HeapSpec => []HeapTypeOK
<1>1. HeapInv => HeapTypeOK
  BY DEF HeapInv
<1> QED
  BY <1>1, Inductive, PTL

\* Whatever is asked for and given back in whatever order, next, prev and size
\* describe blocks that tile the arena, from heap to its upper end.
THEOREM ListIsTiling == HeapSpec => []Chained
<1>1. HeapInv => Chained
  BY DEF HeapInv
<1> QED
  BY <1>1, Inductive, PTL

\* free leaves no fragments that malloc would take for two blocks.
THEOREM FreeBlocksJoined == HeapSpec => []NoTwoFree
<1>1. HeapInv => NoTwoFree
  BY DEF HeapInv
<1> QED
  BY <1>1, Inductive, PTL

\* A block somebody holds is in use and is no smaller than was asked for.
THEOREM HeldBlocksKept == HeapSpec => []HeldInUse
<1>1. HeapInv => HeldInUse
  BY DEF HeapInv
<1> QED
  BY <1>1, Inductive, PTL

\* What malloc hands out is inside the arena and overlaps nothing that is held.
LEMMA GrantStep ==
  ASSUME HeapInv, NEW n \in Sizes, NEW e \in Fits(Align(n)), Hold(e + HeaderSize, n)
  PROVE  A!Next
<1> DEFINE p == e + HeaderSize
<1>1. /\ e \in Entries /\ free[e] /\ size[e] >= n /\ n \in Nat
  <2>1. n \in Nat /\ n <= Align(n) /\ Align(n) \in Nat
    BY AlignUp, HeapAssumption
  <2> QED
    BY <2>1, Neighbours DEF Fits
<1>2. /\ e \in Nat /\ e >= Base /\ size[e] \in Nat /\ Base \in Nat /\ Upper \in Nat
      /\ e + HeaderSize + size[e] <= Upper
  BY <1>1, Neighbours, BaseNat, HeapAssumption DEF End
<1>3. Base + HeaderSize <= p /\ p + n <= Upper /\ p \in Nat
  BY <1>1, <1>2 DEF HeaderSize
<1>4. ASSUME NEW q \in DOMAIN held
      PROVE  ~(p < q + held[q] /\ q < p + n)
  <2> DEFINE f == q - HeaderSize
  <2>1. f \in Entries /\ ~free[f] /\ held[q] <= size[f]
    BY DEF HeapInv, HeldInUse
  <2>2. q \in Nat /\ held[q] \in Nat
    BY HeapAssumption DEF HeapInv, HeapTypeOK
  <2>3. f \in Nat /\ size[f] \in Nat
    BY <2>1, Neighbours
  <2>4. f # e
    BY <1>1, <2>1
  <2>5. f < e => f + HeaderSize + size[f] <= e
    BY <1>1, <2>1 DEF HeapInv, Chained, End
  <2>6. e < f => e + HeaderSize + size[e] <= f
    BY <1>1, <2>1 DEF HeapInv, Chained, End
  <2> QED
    BY <1>1, <1>2, <2>1, <2>2, <2>3, <2>4, <2>5, <2>6 DEF HeaderSize
<1>5. A!Grant(p, n)
  BY <1>3, <1>4 DEF A!Grant, A!Overlap, Hold
<1>6. p \in (Base + HeaderSize)..Upper
  BY <1>1, <1>2, <1>3 DEF HeaderSize
<1> QED
  BY <1>5, <1>6 DEF A!Next

\* Every call of malloc or free grants, returns, or changes nothing held.
LEMMA StepImplements ==
  ASSUME HeapInv, HeapNext PROVE A!Next \/ UNCHANGED held
<1>1. ASSUME NEW n \in Sizes, Malloc(n) PROVE A!Next \/ UNCHANGED held
  <2>1. CASE UNCHANGED vars
    BY <2>1 DEF vars
  <2>2. ASSUME NEW e \in Fits(Align(n)), Hold(e + HeaderSize, n)
        PROVE  A!Next
    BY <2>2, GrantStep
  <2> QED
    BY <1>1, <2>1, <2>2 DEF Malloc
<1>2. ASSUME NEW p, Free(p) PROVE A!Next \/ UNCHANGED held
  <2>1. CASE UNCHANGED vars
    BY <2>1 DEF vars
  <2>2. ASSUME NEW e \in Entries, p = e + HeaderSize, ~free[e], Release(p)
        PROVE  A!Next
    <3>1. p \in DOMAIN held
      BY <2>2 DEF HeapInv, HeldInUse
    <3>2. A!Return(p)
      BY <2>2 DEF Release, A!Return
    <3> QED
      BY <3>1, <3>2 DEF A!Next
  <2> QED
    BY <1>2, <2>1, <2>2 DEF Free
<1> QED
  BY <1>1, <1>2 DEF HeapNext

\* The allocator implements Arena: no byte is ever held by two callers.
THEOREM ImplementsArena == HeapSpec => ArenaSpec
<1>1. HeapInit => A!Init
  BY DEF HeapInit, A!Init
<1>2. HeapInv /\ [HeapNext]_vars => [A!Next]_held
  BY StepImplements DEF vars
<1> QED
  BY <1>1, <1>2, Inductive, PTL DEF HeapSpec, ArenaSpec, A!Spec


-----------------------------------------------------------------------------
\* Two facts about addresses: only Split adds a block, and it adds one that is
\* aligned as the block it was cut from is.
LEMMA AlignFour == \A n \in Nat : Align(n) \in Nat /\ Align(n) % 4 = 0
BY DEF Align

LEMMA AddressesInit == HeapInit => Aligned /\ NullIsNoExpr
<1>1. Base % 4 = 0
  BY AlignFour, HeapAssumption DEF Base
<1> QED
  BY <1>1 DEF HeapInit, Aligned, NullIsNoExpr, Entries

\* The old successor of the block that is cut is NULL or another block.
LEMMA AddressesSplit ==
  ASSUME HeapInv, Aligned, NullIsNoExpr, NEW n \in Nat, NEW e \in Fits(Align(n)),
         ~Whole(e, Align(n)), Split(e, Align(n))
  PROVE  Aligned' /\ NullIsNoExpr'
<1> DEFINE m == Align(n)
           l == e + HeaderSize + m
<1>1. /\ e \in Entries /\ e \in Nat /\ e >= Base /\ size[e] \in Nat
      /\ e + HeaderSize + size[e] <= Upper
      /\ Base \in Nat /\ Base > 0 /\ Upper \in Nat
      /\ m \in Nat /\ m % 4 = 0 /\ size[e] - m > HeaderSize + 4
  BY Neighbours, BaseNat, AlignFour, HeapAssumption
     DEF Fits, Whole, End, HeaderSize
<1>2. Entries' = Entries \cup {l} /\ prev' = PrevWith(e, l)
  BY DEF Split, Entries
<1> HIDE DEF m
<1>3. l \in Base..Upper /\ l # NULL /\ (e % 4 = 0 => l % 4 = 0)
  BY <1>1 DEF HeaderSize, NULL
<1>4. Aligned'
  BY <1>1, <1>2, <1>3 DEF Aligned
<1>5. NullIsNoExpr'
  <2>1. prev'[NULL] = IF NULL = next[e] THEN l ELSE prev[NULL]
    BY <1>2, <1>3 DEF PrevWith
  <2>2. CASE NULL = next[e]
    BY <1>3, <2>1, <2>2 DEF NullIsNoExpr
  <2>3. CASE NULL # next[e]
    <3>1. next[e] \in Entries /\ next[e] # e
      BY <1>1, <2>3, Neighbours
    <3>2. Entries # {Base}
      BY <1>1, <3>1
    <3> QED
      BY <2>1, <2>3, <3>2 DEF NullIsNoExpr
  <2> QED
    BY <2>2, <2>3
<1> QED
  BY <1>4, <1>5

\* free makes no block, and asks for a successor before it writes to it.
LEMMA AddressesMerge ==
  ASSUME HeapInv, Aligned, NullIsNoExpr, NEW e \in Entries, ~free[e], Merge(e),
         Release(e + HeaderSize)
  PROVE  Aligned' /\ NullIsNoExpr'
<1>1. Entries' \subseteq Entries
  BY DEF Merge, Entries
<1>2. prev'[NULL] = prev[NULL]
  BY DEF Merge
<1>3. Base \in Entries'
  BY MergeIInv DEF HeapInv, HeapTypeOK
<1>4. Entries' # {Base} => Entries # {Base}
  BY <1>1, <1>3
<1> QED
  BY <1>1, <1>2, <1>4 DEF Aligned, NullIsNoExpr

LEMMA AddressesNext ==
  ASSUME HeapInv, Aligned, NullIsNoExpr, [HeapNext]_vars
  PROVE  Aligned' /\ NullIsNoExpr'
<1>1. CASE UNCHANGED vars
  BY <1>1 DEF vars, Aligned, NullIsNoExpr, Entries
<1>2. ASSUME NEW n \in Sizes, Malloc(n), ~UNCHANGED vars
      PROVE  Aligned' /\ NullIsNoExpr'
  <2>1. PICK e \in Fits(Align(n)) :
          \/ Whole(e, Align(n)) /\ TakeWhole(e)
          \/ ~Whole(e, Align(n)) /\ Split(e, Align(n))
    BY <1>2 DEF Malloc
  <2>2. CASE TakeWhole(e)
    BY <2>2 DEF TakeWhole, Aligned, NullIsNoExpr, Entries
  <2> QED
    BY <2>1, <2>2, AddressesSplit, HeapAssumption
<1>3. ASSUME NEW p \in Pointers, Free(p), ~UNCHANGED vars
      PROVE  Aligned' /\ NullIsNoExpr'
  BY <1>3, AddressesMerge DEF Free
<1> QED
  BY <1>1, <1>2, <1>3 DEF HeapNext

LEMMA Addresses == HeapSpec => [](Aligned /\ NullIsNoExpr)
<1>1. HeapInv /\ (Aligned /\ NullIsNoExpr) /\ [HeapNext]_vars
        => (Aligned /\ NullIsNoExpr)'
  BY AddressesNext
<1> QED
  BY <1>1, AddressesInit, Inductive, PTL DEF HeapSpec

\* Whatever memory heap_init is given and whatever malloc is asked for, blocks
\* begin at multiples of 4, so that bit 0 of a pointer is free to mark numbers.
THEOREM PointersUntagged == HeapSpec => []Aligned
BY Addresses, PTL

\* From the first cut on, the word at address 0 is no expr_type.
THEOREM NullExprIsOther == HeapSpec => []NullIsNoExpr
BY Addresses, PTL

-----------------------------------------------------------------------------
(* heap_in_use *)

FreeEntries == {e \in Entries : free[e]}

\* The two sums of Accounting: each determines inUse.
Counted ==
  /\ inUse + HeaderSize = Total(Cost, Entries)
  /\ HeapSize - inUse = Total(size, FreeEntries)

\* What there is to add up.
Summands ==
  /\ IsFiniteSet(Entries) /\ IsFiniteSet(FreeEntries)
  /\ FreeEntries \subseteq Entries
  /\ \A e \in Entries : size[e] \in Nat /\ Cost[e] \in Nat
  /\ inUse \in Int

LEMMA BlocksFinite == HeapTypeOK => Summands
<1> SUFFICES ASSUME HeapTypeOK PROVE Summands
  OBVIOUS
<1>1. Base \in Int /\ Upper \in Int
  BY BaseNat, HeapAssumption
<1>2. IsFiniteSet(Base..Upper)
  BY <1>1, FS_Interval
<1>3. Entries \subseteq Base..Upper /\ FreeEntries \subseteq Base..Upper
  BY DEF HeapTypeOK, FreeEntries
<1>4. IsFiniteSet(Entries) /\ IsFiniteSet(FreeEntries)
  BY <1>2, <1>3, FS_Subset
<1>5. \A e \in Entries : size[e] \in Nat /\ Cost[e] \in Nat
  BY DEF HeapTypeOK, Cost, HeaderSize
<1> QED
  BY <1>4, <1>5 DEF FreeEntries, HeapTypeOK, Summands

LEMMA BlocksFiniteAfter == HeapTypeOK' => Summands'
BY BlocksFinite, PTL

LEMMA CostOf ==
  /\ \A e \in Entries : Cost[e] = HeaderSize + IF free[e] THEN 0 ELSE size[e]
  /\ \A e \in Entries' : Cost'[e] = HeaderSize + IF free'[e] THEN 0 ELSE size'[e]
BY DEF Cost

LEMMA CountedAfter ==
  ASSUME inUse' + HeaderSize = Total(Cost', Entries'),
         HeapSize - inUse' = Total(size', FreeEntries')
  PROVE  Counted'
BY DEF Counted, HeapSize, HeaderSize, Base, Align

LEMMA CountedInit == HeapInit => Counted
<1> SUFFICES ASSUME HeapInit PROVE Counted
  OBVIOUS
<1>1. Entries = {Base} /\ FreeEntries = {Base} /\ free[Base] /\ size[Base] = HeapSize
      /\ inUse = 0
  BY DEF HeapInit, Entries, FreeEntries
<1>2. Cost[Base] = HeaderSize /\ HeaderSize \in Nat /\ HeapSize \in Nat
  BY <1>1, BaseNat DEF Cost, HeaderSize
<1>3. IsFiniteSet({Base}) /\ {Base} \ {Base} = {}
  BY FS_Singleton
<1>4. Total(Cost, {Base}) = HeaderSize
  <2>1. \A x \in {Base} : Cost[x] \in Nat
    BY <1>2
  <2>2. Total(Cost, {Base}) = Cost[Base] + Total(Cost, {Base} \ {Base})
    BY <1>3, <2>1, TotalTakesOut
  <2> QED
    BY <1>2, <1>3, <2>2, TotalOfNothing
<1>5. Total(size, {Base}) = HeapSize
  <2>1. \A x \in {Base} : size[x] \in Nat
    BY <1>1, <1>2
  <2>2. Total(size, {Base}) = size[Base] + Total(size, {Base} \ {Base})
    BY <1>3, <2>1, TotalTakesOut
  <2> QED
    BY <1>1, <1>2, <1>3, <2>2, TotalOfNothing
<1> QED
  BY <1>1, <1>2, <1>4, <1>5 DEF Counted

LEMMA TakeWholeCounts ==
  ASSUME HeapInv, HeapInv', Counted, NEW e \in Entries, free[e], TakeWhole(e)
  PROVE  Counted'
<1>1. /\ IsFiniteSet(Entries) /\ IsFiniteSet(FreeEntries) /\ FreeEntries \subseteq Entries
      /\ \A f \in Entries : size[f] \in Nat /\ Cost[f] \in Nat
      /\ inUse \in Int /\ HeapSize \in Nat
  BY BlocksFinite, BaseNat DEF HeapInv, Summands
<1>2. /\ size' = size /\ inUse' = inUse + size[e] /\ Entries' = Entries
      /\ ~free'[e] /\ \A f \in Entries \ {e} : free'[f] = free[f]
  BY DEF TakeWhole, Entries, HeapInv, HeapTypeOK
<1>3. /\ FreeEntries' = FreeEntries \ {e} /\ e \in FreeEntries
  BY <1>2 DEF FreeEntries
<1>4. Total(size, FreeEntries) = size[e] + Total(size, FreeEntries \ {e})
  <2>1. \A f \in FreeEntries : size[f] \in Nat
    BY <1>1
  <2> QED
    BY <1>1, <1>3, <2>1, TotalTakesOut
<1>5. /\ Cost[e] = HeaderSize /\ Cost'[e] = HeaderSize + size[e]
      /\ \A f \in Entries \ {e} : Cost[f] = Cost'[f]
  BY <1>1, <1>2, CostOf DEF HeaderSize
<1>6. IsFiniteSet(Entries \ {e}) /\ IsFiniteSet(FreeEntries \ {e})
  BY <1>1, FS_RemoveElement
<1>7. Total(Cost, Entries) = Cost[e] + Total(Cost, Entries \ {e})
  BY <1>1, TotalTakesOut
<1>8. Total(Cost', Entries) = Cost'[e] + Total(Cost', Entries \ {e})
  <2>1. \A f \in Entries : Cost'[f] \in Nat
    BY <1>1, <1>5 DEF HeaderSize
  <2> QED
    BY <1>1, <2>1, TotalTakesOut
<1>9. Total(Cost', Entries \ {e}) = Total(Cost, Entries \ {e})
  BY <1>5, <1>6, TotalSame
<1>10. Total(Cost, Entries \ {e}) \in Nat /\ Total(size, FreeEntries \ {e}) \in Nat
  BY <1>1, <1>6, TotalNat
<1>11. HeapSize - inUse' = Total(size, FreeEntries \ {e})
  BY <1>1, <1>2, <1>4, <1>10 DEF Counted
<1>12. inUse' + HeaderSize = Total(Cost', Entries)
  BY <1>1, <1>2, <1>5, <1>7, <1>8, <1>9, <1>10 DEF Counted, HeaderSize
<1>13. /\ inUse' + HeaderSize = Total(Cost', Entries')
       /\ HeapSize - inUse' = Total(size', FreeEntries')
  BY <1>2, <1>3, <1>11, <1>12
<1> QED
  BY <1>13, CountedAfter

LEMMA SplitCounts ==
  ASSUME HeapInv, HeapInv', Counted, NEW e \in Entries, free[e], NEW m \in Nat,
         size[e] - m > HeaderSize + 4, Split(e, m)
  PROVE  Counted'
<1> DEFINE l == e + HeaderSize + m
<1>1. /\ IsFiniteSet(Entries) /\ IsFiniteSet(FreeEntries) /\ FreeEntries \subseteq Entries
      /\ \A f \in Entries : size[f] \in Nat /\ Cost[f] \in Nat
      /\ inUse \in Int /\ HeapSize \in Nat
  BY BlocksFinite, BaseNat DEF HeapInv, Summands
<1>2. l \notin Entries /\ l # e
  <2>1. e \in Nat /\ End(e) = e + HeaderSize + size[e] /\ size[e] \in Nat
    BY Neighbours DEF End
  <2>2. e < l /\ l < End(e)
    BY <2>1 DEF HeaderSize
  <2>3. \A f \in Entries : e < f => End(e) <= f
    BY DEF HeapInv, Chained
  <2>4. End(e) \in Nat /\ l \in Nat
    BY Neighbours, <2>1 DEF HeaderSize
  <2> QED
    BY <2>1, <2>2, <2>3, <2>4
<1>3. /\ Entries' = Entries \cup {l} /\ inUse' = inUse + HeaderSize + m
      /\ size'[e] = m /\ size'[l] = size[e] - m - HeaderSize
      /\ ~free'[e] /\ free'[l]
      /\ \A f \in Entries \ {e} : size'[f] = size[f] /\ free'[f] = free[f]
  BY <1>2 DEF Split, Entries
<1> HIDE DEF l
<1>4. /\ FreeEntries' = (FreeEntries \ {e}) \cup {l}
      /\ e \in FreeEntries /\ l \notin FreeEntries
  BY <1>2, <1>3 DEF FreeEntries
<1>5. /\ Cost[e] = HeaderSize /\ Cost'[e] = HeaderSize + m /\ Cost'[l] = HeaderSize
      /\ \A f \in Entries \ {e} : Cost[f] = Cost'[f]
  BY <1>1, <1>2, <1>3, CostOf DEF HeaderSize
<1>6. IsFiniteSet(Entries \ {e}) /\ IsFiniteSet(FreeEntries \ {e}) /\ IsFiniteSet(Entries')
      /\ IsFiniteSet(FreeEntries')
  BY <1>1, FS_RemoveElement, BlocksFiniteAfter DEF HeapInv, Summands
<1>7. /\ size'[l] \in Nat /\ \A f \in Entries' : Cost'[f] \in Nat /\ size'[f] \in Nat
  BY <1>3, BlocksFiniteAfter DEF HeapInv, Summands
<1>8. Total(size, FreeEntries) = size[e] + Total(size, FreeEntries \ {e})
  <2>1. \A f \in FreeEntries : size[f] \in Nat
    BY <1>1
  <2> QED
    BY <1>1, <1>4, <2>1, TotalTakesOut
<1>9. Total(size', FreeEntries') = size'[l] + Total(size', FreeEntries \ {e})
  <2>1. l \in FreeEntries' /\ FreeEntries' \ {l} = FreeEntries \ {e}
    BY <1>4
  <2>2. \A f \in FreeEntries' : size'[f] \in Nat
    BY <1>3, <1>4, <1>7, <1>1
  <2> QED
    BY <1>6, <2>1, <2>2, TotalTakesOut
<1>10. Total(size', FreeEntries \ {e}) = Total(size, FreeEntries \ {e})
  <2>1. \A f \in FreeEntries \ {e} : size'[f] = size[f]
    BY <1>1, <1>3, <1>4
  <2> QED
    BY <1>6, <2>1, TotalSame
<1>11. Total(Cost, Entries) = HeaderSize + Total(Cost, Entries \ {e})
  BY <1>1, <1>5, TotalTakesOut
<1>12. Total(Cost', Entries') = HeaderSize + Total(Cost', Entries)
  <2>1. l \in Entries' /\ Entries' \ {l} = Entries
    BY <1>2, <1>3
  <2> QED
    BY <1>5, <1>6, <1>7, <2>1, TotalTakesOut
<1>13. Total(Cost', Entries) = HeaderSize + m + Total(Cost', Entries \ {e})
  <2>1. \A f \in Entries : Cost'[f] \in Nat
    BY <1>3, <1>7
  <2> QED
    BY <1>1, <1>5, <2>1, TotalTakesOut
<1>14. Total(Cost', Entries \ {e}) = Total(Cost, Entries \ {e})
  BY <1>5, <1>6, TotalSame
<1>15. Total(Cost, Entries \ {e}) \in Nat /\ Total(size, FreeEntries \ {e}) \in Nat
  BY <1>1, <1>6, TotalNat
<1>16. size'[l] = size[e] - m - HeaderSize /\ size[e] \in Nat
  BY <1>1, <1>2, <1>3
<1>17. HeapSize - inUse' = Total(size', FreeEntries')
  BY <1>1, <1>3, <1>8, <1>9, <1>10, <1>15, <1>16 DEF Counted, HeaderSize
<1>18. inUse' + HeaderSize = Total(Cost', Entries')
  BY <1>1, <1>3, <1>11, <1>12, <1>13, <1>14, <1>15 DEF Counted, HeaderSize
<1> QED
  BY <1>17, <1>18, CountedAfter

\* What a set's sum loses with one element that may or may not be in it.
LEMMA TotalWithout ==
  ASSUME NEW w, NEW S, IsFiniteSet(S), \A x \in S : w[x] \in Nat, NEW x, NEW n \in Nat,
         x \in S => n = w[x], x \notin S => n = 0
  PROVE  /\ Total(w, S) = n + Total(w, S \ {x}) /\ Total(w, S \ {x}) \in Nat
         /\ IsFiniteSet(S \ {x})
<1>1. IsFiniteSet(S \ {x})
  BY FS_RemoveElement
<1>2. Total(w, S \ {x}) \in Nat
  BY <1>1, TotalNat
<1>3. CASE x \in S
  BY <1>1, <1>2, <1>3, TotalTakesOut
<1>4. CASE x \notin S
  <2>1. S \ {x} = S
    BY <1>4
  <2> QED
    BY <1>1, <1>2, <1>4, <2>1
<1> QED
  BY <1>3, <1>4

LEMMA MergeCounts ==
  ASSUME HeapInv, HeapInv', Counted, NEW e \in Entries, ~free[e], Merge(e)
  PROVE  Counted'
<1> DEFINE a == Into(e)
           z == Last(e)
           G == FreeEntries \ {a, z}
           R == Entries \ {a, e, z}
           ga == Gained(a, e)
           gz == Gained(z, e)
           ha == HeaderOf(a, e)
           hz == HeaderOf(z, e)
<1>1. /\ IsFiniteSet(Entries) /\ IsFiniteSet(FreeEntries) /\ FreeEntries \subseteq Entries
      /\ \A f \in Entries : size[f] \in Nat /\ Cost[f] \in Nat
      /\ inUse \in Int /\ HeapSize \in Nat
  BY BlocksFinite, BaseNat DEF HeapInv, Summands
<1>2. /\ a \in Entries /\ z \in Entries
      /\ a # e => free[a] /\ End(a) = e
      /\ z # e => free[z] /\ End(e) = z
  BY MergedBlocks
<1>3. a # e => a # z
  BY <1>2, Neighbours
<1>4. /\ Entries' = R \cup {a}
      /\ inUse' = inUse - size[e] - ha - hz
      /\ size'[a] = ga + size[e] + gz
      /\ free'[a]
      /\ \A f \in R : size'[f] = size[f] /\ free'[f] = free[f]
  <2> DEFINE rest == {f \in Entries : f = a \/ (f # e /\ f # z)}
  <2>1. rest = R \cup {a}
    BY <1>2
  <2> HIDE DEF a, z
  <2>2. /\ size' = [f \in rest |-> IF f = a THEN ga + size[e] + gz ELSE size[f]]
        /\ free' = [f \in rest |-> IF f = a THEN TRUE ELSE free[f]]
        /\ inUse' = inUse - size[e] - ha - hz
    BY DEF Merge, a, z
  <2> HIDE DEF rest, ga, gz, ha, hz
  <2>3. Entries' = R \cup {a}
    BY <2>1, <2>2 DEF Entries
  <2> QED
    BY <2>1, <2>2, <2>3
<1>5. /\ ga = IF a = e THEN 0 ELSE HeaderSize + size[a]
      /\ gz = IF z = e THEN 0 ELSE HeaderSize + size[z]
      /\ ha = IF a = e THEN 0 ELSE HeaderSize
      /\ hz = IF z = e THEN 0 ELSE HeaderSize
  BY DEF Gained, HeaderOf
<1> HIDE DEF a, z, ga, gz, ha, hz
<1>6. FreeEntries' = G \cup {a} /\ a \notin G /\ e \notin FreeEntries
  BY <1>2, <1>4 DEF FreeEntries
<1>7. IsFiniteSet(Entries') /\ IsFiniteSet(FreeEntries')
      /\ \A f \in Entries' : size'[f] \in Nat /\ Cost'[f] \in Nat
  BY BlocksFiniteAfter DEF HeapInv, Summands
<1>8. PICK na \in Nat, nz \in Nat :
        /\ na = (IF a = e THEN 0 ELSE size[a])
        /\ nz = (IF z = e THEN 0 ELSE size[z])
  BY <1>1, <1>2
<1>9. /\ Total(size, FreeEntries) = na + nz + Total(size, G)
      /\ Total(size, G) \in Nat /\ IsFiniteSet(G)
  <2>1. /\ a \in FreeEntries => na = size[a]
        /\ a \notin FreeEntries => na = 0
        /\ z \in FreeEntries \ {a} => nz = size[z]
        /\ z \notin FreeEntries \ {a} => nz = 0
    BY <1>2, <1>3, <1>6, <1>8 DEF FreeEntries
  <2>2. \A f \in FreeEntries : size[f] \in Nat
    BY <1>1
  <2>3. /\ Total(size, FreeEntries) = na + Total(size, FreeEntries \ {a})
        /\ IsFiniteSet(FreeEntries \ {a}) /\ Total(size, FreeEntries \ {a}) \in Nat
    BY <1>1, <2>1, <2>2, TotalWithout
  <2>4. \A f \in FreeEntries \ {a} : size[f] \in Nat
    BY <2>2
  <2>5. /\ Total(size, FreeEntries \ {a}) = nz + Total(size, (FreeEntries \ {a}) \ {z})
        /\ IsFiniteSet((FreeEntries \ {a}) \ {z})
        /\ Total(size, (FreeEntries \ {a}) \ {z}) \in Nat
    BY <2>1, <2>3, <2>4, TotalWithout
  <2>6. (FreeEntries \ {a}) \ {z} = G
    OBVIOUS
  <2> HIDE DEF G
  <2> QED
    BY <2>3, <2>5, <2>6
<1>10. Total(size', FreeEntries') = size'[a] + Total(size, G)
  <2>1. a \in FreeEntries' /\ FreeEntries' \ {a} = G
    BY <1>6
  <2>2. \A f \in FreeEntries' : size'[f] \in Nat
    BY <1>7 DEF FreeEntries
  <2>3. Total(size', FreeEntries') = size'[a] + Total(size', G)
    BY <1>7, <2>1, <2>2, TotalTakesOut
  <2>4. \A f \in G : size'[f] = size[f]
    BY <1>1, <1>4, <1>6
  <2>5. Total(size', G) = Total(size, G)
    BY <1>9, <2>4, TotalSame
  <2> QED
    BY <2>3, <2>5
<1>11. /\ Cost[e] = HeaderSize + size[e] /\ Cost'[a] = HeaderSize
       /\ a # e => Cost[a] = HeaderSize
       /\ z # e => Cost[z] = HeaderSize
       /\ \A f \in R : Cost'[f] = Cost[f]
  BY <1>1, <1>2, <1>4, <1>7, CostOf DEF HeaderSize
<1>12. /\ Total(Cost, Entries) = HeaderSize + size[e] + ha + hz + Total(Cost, R)
       /\ Total(Cost, R) \in Nat /\ IsFiniteSet(R)
  <2>1. /\ Total(Cost, Entries) = Cost[e] + Total(Cost, Entries \ {e})
        /\ IsFiniteSet(Entries \ {e}) /\ Total(Cost, Entries \ {e}) \in Nat
    <3>1. IsFiniteSet(Entries \ {e})
      BY <1>1, FS_RemoveElement
    <3>2. Total(Cost, Entries \ {e}) \in Nat
      BY <1>1, <3>1, TotalNat
    <3> QED
      BY <1>1, <3>1, <3>2, TotalTakesOut
  <2>2. /\ ha \in Nat /\ hz \in Nat
        /\ a \in Entries \ {e} => ha = Cost[a]
        /\ a \notin Entries \ {e} => ha = 0
        /\ z \in (Entries \ {e}) \ {a} => hz = Cost[z]
        /\ z \notin (Entries \ {e}) \ {a} => hz = 0
    BY <1>2, <1>3, <1>5, <1>11 DEF HeaderSize
  <2> DEFINE E1 == Entries \ {e}
             E2 == E1 \ {a}
  <2>3. /\ Total(Cost, E1) = ha + Total(Cost, E2)
        /\ IsFiniteSet(E2) /\ Total(Cost, E2) \in Nat
    <3>1. /\ \A f \in E1 : Cost[f] \in Nat
          /\ a \in E1 => ha = Cost[a]
          /\ a \notin E1 => ha = 0
      BY <1>1, <2>2
    <3>2. IsFiniteSet(E1) /\ ha \in Nat
      BY <2>1, <2>2
    <3> HIDE DEF E1
    <3> QED
      BY <3>1, <3>2, TotalWithout
  <2>4. /\ Total(Cost, E2) = hz + Total(Cost, E2 \ {z})
        /\ IsFiniteSet(E2 \ {z})
        /\ Total(Cost, E2 \ {z}) \in Nat
    <3>1. /\ \A f \in E2 : Cost[f] \in Nat
          /\ z \in E2 => hz = Cost[z]
          /\ z \notin E2 => hz = 0
      BY <1>1, <2>2
    <3>2. IsFiniteSet(E2) /\ hz \in Nat
      BY <2>2, <2>3
    <3> HIDE DEF E2
    <3> QED
      BY <3>1, <3>2, TotalWithout
  <2>5. E2 \ {z} = R
    OBVIOUS
  <2> HIDE DEF R
  <2>6. size[e] \in Nat
    BY <1>1
  <2> QED
    BY <1>11, <2>1, <2>2, <2>3, <2>4, <2>5, <2>6 DEF HeaderSize
<1>13. Total(Cost', Entries') = HeaderSize + Total(Cost, R)
  <2>1. a \in Entries' /\ Entries' \ {a} = R
    BY <1>4
  <2>2. Total(Cost', Entries') = Cost'[a] + Total(Cost', R)
    BY <1>7, <2>1, TotalTakesOut
  <2>3. Total(Cost', R) = Total(Cost, R)
    BY <1>11, <1>12, TotalSame
  <2> QED
    BY <1>11, <2>2, <2>3
<1> HIDE DEF G, R
<1>14. HeapSize - inUse' = Total(size', FreeEntries')
  <2>1. /\ HeapSize - inUse = na + nz + Total(size, G)
        /\ ga = na + ha /\ gz = nz + hz /\ ha \in Nat /\ hz \in Nat
    BY <1>5, <1>8, <1>9 DEF Counted, HeaderSize
  <2>2. size[e] \in Nat
    BY <1>1
  <2> QED
    BY <1>1, <1>4, <1>8, <1>9, <1>10, <2>1, <2>2
<1>15. inUse' + HeaderSize = Total(Cost', Entries')
  <2>1. ha \in Nat /\ hz \in Nat /\ size[e] \in Nat
    BY <1>1, <1>5 DEF HeaderSize
  <2> QED
    BY <1>1, <1>4, <1>12, <1>13, <2>1 DEF Counted, HeaderSize
<1> QED
  BY <1>14, <1>15, CountedAfter

\* Every call of malloc and free keeps the two sums.
LEMMA CountedNext == HeapInv /\ Counted /\ [HeapNext]_vars => Counted'
<1> SUFFICES ASSUME HeapInv, Counted, [HeapNext]_vars PROVE Counted'
  OBVIOUS
<1>1. HeapInv'
  BY MallocIInv, FreeIInv, StutterIInv DEF HeapNext
<1>2. CASE UNCHANGED vars
  BY <1>2 DEF vars, Counted, Entries, FreeEntries, Cost
<1>3. ASSUME NEW n \in Sizes, Malloc(n) PROVE Counted'
  <2>1. ASSUME NEW e \in Fits(Align(n)), TakeWhole(e) PROVE Counted'
    BY <1>1, <2>1, TakeWholeCounts DEF Fits
  <2>2. ASSUME NEW e \in Fits(Align(n)), ~Whole(e, Align(n)), Split(e, Align(n))
        PROVE  Counted'
    <3>1. Align(n) \in Nat
      BY AlignUp, HeapAssumption
    <3>2. e \in Entries /\ free[e] /\ size[e] >= Align(n)
      BY DEF Fits
    <3>3. size[e] - Align(n) > HeaderSize + 4
      <4>1. size[e] \in Nat
        BY <3>2 DEF HeapInv, HeapTypeOK
      <4> QED
        BY <2>2, <3>1, <4>1 DEF Whole, HeaderSize
    <3> QED
      BY <1>1, <2>2, <3>1, <3>2, <3>3, SplitCounts
  <2> QED
    BY <1>2, <1>3, <2>1, <2>2 DEF Malloc
<1>4. ASSUME NEW p, Free(p) PROVE Counted'
  BY <1>1, <1>2, <1>4, MergeCounts DEF Free
<1> QED
  BY <1>2, <1>3, <1>4 DEF HeapNext

\* While a block is in the list its header is counted, so the sum of the bytes
\* in use cannot fall below the one header that heap_in_use leaves out.
LEMMA NeverNegative == HeapInv /\ Counted => inUse >= 0
<1> SUFFICES ASSUME HeapInv, Counted PROVE inUse >= 0
  OBVIOUS
<1>1. Summands /\ Base \in Entries
  BY BlocksFinite DEF HeapInv, HeapTypeOK
<1>2. /\ Total(Cost, Entries) = Cost[Base] + Total(Cost, Entries \ {Base})
      /\ Total(Cost, Entries \ {Base}) \in Nat
  <2>1. IsFiniteSet(Entries \ {Base}) /\ \A f \in Entries : Cost[f] \in Nat
    BY <1>1, FS_RemoveElement DEF Summands
  <2>2. Total(Cost, Entries \ {Base}) \in Nat
    BY <2>1, TotalNat
  <2> QED
    BY <1>1, <2>1, <2>2, TotalTakesOut DEF Summands
<1>3. Cost[Base] >= HeaderSize /\ Cost[Base] \in Nat
  <2>1. size[Base] \in Nat /\ Cost[Base] \in Nat
    BY <1>1 DEF Summands
  <2> QED
    BY <1>1, <2>1, CostOf DEF HeaderSize
<1> QED
  BY <1>1, <1>2, <1>3 DEF Counted, Summands, HeaderSize

\* Free blocks without one in use between them are one block.
LEMMA AllGivenBack ==
  HeapInv /\ DOMAIN held = {} => Entries = {Base} /\ size[Base] = HeapSize
<1> SUFFICES ASSUME HeapInv, DOMAIN held = {}
             PROVE  Entries = {Base} /\ size[Base] = HeapSize
  OBVIOUS
<1>1. \A e \in Entries : free[e]
  BY DEF HeapInv, HeldInUse
<1>2. Base \in Entries
  BY DEF HeapInv, HeapTypeOK
<1>3. ASSUME NEW e \in Entries, e # Base PROVE FALSE
  <2>1. prev[e] # NULL
    BY <1>3 DEF HeapInv, Chained
  <2>2. prev[e] \in Entries /\ next[prev[e]] = e /\ e # NULL
    BY <2>1, Neighbours, BaseNat DEF NULL
  <2> QED
    BY <1>1, <2>2 DEF HeapInv, NoTwoFree
<1>4. next[Base] = NULL
  BY <1>2, <1>3, Neighbours
<1>5. End(Base) = Upper
  BY <1>2, <1>4 DEF HeapInv, Chained
<1>6. size[Base] \in Nat
  BY <1>2, Neighbours
<1>7. size[Base] = HeapSize
  <2>1. Base + HeaderSize + size[Base] = Upper
    BY <1>5 DEF End
  <2> QED
    BY <1>6, <2>1, BaseNat DEF HeaderSize
<1>8. Entries = {Base}
  BY <1>2, <1>3
<1> QED
  BY <1>7, <1>8

\* Whatever is asked for and given back, heap_in_use is what the blocks cost and
\* what the manager shows as free is the bytes of the free blocks; nothing is
\* lost: when all was given back one free block is the whole arena again.
THEOREM BytesAccounted == HeapSpec => []Accounting
<1>1. HeapInv /\ Counted => Accounting
  <2> SUFFICES ASSUME HeapInv, Counted PROVE Accounting
    OBVIOUS
  <2>1. inUse + HeaderSize = MapThenSumSet(LAMBDA e : Cost[e], Entries)
    BY DEF Counted, Total
  <2>2. HeapSize - inUse
          = MapThenSumSet(LAMBDA e : size[e], {e \in Entries : free[e]})
    BY DEF Counted, Total, FreeEntries
  <2> QED
    BY <2>1, <2>2, NeverNegative, AllGivenBack DEF Accounting
<1>2. HeapSpec => []Counted
  <2>1. HeapInit => Counted
    BY CountedInit
  <2> QED
    BY <2>1, CountedNext, Inductive, PTL DEF HeapSpec
<1> QED
  BY <1>1, <1>2, Inductive, PTL
=============================================================================
