-------------------------------- MODULE Dict --------------------------------
(***************************************************************************)
(* dict.c: a red-black tree that is rebalanced on the way down, used by    *)
(* the language for its environments and its dictionaries.                 *)
(*                                                                         *)
(* Keys are compared by their hash alone.  Nobody outside dict.c holds a   *)
(* pointer to a node, so a node is known here by its key_hash.  The hooks  *)
(* are those program.c passes: the key is copied with strdup and freed     *)
(* with free, the data is neither.                                         *)
(***************************************************************************)
EXTENDS Integers, FiniteSets, Sequences

CONSTANTS
  Keys,       \* the strings used as keys
  Hash(_),    \* stringdict_crc
  Data,       \* the values stored; the program may store NULL
  NULL

NIL  == -1    \* a NULL link
HEAD == -2    \* the false root on the stack of insert and remove

Hashes == {Hash(k) : k \in Keys}

ASSUME DictAssumption == Hashes \subseteq Nat

VARIABLES
  tree,     \* the nodes: their links, red flags, data and keys
  root,     \* bt->root
  copies,   \* copies of keys made with strdup and not freed
  call      \* the last call: its name, its arguments and what it returned

dictVars == <<tree, root, copies, call>>

Call(op, k, v, ret) == call' = [op |-> op, key |-> k, data |-> v, ret |-> ret]

Nodes == DOMAIN tree.red

NoNodes == [link |-> [n \in {} |-> 0], red |-> [n \in {} |-> FALSE],
            data |-> [n \in {} |-> NULL], key |-> [n \in {} |-> 0]]

\* t with node n added or replaced.
Put(t, n, link, red, data, key) ==
  LET With(f, x) == [m \in DOMAIN f \cup {n} |-> IF m = n THEN x ELSE f[m]]
  IN  [link |-> With(t.link, link), red |-> With(t.red, red),
       data |-> With(t.data, data), key |-> With(t.key, key)]

\* t without the nodes of S.
Drop(t, S) ==
  LET Without(f) == [m \in DOMAIN f \ S |-> f[m]]
  IN  [link |-> Without(t.link), red |-> Without(t.red),
       data |-> Without(t.data), key |-> Without(t.key)]

Leaf == [d \in {0, 1} |-> NIL]
Side(b) == IF b THEN 1 ELSE 0
Red(t, n) == n # NIL /\ t.red[n]
SetLink(t, n, d, c) == [t EXCEPT !.link[n][d] = c]
Paint(t, S, red) ==
  [t EXCEPT !.red = [n \in DOMAIN @ |-> IF n \in S THEN red ELSE @[n]]]

-----------------------------------------------------------------------------
(* Rotations.  The node that comes up takes the place of r below up. *)

\* Mutant: the subtree between the two nodes is forgotten.
SingleDropsInner(t, up, side, r, dir) ==
  LET save == t.link[r][1 - dir]
      t1 == SetLink(t, r, 1 - dir, NIL)
      t2 == SetLink(t1, save, dir, r)
  IN  SetLink(Paint(Paint(t2, {r}, TRUE), {save}, FALSE), up, side, save)

Single(t, up, side, r, dir) ==
  LET save == t.link[r][1 - dir]
      t1 == SetLink(t, r, 1 - dir, t.link[save][dir])
      t2 == SetLink(t1, save, dir, r)
  IN  SetLink(Paint(Paint(t2, {r}, TRUE), {save}, FALSE), up, side, save)

Double(t, up, side, r, dir) ==
  Single(Single(t, r, 1 - dir, t.link[r][1 - dir], 1 - dir), up, side, r, dir)

-----------------------------------------------------------------------------
(* _inssearch *)

\* Mutant: an inner red node is lifted once only.
RepairSingle(t, s, q) ==
  Single(t, s.t, Side(t.link[s.t][1] = s.g), s.g, 1 - s.last)

\* A red node q below a red node p is lifted by a rotation of g below t0.
Repair(t, s, q) ==
  LET dir2 == Side(t.link[s.t][1] = s.g)
  IN  IF q = t.link[s.p][s.last]
      THEN Single(t, s.t, dir2, s.g, 1 - s.last)
      ELSE Double(t, s.t, dir2, s.g, 1 - s.last)

\* A pass of the loop, or nothing once it was left: s holds its variables, with
\* p for the q that had the hash; h is the hash looked for, and made the node to
\* add if it is not there.
Pass(s, h, v, k) ==
  LET add == s.q = NIL
      q  == IF add THEN h ELSE s.q
      t1 == IF add
            THEN SetLink(Put(s.tree, h, Leaf, TRUE, v, k), s.p, s.dir, h)
            ELSE LET kids == {s.tree.link[q][0], s.tree.link[q][1]}
                 IN  IF \A c \in kids : Red(s.tree, c)
                     THEN Paint(Paint(s.tree, {q}, TRUE), kids, FALSE)
                     ELSE s.tree
      t2 == IF Red(t1, q) /\ Red(t1, s.p) THEN Repair(t1, s, q) ELSE t1
      dir == Side(q < h)
  IN  IF s.p = h THEN s
      ELSE [tree |-> t2, t |-> IF s.g # NIL THEN s.g ELSE s.t,
            g |-> s.p, p |-> q, q |-> t2.link[q][dir], dir |-> dir, last |-> s.dir]

\* The loop, from the variables s on.  A level is passed once, or twice when a
\* double rotation lifts q over the node that comes next.
Descend(s, h, v, k) ==
  LET passes == 2 * Cardinality(DOMAIN s.tree.red)
      after[n \in 0..passes] ==
        IF n = 0 THEN s ELSE Pass(after[n - 1], h, v, k)
  IN  after[passes].tree

WithHead == Put(tree, HEAD, [Leaf EXCEPT ![1] = root], FALSE, NULL, 0)

\* The tree of t below HEAD becomes the dictionary's, its root black.
Adopt(t) ==
  /\ root' = t.link[HEAD][1]
  /\ tree' = Paint(Drop(t, {HEAD}), {t.link[HEAD][1]}, FALSE)

\* Mutant: the key of a node whose datum is replaced is not freed.
InsSearchLeaks(k, v, replace) ==
  LET h == Hash(k)
      t == Descend([tree |-> WithHead, t |-> HEAD, g |-> NIL, p |-> NIL,
                    q |-> root, dir |-> 0, last |-> 0], h, v, k) IN
  /\ copies' = copies + 1
  /\ \/ /\ root = NIL
        /\ root' = h
        /\ tree' = Put(tree, h, Leaf, FALSE, v, k)
     \/ /\ root # NIL /\ h \notin Nodes
        /\ Adopt(t)
     \/ /\ root # NIL /\ h \in Nodes
        /\ Adopt(IF replace \/ tree.data[h] = NULL
                 THEN [t EXCEPT !.key[h] = k, !.data[h] = v] ELSE t)

InsSearch(k, v, replace) ==
  LET h == Hash(k)
      t == Descend([tree |-> WithHead, t |-> HEAD, g |-> NIL, p |-> NIL,
                    q |-> root, dir |-> 0, last |-> 0], h, v, k) IN
  /\ \/ /\ root = NIL
        /\ root' = h
        /\ tree' = Put(tree, h, Leaf, FALSE, v, k)
        /\ copies' = copies + 1
     \/ /\ root # NIL /\ h \notin Nodes
        /\ Adopt(t)
        /\ copies' = copies + 1
     \/ /\ root # NIL /\ h \in Nodes
        /\ Adopt(IF replace \/ tree.data[h] = NULL
                 THEN [t EXCEPT !.key[h] = k, !.data[h] = v] ELSE t)
        /\ UNCHANGED copies

-----------------------------------------------------------------------------
(* dict_search *)

\* What the search of t from r downwards finds for h.
Found(t, r, h) ==
  LET from[n \in DOMAIN t.red \cup {NIL}] ==
        IF n = NIL THEN NULL
        ELSE IF n = h THEN t.data[n]
        ELSE from[t.link[n][Side(h > n)]]
  IN  from[r]

Search(h) == Found(tree, root, h)

-----------------------------------------------------------------------------
(* dict_remove *)

\* q, on the way down and black with a black child ahead, is made red, or a
\* red child of it is brought up: the node removed at the end will be red.
\* The result has the new p as well.
PushRed(t, g, p, q, dir, last) ==
  LET s == t.link[p][1 - last]
      dir2 == Side(t.link[g][1] = p)
      turned == IF Red(t, t.link[s][last]) THEN Double(t, g, dir2, p, last)
                                           ELSE Single(t, g, dir2, p, last)
      top == turned.link[g][dir2]
  IN  IF Red(t, q) \/ Red(t, t.link[q][dir]) THEN [tree |-> t, p |-> p]
      ELSE IF Red(t, t.link[q][1 - dir])
      THEN [tree |-> Single(t, p, last, q, dir), p |-> t.link[q][1 - dir]]
      ELSE IF s = NIL THEN [tree |-> t, p |-> p]
      ELSE IF ~Red(t, t.link[s][0]) /\ ~Red(t, t.link[s][1])
      THEN [tree |-> Paint(Paint(t, {p}, FALSE), {s, q}, TRUE), p |-> p]
      ELSE [tree |-> Paint(Paint(turned, {q, top}, TRUE),
                           {turned.link[top][0], turned.link[top][1]}, FALSE),
            p |-> p]

\* A pass of the loop, or nothing at the end of the path of h.
Sunk(s, h) ==
  LET q == s.tree.link[s.q][s.dir]
      dir == Side(q < h)
      r == PushRed(s.tree, s.p, s.q, q, dir, s.dir)
  IN  IF q = NIL THEN s ELSE [tree |-> r.tree, p |-> r.p, q |-> q, dir |-> dir]

\* The loop.
Sink(s, h) ==
  LET passes == Cardinality(DOMAIN s.tree.red)
      after[n \in 0..passes] == IF n = 0 THEN s ELSE Sunk(after[n - 1], h)
  IN  after[passes]

\* Mutant: the data stays in the node it was in.
ReplaceForgetsData(t, p, q, f) ==
  LET t1 == SetLink(t, p, Side(t.link[p][1] = q),
                    t.link[q][Side(t.link[q][0] = NIL)])
      Name(n) == IF n = f THEN q ELSE n
      Old(n) == IF n = q THEN f ELSE n
      rest == DOMAIN t1.red \ {f}
  IN  [link |-> [n \in rest |-> [d \in {0, 1} |-> Name(t1.link[Old(n)][d])]],
       red  |-> [n \in rest |-> t1.red[Old(n)]],
       data |-> [n \in rest |-> t1.data[Old(n)]],
       key  |-> [n \in rest |-> t1.key[Old(n)]]]

\* q, the last node of the path, is unlinked and freed; its data and hash move
\* to f, the node to be removed.  The key of f stays where it was: here, where
\* a node goes by its hash, q comes to the place of f and takes the key of f.
Replace(t, p, q, f) ==
  LET t1 == SetLink(t, p, Side(t.link[p][1] = q),
                    t.link[q][Side(t.link[q][0] = NIL)])
      Name(n) == IF n = f THEN q ELSE n
      Old(n) == IF n = q THEN f ELSE n
      rest == DOMAIN t1.red \ {f}
  IN  [link |-> [n \in rest |-> [d \in {0, 1} |-> Name(t1.link[Old(n)][d])]],
       red  |-> [n \in rest |-> t1.red[Old(n)]],
       data |-> [n \in rest |-> t1.data[n]],
       key  |-> [n \in rest |-> t1.key[Old(n)]]]

DictRemove(k) ==
  LET h == Hash(k)
      s == Sink([tree |-> WithHead, p |-> NIL, q |-> HEAD, dir |-> 1], h) IN
  /\ \/ root = NIL /\ UNCHANGED <<tree, root>>
     \/ root # NIL /\ h \notin Nodes /\ Adopt(s.tree)
     \/ root # NIL /\ h \in Nodes /\ Adopt(Replace(s.tree, s.p, s.q, h))
  /\ UNCHANGED copies
  /\ Call("remove", k, NULL, NULL)

-----------------------------------------------------------------------------
(* The other operations *)

\* dict_create
DictInit ==
  /\ tree = NoNodes
  /\ root = NIL
  /\ copies = 0
  /\ call = [op |-> "create", key |-> NULL, data |-> NULL, ret |-> NULL]

\* _inssearch returns NULL whatever it found.
DictInsert(k, v) == InsSearch(k, v, TRUE) /\ Call("insert", k, v, NULL)
DictSearchInsert(k, v) ==
  InsSearch(k, v, FALSE) /\ Call("search_insert", k, v, NULL)

DictSearch(k) ==
  /\ Call("search", k, NULL, Search(Hash(k)))
  /\ UNCHANGED <<tree, root, copies>>

\* The nodes of t in the order _foreach visits those at and below r.
InOrder(t, r) ==
  LET visit[n \in DOMAIN t.red \cup {NIL}] ==
        IF n = NIL THEN <<>>
        ELSE visit[t.link[n][0]] \o <<n>> \o visit[t.link[n][1]]
  IN  visit[r]

\* dict_free, and the dict_create of the next dictionary: every node reached
\* from the root goes, and its key.
DictFree ==
  LET order == InOrder(tree, root)
      visited == {order[i] : i \in DOMAIN order} IN
  /\ tree' = Drop(tree, visited)
  /\ root' = NIL
  /\ copies' = copies - Cardinality(visited)
  /\ Call("free", NULL, NULL, NULL)

DictNext ==
  \/ \E k \in Keys, v \in Data : DictInsert(k, v) \/ DictSearchInsert(k, v)
  \/ \E k \in Keys : DictSearch(k) \/ DictRemove(k)
  \/ DictFree

DictSpec == DictInit /\ [][DictNext]_dictVars

-----------------------------------------------------------------------------
(* Properties *)

\* The links, the root and the stored data are of their types, no node that
\* was freed is linked, and the false root is on the stack only.
DictTypeOK ==
  /\ Nodes \subseteq Hashes
  /\ \A n \in Nodes : \A d \in {0, 1} : tree.link[n][d] \in Nodes \cup {NIL}
  /\ \A n \in Nodes : tree.data[n] \in Data \cup {NULL} /\ tree.key[n] \in Keys
  /\ root \in Nodes \cup {NIL}
  /\ copies \in Nat
  /\ call.ret \in Data \cup {NULL}

\* The number of black nodes on every path of t down from r; -1 if paths differ.
BlackHeight(t, r) ==
  LET height[n \in DOMAIN t.red \cup {NIL}] ==
        IF n = NIL THEN 0
        ELSE LET a == height[t.link[n][0]]
                 b == height[t.link[n][1]]
             IN  IF a # b \/ a = -1 THEN -1 ELSE a + Side(~t.red[n])
  IN  height[r]

\* After every call the links lead to nodes that were not freed, and the tree is
\* a red-black tree: the root is black, no red node has a red child, and all
\* paths have as many black nodes.  This bounds its depth, and so the recursion
\* of _foreach and _free_subtree on a task's small stack.
RedBlack ==
  /\ DictTypeOK
  /\ ~Red(tree, root)
  /\ \A n \in Nodes : \A d \in {0, 1} :
       tree.red[n] => ~Red(tree, tree.link[n][d])
  /\ BlackHeight(tree, root) # -1

\* dict_foreach visits every node once, in the order of the hashes: the
\* collector marks through it, and a node it skipped would have its value
\* freed while the program can still name it.
VisitsAllInOrder ==
  LET o == InOrder(tree, root) IN
  /\ \A i, j \in DOMAIN o : i < j => o[i] < o[j]
  /\ Nodes = {o[i] : i \in DOMAIN o}

\* Calls other than dict_remove keep the keys in order: a node that is new, or
\* has a new key, has one of its own hash (the printed form of a dictionary
\* names the keys), and there is a copy for every node that was not there
\* before, and no copy less is freed than nodes go.
KeysBelong ==
  [][call'.op # "remove" =>
       /\ copies' - Cardinality(Nodes') = copies - Cardinality(Nodes)
       /\ \A n \in Nodes' :
            \/ n \in Nodes /\ tree'.key[n] = tree.key[n]
            \/ Hash(tree'.key[n]) = n]_dictVars

Map == INSTANCE Dictionary WITH map <- [h \in Hashes |-> Search(h)]

\* Each call on the tree is the call of the same name on the map of dict.h:
\* whatever it rotates, what dict_search finds changes for its own key's hash
\* as that call says, and for no other.
DictionarySpec ==
  /\ Map!Init
  /\ [][LET h == Hash(call'.key)
            v == call'.data
        IN  \/ call'.op = "insert" /\ Map!Insert(h, v)
            \/ call'.op = "search_insert" /\ Map!SearchInsert(h, v)
            \/ call'.op = "remove" /\ Map!Remove(h)
            \/ call'.op = "search" /\ Map!Search(h, call'.ret)
            \/ call'.op = "free" /\ Map!Clear]_dictVars
=============================================================================
