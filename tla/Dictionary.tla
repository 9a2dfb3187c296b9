----------------------------- MODULE Dictionary -----------------------------
(***************************************************************************)
(* What dict.h promises: a map from the hashes of keys to data.  A hash    *)
(* that was never inserted, or was removed, has the datum NULL.            *)
(***************************************************************************)
CONSTANTS Hashes, Data, NULL

VARIABLE map

Init == map = [h \in Hashes |-> NULL]

Insert(h, v) == map' = [map EXCEPT ![h] = v]
SearchInsert(h, v) == IF map[h] = NULL THEN Insert(h, v) ELSE UNCHANGED map
Search(h, v) == v = map[h] /\ UNCHANGED map
Remove(h) == map' = [map EXCEPT ![h] = NULL]
Clear == map' = [h \in Hashes |-> NULL]

Next ==
  \/ \E h \in Hashes, v \in Data : Insert(h, v) \/ SearchInsert(h, v)
  \/ \E h \in Hashes, v \in Data \cup {NULL} : Search(h, v)
  \/ \E h \in Hashes : Remove(h)
  \/ Clear

Spec == Init /\ [][Next]_map
=============================================================================
