------------------------------- MODULE MCDict -------------------------------
(* Dict for TLC.  Keys are numbers; two of them share a hash when they differ by
   HashRange, as two strings may share their crc32. *)
EXTENDS Dict
CONSTANTS HashRange

ModHash(k) == k % HashRange

(* What a call does to the tree, and whether it keeps the keys in order, does not
   depend on the keys, on the count of their copies or on the last call: the run
   need not tell states apart by them.  With dict_remove, which leaks a copy, the
   count would make it endless. *)
Shape == <<tree.link, tree.red, tree.data, root>>
=============================================================================
