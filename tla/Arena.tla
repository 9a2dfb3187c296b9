------------------------------- MODULE Arena -------------------------------
(***************************************************************************)
(* What malloc and free promise their callers: a caller is handed bytes of *)
(* the arena that nobody else holds, and keeps them until it gives them    *)
(* back.  Where in the arena a block is placed, and when malloc gives up,  *)
(* is left open.                                                           *)
(***************************************************************************)
EXTENDS Naturals

CONSTANTS
  Low, High,  \* the arena is the bytes Low..High - 1
  Sizes       \* the sizes that may be asked for

VARIABLE held \* the size asked for, by the address of the block

Overlap(p, m, q, n) == p < q + n /\ q < p + m

Init == held = [p \in {} |-> 0]

Grant(p, n) ==
  /\ Low <= p /\ p + n <= High
  /\ \A q \in DOMAIN held : ~Overlap(p, n, q, held[q])
  /\ held' = [q \in DOMAIN held \cup {p} |-> IF q = p THEN n ELSE held[q]]

Return(p) == held' = [q \in DOMAIN held \ {p} |-> held[q]]

Next ==
  \/ \E p \in Low..High, n \in Sizes : Grant(p, n)
  \/ \E p \in DOMAIN held : Return(p)

Spec == Init /\ [][Next]_held
=============================================================================
