----------------------------- MODULE HeapAlone -----------------------------
(***************************************************************************)
(* A caller that has the heap for itself gets what module Heap describes:  *)
(* the calls of HeapSteps, run to their end, are the atomic calls of Heap. *)
(* The history variable start is the heap as the last call left it.        *)
(***************************************************************************)
EXTENDS HeapSteps, Functions

CONSTANT Caller
ASSUME AloneAssumption == Callers = {Caller}

VARIABLE start

\* The blocks of the list.
Listed ==
  LET from[a \in Addr] == IF a = NULL THEN {} ELSE {a} \cup from[next[a]]
  IN  from[Base]

Image == [next |-> Restrict(next, Listed), prev |-> Restrict(prev, Listed \cup {NULL}),
          size |-> Restrict(size, Listed), free |-> Restrict(free, Listed),
          inUse |-> inUse, held |-> held[Caller]]

AloneInit == StepsInit /\ start = Image

AloneNext ==
  /\ CallerStep(Caller)
  /\ start' = IF pc'[Caller] = "out" THEN Image' ELSE start

AloneSpec == AloneInit /\ [][AloneNext]_<<vars, start>>

-----------------------------------------------------------------------------
\* Each call of malloc and free, interrupted or not, does what the same call
\* of Heap does in one step, if nobody else uses the heap in the meantime.
H == INSTANCE Heap WITH
  next <- start.next, prev <- start.prev, size <- start.size,
  free <- start.free, inUse <- start.inUse, held <- start.held
ImplementsHeap == H!HeapSpec

=============================================================================
