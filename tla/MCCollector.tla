----------------------------- MODULE MCCollector -----------------------------
(* Collector for TLC: addresses are interchangeable. *)
EXTENDS Collector, TLC

Symmetric == Permutations(Objects)
=============================================================================
