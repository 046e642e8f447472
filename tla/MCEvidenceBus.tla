----------------------------- MODULE MCEvidenceBus -----------------------------
(* The evidence bus for TLC: events are numbered in the order Emit is called *)
(* and callers are interchangeable.                                          *)
EXTENDS EvidenceBus, TLC

Symmetry == Permutations(Callers)
=============================================================================
