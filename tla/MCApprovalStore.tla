---------------------------- MODULE MCApprovalStore ----------------------------
(* The approval store for TLC: three persons, one of them under two          *)
(* spellings of her name.                                                    *)
EXTENDS ApprovalStore, TLC

CONSTANTS alice, ALICE, bob, carol

Spellings == {alice, ALICE, bob, carol}
CanonOf == [n \in Spellings |-> IF n = ALICE THEN alice ELSE n]
=============================================================================
