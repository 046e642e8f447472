------------------------------ MODULE MerkleTree -------------------------------
(***************************************************************************)
(* The Merkle tree over a segment's records (internal/evidence/merkle.go),  *)
(* level by level as the code builds it.  SHA-256 is idealised: a hash is   *)
(* the term of what was hashed.                                             *)
(***************************************************************************)
EXTENDS Naturals, Sequences

CONSTANT Empty       \* no bytes

LeafHash(data) == <<"leaf", data>>
NodeHash(l, r) == <<"node", l, r>>

(* mutant: an odd last node is paired with itself. *)
ParentDuplicated(level, i) ==
    IF 2 * i > Len(level) THEN NodeHash(level[2 * i - 1], level[2 * i - 1])
    ELSE NodeHash(level[2 * i - 1], level[2 * i])

(* The i-th node of the next level: an odd last node is promoted. *)
Parent(level, i) ==
    IF 2 * i > Len(level) THEN level[2 * i - 1]
    ELSE NodeHash(level[2 * i - 1], level[2 * i])

(* The level above one of several nodes; a level of one node is the root. *)
Above(level) ==
    IF Len(level) = 1 THEN level
    ELSE [i \in 1..((Len(level) + 1) \div 2) |-> Parent(level, i)]

(* The levels of the tree over s, the leaves first. *)
Levels(s) ==
    LET up[k \in Nat] ==
            IF k = 0 THEN [i \in DOMAIN s |-> LeafHash(s[i])] ELSE Above(up[k - 1])
    IN  up

(* No tree is as high as it has leaves. *)
MerkleRoot(s) ==
    IF s = << >> THEN LeafHash(Empty) ELSE Levels(s)[Len(s)][1]
=============================================================================
