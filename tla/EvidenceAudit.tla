----------------------------- MODULE EvidenceAudit -----------------------------
(***************************************************************************)
(* The bus and the offline verifier together (cmd/omni-verify): a bundle at *)
(* rest, closed cleanly and verified against the head Close logged, is then *)
(* damaged in one of the ways files get damaged, and verified again.  The   *)
(* Merkle tree a checkpoint signs is checked beside it: EvidenceFormat      *)
(* takes the sequence of leaves for a root, which RootDeterminesLeaves      *)
(* justifies.                                                               *)
(***************************************************************************)
EXTENDS EvidenceBus, SequencesExt

CONSTANTS Payloads,    \* canonical bytes of records, never empty
          Empty,       \* no bytes
          MaxLeaves    \* bound on the records of a segment

ASSUME MerkleAssumption ==
    /\ MaxLeaves \in Nat
    /\ Empty \notin Payloads

Tree == INSTANCE MerkleTree

(* Nothing runs on a bundle that was damaged: it is only verified. *)
damaged == bus = "damaged"

(* Files of the names in S are lost: segments, checkpoints, or both. *)
LoseFiles(S) ==
    \/ /\ segs' = [n \in Names |-> IF n \in S THEN NoFile ELSE segs[n]]
       /\ UNCHANGED ckpts
    \/ /\ ckpts' = [n \in Names |-> IF n \in S THEN NoFile ELSE ckpts[n]]
       /\ UNCHANGED segs
    \/ /\ segs' = [n \in Names |-> IF n \in S THEN NoFile ELSE segs[n]]
       /\ ckpts' = [n \in Names |-> IF n \in S THEN NoFile ELSE ckpts[n]]

(* A segment loses its last lines, or two of its lines change places. *)
CutLines(n) ==
    \E k \in 0..(Len(segs[n]) - 1) : segs' = [segs EXCEPT ![n] = SubSeq(@, 1, k)]

SwapLines(n) ==
    \E i, j \in DOMAIN segs[n] :
        /\ i < j
        /\ segs' = [segs EXCEPT ![n] = [@ EXCEPT ![i] = segs[n][j], ![j] = segs[n][i]]]

(* A record's event is changed, its hash left alone or recomputed. *)
ChangeRecord(n) ==
    \E i \in DOMAIN segs[n] :
        LET r == [segs[n][i] EXCEPT !.event = 0]
        IN  \E h \in {r.hash, ComputeHash(r)} :
                segs' = [segs EXCEPT ![n] = [@ EXCEPT ![i] = [r EXCEPT !.hash = h]]]

(* A checkpoint's content changes; the signature no longer covers it. *)
ChangeCheckpoint(n) ==
    ckpts' = [ckpts EXCEPT ![n] = [ckpts[n] EXCEPT !.count = @ + 1, !.signed = FALSE]]

Damage ==
    /\ bus = "down"
    /\ closeResult = "nil"
    /\ Present(segs) # {}
    /\ VerifyBundle(segs, ckpts, loggedHead)
    /\ \/ \E S \in SUBSET Present(segs) : S # {} /\ LoseFiles(S)
       \/ /\ \E n \in Present(segs) : CutLines(n) \/ SwapLines(n) \/ ChangeRecord(n)
          /\ UNCHANGED ckpts
       \/ /\ \E n \in Present(ckpts) : ChangeCheckpoint(n)
          /\ UNCHANGED segs
    /\ bus' = "damaged"
    /\ UNCHANGED <<epochFile, synced, wormSegs, wormCkpts, queue, epoch, chain,
                   segment, sealErr, callers, nextEvent, acked, closing>>

AuditNext ==
    \/ Next
    \/ Damage

AuditSpec == Init /\ [][AuditNext]_vars /\ Fairness

(* Loss, truncation, reordering or alteration of any file of a verified      *)
(* bundle makes omni-verify fail when the head logged at Close is pinned:    *)
(* interior, trailing and whole-epoch losses alike.                          *)
DamageDetected == damaged => ~ VerifyBundle(segs, ckpts, loggedHead)

(* What Emit acknowledged is on disk whatever power losses and failed fsyncs *)
(* the bus went through, until someone damages the files.                    *)
AckedSurvivesFaults == damaged \/ AckedIsDurable

(* Two different segments never have the same root: a checkpoint commits to  *)
(* the records, their number and their order, for every shape of the tree.   *)
(* A fact of the tree alone, looked at once, before the bundle's first epoch. *)
RootDeterminesLeaves ==
    epochFile = 0 =>
        \A s, t \in BoundedSeq(Payloads, MaxLeaves) :
            Tree!MerkleRoot(s) = Tree!MerkleRoot(t) => s = t
=============================================================================
