---------------------------- MODULE EvidenceFormat ----------------------------
(***************************************************************************)
(* The on-disk format of the evidence bundle (internal/evidence: record.go, *)
(* checkpoint.go, merkle.go) and the offline verifier (verify.go).          *)
(*                                                                          *)
(* SHA-256 and Ed25519 are idealised.  A hash is an injective function of   *)
(* what it covers: the hash of a record is its predecessor's hash with the  *)
(* record's own fields appended, so a hash IS the history it commits to.    *)
(* The Merkle root of a segment is the sequence of its leaves (module       *)
(* MerkleTree checks that the tree the code builds is injective in them).   *)
(* A signature is the field "signed", TRUE for a checkpoint whose content   *)
(* is what the gateway's key signed.                                        *)
(***************************************************************************)
EXTENDS Naturals, Sequences, FiniteSets

CONSTANTS NoFile,   \* the file does not exist
          Torn      \* a line, or a checkpoint file, that is not valid JSON

(* GenesisPrevHash and GenesisPrevCheckpoint: the empty history. *)
Genesis == << >>

(* Record.core: every field a record's hash covers, except PrevHash. *)
Core(r) == [emitter |-> r.emitter, epoch |-> r.epoch, seq |-> r.seq,
            gseq |-> r.gseq, event |-> r.event]

(* Record.ComputeHash. *)
ComputeHash(r) == Append(r.prev, Core(r))

(* Record.seal: fill PrevHash from the chain head, then Hash. *)
Seal(emitter, epoch, seq, gseq, event, prevHash) ==
    [emitter |-> emitter, epoch |-> epoch, seq |-> seq, gseq |-> gseq,
     event |-> event, prev |-> prevHash,
     hash |-> Append(prevHash,
                     [emitter |-> emitter, epoch |-> epoch, seq |-> seq,
                      gseq |-> gseq, event |-> event])]

(* MerkleRoot over Record.CanonicalBytes of each record: core and PrevHash. *)
MerkleRoot(recs) == [i \in DOMAIN recs |-> <<recs[i].prev, Core(recs[i])>>]

(* The signed checkpoint sealSegment builds over a segment's records. *)
NewCheckpoint(name, recs, prevCkpt) ==
    [epoch |-> name[1], index |-> name[2], count |-> Len(recs),
     root |-> MerkleRoot(recs), head |-> recs[Len(recs)].hash,
     prev |-> prevCkpt, signed |-> TRUE]

(* Checkpoint.HashHex: covers every field, the signature included. *)
HashHex(c) ==
    Append(c.prev, [epoch |-> c.epoch, index |-> c.index, count |-> c.count,
                    root |-> c.root, head |-> c.head, signed |-> c.signed])

-----------------------------------------------------------------------------
(* A bundle is two functions from names <<epoch, index>>: segs[n] is the     *)
(* sequence of lines of segment-<epoch>-<index>.jsonl, ckpts[n] the content  *)
(* of checkpoint-<epoch>-<index>.json; NoFile where the file is absent.      *)

Present(files) == {n \in DOMAIN files : files[n] # NoFile}

(* The order (epoch, index) checkpoints are sorted in. *)
Before(m, n) == m[1] < n[1] \/ (m[1] = n[1] /\ m[2] < n[2])

CkptName(c) == <<c.epoch, c.index>>

Latest(names) == CHOOSE n \in names : \A m \in names : m = n \/ Before(m, n)

(* lastCheckpointHash: the hash of the highest (epoch, index) checkpoint. *)
LastCheckpointHash(ckpts) ==
    IF Present(ckpts) = {} THEN Genesis
    ELSE HashHex(ckpts[Latest(Present(ckpts))])

(* loadSegments and loadCheckpoints return an error on a file that does not  *)
(* parse, before any check runs.                                             *)
LoadFails(segs, ckpts) ==
    \/ \E n \in Present(segs) : \E i \in DOMAIN segs[n] : segs[n][i] = Torn
    \/ \E n \in Present(ckpts) : ckpts[n] = Torn

(* flattenSorted: the places <<name, line>> of all records of the bundle. *)
Places(segs) == UNION {{<<n, i>> : i \in DOMAIN segs[n]} : n \in Present(segs)}

At(segs, p) == segs[p[1]][p[2]]

(* verifyRecordHashes. *)
RecordHashesOK(segs) ==
    \A p \in Places(segs) : ComputeHash(At(segs, p)) = At(segs, p).hash

(* The numbers f gives to the places in S are 1..|S|, each once. *)
Numbered(S, f(_)) ==
    {f(p) : p \in S} = 1..Cardinality(S)

(* verifyPerEpochChains: within an epoch global_seq is contiguous from 1 and *)
(* prev_hash links each record to its predecessor.                           *)
PerEpochChainsOK(segs) ==
    \A e \in {At(segs, p).epoch : p \in Places(segs)} :
        LET S == {p \in Places(segs) : At(segs, p).epoch = e}
        IN  /\ Numbered(S, LAMBDA p : At(segs, p).gseq)
            /\ \A p \in S :
                 \/ At(segs, p).gseq = 1 /\ At(segs, p).prev = Genesis
                 \/ \E q \in S : /\ At(segs, q).gseq + 1 = At(segs, p).gseq
                                 /\ At(segs, q).hash = At(segs, p).prev

(* verifyPerEmitterSequences. *)
PerEmitterSequencesOK(segs) ==
    \A k \in {<<At(segs, p).emitter, At(segs, p).epoch>> : p \in Places(segs)} :
        Numbered({p \in Places(segs) :
                    <<At(segs, p).emitter, At(segs, p).epoch>> = k},
                 LAMBDA p : At(segs, p).seq)

(* verifyCheckpoints, the links: checkpoints sorted by (epoch, index) form   *)
(* one list from genesis, each carrying the hash of the one before it.       *)
CheckpointChainOK(ckpts) ==
    \A n \in Present(ckpts) :
        LET earlier == {m \in Present(ckpts) :
                           Before(CkptName(ckpts[m]), CkptName(ckpts[n]))}
        IN  /\ ckpts[n].signed
            /\ ckpts[n].prev =
                 IF earlier = {} THEN Genesis
                 ELSE HashHex(ckpts[CHOOSE m \in earlier : \A l \in earlier :
                         l = m \/ Before(CkptName(ckpts[l]), CkptName(ckpts[m]))])

(* verifyCheckpoints, the contents: count, Merkle root and chain head match  *)
(* the segment file of the same (epoch, index).                              *)
CheckpointMatchesSegment(segs, c) ==
    LET n == CkptName(c)
    IN  /\ n \in Present(segs)
        /\ c.count = Len(segs[n])
        /\ c.root = MerkleRoot(segs[n])
        /\ Len(segs[n]) > 0 => c.head = segs[n][Len(segs[n])].hash

(* verifyCheckpoints: every segment is covered by a checkpoint. *)
AllCovered(segs, ckpts) ==
    Present(segs) \subseteq {CkptName(ckpts[n]) : n \in Present(ckpts)}

(* mutant: the pinned head is not compared. *)
VerifyBundleUnpinned(segs, ckpts, head) ==
    /\ ~ LoadFails(segs, ckpts)
    /\ Present(segs) # {}
    /\ RecordHashesOK(segs)
    /\ PerEpochChainsOK(segs)
    /\ PerEmitterSequencesOK(segs)
    /\ CheckpointChainOK(ckpts)
    /\ \A n \in Present(ckpts) : CheckpointMatchesSegment(segs, ckpts[n])
    /\ AllCovered(segs, ckpts)

(* VerifyBundle with the signing key pinned.  head is expectedHead; Genesis  *)
(* (the empty string) means no head is pinned.                               *)
VerifyBundle(segs, ckpts, head) ==
    /\ ~ LoadFails(segs, ckpts)
    /\ Present(segs) # {}
    /\ RecordHashesOK(segs)
    /\ PerEpochChainsOK(segs)
    /\ PerEmitterSequencesOK(segs)
    /\ CheckpointChainOK(ckpts)
    /\ \A n \in Present(ckpts) : CheckpointMatchesSegment(segs, ckpts[n])
    /\ AllCovered(segs, ckpts)
    /\ head # Genesis => LastCheckpointHash(ckpts) = head
=============================================================================
