--------------------------- MODULE EvidenceBusProofs ---------------------------
(***************************************************************************)
(* TLAPS proofs about the evidence pipeline: what its files hold across     *)
(* failures, crashes, power losses and restarts.                            *)
(***************************************************************************)
EXTENDS EvidenceAudit, FiniteSetTheorems, WellFoundedInduction, TLAPS

-----------------------------------------------------------------------------
(* The invariant. *)

Line == Record \cup {Torn}

(* A process that is down has no memory; one that runs has an epoch of its    *)
(* own, the last one given out.                                               *)
Alive ==
    /\ bus = "down" =>
          /\ queue = << >> /\ segmentIndex = 0 /\ segRecords = << >>
          /\ segFile = "nil" /\ ~wErr /\ ~sealErr
          /\ caller = [c \in Callers |-> "idle"]
    /\ bus # "down" => epoch = epochFile /\ epochFile >= 1

(* An open segment has a name, and room until a seal has failed. *)
Room ==
    /\ segFile # "nil" => segmentIndex < MaxSegments
    /\ segRecords # << >> \/ wErr => segFile # "nil"
    /\ segFile # "closed" => Len(segRecords) < SegmentSize

(* Which segment files there are. *)
FilesPresent ==
    /\ segFile # "nil" => segs[Current] # NoFile
    /\ \A n \in Names : segs[n] # NoFile =>
          /\ n[1] <= epochFile
          /\ bus # "down" /\ n[1] = epoch =>
                n[2] < segmentIndex \/ (n[2] = segmentIndex /\ segFile # "nil")

(* No more is synced than was written. *)
SyncedLines ==
    \A n \in Names : synced[n] <= IF segs[n] = NoFile THEN 0 ELSE Len(segs[n])

Busy == {c \in Callers : caller[c] \in {"checked", "queued"}}

(* The channel holds each caller that waits for its reply once. *)
ChannelOK ==
    /\ \A i \in 1..Len(queue) : caller[queue[i]] = "queued"
    /\ \A i, j \in 1..Len(queue) : queue[i] = queue[j] => i = j

(* Line i of segment n is the record of event e. *)
Holds(n, i, e) ==
    /\ segs[n] # NoFile /\ i \in 1..Len(segs[n])
    /\ segs[n][i] # Torn /\ segs[n][i].event = e

(* The event of a call that is still out is its own, and is not written. *)
FreshEvents ==
    /\ \A c \in Busy : sub[c].event < nextEvent
    /\ \A c, d \in Busy : sub[c].event = sub[d].event => c = d
    /\ \A c \in Busy : \A n \in Names : \A i \in Nat : ~Holds(n, i, sub[c].event)

(* Events are written at most once, and were submitted. *)
WrittenOnce ==
    /\ \A n \in Names : \A i \in Nat : \A e \in Nat : Holds(n, i, e) => e < nextEvent
    /\ \A m, n \in Names : \A i, j \in Nat : \A e \in Nat :
          Holds(m, i, e) /\ Holds(n, j, e) => m = n /\ i = j

(* An acknowledged event is on a synced line. *)
AckedSynced ==
    \A e \in acked : \E n \in Names : \E i \in 1..synced[n] : Holds(n, i, e)

FileInv == FilesPresent /\ SyncedLines
EventInv == ChannelOK /\ FreshEvents /\ WrittenOnce /\ AckedSynced
IInv == TypeOK /\ Alive /\ Room /\ FileInv /\ EventInv

-----------------------------------------------------------------------------
(* The type invariant in parts. *)

DiskOK ==
    /\ segs \in SegFiles /\ synced \in [Names -> Nat] /\ ckpts \in CkptFiles
    /\ wormSegs \in SegFiles /\ wormCkpts \in CkptFiles
LifeOK ==
    /\ epochFile \in 0..MaxEpoch /\ epoch \in 0..epochFile
    /\ bus \in {"down", "open", "flagged", "closed", "done"}
ChainOK ==
    /\ perEmitterSeq \in [Emitters -> Nat] /\ globalSeq \in Nat
    /\ chainHead \in Seq(Stamp)
SegmentOK ==
    /\ segmentIndex \in 0..MaxSegments /\ prevCkptHash \in Seq(Link)
    /\ segRecords \in Seq(Record) /\ Len(segRecords) <= SegmentSize
    /\ segFile \in {"nil", "open", "closed"} /\ wErr \in BOOLEAN
Sub == [emitter : Emitters, event : Nat]
CallOK ==
    /\ queue \in Seq(Callers) /\ Len(queue) <= ChCap
    /\ caller \in [Callers -> {"idle", "checked", "queued", "panicked"}]
    /\ sub \in [Callers -> Sub]
    /\ nextEvent \in Nat /\ acked \subseteq Nat
CloseOK ==
    /\ sealErr \in BOOLEAN /\ closeResult \in {"none", "nil", "error"}
    /\ loggedHead \in Seq(Link)

LEMMA TypeParts == TypeOK <=> DiskOK /\ LifeOK /\ ChainOK /\ SegmentOK /\ CallOK /\ CloseOK
BY DEF TypeOK, DiskOK, LifeOK, ChainOK, SegmentOK, CallOK, CloseOK, Sub

LEMMA TypePartsNext ==
    TypeOK' <=> DiskOK' /\ LifeOK' /\ ChainOK' /\ SegmentOK' /\ CallOK' /\ CloseOK'
BY DEF TypeOK, DiskOK, LifeOK, ChainOK, SegmentOK, CallOK, CloseOK, Sub

-----------------------------------------------------------------------------
(* Records and checkpoints. *)

LEMMA SealTyped ==
    ASSUME NEW x \in Emitters, NEW ep \in Nat, NEW s \in Nat, NEW g \in Nat, NEW e \in Nat,
           NEW prev \in Seq(Stamp), NEW r, r = Seal(x, ep, s, g, e, prev)
    PROVE  /\ r \in Record
           /\ r.emitter = x /\ r.seq = s /\ r.gseq = g /\ r.event = e
           /\ r.hash \in Seq(Stamp)
<1> DEFINE st == [emitter |-> x, epoch |-> ep, seq |-> s, gseq |-> g, event |-> e]
           h == Append(prev, st)
<1>1. st \in Stamp
  BY DEF Stamp
<1> HIDE DEF st
<1>2. h \in Seq(Stamp)
  BY <1>1
<1> HIDE DEF h
<1>3. r =
        [emitter |-> x, epoch |-> ep, seq |-> s, gseq |-> g, event |-> e, prev |-> prev,
         hash |-> h]
  BY DEF Seal, h, st
<1> QED
  BY <1>2, <1>3 DEF Record

LEMMA CoreTyped ==
    ASSUME NEW r \in Record
    PROVE  <<r.prev, Core(r)>> \in Seq(Stamp) \X Stamp
<1>1. r.prev \in Seq(Stamp)
  BY DEF Record
<1>2. Core(r) \in Stamp
  BY DEF Record, Core, Stamp
<1> QED
  BY <1>1, <1>2

LEMMA CheckpointTyped ==
    ASSUME NEW n \in Names, NEW recs \in Seq(Record), recs # << >>, NEW prev \in Seq(Link),
           NEW c, c = NewCheckpoint(n, recs, prev)
    PROVE  /\ c \in Checkpoint
           /\ c.epoch = n[1] /\ c.index = n[2] /\ c.count = Len(recs)
           /\ c.root = MerkleRoot(recs) /\ c.head = recs[Len(recs)].hash
           /\ c.prev = prev /\ c.signed = TRUE
<1> DEFINE root == MerkleRoot(recs)
           leaf == Seq(Stamp) \X Stamp
           head == recs[Len(recs)].hash
<1>1. Len(recs) \in Nat /\ Len(recs) \in 1..Len(recs) /\ DOMAIN recs = 1..Len(recs)
  OBVIOUS
<1>2. head \in Seq(Stamp)
  <2>1. recs[Len(recs)] \in Record
    BY <1>1
  <2> QED
    BY <2>1 DEF Record
<1>3. root \in Seq(leaf)
  <2>1. \A i \in DOMAIN recs : <<recs[i].prev, Core(recs[i])>> \in leaf
    BY <1>1, CoreTyped
  <2>2. root = [i \in 1..Len(recs) |-> <<recs[i].prev, Core(recs[i])>>]
    BY <1>1 DEF MerkleRoot
  <2> HIDE DEF root, leaf
  <2>3. root \in [1..Len(recs) -> leaf]
    BY <2>1, <2>2, <1>1
  <2> QED
    BY <2>3, <1>1
<1>4. n[1] \in Nat /\ n[2] \in Nat
  BY BusAssumption DEF Names
<1> HIDE DEF root, head
<1>5. c =
        [epoch |-> n[1], index |-> n[2], count |-> Len(recs), root |-> root, head |-> head,
         prev |-> prev, signed |-> TRUE]
  BY DEF NewCheckpoint, root, head
<1>6. [epoch |-> n[1], index |-> n[2], count |-> Len(recs), root |-> root, head |-> head,
       prev |-> prev, signed |-> TRUE] \in Checkpoint
  BY <1>1, <1>2, <1>3, <1>4 DEF Checkpoint
<1> QED
  BY <1>5, <1>6 DEF root, head

LEMMA HashTyped ==
    ASSUME NEW c \in Checkpoint
    PROVE  HashHex(c) \in Seq(Link)
<1> DEFINE l == [epoch |-> c.epoch, index |-> c.index, count |-> c.count,
                 root |-> c.root, head |-> c.head, signed |-> c.signed]
<1>1. l \in Link
  BY DEF Checkpoint, Link
<1>2. c.prev \in Seq(Link)
  BY DEF Checkpoint
<1> HIDE DEF l
<1>3. HashHex(c) = Append(c.prev, l)
  BY DEF HashHex, l
<1> QED
  BY <1>1, <1>2, <1>3

(* A set of naturals that is not empty has a least element. *)
LEMMA LeastNatural ==
    ASSUME NEW T, T \subseteq Nat, T # {}
    PROVE  \E m \in T : \A n \in T : m <= n
<1> DEFINE R == OpToRel(<, Nat)
<1>1. R = {ss \in Nat \X Nat : ss[1] < ss[2]}
  BY Zenon DEF OpToRel
<1>2. IsWellFoundedOn(R, Nat)
  BY NatLessThanWellFounded
<1> HIDE DEF R
<1>3. PICK m \in T : \A n \in T : ~(<<n, m>> \in R)
  BY <1>2, WFMin
<1>4. ASSUME NEW n \in T
      PROVE  m <= n
  <2>1. m \in Nat /\ n \in Nat /\ <<n, m>> \in Nat \X Nat
    OBVIOUS
  <2>2. <<n, m>> \notin R
    BY <1>3
  <2>3. ~(n < m)
    BY <2>1, <2>2, <1>1
  <2> QED
    BY <2>1, <2>3
<1> QED
  BY <1>4

(* Some name of a set that is not empty is the latest, and only one is.       *)
LEMMA LatestIsMember ==
    ASSUME NEW S, S \subseteq Names, S # {}
    PROVE  Latest(S) \in S /\ \A n \in S : n = Latest(S) \/ Before(n, Latest(S))
<1>0. \A n \in S : n[1] \in 1..MaxEpoch /\ n[2] \in 0..MaxSegments /\ n = <<n[1], n[2]>>
  BY DEF Names
<1> DEFINE T == {MaxEpoch - n[1] : n \in S}
<1>1. T \subseteq Nat /\ T # {}
  BY <1>0, BusAssumption
<1>2. PICK a \in T : \A x \in T : a <= x
  <2> HIDE DEF T
  <2> QED
    BY <1>1, LeastNatural
<1>3. PICK m \in S : a = MaxEpoch - m[1]
  OBVIOUS
<1>4. ASSUME NEW n \in S
      PROVE  n[1] <= m[1]
  <2>1. MaxEpoch - n[1] \in T
    OBVIOUS
  <2>2. MaxEpoch - m[1] <= MaxEpoch - n[1]
    BY <2>1, <1>2, <1>3
  <2>3. n[1] \in Int /\ m[1] \in Int /\ MaxEpoch \in Int
    BY <1>0, BusAssumption
  <2> QED
    BY <2>2, <2>3
<1> DEFINE U == {MaxSegments - n[2] : n \in {k \in S : k[1] = m[1]}}
<1>5. U \subseteq Nat /\ U # {}
  BY <1>0, BusAssumption
<1>6. PICK b \in U : \A x \in U : b <= x
  <2> HIDE DEF U
  <2> QED
    BY <1>5, LeastNatural
<1>7. PICK l \in S : l[1] = m[1] /\ b = MaxSegments - l[2]
  OBVIOUS
<1>8. ASSUME NEW n \in S, n[1] = l[1]
      PROVE  n[2] <= l[2]
  <2>1. MaxSegments - n[2] \in U
    BY <1>7, <1>8
  <2>2. MaxSegments - l[2] <= MaxSegments - n[2]
    BY <2>1, <1>6, <1>7
  <2>3. n[2] \in Int /\ l[2] \in Int /\ MaxSegments \in Int
    BY <1>0, BusAssumption
  <2> QED
    BY <2>2, <2>3
<1>9. ASSUME NEW n \in S
      PROVE  n = l \/ Before(n, l)
  <2>1. n[1] <= l[1] /\ (n[1] = l[1] => n[2] <= l[2])
    BY <1>4, <1>7, <1>8
  <2>2. n[1] \in Nat /\ n[2] \in Nat /\ l[1] \in Nat /\ l[2] \in Nat
    BY <1>0, BusAssumption
  <2>3. n = <<n[1], n[2]>> /\ l = <<l[1], l[2]>>
    BY <1>0
  <2> QED
    BY <2>1, <2>2, <2>3 DEF Before
<1> QED
  BY <1>9 DEF Latest

LEMMA LatestIs ==
    ASSUME NEW S, S \subseteq Names, NEW l \in S, \A n \in S : n = l \/ Before(n, l)
    PROVE  Latest(S) = l
<1>1. \A n \in S : n[1] \in Nat /\ n[2] \in Nat
  BY BusAssumption DEF Names
<1>2. ASSUME NEW k \in S, \A n \in S : n = k \/ Before(n, k)
      PROVE  k = l
  BY <1>1, <1>2 DEF Before
<1> QED
  BY <1>2 DEF Latest

LEMMA LastHashTyped ==
    ASSUME ckpts \in CkptFiles, \A n \in Names : ckpts[n] # Torn
    PROVE  LastCheckpointHash(ckpts) \in Seq(Link)
<1>1. CASE Present(ckpts) = {}
  BY <1>1 DEF LastCheckpointHash, Genesis
<1>2. CASE Present(ckpts) # {}
  <2>1. Present(ckpts) \subseteq Names
    BY DEF Present, CkptFiles
  <2>2. Latest(Present(ckpts)) \in Present(ckpts)
    BY <1>2, <2>1, LatestIsMember
  <2>3. ckpts[Latest(Present(ckpts))] \in Checkpoint
    BY <2>1, <2>2 DEF Present, CkptFiles
  <2> QED
    BY <1>2, <2>3, HashTyped DEF LastCheckpointHash
<1> QED
  BY <1>1, <1>2

-----------------------------------------------------------------------------
(* Files. *)

LEMMA CkptPut ==
    ASSUME NEW f \in CkptFiles, NEW n \in Names, NEW c \in Checkpoint \cup {Torn, NoFile}
    PROVE  [f EXCEPT ![n] = c] \in CkptFiles
BY DEF CkptFiles

LEMMA SegPut ==
    ASSUME NEW f \in SegFiles, NEW n \in Names, NEW lines \in Seq(Line)
    PROVE  [f EXCEPT ![n] = lines] \in SegFiles
BY DEF SegFiles, Line

LEMMA SegFileTyped ==
    ASSUME segs \in SegFiles, NEW n \in Names, segs[n] # NoFile
    PROVE  segs[n] \in Seq(Line) /\ Len(segs[n]) \in Nat /\ DOMAIN segs[n] = 1..Len(segs[n])
<1>1. segs[n] \in Seq(Line)
  BY DEF SegFiles, Line
<1> QED
  BY <1>1

LEMMA LinesAreFiles ==
    ASSUME NEW lines \in Seq(Line)
    PROVE  lines # NoFile
BY MarkAssumption DEF Line

(* The name of the segment at hand is one a file may have. *)
LEMMA CurrentIsName ==
    ASSUME TypeOK, Alive, bus # "down"
    PROVE  Current \in Names /\ Current[1] = epoch /\ Current[2] = segmentIndex
BY BusAssumption DEF TypeOK, Alive, Current, Names

(* The record that is written next. *)
LEMMA NextTyped ==
    ASSUME TypeOK, queue # << >>
    PROVE  /\ Head(queue) \in Callers /\ 1 \in 1..Len(queue) /\ queue[1] = Head(queue)
           /\ Submission \in Sub /\ Submission = sub[Head(queue)]
           /\ Submission.event \in Nat
           /\ NextRecord \in Record /\ NextRecord.event = Submission.event
           /\ NextRecord.emitter \in Emitters /\ NextRecord.seq \in Nat
           /\ NextRecord.gseq \in Nat /\ NextRecord.hash \in Seq(Stamp)
           /\ NextRecord # Torn
<1>1. /\ queue \in Seq(Callers) /\ sub \in [Callers -> Sub] /\ epoch \in Nat
      /\ perEmitterSeq \in [Emitters -> Nat] /\ globalSeq \in Nat /\ chainHead \in Seq(Stamp)
  BY DEF TypeOK, Sub
<1>2. Head(queue) \in Callers /\ 1 \in 1..Len(queue) /\ queue[1] = Head(queue)
  BY <1>1
<1>3. Submission \in Sub /\ Submission = sub[Head(queue)]
  BY <1>1, <1>2 DEF Submission
<1>4. Submission.emitter \in Emitters /\ Submission.event \in Nat
  BY <1>3 DEF Sub
<1>5. perEmitterSeq[Submission.emitter] + 1 \in Nat /\ globalSeq + 1 \in Nat
  BY <1>1, <1>4
<1>6. /\ NextRecord \in Record /\ NextRecord.event = Submission.event
      /\ NextRecord.emitter \in Emitters /\ NextRecord.seq \in Nat
      /\ NextRecord.gseq \in Nat /\ NextRecord.hash \in Seq(Stamp)
  <2> DEFINE x == Submission.emitter
             e == Submission.event
             s == perEmitterSeq[Submission.emitter] + 1
             g == globalSeq + 1
  <2>1. NextRecord = Seal(x, epoch, s, g, e, chainHead)
    BY DEF NextRecord
  <2>2. x \in Emitters /\ e \in Nat /\ s \in Nat /\ g \in Nat
    BY <1>4, <1>5
  <2> HIDE DEF x, e, s, g
  <2>3. /\ NextRecord \in Record
        /\ NextRecord.emitter = x /\ NextRecord.seq = s /\ NextRecord.gseq = g
        /\ NextRecord.event = e /\ NextRecord.hash \in Seq(Stamp)
    BY <1>1, <2>1, <2>2, SealTyped
  <2> QED
    BY <2>2, <2>3 DEF e
<1> QED
  BY <1>2, <1>3, <1>4, <1>6, MarkAssumption

-----------------------------------------------------------------------------
(* What a step does to the lines on disk. *)

(* The lines of the segment at hand are written on at its end. *)
Writes(lines) ==
    /\ OpenAllowed /\ bus # "down"
    /\ lines \in {<< >>, <<Torn>>, <<NextRecord>>}
    /\ segs' = [segs EXCEPT ![Current] = Opened \o lines]

(* Every line there was is there, and the record at hand at most is new.      *)
LinesKept == \A n \in Names : \A i, e \in Nat : Holds(n, i, e) => Holds(n, i, e)'
NothingNew == \A n \in Names : \A i, e \in Nat : Holds(n, i, e)' => Holds(n, i, e)
OneNew ==
    \A n \in Names : \A i, e \in Nat : Holds(n, i, e)' =>
        \/ Holds(n, i, e)
        \/ n = Current /\ i = Len(Opened) + 1 /\ e = Submission.event
NewThere ==
    \A n \in Names : \A i, e \in Nat :
        n = Current /\ i = Len(Opened) + 1 /\ e = Submission.event => Holds(n, i, e)'
FilesGrow ==
    \A n \in Names : segs[n] # NoFile => segs'[n] # NoFile /\ Grown(segs[n], segs'[n])

LEMMA SameFiles ==
    ASSUME segs \in SegFiles, segs' = segs
    PROVE  LinesKept /\ NothingNew /\ FilesGrow
<1>1. LinesKept /\ NothingNew
  BY DEF LinesKept, NothingNew, Holds
<1>2. FilesGrow
  <2> SUFFICES ASSUME NEW n \in Names, segs[n] # NoFile
               PROVE  Grown(segs[n], segs[n])
    BY DEF FilesGrow
  <2> QED
    BY SegFileTyped DEF Grown
<1> QED
  BY <1>1, <1>2

(* The lines of the segment at hand, once it is open. *)
LEMMA OpenedTyped ==
    ASSUME TypeOK, Alive, FilesPresent, OpenAllowed, bus # "down"
    PROVE  /\ Opened \in Seq(Line) /\ Len(Opened) \in Nat
           /\ segs[Current] # NoFile => Opened = segs[Current]
           /\ segs[Current] = NoFile => Opened = << >>
           /\ segFile # "nil" => segs[Current] # NoFile
           /\ segFile = "nil" => segs[Current] = NoFile
<1>1. Current \in Names /\ segs \in SegFiles
  BY CurrentIsName DEF TypeOK
<1>2. segFile # "nil" => segs[Current] # NoFile
  BY DEF FilesPresent
<1>3. segFile = "nil" => segs[Current] = NoFile
  BY DEF OpenAllowed
<1>4. CASE segFile = "nil"
  <2>1. Opened = << >>
    BY <1>4 DEF Opened
  <2> QED
    BY <1>2, <1>3, <1>4, <2>1
<1>5. CASE segFile # "nil"
  <2>1. Opened = segs[Current] /\ segs[Current] # NoFile
    BY <1>2, <1>5 DEF Opened
  <2> QED
    BY <1>1, <1>2, <1>3, <1>5, <2>1, SegFileTyped
<1> QED
  BY <1>4, <1>5

LEMMA OneLine ==
    ASSUME NEW x
    PROVE  /\ Len(<<x>>) = 1 /\ <<x>>[1] = x /\ <<x>> # << >>
           /\ x \in Line => <<x>> \in Seq(Line)
OBVIOUS

LEMMA WriteStep ==
    ASSUME TypeOK, Alive, FilesPresent, NEW lines, Writes(lines),
           lines = <<NextRecord>> => queue # << >>
    PROVE  /\ segs' \in SegFiles
           /\ Opened \o lines \in Seq(Line) /\ Len(lines) \in Nat
           /\ Len(Opened \o lines) = Len(Opened) + Len(lines)
           /\ segs'[Current] = Opened \o lines /\ segs'[Current] # NoFile
           /\ \A n \in Names : n # Current => segs'[n] = segs[n]
           /\ LinesKept /\ FilesGrow
           /\ lines # <<NextRecord>> => NothingNew
           /\ OneNew
           /\ lines = <<NextRecord>> => NewThere
<1>1. Current \in Names /\ segs \in SegFiles /\ DOMAIN segs = Names
  BY CurrentIsName DEF TypeOK, Writes, SegFiles
<1>2. /\ Opened \in Seq(Line) /\ Len(Opened) \in Nat
      /\ segs[Current] # NoFile => Opened = segs[Current]
      /\ segs[Current] = NoFile => Opened = << >>
  BY OpenedTyped DEF Writes
<1>3. lines \in Seq(Line) /\ Len(lines) \in Nat
  <2>1. lines = <<NextRecord>> => NextRecord \in Line
    BY NextTyped DEF Line
  <2>2. Torn \in Line
    BY DEF Line
  <2>3. lines \in {<< >>, <<Torn>>, <<NextRecord>>}
    BY DEF Writes
  <2>4. CASE lines = << >>
    BY <2>4
  <2>5. CASE lines = <<Torn>>
    BY <2>2, <2>5, OneLine
  <2>6. CASE lines = <<NextRecord>>
    BY <2>1, <2>6, OneLine
  <2> QED
    BY <2>3, <2>4, <2>5, <2>6
<1> DEFINE all == Opened \o lines
           k == Len(Opened)
<1>4. /\ all \in Seq(Line) /\ Len(all) = k + Len(lines)
      /\ \A i \in 1..k : all[i] = Opened[i]
      /\ \A i \in 1..Len(lines) : all[k + i] = lines[i]
  BY <1>2, <1>3
<1>5. /\ segs' = [segs EXCEPT ![Current] = all]
  BY DEF Writes
<1> HIDE DEF all
<1>6. /\ segs' \in SegFiles /\ segs'[Current] = all
      /\ \A n \in Names : n # Current => segs'[n] = segs[n]
  BY <1>1, <1>4, <1>5, SegPut
<1>7. segs'[Current] # NoFile
  BY <1>4, <1>6, LinesAreFiles
<1>8. FilesGrow
  <2> SUFFICES ASSUME NEW n \in Names, segs[n] # NoFile
               PROVE  segs'[n] # NoFile /\ Grown(segs[n], segs'[n])
    BY DEF FilesGrow
  <2>1. Len(segs[n]) \in Nat
    BY <1>1, SegFileTyped
  <2>2. CASE n = Current
    <3>1. segs[n] = Opened /\ segs'[n] = all
      BY <1>2, <1>6, <2>2
    <3>2. Grown(Opened, all)
      BY <1>2, <1>3, <1>4 DEF Grown
    <3> QED
      BY <1>7, <2>2, <3>1, <3>2
  <2>3. CASE n # Current
    <3>1. segs'[n] = segs[n]
      BY <1>6, <2>3
    <3> QED
      BY <2>1, <3>1 DEF Grown
  <2> QED
    BY <2>2, <2>3
<1>9. LinesKept
  <2> SUFFICES ASSUME NEW n \in Names, NEW i \in Nat, NEW e \in Nat, Holds(n, i, e)
               PROVE  Holds(n, i, e)'
    BY DEF LinesKept
  <2>1. segs[n] # NoFile /\ i \in 1..Len(segs[n]) /\ segs[n][i] # Torn /\ segs[n][i].event = e
    BY DEF Holds
  <2>2. segs'[n] # NoFile /\ Len(segs[n]) <= Len(segs'[n]) /\ segs'[n][i] = segs[n][i]
    BY <2>1, <1>8 DEF FilesGrow, Grown
  <2>3. Len(segs[n]) \in Nat /\ Len(segs'[n]) \in Nat
    <3>1. CASE n = Current
      BY <3>1, <2>1, <1>1, <1>2, <1>3, <1>4, <1>6, SegFileTyped
    <3>2. CASE n # Current
      BY <3>2, <2>1, <1>1, <1>6, SegFileTyped
    <3> QED
      BY <3>1, <3>2
  <2> QED
    BY <2>1, <2>2, <2>3 DEF Holds
<1>10. ASSUME NEW n \in Names, NEW i \in Nat, NEW e \in Nat, Holds(n, i, e)'
       PROVE  \/ Holds(n, i, e)
              \/ /\ n = Current /\ i = k + 1 /\ lines = <<NextRecord>>
                 /\ e = Submission.event
  <2>1. /\ segs'[n] # NoFile /\ i \in 1..Len(segs'[n])
        /\ segs'[n][i] # Torn /\ segs'[n][i].event = e
    BY <1>10 DEF Holds
  <2>2. CASE n # Current
    BY <2>1, <2>2, <1>6 DEF Holds
  <2>3. CASE n = Current /\ i <= k
    <3>1. segs'[n][i] = Opened[i] /\ i \in 1..k
      BY <2>1, <2>3, <1>2, <1>4, <1>6
    <3>2. segs[n] # NoFile
      BY <3>1, <2>3, <1>2
    <3>3. segs[n] = Opened
      BY <3>2, <2>3, <1>2
    <3> QED
      BY <3>1, <3>2, <3>3, <2>1 DEF Holds
  <2>4. CASE n = Current /\ ~(i <= k)
    <3>1. i \in 1..(k + Len(lines)) /\ all[i] # Torn /\ all[i].event = e
      BY <2>1, <2>4, <1>4, <1>6
    <3>2. lines = << >> \/ lines = <<Torn>> \/ lines = <<NextRecord>>
      BY DEF Writes
    <3>3. lines # << >>
      BY <3>1, <2>4, <1>2
    <3>a. Len(lines) = 1
      BY <3>2, <3>3, OneLine
    <3>4. Len(lines) = 1 /\ i = k + 1
      BY <3>1, <3>a, <2>4, <1>2
    <3>5. all[i] = lines[1]
      BY <3>4, <1>4
    <3>6. lines = <<NextRecord>>
      BY <3>1, <3>2, <3>3, <3>5
    <3>7. NextRecord.event = Submission.event
      BY <3>6, NextTyped
    <3> QED
      BY <3>1, <3>4, <3>5, <3>6, <3>7, <2>4
  <2> QED
    BY <2>2, <2>3, <2>4
<1>11. ASSUME lines = <<NextRecord>>, NEW n \in Names, NEW i \in Nat, NEW e \in Nat,
              n = Current, i = k + 1, e = Submission.event
       PROVE  Holds(n, i, e)'
  <2>1. NextRecord # Torn /\ NextRecord.event = Submission.event
    BY <1>11, NextTyped
  <2>2. Len(lines) = 1 /\ lines[1] = NextRecord
    BY <1>11, OneLine
  <2>3. all[i] = NextRecord /\ i \in 1..Len(all)
    BY <2>2, <1>2, <1>4, <1>11
  <2>4. segs'[n] # NoFile /\ segs'[n] = all
    BY <1>6, <1>7, <1>11
  <2> QED
    BY <2>1, <2>3, <2>4, <1>11 DEF Holds
<1> QED
  BY <1>3, <1>4, <1>6, <1>7, <1>8, <1>9, <1>10, <1>11 DEF NothingNew, OneNew, NewThere, all

(* A power loss may cut the segment at hand down to its synced lines. *)
SyncedKept ==
    \A n \in Names : \A i, e \in Nat : Holds(n, i, e) /\ i <= synced[n] => Holds(n, i, e)'
FilesCut ==
    \A n \in Names : segs[n] # NoFile =>
        /\ segs'[n] # NoFile
        /\ Grown(segs[n], segs'[n]) \/ (synced[n] <= Len(segs'[n]) /\ Grown(segs'[n], segs[n]))

LEMMA CutStep ==
    ASSUME TypeOK, Alive, FilesPresent, SyncedLines, bus # "down", segFile # "nil",
           segs' = [segs EXCEPT ![Current] = SubSeq(segs[Current], 1, synced[Current])]
    PROVE  /\ segs' \in SegFiles
           /\ \A n \in Names : segs[n] = NoFile => segs'[n] = NoFile
           /\ \A n \in Names : segs'[n] # NoFile => synced[n] <= Len(segs'[n])
           /\ NothingNew /\ SyncedKept /\ FilesCut
<1>1. Current \in Names /\ segs \in SegFiles /\ DOMAIN segs = Names /\ synced \in [Names -> Nat]
  BY CurrentIsName DEF TypeOK, SegFiles
<1> DEFINE old == segs[Current]
           k == synced[Current]
           cut == SubSeq(old, 1, k)
<1>2. old # NoFile
  BY DEF FilesPresent
<1>3. old \in Seq(Line) /\ Len(old) \in Nat /\ k \in Nat /\ k <= Len(old)
  BY <1>1, <1>2, SegFileTyped DEF SyncedLines
<1>4. cut \in Seq(Line) /\ Len(cut) = k /\ \A i \in 1..k : cut[i] = old[i]
  <2> HIDE DEF old, k
  <2>1. \A i \in 1..k : old[i] \in Line
    BY <1>3
  <2>2. cut = [i \in 1..k |-> old[i]]
    BY <1>3
  <2>3. cut \in [1..k -> Line]
    BY <2>1, <2>2
  <2> HIDE DEF cut
  <2>4. cut \in Seq(Line) /\ Len(cut) = k
    BY <2>3, <1>3
  <2> QED
    BY <2>2, <2>4
<1>5. cut # NoFile
  BY <1>4, LinesAreFiles
<1> HIDE DEF cut
<1>6. /\ segs' \in SegFiles /\ segs'[Current] = cut
      /\ \A n \in Names : n # Current => segs'[n] = segs[n]
  BY <1>1, <1>4, SegPut DEF cut
<1>7. \A n \in Names : segs[n] = NoFile => segs'[n] = NoFile
  BY <1>2, <1>6
<1>8. ASSUME NEW n \in Names, segs'[n] # NoFile
      PROVE  synced[n] <= Len(segs'[n])
  <2>1. CASE n = Current
    BY <2>1, <1>3, <1>4, <1>6
  <2>2. CASE n # Current
    BY <2>2, <1>6, <1>8 DEF SyncedLines
  <2> QED
    BY <2>1, <2>2
<1>9. NothingNew
  <2> SUFFICES ASSUME NEW n \in Names, NEW i \in Nat, NEW e \in Nat, Holds(n, i, e)'
               PROVE  Holds(n, i, e)
    BY DEF NothingNew
  <2>1. /\ segs'[n] # NoFile /\ i \in 1..Len(segs'[n])
        /\ segs'[n][i] # Torn /\ segs'[n][i].event = e
    BY DEF Holds
  <2>2. CASE n # Current
    BY <2>1, <2>2, <1>6 DEF Holds
  <2>3. CASE n = Current
    <3>1. i \in 1..k /\ cut[i] # Torn /\ cut[i].event = e
      BY <2>1, <2>3, <1>4, <1>6
    <3>2. i \in 1..Len(old) /\ cut[i] = old[i]
      BY <3>1, <1>3, <1>4
    <3> QED
      BY <3>1, <3>2, <2>3, <1>2 DEF Holds
  <2> QED
    BY <2>2, <2>3
<1>10. SyncedKept
  <2> SUFFICES ASSUME NEW n \in Names, NEW i \in Nat, NEW e \in Nat, Holds(n, i, e),
                      i <= synced[n]
               PROVE  Holds(n, i, e)'
    BY DEF SyncedKept
  <2>1. segs[n] # NoFile /\ i \in 1..Len(segs[n]) /\ segs[n][i] # Torn /\ segs[n][i].event = e
    BY DEF Holds
  <2>2. CASE n # Current
    BY <2>1, <2>2, <1>6 DEF Holds
  <2>3. CASE n = Current
    <3>1. i \in 1..k /\ cut[i] = old[i]
      BY <2>1, <2>3, <1>3, <1>4
    <3>2. segs'[n] = cut /\ segs[n] = old
      BY <2>3, <1>6
    <3> HIDE DEF old, k
    <3> QED
      BY <3>1, <3>2, <2>1, <1>4, <1>5 DEF Holds
  <2> QED
    BY <2>2, <2>3
<1>11. FilesCut
  <2> SUFFICES ASSUME NEW n \in Names, segs[n] # NoFile
               PROVE  /\ segs'[n] # NoFile
                      /\ \/ Grown(segs[n], segs'[n])
                         \/ synced[n] <= Len(segs'[n]) /\ Grown(segs'[n], segs[n])
    BY DEF FilesCut
  <2>1. CASE n # Current
    BY <2>1, <1>1, <1>6, SegFileTyped DEF Grown
  <2>2. CASE n = Current
    <3>1. segs'[n] = cut /\ segs[n] = old /\ synced[n] = k
      BY <2>2, <1>6
    <3>2. Grown(cut, old)
      BY <1>3, <1>4 DEF Grown
    <3>3. segs'[n] # NoFile
      BY <3>1, <1>5
    <3>4. synced[n] <= Len(segs'[n])
      BY <3>3, <1>8
    <3>5. Grown(segs'[n], segs[n])
      BY <3>1, <3>2
    <3> QED
      BY <3>3, <3>4, <3>5
  <2> QED
    BY <2>1, <2>2
<1> QED
  BY <1>6, <1>7, <1>8, <1>9, <1>10, <1>11

-----------------------------------------------------------------------------
(* What a step does to the events. *)

LEMMA SyncedFromKept == LinesKept => SyncedKept
BY DEF LinesKept, SyncedKept

(* Nothing is written or cut, and nobody calls. *)
LEMMA EventsQuiet ==
    ASSUME EventInv, UNCHANGED <<queue, caller, sub, nextEvent, acked, segs, synced>>
    PROVE  EventInv'
BY DEF EventInv, ChannelOK, FreshEvents, WrittenOnce, AckedSynced, Holds, Busy

LEMMA OnceKept ==
    ASSUME WrittenOnce, nextEvent' = nextEvent, nextEvent \in Nat,
           \/ NothingNew
           \/ /\ OneNew /\ Submission.event < nextEvent
              /\ \A n \in Names : \A i \in Nat : ~Holds(n, i, Submission.event)
    PROVE  WrittenOnce'
<1>1. CASE NothingNew
  BY <1>1 DEF WrittenOnce, NothingNew
<1>2. CASE /\ OneNew /\ Submission.event < nextEvent
           /\ \A n \in Names : \A i \in Nat : ~Holds(n, i, Submission.event)
  <2>1. ASSUME NEW n \in Names, NEW i \in Nat, NEW e \in Nat, Holds(n, i, e)'
        PROVE  e < nextEvent
    BY <2>1, <1>2 DEF OneNew, WrittenOnce
  <2>2. ASSUME NEW m \in Names, NEW n \in Names, NEW i \in Nat, NEW j \in Nat, NEW e \in Nat,
               Holds(m, i, e)', Holds(n, j, e)'
        PROVE  m = n /\ i = j
    <3>1. Holds(m, i, e) \/ (m = Current /\ i = Len(Opened) + 1 /\ e = Submission.event)
      BY <2>2, <1>2 DEF OneNew
    <3>2. Holds(n, j, e) \/ (n = Current /\ j = Len(Opened) + 1 /\ e = Submission.event)
      BY <2>2, <1>2 DEF OneNew
    <3>3. Holds(m, i, e) /\ Holds(n, j, e) => m = n /\ i = j
      BY DEF WrittenOnce
    <3> QED
      BY <3>1, <3>2, <3>3, <1>2
  <2> QED
    BY <2>1, <2>2 DEF WrittenOnce
<1> QED
  BY <1>1, <1>2

LEMMA AckedKept ==
    ASSUME AckedSynced, acked' = acked, acked \subseteq Nat, SyncedKept,
           synced \in [Names -> Nat], \A n \in Names : synced'[n] \in Nat /\ synced[n] <= synced'[n]
    PROVE  AckedSynced'
<1> SUFFICES ASSUME NEW e \in acked
             PROVE  \E n \in Names : \E i \in 1..synced'[n] : Holds(n, i, e)'
  BY DEF AckedSynced
<1>1. PICK n \in Names, i \in Nat : i \in 1..synced[n] /\ Holds(n, i, e)
  BY DEF AckedSynced
<1>2. Holds(n, i, e)'
  BY <1>1 DEF SyncedKept
<1>3. i \in 1..synced'[n]
  BY <1>1
<1> QED
  BY <1>2, <1>3

(* The process ends, with or without the record at hand in the file. *)
LEMMA EventsGone ==
    ASSUME TypeOK, EventInv, MemoryGone, nextEvent' = nextEvent, acked' = acked,
           SyncedKept,
           \A n \in Names : synced'[n] \in Nat /\ synced[n] <= synced'[n],
           NothingNew \/ (OneNew /\ queue # << >>)
    PROVE  EventInv'
<1>1. Busy' = {} /\ queue' = << >>
  BY DEF MemoryGone, Busy
<1>2. ChannelOK' /\ FreshEvents'
  BY <1>1 DEF ChannelOK, FreshEvents
<1>3. WrittenOnce'
  <2>1. ASSUME queue # << >>
        PROVE  /\ Submission.event < nextEvent
               /\ \A n \in Names : \A i \in Nat : ~Holds(n, i, Submission.event)
    <3>1. Head(queue) \in Callers /\ caller[Head(queue)] = "queued" /\ Submission = sub[Head(queue)]
      BY <2>1, NextTyped DEF EventInv, ChannelOK
    <3> QED
      BY <3>1 DEF EventInv, FreshEvents, Busy
  <2>2. nextEvent \in Nat
    BY DEF TypeOK
  <2> QED
    BY <2>1, <2>2, OnceKept DEF EventInv
<1>4. AckedSynced'
  BY AckedKept DEF EventInv, TypeOK
<1> QED
  BY <1>2, <1>3, <1>4 DEF EventInv

(* The writer answers the call at the head of the channel. *)
LEMMA EventsReply ==
    ASSUME TypeOK, EventInv, NEW ok \in BOOLEAN, Reply(ok), queue # << >>, LinesKept,
           \A n \in Names : synced'[n] \in Nat /\ synced[n] <= synced'[n],
           NothingNew \/ OneNew,
           ok => /\ NewThere /\ Current \in Names
                 /\ Len(Opened) + 1 \in 1..synced'[Current]
    PROVE  EventInv'
<1> DEFINE h == Head(queue)
           e0 == Submission.event
<1>1. /\ h \in Callers /\ queue[1] = h /\ 1 \in 1..Len(queue) /\ queue \in Seq(Callers)
      /\ Submission = sub[h] /\ e0 \in Nat
  BY NextTyped DEF TypeOK
<1>2. /\ queue' = Tail(queue) /\ caller' = [caller EXCEPT ![h] = "idle"]
      /\ acked' = (IF ok THEN acked \cup {e0} ELSE acked)
      /\ sub' = sub /\ nextEvent' = nextEvent
  BY DEF Reply
<1>3. caller \in [Callers -> {"idle", "checked", "queued", "panicked"}] /\ nextEvent \in Nat
  BY DEF TypeOK
<1>4. caller[h] = "queued"
  BY <1>1 DEF EventInv, ChannelOK
<1>5. Busy' = Busy \ {h} /\ h \in Busy
  BY <1>1, <1>2, <1>3, <1>4 DEF Busy
<1>6. e0 < nextEvent /\ \A n \in Names : \A i \in Nat : ~Holds(n, i, e0)
  BY <1>1, <1>5 DEF EventInv, FreshEvents
<1>7. ChannelOK'
  <2>1. /\ Len(queue') = Len(queue) - 1 /\ Len(queue) \in Nat
        /\ \A i \in 1..(Len(queue) - 1) : queue'[i] = queue[i + 1] /\ i + 1 \in 1..Len(queue)
    BY <1>1, <1>2
  <2>2. \A i, j \in 1..Len(queue) : queue[i] = queue[j] => i = j
    BY DEF EventInv, ChannelOK
  <2>3. ASSUME NEW i \in 1..Len(queue')
        PROVE  caller'[queue'[i]] = "queued"
    <3>1. queue'[i] = queue[i + 1] /\ i + 1 \in 1..Len(queue) /\ i + 1 # 1
      BY <2>1, <2>3
    <3>2. queue[i + 1] # h /\ queue[i + 1] \in Callers
      BY <3>1, <2>2, <1>1
    <3>3. caller[queue[i + 1]] = "queued"
      BY <3>1 DEF EventInv, ChannelOK
    <3> QED
      BY <3>1, <3>2, <3>3, <1>2, <1>3
  <2>4. ASSUME NEW i \in 1..Len(queue'), NEW j \in 1..Len(queue'), queue'[i] = queue'[j]
        PROVE  i = j
    <3>1. /\ queue[i + 1] = queue[j + 1] /\ i + 1 \in 1..Len(queue) /\ j + 1 \in 1..Len(queue)
      BY <2>1, <2>4
    <3>2. i + 1 = j + 1
      BY <3>1, <2>2
    <3> QED
      BY <3>2, <2>1
  <2> QED
    BY <2>3, <2>4 DEF ChannelOK
<1>8. FreshEvents'
  <2>1. ASSUME NEW c \in Busy'
        PROVE  sub'[c].event < nextEvent'
    BY <1>2, <1>5 DEF EventInv, FreshEvents
  <2>2. ASSUME NEW c \in Busy', NEW d \in Busy', sub'[c].event = sub'[d].event
        PROVE  c = d
    BY <2>2, <1>2, <1>5 DEF EventInv, FreshEvents
  <2>3. ASSUME NEW c \in Busy', NEW n \in Names, NEW i \in Nat, NEW e \in Nat, e = sub[c].event
        PROVE  ~Holds(n, i, e)'
    <3>1. ~Holds(n, i, e) /\ e # e0
      BY <2>3, <1>1, <1>5 DEF EventInv, FreshEvents
    <3> QED
      BY <3>1 DEF NothingNew, OneNew
  <2>4. ASSUME NEW c \in Busy', NEW n \in Names, NEW i \in Nat
        PROVE  ~Holds(n, i, sub[c].event)'
    <3>1. sub'[c].event \in Nat
      BY <1>2, <1>5 DEF TypeOK, Busy
    <3> QED
      BY <3>1, <2>3, <1>2
  <2> QED
    BY <2>1, <2>2, <2>4 DEF FreshEvents
<1>9. WrittenOnce'
  BY <1>2, <1>3, <1>6, OnceKept DEF EventInv
<1>10. AckedSynced'
  <2> SUFFICES ASSUME NEW e \in acked'
               PROVE  \E n \in Names : \E i \in 1..synced'[n] : Holds(n, i, e)'
    BY DEF AckedSynced
  <2>1. CASE e \in acked
    <3>1. PICK n \in Names, i \in Nat : i \in 1..synced[n] /\ Holds(n, i, e)
      BY <2>1 DEF EventInv, AckedSynced, TypeOK
    <3>2. e \in Nat
      BY <2>1 DEF TypeOK
    <3>3. Holds(n, i, e)'
      BY <3>1, <3>2 DEF LinesKept
    <3>4. i \in 1..synced'[n]
      BY <3>1 DEF TypeOK
    <3> QED
      BY <3>3, <3>4
  <2>2. CASE e \notin acked
    <3>1. ok /\ e = e0
      BY <2>2, <1>2
    <3> QED
      BY <3>1, <1>1 DEF NewThere
  <2> QED
    BY <2>1, <2>2
<1> QED
  BY <1>7, <1>8, <1>9, <1>10 DEF EventInv

-----------------------------------------------------------------------------
(* sealSegment. *)

(* What sealing leaves, whether it succeeds or not. *)
LEMMA SealStep ==
    ASSUME TypeOK, Alive, Room, bus # "down", segmentIndex < MaxSegments,
           NEW recs \in Seq(Record), recs # << >>, Len(recs) <= SegmentSize,
           NEW lines \in Seq(Line), NEW ok \in BOOLEAN, SealSegment(recs, lines, ok)
    PROVE  /\ ckpts' \in CkptFiles /\ wormSegs' \in SegFiles /\ wormCkpts' \in CkptFiles
           /\ SegmentOK'
           /\ wErr' = wErr
           /\ ok => /\ ~wErr /\ segFile # "closed" /\ segFile' = "nil"
                    /\ segRecords' = << >> /\ segmentIndex' = segmentIndex + 1
           /\ ~ok => /\ segRecords' = recs /\ segmentIndex' = segmentIndex
                     /\ segFile' = "closed" \/ (wErr /\ segFile' = segFile)
<1> DEFINE c == NewCheckpoint(Current, recs, prevCkptHash)
<1>1. /\ ckpts \in CkptFiles /\ wormSegs \in SegFiles /\ wormCkpts \in CkptFiles
      /\ SegmentOK
  BY TypeParts DEF DiskOK
<1>2. Current \in Names
  BY CurrentIsName
<1>3. c \in Checkpoint /\ HashHex(c) \in Seq(Link)
  BY <1>1, <1>2, CheckpointTyped, HashTyped DEF SegmentOK
<1> HIDE DEF c
<1>4. CASE ok
  <2>1. /\ ~wErr /\ segFile # "closed"
        /\ ckpts' = [ckpts EXCEPT ![Current] = c]
        /\ wormSegs' = (IF WithWORM THEN [wormSegs EXCEPT ![Current] = lines] ELSE wormSegs)
        /\ wormCkpts' = (IF WithWORM THEN [wormCkpts EXCEPT ![Current] = c] ELSE wormCkpts)
        /\ prevCkptHash' = HashHex(c) /\ segmentIndex' = segmentIndex + 1
        /\ segFile' = "nil" /\ segRecords' = << >> /\ wErr' = wErr
    BY <1>4 DEF SealSegment, SealOK, FileUsable, c
  <2>2. ckpts' \in CkptFiles
    BY <2>1, <1>1, <1>2, <1>3, CkptPut
  <2>3. wormSegs' \in SegFiles
    BY <2>1, <1>1, <1>2, SegPut
  <2>4. wormCkpts' \in CkptFiles
    BY <2>1, <1>1, <1>2, <1>3, CkptPut
  <2>5. SegmentOK'
    BY <2>1, <1>1, <1>3, BusAssumption DEF SegmentOK
  <2> QED
    BY <1>4, <2>1, <2>2, <2>3, <2>4, <2>5
<1>5. CASE ~ok
  <2>1. /\ segRecords' = recs /\ segmentIndex' = segmentIndex /\ prevCkptHash' = prevCkptHash
        /\ wErr' = wErr /\ wormCkpts' = wormCkpts
        /\ segFile' = "closed" \/ (wErr /\ segFile' = segFile)
        /\ \/ ckpts' = ckpts \/ ckpts' = [ckpts EXCEPT ![Current] = Torn]
           \/ ckpts' = [ckpts EXCEPT ![Current] = c]
        /\ wormSegs' = wormSegs \/ wormSegs' = [wormSegs EXCEPT ![Current] = lines]
    BY <1>5 DEF SealSegment, SealFlushFails, SealCloseFails, SealCheckpointFails,
                SealUploadFails, c
  <2>2. ckpts' \in CkptFiles
    BY <2>1, <1>1, <1>2, <1>3, CkptPut
  <2>3. wormSegs' \in SegFiles /\ wormCkpts' \in CkptFiles
    BY <2>1, <1>1, <1>2, SegPut
  <2>4. SegmentOK'
    BY <2>1, <1>1 DEF SegmentOK
  <2> QED
    BY <1>5, <2>1, <2>2, <2>3, <2>4
<1> QED
  BY <1>4, <1>5

-----------------------------------------------------------------------------
(* The end of a process. *)

LEMMA GoneStep ==
    ASSUME TypeOK, MemoryGone, DiskOK', epochFile' = epochFile, nextEvent' = nextEvent,
           acked' = acked, CloseOK'
    PROVE  TypeOK' /\ Alive' /\ Room'
<1>1. /\ bus' = "down" /\ queue' = << >> /\ epoch' = 0
      /\ perEmitterSeq' = [x \in Emitters |-> 0] /\ globalSeq' = 0 /\ chainHead' = << >>
      /\ segmentIndex' = 0 /\ prevCkptHash' = << >> /\ segRecords' = << >>
      /\ segFile' = "nil" /\ wErr' = FALSE /\ sealErr' = FALSE
      /\ caller' = [c \in Callers |-> "idle"] /\ sub' = [c \in Callers |-> NoSub]
  BY DEF MemoryGone, Genesis
<1>2. NoSub \in Sub
  BY BusAssumption DEF NoSub, Sub
<1>3. LifeOK' /\ ChainOK'
  BY <1>1, TypeParts DEF LifeOK, ChainOK
<1>4. SegmentOK'
  <2>1. /\ segmentIndex' \in 0..MaxSegments /\ segFile' \in {"nil", "open", "closed"}
        /\ Len(segRecords') <= SegmentSize
    BY <1>1, BusAssumption
  <2>2. segRecords' \in Seq(Record) /\ prevCkptHash' \in Seq(Link)
    BY <1>1
  <2>3. wErr' \in BOOLEAN
    BY <1>1
  <2> QED
    BY <2>1, <2>2, <2>3 DEF SegmentOK
<1>5. CallOK'
  <2>1. sub' \in [Callers -> Sub]
    BY <1>1, <1>2
  <2>2. nextEvent' \in Nat /\ acked' \subseteq Nat
    BY DEF TypeOK
  <2>3. queue' \in Seq(Callers) /\ Len(queue') <= ChCap
    BY <1>1, BusAssumption
  <2> QED
    BY <1>1, <2>1, <2>2, <2>3 DEF CallOK
<1>6. Alive'
  BY <1>1 DEF Alive
<1>7. Room'
  BY <1>1, BusAssumption DEF Room
<1> QED
  BY <1>3, <1>4, <1>5, <1>6, <1>7, TypePartsNext

(* The files of a process that ended: none has an epoch that is still to come.*)
LEMMA GoneFiles ==
    ASSUME TypeOK, FilesPresent, Alive, MemoryGone, epochFile' = epochFile,
           \A n \in Names : segs'[n] # NoFile => segs[n] # NoFile \/ (bus # "down" /\ n = Current)
    PROVE  FilesPresent'
<1>1. segFile' = "nil" /\ bus' = "down"
  BY DEF MemoryGone
<1>2. ASSUME NEW n \in Names, segs'[n] # NoFile
      PROVE  n[1] <= epochFile
  <2>1. CASE segs[n] # NoFile
    BY <2>1 DEF FilesPresent
  <2>2. CASE bus # "down" /\ n = Current
    BY <2>2, CurrentIsName DEF Alive, TypeOK
  <2> QED
    BY <1>2, <2>1, <2>2
<1> QED
  BY <1>1, <1>2 DEF FilesPresent

-----------------------------------------------------------------------------
(* What the writer does to its files. *)

(* Of the segment at hand, nothing more is synced, or all of it. *)
Syncs(lines) ==
    \/ synced' = synced
    \/ synced' = [synced EXCEPT ![Current] = Len(Opened \o lines)]

LEMMA AppendIsWrite ==
    ASSUME NEW s \in Seq(Line), NEW r \in Line
    PROVE  Append(s, r) = s \o <<r>> /\ Len(Append(s, r)) = Len(s) + 1
OBVIOUS

LEMMA SyncStep ==
    ASSUME TypeOK, Alive, FileInv, NEW lines, Writes(lines), Syncs(lines),
           lines = <<NextRecord>> => queue # << >>
    PROVE  /\ SyncedLines' /\ synced' \in [Names -> Nat]
           /\ \A n \in Names : synced'[n] \in Nat /\ synced[n] <= synced'[n]
<1>1. /\ Opened \o lines \in Seq(Line) /\ Len(lines) \in Nat
      /\ Len(Opened \o lines) = Len(Opened) + Len(lines)
      /\ segs'[Current] = Opened \o lines /\ segs'[Current] # NoFile
      /\ \A n \in Names : n # Current => segs'[n] = segs[n]
  BY WriteStep DEF FileInv
<1>2. /\ Len(Opened) \in Nat
      /\ segs[Current] # NoFile => Opened = segs[Current]
      /\ segs[Current] = NoFile => Opened = << >>
  BY OpenedTyped DEF FileInv, Writes
<1>3. synced \in [Names -> Nat] /\ Current \in Names
  BY CurrentIsName DEF TypeOK, Writes
<1>4. synced[Current] <= Len(Opened)
  BY <1>2, <1>3 DEF FileInv, SyncedLines
<1>5. /\ \A n \in Names : n # Current => synced'[n] = synced[n]
      /\ synced'[Current] \in {synced[Current], Len(Opened) + Len(lines)}
      /\ synced' \in [Names -> Nat]
  BY <1>1, <1>2, <1>3 DEF Syncs
<1>6. synced'[Current] \in Nat /\ synced[Current] <= synced'[Current]
      /\ synced'[Current] <= Len(Opened) + Len(lines)
  BY <1>1, <1>2, <1>3, <1>4, <1>5
<1>7. SyncedLines'
  <2> SUFFICES ASSUME NEW n \in Names
               PROVE  synced'[n] <= IF segs'[n] = NoFile THEN 0 ELSE Len(segs'[n])
    BY DEF SyncedLines
  <2>1. CASE n = Current
    BY <2>1, <1>1, <1>6
  <2>2. CASE n # Current
    BY <2>2, <1>1, <1>5 DEF FileInv, SyncedLines
  <2> QED
    BY <2>1, <2>2
<1> QED
  BY <1>3, <1>5, <1>6, <1>7

(* The segment at hand stays open, or is sealed and the next one is at hand.  *)
Turns ==
    \/ segFile' # "nil" /\ segmentIndex' = segmentIndex
    \/ segFile' = "nil" /\ segmentIndex' = segmentIndex + 1

LEMMA FilesTurn ==
    ASSUME TypeOK, Alive, FilesPresent, bus # "down", UNCHANGED <<epochFile, epoch, bus>>, Turns,
           segs'[Current] # NoFile, \A n \in Names : n # Current => segs'[n] = segs[n]
    PROVE  FilesPresent'
<1>1. Current \in Names /\ Current[1] = epoch /\ Current[2] = segmentIndex
  BY CurrentIsName
<1>2. segmentIndex \in Nat /\ epoch = epochFile /\ epoch \in Nat
  BY DEF TypeOK, Alive
<1>3. segFile' # "nil" => Current' = Current
  BY DEF Turns, Current
<1>4. segFile' # "nil" => segs'[Current'] # NoFile
  BY <1>3
<1>5. ASSUME NEW n \in Names, segs'[n] # NoFile
      PROVE  /\ n[1] <= epochFile
             /\ n[1] = epoch =>
                   n[2] < segmentIndex' \/ (n[2] = segmentIndex' /\ segFile' # "nil")
  <2>1. n[2] \in Nat
    BY DEF Names
  <2>2. CASE n = Current
    BY <2>2, <1>1, <1>2 DEF Turns
  <2>3. CASE n # Current
    <3>1. segs[n] # NoFile
      BY <2>3, <1>5
    <3>2. n[1] <= epochFile /\ (n[1] = epoch => n[2] <= segmentIndex)
      BY <3>1, <2>1, <1>2 DEF FilesPresent
    <3>3. n[1] = epoch => n[2] # segmentIndex
      BY <2>3 DEF Current, Names
    <3> QED
      BY <3>2, <3>3, <2>1, <1>2 DEF Turns
  <2> QED
    BY <2>2, <2>3
<1> QED
  BY <1>4, <1>5 DEF FilesPresent

(* The call at the head of the channel is answered. *)
LEMMA ReplyTyped ==
    ASSUME TypeOK, Alive, queue # << >>, NEW ok \in BOOLEAN, Reply(ok), epochFile' = epochFile
    PROVE  CallOK' /\ CloseOK' /\ LifeOK' /\ (bus # "down" => Alive')
<1>1. Head(queue) \in Callers /\ Submission.event \in Nat
  BY NextTyped
<1>2. CallOK'
  <2>1. queue \in Seq(Callers) /\ Len(queue) <= ChCap /\ queue' = Tail(queue)
    BY DEF TypeOK, Reply
  <2>2. queue' \in Seq(Callers) /\ Len(queue') <= ChCap
    BY <2>1, BusAssumption
  <2>3. caller' \in [Callers -> {"idle", "checked", "queued", "panicked"}]
    BY <1>1 DEF TypeOK, Reply
  <2>4. acked' \subseteq Nat
    BY <1>1 DEF TypeOK, Reply
  <2>5. sub' \in [Callers -> Sub] /\ nextEvent' \in Nat
    BY DEF TypeOK, Reply, Sub
  <2> QED
    BY <2>2, <2>3, <2>4, <2>5 DEF CallOK
<1>3. CloseOK'
  BY DEF TypeOK, CloseOK, Reply, closing
<1>4. LifeOK'
  BY DEF TypeOK, LifeOK, Reply
<1>5. bus # "down" => Alive'
  BY DEF Alive, Reply
<1> QED
  BY <1>2, <1>3, <1>4, <1>5

LEMMA ReadyFacts ==
    ASSUME WriterReady
    PROVE  bus # "down" /\ queue # << >> /\ segmentIndex < MaxSegments
BY DEF WriterReady

(* A step of the writer that writes to the segment at hand. *)
LEMMA WriterStep ==
    ASSUME IInv, WriterReady, NEW lines, Writes(lines), Syncs(lines), NEW ok \in BOOLEAN,
           Reply(ok),
           ok => lines = <<NextRecord>> /\ synced' = [synced EXCEPT ![Current] = Len(Opened \o lines)],
           ckpts' \in CkptFiles, wormSegs' \in SegFiles, wormCkpts' \in CkptFiles,
           SegmentOK', ChainOK', Room', Turns, epochFile' = epochFile
    PROVE  IInv'
<1>1. TypeOK /\ Alive /\ Room /\ FileInv /\ FilesPresent /\ EventInv
  BY DEF IInv, FileInv
<1>2. bus # "down" /\ queue # << >>
  BY ReadyFacts
<1>3. /\ segs' \in SegFiles /\ segs'[Current] # NoFile
      /\ Len(lines) \in Nat /\ Len(Opened \o lines) = Len(Opened) + Len(lines)
      /\ \A n \in Names : n # Current => segs'[n] = segs[n]
      /\ LinesKept /\ OneNew /\ (lines = <<NextRecord>> => NewThere)
  BY <1>1, <1>2, WriteStep
<1>4. /\ SyncedLines' /\ synced' \in [Names -> Nat]
      /\ \A n \in Names : synced'[n] \in Nat /\ synced[n] <= synced'[n]
  BY <1>1, <1>2, SyncStep
<1>5. CallOK' /\ CloseOK' /\ LifeOK' /\ Alive'
  BY <1>1, <1>2, ReplyTyped
<1>6. TypeOK'
  BY <1>3, <1>4, <1>5, TypePartsNext DEF DiskOK
<1>7. FilesPresent'
  BY <1>1, <1>2, <1>3, FilesTurn DEF Reply
<1>8. ok => NewThere /\ Current \in Names /\ Len(Opened) + 1 \in 1..synced'[Current]
  <2> SUFFICES ASSUME ok
               PROVE  NewThere /\ Current \in Names /\ Len(Opened) + 1 \in 1..synced'[Current]
    OBVIOUS
  <2>1. Current \in Names /\ synced \in [Names -> Nat]
    BY <1>1, <1>2, CurrentIsName DEF TypeOK
  <2>2. Len(lines) = 1
    BY OneLine
  <2>3. synced'[Current] = Len(Opened) + 1
    BY <2>1, <2>2, <1>3
  <2>4. Len(Opened) \in Nat
    BY <1>1, <1>2, OpenedTyped DEF Writes
  <2> QED
    BY <2>1, <2>3, <2>4, <1>3
<1>9. EventInv'
  BY <1>1, <1>2, <1>3, <1>4, <1>8, EventsReply
<1> QED
  BY <1>4, <1>5, <1>6, <1>7, <1>9 DEF IInv, FileInv

(* The process ends while the writer writes to the segment at hand. *)
LEMMA CrashStep ==
    ASSUME IInv, WriterReady, NEW lines, Writes(lines), Syncs(lines), MemoryGone,
           ckpts' \in CkptFiles, wormSegs' \in SegFiles, wormCkpts' \in CkptFiles,
           UNCHANGED <<epochFile, nextEvent, acked, closing>>
    PROVE  IInv'
<1>1. TypeOK /\ Alive /\ Room /\ FileInv /\ FilesPresent /\ EventInv
  BY DEF IInv, FileInv
<1>2. bus # "down" /\ queue # << >>
  BY ReadyFacts
<1>3. /\ segs' \in SegFiles /\ \A n \in Names : n # Current => segs'[n] = segs[n]
      /\ LinesKept /\ OneNew
  BY <1>1, <1>2, WriteStep
<1>4. /\ SyncedLines' /\ synced' \in [Names -> Nat]
      /\ \A n \in Names : synced'[n] \in Nat /\ synced[n] <= synced'[n]
  BY <1>1, <1>2, SyncStep
<1>5. DiskOK'
  BY <1>3, <1>4 DEF DiskOK
<1>6. CloseOK'
  BY <1>1 DEF CloseOK, TypeOK, MemoryGone, closing
<1>7. TypeOK' /\ Alive' /\ Room'
  BY <1>1, <1>5, <1>6, GoneStep
<1>8. FilesPresent'
  BY <1>1, <1>2, <1>3, GoneFiles
<1>9. EventInv'
  BY <1>1, <1>2, <1>3, <1>4, SyncedFromKept, EventsGone
<1> QED
  BY <1>4, <1>7, <1>8, <1>9 DEF IInv, FileInv

(* The process ends, or is cut off from power, with no line half written. *)
LEMMA EndStep ==
    ASSUME IInv, MemoryGone, ckpts' \in CkptFiles, wormSegs' \in SegFiles,
           wormCkpts' \in CkptFiles, UNCHANGED <<epochFile, synced, nextEvent, acked>>,
           closeResult' \in {"none", "nil", "error"}, loggedHead' \in Seq(Link),
           \/ segs' = segs
           \/ /\ bus # "down" /\ segFile # "nil"
              /\ segs' = [segs EXCEPT ![Current] = SubSeq(segs[Current], 1, synced[Current])]
    PROVE  IInv'
<1>1. TypeOK /\ Alive /\ Room /\ FilesPresent /\ SyncedLines /\ EventInv
  BY DEF IInv, FileInv
<1>2. /\ segs' \in SegFiles /\ NothingNew /\ SyncedKept
      /\ \A n \in Names : segs[n] = NoFile <=> segs'[n] = NoFile
      /\ \A n \in Names : segs'[n] # NoFile => synced[n] <= Len(segs'[n])
  <2>1. CASE segs' = segs
    <3>1. segs \in SegFiles
      BY <1>1 DEF TypeOK
    <3>2. LinesKept /\ NothingNew
      BY <2>1, <3>1, SameFiles
    <3> QED
      BY <2>1, <3>1, <3>2, <1>1, SyncedFromKept DEF SyncedLines
  <2>2. CASE segs' # segs
    BY <2>2, <1>1, CutStep DEF FilesCut
  <2> QED
    BY <2>1, <2>2
<1>3. synced \in [Names -> Nat] /\ \A n \in Names : synced'[n] \in Nat /\ synced[n] <= synced'[n]
  BY <1>1 DEF TypeOK
<1>4. SyncedLines'
  <2> SUFFICES ASSUME NEW n \in Names
               PROVE  synced[n] <= IF segs'[n] = NoFile THEN 0 ELSE Len(segs'[n])
    BY DEF SyncedLines
  <2>1. CASE segs'[n] # NoFile
    BY <2>1, <1>2
  <2>2. CASE segs'[n] = NoFile
    <3>1. segs[n] = NoFile
      BY <2>2, <1>2
    <3> QED
      BY <2>2, <3>1, <1>1 DEF SyncedLines
  <2> QED
    BY <2>1, <2>2
<1>5. DiskOK' /\ CloseOK'
  BY <1>2, <1>3 DEF DiskOK, CloseOK, MemoryGone
<1>6. TypeOK' /\ Alive' /\ Room'
  BY <1>1, <1>5, GoneStep
<1>7. FilesPresent'
  BY <1>1, <1>2, GoneFiles
<1>8. EventInv'
  BY <1>1, <1>2, <1>3, EventsGone
<1> QED
  BY <1>4, <1>6, <1>7, <1>8 DEF IInv, FileInv
-----------------------------------------------------------------------------
(* Every action keeps the invariant. *)

LEMMA InitInv == Init => IInv
<1> SUFFICES ASSUME Init
             PROVE  IInv
  OBVIOUS
<1> USE DEF Init
<1>1. DiskOK
  <2>1. segs \in SegFiles /\ wormSegs \in SegFiles
    BY DEF SegFiles
  <2>2. ckpts \in CkptFiles /\ wormCkpts \in CkptFiles
    BY DEF CkptFiles
  <2> QED
    BY <2>1, <2>2 DEF DiskOK
<1>2. LifeOK /\ ChainOK
  BY BusAssumption DEF LifeOK, ChainOK, Genesis
<1>3. SegmentOK
  <2>1. segRecords \in Seq(Record) /\ prevCkptHash \in Seq(Link)
    BY DEF Genesis
  <2>2. wErr \in BOOLEAN
    OBVIOUS
  <2>3. /\ segmentIndex \in 0..MaxSegments /\ segFile \in {"nil", "open", "closed"}
        /\ Len(segRecords) <= SegmentSize
    BY BusAssumption
  <2> QED
    BY <2>1, <2>2, <2>3 DEF SegmentOK
<1>4. CallOK
  <2>1. NoSub \in Sub
    BY BusAssumption DEF NoSub, Sub
  <2>2. sub \in [Callers -> Sub]
    BY <2>1
  <2>3. queue \in Seq(Callers) /\ Len(queue) <= ChCap
    BY BusAssumption
  <2>4. nextEvent \in Nat /\ acked \subseteq Nat
    OBVIOUS
  <2> QED
    BY <2>2, <2>3, <2>4 DEF CallOK
<1>5. CloseOK
  <2>1. sealErr \in BOOLEAN
    OBVIOUS
  <2>2. closeResult \in {"none", "nil", "error"} /\ loggedHead \in Seq(Link)
    BY DEF Genesis
  <2> QED
    BY <2>1, <2>2 DEF CloseOK
<1>6. Alive /\ Room
  BY BusAssumption DEF Alive, Room
<1>7. FileInv
  BY DEF FileInv, FilesPresent, SyncedLines
<1>8. Busy = {} /\ \A n \in Names : \A i, e \in Nat : ~Holds(n, i, e)
  BY DEF Busy, Holds
<1>9. EventInv
  <2>1. ChannelOK
    BY DEF ChannelOK
  <2>2. FreshEvents
    BY <1>8 DEF FreshEvents
  <2>3. WrittenOnce
    BY <1>8 DEF WrittenOnce
  <2>4. AckedSynced
    BY DEF AckedSynced
  <2> QED
    BY <2>1, <2>2, <2>3, <2>4 DEF EventInv
<1>10. TypeOK
  BY <1>1, <1>2, <1>3, <1>4, <1>5, TypeParts
<1> QED
  BY <1>6, <1>7, <1>9, <1>10 DEF IInv

LEMMA NewBusInv == IInv /\ NewBus => IInv'
<1> SUFFICES ASSUME IInv, NewBus
             PROVE  IInv'
  OBVIOUS
<1>0. TypeOK /\ Alive /\ Room /\ FilesPresent /\ SyncedLines /\ EventInv
  BY DEF IInv, FileInv
<1>1. /\ UNCHANGED <<segs, synced, ckpts, wormSegs, wormCkpts>> /\ UNCHANGED queue
      /\ UNCHANGED <<perEmitterSeq, globalSeq, chainHead>>
      /\ UNCHANGED <<segmentIndex, segRecords, segFile, wErr, sealErr>>
      /\ UNCHANGED <<caller, sub>> /\ UNCHANGED <<nextEvent, acked, loggedHead>>
      /\ closeResult' = "none" /\ bus' = "open" /\ bus = "down"
      /\ epochFile' = epochFile + 1 /\ epochFile < MaxEpoch /\ epoch' = epochFile'
      /\ prevCkptHash' = LastCheckpointHash(ckpts) /\ \A n \in Names : ckpts[n] # Torn
  BY DEF NewBus, AdvanceEpoch, chain, callers
<1>2. DiskOK /\ LifeOK /\ ChainOK /\ SegmentOK /\ CallOK /\ CloseOK
  BY <1>0, TypeParts
<1>3. prevCkptHash' \in Seq(Link)
  BY <1>1, <1>2, LastHashTyped DEF DiskOK
<1>4. DiskOK' /\ ChainOK' /\ CallOK' /\ CloseOK'
  BY <1>1, <1>2 DEF DiskOK, ChainOK, CallOK, CloseOK
<1>5. LifeOK'
  BY <1>1, <1>2, BusAssumption DEF LifeOK
<1>6. SegmentOK'
  BY <1>1, <1>2, <1>3 DEF SegmentOK
<1>7. Alive'
  BY <1>1, <1>2, BusAssumption DEF Alive, LifeOK
<1>8. Room'
  BY <1>0, <1>1 DEF Room
<1>9. segFile = "nil" /\ epochFile \in Nat
  BY <1>0, <1>1, <1>2 DEF Alive, LifeOK
<1>10. FilesPresent'
  <2> SUFFICES ASSUME NEW n \in Names, segs[n] # NoFile
               PROVE  n[1] <= epochFile' /\ n[1] # epoch'
    BY <1>1, <1>9 DEF FilesPresent
  <2>1. n[1] <= epochFile /\ n[1] \in Nat
    BY <1>0 DEF FilesPresent, Names
  <2> QED
    BY <1>1, <1>9, <2>1
<1>11. SyncedLines'
  BY <1>0, <1>1 DEF SyncedLines
<1>12. EventInv'
  BY <1>0, <1>1, EventsQuiet
<1> QED
  BY <1>4, <1>5, <1>6, <1>7, <1>8, <1>10, <1>11, <1>12, TypePartsNext DEF IInv, FileInv

LEMMA NewBusFailsInv == IInv /\ NewBusFails => IInv'
<1> SUFFICES ASSUME IInv, NewBusFails
             PROVE  IInv'
  OBVIOUS
<1>0. TypeOK /\ Alive /\ Room /\ FilesPresent /\ SyncedLines /\ EventInv
  BY DEF IInv, FileInv
<1>1. /\ UNCHANGED <<segs, synced, ckpts, wormSegs, wormCkpts>> /\ UNCHANGED <<bus, queue, epoch>>
      /\ UNCHANGED <<perEmitterSeq, globalSeq, chainHead>>
      /\ UNCHANGED <<segmentIndex, prevCkptHash, segRecords, segFile, wErr, sealErr>>
      /\ UNCHANGED <<caller, sub>> /\ UNCHANGED <<nextEvent, acked, loggedHead>>
      /\ closeResult' = "none" /\ bus = "down" /\ epochFile < MaxEpoch
      /\ epochFile' = epochFile \/ epochFile' = epochFile + 1
  BY DEF NewBusFails, AdvanceEpoch, chain, callers, segment
<1>2. DiskOK /\ LifeOK /\ ChainOK /\ SegmentOK /\ CallOK /\ CloseOK
  BY <1>0, TypeParts
<1>3. DiskOK' /\ ChainOK' /\ CallOK' /\ CloseOK' /\ SegmentOK'
  BY <1>1, <1>2 DEF DiskOK, ChainOK, CallOK, CloseOK, SegmentOK
<1>4. LifeOK'
  BY <1>1, <1>2, BusAssumption DEF LifeOK
<1>5. Alive' /\ Room'
  BY <1>0, <1>1 DEF Alive, Room
<1>6. FilesPresent'
  <2>1. epochFile \in Nat /\ \A n \in Names : n[1] \in Nat
    BY <1>2 DEF LifeOK, Names
  <2>2. segFile' = "nil"
    BY <1>0, <1>1 DEF Alive
  <2>3. \A n \in Names : segs'[n] # NoFile => n[1] <= epochFile'
    BY <2>1, <1>0, <1>1 DEF FilesPresent
  <2> QED
    BY <1>1, <2>2, <2>3 DEF FilesPresent
<1>7. SyncedLines'
  BY <1>0, <1>1 DEF SyncedLines
<1>8. EventInv'
  BY <1>0, <1>1, EventsQuiet
<1> QED
  BY <1>3, <1>4, <1>5, <1>6, <1>7, <1>8, TypePartsNext DEF IInv, FileInv

(* Nothing the files depend on moves. *)
LEMMA FilesQuiet ==
    ASSUME FileInv, UNCHANGED <<segs, synced, epochFile, epoch, segmentIndex, segFile>>,
           bus' = bus \/ (bus # "down" /\ bus' # "down")
    PROVE  FileInv'
BY DEF FileInv, FilesPresent, SyncedLines, Current

LEMMA EmitCheckInv == ASSUME NEW c \in Callers PROVE IInv /\ EmitCheck(c) => IInv'
<1> SUFFICES ASSUME IInv, EmitCheck(c)
             PROVE  IInv'
  OBVIOUS
<1>0. TypeOK /\ Alive /\ Room /\ FileInv /\ EventInv
  BY DEF IInv
<1>1. /\ UNCHANGED <<epochFile, segs, synced, ckpts, wormSegs, wormCkpts>>
      /\ UNCHANGED <<bus, queue, epoch>>
      /\ UNCHANGED <<perEmitterSeq, globalSeq, chainHead>>
      /\ UNCHANGED <<segmentIndex, prevCkptHash, segRecords, segFile, wErr, sealErr>>
      /\ UNCHANGED <<acked, closeResult, loggedHead>>
      /\ bus = "open" /\ caller[c] = "idle" /\ nextEvent' = nextEvent + 1
      /\ caller' = [caller EXCEPT ![c] = "checked"]
  BY DEF EmitCheck, disk, chain, segment, closing
<1>2. PICK x \in Emitters : sub' = [sub EXCEPT ![c] = [emitter |-> x, event |-> nextEvent]]
  BY DEF EmitCheck
<1>3. DiskOK /\ LifeOK /\ ChainOK /\ SegmentOK /\ CallOK /\ CloseOK
  BY <1>0, TypeParts
<1> DEFINE s == [emitter |-> x, event |-> nextEvent]
<1>4. s \in Sub /\ s.event = nextEvent /\ nextEvent \in Nat
  BY <1>3 DEF Sub, CallOK
<1>5. sub' = [sub EXCEPT ![c] = s]
  BY <1>2
<1> HIDE DEF s
<1>6. /\ caller \in [Callers -> {"idle", "checked", "queued", "panicked"}]
      /\ sub \in [Callers -> Sub] /\ queue \in Seq(Callers)
  BY <1>3 DEF CallOK
<1>7. CallOK'
  BY <1>1, <1>3, <1>4, <1>5, <1>6 DEF CallOK
<1>8. DiskOK' /\ LifeOK' /\ ChainOK' /\ SegmentOK' /\ CloseOK'
  BY <1>1, <1>3 DEF DiskOK, LifeOK, ChainOK, SegmentOK, CloseOK
<1>9. Alive' /\ Room'
  BY <1>0, <1>1 DEF Alive, Room
<1>10. FileInv'
  BY <1>0, <1>1, FilesQuiet
<1>11. /\ Busy' = Busy \cup {c} /\ c \notin Busy
       /\ sub'[c].event = nextEvent /\ \A d \in Busy : sub'[d] = sub[d]
  BY <1>1, <1>4, <1>5, <1>6 DEF Busy
<1>12. ChannelOK'
  <2>1. ASSUME NEW i \in 1..Len(queue)
        PROVE  caller'[queue[i]] = "queued"
    <3>1. caller[queue[i]] = "queued" /\ queue[i] \in Callers
      BY <1>0, <1>6 DEF EventInv, ChannelOK
    <3> QED
      BY <3>1, <1>1, <1>6
  <2> QED
    BY <2>1, <1>0, <1>1 DEF EventInv, ChannelOK
<1>13. \A n \in Names : \A i, e \in Nat : Holds(n, i, e)' <=> Holds(n, i, e)
  BY <1>1 DEF Holds
<1>14. \A d \in Busy : sub[d].event \in Nat /\ sub[d].event < nextEvent
  BY <1>0, <1>6 DEF Busy, Sub, EventInv, FreshEvents
<1>15. FreshEvents'
  <2>1. \A d \in Busy' : sub'[d].event < nextEvent' /\ sub'[d].event \in Nat
    BY <1>1, <1>4, <1>11, <1>14
  <2>2. ASSUME NEW d \in Busy', NEW f \in Busy', sub'[d].event = sub'[f].event
        PROVE  d = f
    <3>1. CASE d \in Busy /\ f \in Busy
      BY <3>1, <2>2, <1>0, <1>11 DEF EventInv, FreshEvents
    <3>2. CASE d = c /\ f \in Busy
      BY <3>2, <2>2, <1>4, <1>11, <1>14
    <3>3. CASE d \in Busy /\ f = c
      BY <3>3, <2>2, <1>4, <1>11, <1>14
    <3> QED
      BY <3>1, <3>2, <3>3, <1>11
  <2>3. ASSUME NEW d \in Busy', NEW n \in Names, NEW i \in Nat, NEW e \in Nat,
               e = sub'[d].event
        PROVE  ~Holds(n, i, e)'
    <3>1. CASE d \in Busy
      BY <3>1, <2>3, <1>0, <1>11, <1>13 DEF EventInv, FreshEvents
    <3>2. CASE d = c
      <4>1. e = nextEvent
        BY <3>2, <2>3, <1>11
      <4>2. ~Holds(n, i, e)
        BY <4>1, <1>0, <1>4 DEF EventInv, WrittenOnce
      <4> QED
        BY <4>2, <1>13
    <3> QED
      BY <3>1, <3>2, <1>11
  <2>4. ASSUME NEW d \in Busy', NEW n \in Names, NEW i \in Nat
        PROVE  ~Holds(n, i, sub[d].event)'
    BY <2>1, <2>3
  <2> QED
    BY <2>1, <2>2, <2>4 DEF FreshEvents
<1>16. WrittenOnce'
  <2>1. \A n \in Names : \A i, e \in Nat : Holds(n, i, e)' => e < nextEvent'
    BY <1>0, <1>1, <1>4, <1>13 DEF EventInv, WrittenOnce
  <2> QED
    BY <2>1, <1>0, <1>13 DEF EventInv, WrittenOnce
<1>17. AckedSynced'
  BY <1>0, <1>1 DEF EventInv, AckedSynced, Holds
<1> QED
  BY <1>7, <1>8, <1>9, <1>10, <1>12, <1>15, <1>16, <1>17, TypePartsNext DEF IInv, EventInv

LEMMA EmitSendInv == ASSUME NEW c \in Callers PROVE IInv /\ EmitSend(c) => IInv'
<1> SUFFICES ASSUME IInv, EmitSend(c)
             PROVE  IInv'
  OBVIOUS
<1>0. TypeOK /\ Alive /\ Room /\ FileInv /\ EventInv
  BY DEF IInv
<1>1. /\ UNCHANGED <<epochFile, segs, synced, ckpts, wormSegs, wormCkpts>>
      /\ UNCHANGED <<bus, epoch>>
      /\ UNCHANGED <<perEmitterSeq, globalSeq, chainHead>>
      /\ UNCHANGED <<segmentIndex, prevCkptHash, segRecords, segFile, wErr, sealErr>>
      /\ UNCHANGED <<sub, nextEvent, acked, closeResult, loggedHead>>
      /\ bus # "down" /\ caller[c] = "checked" /\ Len(queue) < ChCap
      /\ queue' = Append(queue, c) /\ caller' = [caller EXCEPT ![c] = "queued"]
  BY DEF EmitSend, disk, chain, segment, closing
<1>3. DiskOK /\ LifeOK /\ ChainOK /\ SegmentOK /\ CallOK /\ CloseOK
  BY <1>0, TypeParts
<1>4. /\ caller \in [Callers -> {"idle", "checked", "queued", "panicked"}]
      /\ sub \in [Callers -> Sub] /\ queue \in Seq(Callers)
  BY <1>3 DEF CallOK
<1>5. /\ Len(queue') = Len(queue) + 1 /\ Len(queue) \in Nat
      /\ queue'[Len(queue) + 1] = c /\ \A i \in 1..Len(queue) : queue'[i] = queue[i]
      /\ queue' \in Seq(Callers)
  BY <1>1, <1>4
<1>7. CallOK'
  <2>1. queue' \in Seq(Callers) /\ Len(queue') <= ChCap
    BY <1>1, <1>5, BusAssumption
  <2> QED
    BY <2>1, <1>1, <1>3, <1>4 DEF CallOK
<1>8. DiskOK' /\ LifeOK' /\ ChainOK' /\ SegmentOK' /\ CloseOK'
  BY <1>1, <1>3 DEF DiskOK, LifeOK, ChainOK, SegmentOK, CloseOK
<1>9. Alive' /\ Room'
  BY <1>0, <1>1 DEF Alive, Room
<1>10. FileInv'
  BY <1>0, <1>1, FilesQuiet
<1>11. Busy' = Busy
  BY <1>1, <1>4 DEF Busy
<1>12. ChannelOK'
  <2>1. \A i \in 1..Len(queue) : caller[queue[i]] = "queued" /\ queue[i] \in Callers /\ queue[i] # c
    BY <1>0, <1>1, <1>4 DEF EventInv, ChannelOK
  <2>2. ASSUME NEW i \in 1..Len(queue')
        PROVE  caller'[queue'[i]] = "queued"
    <3>1. CASE i \in 1..Len(queue)
      BY <3>1, <2>1, <1>1, <1>4, <1>5
    <3>2. CASE i = Len(queue) + 1
      BY <3>2, <1>1, <1>4, <1>5
    <3> QED
      BY <3>1, <3>2, <1>5
  <2>3. ASSUME NEW i \in 1..Len(queue'), NEW j \in 1..Len(queue'), queue'[i] = queue'[j]
        PROVE  i = j
    <3>1. \A k, l \in 1..Len(queue) : queue[k] = queue[l] => k = l
      BY <1>0 DEF EventInv, ChannelOK
    <3>2. i \in 1..Len(queue) \/ i = Len(queue) + 1
      BY <1>5
    <3>3. j \in 1..Len(queue) \/ j = Len(queue) + 1
      BY <1>5
    <3> QED
      BY <3>1, <3>2, <3>3, <2>1, <2>3, <1>5
  <2> QED
    BY <2>2, <2>3 DEF ChannelOK
<1>13. FreshEvents' /\ WrittenOnce' /\ AckedSynced'
  BY <1>0, <1>1, <1>11 DEF EventInv, FreshEvents, WrittenOnce, AckedSynced, Holds
<1> QED
  BY <1>7, <1>8, <1>9, <1>10, <1>12, <1>13, TypePartsNext DEF IInv, EventInv

LEMMA EmitSendPanicsInv == ASSUME NEW c \in Callers PROVE IInv /\ EmitSendPanics(c) => IInv'
<1> SUFFICES ASSUME IInv, EmitSendPanics(c)
             PROVE  IInv'
  OBVIOUS
<1>0. TypeOK /\ Alive /\ Room /\ FileInv /\ EventInv
  BY DEF IInv
<1>1. /\ UNCHANGED <<epochFile, segs, synced, ckpts, wormSegs, wormCkpts>>
      /\ UNCHANGED <<nextEvent, acked, closeResult, loggedHead>>
      /\ bus # "down" /\ caller[c] = "checked"
  BY DEF EmitSendPanics, disk, closing
<1>2. DiskOK /\ LifeOK /\ ChainOK /\ SegmentOK /\ CallOK /\ CloseOK
  BY <1>0, TypeParts
<1>3. CASE MemoryGone
  BY <1>1, <1>2, <1>3, EndStep DEF DiskOK, CloseOK
<1>4. CASE ~MemoryGone
  <2>1. /\ caller' = [caller EXCEPT ![c] = "panicked"] /\ UNCHANGED <<bus, queue, epoch, sub>>
        /\ UNCHANGED <<perEmitterSeq, globalSeq, chainHead>>
        /\ UNCHANGED <<segmentIndex, prevCkptHash, segRecords, segFile, wErr, sealErr>>
    BY <1>4 DEF EmitSendPanics, chain, segment
  <2>2. caller \in [Callers -> {"idle", "checked", "queued", "panicked"}] /\ queue \in Seq(Callers)
    BY <1>2 DEF CallOK
  <2>3. CallOK'
    BY <2>1, <2>2, <1>1, <1>2 DEF CallOK
  <2>4. DiskOK' /\ LifeOK' /\ ChainOK' /\ SegmentOK' /\ CloseOK'
    BY <2>1, <1>1, <1>2 DEF DiskOK, LifeOK, ChainOK, SegmentOK, CloseOK
  <2>5. Alive' /\ Room'
    BY <2>1, <1>0, <1>1 DEF Alive, Room
  <2>6. FileInv'
    BY <2>1, <1>0, <1>1, FilesQuiet
  <2>7. Busy' \subseteq Busy
    BY <2>1, <2>2 DEF Busy
  <2>8. ChannelOK'
    <3>1. ASSUME NEW i \in 1..Len(queue)
          PROVE  caller'[queue[i]] = "queued"
      <4>1. caller[queue[i]] = "queued" /\ queue[i] \in Callers
        BY <1>0, <2>2 DEF EventInv, ChannelOK
      <4> QED
        BY <4>1, <2>1, <2>2, <1>1
    <3> QED
      BY <3>1, <2>1, <1>0 DEF EventInv, ChannelOK
  <2>9. FreshEvents' /\ WrittenOnce' /\ AckedSynced'
    BY <2>1, <2>7, <1>0, <1>1 DEF EventInv, FreshEvents, WrittenOnce, AckedSynced, Holds
  <2> QED
    BY <2>3, <2>4, <2>5, <2>6, <2>8, <2>9, TypePartsNext DEF IInv, EventInv
<1> QED
  BY <1>3, <1>4
(* process opens no segment file. *)
LEMMA ProcessOpenFailsInv == IInv /\ ProcessOpenFails => IInv'
<1> SUFFICES ASSUME IInv, ProcessOpenFails
             PROVE  IInv'
  OBVIOUS
<1> DEFINE ok == FALSE
<1>0. TypeOK /\ Alive /\ Room /\ FileInv /\ EventInv
  BY DEF IInv
<1>1. /\ UNCHANGED <<epochFile, segs, synced, ckpts, wormSegs, wormCkpts>>
      /\ UNCHANGED <<perEmitterSeq, globalSeq, chainHead>>
      /\ UNCHANGED <<segmentIndex, prevCkptHash, segRecords, segFile, wErr>>
      /\ WriterReady /\ Reply(ok)
  BY DEF ProcessOpenFails, disk, chain, segment
<1>2. ok \in BOOLEAN /\ ~ok
  OBVIOUS
<1> HIDE DEF ok
<1>3. bus # "down" /\ queue # << >>
  BY <1>1, ReadyFacts
<1>4. DiskOK /\ ChainOK /\ SegmentOK
  BY <1>0, TypeParts
<1>5. DiskOK' /\ ChainOK' /\ SegmentOK'
  BY <1>1, <1>4 DEF DiskOK, ChainOK, SegmentOK
<1>6. CallOK' /\ CloseOK' /\ LifeOK' /\ Alive'
  BY <1>0, <1>1, <1>2, <1>3, ReplyTyped
<1>7. Room'
  BY <1>0, <1>1 DEF Room
<1>8. FileInv'
  BY <1>0, <1>1, FilesQuiet DEF Reply
<1>9. LinesKept /\ NothingNew
  BY <1>1, <1>4, SameFiles DEF DiskOK
<1>10. \A n \in Names : synced'[n] \in Nat /\ synced[n] <= synced'[n]
  BY <1>1, <1>4 DEF DiskOK
<1>11. EventInv'
  BY <1>0, <1>1, <1>2, <1>3, <1>9, <1>10, EventsReply
<1> QED
  BY <1>5, <1>6, <1>7, <1>8, <1>11, TypePartsNext DEF IInv

(* What an open segment file that is kept does not change. *)
LEMMA KeptOpen ==
    ASSUME TypeOK, Room, WriterReady,
           UNCHANGED <<perEmitterSeq, globalSeq, chainHead>>,
           UNCHANGED <<segmentIndex, prevCkptHash, segRecords>>,
           segFile' = IF segFile = "nil" THEN "open" ELSE segFile, wErr' \in BOOLEAN
    PROVE  SegmentOK' /\ ChainOK' /\ Room' /\ Turns
<1>1. ChainOK /\ SegmentOK /\ segmentIndex < MaxSegments
  BY TypeParts, ReadyFacts
<1>2. segFile' # "nil" /\ segFile' \in {"nil", "open", "closed"}
  BY <1>1 DEF SegmentOK
<1>3. SegmentOK' /\ ChainOK'
  BY <1>1, <1>2 DEF SegmentOK, ChainOK
<1>4. Room'
  BY <1>1, <1>2 DEF Room
<1> QED
  BY <1>2, <1>3, <1>4 DEF Turns

LEMMA NothingWritten ==
    ASSUME TypeOK, Alive, FilesPresent, OpenAllowed, bus # "down", NEW lines, lines = << >>
    PROVE  /\ Opened \o lines = Opened
           /\ segFile # "nil" => segs = [segs EXCEPT ![Current] = Opened \o lines]
<1>1. Opened \in Seq(Line) /\ (segFile # "nil" => Opened = segs[Current])
  BY OpenedTyped DEF Opened
<1>2. Opened \o lines = Opened
  BY <1>1
<1>3. segs \in SegFiles
  BY DEF TypeOK
<1> QED
  BY <1>1, <1>2, <1>3 DEF SegFiles

LEMMA ProcessEncodeFailsInv == IInv /\ ProcessEncodeFails => IInv'
<1> SUFFICES ASSUME IInv, ProcessEncodeFails
             PROVE  IInv'
  OBVIOUS
<1> DEFINE ok == FALSE
           lines == << >>
<1>0. TypeOK /\ Alive /\ Room /\ FilesPresent
  BY DEF IInv, FileInv
<1>1. /\ UNCHANGED <<epochFile, synced, ckpts, wormSegs, wormCkpts>>
      /\ UNCHANGED <<perEmitterSeq, globalSeq, chainHead>>
      /\ UNCHANGED <<segmentIndex, prevCkptHash, segRecords, wErr>>
      /\ WriterReady /\ OpenAllowed /\ Reply(ok)
      /\ segs' = [segs EXCEPT ![Current] = Opened]
      /\ segFile' = IF segFile = "nil" THEN "open" ELSE segFile
  BY DEF ProcessEncodeFails, chain
<1>2. ok \in BOOLEAN /\ ~ok /\ lines = << >>
  OBVIOUS
<1> HIDE DEF ok, lines
<1>3. bus # "down"
  BY <1>1, ReadyFacts
<1>4. Writes(lines) /\ Syncs(lines)
  BY <1>0, <1>1, <1>2, <1>3, NothingWritten DEF Writes, Syncs
<1>5. wErr' \in BOOLEAN /\ ckpts' \in CkptFiles /\ wormSegs' \in SegFiles /\ wormCkpts' \in CkptFiles
  BY <1>0, <1>1 DEF TypeOK
<1>6. SegmentOK' /\ ChainOK' /\ Room' /\ Turns
  BY <1>0, <1>1, <1>5, KeptOpen
<1> QED
  BY <1>1, <1>2, <1>4, <1>5, <1>6, WriterStep

LEMMA WriteFailsWrites ==
    ASSUME IInv, ProcessWriteFails
    PROVE  \E lines \in {<< >>, <<Torn>>, <<NextRecord>>} : Writes(lines)
<1>0. TypeOK /\ Alive /\ Room /\ FilesPresent
  BY DEF IInv, FileInv
<1>1. bus # "down" /\ OpenAllowed
  BY ReadyFacts DEF ProcessWriteFails
<1>2. CASE segs' = segs /\ (wErr \/ ~FileUsable)
  <2> DEFINE lines == << >>
  <2>1. lines = << >>
    OBVIOUS
  <2>2. segFile # "nil"
    BY <1>0, <1>2 DEF Room, FileUsable
  <2> HIDE DEF lines
  <2>3. segs' = [segs EXCEPT ![Current] = Opened \o lines]
    BY <1>0, <1>1, <1>2, <2>1, <2>2, NothingWritten
  <2>4. Writes(lines)
    BY <1>1, <2>1, <2>3 DEF Writes
  <2> QED
    BY <2>1, <2>4
<1>3. CASE \E lines \in {<< >>, <<Torn>>, <<NextRecord>>} :
              segs' = [segs EXCEPT ![Current] = Opened \o lines]
  BY <1>1, <1>3 DEF Writes
<1> QED
  BY <1>2, <1>3 DEF ProcessWriteFails

LEMMA ProcessWriteFailsInv == IInv /\ ProcessWriteFails => IInv'
<1> SUFFICES ASSUME IInv, ProcessWriteFails
             PROVE  IInv'
  OBVIOUS
<1> DEFINE ok == FALSE
<1>0. TypeOK /\ Alive /\ Room /\ FilesPresent
  BY DEF IInv, FileInv
<1>1. /\ UNCHANGED <<epochFile, synced, ckpts, wormSegs, wormCkpts>>
      /\ UNCHANGED <<perEmitterSeq, globalSeq, chainHead>>
      /\ UNCHANGED <<segmentIndex, prevCkptHash, segRecords>> /\ wErr' = TRUE
      /\ WriterReady /\ Reply(ok)
      /\ segFile' = IF segFile = "nil" THEN "open" ELSE segFile
  BY DEF ProcessWriteFails, chain
<1>2. ok \in BOOLEAN /\ ~ok
  OBVIOUS
<1> HIDE DEF ok
<1>3. PICK lines \in {<< >>, <<Torn>>, <<NextRecord>>} : Writes(lines)
  BY WriteFailsWrites
<1>4. Syncs(lines)
  BY <1>1 DEF Syncs
<1>5. ckpts' \in CkptFiles /\ wormSegs' \in SegFiles /\ wormCkpts' \in CkptFiles
  BY <1>0, <1>1 DEF TypeOK
<1>6. wErr' \in BOOLEAN
  BY <1>1
<1>7. SegmentOK' /\ ChainOK' /\ Room' /\ Turns
  BY <1>0, <1>1, <1>6, KeptOpen
<1> QED
  BY <1>1, <1>2, <1>3, <1>4, <1>5, <1>7, WriterStep

(* The line of the record at hand is written whole. *)
LEMMA WholeLine ==
    ASSUME TypeOK, Alive, FilesPresent, WriterReady, OpenAllowed,
           NEW lines, lines = <<NextRecord>>
    PROVE  /\ Append(Opened, NextRecord) = Opened \o lines
           /\ Opened \o lines \in Seq(Line)
           /\ Len(Opened) + 1 = Len(Opened \o lines)
           /\ segs' = [segs EXCEPT ![Current] = Append(Opened, NextRecord)] => Writes(lines)
<1>1. bus # "down" /\ queue # << >>
  BY ReadyFacts
<1>2. Opened \in Seq(Line) /\ NextRecord \in Line
  BY <1>1, OpenedTyped, NextTyped DEF Line
<1>3. /\ Append(Opened, NextRecord) = Opened \o lines
      /\ Len(Opened) + 1 = Len(Opened \o lines)
  BY <1>2, AppendIsWrite
<1>4. Opened \o lines \in Seq(Line)
  BY <1>2, OneLine
<1> QED
  BY <1>1, <1>3, <1>4 DEF Writes

LEMMA ProcessSyncFailsInv == IInv /\ ProcessSyncFails => IInv'
<1> SUFFICES ASSUME IInv, ProcessSyncFails
             PROVE  IInv'
  OBVIOUS
<1> DEFINE ok == FALSE
           lines == <<NextRecord>>
<1>0. TypeOK /\ Alive /\ Room /\ FilesPresent
  BY DEF IInv, FileInv
<1>1. /\ UNCHANGED <<epochFile, synced, ckpts, wormSegs, wormCkpts>>
      /\ UNCHANGED <<perEmitterSeq, globalSeq, chainHead>>
      /\ UNCHANGED <<segmentIndex, prevCkptHash, segRecords, wErr>>
      /\ WriterReady /\ OpenAllowed /\ Reply(ok)
      /\ segs' = [segs EXCEPT ![Current] = Append(Opened, NextRecord)]
      /\ segFile' = IF segFile = "nil" THEN "open" ELSE segFile
  BY DEF ProcessSyncFails, chain
<1>2. ok \in BOOLEAN /\ ~ok /\ lines = <<NextRecord>>
  OBVIOUS
<1> HIDE DEF ok, lines
<1>4. Writes(lines) /\ Syncs(lines)
  BY <1>0, <1>1, <1>2, WholeLine DEF Syncs
<1>5. wErr' \in BOOLEAN /\ ckpts' \in CkptFiles /\ wormSegs' \in SegFiles /\ wormCkpts' \in CkptFiles
  BY <1>0, <1>1 DEF TypeOK
<1>6. SegmentOK' /\ ChainOK' /\ Room' /\ Turns
  BY <1>0, <1>1, <1>5, KeptOpen
<1> QED
  BY <1>1, <1>2, <1>4, <1>5, <1>6, WriterStep

(* Commit: the record is on disk, and then in memory. *)
LEMMA CommitStep ==
    ASSUME TypeOK, Alive, FilesPresent, WriterReady, OpenAllowed, Commit,
           NEW lines, lines = <<NextRecord>>
    PROVE  /\ Writes(lines) /\ Syncs(lines) /\ ChainOK'
           /\ synced' = [synced EXCEPT ![Current] = Len(Opened \o lines)]
           /\ Append(segRecords, NextRecord) \in Seq(Record)
           /\ Append(segRecords, NextRecord) # << >>
           /\ Len(Append(segRecords, NextRecord)) = Len(segRecords) + 1
           /\ Append(Opened, NextRecord) = Opened \o lines
           /\ Opened \o lines \in Seq(Line)
<1>1. /\ segs' = [segs EXCEPT ![Current] = Append(Opened, NextRecord)]
      /\ synced' = [synced EXCEPT ![Current] = Len(Append(Opened, NextRecord))]
      /\ perEmitterSeq' = [perEmitterSeq EXCEPT ![NextRecord.emitter] = NextRecord.seq]
      /\ globalSeq' = NextRecord.gseq /\ chainHead' = NextRecord.hash
  BY DEF Commit
<1>2. /\ NextRecord \in Record /\ NextRecord.emitter \in Emitters /\ NextRecord.seq \in Nat
      /\ NextRecord.gseq \in Nat /\ NextRecord.hash \in Seq(Stamp)
  BY NextTyped, ReadyFacts
<1>3. perEmitterSeq \in [Emitters -> Nat] /\ segRecords \in Seq(Record)
  BY DEF TypeOK
<1>4. ChainOK'
  BY <1>1, <1>2, <1>3 DEF ChainOK
<1>5. /\ Append(segRecords, NextRecord) \in Seq(Record)
      /\ Append(segRecords, NextRecord) # << >>
      /\ Len(Append(segRecords, NextRecord)) = Len(segRecords) + 1
  BY <1>2, <1>3
<1>6. Append(Opened, NextRecord) = Opened \o lines /\ Writes(lines) /\ Opened \o lines \in Seq(Line)
  BY <1>1, WholeLine
<1> QED
  BY <1>1, <1>4, <1>5, <1>6 DEF Syncs

LEMMA ProcessRecordInv == IInv /\ ProcessRecord => IInv'
<1> SUFFICES ASSUME IInv, ProcessRecord
             PROVE  IInv'
  OBVIOUS
<1> DEFINE ok == TRUE
           lines == <<NextRecord>>
<1>0. TypeOK /\ Alive /\ Room /\ FilesPresent
  BY DEF IInv, FileInv
<1>1. /\ UNCHANGED <<epochFile, ckpts, wormSegs, wormCkpts>>
      /\ UNCHANGED <<segmentIndex, prevCkptHash, wErr>>
      /\ WriterReady /\ OpenAllowed /\ Commit /\ Reply(ok) /\ ~wErr
      /\ Len(segRecords) + 1 < SegmentSize
      /\ segRecords' = Append(segRecords, NextRecord) /\ segFile' = "open"
  BY DEF ProcessRecord
<1>2. ok \in BOOLEAN /\ lines = <<NextRecord>>
  OBVIOUS
<1> HIDE DEF ok, lines
<1>3. /\ Writes(lines) /\ Syncs(lines) /\ ChainOK'
      /\ synced' = [synced EXCEPT ![Current] = Len(Opened \o lines)]
      /\ segRecords' \in Seq(Record) /\ Len(segRecords') = Len(segRecords) + 1
  BY <1>0, <1>1, <1>2, CommitStep
<1>4. ckpts' \in CkptFiles /\ wormSegs' \in SegFiles /\ wormCkpts' \in CkptFiles /\ SegmentOK
  BY <1>0, <1>1, TypeParts DEF DiskOK
<1>5. Len(segRecords) \in Nat /\ segmentIndex < MaxSegments
  BY <1>1, <1>4, ReadyFacts DEF SegmentOK
<1>6. SegmentOK'
  BY <1>1, <1>3, <1>4, <1>5, BusAssumption DEF SegmentOK
<1>7. Room' /\ Turns
  BY <1>1, <1>3, <1>5 DEF Room, Turns
<1> QED
  BY <1>1, <1>2, <1>3, <1>4, <1>6, <1>7, WriterStep

LEMMA ProcessRecordAndSealInv == IInv /\ ProcessRecordAndSeal => IInv'
<1> SUFFICES ASSUME IInv, ProcessRecordAndSeal
             PROVE  IInv'
  OBVIOUS
<1> DEFINE lines == <<NextRecord>>
           recs == Append(segRecords, NextRecord)
           all == Append(Opened, NextRecord)
<1>0. TypeOK /\ Alive /\ Room /\ FilesPresent
  BY DEF IInv, FileInv
<1>1. /\ epochFile' = epochFile
      /\ WriterReady /\ OpenAllowed /\ Commit /\ ~wErr /\ segFile # "closed"
  BY DEF ProcessRecordAndSeal, FileUsable
<1>2. PICK ok \in BOOLEAN : SealSegment(recs, all, ok) /\ Reply(ok)
  BY DEF ProcessRecordAndSeal
<1>3. lines = <<NextRecord>>
  OBVIOUS
<1> HIDE DEF lines
<1>4. /\ Writes(lines) /\ Syncs(lines) /\ ChainOK'
      /\ synced' = [synced EXCEPT ![Current] = Len(Opened \o lines)]
      /\ recs \in Seq(Record) /\ recs # << >> /\ Len(recs) = Len(segRecords) + 1
      /\ all = Opened \o lines /\ Opened \o lines \in Seq(Line)
  BY <1>0, <1>1, <1>3, CommitStep
<1> HIDE DEF recs, all
<1>5. bus # "down" /\ segmentIndex < MaxSegments
  BY <1>1, ReadyFacts
<1>6. Len(recs) <= SegmentSize
  BY <1>0, <1>1, <1>4, BusAssumption DEF Room, TypeOK
<1>7. /\ ckpts' \in CkptFiles /\ wormSegs' \in SegFiles /\ wormCkpts' \in CkptFiles
      /\ SegmentOK' /\ wErr' = wErr
      /\ ok => /\ segFile' = "nil" /\ segRecords' = << >> /\ segmentIndex' = segmentIndex + 1
      /\ ~ok => /\ segRecords' = recs /\ segmentIndex' = segmentIndex
                /\ segFile' = "closed" \/ (wErr /\ segFile' = segFile)
  <2>1. all \in Seq(Line)
    BY <1>4
  <2> QED
    BY <1>0, <1>2, <1>4, <1>5, <1>6, <2>1, SealStep
<1>8. Turns
  BY <1>1, <1>7 DEF Turns
<1>9. Room'
  BY <1>1, <1>5, <1>7, BusAssumption DEF Room
<1> QED
  BY <1>1, <1>2, <1>3, <1>4, <1>7, <1>8, <1>9, WriterStep

-----------------------------------------------------------------------------
(* Close, and the end of the process. *)

LEMMA CloseStepInv == IInv /\ (CloseFlag \/ CloseChannel) => IInv'
<1> SUFFICES ASSUME IInv, CloseFlag \/ CloseChannel
             PROVE  IInv'
  OBVIOUS
<1>0. TypeOK /\ Alive /\ Room /\ FileInv /\ EventInv
  BY DEF IInv
<1>1. /\ UNCHANGED <<epochFile, segs, synced, ckpts, wormSegs, wormCkpts>>
      /\ UNCHANGED <<queue, epoch, sealErr>>
      /\ UNCHANGED <<perEmitterSeq, globalSeq, chainHead>>
      /\ UNCHANGED <<segmentIndex, prevCkptHash, segRecords, segFile, wErr>>
      /\ UNCHANGED <<caller, sub, nextEvent, acked, closeResult, loggedHead>>
      /\ bus # "down" /\ bus' \in {"flagged", "closed"}
  BY DEF CloseFlag, CloseChannel, disk, chain, segment, callers, closing
<1>2. DiskOK /\ LifeOK /\ ChainOK /\ SegmentOK /\ CallOK /\ CloseOK
  BY <1>0, TypeParts
<1>3. DiskOK' /\ ChainOK' /\ SegmentOK' /\ CallOK' /\ CloseOK'
  BY <1>1, <1>2 DEF DiskOK, ChainOK, SegmentOK, CallOK, CloseOK
<1>4. LifeOK' /\ Alive' /\ Room'
  BY <1>0, <1>1, <1>2 DEF LifeOK, Alive, Room
<1>5. FileInv'
  BY <1>0, <1>1, FilesQuiet
<1>6. EventInv'
  BY <1>0, <1>1, EventsQuiet
<1> QED
  BY <1>3, <1>4, <1>5, <1>6, TypePartsNext DEF IInv

LEMMA FinalSealInv == IInv /\ FinalSeal => IInv'
<1> SUFFICES ASSUME IInv, FinalSeal
             PROVE  IInv'
  OBVIOUS
<1>0. TypeOK /\ Alive /\ Room /\ FileInv /\ FilesPresent /\ SyncedLines /\ EventInv
  BY DEF IInv, FileInv
<1>1. /\ UNCHANGED <<epochFile, segs, synced>> /\ UNCHANGED <<queue, epoch>>
      /\ UNCHANGED <<perEmitterSeq, globalSeq, chainHead>>
      /\ UNCHANGED <<caller, sub, nextEvent, acked, closeResult, loggedHead>>
      /\ bus = "closed" /\ bus' = "done"
  BY DEF FinalSeal, chain, callers, closing
<1>2. DiskOK /\ LifeOK /\ ChainOK /\ SegmentOK /\ CallOK /\ CloseOK
  BY <1>0, TypeParts
<1>3. ChainOK' /\ CallOK' /\ LifeOK' /\ Alive'
  BY <1>0, <1>1, <1>2 DEF ChainOK, CallOK, LifeOK, Alive
<1>4. EventInv'
  BY <1>0, <1>1, EventsQuiet
<1>5. CASE segRecords = << >>
  <2>1. UNCHANGED <<ckpts, wormSegs, wormCkpts, segmentIndex, prevCkptHash, segRecords, segFile,
                    wErr, sealErr>>
    BY <1>5 DEF FinalSeal, segment
  <2>2. DiskOK' /\ SegmentOK' /\ CloseOK' /\ Room'
    BY <2>1, <1>0, <1>1, <1>2 DEF DiskOK, SegmentOK, CloseOK, Room
  <2>3. FileInv'
    BY <2>1, <1>0, <1>1, FilesQuiet
  <2> QED
    BY <2>2, <2>3, <1>3, <1>4, TypePartsNext DEF IInv
<1>6. CASE segRecords # << >>
  <2>1. PICK ok \in BOOLEAN : SealSegment(segRecords, segs[Current], ok) /\ sealErr' = ~ok
    BY <1>6 DEF FinalSeal
  <2>2. segFile # "nil" /\ segmentIndex < MaxSegments
    BY <1>0, <1>6 DEF Room
  <2>3. Current \in Names /\ segs[Current] # NoFile
    BY <1>0, <1>1, <2>2, CurrentIsName DEF FilesPresent
  <2>4. segs[Current] \in Seq(Line)
    BY <1>2, <2>3, SegFileTyped DEF DiskOK
  <2>5. /\ ckpts' \in CkptFiles /\ wormSegs' \in SegFiles /\ wormCkpts' \in CkptFiles
        /\ SegmentOK' /\ wErr' = wErr
        /\ ok => /\ ~wErr /\ segFile' = "nil" /\ segRecords' = << >>
                 /\ segmentIndex' = segmentIndex + 1
        /\ ~ok => /\ segRecords' = segRecords /\ segmentIndex' = segmentIndex
                  /\ segFile' = "closed" \/ (wErr /\ segFile' = segFile)
    <3> DEFINE recs == segRecords
               lines == segs[Current]
    <3>1. recs \in Seq(Record) /\ Len(recs) <= SegmentSize /\ lines \in Seq(Line) /\ recs # << >>
      BY <1>2, <1>6, <2>4 DEF SegmentOK
    <3>2. SealSegment(recs, lines, ok)
      BY <2>1
    <3>3. recs = segRecords
      OBVIOUS
    <3> HIDE DEF recs, lines
    <3> QED
      BY <1>0, <1>1, <2>2, <3>1, <3>2, <3>3, SealStep
  <2>6. Room' /\ Turns
    BY <1>0, <2>2, <2>5, BusAssumption DEF Room, Turns
  <2>7. DiskOK' /\ CloseOK'
    <3>1. sealErr' \in BOOLEAN
      BY <2>1
    <3> QED
      BY <3>1, <1>1, <1>2, <2>5 DEF DiskOK, CloseOK
  <2>8. FilesPresent'
    <3>1. CASE segFile' # "nil" /\ segmentIndex' = segmentIndex
      BY <3>1, <1>0, <1>1, <2>2 DEF FilesPresent, Current
    <3>2. CASE segFile' = "nil" /\ segmentIndex' = segmentIndex + 1
      <4>1. segmentIndex \in Nat
        BY <1>2 DEF SegmentOK
      <4>2. \A n \in Names : n[2] \in Nat
        BY DEF Names
      <4> QED
        BY <3>2, <4>1, <4>2, <1>0, <1>1, <2>2 DEF FilesPresent
    <3> QED
      BY <3>1, <3>2, <2>6 DEF Turns
  <2>9. SyncedLines'
    BY <1>0, <1>1 DEF SyncedLines
  <2> QED
    BY <1>3, <1>4, <2>5, <2>6, <2>7, <2>8, <2>9, TypePartsNext DEF IInv, FileInv
<1> QED
  BY <1>5, <1>6

LEMMA CloseReturnsInv == IInv /\ CloseReturns => IInv'
<1> SUFFICES ASSUME IInv, CloseReturns
             PROVE  IInv'
  OBVIOUS
<1>0. DiskOK /\ SegmentOK
  BY TypeParts DEF IInv
<1>1. /\ UNCHANGED <<epochFile, segs, synced, ckpts, wormSegs, wormCkpts>> /\ MemoryGone
      /\ UNCHANGED <<nextEvent, acked>> /\ closeResult' \in {"none", "nil", "error"}
      /\ loggedHead' = prevCkptHash
  BY DEF CloseReturns, disk
<1> QED
  BY <1>0, <1>1, EndStep DEF DiskOK, SegmentOK

LEMMA CrashInv == IInv /\ Crash => IInv'
<1> SUFFICES ASSUME IInv, Crash
             PROVE  IInv'
  OBVIOUS
<1>0. DiskOK /\ CloseOK
  BY TypeParts DEF IInv
<1>1. /\ UNCHANGED <<epochFile, segs, synced, ckpts, wormSegs, wormCkpts>> /\ MemoryGone
      /\ UNCHANGED <<nextEvent, acked, closeResult, loggedHead>>
  BY DEF Crash, disk, closing
<1> QED
  BY <1>0, <1>1, EndStep DEF DiskOK, CloseOK

LEMMA CrashWritingInv == IInv /\ CrashWriting => IInv'
<1> SUFFICES ASSUME IInv, CrashWriting
             PROVE  IInv'
  OBVIOUS
<1>0. DiskOK /\ CloseOK
  BY TypeParts DEF IInv
<1>1. /\ UNCHANGED <<epochFile, synced, ckpts, wormSegs, wormCkpts>> /\ MemoryGone
      /\ UNCHANGED <<nextEvent, acked, closing>> /\ WriterReady /\ OpenAllowed
  BY DEF CrashWriting
<1>2. PICK lines \in {<< >>, <<Torn>>, <<NextRecord>>} :
              segs' = [segs EXCEPT ![Current] = Opened \o lines]
  BY DEF CrashWriting
<1>3. Writes(lines) /\ Syncs(lines)
  BY <1>1, <1>2, ReadyFacts DEF Writes, Syncs
<1>4. ckpts' \in CkptFiles /\ wormSegs' \in SegFiles /\ wormCkpts' \in CkptFiles
  BY <1>0, <1>1 DEF DiskOK
<1> QED
  BY <1>1, <1>3, <1>4, CrashStep

(* What a crash inside sealSegment leaves. *)
LEMMA CrashSealingStep ==
    ASSUME TypeOK, Alive, bus # "down", NEW recs \in Seq(Record), recs # << >>,
           NEW lines \in Seq(Line), segs'[Current] = lines, CrashSealing(recs)
    PROVE  ckpts' \in CkptFiles /\ wormSegs' \in SegFiles /\ wormCkpts' \in CkptFiles /\ MemoryGone
<1> DEFINE c == NewCheckpoint(Current, recs, prevCkptHash)
<1>1. ckpts \in CkptFiles /\ wormSegs \in SegFiles /\ wormCkpts \in CkptFiles /\ SegmentOK
  BY TypeParts DEF DiskOK
<1>2. Current \in Names
  BY CurrentIsName
<1>3. c \in Checkpoint
  BY <1>1, <1>2, CheckpointTyped DEF SegmentOK
<1>4. /\ \E content \in {NoFile, Torn, c} : ckpts' = [ckpts EXCEPT ![Current] = content]
      /\ wormSegs' = wormSegs \/ wormSegs' = [wormSegs EXCEPT ![Current] = lines]
      /\ wormCkpts' = wormCkpts \/ wormCkpts' = [wormCkpts EXCEPT ![Current] = c]
      /\ MemoryGone
  BY DEF CrashSealing
<1> HIDE DEF c
<1>5. ckpts' \in CkptFiles
  <2>1. PICK content \in {NoFile, Torn, c} : ckpts' = [ckpts EXCEPT ![Current] = content]
    BY <1>4
  <2> QED
    BY <2>1, <1>1, <1>2, <1>3, CkptPut
<1>6. wormSegs' \in SegFiles
  BY <1>1, <1>2, <1>4, SegPut
<1>7. wormCkpts' \in CkptFiles
  BY <1>1, <1>2, <1>3, <1>4, CkptPut
<1> QED
  BY <1>4, <1>5, <1>6, <1>7

LEMMA CrashInlineSealInv == IInv /\ CrashInlineSeal => IInv'
<1> SUFFICES ASSUME IInv, CrashInlineSeal
             PROVE  IInv'
  OBVIOUS
<1> DEFINE lines == <<NextRecord>>
           recs == Append(segRecords, NextRecord)
<1>0. TypeOK /\ Alive /\ Room /\ FilesPresent
  BY DEF IInv, FileInv
<1>1. /\ UNCHANGED <<epochFile, nextEvent, acked, closing>> /\ WriterReady /\ OpenAllowed
      /\ segs' = [segs EXCEPT ![Current] = Append(Opened, NextRecord)]
      /\ synced' = [synced EXCEPT ![Current] = Len(Opened) + 1]
      /\ CrashSealing(recs)
  BY DEF CrashInlineSeal
<1>2. lines = <<NextRecord>>
  OBVIOUS
<1> HIDE DEF lines
<1>3. Writes(lines) /\ Opened \o lines \in Seq(Line) /\ Len(Opened) + 1 = Len(Opened \o lines)
  BY <1>0, <1>1, <1>2, WholeLine
<1>4. Syncs(lines)
  BY <1>1, <1>3 DEF Syncs
<1>5. bus # "down" /\ queue # << >>
  BY <1>1, ReadyFacts
<1>6. recs \in Seq(Record) /\ recs # << >>
  <2>1. NextRecord \in Record /\ segRecords \in Seq(Record)
    BY <1>0, <1>5, NextTyped DEF TypeOK
  <2>2. recs \in Seq(Record) /\ Len(recs) = Len(segRecords) + 1 /\ Len(segRecords) \in Nat
    BY <2>1
  <2> HIDE DEF recs
  <2> QED
    BY <2>2
<1> HIDE DEF recs
<1>7. segs'[Current] = Opened \o lines
  BY <1>0, <1>2, <1>3, <1>5, WriteStep
<1>8. ckpts' \in CkptFiles /\ wormSegs' \in SegFiles /\ wormCkpts' \in CkptFiles /\ MemoryGone
  <2> DEFINE all == Opened \o lines
  <2>1. all \in Seq(Line) /\ segs'[Current] = all
    BY <1>3, <1>7
  <2> HIDE DEF all
  <2> QED
    BY <1>0, <1>1, <1>5, <1>6, <2>1, CrashSealingStep
<1> QED
  BY <1>1, <1>3, <1>4, <1>8, CrashStep

LEMMA CrashFinalSealInv == IInv /\ CrashFinalSeal => IInv'
<1> SUFFICES ASSUME IInv, CrashFinalSeal
             PROVE  IInv'
  OBVIOUS
<1> DEFINE recs == segRecords
           lines == segs[Current]
<1>0. TypeOK /\ Alive /\ Room /\ FilesPresent
  BY DEF IInv, FileInv
<1>1. /\ UNCHANGED <<epochFile, nextEvent, acked, closeResult, loggedHead>>
      /\ UNCHANGED <<segs, synced>> /\ bus # "down"
      /\ recs # << >> /\ CrashSealing(recs)
  BY DEF CrashFinalSeal, closing
<1>2. segFile # "nil"
  BY <1>0, <1>1 DEF Room
<1>3. Current \in Names /\ segs[Current] # NoFile /\ segs \in SegFiles /\ recs \in Seq(Record)
  BY <1>0, <1>1, <1>2, CurrentIsName DEF FilesPresent, TypeOK
<1>4. lines \in Seq(Line) /\ segs'[Current] = lines
  BY <1>1, <1>3, SegFileTyped
<1> HIDE DEF recs, lines
<1>5. ckpts' \in CkptFiles /\ wormSegs' \in SegFiles /\ wormCkpts' \in CkptFiles /\ MemoryGone
  BY <1>0, <1>1, <1>3, <1>4, CrashSealingStep
<1>6. closeResult \in {"none", "nil", "error"} /\ loggedHead \in Seq(Link)
  BY <1>0 DEF TypeOK
<1> QED
  BY <1>1, <1>5, <1>6, EndStep

LEMMA PowerLossInv == IInv /\ PowerLoss => IInv'
<1> SUFFICES ASSUME IInv, PowerLoss
             PROVE  IInv'
  OBVIOUS
<1>0. DiskOK /\ CloseOK
  BY TypeParts DEF IInv
<1>1. /\ UNCHANGED <<epochFile, synced, nextEvent, acked, closeResult, loggedHead>>
      /\ UNCHANGED <<wormSegs, wormCkpts>> /\ MemoryGone /\ bus # "down"
      /\ \/ segs' = segs
         \/ /\ segFile # "nil"
            /\ segs' = [segs EXCEPT ![Current] = SubSeq(segs[Current], 1, synced[Current])]
  BY DEF PowerLoss, closing
<1>2. ckpts' \in CkptFiles
  <2>1. PICK content \in {NoFile, Torn} :
          \E lost \in SUBSET {n \in Present(ckpts) : n[1] = epoch} :
             ckpts' = [n \in Names |-> IF n \in lost THEN content ELSE ckpts[n]]
    BY DEF PowerLoss
  <2>2. PICK lost : ckpts' = [n \in Names |-> IF n \in lost THEN content ELSE ckpts[n]]
    BY <2>1
  <2> QED
    BY <2>2, <1>0 DEF CkptFiles, DiskOK
<1>3. wormSegs' \in SegFiles /\ wormCkpts' \in CkptFiles
  BY <1>0, <1>1 DEF DiskOK
<1> QED
  BY <1>0, <1>1, <1>2, <1>3, EndStep DEF CloseOK
-----------------------------------------------------------------------------
(* Every step. *)

LEMMA StutterInv == IInv /\ UNCHANGED vars => IInv'
<1> SUFFICES ASSUME IInv, UNCHANGED vars
             PROVE  IInv'
  OBVIOUS
<1>0. TypeOK /\ Alive /\ Room /\ FileInv /\ EventInv
  BY DEF IInv
<1>1. /\ UNCHANGED <<epochFile, segs, synced, ckpts, wormSegs, wormCkpts>>
      /\ UNCHANGED <<bus, queue, epoch, sealErr>>
      /\ UNCHANGED <<perEmitterSeq, globalSeq, chainHead>>
      /\ UNCHANGED <<segmentIndex, prevCkptHash, segRecords, segFile, wErr>>
      /\ UNCHANGED <<caller, sub, nextEvent, acked, closeResult, loggedHead>>
  BY DEF vars, disk, chain, segment, callers, closing
<1>2. DiskOK /\ LifeOK /\ ChainOK /\ SegmentOK /\ CallOK /\ CloseOK
  BY <1>0, TypeParts
<1>3. DiskOK' /\ LifeOK' /\ ChainOK' /\ SegmentOK' /\ CallOK' /\ CloseOK'
  BY <1>1, <1>2 DEF DiskOK, LifeOK, ChainOK, SegmentOK, CallOK, CloseOK
<1>4. Alive' /\ Room'
  BY <1>0, <1>1 DEF Alive, Room
<1>5. FileInv'
  BY <1>0, <1>1, FilesQuiet
<1>6. EventInv'
  BY <1>0, <1>1, EventsQuiet
<1> QED
  BY <1>3, <1>4, <1>5, <1>6, TypePartsNext DEF IInv

LEMMA NextInv == IInv /\ [Next]_vars => IInv'
<1> SUFFICES ASSUME IInv, [Next]_vars
             PROVE  IInv'
  OBVIOUS
<1>1. CASE NewBus \/ NewBusFails
  BY <1>1, NewBusInv, NewBusFailsInv
<1>2. CASE \E c \in Callers : EmitCheck(c) \/ EmitSend(c) \/ EmitSendPanics(c)
  BY <1>2, EmitCheckInv, EmitSendInv, EmitSendPanicsInv
<1>3. CASE Process
  BY <1>3, ProcessOpenFailsInv, ProcessEncodeFailsInv, ProcessWriteFailsInv,
     ProcessSyncFailsInv, ProcessRecordInv, ProcessRecordAndSealInv DEF Process
<1>4. CASE CloseFlag \/ CloseChannel \/ FinalSeal \/ CloseReturns
  BY <1>4, CloseStepInv, FinalSealInv, CloseReturnsInv
<1>5. CASE Crash \/ CrashWriting \/ CrashInlineSeal \/ CrashFinalSeal \/ PowerLoss
  BY <1>5, CrashInv, CrashWritingInv, CrashInlineSealInv, CrashFinalSealInv, PowerLossInv
<1>6. CASE UNCHANGED vars
  BY <1>6, StutterInv
<1> QED
  BY <1>1, <1>2, <1>3, <1>4, <1>5, <1>6 DEF Next

(* The inductive invariant holds throughout. *)
THEOREM Invariance == Spec => []IInv
<1>1. Init => IInv
  BY InitInv
<1>2. IInv /\ [Next]_vars => IInv'
  BY NextInv
<1> QED
  BY <1>1, <1>2, PTL DEF Spec

(* Every variable of the bus, and every file it leaves, has its type; the     *)
(* channel and the segment in memory keep to their limits.                    *)
THEOREM TypeCorrect == Spec => []TypeOK
<1>1. IInv => TypeOK
  BY DEF IInv
<1> QED
  BY <1>1, Invariance, PTL

-----------------------------------------------------------------------------
(* An acknowledged event is in the bundle exactly once. *)

LEMMA OnePlace ==
    ASSUME IInv, NEW e \in acked
    PROVE  Cardinality(PlacesOf(e)) = 1
<1>1. segs \in SegFiles /\ DOMAIN segs = Names /\ e \in Nat /\ synced \in [Names -> Nat]
  BY DEF IInv, TypeOK, SegFiles
<1>2. PICK n \in Names, i \in Nat : Holds(n, i, e)
  BY <1>1 DEF IInv, EventInv, AckedSynced
<1>3. \A m \in Names : \A j \in Nat :
          <<m, j>> \in Places(segs) <=> segs[m] # NoFile /\ j \in 1..Len(segs[m])
  <2> SUFFICES ASSUME NEW m \in Names, NEW j \in Nat
               PROVE  <<m, j>> \in Places(segs) <=> segs[m] # NoFile /\ j \in 1..Len(segs[m])
    OBVIOUS
  <2>1. segs[m] # NoFile => DOMAIN segs[m] = 1..Len(segs[m])
    BY <1>1, SegFileTyped
  <2>2. m \in Present(segs) <=> segs[m] # NoFile
    BY <1>1 DEF Present
  <2>3. <<m, j>> \in Places(segs) <=> m \in Present(segs) /\ j \in DOMAIN segs[m]
    BY DEF Places
  <2> QED
    BY <2>1, <2>2, <2>3
<1>4. <<n, i>> \in PlacesOf(e)
  BY <1>2, <1>3 DEF PlacesOf, At, Holds
<1>5. ASSUME NEW p \in PlacesOf(e)
      PROVE  p = <<n, i>>
  <2>1. p \in Places(segs) /\ At(segs, p) # Torn /\ At(segs, p).event = e
    BY DEF PlacesOf
  <2>2. PICK m \in Present(segs) : p \in {<<m, j>> : j \in DOMAIN segs[m]}
    BY <2>1 DEF Places
  <2>3. PICK j \in DOMAIN segs[m] : p = <<m, j>>
    BY <2>2
  <2>4. m \in Names /\ segs[m] # NoFile
    BY <1>1 DEF Present
  <2>5. j \in 1..Len(segs[m]) /\ Len(segs[m]) \in Nat
    BY <1>1, <2>4, SegFileTyped
  <2>6. j \in Nat /\ Holds(m, j, e)
    BY <2>1, <2>3, <2>4, <2>5 DEF Holds, At
  <2>7. m = n /\ j = i
    BY <1>1, <1>2, <2>4, <2>6 DEF IInv, EventInv, WrittenOnce
  <2> QED
    BY <2>3, <2>7
<1>6. PlacesOf(e) = {<<n, i>>}
  BY <1>4, <1>5
<1> QED
  BY <1>6, FS_Singleton

(* process answers nil only after the line is synced; no restart, no failure  *)
(* path, no crash and no power loss removes or repeats a synced line.         *)
THEOREM EventsAreDurable == Spec => []AckedIsDurable
<1>1. IInv => AckedIsDurable
  BY OnePlace DEF AckedIsDurable
<1> QED
  BY <1>1, Invariance, PTL

-----------------------------------------------------------------------------
(* Segment files only grow. *)

(* What a step may do to the segment files. *)
FilesStep == FilesGrow \/ ("power" \in Faults /\ FilesCut)
LinesStep == NothingNew \/ (OneNew /\ queue # << >>)

LEMMA WritesGrow ==
    ASSUME IInv, WriterReady, NEW lines, Writes(lines)
    PROVE  FilesGrow /\ LinesStep
BY WriteStep, ReadyFacts DEF IInv, FileInv, LinesStep

(* A step adds the record at hand to the files, or cuts what was not synced. *)
LEMMA GrowStep ==
    ASSUME IInv, [Next]_vars
    PROVE  FilesStep /\ LinesStep
<1>0. TypeOK /\ Alive /\ FilesPresent /\ SyncedLines /\ segs \in SegFiles
  BY DEF IInv, FileInv, TypeOK
<1>1. CASE segs' = segs
  BY <1>0, <1>1, SameFiles DEF FilesStep, LinesStep
<1>2. CASE ProcessEncodeFails
  <2> DEFINE lines == << >>
  <2>1. lines = << >> /\ bus # "down" /\ WriterReady /\ OpenAllowed
    BY <1>2, ReadyFacts DEF ProcessEncodeFails
  <2> HIDE DEF lines
  <2>2. Writes(lines)
    BY <1>0, <1>2, <2>1, NothingWritten DEF Writes, ProcessEncodeFails
  <2> QED
    BY <2>1, <2>2, WritesGrow DEF FilesStep
<1>3. CASE ProcessWriteFails
  <2>1. PICK lines \in {<< >>, <<Torn>>, <<NextRecord>>} : Writes(lines)
    BY <1>3, WriteFailsWrites
  <2>2. WriterReady
    BY <1>3 DEF ProcessWriteFails
  <2> QED
    BY <2>1, <2>2, WritesGrow DEF FilesStep
<1>4. CASE ProcessSyncFails \/ ProcessRecord \/ ProcessRecordAndSeal \/ CrashInlineSeal
  <2> DEFINE lines == <<NextRecord>>
  <2>1. /\ lines = <<NextRecord>> /\ WriterReady /\ OpenAllowed
        /\ segs' = [segs EXCEPT ![Current] = Append(Opened, NextRecord)]
    BY <1>4 DEF ProcessSyncFails, ProcessRecord, ProcessRecordAndSeal, CrashInlineSeal, Commit
  <2> HIDE DEF lines
  <2>2. Writes(lines)
    BY <1>0, <2>1, WholeLine
  <2> QED
    BY <2>1, <2>2, WritesGrow DEF FilesStep
<1>5. CASE CrashWriting
  <2>1. PICK lines \in {<< >>, <<Torn>>, <<NextRecord>>} :
              segs' = [segs EXCEPT ![Current] = Opened \o lines]
    BY <1>5 DEF CrashWriting
  <2>2. WriterReady /\ Writes(lines)
    BY <1>5, <2>1, ReadyFacts DEF Writes, CrashWriting
  <2> QED
    BY <2>2, WritesGrow DEF FilesStep
<1>6. CASE PowerLoss /\ segs' # segs
  <2>1. /\ bus # "down" /\ segFile # "nil" /\ "power" \in Faults
        /\ segs' = [segs EXCEPT ![Current] = SubSeq(segs[Current], 1, synced[Current])]
    BY <1>6 DEF PowerLoss
  <2> QED
    BY <1>0, <2>1, CutStep DEF FilesStep, LinesStep
<1>7. ASSUME segs' # segs
      PROVE  \/ ProcessEncodeFails \/ ProcessWriteFails \/ ProcessSyncFails \/ ProcessRecord
             \/ ProcessRecordAndSeal \/ CrashWriting \/ CrashInlineSeal \/ PowerLoss
  BY <1>7 DEF Next, vars, disk, NewBus, NewBusFails, EmitCheck, EmitSend, EmitSendPanics,
              Process, ProcessOpenFails, CloseFlag, CloseChannel, FinalSeal, CloseReturns,
              Crash, CrashFinalSeal
<1> QED
  BY <1>1, <1>2, <1>3, <1>4, <1>5, <1>6, <1>7

(* No written line is rewritten or removed, over restarts too, except that a  *)
(* power loss may cut lines that were not synced.                             *)
THEOREM SegmentFilesOnlyGrow == Spec => SegmentsAppendOnly
<1>1. ASSUME IInv, [Next]_vars
      PROVE  [\A n \in Names :
                 segs[n] # NoFile =>
                    /\ segs'[n] # NoFile
                    /\ \/ Grown(segs[n], segs'[n])
                       \/ /\ "power" \in Faults
                          /\ synced[n] <= Len(segs'[n])
                          /\ Grown(segs'[n], segs[n])]_vars
  BY <1>1, GrowStep DEF FilesStep, FilesGrow, FilesCut
<1>2. IInv /\ [Next]_vars =>
        [\A n \in Names :
            segs[n] # NoFile =>
               /\ segs'[n] # NoFile
               /\ \/ Grown(segs[n], segs'[n])
                  \/ /\ "power" \in Faults
                     /\ synced[n] <= Len(segs'[n])
                     /\ Grown(segs'[n], segs[n])]_vars
  BY <1>1
<1> QED
  BY <1>2, Invariance, PTL DEF Spec, SegmentsAppendOnly

-----------------------------------------------------------------------------
(* Fail closed. *)

(* Once a write or a seal has failed no later Emit of this run returns nil.   *)
THEOREM FailsClosed == Spec => NoAckAfterFailure
<1>1. ASSUME [Next]_vars
      PROVE  [wErr \/ segFile = "closed" => acked' = acked]_vars
  <2>1. CASE acked' = acked
    BY <2>1
  <2>2. CASE acked' # acked
    <3>1. ProcessRecord \/ ProcessRecordAndSeal
      BY <1>1, <2>2 DEF Next, vars, NewBus, NewBusFails, EmitCheck, EmitSend, EmitSendPanics,
              Process, ProcessOpenFails, ProcessEncodeFails, ProcessWriteFails,
              ProcessSyncFails, Reply, CloseFlag, CloseChannel, FinalSeal, CloseReturns,
              Crash, CrashWriting, CrashInlineSeal, CrashFinalSeal, PowerLoss
    <3>2. ~wErr /\ segFile # "closed"
      BY <3>1 DEF ProcessRecord, ProcessRecordAndSeal, FileUsable
    <3> QED
      BY <3>2
  <2> QED
    BY <2>1, <2>2
<1>2. [Next]_vars => [wErr \/ segFile = "closed" => acked' = acked]_vars
  BY <1>1
<1> QED
  BY <1>2, PTL DEF Spec, NoAckAfterFailure
-----------------------------------------------------------------------------
(* What is under checkpoints, where no fsync fails. *)

(* The open segment holds the records in memory, and behind them at most what *)
(* a failed write left, which nobody was told of.                             *)
OpenSegment ==
    segFile # "nil" =>
        /\ ~wErr => segs[Current] = segRecords
        /\ \A i \in 1..Len(segs[Current]) : i > Len(segRecords) =>
              segs[Current][i] = Torn \/ segs[Current][i].event \notin acked

(* Segment n is under a checkpoint that matches it, here and in the bucket. *)
SealedAt(n) ==
    /\ segs[n] # NoFile /\ ckpts[n] \notin {NoFile, Torn} /\ CkptName(ckpts[n]) = n
    /\ CheckpointMatchesSegment(segs, ckpts[n])
    /\ WithWORM => wormSegs[n] = segs[n] /\ wormCkpts[n] = ckpts[n]

SegmentsSealed ==
    bus # "down" => \A n \in Names : n[1] = epoch /\ n[2] < segmentIndex => SealedAt(n)

(* Which checkpoint files there are: none beyond the segment at hand, and     *)
(* that one's only behind a seal that failed after writing it.                *)
CheckpointsPresent ==
    \A n \in Names : ckpts[n] # NoFile =>
        /\ n[1] <= epochFile
        /\ bus # "down" /\ n[1] = epoch =>
              n[2] < segmentIndex \/ (n[2] = segmentIndex /\ segFile = "closed")

(* Memory is linked to the last checkpoint on disk until a seal has failed.   *)
HeadLinked ==
    bus # "down" /\ segFile # "closed" => prevCkptHash = LastCheckpointHash(ckpts)

(* A seal that failed leaves its records, and the final one its error. *)
SealFailed ==
    /\ segFile = "closed" => segRecords # << >>
    /\ bus = "done" /\ ~sealErr => segRecords = << >>
    /\ bus # "down" => closeResult = "none"

SealInv ==
    /\ OpenSegment /\ SegmentsSealed /\ CheckpointsPresent /\ HeadLinked
    /\ SealFailed /\ CleanCloseIsSealed


(* Only the files of the segment at hand change. *)
OnlyCurrent ==
    /\ DOMAIN segs' = DOMAIN segs
    /\ \A n \in Names : n # Current =>
          /\ segs'[n] = segs[n] /\ ckpts'[n] = ckpts[n]
          /\ wormSegs'[n] = wormSegs[n] /\ wormCkpts'[n] = wormCkpts[n]

LEMMA MatchStays ==
    ASSUME NEW f, NEW g, NEW c, NEW n, CkptName(c) = n, DOMAIN g = DOMAIN f, g[n] = f[n],
           CheckpointMatchesSegment(f, c)
    PROVE  CheckpointMatchesSegment(g, c)
BY DEF CheckpointMatchesSegment, Present

(* What is sealed stays sealed. *)
LEMMA SealedStays ==
    ASSUME TypeOK, SegmentsSealed, bus # "down", OnlyCurrent, NEW n \in Names,
           n[1] = epoch, n[2] < segmentIndex
    PROVE  SealedAt(n)'
<1>1. n # Current
  BY DEF Current, TypeOK
<1>2. SealedAt(n)
  BY DEF SegmentsSealed
<1>3. /\ segs'[n] = segs[n] /\ ckpts'[n] = ckpts[n]
      /\ wormSegs'[n] = wormSegs[n] /\ wormCkpts'[n] = wormCkpts[n] /\ DOMAIN segs' = DOMAIN segs
  BY <1>1 DEF OnlyCurrent
<1>4. CheckpointMatchesSegment(segs', ckpts[n])
  BY <1>2, <1>3, MatchStays DEF SealedAt
<1> QED
  BY <1>2, <1>3, <1>4 DEF SealedAt

(* A step that leaves the files and the segment at hand alone. *)
LEMMA SealQuiet ==
    ASSUME SealInv, UNCHANGED <<segs, ckpts, wormSegs, wormCkpts, epochFile, epoch>>,
           UNCHANGED <<segmentIndex, prevCkptHash, segRecords, segFile, wErr, sealErr>>,
           UNCHANGED <<acked, closeResult, loggedHead>>,
           bus' = bus \/ (bus # "down" /\ bus' \notin {"down", "done"})
    PROVE  SealInv'
<1>1. OpenSegment'
  BY DEF SealInv, OpenSegment, Current
<1>2. SegmentsSealed'
  BY DEF SealInv, SegmentsSealed, SealedAt
<1>3. CheckpointsPresent' /\ HeadLinked'
  BY DEF SealInv, CheckpointsPresent, HeadLinked
<1>4. SealFailed'
  BY DEF SealInv, SealFailed
<1>5. CleanCloseIsSealed'
  BY DEF SealInv, CleanCloseIsSealed, AckedPlaces
<1> QED
  BY <1>1, <1>2, <1>3, <1>4, <1>5 DEF SealInv

LEMMA NotClosedYet == closeResult' = "none" => CleanCloseIsSealed'
BY DEF CleanCloseIsSealed

(* The process ends. *)
LEMMA SealGone ==
    ASSUME MemoryGone, CleanCloseIsSealed',
           \A n \in Names : ckpts'[n] # NoFile => n[1] <= epochFile'
    PROVE  SealInv'
<1>1. bus' = "down" /\ segFile' = "nil"
  BY DEF MemoryGone
<1>2. OpenSegment' /\ SegmentsSealed' /\ HeadLinked' /\ SealFailed'
  BY <1>1 DEF OpenSegment, SegmentsSealed, HeadLinked, SealFailed
<1>3. CheckpointsPresent'
  BY <1>1 DEF CheckpointsPresent
<1> QED
  BY <1>2, <1>3 DEF SealInv

LEMMA SealInit == Init => SealInv
<1> SUFFICES ASSUME Init
             PROVE  SealInv
  OBVIOUS
<1>1. OpenSegment /\ SegmentsSealed /\ HeadLinked /\ SealFailed
  BY DEF Init, OpenSegment, SegmentsSealed, HeadLinked, SealFailed
<1>2. CheckpointsPresent /\ CleanCloseIsSealed
  BY DEF Init, CheckpointsPresent, CleanCloseIsSealed
<1> QED
  BY <1>1, <1>2 DEF SealInv

LEMMA SealNewBus == IInv /\ SealInv /\ NewBus => SealInv'
<1> SUFFICES ASSUME IInv, SealInv, NewBus
             PROVE  SealInv'
  OBVIOUS
<1>1. /\ UNCHANGED <<ckpts, segFile, segRecords>>
      /\ closeResult' = "none" /\ bus' = "open" /\ bus = "down" /\ segmentIndex' = segmentIndex
      /\ epochFile' = epochFile + 1 /\ epoch' = epochFile'
      /\ prevCkptHash' = LastCheckpointHash(ckpts)
  BY DEF NewBus, AdvanceEpoch
<1>2. segFile = "nil" /\ segmentIndex = 0 /\ epochFile \in Nat
  BY <1>1 DEF IInv, Alive, TypeOK
<1>3. OpenSegment' /\ HeadLinked' /\ SealFailed'
  BY <1>1, <1>2 DEF OpenSegment, HeadLinked, SealFailed
<1>4. SegmentsSealed'
  BY <1>1, <1>2 DEF SegmentsSealed, Names
<1>5. CheckpointsPresent'
  <2> SUFFICES ASSUME NEW n \in Names, ckpts[n] # NoFile
               PROVE  n[1] <= epochFile' /\ n[1] # epoch'
    BY <1>1 DEF CheckpointsPresent
  <2>1. n[1] <= epochFile /\ n[1] \in Nat
    BY DEF SealInv, CheckpointsPresent, Names
  <2> QED
    BY <2>1, <1>1, <1>2
<1> QED
  BY <1>1, <1>3, <1>4, <1>5, NotClosedYet DEF SealInv

LEMMA SealNewBusFails == IInv /\ SealInv /\ NewBusFails => SealInv'
<1> SUFFICES ASSUME IInv, SealInv, NewBusFails
             PROVE  SealInv'
  OBVIOUS
<1>1. /\ UNCHANGED <<ckpts, segFile, segRecords, bus>>
      /\ closeResult' = "none" /\ bus = "down"
      /\ epochFile' = epochFile \/ epochFile' = epochFile + 1
  BY DEF NewBusFails, AdvanceEpoch, segment
<1>2. segFile = "nil" /\ epochFile \in Nat
  BY <1>1 DEF IInv, Alive, TypeOK
<1>3. OpenSegment' /\ SegmentsSealed' /\ HeadLinked' /\ SealFailed'
  BY <1>1, <1>2 DEF OpenSegment, SegmentsSealed, HeadLinked, SealFailed
<1>4. CheckpointsPresent'
  <2> SUFFICES ASSUME NEW n \in Names, ckpts[n] # NoFile
               PROVE  n[1] <= epochFile'
    BY <1>1 DEF CheckpointsPresent
  <2>1. n[1] <= epochFile /\ n[1] \in Nat
    BY DEF SealInv, CheckpointsPresent, Names
  <2> QED
    BY <2>1, <1>1, <1>2
<1> QED
  BY <1>1, <1>3, <1>4, NotClosedYet DEF SealInv

LEMMA SealEmit ==
    ASSUME IInv, SealInv, NEW c \in Callers, EmitCheck(c) \/ EmitSend(c) \/ EmitSendPanics(c)
    PROVE  SealInv'
<1>1. /\ UNCHANGED <<segs, ckpts, wormSegs, wormCkpts, epochFile>>
      /\ UNCHANGED <<acked, closeResult, loggedHead>> /\ bus # "down"
  BY DEF EmitCheck, EmitSend, EmitSendPanics, disk, closing
<1>2. CASE MemoryGone
  <2>1. closeResult' = "none"
    BY <1>1 DEF SealInv, SealFailed
  <2>2. \A n \in Names : ckpts'[n] # NoFile => n[1] <= epochFile'
    BY <1>1 DEF SealInv, CheckpointsPresent
  <2> QED
    BY <1>2, <2>1, <2>2, NotClosedYet, SealGone
<1>3. CASE ~MemoryGone
  <2>1. /\ UNCHANGED <<segmentIndex, prevCkptHash, segRecords, segFile, wErr, sealErr>>
        /\ UNCHANGED <<epoch, bus>>
    BY <1>3 DEF EmitCheck, EmitSend, EmitSendPanics, segment
  <2> QED
    BY <1>1, <2>1, SealQuiet
<1> QED
  BY <1>2, <1>3

LEMMA SealOpenFails == SealInv /\ ProcessOpenFails => SealInv'
<1> SUFFICES ASSUME SealInv, ProcessOpenFails
             PROVE  SealInv'
  OBVIOUS
<1>1. /\ UNCHANGED <<segs, ckpts, wormSegs, wormCkpts, epochFile, epoch>>
      /\ UNCHANGED <<segmentIndex, prevCkptHash, segRecords, segFile, wErr, sealErr>>
      /\ UNCHANGED <<acked, closeResult, loggedHead, bus>>
  BY DEF ProcessOpenFails, Reply, disk, segment, closing
<1> QED
  BY <1>1, SealQuiet

LEMMA SealClose == SealInv /\ (CloseFlag \/ CloseChannel) => SealInv'
<1> SUFFICES ASSUME SealInv, CloseFlag \/ CloseChannel
             PROVE  SealInv'
  OBVIOUS
<1>1. /\ UNCHANGED <<segs, ckpts, wormSegs, wormCkpts, epochFile, epoch>>
      /\ UNCHANGED <<segmentIndex, prevCkptHash, segRecords, segFile, wErr, sealErr>>
      /\ UNCHANGED <<acked, closeResult, loggedHead>>
      /\ bus # "down" /\ bus' \notin {"down", "done"}
  BY DEF CloseFlag, CloseChannel, disk, segment, closing
<1> QED
  BY <1>1, SealQuiet

LEMMA SealStutter == SealInv /\ UNCHANGED vars => SealInv'
<1> SUFFICES ASSUME SealInv, UNCHANGED vars
             PROVE  SealInv'
  OBVIOUS
<1>1. /\ UNCHANGED <<segs, ckpts, wormSegs, wormCkpts, epochFile, epoch>>
      /\ UNCHANGED <<segmentIndex, prevCkptHash, segRecords, segFile, wErr, sealErr>>
      /\ UNCHANGED <<acked, closeResult, loggedHead, bus>>
  BY DEF vars, disk, segment, closing
<1> QED
  BY <1>1, SealQuiet

(* The event at hand is on no line, so nobody was told of it. *)
LEMMA NotYetAcked ==
    ASSUME IInv, queue # << >>
    PROVE  Submission.event \notin acked
<1>1. /\ Head(queue) \in Callers /\ 1 \in 1..Len(queue) /\ queue[1] = Head(queue)
      /\ Submission = sub[Head(queue)]
  BY NextTyped DEF IInv
<1>2. Head(queue) \in Busy
  BY <1>1 DEF IInv, EventInv, ChannelOK, Busy
<1>3. \A n \in Names : \A i \in Nat : ~Holds(n, i, Submission.event)
  BY <1>1, <1>2 DEF IInv, EventInv, FreshEvents
<1>4. synced \in [Names -> Nat]
  BY DEF IInv, TypeOK
<1> QED
  BY <1>3, <1>4 DEF IInv, EventInv, AckedSynced

(* The lines of a segment at hand that has not failed are its records. *)
LEMMA OpenedAreRecords ==
    ASSUME IInv, SealInv, ~wErr
    PROVE  Opened = segRecords
BY DEF IInv, Room, SealInv, OpenSegment, Opened

(* process fails: nothing that was sealed changes, and the lines it leaves    *)
(* are of an event nobody was told of.                                        *)
LEMMA SealFailedWrite ==
    ASSUME IInv, SealInv, WriterReady, NEW lines, Writes(lines),
           UNCHANGED <<ckpts, wormSegs, wormCkpts, epochFile, epoch, bus>>,
           UNCHANGED <<segmentIndex, prevCkptHash, segRecords, acked, closeResult>>,
           segFile' = (IF segFile = "nil" THEN "open" ELSE segFile),
           wErr' \/ (wErr' = wErr /\ lines = << >>)
    PROVE  SealInv'
<1>0. TypeOK /\ Alive /\ Room /\ FilesPresent /\ bus # "down" /\ queue # << >>
  BY ReadyFacts DEF IInv, FileInv
<1>1. /\ segs' \in SegFiles /\ segs'[Current] = Opened \o lines
      /\ Opened \o lines \in Seq(Line) /\ Len(lines) \in Nat
      /\ Len(Opened \o lines) = Len(Opened) + Len(lines)
      /\ \A n \in Names : n # Current => segs'[n] = segs[n]
  BY <1>0, WriteStep
<1>2. OnlyCurrent
  BY <1>0, <1>1 DEF OnlyCurrent, TypeOK, SegFiles
<1>3. /\ Opened \in Seq(Line) /\ Len(Opened) \in Nat
      /\ segFile # "nil" => Opened = segs[Current]
      /\ segFile = "nil" => Opened = << >>
  BY <1>0, OpenedTyped DEF Writes, Opened
<1>4. segFile' # "nil" /\ (segFile' = "closed" <=> segFile = "closed")
  OBVIOUS
<1>5. OpenSegment'
  <2>0. Current' = Current /\ Len(segRecords) \in Nat
    BY <1>0 DEF Current, TypeOK
  <2>1. ~wErr' => segs'[Current] = segRecords
    <3> SUFFICES ASSUME ~wErr'
                 PROVE  segs'[Current] = segRecords
      OBVIOUS
    <3>1. lines = << >> /\ ~wErr
      OBVIOUS
    <3>2. Opened \o lines = Opened
      BY <3>1, <1>3
    <3> QED
      BY <3>1, <3>2, <1>1, OpenedAreRecords
  <2>2. ASSUME NEW i \in 1..Len(segs'[Current]), i > Len(segRecords)
        PROVE  segs'[Current][i] = Torn \/ segs'[Current][i].event \notin acked
    <3>1. CASE i \in 1..Len(Opened)
      <4>1. segs'[Current][i] = Opened[i]
        BY <3>1, <1>1, <1>3
      <4>2. segFile # "nil"
        BY <3>1, <1>3
      <4> QED
        BY <3>1, <4>1, <4>2, <2>2, <1>3 DEF SealInv, OpenSegment
    <3>2. CASE i \notin 1..Len(Opened)
      <4>1. lines = << >> \/ lines = <<Torn>> \/ lines = <<NextRecord>>
        BY DEF Writes
      <4>2. lines # << >>
        BY <3>2, <1>1, <1>3
      <4>3. Len(lines) = 1
        BY <4>1, <4>2, OneLine
      <4>4. i = Len(Opened) + 1
        BY <4>3, <3>2, <1>1, <1>3
      <4>5. (Opened \o lines)[i] = lines[1] /\ lines \in Seq(Line)
        <5>1. lines \in Seq(Line)
          <6>1. Torn \in Line /\ NextRecord \in Line
            BY <1>0, NextTyped DEF Line
          <6> QED
            BY <6>1, <4>1, <4>2, OneLine
        <5>2. \A k \in 1..Len(lines) : (Opened \o lines)[Len(Opened) + k] = lines[k]
          BY <5>1, <1>3
        <5> QED
          BY <5>1, <5>2, <4>3, <4>4
      <4>6. lines[1] = Torn \/ lines[1] = NextRecord
        BY <4>1, <4>2, OneLine
      <4>7. NextRecord.event \notin acked
        BY <1>0, NextTyped, NotYetAcked
      <4> QED
        BY <4>5, <4>6, <4>7, <1>1
    <3> QED
      BY <3>1, <3>2
  <2> QED
    BY <2>0, <2>1, <2>2 DEF OpenSegment
<1>6. SegmentsSealed'
  <2> SUFFICES ASSUME NEW n \in Names, n[1] = epoch, n[2] < segmentIndex
               PROVE  SealedAt(n)'
    BY DEF SegmentsSealed
  <2> QED
    BY <1>0, <1>2, SealedStays DEF SealInv
<1>7. CheckpointsPresent' /\ HeadLinked'
  BY <1>0, <1>4 DEF SealInv, CheckpointsPresent, HeadLinked
<1>8. SealFailed' /\ closeResult' = "none"
  BY <1>0, <1>4 DEF SealInv, SealFailed, WriterReady
<1> QED
  BY <1>5, <1>6, <1>7, <1>8, NotClosedYet DEF SealInv

LEMMA SealEncodeFails == IInv /\ SealInv /\ ProcessEncodeFails => SealInv'
<1> SUFFICES ASSUME IInv, SealInv, ProcessEncodeFails
             PROVE  SealInv'
  OBVIOUS
<1> DEFINE lines == << >>
<1>1. /\ UNCHANGED <<ckpts, wormSegs, wormCkpts, epochFile, epoch, bus>>
      /\ UNCHANGED <<segmentIndex, prevCkptHash, segRecords, acked, closeResult, wErr>>
      /\ segFile' = (IF segFile = "nil" THEN "open" ELSE segFile)
      /\ WriterReady /\ OpenAllowed /\ segs' = [segs EXCEPT ![Current] = Opened]
  BY DEF ProcessEncodeFails, Reply, closing
<1>2. lines = << >> /\ bus # "down"
  BY <1>1, ReadyFacts
<1> HIDE DEF lines
<1>3. Writes(lines)
  BY <1>1, <1>2, NothingWritten DEF Writes, IInv, FileInv
<1> QED
  BY <1>1, <1>2, <1>3, SealFailedWrite

LEMMA SealWriteFails == IInv /\ SealInv /\ ProcessWriteFails => SealInv'
<1> SUFFICES ASSUME IInv, SealInv, ProcessWriteFails
             PROVE  SealInv'
  OBVIOUS
<1>1. /\ UNCHANGED <<ckpts, wormSegs, wormCkpts, epochFile, epoch, bus>>
      /\ UNCHANGED <<segmentIndex, prevCkptHash, segRecords, acked, closeResult>>
      /\ wErr' /\ segFile' = (IF segFile = "nil" THEN "open" ELSE segFile)
      /\ WriterReady
  BY DEF ProcessWriteFails, Reply, closing
<1>2. PICK lines \in {<< >>, <<Torn>>, <<NextRecord>>} : Writes(lines)
  BY WriteFailsWrites
<1> QED
  BY <1>1, <1>2, SealFailedWrite

(* What a record that is committed leaves in the segment at hand. *)
LEMMA CommitSeal ==
    ASSUME IInv, SealInv, WriterReady, OpenAllowed, Commit, ~wErr
    PROVE  /\ segs' \in SegFiles /\ segs'[Current] = Append(segRecords, NextRecord)
           /\ Append(Opened, NextRecord) = Append(segRecords, NextRecord)
           /\ \A n \in Names : n # Current => segs'[n] = segs[n]
<1> DEFINE lines == <<NextRecord>>
<1>0. TypeOK /\ Alive /\ FilesPresent /\ queue # << >>
  BY ReadyFacts DEF IInv, FileInv
<1>1. lines = <<NextRecord>>
  OBVIOUS
<1> HIDE DEF lines
<1>2. Writes(lines) /\ Append(Opened, NextRecord) = Opened \o lines
  BY <1>0, <1>1, CommitStep
<1>3. /\ segs' \in SegFiles /\ segs'[Current] = Opened \o lines
      /\ \A n \in Names : n # Current => segs'[n] = segs[n]
  BY <1>0, <1>1, <1>2, WriteStep
<1> QED
  BY <1>2, <1>3, OpenedAreRecords

LEMMA SealRecord == IInv /\ SealInv /\ ProcessRecord => SealInv'
<1> SUFFICES ASSUME IInv, SealInv, ProcessRecord
             PROVE  SealInv'
  OBVIOUS
<1>0. TypeOK /\ bus # "down"
  BY ReadyFacts DEF IInv, ProcessRecord
<1>1. /\ UNCHANGED <<ckpts, wormSegs, wormCkpts, epochFile, epoch, bus>>
      /\ UNCHANGED <<segmentIndex, prevCkptHash, closeResult, wErr>>
      /\ ~wErr /\ segFile # "closed" /\ segFile' = "open" /\ bus # "done"
      /\ segRecords' = Append(segRecords, NextRecord)
      /\ WriterReady /\ OpenAllowed /\ Commit
  BY DEF ProcessRecord, Reply, closing, FileUsable, WriterReady
<1>2. /\ segs' \in SegFiles /\ segs'[Current] = segRecords'
      /\ \A n \in Names : n # Current => segs'[n] = segs[n]
  BY <1>1, CommitSeal
<1>3. OnlyCurrent
  BY <1>0, <1>1, <1>2 DEF OnlyCurrent, TypeOK, SegFiles
<1>4. OpenSegment'
  <2>1. segs'[Current'] = segRecords'
    BY <1>1, <1>2 DEF Current
  <2>2. Len(segRecords') \in Nat
    <3>1. NextRecord \in Record /\ segRecords \in Seq(Record)
      BY <1>0, <1>1, NextTyped, ReadyFacts DEF TypeOK
    <3> QED
      BY <3>1, <1>1
  <2> QED
    BY <2>1, <2>2 DEF OpenSegment
<1>5. SegmentsSealed'
  <2> SUFFICES ASSUME NEW n \in Names, n[1] = epoch, n[2] < segmentIndex
               PROVE  SealedAt(n)'
    BY <1>1 DEF SegmentsSealed
  <2> QED
    BY <1>0, <1>3, SealedStays DEF SealInv
<1>6. CheckpointsPresent' /\ HeadLinked'
  BY <1>0, <1>1 DEF SealInv, CheckpointsPresent, HeadLinked
<1>7. SealFailed' /\ closeResult' = "none"
  BY <1>0, <1>1 DEF SealInv, SealFailed
<1> QED
  BY <1>4, <1>5, <1>6, <1>7, NotClosedYet DEF SealInv

(* The name of the segment at hand comes after those of all checkpoints, so a *)
(* new checkpoint under it is the last one.                                   *)
LEMMA NewIsLatest ==
    ASSUME TypeOK, Alive, CheckpointsPresent, bus # "down", segFile # "closed", NEW c \in Checkpoint,
           ckpts' = [ckpts EXCEPT ![Current] = c]
    PROVE  LastCheckpointHash(ckpts') = HashHex(c)
<1>1. Current \in Names /\ Current[1] = epoch /\ Current[2] = segmentIndex
  BY CurrentIsName
<1>2. ckpts \in CkptFiles /\ DOMAIN ckpts = Names /\ epoch = epochFile /\ epochFile \in Nat
  BY DEF TypeOK, CkptFiles, Alive
<1>3. DOMAIN ckpts' = Names /\ ckpts'[Current] = c /\ \A n \in Names : n # Current => ckpts'[n] = ckpts[n]
  BY <1>1, <1>2
<1>4. c # NoFile
  BY MarkAssumption
<1>5. Present(ckpts') \subseteq Names /\ Current \in Present(ckpts')
  BY <1>1, <1>3, <1>4 DEF Present
<1>6. ASSUME NEW n \in Present(ckpts')
      PROVE  n = Current \/ Before(n, Current)
  <2>1. n \in Names /\ (n # Current => ckpts[n] # NoFile) /\ n[1] \in Nat /\ n[2] \in Nat
    BY <1>3 DEF Present, Names
  <2>2. n # Current => n[1] <= epoch /\ (n[1] = epoch => n[2] < segmentIndex)
    BY <2>1, <1>2 DEF CheckpointsPresent
  <2> QED
    BY <2>1, <2>2, <1>1, <1>2 DEF Before
<1> DEFINE P == Present(ckpts')
           l == Current
<1>7. Latest(P) = l
  <2>1. P \subseteq Names /\ l \in P /\ \A n \in P : n = l \/ Before(n, l)
    BY <1>5, <1>6
  <2> HIDE DEF P, l
  <2> QED
    BY <2>1, LatestIs
<1> QED
  BY <1>3, <1>5, <1>7 DEF LastCheckpointHash

(* A checkpoint over the lines of the segment matches it. *)
LEMMA NewMatches ==
    ASSUME NEW f \in SegFiles, NEW n \in Names, NEW recs \in Seq(Record), recs # << >>,
           f[n] = recs, NEW prev \in Seq(Link), NEW c, c = NewCheckpoint(n, recs, prev)
    PROVE  CkptName(c) = n /\ CheckpointMatchesSegment(f, c)
<1>1. /\ c.epoch = n[1] /\ c.index = n[2] /\ c.count = Len(recs)
      /\ c.root = MerkleRoot(recs) /\ c.head = recs[Len(recs)].hash
  BY DEF NewCheckpoint
<1>2. CkptName(c) = n
  BY <1>1 DEF CkptName, Names
<1>3. recs # NoFile
  <2>1. recs \in Seq(Record \cup {Torn})
    OBVIOUS
  <2> QED
    BY <2>1, MarkAssumption
<1>4. n \in Present(f)
  BY <1>3 DEF Present, SegFiles
<1> QED
  BY <1>1, <1>2, <1>4 DEF CheckpointMatchesSegment

(* sealSegment over the lines of a segment that has not failed. *)
LEMMA SealSealing ==
    ASSUME IInv, SealInv, bus # "down", ~wErr, segmentIndex < MaxSegments,
           NEW recs \in Seq(Record), recs # << >>, Len(recs) <= SegmentSize,
           segs' \in SegFiles, segs'[Current] = recs,
           \A n \in Names : n # Current => segs'[n] = segs[n],
           UNCHANGED <<epochFile, epoch>>, bus' # "down",
           NEW ok \in BOOLEAN, SealSegment(recs, recs, ok)
    PROVE  /\ OpenSegment' /\ SegmentsSealed' /\ CheckpointsPresent' /\ HeadLinked'
           /\ segFile' = "closed" => segRecords' # << >>
           /\ ok => segRecords' = << >>
<1> DEFINE c == NewCheckpoint(Current, recs, prevCkptHash)
<1>0. TypeOK /\ Alive /\ Room /\ FilesPresent
  BY DEF IInv, FileInv
<1>1. /\ ckpts \in CkptFiles /\ wormSegs \in SegFiles /\ wormCkpts \in CkptFiles
      /\ segs \in SegFiles /\ prevCkptHash \in Seq(Link) /\ segmentIndex \in Nat
      /\ epoch = epochFile /\ epoch \in Nat
  BY <1>0 DEF TypeOK, Alive
<1>2. Current \in Names /\ Current[1] = epoch /\ Current[2] = segmentIndex
  BY <1>0, CurrentIsName
<1>3. /\ c \in Checkpoint /\ CkptName(c) = Current /\ CheckpointMatchesSegment(segs', c)
  <2> DEFINE f == segs'
  <2>1. f \in SegFiles /\ f[Current] = recs
    OBVIOUS
  <2>2. c \in Checkpoint
    BY <1>1, <1>2, CheckpointTyped
  <2>3. c = NewCheckpoint(Current, recs, prevCkptHash)
    OBVIOUS
  <2> HIDE DEF f, c
  <2>4. CkptName(c) = Current /\ CheckpointMatchesSegment(f, c)
    BY <1>1, <1>2, <2>1, <2>3, NewMatches
  <2> QED
    BY <2>2, <2>4 DEF f
<1>4. c \notin {NoFile, Torn} /\ recs # NoFile
  <2>1. recs \in Seq(Record \cup {Torn})
    OBVIOUS
  <2> QED
    BY <1>3, <2>1, MarkAssumption
<1> HIDE DEF c
<1>5. CASE ok
  <2>1. /\ segFile # "closed"
        /\ ckpts' = [ckpts EXCEPT ![Current] = c]
        /\ wormSegs' = (IF WithWORM THEN [wormSegs EXCEPT ![Current] = recs] ELSE wormSegs)
        /\ wormCkpts' = (IF WithWORM THEN [wormCkpts EXCEPT ![Current] = c] ELSE wormCkpts)
        /\ prevCkptHash' = HashHex(c) /\ segmentIndex' = segmentIndex + 1
        /\ segFile' = "nil" /\ segRecords' = << >>
    BY <1>5 DEF SealSegment, SealOK, FileUsable, c
  <2>2. /\ ckpts'[Current] = c
        /\ WithWORM => wormSegs'[Current] = recs /\ wormCkpts'[Current] = c
    BY <2>1, <1>1, <1>2 DEF CkptFiles, SegFiles
  <2>3. OnlyCurrent
    BY <2>1, <1>1, <1>2 DEF OnlyCurrent, CkptFiles, SegFiles
  <2>4. ASSUME NEW n \in Names, n = Current
        PROVE  SealedAt(n)'
    BY <2>2, <2>4, <1>3, <1>4 DEF SealedAt
  <2>5. SegmentsSealed'
    <3> SUFFICES ASSUME NEW n \in Names, n[1] = epoch, n[2] < segmentIndex + 1
                 PROVE  SealedAt(n)'
      BY <2>1 DEF SegmentsSealed
    <3>1. n[2] \in Nat /\ n = <<n[1], n[2]>>
      BY DEF Names
    <3>2. CASE n[2] < segmentIndex
      BY <3>2, <2>3, <1>0, SealedStays DEF SealInv
    <3>3. CASE n[2] = segmentIndex
      BY <3>1, <3>3, <2>4, <1>2 DEF Current
    <3> QED
      BY <3>1, <3>2, <3>3, <1>1
  <2>6. CheckpointsPresent'
    <3> SUFFICES ASSUME NEW n \in Names, ckpts'[n] # NoFile
                 PROVE  n[1] <= epochFile /\ (n[1] = epoch => n[2] < segmentIndex + 1)
      BY <2>1 DEF CheckpointsPresent
    <3>1. n[2] \in Nat
      BY DEF Names
    <3>2. CASE n = Current
      BY <3>2, <1>1, <1>2
    <3>3. CASE n # Current
      <4>1. ckpts[n] # NoFile
        BY <3>3, <2>3 DEF OnlyCurrent
      <4> QED
        BY <4>1, <3>1, <1>1 DEF SealInv, CheckpointsPresent
    <3> QED
      BY <3>2, <3>3
  <2>7. HeadLinked'
    BY <2>1, <1>0, <1>3, NewIsLatest DEF SealInv, HeadLinked
  <2>8. OpenSegment'
    BY <2>1 DEF OpenSegment
  <2> QED
    BY <2>1, <2>5, <2>6, <2>7, <2>8
<1>6. CASE ~ok
  <2>1. /\ segRecords' = recs /\ segmentIndex' = segmentIndex /\ segFile' = "closed"
        /\ wErr' = wErr /\ wormCkpts' = wormCkpts
        /\ \/ ckpts' = ckpts \/ ckpts' = [ckpts EXCEPT ![Current] = Torn]
           \/ ckpts' = [ckpts EXCEPT ![Current] = c]
        /\ wormSegs' = wormSegs \/ wormSegs' = [wormSegs EXCEPT ![Current] = recs]
    BY <1>6 DEF SealSegment, SealFlushFails, SealCloseFails, SealCheckpointFails,
                SealUploadFails, c
  <2>2. OnlyCurrent
    BY <2>1, <1>1, <1>2 DEF OnlyCurrent, CkptFiles, SegFiles
  <2>3. SegmentsSealed'
    <3> SUFFICES ASSUME NEW n \in Names, n[1] = epoch, n[2] < segmentIndex
                 PROVE  SealedAt(n)'
      BY <2>1 DEF SegmentsSealed
    <3> QED
      BY <2>2, <1>0, SealedStays DEF SealInv
  <2>4. CheckpointsPresent'
    <3> SUFFICES ASSUME NEW n \in Names, ckpts'[n] # NoFile
                 PROVE  n[1] <= epochFile /\ (n[1] = epoch => n[2] <= segmentIndex)
      BY <2>1, <1>1 DEF CheckpointsPresent, Names
    <3>1. n[2] \in Nat
      BY DEF Names
    <3>2. CASE n = Current
      BY <3>2, <1>1, <1>2
    <3>3. CASE n # Current
      <4>1. ckpts[n] # NoFile
        BY <3>3, <2>2 DEF OnlyCurrent
      <4> QED
        BY <4>1, <3>1, <1>1 DEF SealInv, CheckpointsPresent
    <3> QED
      BY <3>2, <3>3
  <2>5. HeadLinked'
    BY <2>1 DEF HeadLinked
  <2>6. OpenSegment'
    <3>1. Current' = Current /\ Len(recs) \in Nat
      BY <2>1 DEF Current
    <3> QED
      BY <2>1, <3>1 DEF OpenSegment
  <2> QED
    BY <1>6, <2>1, <2>3, <2>4, <2>5, <2>6
<1> QED
  BY <1>5, <1>6

LEMMA SealRecordAndSeal == IInv /\ SealInv /\ ProcessRecordAndSeal => SealInv'
<1> SUFFICES ASSUME IInv, SealInv, ProcessRecordAndSeal
             PROVE  SealInv'
  OBVIOUS
<1> DEFINE lines == <<NextRecord>>
           recs == Append(segRecords, NextRecord)
<1>0. TypeOK /\ Alive /\ Room /\ FilesPresent
  BY DEF IInv, FileInv
<1>1. /\ epochFile' = epochFile /\ WriterReady /\ OpenAllowed /\ Commit /\ ~wErr
      /\ segFile # "closed"
  BY DEF ProcessRecordAndSeal, FileUsable
<1>2. PICK ok \in BOOLEAN : SealSegment(recs, Append(Opened, NextRecord), ok) /\ Reply(ok)
  BY DEF ProcessRecordAndSeal
<1>3. lines = <<NextRecord>>
  OBVIOUS
<1> HIDE DEF lines
<1>4. recs \in Seq(Record) /\ recs # << >> /\ Len(recs) = Len(segRecords) + 1
  BY <1>0, <1>1, <1>3, CommitStep
<1>5. /\ segs' \in SegFiles /\ segs'[Current] = recs /\ Append(Opened, NextRecord) = recs
      /\ \A n \in Names : n # Current => segs'[n] = segs[n]
  BY <1>1, CommitSeal
<1> HIDE DEF recs
<1>6. bus # "down" /\ segmentIndex < MaxSegments /\ bus # "done"
  BY <1>1, ReadyFacts DEF WriterReady
<1>7. Len(recs) <= SegmentSize
  BY <1>0, <1>1, <1>4, BusAssumption DEF Room, TypeOK
<1>8. /\ UNCHANGED <<epoch, bus, closeResult>>
  BY <1>2 DEF Reply, closing
<1>9. SealSegment(recs, recs, ok)
  BY <1>2, <1>5
<1>10. /\ OpenSegment' /\ SegmentsSealed' /\ CheckpointsPresent' /\ HeadLinked'
       /\ segFile' = "closed" => segRecords' # << >>
  BY <1>1, <1>4, <1>5, <1>6, <1>7, <1>8, <1>9, SealSealing
<1>11. SealFailed' /\ closeResult' = "none"
  BY <1>6, <1>8, <1>10 DEF SealInv, SealFailed
<1> QED
  BY <1>10, <1>11, NotClosedYet DEF SealInv

LEMMA SealFinal == IInv /\ SealInv /\ FinalSeal => SealInv'
<1> SUFFICES ASSUME IInv, SealInv, FinalSeal
             PROVE  SealInv'
  OBVIOUS
<1>0. TypeOK /\ Alive /\ Room /\ FilesPresent
  BY DEF IInv, FileInv
<1>1. /\ UNCHANGED <<epochFile, segs, epoch>> /\ UNCHANGED <<acked, closeResult, loggedHead>>
      /\ bus = "closed" /\ bus' = "done"
  BY DEF FinalSeal, closing
<1>2. closeResult = "none" /\ (segFile = "closed" => segRecords # << >>)
  BY <1>1 DEF SealInv, SealFailed
<1>3. CASE segRecords = << >>
  <2>1. UNCHANGED <<ckpts, wormSegs, wormCkpts, segmentIndex, prevCkptHash, segRecords, segFile,
                    wErr, sealErr>>
    BY <1>3 DEF FinalSeal, segment
  <2>2. OpenSegment'
    BY <2>1, <1>1 DEF SealInv, OpenSegment, Current
  <2>3. SegmentsSealed'
    BY <2>1, <1>1 DEF SealInv, SegmentsSealed, SealedAt
  <2>4. CheckpointsPresent' /\ HeadLinked'
    BY <2>1, <1>1 DEF SealInv, CheckpointsPresent, HeadLinked
  <2>5. SealFailed'
    BY <2>1, <1>1, <1>2, <1>3 DEF SealFailed
  <2> QED
    BY <2>2, <2>3, <2>4, <2>5, <1>1, <1>2, NotClosedYet DEF SealInv
<1>4. CASE segRecords # << >> /\ wErr
  <2>1. PICK ok \in BOOLEAN : SealSegment(segRecords, segs[Current], ok) /\ sealErr' = ~ok
    BY <1>4 DEF FinalSeal
  <2>2. /\ ~ok
        /\ UNCHANGED <<ckpts, wormSegs, wormCkpts, segmentIndex, prevCkptHash, segRecords,
                       segFile, wErr>>
    BY <2>1, <1>4 DEF SealSegment, SealOK, SealFlushFails, SealCloseFails,
                      SealCheckpointFails, SealUploadFails
  <2>3. OpenSegment'
    BY <2>2, <1>1 DEF SealInv, OpenSegment, Current
  <2>4. SegmentsSealed'
    BY <2>2, <1>1 DEF SealInv, SegmentsSealed, SealedAt
  <2>5. CheckpointsPresent' /\ HeadLinked'
    BY <2>2, <1>1 DEF SealInv, CheckpointsPresent, HeadLinked
  <2>6. SealFailed'
    BY <2>1, <2>2, <1>1, <1>2 DEF SealFailed
  <2> QED
    BY <2>3, <2>4, <2>5, <2>6, <1>1, <1>2, NotClosedYet DEF SealInv
<1>5. CASE segRecords # << >> /\ ~wErr
  <2> DEFINE recs == segRecords
  <2>1. PICK ok \in BOOLEAN : SealSegment(segRecords, segs[Current], ok) /\ sealErr' = ~ok
    BY <1>5 DEF FinalSeal
  <2>2. segFile # "nil" /\ segmentIndex < MaxSegments
    BY <1>0, <1>5 DEF Room
  <2>3. segs[Current] = recs
    BY <2>2, <1>5 DEF SealInv, OpenSegment
  <2>4. /\ recs \in Seq(Record) /\ recs # << >> /\ Len(recs) <= SegmentSize
        /\ SealSegment(recs, recs, ok) /\ segs' \in SegFiles /\ segs'[Current] = recs
    BY <2>1, <2>3, <1>0, <1>1, <1>5 DEF TypeOK
  <2> HIDE DEF recs
  <2>5. /\ OpenSegment' /\ SegmentsSealed' /\ CheckpointsPresent' /\ HeadLinked'
        /\ segFile' = "closed" => segRecords' # << >>
        /\ ok => segRecords' = << >>
    BY <2>2, <2>4, <1>1, <1>5, SealSealing
  <2>6. SealFailed'
    BY <2>1, <2>5, <1>1, <1>2 DEF SealFailed
  <2> QED
    BY <2>5, <2>6, <1>1, <1>2, NotClosedYet DEF SealInv
<1> QED
  BY <1>3, <1>4, <1>5

(* Close returns nil: every acknowledged event of the run is in a sealed      *)
(* segment, because nothing is left in memory.                                *)
LEMMA SealReturns == IInv /\ SealInv /\ CloseReturns => SealInv'
<1> SUFFICES ASSUME IInv, SealInv, CloseReturns
             PROVE  SealInv'
  OBVIOUS
<1>0. TypeOK /\ Alive /\ Room /\ FilesPresent
  BY DEF IInv, FileInv
<1>1. /\ UNCHANGED <<epochFile, segs, ckpts, wormSegs, wormCkpts, acked>> /\ MemoryGone
      /\ bus = "done" /\ closeResult' = (IF sealErr THEN "error" ELSE "nil")
      /\ loggedHead' = prevCkptHash
  BY DEF CloseReturns, disk
<1>2. CleanCloseIsSealed'
  <2> SUFFICES ASSUME closeResult' = "nil"
               PROVE  /\ \A p \in AckedPlaces :
                            /\ ckpts[p[1]] \notin {NoFile, Torn}
                            /\ CheckpointMatchesSegment(segs, ckpts[p[1]])
                            /\ WithWORM => /\ wormSegs[p[1]] = segs[p[1]]
                                           /\ wormCkpts[p[1]] = ckpts[p[1]]
                      /\ prevCkptHash = LastCheckpointHash(ckpts)
    BY <1>1 DEF CleanCloseIsSealed, AckedPlaces
  <2>1. segRecords = << >> /\ segFile # "closed"
    BY <1>1 DEF SealInv, SealFailed
  <2>2. prevCkptHash = LastCheckpointHash(ckpts)
    BY <2>1, <1>1 DEF SealInv, HeadLinked
  <2>3. ASSUME NEW p \in AckedPlaces
        PROVE  SealedAt(p[1])
    <3>1. /\ p \in Places(segs) /\ p[1][1] = epochFile /\ At(segs, p) # Torn
          /\ At(segs, p).event \in acked
      BY DEF AckedPlaces
    <3>2. PICK n \in Present(segs) : p \in {<<n, i>> : i \in DOMAIN segs[n]}
      BY <3>1 DEF Places
    <3>3. PICK i \in DOMAIN segs[n] : p = <<n, i>>
      BY <3>2
    <3>4. n \in Names /\ segs[n] # NoFile
      BY <1>0 DEF Present, TypeOK, SegFiles
    <3>5. i \in 1..Len(segs[n]) /\ Len(segs[n]) \in Nat
      BY <1>0, <3>4, SegFileTyped DEF TypeOK
    <3>6. n[1] = epoch /\ n[2] \in Nat
      BY <3>1, <3>3, <3>4, <1>0, <1>1 DEF Alive, Names
    <3>7. n[2] < segmentIndex \/ (n[2] = segmentIndex /\ segFile # "nil")
      BY <3>4, <3>6, <1>0, <1>1 DEF FilesPresent
    <3>8. ~(n[2] = segmentIndex /\ segFile # "nil")
      <4> SUFFICES ASSUME n[2] = segmentIndex, segFile # "nil"
                   PROVE  FALSE
        OBVIOUS
      <4>1. n = Current
        BY <3>4, <3>6 DEF Current, Names
      <4>2. i > Len(segRecords)
        BY <2>1, <3>5
      <4>3. segs[n][i] # Torn /\ segs[n][i].event \in acked
        BY <3>1, <3>3 DEF At
      <4> QED
        BY <4>1, <4>2, <4>3, <3>5 DEF SealInv, OpenSegment
    <3> QED
      BY <3>3, <3>4, <3>6, <3>7, <3>8, <1>1 DEF SealInv, SegmentsSealed
  <2> QED
    BY <2>2, <2>3 DEF SealedAt
<1>3. \A n \in Names : ckpts'[n] # NoFile => n[1] <= epochFile'
  BY <1>1 DEF SealInv, CheckpointsPresent
<1> QED
  BY <1>1, <1>2, <1>3, SealGone

(* The process dies: the checkpoints it leaves are of its epoch or earlier. *)
LEMMA SealDies ==
    ASSUME IInv, SealInv, Crash \/ CrashWriting \/ CrashInlineSeal \/ CrashFinalSeal \/ PowerLoss
    PROVE  SealInv'
<1>0. TypeOK /\ Alive
  BY DEF IInv
<1>1. bus # "down"
  BY DEF Crash, CrashWriting, CrashInlineSeal, CrashFinalSeal, PowerLoss, WriterReady
<1>2. MemoryGone /\ UNCHANGED <<epochFile, closeResult>>
  BY DEF Crash, CrashWriting, CrashInlineSeal, CrashFinalSeal, PowerLoss, CrashSealing, closing, disk
<1>3. ckpts \in CkptFiles /\ DOMAIN ckpts = Names
  BY <1>0 DEF TypeOK, CkptFiles
<1>4. Current \in Names /\ Current[1] = epochFile /\ epochFile \in Nat
  BY <1>0, <1>1, CurrentIsName DEF Alive, TypeOK
<1>5. \A n \in Names : ckpts'[n] # NoFile => ckpts[n] # NoFile \/ n = Current
  <2>1. CASE Crash \/ CrashWriting
    BY <2>1 DEF Crash, CrashWriting, disk
  <2>2. CASE CrashInlineSeal \/ CrashFinalSeal
    <3>1. \E content : ckpts' = [ckpts EXCEPT ![Current] = content]
      BY <2>2 DEF CrashInlineSeal, CrashFinalSeal, CrashSealing
    <3> QED
      BY <3>1, <1>3, <1>4
  <2>3. CASE PowerLoss
    <3>1. PICK content \in {NoFile, Torn} :
            \E lost \in SUBSET {n \in Present(ckpts) : n[1] = epoch} :
               ckpts' = [n \in Names |-> IF n \in lost THEN content ELSE ckpts[n]]
      BY <2>3 DEF PowerLoss
    <3>2. PICK lost \in SUBSET {n \in Present(ckpts) : n[1] = epoch} :
               ckpts' = [n \in Names |-> IF n \in lost THEN content ELSE ckpts[n]]
      BY <3>1
    <3> QED
      BY <3>2 DEF Present
  <2> QED
    BY <2>1, <2>2, <2>3
<1>6. \A n \in Names : ckpts'[n] # NoFile => n[1] <= epochFile'
  BY <1>2, <1>4, <1>5 DEF SealInv, CheckpointsPresent
<1>7. closeResult' = "none"
  BY <1>1, <1>2 DEF SealInv, SealFailed
<1> QED
  BY <1>2, <1>6, <1>7, NotClosedYet, SealGone

LEMMA SealNext ==
    ASSUME "sync" \notin Faults, IInv, SealInv, [Next]_vars
    PROVE  SealInv'
<1>1. CASE NewBus \/ NewBusFails
  BY <1>1, SealNewBus, SealNewBusFails
<1>2. CASE \E c \in Callers : EmitCheck(c) \/ EmitSend(c) \/ EmitSendPanics(c)
  BY <1>2, SealEmit
<1>3. CASE Process
  <2>1. ~ProcessSyncFails
    BY DEF ProcessSyncFails
  <2> QED
    BY <1>3, <2>1, SealOpenFails, SealEncodeFails, SealWriteFails, SealRecord,
       SealRecordAndSeal DEF Process
<1>4. CASE CloseFlag \/ CloseChannel \/ FinalSeal \/ CloseReturns
  BY <1>4, SealClose, SealFinal, SealReturns
<1>5. CASE Crash \/ CrashWriting \/ CrashInlineSeal \/ CrashFinalSeal \/ PowerLoss
  BY <1>5, SealDies
<1>6. CASE UNCHANGED vars
  BY <1>6, SealStutter
<1> QED
  BY <1>1, <1>2, <1>3, <1>4, <1>5, <1>6 DEF Next

(* Where no fsync fails: when Close returns nil, every acknowledged event of  *)
(* the run is under a signed checkpoint that matches its segment, on disk and *)
(* in the WORM bucket, and the head the gateway logs is the head an offline   *)
(* verifier computes, through failed writes, failed seals, crashes and power  *)
(* losses before it.                                                          *)
THEOREM CleanCloses ==
    ASSUME "sync" \notin Faults
    PROVE  Spec => []CleanCloseIsSealed
<1>1. Init => SealInv
  BY SealInit
<1>2. IInv /\ SealInv /\ [Next]_vars => SealInv'
  BY SealNext
<1>3. SealInv => CleanCloseIsSealed
  BY DEF SealInv
<1> QED
  BY <1>1, <1>2, <1>3, Invariance, PTL DEF Spec

-----------------------------------------------------------------------------
(* Numbers without gaps. *)

(* A set of positive numbers closed under taking one off has all below a member. *)
LEMMA DownwardClosed ==
    ASSUME NEW T, T \subseteq Nat, \A t \in T : t >= 1 /\ (t = 1 \/ t - 1 \in T),
           NEW t \in T, NEW k \in 1..t
    PROVE  k \in T
<1> SUFFICES ASSUME k \notin T
             PROVE  FALSE
  OBVIOUS
<1> DEFINE B == {j \in Nat : j < t /\ t - j \notin T}
<1>1. t - k \in B
  OBVIOUS
<1>2. PICK j \in B : \A l \in B : j <= l
  <2>1. B \subseteq Nat /\ B # {}
    BY <1>1
  <2> HIDE DEF B
  <2> QED
    BY <2>1, LeastNatural
<1>3. j \in Nat /\ j < t /\ t - j \notin T /\ t \in Nat
  OBVIOUS
<1>4. j # 0
  BY <1>3
<1>5. j - 1 \in Nat /\ j - 1 \notin B
  BY <1>2, <1>3, <1>4
<1>6. t - (j - 1) \in T
  BY <1>3, <1>5
<1>7. t - (j - 1) = 1 \/ (t - (j - 1)) - 1 \in T
  BY <1>6
<1> QED
  BY <1>3, <1>7

(* A finite such set is an initial segment of the numbers. *)
LEMMA InitialSegment ==
    ASSUME NEW T, IsFiniteSet(T), T \subseteq Nat,
           \A t \in T : t >= 1 /\ (t = 1 \/ t - 1 \in T)
    PROVE  T = 1..Cardinality(T)
<1>1. \A t \in T : \A k \in 1..t : k \in T
  BY DownwardClosed
<1> DEFINE C == {c \in Nat : c >= 1 /\ c \notin T}
<1>2. C # {}
  <2> SUFFICES ASSUME C = {}
               PROVE  FALSE
    OBVIOUS
  <2> DEFINE N == Cardinality(T)
             S == 1..(N + 1)
  <2>1. N \in Nat
    BY FS_CardinalityType
  <2>2. IsFiniteSet(S) /\ Cardinality(S) = N + 1
    BY <2>1, FS_Interval
  <2>3. S \subseteq T
    BY <2>1
  <2> HIDE DEF S, N
  <2>4. Cardinality(S) <= Cardinality(T)
    BY <2>3, FS_Subset
  <2> QED
    BY <2>1, <2>2, <2>4 DEF N
<1>3. PICK c \in C : \A x \in C : c <= x
  <2>1. C \subseteq Nat
    OBVIOUS
  <2> HIDE DEF C
  <2> QED
    BY <1>2, <2>1, LeastNatural
<1>4. c \in Nat /\ c >= 1 /\ c \notin T
  OBVIOUS
<1>5. T = 1..(c - 1)
  <2>1. ASSUME NEW t \in T
        PROVE  t \in 1..(c - 1)
    <3>1. t \in Nat /\ t >= 1 /\ ~(c \in 1..t)
      BY <1>1, <1>4
    <3> QED
      BY <3>1, <1>4
  <2>2. ASSUME NEW k \in 1..(c - 1)
        PROVE  k \in T
    <3>1. k \notin C
      BY <1>3, <1>4
    <3> QED
      BY <3>1
  <2> QED
    BY <2>1, <2>2
<1>6. Cardinality(1..(c - 1)) = c - 1
  BY <1>4, FS_Interval
<1> HIDE DEF C
<1> QED
  BY <1>4, <1>5, <1>6

(* f numbers S without gaps or repetitions. *)
LEMMA NumbersTo ==
    ASSUME NEW S, IsFiniteSet(S), NEW f \in [S -> Nat],
           \A p, q \in S : f[p] = f[q] => p = q,
           \A p \in S : f[p] >= 1 /\ (f[p] = 1 \/ \E q \in S : f[q] + 1 = f[p])
    PROVE  {f[p] : p \in S} = 1..Cardinality(S)
<1> DEFINE T == {f[p] : p \in S}
<1>1. f \in Surjection(S, T)
  BY DEF Surjection
<1>2. f \in Injection(S, T)
  BY DEF Injection, IsInjective
<1>3. \A t \in T : t >= 1 /\ (t = 1 \/ t - 1 \in T)
  <2> SUFFICES ASSUME NEW p \in S
               PROVE  f[p] >= 1 /\ (f[p] = 1 \/ f[p] - 1 \in T)
    OBVIOUS
  <2>1. CASE f[p] = 1
    BY <2>1
  <2>2. CASE f[p] # 1
    <3>1. PICK q \in S : f[q] + 1 = f[p]
      BY <2>2
    <3>2. f[q] \in T /\ f[q] \in Nat /\ f[p] \in Nat
      OBVIOUS
    <3>3. f[p] - 1 = f[q]
      BY <3>1, <3>2
    <3> QED
      BY <3>2, <3>3
  <2> QED
    BY <2>1, <2>2
<1>4. T \subseteq Nat
  OBVIOUS
<1> HIDE DEF T
<1>5. IsFiniteSet(T) /\ Cardinality(T) = Cardinality(S)
  BY <1>1, <1>2, FS_Surjection
<1>6. T = 1..Cardinality(T)
  BY <1>3, <1>4, <1>5, InitialSegment
<1> QED
  BY <1>5, <1>6 DEF T

-----------------------------------------------------------------------------
(* The chain of records of an epoch. *)

(* The records of the bundle are a function f from their places.  Each is     *)
(* what its hash says and carries the epoch of its file; within an epoch no   *)
(* two have the same number, nor two of an emitter the same sequence number;  *)
(* and each follows on the one before it.                                     *)
Chained(f) ==
    /\ \A p \in DOMAIN f :
          /\ f[p].epoch = p[1][1] /\ ComputeHash(f[p]) = f[p].hash
          /\ f[p].gseq >= 1 /\ f[p].seq >= 1
    /\ \A p, q \in DOMAIN f : p[1][1] = q[1][1] =>
          /\ f[p].gseq = f[q].gseq => p = q
          /\ f[p].emitter = f[q].emitter /\ f[p].seq = f[q].seq => p = q
    /\ \A p \in DOMAIN f :
          \/ f[p].gseq = 1 /\ f[p].prev = Genesis
          \/ \E q \in DOMAIN f :
                q[1][1] = p[1][1] /\ f[q].gseq + 1 = f[p].gseq /\ f[q].hash = f[p].prev
    /\ \A p \in DOMAIN f :
          \/ f[p].seq = 1
          \/ \E q \in DOMAIN f :
                /\ q[1][1] = p[1][1] /\ f[q].emitter = f[p].emitter
                /\ f[q].seq + 1 = f[p].seq

(* No record of epoch e has a number above those in memory ... *)
Bounded(f, e, g, s) ==
    \A p \in DOMAIN f : p[1][1] = e => f[p].gseq <= g /\ f[p].seq <= s[f[p].emitter]

(* ... and those in memory are of records of the epoch. *)
Reached(f, e, g, h, s) ==
    /\ \/ g = 0 /\ h = Genesis
       \/ \E p \in DOMAIN f : p[1][1] = e /\ f[p].gseq = g /\ f[p].hash = h
    /\ \A x \in Emitters :
          \/ s[x] = 0
          \/ \E p \in DOMAIN f : p[1][1] = e /\ f[p].emitter = x /\ f[p].seq = s[x]

(* The fields of a sealed record. *)
LEMMA SealFields ==
    ASSUME NEW x, NEW e, NEW s, NEW g, NEW ev, NEW h, NEW r, r = Seal(x, e, s, g, ev, h)
    PROVE  /\ r.emitter = x /\ r.epoch = e /\ r.seq = s /\ r.gseq = g /\ r.prev = h
           /\ ComputeHash(r) = r.hash
BY DEF Seal, ComputeHash, Core

(* r is the record that comes after those in memory. *)
Follows(r, e, g, h, s) ==
    /\ r \in Record /\ r.epoch = e /\ r.seq = s[r.emitter] + 1 /\ r.gseq = g + 1
    /\ r.prev = h /\ ComputeHash(r) = r.hash

(* The records with r at place q. *)
Put(f, q, r) == [p \in DOMAIN f \cup {q} |-> IF p = q THEN r ELSE f[p]]
Count(s, r) == [s EXCEPT ![r.emitter] = r.seq]

(* The next record extends the chain. *)
LEMMA Extend ==
    ASSUME NEW f, f \in [DOMAIN f -> Record], NEW e, NEW g \in Nat, NEW h,
           NEW s \in [Emitters -> Nat], Chained(f), Bounded(f, e, g, s), Reached(f, e, g, h, s),
           NEW q, q \notin DOMAIN f, q[1][1] = e, NEW r, Follows(r, e, g, h, s)
    PROVE  /\ Chained(Put(f, q, r)) /\ Bounded(Put(f, q, r), e, g + 1, Count(s, r))
           /\ Reached(Put(f, q, r), e, g + 1, r.hash, Count(s, r))
<1> DEFINE W == DOMAIN f
           x == r.emitter
           f2 == Put(f, q, r)
           s2 == Count(s, r)
<1>0. /\ f \in [W -> Record] /\ r \in Record /\ x \in Emitters /\ r.emitter = x /\ r.epoch = e
      /\ r.seq = s[x] + 1 /\ r.gseq = g + 1 /\ r.prev = h /\ ComputeHash(r) = r.hash
      /\ f2 = [p \in W \cup {q} |-> IF p = q THEN r ELSE f[p]]
      /\ s2 = [s EXCEPT ![x] = r.seq]
      /\ q \notin W
  BY DEF Follows, Put, Count, Record
<1> HIDE DEF W, x, f2, s2
<1>1. /\ DOMAIN f2 = W \cup {q} /\ f2[q] = r /\ DOMAIN f = W
      /\ \A p \in W : f2[p] = f[p] /\ p # q
  BY <1>0
<1>2. \A p \in W : /\ f[p] \in Record /\ f[p].gseq \in Nat /\ f[p].seq \in Nat
                   /\ f[p].emitter \in Emitters
  BY <1>0 DEF Record
<1>3. \A y \in Emitters : s[y] \in Nat /\ s2[y] \in Nat /\ s2[y] = IF y = x THEN s[x] + 1 ELSE s[y]
  BY <1>0
<1>4. ASSUME NEW p \in W, p[1][1] = e
      PROVE  f[p].gseq <= g /\ f[p].seq <= s[f[p].emitter]
  BY <1>0, <1>1, <1>4 DEF Bounded
<1> HIDE DEF Record
<1>5. \A p \in DOMAIN f2 :
          /\ f2[p].epoch = p[1][1] /\ ComputeHash(f2[p]) = f2[p].hash
          /\ f2[p].gseq >= 1 /\ f2[p].seq >= 1
  <2>1. r.gseq >= 1 /\ r.seq >= 1
    BY <1>0, <1>3
  <2> QED
    BY <1>0, <1>1, <2>1 DEF Chained
<1>6. \A p, u \in DOMAIN f2 : p[1][1] = u[1][1] =>
          /\ f2[p].gseq = f2[u].gseq => p = u
          /\ f2[p].emitter = f2[u].emitter /\ f2[p].seq = f2[u].seq => p = u
  <2>1. ASSUME NEW p \in W, p[1][1] = e
        PROVE  f[p].gseq # r.gseq /\ ~(f[p].emitter = x /\ f[p].seq = r.seq)
    BY <1>0, <1>2, <1>3, <1>4, <2>1
  <2>2. ASSUME NEW p \in W, NEW u \in W, p[1][1] = u[1][1]
        PROVE  /\ f[p].gseq = f[u].gseq => p = u
               /\ f[p].emitter = f[u].emitter /\ f[p].seq = f[u].seq => p = u
    BY <1>0, <1>1, <2>2 DEF Chained
  <2> QED
    BY <1>0, <1>1, <2>1, <2>2
<1>7. ASSUME NEW p \in DOMAIN f2
      PROVE  \/ f2[p].gseq = 1 /\ f2[p].prev = Genesis
             \/ \E u \in DOMAIN f2 :
                   u[1][1] = p[1][1] /\ f2[u].gseq + 1 = f2[p].gseq /\ f2[u].hash = f2[p].prev
  <2>1. CASE p = q
    <3>1. CASE g = 0 /\ h = Genesis
      BY <1>0, <1>1, <2>1, <3>1
    <3>2. CASE ~(g = 0 /\ h = Genesis)
      <4>1. PICK u \in W : u[1][1] = e /\ f[u].gseq = g /\ f[u].hash = h
        BY <1>0, <3>2, <1>1 DEF Reached
      <4> QED
        BY <1>0, <4>1, <2>1, <1>1
    <3> QED
      BY <1>0, <3>1, <3>2
  <2>2. CASE p \in W
    <3>1. \/ f[p].gseq = 1 /\ f[p].prev = Genesis
          \/ \E u \in W : u[1][1] = p[1][1] /\ f[u].gseq + 1 = f[p].gseq /\ f[u].hash = f[p].prev
      BY <1>0, <1>1, <2>2 DEF Chained
    <3> QED
      BY <1>0, <1>1, <2>2, <3>1
  <2> QED
    BY <1>0, <1>1, <2>1, <2>2
<1>8. ASSUME NEW p \in DOMAIN f2
      PROVE  \/ f2[p].seq = 1
             \/ \E u \in DOMAIN f2 :
                   /\ u[1][1] = p[1][1] /\ f2[u].emitter = f2[p].emitter
                   /\ f2[u].seq + 1 = f2[p].seq
  <2>1. CASE p = q
    <3>1. CASE s[x] = 0
      BY <1>0, <1>1, <2>1, <3>1
    <3>2. CASE s[x] # 0
      <4>1. PICK u \in W : u[1][1] = e /\ f[u].emitter = x /\ f[u].seq = s[x]
        BY <1>0, <3>2, <1>1 DEF Reached
      <4> QED
        BY <1>0, <4>1, <2>1, <1>1
    <3> QED
      BY <1>0, <3>1, <3>2
  <2>2. CASE p \in W
    <3>1. \/ f[p].seq = 1
          \/ \E u \in W : u[1][1] = p[1][1] /\ f[u].emitter = f[p].emitter /\ f[u].seq + 1 = f[p].seq
      BY <1>0, <1>1, <2>2 DEF Chained
    <3> QED
      BY <1>0, <1>1, <2>2, <3>1
  <2> QED
    BY <1>0, <1>1, <2>1, <2>2
<1>9. Bounded(f2, e, g + 1, s2)
  <2> SUFFICES ASSUME NEW p \in DOMAIN f2, p[1][1] = e
               PROVE  f2[p].gseq <= g + 1 /\ f2[p].seq <= s2[f2[p].emitter]
    BY DEF Bounded
  <2>1. CASE p = q
    BY <1>0, <1>1, <1>3, <2>1
  <2>2. CASE p \in W
    <3>1. f[p].gseq <= g /\ f[p].seq <= s[f[p].emitter]
      BY <1>0, <1>4, <2>2
    <3>2. s[f[p].emitter] <= s2[f[p].emitter] /\ s2[f[p].emitter] \in Nat
      BY <1>0, <1>2, <1>3, <2>2
    <3> QED
      BY <1>0, <1>1, <1>2, <1>3, <2>2, <3>1, <3>2
  <2> QED
    BY <1>0, <1>1, <2>1, <2>2
<1>10. Reached(f2, e, g + 1, r.hash, s2)
  <2>1. \E p \in DOMAIN f2 : p[1][1] = e /\ f2[p].gseq = g + 1 /\ f2[p].hash = r.hash
    BY <1>0, <1>1
  <2>2. ASSUME NEW y \in Emitters
        PROVE  \/ s2[y] = 0
               \/ \E p \in DOMAIN f2 : p[1][1] = e /\ f2[p].emitter = y /\ f2[p].seq = s2[y]
    <3>1. CASE y = x
      <4>1. f2[q].emitter = y /\ f2[q].seq = s2[y]
        BY <1>0, <1>1, <1>3, <3>1
      <4> QED
        BY <1>0, <4>1, <1>1
    <3>2. CASE y # x
      <4>1. s2[y] = s[y]
        BY <1>0, <1>3, <3>2
      <4>2. \/ s[y] = 0
            \/ \E p \in W : p[1][1] = e /\ f[p].emitter = y /\ f[p].seq = s[y]
        BY <1>0, <1>1 DEF Reached
      <4> QED
        BY <1>0, <4>1, <4>2, <1>1
    <3> QED
      BY <1>0, <3>1, <3>2
  <2> QED
    BY <1>0, <2>1, <2>2 DEF Reached
<1> QED
  BY <1>5, <1>6, <1>7, <1>8, <1>9, <1>10 DEF Chained, f2, s2

-----------------------------------------------------------------------------
(* The records on disk. *)

(* The places that hold a record, and the records at them. *)
Written == {p \in Places(segs) : At(segs, p) # Torn}
Records == [p \in Written |-> At(segs, p)]

(* A place is a line of a segment file that exists. *)
LEMMA PlaceIs ==
    ASSUME NEW f \in SegFiles, NEW p
    PROVE  p \in Places(f) <=> \E n \in Names : \E i \in Nat :
              p = <<n, i>> /\ f[n] # NoFile /\ i \in 1..Len(f[n])
<1>1. DOMAIN f = Names
  BY DEF SegFiles
<1>2. \A n \in Names : f[n] # NoFile => f[n] \in Seq(Line)
  BY DEF SegFiles, Line
<1>3. \A n \in Names : f[n] # NoFile => DOMAIN f[n] = 1..Len(f[n]) /\ Len(f[n]) \in Nat
  BY <1>2
<1>4. p \in Places(f) <=> \E n \in Names : f[n] # NoFile /\ \E i \in DOMAIN f[n] : p = <<n, i>>
  BY <1>1 DEF Places, Present
<1> QED
  BY <1>3, <1>4

(* What a place of the bundle is made of. *)
LEMMA PlaceFields ==
    ASSUME NEW f \in SegFiles, NEW p \in Places(f)
    PROVE  /\ p = <<p[1], p[2]>> /\ p[1] \in Names /\ p[2] \in Nat /\ f[p[1]] # NoFile
           /\ p[2] \in 1..Len(f[p[1]]) /\ At(f, p) = f[p[1]][p[2]] /\ At(f, p) \in Line
<1>1. PICK n \in Names, i \in Nat : p = <<n, i>> /\ f[n] # NoFile /\ i \in 1..Len(f[n])
  BY PlaceIs
<1>2. p[1] = n /\ p[2] = i
  BY <1>1
<1>3. f[n] \in Seq(Line)
  BY <1>1 DEF SegFiles, Line
<1>4. f[n][i] \in Line
  BY <1>1, <1>3
<1> QED
  BY <1>1, <1>2, <1>4 DEF At

(* A written place holds a record. *)
LEMMA RecordsTyped ==
    ASSUME segs \in SegFiles
    PROVE  Records \in [Written -> Record]
<1>1. ASSUME NEW p \in Written
      PROVE  At(segs, p) \in Record
  <2>1. At(segs, p) \in Line /\ At(segs, p) # Torn
    BY PlaceFields DEF Written
  <2> QED
    BY <2>1 DEF Line
<1> QED
  BY <1>1 DEF Records

(* What writing lines does to the records: at most one more, the next. *)
NewPlace == <<Current, Len(Opened) + 1>>

(* A write adds the record at hand at the end of its file, or nothing. *)
LEMMA RecordsWrite ==
    ASSUME TypeOK, Alive, FilesPresent, queue # << >>, NEW lines, Writes(lines)
    PROVE  /\ lines # <<NextRecord>> => Written' = Written /\ Records' = Records
           /\ lines = <<NextRecord>> =>
                 /\ NewPlace \notin Written /\ Written' = Written \cup {NewPlace}
                 /\ Records' = [p \in Written \cup {NewPlace} |->
                                  IF p = NewPlace THEN NextRecord ELSE Records[p]]
<1> DEFINE g == segs'
           all == Opened \o lines
           k == Len(Opened)
           c == Current
<1>0. segs \in SegFiles /\ c \in Names /\ queue # << >> /\ bus # "down" /\ OpenAllowed
  BY CurrentIsName DEF TypeOK, Writes
<1>1. /\ g \in SegFiles /\ all \in Seq(Line) /\ Len(all) = k + Len(lines) /\ Len(lines) \in Nat
      /\ g[c] = all /\ g[c] # NoFile /\ \A n \in Names : n # c => g[n] = segs[n]
  BY WriteStep
<1>2. /\ Opened \in Seq(Line) /\ k \in Nat
      /\ segs[c] # NoFile => Opened = segs[c]
      /\ segs[c] = NoFile => k = 0
  <2>1. /\ Opened \in Seq(Line) /\ k \in Nat
        /\ segs[c] # NoFile => Opened = segs[c]
        /\ segs[c] = NoFile => Opened = << >>
    BY <1>0, OpenedTyped
  <2>2. Opened = << >> => k = 0
    OBVIOUS
  <2> QED
    BY <2>1, <2>2
<1>3. /\ lines \in Seq(Line) /\ (lines = << >> \/ lines = <<Torn>> \/ lines = <<NextRecord>>)
      /\ (lines = << >> => Len(lines) = 0)
      /\ (lines # << >> => Len(lines) = 1)
      /\ (lines = <<Torn>> => lines[1] = Torn)
      /\ (lines = <<NextRecord>> => lines[1] = NextRecord)
      /\ NextRecord # Torn
  <2>1. lines = << >> \/ lines = <<Torn>> \/ lines = <<NextRecord>>
    BY DEF Writes
  <2>2. NextRecord \in Line /\ NextRecord # Torn /\ Torn \in Line
    BY <1>0, NextTyped DEF Line
  <2>3. CASE lines = << >>
    <3>1. lines \in Seq(Line) /\ Len(lines) = 0
      BY <2>3
    <3> QED
      BY <2>3, <2>2, <3>1, OneLine
  <2>4. CASE lines = <<Torn>>
    BY <2>2, <2>4, OneLine
  <2>5. CASE lines = <<NextRecord>>
    BY <2>2, <2>5, OneLine
  <2> QED
    BY <2>1, <2>3, <2>4, <2>5
<1>4. \A i \in 1..k : all[i] = Opened[i]
  BY <1>2, <1>3
<1>5. lines # << >> => all[k + 1] = lines[1]
  BY <1>2, <1>3
<1> HIDE DEF g, all, k, c
<1>6. ASSUME NEW p \in Places(segs)
      PROVE  p \in Places(g) /\ At(g, p) = At(segs, p) /\ p # <<c, k + 1>>
  <2>1. PICK n \in Names, i \in Nat : p = <<n, i>> /\ segs[n] # NoFile /\ i \in 1..Len(segs[n])
    BY <1>0, PlaceIs
  <2>2. At(segs, p) = segs[n][i] /\ At(g, p) = g[n][i]
    BY <2>1 DEF At
  <2>3. CASE n # c
    BY <2>1, <2>2, <2>3, <1>1, PlaceIs
  <2>4. CASE n = c
    <3>1. i \in 1..k /\ segs[c] = Opened
      BY <2>1, <2>4, <1>2 DEF k
    <3>2. i \in 1..Len(g[n]) /\ g[n] # NoFile /\ g[n][i] = segs[n][i]
      BY <3>1, <2>4, <1>1, <1>2, <1>3, <1>4
    <3>3. p \in Places(g)
      BY <3>2, <2>1, <1>1, PlaceIs
    <3>4. i # k + 1
      BY <3>1, <1>2
    <3> QED
      BY <2>1, <2>2, <3>2, <3>3, <3>4
  <2> QED
    BY <2>3, <2>4
<1>7. ASSUME NEW p \in Places(g)
      PROVE  p \in Places(segs) \/ (p = <<c, k + 1>> /\ lines # << >>)
  <2>1. PICK n \in Names, i \in Nat : p = <<n, i>> /\ g[n] # NoFile /\ i \in 1..Len(g[n])
    BY <1>1, PlaceIs
  <2>2. CASE n # c
    BY <2>1, <2>2, <1>0, <1>1, PlaceIs
  <2>3. CASE n = c
    <3>1. i \in 1..(k + Len(lines))
      BY <2>1, <2>3, <1>1
    <3>2. CASE i \in 1..k
      <4>1. segs[c] # NoFile /\ i \in 1..Len(segs[c])
        BY <3>2, <1>2 DEF k
      <4> QED
        BY <4>1, <2>1, <2>3, <1>0, PlaceIs
    <3>3. CASE i \notin 1..k
      <4>1. lines # << >>
        BY <3>1, <3>3, <1>2, <1>3
      <4>2. i = k + 1
        <5>1. Len(lines) = 1 /\ k \in Nat
          BY <4>1, <1>2, <1>3
        <5> QED
          BY <5>1, <3>1, <3>3
      <4> QED
        BY <4>1, <4>2, <2>1, <2>3
    <3> QED
      BY <3>2, <3>3
  <2> QED
    BY <2>2, <2>3
<1>8. lines # << >> => <<c, k + 1>> \in Places(g) /\ At(g, <<c, k + 1>>) = lines[1]
  <2> SUFFICES ASSUME lines # << >>
               PROVE  <<c, k + 1>> \in Places(g) /\ At(g, <<c, k + 1>>) = lines[1]
    OBVIOUS
  <2>1. k + 1 \in Nat /\ k + 1 \in 1..Len(g[c])
    BY <1>1, <1>2, <1>3
  <2>2. \E n \in Names : \E i \in Nat : /\ <<c, k + 1>> = <<n, i>> /\ g[n] # NoFile
                                        /\ i \in 1..Len(g[n])
    BY <2>1, <1>0, <1>1
  <2> QED
    BY <2>2, <1>1, <1>5, PlaceIs DEF At
<1> DEFINE q == <<c, k + 1>>
           W == {p \in Places(g) : At(g, p) # Torn}
<1>9. NewPlace = q /\ Written' = W /\ Records' = [p \in W |-> At(g, p)]
  BY DEF NewPlace, Written, Records, g, c, k
<1>10. \A p \in Written : p \in W /\ At(g, p) = Records[p] /\ p # q
  BY <1>6 DEF Written, Records
<1>11. CASE lines # <<NextRecord>>
  <2>1. \A p \in W : p \in Written
    BY <1>3, <1>6, <1>7, <1>8, <1>11 DEF Written
  <2>2. W = Written
    BY <1>10, <2>1
  <2>3. [p \in W |-> At(g, p)] = Records
    BY <1>10, <2>2 DEF Records
  <2> QED
    BY <1>9, <1>11, <2>2, <2>3
<1>12. CASE lines = <<NextRecord>>
  <2>0. lines # << >>
    BY <1>12, OneLine
  <2>1. \A p \in W : p \in Written \/ p = q
    BY <1>6, <1>7 DEF Written
  <2>2. q \in W /\ At(g, q) = NextRecord
    BY <1>3, <1>8, <1>12, <2>0
  <2>3. W = Written \cup {q}
    BY <1>10, <2>1, <2>2
  <2> HIDE DEF W, q
  <2>4. [p \in W |-> At(g, p)]
          = [p \in Written \cup {q} |-> IF p = q THEN NextRecord ELSE Records[p]]
    BY <1>10, <2>2, <2>3
  <2> QED
    BY <1>9, <1>10, <1>12, <2>3, <2>4
<1> QED
  BY <1>11, <1>12

-----------------------------------------------------------------------------
(* The records on disk stay a chain. *)

(* The records on disk, and what memory holds of the chain while it runs:     *)
(* where no write has failed, its end.                                        *)
RecordInv ==
    /\ Chained(Records)
    /\ bus = "down" => /\ globalSeq = 0 /\ chainHead = Genesis
                       /\ perEmitterSeq = [x \in Emitters |-> 0]
    /\ bus # "down" =>
          /\ Reached(Records, epoch, globalSeq, chainHead, perEmitterSeq)
          /\ ~wErr => Bounded(Records, epoch, globalSeq, perEmitterSeq)

(* The records are what the segment files hold. *)
LEMMA RecordsSame == segs' = segs => Records' = Records
BY DEF Records, Written

(* A step that leaves the files and the chain in memory alone. *)
LEMMA RecordQuiet ==
    ASSUME RecordInv, Records' = Records,
           UNCHANGED <<perEmitterSeq, globalSeq, chainHead, epoch>>, wErr => wErr',
           bus' = bus \/ (bus # "down" /\ bus' # "down")
    PROVE  RecordInv'
BY DEF RecordInv, Chained, Reached, Bounded

(* The process ends: of the chain only the files are left. *)
LEMMA RecordGone ==
    ASSUME MemoryGone, Chained(Records')
    PROVE  RecordInv'
<1>1. /\ bus' = "down" /\ globalSeq' = 0 /\ chainHead' = Genesis
      /\ perEmitterSeq' = [x \in Emitters |-> 0]
  BY DEF MemoryGone
<1>2. Chained(Records)'
  BY DEF Chained
<1> QED
  BY <1>1, <1>2 DEF RecordInv, Genesis

(* The record at hand follows on the chain in memory. *)
LEMMA NextFields ==
    /\ NextRecord.emitter = Submission.emitter /\ NextRecord.epoch = epoch
    /\ NextRecord.seq = perEmitterSeq[Submission.emitter] + 1
    /\ NextRecord.gseq = globalSeq + 1 /\ NextRecord.prev = chainHead
    /\ ComputeHash(NextRecord) = NextRecord.hash
<1> DEFINE x == Submission.emitter
           s == perEmitterSeq[Submission.emitter] + 1
           g == globalSeq + 1
           ev == Submission.event
           r == NextRecord
<1>1. r = Seal(x, epoch, s, g, ev, chainHead)
  BY DEF NextRecord
<1> HIDE DEF x, s, g, ev, r
<1>2. /\ r.emitter = x /\ r.epoch = epoch /\ r.seq = s /\ r.gseq = g /\ r.prev = chainHead
      /\ ComputeHash(r) = r.hash
  BY <1>1, SealFields
<1> QED
  BY <1>2 DEF x, s, g, ev, r

(* A write leaves the records chained; a whole line is the next of the chain. *)
LEMMA RecordWrite ==
    ASSUME IInv, RecordInv, queue # << >>, bus # "down", ~wErr, NEW lines, Writes(lines)
    PROVE  /\ Chained(Records')
           /\ lines # <<NextRecord>> => Records' = Records
           /\ Reached(Records', epoch, globalSeq, chainHead, perEmitterSeq)
           /\ lines = <<NextRecord>> =>
                 /\ Bounded(Records', epoch, globalSeq + 1, Count(perEmitterSeq, NextRecord))
                 /\ Reached(Records', epoch, globalSeq + 1, NextRecord.hash,
                            Count(perEmitterSeq, NextRecord))
<1> DEFINE f == Records
           f2 == Records'
           q == NewPlace
           r == NextRecord
           s == perEmitterSeq
<1>0. TypeOK /\ Alive /\ FilesPresent
  BY DEF IInv, FileInv
<1>1. f \in [Written -> Record] /\ DOMAIN f = Written /\ f \in [DOMAIN f -> Record]
  BY <1>0, RecordsTyped DEF TypeOK
<1>2. /\ lines # <<NextRecord>> => f2 = f
      /\ lines = <<NextRecord>> => q \notin DOMAIN f /\ f2 = Put(f, q, r)
  BY <1>0, <1>1, RecordsWrite DEF Put
<1>3. s \in [Emitters -> Nat] /\ globalSeq \in Nat
  BY <1>0 DEF TypeOK
<1>4. /\ Chained(f) /\ Reached(f, epoch, globalSeq, chainHead, s)
      /\ Bounded(f, epoch, globalSeq, s)
  BY DEF RecordInv
<1>5. Follows(r, epoch, globalSeq, chainHead, s)
  BY <1>0, NextTyped, NextFields DEF Follows
<1>6. q[1][1] = epoch
  BY DEF NewPlace, Current
<1> HIDE DEF f, s, r, q, f2
<1>8. CASE lines = <<NextRecord>>
  <2>0. q \notin DOMAIN f /\ f2 = Put(f, q, r)
    BY <1>2, <1>8
  <2>1. /\ Chained(Put(f, q, r)) /\ Bounded(Put(f, q, r), epoch, globalSeq + 1, Count(s, r))
        /\ Reached(Put(f, q, r), epoch, globalSeq + 1, r.hash, Count(s, r))
    BY <1>1, <2>0, <1>3, <1>4, <1>5, <1>6, Extend
  <2>2. DOMAIN f \subseteq DOMAIN f2 /\ \A p \in DOMAIN f : f2[p] = f[p]
    BY <2>0 DEF Put
  <2>3. Reached(f2, epoch, globalSeq, chainHead, s)
    BY <1>4, <2>2 DEF Reached
  <2> QED
    BY <1>8, <2>0, <2>1, <2>3 DEF s, r, f2
<1>9. CASE lines # <<NextRecord>>
  BY <1>2, <1>4, <1>9 DEF s, r, f2, f
<1> QED
  BY <1>8, <1>9

(* NewBus takes an epoch of which there is no record. *)
LEMMA RecordNewBus == IInv /\ RecordInv /\ NewBus => RecordInv'
<1> SUFFICES ASSUME IInv, RecordInv, NewBus
             PROVE  RecordInv'
  OBVIOUS
<1>0. TypeOK /\ FilesPresent
  BY DEF IInv, FileInv
<1>1. /\ UNCHANGED <<segs, perEmitterSeq, globalSeq, chainHead, wErr>>
      /\ bus = "down" /\ bus' # "down" /\ epoch' = epochFile + 1
  BY DEF NewBus, AdvanceEpoch, chain
<1>2. Records' = Records
  BY <1>1, RecordsSame
<1>3. ASSUME NEW p \in DOMAIN Records
      PROVE  p[1][1] # epoch'
  <2>1. p \in Places(segs)
    BY DEF Records, Written
  <2>2. p[1] \in Names /\ segs[p[1]] # NoFile
    BY <1>0, <2>1, PlaceFields DEF TypeOK
  <2>3. p[1][1] <= epochFile /\ p[1][1] \in Nat /\ epochFile \in Nat
    BY <1>0, <2>2 DEF FilesPresent, Names, TypeOK
  <2> QED
    BY <2>3, <1>1
<1>4. /\ Chained(Records) /\ globalSeq = 0 /\ chainHead = Genesis
      /\ perEmitterSeq = [x \in Emitters |-> 0]
  BY <1>1 DEF RecordInv
<1>5. Bounded(Records, epoch', globalSeq, perEmitterSeq)
  BY <1>3 DEF Bounded
<1>6. Reached(Records, epoch', globalSeq, chainHead, perEmitterSeq)
  BY <1>4 DEF Reached
<1> HIDE DEF Records
<1>7. Chained(Records)' /\ bus' # "down"
  BY <1>1, <1>2, <1>4 DEF Chained
<1>8. /\ Reached(Records, epoch, globalSeq, chainHead, perEmitterSeq)'
      /\ Bounded(Records, epoch, globalSeq, perEmitterSeq)'
  BY <1>1, <1>2, <1>5, <1>6 DEF Reached, Bounded
<1> QED
  BY <1>7, <1>8 DEF RecordInv

(* A bundle without files. *)
LEMMA RecordInit == Init => RecordInv
<1> SUFFICES ASSUME Init
             PROVE  RecordInv
  OBVIOUS
<1>1. segs = [n \in Names |-> NoFile] /\ bus = "down"
  BY DEF Init
<1>2. Present(segs) = {}
  BY <1>1 DEF Present
<1>3. Places(segs) = {}
  BY <1>2 DEF Places
<1>4. DOMAIN Records = {}
  BY <1>3 DEF Records, Written
<1>5. Chained(Records)
  BY <1>4 DEF Chained
<1> QED
  BY <1>1, <1>5 DEF Init, RecordInv

(* The record is committed: memory moves to it. *)
LEMMA RecordCommit ==
    ASSUME IInv, RecordInv, WriterReady, OpenAllowed, ~wErr, Commit,
           epoch' = epoch, bus' = bus
    PROVE  RecordInv'
<1> DEFINE lines == <<NextRecord>>
<1>0. TypeOK /\ Alive /\ FilesPresent /\ bus # "down" /\ queue # << >>
  BY ReadyFacts DEF IInv, FileInv
<1>1. lines = <<NextRecord>>
  OBVIOUS
<1> HIDE DEF lines
<1>2. Writes(lines)
  BY <1>0, <1>1, CommitStep
<1>3. /\ Chained(Records')
      /\ Bounded(Records', epoch, globalSeq + 1, Count(perEmitterSeq, NextRecord))
      /\ Reached(Records', epoch, globalSeq + 1, NextRecord.hash,
                 Count(perEmitterSeq, NextRecord))
  BY <1>0, <1>1, <1>2, RecordWrite
<1>4. /\ globalSeq' = globalSeq + 1 /\ chainHead' = NextRecord.hash
      /\ perEmitterSeq' = Count(perEmitterSeq, NextRecord)
  BY NextFields DEF Commit, Count
<1>5. /\ Chained(Records')
      /\ Bounded(Records', epoch', globalSeq', perEmitterSeq')
      /\ Reached(Records', epoch', globalSeq', chainHead', perEmitterSeq')
  BY <1>3, <1>4
<1>6. bus' # "down"
  BY <1>0
<1> QED
  BY <1>5, <1>6 DEF RecordInv, Chained, Bounded, Reached

(* A record that cannot be encoded leaves no line. *)
LEMMA RecordEncodeFails == IInv /\ RecordInv /\ ProcessEncodeFails => RecordInv'
<1> SUFFICES ASSUME IInv, RecordInv, ProcessEncodeFails
             PROVE  RecordInv'
  OBVIOUS
<1> DEFINE lines == << >>
<1>0. TypeOK /\ Alive /\ FilesPresent
  BY DEF IInv, FileInv
<1>1. /\ UNCHANGED <<perEmitterSeq, globalSeq, chainHead, epoch, wErr, bus>>
      /\ segs' = [segs EXCEPT ![Current] = Opened] /\ WriterReady /\ OpenAllowed
  BY DEF ProcessEncodeFails, Reply, chain
<1>2. bus # "down" /\ queue # << >> /\ lines = << >> /\ lines # <<NextRecord>>
  BY <1>1, ReadyFacts, OneLine
<1> HIDE DEF lines
<1>3. Writes(lines)
  BY <1>0, <1>1, <1>2, NothingWritten DEF Writes
<1>4. Records' = Records
  BY <1>0, <1>2, <1>3, RecordsWrite
<1> QED
  BY <1>1, <1>4, RecordQuiet

(* A write that fails leaves at most the record at hand, and the error. *)
LEMMA RecordWriteFails == IInv /\ RecordInv /\ ProcessWriteFails => RecordInv'
<1> SUFFICES ASSUME IInv, RecordInv, ProcessWriteFails
             PROVE  RecordInv'
  OBVIOUS
<1>1. /\ UNCHANGED <<perEmitterSeq, globalSeq, chainHead, epoch, bus>> /\ wErr' = TRUE
      /\ WriterReady /\ OpenAllowed
  BY DEF ProcessWriteFails, Reply, chain
<1>2. bus # "down" /\ queue # << >>
  BY <1>1, ReadyFacts
<1>3. CASE segs' = segs
  BY <1>1, <1>3, RecordsSame, RecordQuiet
<1>4. CASE segs' # segs
  <2>1. ~wErr
    BY <1>4 DEF ProcessWriteFails
  <2>2. PICK lines \in {<< >>, <<Torn>>, <<NextRecord>>} : Writes(lines)
    BY WriteFailsWrites
  <2>3. /\ Chained(Records')
        /\ Reached(Records', epoch, globalSeq, chainHead, perEmitterSeq)
    BY <1>2, <2>1, <2>2, RecordWrite
  <2>4. Reached(Records', epoch', globalSeq', chainHead', perEmitterSeq')
    BY <1>1, <2>3
  <2> QED
    BY <1>1, <1>2, <2>3, <2>4 DEF RecordInv, Chained, Reached
<1> QED
  BY <1>3, <1>4

(* A crash leaves at most the record at hand. *)
LEMMA RecordDies ==
    ASSUME IInv, RecordInv, Crash \/ CrashWriting \/ CrashInlineSeal \/ CrashFinalSeal
    PROVE  RecordInv'
<1>0. TypeOK /\ Alive /\ FilesPresent
  BY DEF IInv, FileInv
<1>1. MemoryGone
  BY DEF Crash, CrashWriting, CrashInlineSeal, CrashFinalSeal, CrashSealing
<1>2. CASE segs' = segs
  BY <1>1, <1>2, RecordsSame, RecordGone DEF RecordInv
<1>3. CASE CrashWriting \/ CrashInlineSeal
  <2>1. WriterReady /\ OpenAllowed /\ ~wErr
    BY <1>3 DEF CrashWriting, CrashInlineSeal
  <2>2. bus # "down" /\ queue # << >>
    BY <2>1, ReadyFacts
  <2>3. \E lines \in {<< >>, <<Torn>>, <<NextRecord>>} : Writes(lines)
    <3>1. CASE CrashWriting
      BY <2>1, <2>2, <3>1 DEF CrashWriting, Writes
    <3>2. CASE CrashInlineSeal
      <4> DEFINE lines == <<NextRecord>>
      <4>1. segs' = [segs EXCEPT ![Current] = Append(Opened, NextRecord)]
        BY <3>2 DEF CrashInlineSeal
      <4>2. lines = <<NextRecord>>
        OBVIOUS
      <4> HIDE DEF lines
      <4>3. Writes(lines)
        BY <1>0, <2>1, <4>1, <4>2, WholeLine
      <4> QED
        BY <4>2, <4>3
    <3> QED
      BY <1>3, <3>1, <3>2
  <2>4. PICK lines \in {<< >>, <<Torn>>, <<NextRecord>>} : Writes(lines)
    BY <2>3
  <2> QED
    BY <1>1, <2>1, <2>2, <2>4, RecordWrite, RecordGone
<1> QED
  BY <1>2, <1>3 DEF Crash, CrashFinalSeal, disk

(* Every step but a failed fsync and a power loss keeps the records a chain. *)
LEMMA RecordNext ==
    ASSUME Faults \cap {"sync", "power"} = {}, IInv, RecordInv, [Next]_vars
    PROVE  RecordInv'
<1>1. CASE NewBus
  BY <1>1, RecordNewBus
<1>2. CASE \/ NewBusFails \/ ProcessOpenFails \/ CloseFlag \/ CloseChannel \/ UNCHANGED vars
           \/ \E c \in Callers : EmitCheck(c) \/ EmitSend(c)
  <2>1. /\ UNCHANGED <<segs, perEmitterSeq, globalSeq, chainHead, epoch, wErr>>
        /\ bus' = bus \/ (bus # "down" /\ bus' # "down")
    BY <1>2 DEF NewBusFails, ProcessOpenFails, CloseFlag, CloseChannel, vars, EmitCheck, EmitSend,
                disk, chain, segment, Reply
  <2> QED
    BY <2>1, RecordsSame, RecordQuiet
<1>3. ASSUME NEW c \in Callers, EmitSendPanics(c)
      PROVE  RecordInv'
  <2>1. segs' = segs
    BY <1>3 DEF EmitSendPanics, disk
  <2>2. CASE MemoryGone
    BY <2>1, <2>2, RecordsSame, RecordGone DEF RecordInv
  <2>3. CASE ~MemoryGone
    <3>1. UNCHANGED <<perEmitterSeq, globalSeq, chainHead, epoch, wErr, bus>>
      BY <1>3, <2>3 DEF EmitSendPanics, chain, segment
    <3> QED
      BY <2>1, <3>1, RecordsSame, RecordQuiet
  <2> QED
    BY <2>2, <2>3
<1>4. CASE ProcessRecord \/ ProcessRecordAndSeal
  <2>1. /\ WriterReady /\ OpenAllowed /\ ~wErr /\ Commit /\ epoch' = epoch /\ bus' = bus
    BY <1>4 DEF ProcessRecord, ProcessRecordAndSeal, Reply
  <2> QED
    BY <2>1, RecordCommit
<1>5. CASE FinalSeal
  <2>1. UNCHANGED <<segs, perEmitterSeq, globalSeq, chainHead, epoch, wErr>>
    BY <1>5 DEF FinalSeal, chain, segment, SealSegment, SealOK, SealFlushFails, SealCloseFails,
                SealCheckpointFails, SealUploadFails
  <2>2. bus # "down" /\ bus' # "down"
    BY <1>5 DEF FinalSeal
  <2> QED
    BY <2>1, <2>2, RecordsSame, RecordQuiet
<1>6. CASE CloseReturns
  <2>1. MemoryGone /\ segs' = segs
    BY <1>6 DEF CloseReturns, disk
  <2> QED
    BY <2>1, RecordsSame, RecordGone DEF RecordInv
<1>7. ~ProcessSyncFails /\ ~PowerLoss
  BY DEF ProcessSyncFails, PowerLoss
<1> QED
  BY <1>1, <1>2, <1>3, <1>4, <1>5, <1>6, <1>7, RecordEncodeFails, RecordWriteFails, RecordDies
  DEF Next, Process

-----------------------------------------------------------------------------
(* The list of checkpoints. *)

(* The hash the checkpoint named n has to carry: of the last one before it. *)
EarlierHash(f, n) ==
    LET E == {m \in Present(f) : Before(m, n)}
    IN  IF E = {} THEN Genesis ELSE HashHex(f[Latest(E)])

(* A checkpoint that parses has its own name and matches its segment, every   *)
(* line of which parses.                                                      *)
CkptSound(s, f, n) ==
    f[n] \notin {NoFile, Torn} =>
        /\ CkptName(f[n]) = n /\ f[n].signed /\ CheckpointMatchesSegment(s, f[n])
        /\ s[n] # NoFile /\ \A i \in 1..Len(s[n]) : s[n][i] # Torn

CkptsLinked(f) ==
    (\A n \in Names : f[n] # Torn) => \A n \in Present(f) : f[n].prev = EarlierHash(f, n)

CkptInv == (\A n \in Names : CkptSound(segs, ckpts, n)) /\ CkptsLinked(ckpts)

(* A step that leaves the files alone. *)
LEMMA CkptSame == CkptInv /\ UNCHANGED <<segs, ckpts>> => CkptInv'
BY DEF CkptInv

(* A checkpoint over a segment that is no longer written stays sound. *)
LEMMA SoundStays ==
    ASSUME NEW s, NEW t, NEW f, NEW g, NEW n, CkptSound(s, f, n), DOMAIN t = DOMAIN s,
           t[n] = s[n], g[n] = f[n]
    PROVE  CkptSound(t, g, n)
<1> SUFFICES ASSUME f[n] \notin {NoFile, Torn}
             PROVE  /\ CkptName(f[n]) = n /\ f[n].signed /\ CheckpointMatchesSegment(t, f[n])
                    /\ t[n] # NoFile /\ \A i \in 1..Len(t[n]) : t[n][i] # Torn
  BY DEF CkptSound
<1>1. /\ CkptName(f[n]) = n /\ f[n].signed /\ CheckpointMatchesSegment(s, f[n])
      /\ s[n] # NoFile /\ \A i \in 1..Len(s[n]) : s[n][i] # Torn
  BY DEF CkptSound
<1>2. CheckpointMatchesSegment(t, f[n])
  <2> DEFINE c == f[n]
  <2>1. CkptName(c) = n /\ CheckpointMatchesSegment(s, c)
    BY <1>1
  <2> HIDE DEF c
  <2>2. CheckpointMatchesSegment(t, c)
    BY <2>1, MatchStays
  <2> QED
    BY <2>2 DEF c
<1> QED
  BY <1>1, <1>2

(* While no seal has failed there is no checkpoint of the segment at hand. *)
LEMMA NoneYet ==
    ASSUME TypeOK, Alive, CheckpointsPresent, bus # "down", segFile # "closed"
    PROVE  /\ ckpts[Current] = NoFile
           /\ \A n \in Present(ckpts) : n \in Names /\ n # Current /\ Before(n, Current)
                                        /\ ~Before(Current, n)
<1>1. Current \in Names /\ Current[1] = epoch /\ Current[2] = segmentIndex
  BY CurrentIsName
<1>2. ckpts \in CkptFiles /\ epoch = epochFile /\ epochFile \in Nat /\ segmentIndex \in Nat
  BY DEF TypeOK, Alive
<1>3. ASSUME NEW n \in Names, ckpts[n] # NoFile
      PROVE  n # Current /\ Before(n, Current) /\ ~Before(Current, n)
  <2>1. n[1] \in Nat /\ n[2] \in Nat
    BY DEF Names
  <2>2. n[1] <= epoch /\ (n[1] = epoch => n[2] < segmentIndex)
    BY <1>2, <1>3 DEF CheckpointsPresent
  <2> QED
    BY <1>1, <1>2, <2>1, <2>2 DEF Before
<1> QED
  BY <1>1, <1>2, <1>3 DEF Present, CkptFiles

(* A step that writes lines only to a segment that has no checkpoint. *)
LEMMA CkptKept ==
    ASSUME IInv, CheckpointsPresent, CkptInv, bus # "down", segFile # "closed",
           DOMAIN segs' = Names, \A n \in Names : n # Current => segs'[n] = segs[n],
           ckpts' = ckpts
    PROVE  CkptInv'
<1>0. TypeOK /\ Alive
  BY DEF IInv
<1>1. ASSUME NEW n \in Names
      PROVE  CkptSound(segs', ckpts', n)
  <2>1. CASE n = Current
    <3>1. ckpts'[n] = NoFile
      BY <1>0, <2>1, NoneYet
    <3> QED
      BY <3>1 DEF CkptSound
  <2>2. CASE n # Current
    <3> DEFINE t == segs'
               g == ckpts'
    <3>1. /\ DOMAIN t = DOMAIN segs /\ t[n] = segs[n] /\ g[n] = ckpts[n]
          /\ CkptSound(segs, ckpts, n)
      BY <1>0, <2>2 DEF TypeOK, SegFiles, CkptInv
    <3> HIDE DEF t, g
    <3>2. CkptSound(t, g, n)
      BY <3>1, SoundStays
    <3> QED
      BY <3>2 DEF t, g
  <2> QED
    BY <2>1, <2>2
<1> QED
  BY <1>1 DEF CkptInv, CkptSound

(* What a seal, or a crash in one, may do to the checkpoints. *)
Puts(recs) ==
    \/ ckpts' = ckpts
    \/ \E content \in {NoFile, Torn, NewCheckpoint(Current, recs, prevCkptHash)} :
          ckpts' = [ckpts EXCEPT ![Current] = content]

(* Checkpoints that agree before n ask the same hash of it. *)
LEMMA SameEarlier ==
    ASSUME NEW f, NEW g, NEW n, Present(f) \subseteq Present(g),
           \A m \in Present(g) : m \in Present(f) \/ ~Before(m, n),
           \A m \in Present(f) : g[m] = f[m], Present(f) \subseteq Names
    PROVE  EarlierHash(g, n) = EarlierHash(f, n)
<1> DEFINE E == {m \in Present(f) : Before(m, n)}
           F == {m \in Present(g) : Before(m, n)}
<1>1. E = F /\ E \subseteq Names
  OBVIOUS
<1>2. E # {} => g[Latest(E)] = f[Latest(E)]
  <2>1. E # {} => Latest(E) \in E
    <3> HIDE DEF E
    <3> QED
      BY <1>1, LatestIsMember
  <2> QED
    BY <2>1
<1>3. EarlierHash(f, n) = IF E = {} THEN Genesis ELSE HashHex(f[Latest(E)])
  BY DEF EarlierHash
<1>4. EarlierHash(g, n) = IF F = {} THEN Genesis ELSE HashHex(g[Latest(F)])
  BY DEF EarlierHash
<1> HIDE DEF E, F
<1> QED
  BY <1>1, <1>2, <1>3, <1>4

(* A seal, or a crash in one, keeps the checkpoints sound and linked. *)
LEMMA CkptPuts ==
    ASSUME IInv, SealInv, CkptInv, bus # "down", segFile # "closed",
           NEW recs \in Seq(Record), recs # << >>,
           segs' \in SegFiles, segs'[Current] = recs,
           \A n \in Names : n # Current => segs'[n] = segs[n], Puts(recs)
    PROVE  CkptInv'
<1>0. /\ TypeOK /\ Alive /\ CheckpointsPresent /\ HeadLinked
      /\ segs \in SegFiles /\ DOMAIN segs' = Names /\ DOMAIN segs = Names
      /\ ckpts \in CkptFiles /\ DOMAIN ckpts = Names /\ prevCkptHash \in Seq(Link)
  BY DEF IInv, SealInv, TypeOK, SegFiles, CkptFiles
<1>1. CASE ckpts' = ckpts
  BY <1>0, <1>1, CkptKept
<1>2. ASSUME NEW content, ckpts' = [ckpts EXCEPT ![Current] = content],
             content = NoFile \/ content = Torn \/ content = NewCheckpoint(Current, recs, prevCkptHash)
      PROVE  CkptInv'
  <2> DEFINE s == segs'
             g == ckpts'
             here == Current
             c == NewCheckpoint(Current, recs, prevCkptHash)
  <2>1. here \in Names
    BY <1>0, CurrentIsName
  <2>2. /\ DOMAIN g = Names /\ g[here] = content
        /\ \A n \in Names : n # here => g[n] = ckpts[n]
    BY <1>0, <1>2, <2>1
  <2>3. /\ ckpts[here] = NoFile
        /\ \A n \in Present(ckpts) : /\ n \in Names /\ n # here /\ Before(n, here)
                                     /\ ~Before(here, n)
    BY <1>0, NoneYet
  <2>4. c \in Checkpoint /\ CkptName(c) = here /\ CheckpointMatchesSegment(s, c) /\ c.signed
        /\ c.prev = prevCkptHash
    <3>1. c \in Checkpoint
      BY <1>0, <2>1, CheckpointTyped
    <3>2. c.signed /\ c.prev = prevCkptHash
      BY DEF NewCheckpoint
    <3>3. c = NewCheckpoint(here, recs, prevCkptHash) /\ s \in SegFiles /\ s[here] = recs
      OBVIOUS
    <3> HIDE DEF c, s, here
    <3>4. CkptName(c) = here /\ CheckpointMatchesSegment(s, c)
      BY <1>0, <2>1, <3>3, NewMatches
    <3> QED
      BY <3>1, <3>2, <3>4
  <2>5. s[here] # NoFile /\ \A i \in 1..Len(s[here]) : s[here][i] # Torn
    <3>1. recs \in Seq(Line)
      BY DEF Line
    <3>2. \A i \in 1..Len(recs) : recs[i] \in Record
      OBVIOUS
    <3> QED
      BY <3>1, <3>2, LinesAreFiles, MarkAssumption
  <2>6. c # NoFile /\ c # Torn /\ NoFile # Torn
    BY <2>4, MarkAssumption, BusAssumption
  <2>7. \A n \in Names : CkptSound(segs, ckpts, n)
    BY DEF CkptInv
  <2>8. content = NoFile \/ content = Torn \/ content = c
    BY <1>2
  <2>9. s[here] = recs /\ DOMAIN s = DOMAIN segs /\ \A n \in Names : n # here => s[n] = segs[n]
    BY <1>0
  <2>lnk. CkptsLinked(ckpts) /\ prevCkptHash = LastCheckpointHash(ckpts)
    BY <1>0 DEF CkptInv, HeadLinked
  <2>out. (\A n \in Names : CkptSound(s, g, n)) /\ CkptsLinked(g) => CkptInv'
    BY DEF CkptInv, CkptSound, CkptsLinked, EarlierHash
  <2> HIDE DEF s, g, here, c
  <2>10. ASSUME NEW n \in Names
         PROVE  CkptSound(s, g, n)
    <3>1. CASE n = here
      BY <3>1, <2>2, <2>4, <2>5, <2>8 DEF CkptSound
    <3>2. CASE n # here
      BY <3>2, <2>2, <2>7, <2>9, SoundStays
    <3> QED
      BY <3>1, <3>2
  <2>11. CkptsLinked(g)
    <3> SUFFICES ASSUME \A n \in Names : g[n] # Torn, NEW n \in Present(g)
                 PROVE  g[n].prev = EarlierHash(g, n)
      BY DEF CkptsLinked
    <3>1. \A m \in Names : ckpts[m] # Torn
      BY <2>2, <2>3, <2>6
    <3>2. Present(ckpts) \subseteq Present(g) /\ Present(ckpts) \subseteq Names
      BY <2>2, <2>3, <1>0 DEF Present
    <3>3. \A m \in Present(g) : m \in Present(ckpts) \/ m = here
      BY <2>2, <1>0 DEF Present
    <3>4. \A m \in Present(ckpts) : g[m] = ckpts[m]
      BY <2>2, <2>3
    <3>5. CASE n \in Present(ckpts)
      <4>1. \A m \in Present(g) : m \in Present(ckpts) \/ ~Before(m, n)
        BY <3>3, <3>5, <2>3
      <4>2. EarlierHash(g, n) = EarlierHash(ckpts, n)
        BY <3>2, <3>4, <4>1, SameEarlier
      <4>3. ckpts[n].prev = EarlierHash(ckpts, n)
        BY <3>1, <3>5, <2>lnk DEF CkptsLinked
      <4> QED
        BY <3>4, <3>5, <4>2, <4>3
    <3>6. CASE n = here
      <4>1. g[n] = c
        BY <3>6, <2>2, <2>8, <1>0 DEF Present
      <4>2. ~Before(here, here)
        BY <2>1, BusAssumption DEF Before, Names
      <4>3. {m \in Present(g) : Before(m, here)} = Present(ckpts)
        BY <3>2, <3>3, <2>3, <4>2
      <4> DEFINE E == Present(ckpts)
      <4>4. EarlierHash(g, here) = IF E = {} THEN Genesis ELSE HashHex(g[Latest(E)])
        BY <4>3 DEF EarlierHash
      <4>5. E # {} => g[Latest(E)] = ckpts[Latest(E)]
        <5>1. E # {} => Latest(E) \in E
          BY <3>2, LatestIsMember
        <5> QED
          BY <5>1, <3>4
      <4>6. LastCheckpointHash(ckpts) = IF E = {} THEN Genesis ELSE HashHex(ckpts[Latest(E)])
        BY DEF LastCheckpointHash
      <4> QED
        BY <3>6, <4>1, <4>4, <4>5, <4>6, <2>4, <2>lnk
    <3> QED
      BY <3>3, <3>5, <3>6
  <2> QED
    BY <2>10, <2>11, <2>out
<1> QED
  BY <1>1, <1>2 DEF Puts

(* A bundle without files. *)
LEMMA CkptInit == Init => CkptInv
<1> SUFFICES ASSUME Init
             PROVE  CkptInv
  OBVIOUS
<1>1. \A n \in Names : ckpts[n] = NoFile
  BY DEF Init
<1>2. Present(ckpts) = {}
  BY <1>1 DEF Init, Present
<1> QED
  BY <1>1, <1>2 DEF CkptInv, CkptSound, CkptsLinked

(* The files of the other segments stay. *)
LEMMA OthersStay ==
    ASSUME IInv, NEW lines, Writes(lines), queue # << >>
    PROVE  segs' \in SegFiles /\ \A n \in Names : n # Current => segs'[n] = segs[n]
<1>1. TypeOK /\ Alive /\ FilesPresent
  BY DEF IInv, FileInv
<1> QED
  BY <1>1, WriteStep

(* Every step that seals nothing. *)
LEMMA CkptUnsealed ==
    ASSUME IInv, SealInv, CkptInv, ProcessEncodeFails \/ ProcessWriteFails \/ ProcessRecord
                                   \/ CrashWriting
    PROVE  CkptInv'
<1>0. TypeOK /\ Alive /\ FilesPresent /\ CheckpointsPresent
  BY DEF IInv, FileInv, SealInv
<1>1. ckpts' = ckpts /\ WriterReady /\ OpenAllowed
  BY DEF ProcessEncodeFails, ProcessWriteFails, ProcessRecord, CrashWriting
<1>2. bus # "down" /\ queue # << >>
  BY <1>1, ReadyFacts
<1>3. CASE segs' = segs
  BY <1>1, <1>3, CkptSame
<1>4. CASE segFile # "closed"
  <2>1. \E lines : Writes(lines)
    <3>1. CASE ProcessEncodeFails
      <4> DEFINE lines == << >>
      <4>1. lines = << >> /\ segs' = [segs EXCEPT ![Current] = Opened]
        BY <3>1 DEF ProcessEncodeFails
      <4> HIDE DEF lines
      <4>2. Writes(lines)
        BY <1>0, <1>1, <1>2, <4>1, NothingWritten DEF Writes
      <4> QED
        BY <4>2
    <3>2. CASE ProcessWriteFails
      BY <3>2, WriteFailsWrites
    <3>3. CASE ProcessRecord
      <4> DEFINE lines == <<NextRecord>>
      <4>1. lines = <<NextRecord>> /\ Commit
        BY <3>3 DEF ProcessRecord
      <4> HIDE DEF lines
      <4>2. Writes(lines)
        BY <1>0, <1>1, <4>1, CommitStep
      <4> QED
        BY <4>2
    <3>4. CASE CrashWriting
      <4>1. PICK lines \in {<< >>, <<Torn>>, <<NextRecord>>} :
               segs' = [segs EXCEPT ![Current] = Opened \o lines]
        BY <3>4 DEF CrashWriting
      <4>2. Writes(lines)
        BY <1>1, <1>2, <4>1 DEF Writes
      <4> QED
        BY <4>2
    <3> QED
      BY <3>1, <3>2, <3>3, <3>4
  <2>2. segs' \in SegFiles /\ \A n \in Names : n # Current => segs'[n] = segs[n]
    BY <1>2, <2>1, OthersStay
  <2>3. DOMAIN segs' = Names
    BY <2>2 DEF SegFiles
  <2> QED
    BY <1>0, <1>1, <1>2, <1>4, <2>2, <2>3, CkptKept
<1>5. CASE segFile = "closed" /\ ProcessEncodeFails
  <2>1. segs' = [segs EXCEPT ![Current] = segs[Current]] /\ segs \in SegFiles
    BY <1>0, <1>5 DEF ProcessEncodeFails, Opened, TypeOK
  <2>2. segs' = segs
    BY <2>1 DEF SegFiles
  <2> QED
    BY <1>3, <2>2
<1> QED
  BY <1>3, <1>4, <1>5 DEF ProcessWriteFails, ProcessRecord, CrashWriting, FileUsable

(* sealSegment writes the checkpoint at hand, a broken one, or none. *)
LEMMA SealPuts ==
    ASSUME NEW recs, NEW lines, NEW ok, SealSegment(recs, lines, ok)
    PROVE  Puts(recs)
BY DEF SealSegment, SealOK, SealFlushFails, SealCloseFails, SealCheckpointFails,
       SealUploadFails, Puts

(* The record that fills the segment. *)
LEMMA CkptInline ==
    ASSUME IInv, SealInv, CkptInv, ProcessRecordAndSeal \/ CrashInlineSeal
    PROVE  CkptInv'
<1> DEFINE recs == Append(segRecords, NextRecord)
           lines == <<NextRecord>>
<1>0. TypeOK /\ Alive /\ FilesPresent
  BY DEF IInv, FileInv
<1>1. /\ WriterReady /\ OpenAllowed /\ ~wErr /\ segFile # "closed"
      /\ segs' = [segs EXCEPT ![Current] = Append(Opened, NextRecord)]
  BY DEF ProcessRecordAndSeal, CrashInlineSeal, FileUsable, Commit
<1>2. bus # "down" /\ queue # << >>
  BY <1>1, ReadyFacts
<1>3. Puts(recs)
  <2>1. CASE ProcessRecordAndSeal
    BY <2>1, SealPuts DEF ProcessRecordAndSeal
  <2>2. CASE CrashInlineSeal
    BY <2>2 DEF CrashInlineSeal, CrashSealing, Puts
  <2> QED
    BY <2>1, <2>2
<1>4. lines = <<NextRecord>>
  OBVIOUS
<1>5. recs \in Seq(Record) /\ recs # << >>
  <2>1. NextRecord \in Record /\ segRecords \in Seq(Record)
    BY <1>0, <1>2, NextTyped DEF TypeOK
  <2>2. Len(recs) = Len(segRecords) + 1 /\ recs \in Seq(Record) /\ Len(segRecords) \in Nat
    BY <2>1
  <2>3. Len(<< >>) = 0
    OBVIOUS
  <2> HIDE DEF recs
  <2> QED
    BY <2>2, <2>3
<1> HIDE DEF lines
<1>6. Writes(lines)
  BY <1>0, <1>1, <1>4, WholeLine
<1>7. segs' \in SegFiles /\ \A n \in Names : n # Current => segs'[n] = segs[n]
  BY <1>2, <1>6, OthersStay
<1>8. segs'[Current] = recs
  <2>1. Opened = segRecords
    BY <1>1, OpenedAreRecords
  <2>2. Current \in Names /\ segs \in SegFiles
    BY <1>0, <1>2, CurrentIsName DEF TypeOK
  <2> QED
    BY <1>1, <2>1, <2>2 DEF SegFiles
<1> HIDE DEF recs
<1> QED
  BY <1>1, <1>2, <1>3, <1>5, <1>7, <1>8, CkptPuts

(* The seal of what Close finds in memory. *)
LEMMA CkptFinal ==
    ASSUME IInv, SealInv, CkptInv, FinalSeal \/ CrashFinalSeal
    PROVE  CkptInv'
<1>0. TypeOK /\ Alive /\ Room
  BY DEF IInv
<1>1. bus # "down" /\ segs' = segs
  BY DEF FinalSeal, CrashFinalSeal
<1>2. CASE ckpts' = ckpts
  BY <1>1, <1>2, CkptSame
<1>3. CASE ckpts' # ckpts
  <2>1. segRecords # << >> /\ ~wErr /\ segFile # "closed"
    BY <1>3 DEF FinalSeal, CrashFinalSeal, SealSegment, SealOK, SealFlushFails, SealCloseFails,
                SealCheckpointFails, SealUploadFails, FileUsable
  <2>2. Puts(segRecords)
    <3>1. CASE FinalSeal
      BY <2>1, <3>1, SealPuts DEF FinalSeal
    <3>2. CASE CrashFinalSeal
      BY <3>2 DEF CrashFinalSeal, CrashSealing, Puts
    <3> QED
      BY <3>1, <3>2
  <2>3. segs[Current] = segRecords
    BY <1>0, <2>1 DEF Room, SealInv, OpenSegment
  <2>4. /\ segRecords \in Seq(Record) /\ segs' \in SegFiles /\ segs'[Current] = segRecords
        /\ \A n \in Names : n # Current => segs'[n] = segs[n]
    BY <1>0, <1>1, <2>3 DEF TypeOK
  <2> QED
    BY <1>1, <2>1, <2>2, <2>4, CkptPuts
<1> QED
  BY <1>2, <1>3

(* Every step but a failed fsync and a power loss. *)
LEMMA CkptNext ==
    ASSUME Faults \cap {"sync", "power"} = {}, IInv, SealInv, CkptInv, [Next]_vars
    PROVE  CkptInv'
<1>1. CASE \/ NewBus \/ NewBusFails \/ ProcessOpenFails \/ CloseFlag \/ CloseChannel
           \/ CloseReturns \/ Crash \/ UNCHANGED vars
           \/ \E c \in Callers : EmitCheck(c) \/ EmitSend(c) \/ EmitSendPanics(c)
  <2>1. UNCHANGED <<segs, ckpts>>
    BY <1>1 DEF NewBus, NewBusFails, ProcessOpenFails, CloseFlag, CloseChannel, CloseReturns,
                Crash, vars, EmitCheck, EmitSend, EmitSendPanics, disk
  <2> QED
    BY <2>1, CkptSame
<1>2. ~ProcessSyncFails /\ ~PowerLoss
  BY DEF ProcessSyncFails, PowerLoss
<1> QED
  BY <1>1, <1>2, CkptUnsealed, CkptInline, CkptFinal DEF Next, Process

-----------------------------------------------------------------------------
(* The verifier raises no false alarm. *)

BundleInv == RecordInv /\ CkptInv

(* A bundle has finitely many lines. *)
LEMMA PlacesFinite ==
    ASSUME segs \in SegFiles
    PROVE  IsFiniteSet(Places(segs))
<1> DEFINE Of(n) == {<<n, i>> : i \in DOMAIN segs[n]}
           P == Present(segs)
           All == {Of(n) : n \in P}
<1>1. P \subseteq Names
  BY DEF Present, SegFiles
<1>2. IsFiniteSet(Names)
  <2>1. IsFiniteSet(1..MaxEpoch) /\ IsFiniteSet(0..MaxSegments)
    BY BusAssumption, FS_Interval
  <2> QED
    BY <2>1, FS_Product DEF Names
<1>3. IsFiniteSet(P)
  <2> HIDE DEF P
  <2> QED
    BY <1>1, <1>2, FS_Subset
<1>4. IsFiniteSet(All)
  <2> DEFINE f == [n \in P |-> Of(n)]
  <2>1. f \in Surjection(P, All)
    BY DEF Surjection
  <2> HIDE DEF f, P, All
  <2> QED
    BY <1>3, <2>1, FS_Surjection
<1>5. ASSUME NEW n \in P
      PROVE  IsFiniteSet(Of(n))
  <2> DEFINE D == DOMAIN segs[n]
             T == Of(n)
             f == [i \in D |-> <<n, i>>]
  <2>1. D = 1..Len(segs[n]) /\ Len(segs[n]) \in Nat
    BY <1>1, SegFileTyped DEF Present
  <2>2. IsFiniteSet(D)
    BY <2>1, FS_Interval
  <2>3. f \in Surjection(D, T)
    BY DEF Surjection
  <2> HIDE DEF f, D, T
  <2>4. IsFiniteSet(T)
    BY <2>2, <2>3, FS_Surjection
  <2> QED
    BY <2>4 DEF T
<1>6. \A T \in All : IsFiniteSet(T)
  BY <1>5
<1>7. Places(segs) = UNION All
  BY DEF Places
<1> HIDE DEF All
<1> QED
  BY <1>4, <1>6, <1>7, FS_UNION

(* In a bundle whose lines all parse, the records are what the verifier asks. *)
LEMMA WholeBundle ==
    ASSUME IInv, RecordInv, \A p \in Places(segs) : At(segs, p) # Torn
    PROVE  RecordHashesOK(segs) /\ PerEpochChainsOK(segs) /\ PerEmitterSequencesOK(segs)
<1> DEFINE f == Records
           P == Places(segs)
<1>0. segs \in SegFiles
  BY DEF IInv, TypeOK
<1>1. DOMAIN f = P /\ \A p \in P : f[p] = At(segs, p)
  BY DEF Records, Written
<1>2. \A p \in P : /\ At(segs, p) \in Record /\ At(segs, p).gseq \in Nat /\ At(segs, p).seq \in Nat
  <2>1. ASSUME NEW p \in P
        PROVE  At(segs, p) \in Record
    <3>1. At(segs, p) \in Line
      BY <1>0, PlaceFields
    <3> QED
      BY <3>1 DEF Line
  <2> QED
    BY <2>1 DEF Record
<1>3. IsFiniteSet(P)
  BY <1>0, PlacesFinite
<1>4. /\ \A p \in P :
            /\ At(segs, p).epoch = p[1][1] /\ ComputeHash(At(segs, p)) = At(segs, p).hash
            /\ At(segs, p).gseq >= 1 /\ At(segs, p).seq >= 1
      /\ \A p, q \in P : p[1][1] = q[1][1] =>
            /\ At(segs, p).gseq = At(segs, q).gseq => p = q
            /\ At(segs, p).emitter = At(segs, q).emitter /\ At(segs, p).seq = At(segs, q).seq => p = q
      /\ \A p \in P :
            \/ At(segs, p).gseq = 1 /\ At(segs, p).prev = Genesis
            \/ \E q \in P : /\ q[1][1] = p[1][1] /\ At(segs, q).gseq + 1 = At(segs, p).gseq
                            /\ At(segs, q).hash = At(segs, p).prev
      /\ \A p \in P :
            \/ At(segs, p).seq = 1
            \/ \E q \in P : /\ q[1][1] = p[1][1] /\ At(segs, q).emitter = At(segs, p).emitter
                            /\ At(segs, q).seq + 1 = At(segs, p).seq
  <2> HIDE DEF f, P
  <2>1. Chained(f)
    BY DEF RecordInv, f
  <2> QED
    BY <1>1, <2>1 DEF Chained
<1>5. RecordHashesOK(segs)
  BY <1>4 DEF RecordHashesOK
<1>6. PerEpochChainsOK(segs)
  <2> SUFFICES ASSUME NEW e
               PROVE  LET S == {p \in P : At(segs, p).epoch = e}
                      IN  /\ {At(segs, p).gseq : p \in S} = 1..Cardinality(S)
                          /\ \A p \in S :
                               \/ At(segs, p).gseq = 1 /\ At(segs, p).prev = Genesis
                               \/ \E q \in S : /\ At(segs, q).gseq + 1 = At(segs, p).gseq
                                               /\ At(segs, q).hash = At(segs, p).prev
    BY DEF PerEpochChainsOK, Numbered
  <2> DEFINE S == {p \in P : At(segs, p).epoch = e}
             g == [p \in S |-> At(segs, p).gseq]
  <2>1. \A p \in S : p \in P /\ p[1][1] = e
    BY <1>4
  <2>2. ASSUME NEW p \in S
        PROVE  \/ At(segs, p).gseq = 1 /\ At(segs, p).prev = Genesis
               \/ \E q \in S : /\ At(segs, q).gseq + 1 = At(segs, p).gseq
                               /\ At(segs, q).hash = At(segs, p).prev
    <3>1. CASE At(segs, p).gseq = 1 /\ At(segs, p).prev = Genesis
      BY <3>1
    <3>2. CASE ~(At(segs, p).gseq = 1 /\ At(segs, p).prev = Genesis)
      <4>1. PICK q \in P : /\ q[1][1] = p[1][1] /\ At(segs, q).gseq + 1 = At(segs, p).gseq
                           /\ At(segs, q).hash = At(segs, p).prev
        BY <3>2, <2>1, <1>4
      <4>2. q \in S
        BY <4>1, <2>1, <1>4
      <4> QED
        BY <4>1, <4>2
    <3> QED
      BY <3>1, <3>2
  <2>3. /\ g \in [S -> Nat]
        /\ \A p, q \in S : g[p] = g[q] => p = q
        /\ \A p \in S : g[p] >= 1 /\ (g[p] = 1 \/ \E q \in S : g[q] + 1 = g[p])
    <3>1. g \in [S -> Nat]
      BY <1>2, <2>1
    <3>2. \A p, q \in S : g[p] = g[q] => p = q
      BY <1>4, <2>1
    <3>3. \A p \in S : g[p] >= 1 /\ (g[p] = 1 \/ \E q \in S : g[q] + 1 = g[p])
      BY <1>4, <2>1, <2>2
    <3> QED
      BY <3>1, <3>2, <3>3
  <2>4. IsFiniteSet(S)
    <3>1. S \in SUBSET P
      OBVIOUS
    <3> HIDE DEF S, P
    <3> QED
      BY <1>3, <3>1, FS_Subset
  <2>5. {g[p] : p \in S} = 1..Cardinality(S)
    <3> HIDE DEF g, S
    <3> QED
      BY <2>3, <2>4, NumbersTo
  <2>6. {g[p] : p \in S} = {At(segs, p).gseq : p \in S}
    OBVIOUS
  <2> QED
    BY <2>2, <2>5, <2>6
<1>7. PerEmitterSequencesOK(segs)
  <2> SUFFICES ASSUME NEW r \in P
               PROVE  LET k == <<At(segs, r).emitter, At(segs, r).epoch>>
                          S == {p \in P : <<At(segs, p).emitter, At(segs, p).epoch>> = k}
                      IN  {At(segs, p).seq : p \in S} = 1..Cardinality(S)
    BY DEF PerEmitterSequencesOK, Numbered
  <2> DEFINE k == <<At(segs, r).emitter, At(segs, r).epoch>>
             S == {p \in P : <<At(segs, p).emitter, At(segs, p).epoch>> = k}
             g == [p \in S |-> At(segs, p).seq]
  <2>1. \A p \in S : p \in P /\ p[1][1] = r[1][1] /\ At(segs, p).emitter = At(segs, r).emitter
    BY <1>4
  <2>2. \A p \in P : p[1][1] = r[1][1] /\ At(segs, p).emitter = At(segs, r).emitter => p \in S
    BY <1>4
  <2>3. g \in [S -> Nat]
    BY <1>2, <2>1
  <2>4. \A p, q \in S : g[p] = g[q] => p = q
    BY <1>4, <2>1
  <2>5. ASSUME NEW p \in S
        PROVE  g[p] >= 1 /\ (g[p] = 1 \/ \E q \in S : g[q] + 1 = g[p])
    <3>1. CASE At(segs, p).seq = 1
      BY <3>1
    <3>2. CASE At(segs, p).seq # 1
      <4>1. PICK q \in P : /\ q[1][1] = p[1][1] /\ At(segs, q).emitter = At(segs, p).emitter
                           /\ At(segs, q).seq + 1 = At(segs, p).seq
        BY <3>2, <2>1, <1>4
      <4>2. q \in S
        BY <4>1, <2>1, <2>2
      <4>3. g[p] >= 1
        BY <1>4, <2>1
      <4> QED
        BY <4>1, <4>2, <4>3
    <3> QED
      BY <3>1, <3>2
  <2>6. IsFiniteSet(S)
    <3>1. S \in SUBSET P
      OBVIOUS
    <3> HIDE DEF S, P
    <3> QED
      BY <1>3, <3>1, FS_Subset
  <2>7. {g[p] : p \in S} = 1..Cardinality(S)
    <3> HIDE DEF g, S
    <3> QED
      BY <2>3, <2>4, <2>5, <2>6, NumbersTo
  <2>8. {g[p] : p \in S} = {At(segs, p).seq : p \in S}
    OBVIOUS
  <2> QED
    BY <2>7, <2>8
<1> QED
  BY <1>5, <1>6, <1>7

(* The list the verifier walks is the list that was written. *)
LEMMA ChainHolds ==
    ASSUME IInv, CkptInv, \A n \in Names : ckpts[n] # Torn
    PROVE  CheckpointChainOK(ckpts)
<1>0. ckpts \in CkptFiles /\ DOMAIN ckpts = Names
  BY DEF IInv, TypeOK, CkptFiles
<1>1. ASSUME NEW n \in Present(ckpts)
      PROVE  /\ n \in Names /\ ckpts[n] \notin {NoFile, Torn} /\ CkptName(ckpts[n]) = n
             /\ ckpts[n].signed
  BY <1>0 DEF Present, CkptInv, CkptSound
<1>2. ASSUME NEW n \in Present(ckpts)
      PROVE  LET earlier == {m \in Present(ckpts) :
                                Before(CkptName(ckpts[m]), CkptName(ckpts[n]))}
             IN  ckpts[n].prev =
                   IF earlier = {} THEN Genesis
                   ELSE HashHex(ckpts[CHOOSE m \in earlier : \A l \in earlier :
                           l = m \/ Before(CkptName(ckpts[l]), CkptName(ckpts[m]))])
  <2> DEFINE E == {m \in Present(ckpts) : Before(m, n)}
             earlier == {m \in Present(ckpts) : Before(CkptName(ckpts[m]), CkptName(ckpts[n]))}
             Newest(T) == CHOOSE m \in T : \A l \in T :
                           l = m \/ Before(CkptName(ckpts[l]), CkptName(ckpts[m]))
  <2>1. earlier = E
    BY <1>1
  <2>2. \A m \in E : (\A l \in E : l = m \/ Before(CkptName(ckpts[l]), CkptName(ckpts[m])))
                       <=> (\A l \in E : l = m \/ Before(l, m))
    BY <1>1
  <2>3. Newest(E) = Latest(E)
    <3> HIDE DEF E
    <3> QED
      BY <2>2 DEF Latest
  <2>4. ckpts[n].prev = IF E = {} THEN Genesis ELSE HashHex(ckpts[Latest(E)])
    BY DEF CkptInv, CkptsLinked, EarlierHash
  <2> HIDE DEF E
  <2> QED
    BY <2>1, <2>3, <2>4
<1> QED
  BY <1>1, <1>2 DEF CheckpointChainOK

(* The invariant gives the verdict of the verifier. *)
LEMMA BundleVerifies ==
    ASSUME IInv, BundleInv
    PROVE  SealedBundleVerifies
<1> SUFFICES ASSUME \A n \in Names : ckpts[n] # Torn
             PROVE  /\ CheckpointChainOK(ckpts)
                    /\ Present(segs) # {} /\ AllCovered(segs, ckpts)
                           => VerifyBundle(segs, ckpts, Genesis)
  BY DEF SealedBundleVerifies
<1>0. ckpts \in CkptFiles /\ DOMAIN ckpts = Names /\ segs \in SegFiles /\ DOMAIN segs = Names
  BY DEF IInv, TypeOK, CkptFiles, SegFiles
<1>1. CheckpointChainOK(ckpts)
  BY ChainHolds DEF BundleInv
<1>2. ASSUME Present(segs) # {}, AllCovered(segs, ckpts)
      PROVE  VerifyBundle(segs, ckpts, Genesis)
  <2>1. ASSUME NEW n \in Present(ckpts)
        PROVE  /\ n \in Names /\ CkptName(ckpts[n]) = n /\ CheckpointMatchesSegment(segs, ckpts[n])
               /\ segs[n] # NoFile /\ \A i \in 1..Len(segs[n]) : segs[n][i] # Torn
    BY <1>0 DEF Present, BundleInv, CkptInv, CkptSound
  <2>2. Present(segs) \subseteq Present(ckpts)
    BY <1>2, <2>1 DEF AllCovered
  <2>3. ASSUME NEW p \in Places(segs)
        PROVE  At(segs, p) # Torn
    <3>1. /\ p[1] \in Names /\ segs[p[1]] # NoFile /\ p[2] \in 1..Len(segs[p[1]])
          /\ At(segs, p) = segs[p[1]][p[2]]
      BY <1>0, PlaceFields
    <3>2. p[1] \in Present(ckpts)
      BY <1>0, <2>2, <3>1 DEF Present
    <3> QED
      BY <2>1, <3>1, <3>2
  <2>4. RecordHashesOK(segs) /\ PerEpochChainsOK(segs) /\ PerEmitterSequencesOK(segs)
    BY <2>3, WholeBundle DEF BundleInv
  <2>5. ~LoadFails(segs, ckpts)
    <3>1. ASSUME NEW n \in Present(segs), NEW i \in DOMAIN segs[n]
          PROVE  segs[n][i] # Torn
      <4>1. n \in Names /\ segs[n] # NoFile /\ n \in Present(ckpts)
        BY <1>0, <2>2 DEF Present
      <4>2. i \in 1..Len(segs[n])
        BY <1>0, <4>1, SegFileTyped
      <4> QED
        BY <2>1, <4>1, <4>2
    <3>2. \A n \in Present(ckpts) : ckpts[n] # Torn
      BY <2>1
    <3> QED
      BY <3>1, <3>2 DEF LoadFails
  <2> QED
    BY <1>1, <1>2, <2>1, <2>4, <2>5 DEF VerifyBundle
<1> QED
  BY <1>1, <1>2

(* Where neither fsync nor power fails: the checkpoints on disk are one       *)
(* linked list over all epochs, and omni-verify accepts every bundle whose    *)
(* segments all have their checkpoint, through crashes at any line, failed    *)
(* writes, failed seals and uploads, and restarts.  The invariant: the        *)
(* records of each epoch are a chain that memory is the end of while no       *)
(* write has failed, and a checkpoint that parses is over its segment.        *)
THEOREM NoFalseAlarm ==
    ASSUME Faults \cap {"sync", "power"} = {}
    PROVE  Spec => []SealedBundleVerifies
<1>1. Init => SealInv /\ BundleInv
  BY SealInit, RecordInit, CkptInit DEF BundleInv
<1>2. IInv /\ SealInv /\ BundleInv /\ [Next]_vars => SealInv' /\ BundleInv'
  <2>1. "sync" \notin Faults
    OBVIOUS
  <2> QED
    BY <2>1, SealNext, RecordNext, CkptNext DEF BundleInv
<1>3. IInv /\ BundleInv => SealedBundleVerifies
  BY BundleVerifies
<1> QED
  BY <1>1, <1>2, <1>3, Invariance, PTL DEF Spec

-----------------------------------------------------------------------------
(* Checkpoints, whatever fails: their names, their place and their head. *)

(* A checkpoint that parses is of the segment it is named after. *)
CkptsNamed ==
    \A n \in Names : ckpts[n] \notin {NoFile, Torn} => CkptName(ckpts[n]) = n

(* The head a clean Close logged is the last checkpoint's hash. *)
HeadLogged == closeResult = "nil" => loggedHead = LastCheckpointHash(ckpts)

LinkInv == CheckpointsPresent /\ HeadLinked /\ SealFailed /\ CkptsNamed /\ HeadLogged

(* A step that leaves the checkpoints and the place of the next one alone. *)
LEMMA LinkQuiet ==
    ASSUME LinkInv, UNCHANGED <<ckpts, epochFile, epoch, segmentIndex, prevCkptHash>>,
           UNCHANGED <<sealErr, closeResult, loggedHead>>,
           segFile' = "closed" <=> segFile = "closed",
           segRecords' = segRecords \/ (bus' # "done" /\ segFile' # "closed"),
           bus' = bus \/ (bus # "down" /\ bus' \notin {"down", "done"})
    PROVE  LinkInv'
<1>1. CheckpointsPresent' /\ HeadLinked'
  BY DEF LinkInv, CheckpointsPresent, HeadLinked
<1>2. SealFailed'
  BY DEF LinkInv, SealFailed
<1>3. CkptsNamed' /\ HeadLogged'
  BY DEF LinkInv, CkptsNamed, HeadLogged
<1> QED
  BY <1>1, <1>2, <1>3 DEF LinkInv

(* The process ends. *)
LEMMA LinkGone ==
    ASSUME MemoryGone, HeadLogged', CkptsNamed',
           \A n \in Names : ckpts'[n] # NoFile => n[1] <= epochFile'
    PROVE  LinkInv'
<1>1. bus' = "down" /\ segFile' = "nil"
  BY DEF MemoryGone
<1>2. HeadLinked' /\ SealFailed'
  BY <1>1 DEF HeadLinked, SealFailed
<1>3. CheckpointsPresent'
  BY <1>1 DEF CheckpointsPresent
<1> QED
  BY <1>2, <1>3 DEF LinkInv

(* A bundle without files. *)
LEMMA LinkInit == Init => LinkInv
<1> SUFFICES ASSUME Init
             PROVE  LinkInv
  OBVIOUS
<1>1. HeadLinked /\ SealFailed /\ HeadLogged
  BY DEF Init, HeadLinked, SealFailed, HeadLogged
<1>2. CheckpointsPresent /\ CkptsNamed
  BY DEF Init, CheckpointsPresent, CkptsNamed
<1> QED
  BY <1>1, <1>2 DEF LinkInv

(* NewBus continues from the last checkpoint on disk. *)
LEMMA LinkNewBus == IInv /\ LinkInv /\ (NewBus \/ NewBusFails) => LinkInv'
<1> SUFFICES ASSUME IInv, LinkInv, NewBus \/ NewBusFails
             PROVE  LinkInv'
  OBVIOUS
<1>1. /\ UNCHANGED <<ckpts, segFile, segRecords, segmentIndex>>
      /\ closeResult' = "none" /\ bus = "down"
      /\ epochFile' = epochFile \/ epochFile' = epochFile + 1
      /\ \/ bus' = "down"
         \/ /\ bus' = "open" /\ epoch' = epochFile + 1 /\ epochFile' = epochFile + 1
            /\ prevCkptHash' = LastCheckpointHash(ckpts)
  BY DEF NewBus, NewBusFails, AdvanceEpoch, segment
<1>2. segFile = "nil" /\ epochFile \in Nat
  BY <1>1 DEF IInv, Alive, TypeOK
<1>3. HeadLinked' /\ SealFailed' /\ HeadLogged'
  BY <1>1, <1>2 DEF HeadLinked, SealFailed, HeadLogged
<1>4. CheckpointsPresent'
  <2> SUFFICES ASSUME NEW n \in Names, ckpts[n] # NoFile
               PROVE  n[1] <= epochFile' /\ (bus' # "down" => n[1] # epoch')
    BY <1>1 DEF CheckpointsPresent
  <2>1. n[1] <= epochFile /\ n[1] \in Nat
    BY DEF LinkInv, CheckpointsPresent, Names
  <2> QED
    BY <2>1, <1>1, <1>2
<1>5. CkptsNamed'
  BY <1>1 DEF LinkInv, CkptsNamed
<1> QED
  BY <1>3, <1>4, <1>5 DEF LinkInv

(* A checkpoint put under the name at hand. *)
LEMMA NamedPut ==
    ASSUME TypeOK, CkptsNamed, Current \in Names, NEW content,
           ckpts' = [ckpts EXCEPT ![Current] = content],
           content \in {NoFile, Torn} \/ CkptName(content) = Current
    PROVE  CkptsNamed' /\ \A n \in Names : n # Current => ckpts'[n] = ckpts[n]
BY DEF CkptsNamed, TypeOK, CkptFiles

(* sealSegment over at least one record. *)
LEMMA LinkSealing ==
    ASSUME IInv, LinkInv, bus # "down", bus' # "down",
           NEW recs \in Seq(Record), recs # << >>, NEW lines,
           UNCHANGED <<epochFile, epoch>>,
           NEW ok \in BOOLEAN, SealSegment(recs, lines, ok)
    PROVE  /\ CheckpointsPresent' /\ HeadLinked' /\ CkptsNamed'
           /\ segFile' = "closed" => segRecords' # << >>
           /\ ok => segRecords' = << >>
<1> DEFINE c == NewCheckpoint(Current, recs, prevCkptHash)
<1>0. TypeOK /\ Alive /\ CheckpointsPresent /\ HeadLinked /\ CkptsNamed /\ SealFailed
  BY DEF IInv, LinkInv
<1>1. /\ ckpts \in CkptFiles /\ prevCkptHash \in Seq(Link) /\ segmentIndex \in Nat
      /\ epoch = epochFile /\ epoch \in Nat
  BY <1>0 DEF TypeOK, Alive
<1>2. Current \in Names /\ Current[1] = epoch /\ Current[2] = segmentIndex
  BY <1>0, CurrentIsName
<1>3. c \in Checkpoint /\ CkptName(c) = Current
  <2>1. c \in Checkpoint
    BY <1>1, <1>2, CheckpointTyped
  <2> QED
    BY <2>1, <1>2 DEF CkptName, NewCheckpoint, Current
<1> HIDE DEF c
<1>4. ASSUME NEW content, ckpts' = [ckpts EXCEPT ![Current] = content],
             content \in {NoFile, Torn} \/ CkptName(content) = Current
      PROVE  /\ CkptsNamed'
             /\ \A n \in Names : n # Current => ckpts'[n] = ckpts[n]
  BY <1>4, <1>0, <1>2, NamedPut
<1>5. ASSUME \A n \in Names : n # Current => ckpts'[n] = ckpts[n],
             NEW n \in Names, ckpts'[n] # NoFile
      PROVE  n[1] <= epochFile /\ n[2] \in Nat /\ (n[1] = epoch => n[2] <= segmentIndex)
  <2>1. n[2] \in Nat
    BY DEF Names
  <2>2. CASE n = Current
    BY <2>1, <2>2, <1>1, <1>2
  <2>3. CASE n # Current
    BY <2>1, <2>3, <1>5, <1>0, <1>1 DEF CheckpointsPresent
  <2> QED
    BY <2>2, <2>3
<1>6. CASE ok
  <2>1. /\ segFile # "closed" /\ ckpts' = [ckpts EXCEPT ![Current] = c]
        /\ prevCkptHash' = HashHex(c) /\ segmentIndex' = segmentIndex + 1
        /\ segFile' = "nil" /\ segRecords' = << >>
    BY <1>6 DEF SealSegment, SealOK, FileUsable, c
  <2>2. CkptsNamed' /\ \A n \in Names : n # Current => ckpts'[n] = ckpts[n]
    BY <2>1, <1>3, <1>4
  <2>3. CheckpointsPresent'
    <3> SUFFICES ASSUME NEW n \in Names, ckpts'[n] # NoFile
                 PROVE  n[1] <= epochFile /\ (n[1] = epoch => n[2] < segmentIndex + 1)
      BY <2>1 DEF CheckpointsPresent
    <3> QED
      BY <2>2, <1>1, <1>5
  <2>4. HeadLinked'
    BY <2>1, <1>0, <1>3, NewIsLatest DEF HeadLinked
  <2> QED
    BY <2>1, <2>2, <2>3, <2>4
<1>7. CASE ~ok /\ wErr
  <2>1. UNCHANGED <<ckpts, segmentIndex, prevCkptHash, segFile>> /\ segRecords' = recs
    BY <1>7 DEF SealSegment, SealFlushFails, SealCloseFails, SealCheckpointFails, SealUploadFails
  <2>2. CheckpointsPresent' /\ HeadLinked' /\ CkptsNamed'
    BY <2>1, <1>0 DEF CheckpointsPresent, HeadLinked, CkptsNamed
  <2> QED
    BY <2>1, <2>2, <1>7
<1>8. CASE ~ok /\ ~wErr
  <2>1. /\ segRecords' = recs /\ segmentIndex' = segmentIndex /\ segFile' = "closed"
        /\ \/ ckpts' = ckpts \/ ckpts' = [ckpts EXCEPT ![Current] = Torn]
           \/ ckpts' = [ckpts EXCEPT ![Current] = c]
    BY <1>8 DEF SealSegment, SealFlushFails, SealCloseFails, SealCheckpointFails,
                SealUploadFails, c
  <2>2. CkptsNamed' /\ \A n \in Names : n # Current => ckpts'[n] = ckpts[n]
    BY <2>1, <1>0, <1>3, <1>4 DEF CkptsNamed
  <2>3. CheckpointsPresent'
    <3> SUFFICES ASSUME NEW n \in Names, ckpts'[n] # NoFile
                 PROVE  n[1] <= epochFile /\ n[2] \in Nat /\ (n[1] = epoch => n[2] <= segmentIndex)
      BY <2>1, <1>1 DEF CheckpointsPresent
    <3> QED
      BY <2>2, <1>5
  <2>4. HeadLinked'
    BY <2>1 DEF HeadLinked
  <2> QED
    BY <2>1, <2>2, <2>3, <2>4, <1>8
<1> QED
  BY <1>6, <1>7, <1>8

(* The record that fills the segment. *)
LEMMA LinkRecordAndSeal == IInv /\ LinkInv /\ ProcessRecordAndSeal => LinkInv'
<1> SUFFICES ASSUME IInv, LinkInv, ProcessRecordAndSeal
             PROVE  LinkInv'
  OBVIOUS
<1> DEFINE recs == Append(segRecords, NextRecord)
<1>0. TypeOK /\ Alive /\ FilesPresent
  BY DEF IInv, FileInv
<1>1. epochFile' = epochFile /\ WriterReady /\ OpenAllowed /\ Commit
  BY DEF ProcessRecordAndSeal
<1>2. PICK ok \in BOOLEAN : SealSegment(recs, Append(Opened, NextRecord), ok) /\ Reply(ok)
  BY DEF ProcessRecordAndSeal
<1>3. bus # "down" /\ bus # "done" /\ queue # << >>
  BY <1>1, ReadyFacts DEF WriterReady
<1>4. recs \in Seq(Record) /\ recs # << >>
  <2>1. NextRecord \in Record
    BY <1>0, <1>3, NextTyped
  <2>2. segRecords \in Seq(Record)
    BY <1>0 DEF TypeOK
  <2> QED
    BY <2>1, <2>2
<1> HIDE DEF recs
<1>5. UNCHANGED <<epoch, bus, closeResult, loggedHead>>
  BY <1>2 DEF Reply, closing
<1>6. /\ CheckpointsPresent' /\ HeadLinked' /\ CkptsNamed'
      /\ segFile' = "closed" => segRecords' # << >>
  BY <1>1, <1>2, <1>3, <1>4, <1>5, LinkSealing
<1>7. SealFailed' /\ HeadLogged'
  BY <1>3, <1>5, <1>6 DEF LinkInv, SealFailed, HeadLogged
<1> QED
  BY <1>6, <1>7 DEF LinkInv

(* The seal of what Close finds in memory. *)
LEMMA LinkFinal == IInv /\ LinkInv /\ FinalSeal => LinkInv'
<1> SUFFICES ASSUME IInv, LinkInv, FinalSeal
             PROVE  LinkInv'
  OBVIOUS
<1>1. UNCHANGED <<epochFile, epoch, closeResult, loggedHead>> /\ bus = "closed" /\ bus' = "done"
  BY DEF FinalSeal, closing
<1>2. closeResult = "none" /\ (segFile = "closed" => segRecords # << >>)
  BY <1>1 DEF LinkInv, SealFailed
<1>3. CASE segRecords = << >>
  <2>1. UNCHANGED <<ckpts, segmentIndex, prevCkptHash, segRecords, segFile>>
    BY <1>3 DEF FinalSeal, segment
  <2>2. CheckpointsPresent' /\ HeadLinked' /\ CkptsNamed'
    BY <2>1, <1>1 DEF LinkInv, CheckpointsPresent, HeadLinked, CkptsNamed
  <2>3. SealFailed' /\ HeadLogged'
    BY <2>1, <1>1, <1>2, <1>3 DEF SealFailed, HeadLogged
  <2> QED
    BY <2>2, <2>3 DEF LinkInv
<1>4. CASE segRecords # << >>
  <2> DEFINE recs == segRecords
             lines == segs[Current]
  <2>1. PICK ok \in BOOLEAN : SealSegment(recs, lines, ok) /\ sealErr' = ~ok
    BY <1>4 DEF FinalSeal
  <2>2. recs \in Seq(Record) /\ recs # << >>
    BY <1>4 DEF IInv, TypeOK
  <2> HIDE DEF recs, lines
  <2>3. /\ CheckpointsPresent' /\ HeadLinked' /\ CkptsNamed'
        /\ segFile' = "closed" => segRecords' # << >>
        /\ ok => segRecords' = << >>
    BY <2>1, <2>2, <1>1, LinkSealing
  <2>4. SealFailed' /\ HeadLogged'
    BY <2>1, <2>3, <1>1, <1>2 DEF SealFailed, HeadLogged
  <2> QED
    BY <2>3, <2>4 DEF LinkInv
<1> QED
  BY <1>3, <1>4

(* Close returns nil: memory is linked to the last checkpoint. *)
LEMMA LinkReturns == IInv /\ LinkInv /\ CloseReturns => LinkInv'
<1> SUFFICES ASSUME IInv, LinkInv, CloseReturns
             PROVE  LinkInv'
  OBVIOUS
<1>1. /\ UNCHANGED <<epochFile, ckpts>> /\ MemoryGone
      /\ bus = "done" /\ closeResult' = (IF sealErr THEN "error" ELSE "nil")
      /\ loggedHead' = prevCkptHash
  BY DEF CloseReturns, disk
<1>2. HeadLogged'
  BY <1>1 DEF LinkInv, SealFailed, HeadLinked, HeadLogged
<1>3. (\A n \in Names : ckpts'[n] # NoFile => n[1] <= epochFile') /\ CkptsNamed'
  BY <1>1 DEF LinkInv, CheckpointsPresent, CkptsNamed
<1> QED
  BY <1>1, <1>2, <1>3, LinkGone

(* The process dies. *)
LEMMA LinkDies ==
    ASSUME IInv, LinkInv, Crash \/ CrashWriting \/ CrashInlineSeal \/ CrashFinalSeal \/ PowerLoss
    PROVE  LinkInv'
<1>0. TypeOK /\ Alive /\ CkptsNamed
  BY DEF IInv, LinkInv
<1>1. bus # "down"
  BY DEF Crash, CrashWriting, CrashInlineSeal, CrashFinalSeal, PowerLoss, WriterReady
<1>2. MemoryGone /\ UNCHANGED <<epochFile, closeResult>>
  BY DEF Crash, CrashWriting, CrashInlineSeal, CrashFinalSeal, PowerLoss, CrashSealing, closing, disk
<1>3. ckpts \in CkptFiles /\ DOMAIN ckpts = Names
  BY <1>0 DEF TypeOK, CkptFiles
<1>4. Current \in Names /\ Current[1] = epochFile /\ epochFile \in Nat
  BY <1>0, <1>1, CurrentIsName DEF Alive, TypeOK
<1>5. /\ CkptsNamed'
      /\ \A n \in Names : ckpts'[n] # NoFile => ckpts[n] # NoFile \/ n = Current
  <2>1. CASE Crash \/ CrashWriting
    BY <2>1, <1>0 DEF Crash, CrashWriting, disk, CkptsNamed
  <2>2. CASE CrashInlineSeal \/ CrashFinalSeal
    <3>1. PICK content : /\ ckpts' = [ckpts EXCEPT ![Current] = content]
                         /\ \/ content \in {NoFile, Torn}
                            \/ \E recs : content = NewCheckpoint(Current, recs, prevCkptHash)
      BY <2>2 DEF CrashInlineSeal, CrashFinalSeal, CrashSealing
    <3>2. content \in {NoFile, Torn} \/ CkptName(content) = Current
      BY <3>1 DEF CkptName, NewCheckpoint, Current
    <3> QED
      BY <3>1, <3>2, <1>0, <1>3, <1>4, NamedPut
  <2>3. CASE PowerLoss
    <3>1. PICK content \in {NoFile, Torn} :
            \E lost \in SUBSET {n \in Present(ckpts) : n[1] = epoch} :
               ckpts' = [n \in Names |-> IF n \in lost THEN content ELSE ckpts[n]]
      BY <2>3 DEF PowerLoss
    <3>2. PICK lost \in SUBSET {n \in Present(ckpts) : n[1] = epoch} :
               ckpts' = [n \in Names |-> IF n \in lost THEN content ELSE ckpts[n]]
      BY <3>1
    <3> QED
      BY <3>2, <1>0 DEF Present, CkptsNamed
  <2> QED
    BY <2>1, <2>2, <2>3
<1>6. \A n \in Names : ckpts'[n] # NoFile => n[1] <= epochFile'
  BY <1>2, <1>4, <1>5 DEF LinkInv, CheckpointsPresent
<1>7. HeadLogged'
  BY <1>1, <1>2 DEF LinkInv, SealFailed, HeadLogged
<1> QED
  BY <1>2, <1>5, <1>6, <1>7, LinkGone

(* Every step, a failed fsync and a power loss included. *)
LEMMA LinkNext ==
    ASSUME IInv, LinkInv, [Next]_vars
    PROVE  LinkInv'
<1>1. CASE NewBus \/ NewBusFails
  BY <1>1, LinkNewBus
<1>2. CASE \E c \in Callers : EmitCheck(c) \/ EmitSend(c) \/ EmitSendPanics(c)
  <2>1. PICK c \in Callers : EmitCheck(c) \/ EmitSend(c) \/ EmitSendPanics(c)
    BY <1>2
  <2>2. UNCHANGED <<ckpts, epochFile>> /\ UNCHANGED <<closeResult, loggedHead>> /\ bus # "down"
    BY <2>1 DEF EmitCheck, EmitSend, EmitSendPanics, disk, closing
  <2>3. CASE MemoryGone
    <3>1. HeadLogged' /\ CkptsNamed'
      BY <2>2 DEF LinkInv, HeadLogged, CkptsNamed
    <3>2. \A n \in Names : ckpts'[n] # NoFile => n[1] <= epochFile'
      BY <2>2 DEF LinkInv, CheckpointsPresent
    <3> QED
      BY <2>3, <3>1, <3>2, LinkGone
  <2>4. CASE ~MemoryGone
    <3>1. /\ UNCHANGED <<segmentIndex, prevCkptHash, segRecords, segFile, sealErr>>
          /\ UNCHANGED <<epoch, bus>>
      BY <2>1, <2>4 DEF EmitCheck, EmitSend, EmitSendPanics, segment
    <3> QED
      BY <2>2, <3>1, LinkQuiet
  <2> QED
    BY <2>3, <2>4
<1>3. CASE \/ ProcessOpenFails \/ ProcessEncodeFails \/ ProcessWriteFails \/ ProcessSyncFails
           \/ ProcessRecord
  <2>1. /\ UNCHANGED <<ckpts, epochFile, epoch, segmentIndex, prevCkptHash>>
        /\ UNCHANGED <<sealErr, closeResult, loggedHead, bus>> /\ bus # "done"
    BY <1>3 DEF ProcessOpenFails, ProcessEncodeFails, ProcessWriteFails, ProcessSyncFails,
                ProcessRecord, Reply, disk, segment, closing, WriterReady
  <2>2. segFile' = "closed" <=> segFile = "closed"
    BY <1>3 DEF ProcessOpenFails, ProcessEncodeFails, ProcessWriteFails, ProcessSyncFails,
                ProcessRecord, segment, FileUsable
  <2>3. segRecords' = segRecords \/ segFile' # "closed"
    BY <1>3 DEF ProcessOpenFails, ProcessEncodeFails, ProcessWriteFails, ProcessSyncFails,
                ProcessRecord, segment
  <2> QED
    BY <2>1, <2>2, <2>3, LinkQuiet
<1>4. CASE ProcessRecordAndSeal \/ FinalSeal \/ CloseReturns
  BY <1>4, LinkRecordAndSeal, LinkFinal, LinkReturns
<1>5. CASE CloseFlag \/ CloseChannel \/ UNCHANGED vars
  <2>1. /\ UNCHANGED <<ckpts, epochFile, epoch, segmentIndex, prevCkptHash>>
        /\ UNCHANGED <<sealErr, closeResult, loggedHead, segRecords, segFile>>
        /\ bus' = bus \/ (bus # "down" /\ bus' \notin {"down", "done"})
    BY <1>5 DEF CloseFlag, CloseChannel, vars, disk, segment, closing
  <2> QED
    BY <2>1, LinkQuiet
<1>6. CASE Crash \/ CrashWriting \/ CrashInlineSeal \/ CrashFinalSeal \/ PowerLoss
  BY <1>6, LinkDies
<1> QED
  BY <1>1, <1>2, <1>3, <1>4, <1>5, <1>6 DEF Next, Process

-----------------------------------------------------------------------------
(* The numbers of events. *)

(* Events are numbered from 1. *)
EventsNumbered ==
    /\ nextEvent >= 1
    /\ \A c \in Busy : sub[c].event >= 1
    /\ \A n \in Names : \A i \in Nat : ~Holds(n, i, 0)

(* Nothing was submitted. *)
LEMMA NumberedInit == Init => EventsNumbered
<1> SUFFICES ASSUME Init
             PROVE  EventsNumbered
  OBVIOUS
<1>1. nextEvent >= 1 /\ Busy = {}
  BY DEF Init, Busy
<1>2. \A n \in Names : segs[n] = NoFile
  BY DEF Init
<1> QED
  BY <1>1, <1>2 DEF EventsNumbered, Holds

(* Emit numbers its event, and only submitted events are written. *)
LEMMA NumberedNext ==
    ASSUME IInv, EventsNumbered, [Next]_vars
    PROVE  EventsNumbered'
<1>0. TypeOK /\ ChannelOK /\ nextEvent \in Nat
  BY DEF IInv, EventInv, TypeOK
<1>1. ASSUME NEW n \in Names, NEW i \in Nat, Holds(n, i, 0)'
      PROVE  FALSE
  <2>1. ~Holds(n, i, 0)
    BY DEF EventsNumbered
  <2>2. OneNew /\ queue # << >> /\ ~NothingNew
    BY <1>1, <2>1, GrowStep DEF LinesStep, NothingNew
  <2>3. Submission.event = 0
    BY <1>1, <2>1, <2>2 DEF OneNew
  <2>4. Head(queue) \in Callers /\ queue[1] = Head(queue) /\ 1 \in 1..Len(queue)
    BY <1>0, <2>2, NextTyped
  <2>5. Head(queue) \in Busy
    BY <2>4, <1>0 DEF ChannelOK, Busy
  <2>6. Submission.event >= 1
    BY <2>5 DEF EventsNumbered, Submission
  <2> QED
    BY <2>3, <2>6
<1>2. CASE \E c \in Callers : EmitCheck(c)
  <2>1. PICK c \in Callers : EmitCheck(c)
    BY <1>2
  <2>2. PICK x \in Emitters : sub' = [sub EXCEPT ![c] = [emitter |-> x, event |-> nextEvent]]
    BY <2>1 DEF EmitCheck
  <2>3. /\ caller' = [caller EXCEPT ![c] = "checked"] /\ nextEvent' = nextEvent + 1
        /\ DOMAIN sub = Callers /\ DOMAIN caller = Callers
    BY <2>1, <1>0 DEF EmitCheck, TypeOK
  <2>4. ASSUME NEW d \in Busy'
        PROVE  sub'[d].event >= 1
    <3>1. CASE d = c
      BY <3>1, <2>2, <2>3 DEF EventsNumbered
    <3>2. CASE d # c
      BY <3>2, <2>2, <2>3 DEF EventsNumbered, Busy
    <3> QED
      BY <3>1, <3>2
  <2> QED
    BY <2>3, <2>4, <1>0, <1>1 DEF EventsNumbered
<1>3. CASE caller' = [d \in Callers |-> "idle"] /\ nextEvent' = nextEvent
  <2>1. Busy' = {}
    BY <1>3 DEF Busy
  <2> QED
    BY <2>1, <1>1, <1>3 DEF EventsNumbered
<1>4. CASE /\ sub' = sub /\ nextEvent' = nextEvent
           /\ \A d \in Callers : caller'[d] \in {caller[d], "idle", "panicked"}
                                   \/ caller[d] \in {"checked", "queued"}
  <2>1. Busy' \subseteq Busy
    BY <1>4 DEF Busy
  <2> QED
    BY <2>1, <1>1, <1>4 DEF EventsNumbered
<1>5. CASE MemoryGone /\ nextEvent' = nextEvent
  BY <1>3, <1>5 DEF MemoryGone
<1>6. CASE \E c \in Callers : EmitSend(c) \/ EmitSendPanics(c)
  <2>1. PICK c \in Callers : EmitSend(c) \/ EmitSendPanics(c)
    BY <1>6
  <2>2. CASE MemoryGone
    BY <1>5, <2>1, <2>2 DEF EmitSend, EmitSendPanics
  <2>3. CASE ~MemoryGone
    <3>1. /\ caller[c] = "checked" /\ sub' = sub /\ nextEvent' = nextEvent
          /\ \E x : caller' = [caller EXCEPT ![c] = x]
      BY <2>1, <2>3 DEF EmitSend, EmitSendPanics
    <3>2. DOMAIN caller = Callers
      BY <1>0 DEF TypeOK
    <3> QED
      BY <3>1, <3>2, <1>4
  <2> QED
    BY <2>2, <2>3
<1>7. CASE Process
  <2>1. /\ caller' = [caller EXCEPT ![Head(queue)] = "idle"] /\ sub' = sub
        /\ nextEvent' = nextEvent
    BY <1>7 DEF Process, ProcessOpenFails, ProcessEncodeFails, ProcessWriteFails,
                ProcessSyncFails, ProcessRecord, ProcessRecordAndSeal, Reply
  <2>2. DOMAIN caller = Callers
    BY <1>0 DEF TypeOK
  <2> QED
    BY <2>1, <2>2, <1>4
<1>8. CASE CloseReturns \/ Crash \/ CrashWriting \/ CrashInlineSeal \/ CrashFinalSeal \/ PowerLoss
  BY <1>5, <1>8 DEF CloseReturns, Crash, CrashWriting, CrashInlineSeal, CrashFinalSeal,
                    CrashSealing, PowerLoss
<1>9. CASE \/ NewBus \/ NewBusFails \/ CloseFlag \/ CloseChannel \/ FinalSeal \/ UNCHANGED vars
  <2>1. UNCHANGED <<caller, sub, nextEvent>>
    BY <1>9 DEF NewBus, NewBusFails, CloseFlag, CloseChannel, FinalSeal, callers, vars
  <2> QED
    BY <2>1, <1>4
<1> QED
  BY <1>2, <1>6, <1>7, <1>8, <1>9 DEF Next

-----------------------------------------------------------------------------
(* A list of checkpoints that verifies and ends in the same hash is whole. *)

(* Some name of a set that is not empty comes before the others. *)
LEMMA Earliest ==
    ASSUME NEW S, S \subseteq Names, S # {}
    PROVE  \E l \in S : \A n \in S : n = l \/ Before(l, n)
<1>0. \A n \in S : n[1] \in Nat /\ n[2] \in Nat /\ n = <<n[1], n[2]>>
  BY BusAssumption DEF Names
<1> DEFINE T == {n[1] : n \in S}
<1>1. T \subseteq Nat /\ T # {}
  BY <1>0
<1>2. PICK a \in T : \A x \in T : a <= x
  <2> HIDE DEF T
  <2> QED
    BY <1>1, LeastNatural
<1> DEFINE U == {n[2] : n \in {k \in S : k[1] = a}}
<1>3. U \subseteq Nat /\ U # {}
  BY <1>0
<1>4. PICK b \in U : \A x \in U : b <= x
  <2> HIDE DEF U
  <2> QED
    BY <1>3, LeastNatural
<1>5. PICK l \in S : l[1] = a /\ l[2] = b
  OBVIOUS
<1>6. ASSUME NEW n \in S
      PROVE  n = l \/ Before(l, n)
  <2>1. a <= n[1] /\ (n[1] = a => b <= n[2])
    BY <1>2, <1>4
  <2> QED
    BY <2>1, <1>0, <1>5 DEF Before
<1> QED
  BY <1>6

(* A checkpoint's hash tells its name, and is never the genesis. *)
LEMMA HashTells ==
    ASSUME NEW c \in Checkpoint
    PROVE  /\ HashHex(c) # Genesis
           /\ \A d \in Checkpoint : HashHex(c) = HashHex(d) => CkptName(c) = CkptName(d)
<1> DEFINE L(x) == [epoch |-> x.epoch, index |-> x.index, count |-> x.count,
                    root |-> x.root, head |-> x.head, signed |-> x.signed]
<1>1. ASSUME NEW x \in Checkpoint
      PROVE  /\ HashHex(x) = Append(x.prev, L(x)) /\ x.prev \in Seq(Link)
             /\ Len(HashHex(x)) = Len(x.prev) + 1 /\ Len(x.prev) \in Nat
             /\ HashHex(x)[Len(x.prev) + 1] = L(x)
  <2>1. x.prev \in Seq(Link)
    BY DEF Checkpoint
  <2>2. HashHex(x) = Append(x.prev, L(x))
    BY DEF HashHex
  <2> HIDE DEF L
  <2> QED
    BY <2>1, <2>2
<1>2. HashHex(c) # Genesis
  <2>1. Len(HashHex(c)) = Len(c.prev) + 1 /\ Len(c.prev) \in Nat
    <3> HIDE DEF L
    <3> QED
      BY <1>1
  <2>2. Len(Genesis) = 0
    BY DEF Genesis
  <2> QED
    BY <2>1, <2>2
<1>3. ASSUME NEW d \in Checkpoint, HashHex(c) = HashHex(d)
      PROVE  CkptName(c) = CkptName(d)
  <2>1. L(c) = L(d)
    <3> HIDE DEF L
    <3> QED
      BY <1>1, <1>3
  <2>2. L(c).epoch = c.epoch /\ L(c).index = c.index /\ L(d).epoch = d.epoch /\ L(d).index = d.index
    OBVIOUS
  <2> HIDE DEF L
  <2> QED
    BY <2>1, <2>2 DEF CkptName
<1> QED
  BY <1>2, <1>3

(* Checkpoints that parse and are named after their segments. *)
Named(f) ==
    /\ f \in CkptFiles
    /\ \A n \in Present(f) : f[n] \in Checkpoint /\ CkptName(f[n]) = n

(* Each checkpoint of a list that verifies carries the hash of the one before. *)
LEMMA ChainPrev ==
    ASSUME NEW f, Named(f), CheckpointChainOK(f), NEW n \in Present(f)
    PROVE  f[n].prev = EarlierHash(f, n)
<1>1. \A m \in Present(f) : CkptName(f[m]) = m
  BY DEF Named
<1> DEFINE E == {m \in Present(f) : Before(m, n)}
           earlier == {m \in Present(f) : Before(CkptName(f[m]), CkptName(f[n]))}
           Newest(T) == CHOOSE m \in T : \A l \in T :
                           l = m \/ Before(CkptName(f[l]), CkptName(f[m]))
<1>2. earlier = E
  BY <1>1
<1>3. \A m \in E : (\A l \in E : l = m \/ Before(CkptName(f[l]), CkptName(f[m])))
                     <=> (\A l \in E : l = m \/ Before(l, m))
  BY <1>1
<1>4. Newest(E) = Latest(E)
  <2> HIDE DEF E
  <2> QED
    BY <1>3 DEF Latest
<1>5. f[n].prev = IF earlier = {} THEN Genesis ELSE HashHex(f[Newest(earlier)])
  BY DEF CheckpointChainOK
<1>6. EarlierHash(f, n) = IF E = {} THEN Genesis ELSE HashHex(f[Latest(E)])
  BY DEF EarlierHash
<1> HIDE DEF E, earlier, Newest
<1> QED
  BY <1>2, <1>4, <1>5, <1>6

(* Two lists of checkpoints, the second what is left of the first without the *)
(* names in S: if both verify and end in the same hash, nothing was lost.     *)
LEMMA ListWhole ==
    ASSUME NEW f, NEW g, NEW S, Named(f), Named(g), CheckpointChainOK(f), CheckpointChainOK(g),
           S \subseteq Present(f), Present(g) = Present(f) \ S,
           \A n \in Present(g) : g[n] = f[n],
           Present(g) # {}, LastCheckpointHash(f) = LastCheckpointHash(g)
    PROVE  S = {}
<1> SUFFICES ASSUME S # {}
             PROVE  FALSE
  OBVIOUS
<1> DEFINE P == Present(f)
           Q == Present(g)
           z == Latest(Q)
           l == Latest(S)
<1>1. P \subseteq Names /\ Q \subseteq P /\ S \subseteq Names
  BY DEF Named, CkptFiles, Present
<1>2. /\ Latest(P) \in P /\ \A n \in P : n = Latest(P) \/ Before(n, Latest(P))
      /\ z \in Q /\ \A n \in Q : n = z \/ Before(n, z)
      /\ l \in S /\ \A n \in S : n = l \/ Before(n, l)
  <2>1. P # {} /\ Q \subseteq Names /\ Q # {}
    BY <1>1
  <2> HIDE DEF P, Q
  <2> QED
    BY <1>1, <2>1, LatestIsMember
<1>3. Latest(P) = z
  <2>1. HashHex(f[Latest(P)]) = HashHex(f[z])
    BY <1>1, <1>2 DEF LastCheckpointHash
  <2>2. f[Latest(P)] \in Checkpoint /\ f[z] \in Checkpoint
        /\ CkptName(f[Latest(P)]) = Latest(P) /\ CkptName(f[z]) = z
    BY <1>1, <1>2 DEF Named
  <2> QED
    BY <2>1, <2>2, HashTells
<1> DEFINE A == {n \in Q : Before(l, n)}
<1>4. z \in A /\ A \subseteq Names
  <2>1. l \in P /\ l # z
    BY <1>2
  <2> QED
    BY <2>1, <1>1, <1>2, <1>3
<1>5. PICK n \in A : \A k \in A : k = n \/ Before(n, k)
  <2>1. A # {} /\ A \subseteq Names
    BY <1>4
  <2> HIDE DEF A
  <2> QED
    BY <2>1, Earliest
<1> DEFINE E == {k \in P : Before(k, n)}
           F == {k \in Q : Before(k, n)}
           m == Latest(E)
<1>6. /\ m \in E /\ \A k \in E : k = m \/ Before(k, m)
      /\ F # {} => Latest(F) \in F
  <2>1. l \in E /\ E \subseteq Names /\ F \subseteq Names
    BY <1>1, <1>2
  <2> HIDE DEF E, F
  <2> QED
    BY <2>1, LatestIsMember
<1>7. f[n].prev = HashHex(f[m]) /\ f[m] \in Checkpoint /\ CkptName(f[m]) = m
  <2>1. f[n].prev = EarlierHash(f, n) /\ n \in P
    BY <1>1, ChainPrev
  <2>2. EarlierHash(f, n) = HashHex(f[m])
    BY <1>6 DEF EarlierHash
  <2> QED
    BY <2>1, <2>2, <1>6 DEF Named
<1>8. CASE m \in S
  <2>1. g[n] = f[n] /\ g[n].prev = EarlierHash(g, n)
    BY ChainPrev
  <2>2. EarlierHash(g, n) = IF F = {} THEN Genesis ELSE HashHex(g[Latest(F)])
    BY DEF EarlierHash
  <2>3. F # {}
    BY <2>1, <2>2, <1>7, HashTells
  <2>4. /\ Latest(F) \in Q /\ g[Latest(F)] \in Checkpoint
        /\ CkptName(g[Latest(F)]) = Latest(F)
    BY <2>3, <1>6 DEF Named
  <2>5. Latest(F) = m
    <3>1. HashHex(f[m]) = HashHex(g[Latest(F)])
      BY <2>1, <2>2, <2>3, <1>7
    <3> HIDE DEF m, F
    <3> QED
      BY <3>1, <2>4, <1>7, HashTells
  <2> QED
    BY <2>4, <2>5, <1>8
<1>9. CASE m \notin S
  <2>1. m \in Q /\ l \in E /\ l # m
    BY <1>1, <1>2, <1>6, <1>9
  <2>2. m \in A
    BY <2>1, <1>6
  <2>3. m = n \/ Before(n, m)
    BY <2>2, <1>5
  <2>4. Before(m, n) /\ m \in Names /\ n \in Names
    BY <2>1, <1>1, <1>6
  <2> HIDE DEF m
  <2> QED
    BY <2>3, <2>4, BusAssumption DEF Before, Names
<1> QED
  BY <1>8, <1>9

-----------------------------------------------------------------------------
(* A damaged bundle does not verify. *)

(* What a bundle that verifies says of segment n. *)
LEMMA VerifiedSegment ==
    ASSUME NEW f, NEW g, NEW h, VerifyBundle(f, g, h), NEW n \in Present(f)
    PROVE  \E m \in Present(g) : /\ CkptName(g[m]) = n /\ g[m].count = Len(f[n])
                                 /\ g[m].root = MerkleRoot(f[n])
BY DEF VerifyBundle, AllCovered, CheckpointMatchesSegment

(* A verified bundle has no two records of the same number in an epoch. *)
LEMMA NoTwice ==
    ASSUME segs \in SegFiles, PerEpochChainsOK(segs), NEW p \in Places(segs), NEW q \in Places(segs),
           At(segs, p).epoch = At(segs, q).epoch, At(segs, p).gseq = At(segs, q).gseq
    PROVE  p = q
<1> DEFINE e == At(segs, p).epoch
           S == {r \in Places(segs) : At(segs, r).epoch = e}
           N == Cardinality(S)
           T == 1..N
           f == [r \in S |-> At(segs, r).gseq]
<1>1. {At(segs, r).gseq : r \in S} = T
  <2>1. e \in {At(segs, r).epoch : r \in Places(segs)}
    OBVIOUS
  <2> QED
    BY <2>1 DEF PerEpochChainsOK, Numbered
<1>2. IsFiniteSet(S)
  <2>1. IsFiniteSet(Places(segs)) /\ S \in SUBSET Places(segs)
    BY PlacesFinite
  <2> HIDE DEF S
  <2> QED
    BY <2>1, FS_Subset
<1>3. N \in Nat
  <2> HIDE DEF S
  <2> QED
    BY <1>2, FS_CardinalityType
<1>4. IsFiniteSet(T) /\ Cardinality(T) = N
  <2> HIDE DEF N
  <2> QED
    BY <1>3, FS_Interval
<1>5. f \in Surjection(S, T)
  <2>1. \A r \in S : f[r] \in T
    BY <1>1
  <2>2. f \in [S -> T]
    <3> HIDE DEF T, S
    <3> QED
      BY <2>1
  <2>3. \A t \in T : \E r \in S : f[r] = t
    BY <1>1
  <2> HIDE DEF f, S, T
  <2> QED
    BY <2>2, <2>3 DEF Surjection
<1>6. f \in Injection(S, T)
  <2> HIDE DEF f, S, T
  <2> QED
    BY <1>2, <1>4, <1>5, FS_Surjection DEF N
<1>7. p \in S /\ q \in S /\ f[p] = f[q]
  OBVIOUS
<1>8. \A x, y \in S : f[x] = f[y] => x = y
  <2> HIDE DEF f, S, T
  <2> QED
    BY <1>6 DEF Injection, IsInjective
<1> HIDE DEF f, S, T
<1> QED
  BY <1>7, <1>8

(* Lines that have the same root have the same fields at each place. *)
LEMMA RootTells ==
    ASSUME NEW s, NEW t, MerkleRoot(s) = MerkleRoot(t), NEW i \in DOMAIN s
    PROVE  /\ s[i].epoch = t[i].epoch /\ s[i].gseq = t[i].gseq /\ s[i].event = t[i].event
<1>1. DOMAIN MerkleRoot(s) = DOMAIN s /\ DOMAIN MerkleRoot(t) = DOMAIN t
  BY DEF MerkleRoot
<1>2. i \in DOMAIN t
  BY <1>1
<1>3. <<s[i].prev, Core(s[i])>> = <<t[i].prev, Core(t[i])>>
  BY <1>2 DEF MerkleRoot
<1>4. Core(s[i]) = Core(t[i])
  BY <1>3
<1>5. ASSUME NEW r
      PROVE  Core(r).epoch = r.epoch /\ Core(r).gseq = r.gseq /\ Core(r).event = r.event
  BY DEF Core
<1> QED
  BY <1>4, <1>5

(* The bundle that verified, with what the bus keeps of it. *)
LEMMA BeforeDamage ==
    ASSUME IInv, LinkInv, Damage
    PROVE  /\ segs \in SegFiles /\ Named(ckpts) /\ VerifyBundle(segs, ckpts, loggedHead)
           /\ Present(segs) \subseteq Present(ckpts) /\ Present(segs) \subseteq Names
           /\ loggedHead = LastCheckpointHash(ckpts)
           /\ loggedHead' = loggedHead
           /\ \A n \in Present(segs) : /\ segs[n] \in Seq(Record)
                                       /\ DOMAIN segs[n] = 1..Len(segs[n])
<1>1. /\ segs \in SegFiles /\ ckpts \in CkptFiles /\ DOMAIN ckpts = Names /\ DOMAIN segs = Names
  BY DEF IInv, TypeOK, SegFiles, CkptFiles
<1>2. /\ VerifyBundle(segs, ckpts, loggedHead) /\ closeResult = "nil" /\ loggedHead' = loggedHead
  BY DEF Damage, closing
<1>3. ~LoadFails(segs, ckpts)
  BY <1>2 DEF VerifyBundle
<1>4. Named(ckpts)
  <2>1. \A n \in Present(ckpts) : n \in Names /\ ckpts[n] \notin {NoFile, Torn}
    BY <1>1, <1>3 DEF LoadFails, Present
  <2>2. \A n \in Present(ckpts) : ckpts[n] \in Checkpoint
    BY <1>1, <2>1 DEF CkptFiles
  <2> QED
    BY <1>1, <2>1, <2>2 DEF Named, LinkInv, CkptsNamed
<1>5. Present(segs) \subseteq Present(ckpts)
  <2> SUFFICES ASSUME NEW n \in Present(segs)
               PROVE  n \in Present(ckpts)
    OBVIOUS
  <2> QED
    BY <1>2, <1>4, VerifiedSegment DEF Named
<1>6. ASSUME NEW n \in Present(segs)
      PROVE  segs[n] \in Seq(Record) /\ DOMAIN segs[n] = 1..Len(segs[n])
  <2>1. n \in Names /\ segs[n] # NoFile
    BY <1>1 DEF Present
  <2>2. segs[n] \in Seq(Line) /\ DOMAIN segs[n] = 1..Len(segs[n])
    BY <2>1, <1>1, SegFileTyped
  <2>3. \A i \in DOMAIN segs[n] : segs[n][i] \in Record
    <3>1. \A i \in DOMAIN segs[n] : segs[n][i] # Torn
      BY <1>3 DEF LoadFails
    <3>2. \A i \in DOMAIN segs[n] : segs[n][i] \in Line
      BY <2>2
    <3> QED
      BY <3>1, <3>2 DEF Line
  <2> DEFINE s == segs[n]
  <2> HIDE DEF s
  <2>4. s \in Seq(Record)
    BY <2>2, <2>3 DEF s
  <2> QED
    BY <2>2, <2>4 DEF s
<1>7. loggedHead = LastCheckpointHash(ckpts)
  BY <1>2 DEF LinkInv, HeadLogged
<1> QED
  BY <1>1, <1>2, <1>4, <1>5, <1>6, <1>7 DEF Present

(* Files are lost. *)
LEMMA LossDetected ==
    ASSUME IInv, LinkInv, Damage, NEW S \in SUBSET Present(segs), S # {}, LoseFiles(S),
           VerifyBundle(segs', ckpts', loggedHead')
    PROVE  FALSE
<1> DEFINE f == [n \in Names |-> IF n \in S THEN NoFile ELSE segs[n]]
           g == [n \in Names |-> IF n \in S THEN NoFile ELSE ckpts[n]]
           h == loggedHead
<1>1. /\ segs \in SegFiles /\ Named(ckpts) /\ VerifyBundle(segs, ckpts, h)
      /\ Present(segs) \subseteq Present(ckpts) /\ Present(segs) \subseteq Names
      /\ h = LastCheckpointHash(ckpts) /\ h' = h
  BY BeforeDamage
<1>2. PICK x \in S : x \in Present(segs) /\ x \in Present(ckpts) /\ x \in Names
  BY <1>1
<1>3. /\ \A n \in Present(f) : n \notin S /\ f[n] = segs[n]
      /\ \A n \in Present(g) : n \notin S /\ g[n] = ckpts[n] /\ n \in Present(ckpts)
      /\ Present(g) = Present(ckpts) \ S
      /\ Named(g)
  <2>1. \A n \in Present(f) : n \notin S /\ f[n] = segs[n]
    BY DEF Present
  <2>2. ckpts \in CkptFiles /\ DOMAIN ckpts = Names
    BY <1>1 DEF Named, CkptFiles
  <2>3. \A n \in Present(g) : n \notin S /\ g[n] = ckpts[n] /\ n \in Present(ckpts)
    BY <2>2 DEF Present
  <2>4. Present(g) = Present(ckpts) \ S
    BY <2>2 DEF Present
  <2>5. g \in CkptFiles
    BY <2>2 DEF CkptFiles
  <2> HIDE DEF g
  <2> QED
    BY <1>1, <2>1, <2>3, <2>4, <2>5 DEF Named
<1> HIDE DEF f, g
<1>4. CASE segs' = f /\ ckpts' = ckpts
  <2>1. PICK m \in Present(ckpts) : CkptName(ckpts[m]) = x
    BY <1>1, <1>2, VerifiedSegment
  <2>2. x \in Present(f)
    BY <2>1, <1>4 DEF VerifyBundle, CheckpointMatchesSegment
  <2> QED
    BY <2>2, <1>3
<1>5. CASE ckpts' = g /\ segs' = segs
  <2>1. VerifyBundle(segs, g, h)
    BY <1>1, <1>5
  <2>2. PICK m \in Present(g) : CkptName(g[m]) = x
    BY <2>1, <1>2, VerifiedSegment
  <2> QED
    BY <2>2, <1>3 DEF Named
<1>6. CASE segs' = f /\ ckpts' = g
  <2>1. VerifyBundle(f, g, h)
    BY <1>1, <1>6
  <2>2. Present(g) # {}
    <3>1. PICK y : y \in Present(f)
      BY <2>1 DEF VerifyBundle
    <3> QED
      BY <2>1, <3>1, VerifiedSegment
  <2>3. h # Genesis
    <3>1. Latest(Present(ckpts)) \in Present(ckpts) /\ Present(ckpts) # {}
      <4>1. Present(ckpts) \subseteq Names /\ Present(ckpts) # {}
        BY <1>1, <1>2 DEF Named, CkptFiles, Present
      <4> QED
        BY <4>1, LatestIsMember
    <3> QED
      BY <3>1, <1>1, HashTells DEF LastCheckpointHash, Named
  <2>4. /\ LastCheckpointHash(g) = h /\ CheckpointChainOK(g) /\ CheckpointChainOK(ckpts)
    BY <2>1, <2>3, <1>1 DEF VerifyBundle
  <2>5. S \subseteq Present(ckpts)
    BY <1>1
  <2>6. S = {}
    BY <2>2, <2>4, <2>5, <1>1, <1>3, ListWhole
  <2> QED
    BY <2>6
<1> QED
  BY <1>4, <1>5, <1>6 DEF LoseFiles, f, g

(* Lines of a segment are cut, swapped or changed. *)
LEMMA EditDetected ==
    ASSUME IInv, LinkInv, EventsNumbered, Damage, NEW n \in Present(segs),
           CutLines(n) \/ SwapLines(n) \/ ChangeRecord(n), ckpts' = ckpts,
           VerifyBundle(segs', ckpts', loggedHead')
    PROVE  FALSE
<1> DEFINE s == segs[n]
           t == segs'[n]
<1>1. /\ segs \in SegFiles /\ Named(ckpts) /\ VerifyBundle(segs, ckpts, loggedHead)
      /\ n \in Names /\ s \in Seq(Record) /\ DOMAIN s = 1..Len(s) /\ DOMAIN segs = Names
  BY BeforeDamage DEF SegFiles
<1>2. PICK m \in Present(ckpts) : /\ CkptName(ckpts[m]) = n /\ ckpts[m].count = Len(s)
                                  /\ ckpts[m].root = MerkleRoot(s)
  BY <1>1, VerifiedSegment
<1>3. Len(t) = Len(s) /\ MerkleRoot(t) = MerkleRoot(s)
  <2>1. CheckpointMatchesSegment(segs', ckpts[m])
    BY <1>2 DEF VerifyBundle
  <2> QED
    BY <2>1, <1>2 DEF CheckpointMatchesSegment
<1>4. ASSUME NEW i \in DOMAIN s
      PROVE  s[i].epoch = t[i].epoch /\ s[i].gseq = t[i].gseq /\ s[i].event = t[i].event
  <2> DEFINE u == s
             v == t
  <2> HIDE DEF u, v
  <2>1. MerkleRoot(u) = MerkleRoot(v) /\ i \in DOMAIN u
    BY <1>3 DEF u, v
  <2>2. u[i].epoch = v[i].epoch /\ u[i].gseq = v[i].gseq /\ u[i].event = v[i].event
    BY <2>1, RootTells
  <2> QED
    BY <2>2 DEF u, v
<1>5. CASE CutLines(n)
  <2>1. PICK k \in 0..(Len(s) - 1) : segs' = [segs EXCEPT ![n] = SubSeq(s, 1, k)]
    BY <1>5 DEF CutLines
  <2>2. t = SubSeq(s, 1, k)
    BY <2>1, <1>1
  <2>3. Len(s) \in Nat /\ k \in 0..Len(s) /\ k # Len(s)
    <3>1. Len(s) \in Nat
      <4> HIDE DEF s
      <4> QED
        BY <1>1
    <3> HIDE DEF s
    <3> QED
      BY <2>1, <3>1
  <2>4. Len(SubSeq(s, 1, k)) = k
    <3>1. s \in Seq(Record) /\ k \in 0..Len(s)
      BY <1>1, <2>3
    <3> HIDE DEF s
    <3> QED
      BY <3>1
  <2> QED
    BY <2>2, <2>3, <2>4, <1>3
<1>6. CASE SwapLines(n)
  <2>1. PICK i \in DOMAIN s, j \in DOMAIN s :
           i < j /\ segs' = [segs EXCEPT ![n] = [s EXCEPT ![i] = s[j], ![j] = s[i]]]
    BY <1>6 DEF SwapLines
  <2>2. t = [s EXCEPT ![i] = s[j], ![j] = s[i]] /\ i \in Nat /\ j \in Nat
    BY <2>1, <1>1
  <2>3. t[i] = s[j]
    BY <2>1, <2>2, <1>1
  <2>4. s[i].epoch = s[j].epoch /\ s[i].gseq = s[j].gseq
    BY <2>1, <2>3, <1>4
  <2>5. /\ <<n, i>> \in Places(segs) /\ <<n, j>> \in Places(segs)
        /\ At(segs, <<n, i>>) = s[i] /\ At(segs, <<n, j>>) = s[j]
    BY <2>1 DEF Places, At
  <2>6. <<n, i>> = <<n, j>>
    <3>1. PerEpochChainsOK(segs)
      BY <1>1 DEF VerifyBundle
    <3> QED
      BY <3>1, <2>4, <2>5, <1>1, NoTwice
  <2> QED
    BY <2>1, <2>2, <2>6
<1>7. CASE ChangeRecord(n)
  <2>1. PICK i \in DOMAIN s : \E h :
           segs' = [segs EXCEPT ![n] = [s EXCEPT ![i] =
                       [[s[i] EXCEPT !.event = 0] EXCEPT !.hash = h]]]
    BY <1>7 DEF ChangeRecord
  <2>2. PICK h : segs' = [segs EXCEPT ![n] = [s EXCEPT ![i] =
                             [[s[i] EXCEPT !.event = 0] EXCEPT !.hash = h]]]
    BY <2>1
  <2> DEFINE r == s[i]
             r2 == [[r EXCEPT !.event = 0] EXCEPT !.hash = h]
  <2>3. r \in Record /\ i \in Nat /\ i \in 1..Len(s)
    BY <1>1
  <2>4. r2.event = 0
    <3> HIDE DEF r
    <3> QED
      BY <2>3 DEF Record
  <2>5. t[i] = r2
    <3> HIDE DEF r2
    <3>1. segs' = [segs EXCEPT ![n] = [s EXCEPT ![i] = r2]]
      BY <2>2 DEF r2
    <3> QED
      BY <3>1, <1>1
  <2>6. s[i].event = 0
    BY <2>4, <2>5, <1>4
  <2>7. segs[n] # NoFile /\ segs[n][i] # Torn
    BY <2>3, MarkAssumption DEF Present
  <2>8. Holds(n, i, 0)
    BY <2>3, <2>6, <2>7 DEF Holds
  <2> QED
    BY <2>3, <2>8, <1>1 DEF EventsNumbered
<1> QED
  BY <1>5, <1>6, <1>7

(* A checkpoint is changed. *)
LEMMA ForgeryDetected ==
    ASSUME IInv, LinkInv, Damage, NEW n \in Present(ckpts), ChangeCheckpoint(n),
           VerifyBundle(segs', ckpts', loggedHead')
    PROVE  FALSE
<1>1. Named(ckpts) /\ DOMAIN ckpts = Names /\ n \in Names
  BY BeforeDamage DEF Named, CkptFiles, Present
<1> DEFINE c == ckpts[n]
           d == [c EXCEPT !.count = @ + 1, !.signed = FALSE]
<1>2. c \in Checkpoint
  BY <1>1 DEF Named
<1>3. d.signed = FALSE /\ d \in Checkpoint
  <2> HIDE DEF c
  <2>1. c.count + 1 \in Nat /\ d.signed = FALSE
    BY <1>2 DEF Checkpoint
  <2> QED
    BY <1>2, <2>1 DEF Checkpoint
<1>4. ckpts' = [ckpts EXCEPT ![n] = d]
  BY DEF ChangeCheckpoint
<1> HIDE DEF c, d
<1>5. ckpts'[n] = d /\ n \in Present(ckpts')
  BY <1>1, <1>3, <1>4, MarkAssumption DEF Present
<1>6. ckpts'[n].signed
  BY <1>5 DEF VerifyBundle, CheckpointChainOK
<1> QED
  BY <1>3, <1>5, <1>6

(* Every damage is detected. *)
LEMMA Detected ==
    ASSUME IInv, LinkInv, EventsNumbered, Damage
    PROVE  ~VerifyBundle(segs', ckpts', loggedHead')
<1> SUFFICES ASSUME VerifyBundle(segs', ckpts', loggedHead')
             PROVE  FALSE
  OBVIOUS
<1>1. CASE \E S \in SUBSET Present(segs) : S # {} /\ LoseFiles(S)
  BY <1>1, LossDetected
<1>2. CASE (\E n \in Present(segs) : CutLines(n) \/ SwapLines(n) \/ ChangeRecord(n)) /\ ckpts' = ckpts
  BY <1>2, EditDetected
<1>3. CASE \E n \in Present(ckpts) : ChangeCheckpoint(n)
  BY <1>3, ForgeryDetected
<1> QED
  BY <1>1, <1>2, <1>3 DEF Damage

(* Until it is damaged the bundle is what the bus left. *)
AuditInv ==
    \/ ~damaged /\ IInv /\ LinkInv /\ EventsNumbered
    \/ damaged /\ DamageDetected

(* Nothing runs on a damaged bundle. *)
LEMMA AuditNextInv == AuditInv /\ [AuditNext]_vars => AuditInv'
<1> SUFFICES ASSUME AuditInv, [AuditNext]_vars
             PROVE  AuditInv'
  OBVIOUS
<1>1. CASE damaged
  <2>1. UNCHANGED vars
    <3>1. ~Damage
      BY <1>1 DEF damaged, Damage
    <3>2. ~Next
      BY <1>1 DEF damaged, Next, NewBus, NewBusFails, EmitCheck, EmitSend, EmitSendPanics,
                  Process, ProcessOpenFails, ProcessEncodeFails, ProcessWriteFails,
                  ProcessSyncFails, ProcessRecord, ProcessRecordAndSeal, WriterReady, CloseFlag,
                  CloseChannel, FinalSeal, CloseReturns, Crash, CrashWriting, CrashInlineSeal,
                  CrashFinalSeal, PowerLoss
    <3> QED
      BY <3>1, <3>2 DEF AuditNext
  <2>2. UNCHANGED <<bus, segs, ckpts, loggedHead>>
    BY <2>1 DEF vars, disk, closing
  <2> QED
    BY <1>1, <2>2 DEF AuditInv, damaged, DamageDetected
<1>2. CASE ~damaged /\ [Next]_vars
  <2>1. IInv' /\ LinkInv' /\ EventsNumbered'
    BY <1>2, NextInv, LinkNext, NumberedNext DEF AuditInv
  <2>2. ~damaged'
    BY <2>1 DEF IInv, TypeOK, damaged
  <2> QED
    BY <2>1, <2>2 DEF AuditInv
<1>3. CASE ~damaged /\ Damage
  <2>1. bus' = "damaged"
    BY <1>3 DEF Damage
  <2>2. ~VerifyBundle(segs', ckpts', loggedHead')
    BY <1>3, Detected DEF AuditInv
  <2> QED
    BY <2>1, <2>2 DEF AuditInv, damaged, DamageDetected
<1> QED
  BY <1>1, <1>2, <1>3 DEF AuditNext

(* The inductive invariant of the bus with the auditor. *)
THEOREM AuditInvariance == AuditSpec => []AuditInv
<1>1. Init => AuditInv
  <2> SUFFICES ASSUME Init
               PROVE  AuditInv
    OBVIOUS
  <2>1. ~damaged
    BY DEF Init, damaged
  <2> QED
    BY <2>1, InitInv, LinkInit, NumberedInit DEF AuditInv
<1> QED
  BY <1>1, AuditNextInv, PTL DEF AuditSpec

(* Under every fault, failed fsyncs and power losses included: a bundle that  *)
(* Close sealed and omni-verify accepted no longer verifies against the       *)
(* logged head once segments, checkpoints or both are lost, a segment is cut, *)
(* two lines change places, or a record or a checkpoint is altered.  The      *)
(* losses of whole pairs are the hard case: the hash of a checkpoint tells    *)
(* its name, so the first checkpoint after a gap, or the pinned head, gives   *)
(* the loss away.                                                             *)
THEOREM DamageIsDetected == AuditSpec => []DamageDetected
<1>1. AuditInv => DamageDetected
  BY DEF AuditInv, DamageDetected
<1> QED
  BY <1>1, AuditInvariance, PTL

(* What Emit acknowledged is on disk exactly once, under every fault, until   *)
(* someone damages the files.                                                 *)
THEOREM AckedSurvives == AuditSpec => []AckedSurvivesFaults
<1>1. AuditInv => AckedSurvivesFaults
  BY OnePlace DEF AuditInv, AckedSurvivesFaults, AckedIsDurable
<1> QED
  BY <1>1, AuditInvariance, PTL

-----------------------------------------------------------------------------
(* The Merkle tree tells its leaves. *)

(* The equation Levels is defined by, and that there is such a function. *)
LEMMA LevelsAre ==
    ASSUME NEW s, NEW u, u = Tree!Levels(s)
    PROVE  /\ u[0] = [i \in DOMAIN s |-> Tree!LeafHash(s[i])]
           /\ \A k \in Nat : u[k + 1] = Tree!Above(u[k])
<1> DEFINE L == [i \in DOMAIN s |-> Tree!LeafHash(s[i])]
           Step(f, k) == IF k = 0 THEN L ELSE Tree!Above(f[k - 1])
           Upto(f, n) == f = [k \in 0..n |-> Step(f, k)]
           Whole(f) == f = [k \in Nat |-> Step(f, k)]
<1> HIDE DEF L
<1>1. \A n \in Nat : \E f : Upto(f, n)
  <2> DEFINE T == {n \in Nat : ~ \E f : Upto(f, n)}
  <2> SUFFICES ASSUME T # {}
               PROVE  FALSE
    OBVIOUS
  <2>1. PICK m \in T : \A n \in T : m <= n
    <3>1. T \subseteq Nat
      OBVIOUS
    <3> HIDE DEF T
    <3> QED
      BY <3>1, LeastNatural
  <2>2. CASE m = 0
    <3> DEFINE f == [k \in 0..0 |-> L]
    <3>1. f = [k \in 0..0 |-> Step(f, k)]
      OBVIOUS
    <3> QED
      BY <2>2, <3>1
  <2>3. CASE m # 0
    <3>1. m \in Nat /\ m - 1 \in Nat /\ m - 1 \notin T
      <4>1. m \in Nat
        OBVIOUS
      <4> HIDE DEF T
      <4> QED
        BY <4>1, <2>1, <2>3
    <3>2. PICK f : Upto(f, m - 1)
      BY <3>1
    <3> DEFINE g == [k \in 0..m |-> IF k = m THEN Tree!Above(f[m - 1]) ELSE f[k]]
    <3>3. ASSUME NEW k \in 0..m
          PROVE  g[k] = Step(g, k)
      <4>1. CASE k = m
        BY <4>1, <3>1, <2>3
      <4>2. CASE k # m /\ k = 0
        BY <4>2, <3>1, <3>2
      <4>3. CASE k # m /\ k # 0
        <5>1. k \in 0..(m - 1) /\ k - 1 \in 0..(m - 1) /\ k - 1 \in 0..m /\ k - 1 # m
          BY <4>3, <3>1
        <5>2. f[k] = Tree!Above(f[k - 1])
          BY <5>1, <4>3, <3>2
        <5> QED
          BY <5>1, <5>2, <4>3
      <4> QED
        BY <4>1, <4>2, <4>3
    <3>4. g = [k \in 0..m |-> g[k]]
      OBVIOUS
    <3>5. Upto(g, m)
      BY <3>3, <3>4
    <3> QED
      BY <3>5
  <2> QED
    BY <2>2, <2>3
<1>2. ASSUME NEW f, NEW g, NEW m \in Nat, NEW n \in Nat, Upto(f, m), Upto(g, n),
             NEW k \in Nat, k <= m, k <= n
      PROVE  f[k] = g[k]
  <2> DEFINE T == {i \in Nat : i <= m /\ i <= n /\ f[i] # g[i]}
  <2> SUFFICES ASSUME T # {}
               PROVE  FALSE
    BY <1>2
  <2>1. PICK i \in T : \A j \in T : i <= j
    <3>1. T \subseteq Nat
      OBVIOUS
    <3> HIDE DEF T
    <3> QED
      BY <3>1, LeastNatural
  <2>2. f[i] = Step(f, i) /\ g[i] = Step(g, i)
    BY <1>2
  <2>3. i # 0 /\ i - 1 \in Nat /\ i - 1 \notin T
    BY <2>1, <2>2
  <2>4. f[i - 1] = g[i - 1]
    BY <2>3
  <2> QED
    BY <2>2, <2>3, <2>4
<1> DEFINE A(n) == CHOOSE f : Upto(f, n)
           F == [n \in Nat |-> A(n)[n]]
<1>3. \A n \in Nat : Upto(A(n), n)
  <2> HIDE DEF Upto
  <2> QED
    BY <1>1
<1>4. ASSUME NEW n \in Nat
      PROVE  F[n] = Step(F, n)
  <2>1. Upto(A(n), n)
    BY <1>3
  <2>2. A(n)[n] = Step(A(n), n)
    <3> HIDE DEF A
    <3> QED
      BY <2>1
  <2>3. CASE n = 0
    BY <2>2, <2>3
  <2>4. CASE n # 0
    <3>1. n - 1 \in Nat /\ n - 1 <= n
      BY <2>4
    <3>2. Upto(A(n - 1), n - 1)
      BY <3>1, <1>3
    <3>3. A(n)[n - 1] = A(n - 1)[n - 1]
      <4> HIDE DEF A, Upto
      <4> QED
        BY <2>1, <3>1, <3>2, <1>2
    <3>4. F[n - 1] = A(n - 1)[n - 1] /\ F[n] = A(n)[n]
      BY <3>1
    <3> HIDE DEF A, F
    <3> QED
      BY <2>2, <2>4, <3>3, <3>4
  <2> QED
    BY <2>3, <2>4
<1>5. \E f : Whole(f)
  <2>1. F = [n \in Nat |-> F[n]]
    OBVIOUS
  <2> HIDE DEF F
  <2>2. Whole(F)
    BY <1>4, <2>1
  <2> QED
    BY <2>2
<1>6. u = CHOOSE f : Whole(f)
  BY DEF Tree!Levels, L
<1>7. Whole(u)
  <2> HIDE DEF Whole
  <2> QED
    BY <1>5, <1>6
<1>8. u[0] = L
  BY <1>7
<1>9. ASSUME NEW k \in Nat
      PROVE  u[k + 1] = Tree!Above(u[k])
  <2>1. k + 1 \in Nat /\ k + 1 # 0 /\ (k + 1) - 1 = k
    OBVIOUS
  <2>2. u[k + 1] = Step(u, k + 1)
    <3> HIDE DEF Step
    <3> QED
      BY <1>7, <2>1
  <2> QED
    BY <2>1, <2>2
<1> QED
  BY <1>8, <1>9 DEF L

(* The leftmost path down from hash x is k nodes long and ends in a leaf. *)
Spine(x, k) ==
    \E p : /\ p[0] = x /\ p[k][1] = "leaf"
           /\ \A i \in 0..(k - 1) : p[i][1] = "node" /\ p[i + 1] = p[i][2]

(* The path of a leaf. *)
LEMMA SpineLeaf == ASSUME NEW d PROVE Spine(Tree!LeafHash(d), 0)
<1> DEFINE x == <<"leaf", d>>
           p == [i \in {0} |-> x]
<1>1. p[0] = x /\ p[0][1] = "leaf" /\ 0..(0 - 1) = {}
  OBVIOUS
<1>2. Spine(x, 0)
  BY <1>1 DEF Spine
<1> QED
  BY <1>2 DEF Tree!LeafHash

(* The path of a node is that of its left child, and the node. *)
LEMMA SpineNode ==
    ASSUME NEW l, NEW r, NEW k \in Nat, Spine(l, k)
    PROVE  Spine(Tree!NodeHash(l, r), k + 1)
<1> DEFINE x == <<"node", l, r>>
<1>1. PICK p : /\ p[0] = l /\ p[k][1] = "leaf"
               /\ \A i \in 0..(k - 1) : p[i][1] = "node" /\ p[i + 1] = p[i][2]
  BY DEF Spine
<1> DEFINE q == [i \in Nat |-> IF i = 0 THEN x ELSE p[i - 1]]
<1>2. x[1] = "node" /\ x[2] = l
  OBVIOUS
<1> HIDE DEF x
<1>3. q[0] = x /\ q[k + 1][1] = "leaf"
  BY <1>1
<1>4. ASSUME NEW i \in 0..((k + 1) - 1)
      PROVE  q[i][1] = "node" /\ q[i + 1] = q[i][2]
  <2>1. CASE i = 0
    BY <2>1, <1>1, <1>2
  <2>2. CASE i # 0
    <3>1. i - 1 \in 0..(k - 1) /\ (i - 1) + 1 = i /\ (i + 1) - 1 = i /\ i \in Nat
      BY <2>2
    <3>2. q[i] = p[i - 1] /\ q[i + 1] = p[i]
      BY <2>2, <3>1
    <3>3. p[i - 1][1] = "node" /\ p[(i - 1) + 1] = p[i - 1][2]
      BY <3>1, <1>1
    <3> HIDE DEF q
    <3> QED
      BY <3>1, <3>2, <3>3
  <2> QED
    BY <2>1, <2>2
<1>5. Spine(x, k + 1)
  <2> HIDE DEF q
  <2> QED
    BY <1>3, <1>4 DEF Spine
<1> QED
  BY <1>5 DEF Tree!NodeHash, x

(* A hash has one leftmost path. *)
LEMMA SpineOne ==
    ASSUME NEW x, NEW j \in Nat, NEW k \in Nat, Spine(x, j), Spine(x, k)
    PROVE  j = k
<1>1. ASSUME NEW m \in Nat, NEW n \in Nat, Spine(x, m), Spine(x, n), m < n
      PROVE  FALSE
  <2>1. PICK p : /\ p[0] = x /\ p[m][1] = "leaf"
                 /\ \A i \in 0..(m - 1) : p[i][1] = "node" /\ p[i + 1] = p[i][2]
    BY <1>1 DEF Spine
  <2>2. PICK q : /\ q[0] = x /\ q[n][1] = "leaf"
                 /\ \A i \in 0..(n - 1) : q[i][1] = "node" /\ q[i + 1] = q[i][2]
    BY <1>1 DEF Spine
  <2> DEFINE T == {i \in 0..m : p[i] # q[i]}
  <2>3. T = {}
    <3> SUFFICES ASSUME T # {}
                 PROVE  FALSE
      OBVIOUS
    <3>1. PICK i \in T : \A a \in T : i <= a
      <4>1. T \subseteq Nat
        OBVIOUS
      <4> HIDE DEF T
      <4> QED
        BY <4>1, LeastNatural
    <3>2. i # 0 /\ i \in 0..m
      BY <2>1, <2>2
    <3>3. i - 1 \in 0..(m - 1) /\ i - 1 \in 0..(n - 1) /\ i - 1 \in 0..m /\ (i - 1) + 1 = i
      BY <3>2, <1>1
    <3>4. i - 1 \notin T
      <4> HIDE DEF T
      <4> QED
        BY <3>1, <3>2
    <3>5. p[i - 1] = q[i - 1]
      BY <3>3, <3>4
    <3>6. p[(i - 1) + 1] = p[i - 1][2] /\ q[(i - 1) + 1] = q[i - 1][2]
      BY <3>3, <2>1, <2>2
    <3> QED
      BY <3>3, <3>5, <3>6
  <2>4. p[m] = q[m] /\ m \in 0..(n - 1)
    BY <2>3, <1>1
  <2>5. q[m][1] = "node"
    BY <2>2, <2>4
  <2> QED
    BY <2>1, <2>4, <2>5
<1> QED
  BY <1>1

(* Below a node the leftmost path goes on from its left child. *)
LEMMA SpineBelow ==
    ASSUME NEW l, NEW r, NEW k \in Nat, Spine(Tree!NodeHash(l, r), k)
    PROVE  k >= 1 /\ Spine(l, k - 1)
<1> DEFINE x == <<"node", l, r>>
<1>1. x[1] = "node" /\ x[2] = l /\ x = Tree!NodeHash(l, r)
  BY DEF Tree!NodeHash
<1> HIDE DEF x
<1>2. PICK p : /\ p[0] = x /\ p[k][1] = "leaf"
               /\ \A i \in 0..(k - 1) : p[i][1] = "node" /\ p[i + 1] = p[i][2]
  BY <1>1 DEF Spine
<1>3. k # 0
  BY <1>1, <1>2
<1> DEFINE q == [i \in Nat |-> p[i + 1]]
<1>4. q[0] = l /\ q[k - 1][1] = "leaf"
  <2>1. 0 \in 0..(k - 1) /\ k - 1 \in Nat /\ (k - 1) + 1 = k
    BY <1>3
  <2>2. q[0] = p[0 + 1] /\ q[k - 1] = p[(k - 1) + 1] /\ p[0 + 1] = p[0][2]
    BY <2>1, <1>2
  <2> HIDE DEF q
  <2> QED
    BY <2>1, <2>2, <1>1, <1>2
<1>5. ASSUME NEW i \in 0..((k - 1) - 1)
      PROVE  q[i][1] = "node" /\ q[i + 1] = q[i][2]
  <2>1. i + 1 \in 0..(k - 1) /\ i \in Nat /\ i + 1 \in Nat
    BY <1>3
  <2>2. q[i] = p[i + 1] /\ q[i + 1] = p[(i + 1) + 1]
    BY <2>1
  <2>3. p[i + 1][1] = "node" /\ p[(i + 1) + 1] = p[i + 1][2]
    BY <2>1, <1>2
  <2> HIDE DEF q
  <2> QED
    BY <2>2, <2>3
<1>6. Spine(l, k - 1)
  <2> HIDE DEF q
  <2> QED
    BY <1>4, <1>5 DEF Spine
<1> QED
  BY <1>3, <1>6

(* A level of the tree: its nodes in order, at least one. *)
Level(u) == (\E X : u \in Seq(X)) /\ u # << >>

(* A level is numbered from 1. *)
LEMMA LevelFacts ==
    ASSUME NEW u, Level(u)
    PROVE  Len(u) \in Nat /\ Len(u) >= 1 /\ DOMAIN u = 1..Len(u)
<1>1. PICK X : u \in Seq(X)
  BY DEF Level
<1> QED
  BY <1>1 DEF Level

(* Half of a length, rounded up. *)
LEMMA Halves ==
    ASSUME NEW a \in Nat
    PROVE  /\ (a + 1) \div 2 \in Nat
           /\ 2 * ((a + 1) \div 2) = a \/ 2 * ((a + 1) \div 2) = a + 1
OBVIOUS

(* A function over 1..n is a level. *)
LEMMA FunctionIsLevel ==
    ASSUME NEW n \in Nat, n >= 1, NEW u, u = [i \in 1..n |-> u[i]]
    PROVE  Level(u) /\ Len(u) = n
<1> DEFINE X == {u[i] : i \in 1..n}
<1>1. u \in [1..n -> X]
  OBVIOUS
<1>2. u \in Seq(X)
  <2> HIDE DEF X
  <2> QED
    BY <1>1
<1>3. Len(u) = n
  <2> HIDE DEF X
  <2> QED
    BY <1>1, <1>2
<1> HIDE DEF X
<1> QED
  BY <1>2, <1>3 DEF Level

(* The nodes of the next level. *)
LEMMA AboveIs ==
    ASSUME NEW u, Level(u), Len(u) > 1, NEW w, w = Tree!Above(u)
    PROVE  /\ Level(w) /\ (2 * Len(w) = Len(u) \/ 2 * Len(w) = Len(u) + 1)
           /\ \A i \in 1..Len(w) :
                 /\ 2 * i <= Len(u) => w[i] = Tree!NodeHash(u[2 * i - 1], u[2 * i])
                 /\ 2 * i > Len(u) => w[i] = u[2 * i - 1]
<1> DEFINE a == Len(u)
           m == (a + 1) \div 2
<1>1. a \in Nat /\ a > 1 /\ DOMAIN u = 1..a
  BY LevelFacts
<1>2. m \in Nat /\ (2 * m = a \/ 2 * m = a + 1)
  <2> HIDE DEF a
  <2> QED
    BY <1>1, Halves
<1>3. w = [i \in 1..m |-> Tree!Parent(u, i)]
  BY <1>1 DEF Tree!Above
<1> HIDE DEF a, m
<1>4. m >= 1
  BY <1>1, <1>2
<1>5. w = [i \in 1..m |-> w[i]] /\ \A i \in 1..m : w[i] = Tree!Parent(u, i)
  BY <1>3
<1>6. Level(w) /\ Len(w) = m
  BY <1>2, <1>4, <1>5, FunctionIsLevel
<1>7. ASSUME NEW i \in 1..m
      PROVE  /\ 2 * i <= a => w[i] = Tree!NodeHash(u[2 * i - 1], u[2 * i])
             /\ 2 * i > a => w[i] = u[2 * i - 1]
  <2>1. Tree!Parent(u, i) = IF 2 * i > a THEN u[2 * i - 1]
                            ELSE Tree!NodeHash(u[2 * i - 1], u[2 * i])
    BY DEF Tree!Parent, a
  <2> QED
    BY <2>1, <1>1, <1>2, <1>5
<1> QED
  BY <1>2, <1>6, <1>7 DEF a

(* The nodes at height k: all but the last have a leftmost path of k nodes,   *)
(* the last, which may have been promoted, one that is not longer.            *)
Heights(u, k) ==
    /\ Level(u)
    /\ \A i \in 1..(Len(u) - 1) : Spine(u[i], k)
    /\ \E j \in 0..k : Spine(u[Len(u)], j)

(* The level above is one higher. *)
LEMMA HeightsAbove ==
    ASSUME NEW u, NEW k \in Nat, Heights(u, k), NEW w, w = Tree!Above(u)
    PROVE  Heights(w, k + 1)
<1>1. Level(u) /\ Len(u) \in Nat /\ Len(u) >= 1
  BY LevelFacts DEF Heights
<1>2. PICK j \in 0..k : Spine(u[Len(u)], j)
  BY DEF Heights
<1>3. CASE Len(u) = 1
  <2>1. w = u
    BY <1>3 DEF Tree!Above
  <2>2. j \in 0..(k + 1) /\ \A i \in 1..(Len(u) - 1) : FALSE
    BY <1>3
  <2>3. Heights(u, k + 1)
    BY <1>1, <1>2, <2>2 DEF Heights
  <2> QED
    BY <2>1, <2>3
<1>4. CASE Len(u) # 1
  <2> DEFINE a == Len(u)
             m == Len(w)
  <2>1. a \in Nat /\ a > 1
    <3>1. a \in Nat /\ a >= 1 /\ a # 1
      BY <1>1, <1>4
    <3> HIDE DEF a
    <3> QED
      BY <3>1
  <2>2. /\ Level(w) /\ (2 * m = a \/ 2 * m = a + 1)
        /\ \A i \in 1..m :
                 /\ 2 * i <= a => w[i] = Tree!NodeHash(u[2 * i - 1], u[2 * i])
                 /\ 2 * i > a => w[i] = u[2 * i - 1]
    BY <1>1, <2>1, AboveIs
  <2>3. m \in Nat /\ m >= 1
    BY <2>2, LevelFacts
  <2>4. \A i \in 1..(a - 1) : Spine(u[i], k)
    BY DEF Heights
  <2>5. Spine(u[a], j)
    BY <1>2
  <2> HIDE DEF a, m
  <2>6. ASSUME NEW i \in 1..m, 2 * i <= a
        PROVE  Spine(w[i], k + 1)
    <3>1. 2 * i - 1 \in 1..(a - 1)
      BY <2>1, <2>3, <2>6
    <3>2. Spine(u[2 * i - 1], k)
      BY <3>1, <2>4
    <3>3. w[i] = Tree!NodeHash(u[2 * i - 1], u[2 * i])
      BY <2>2, <2>6
    <3> QED
      BY <3>2, <3>3, SpineNode
  <2>7. ASSUME NEW i \in 1..(m - 1)
        PROVE  Spine(w[i], k + 1)
    <3>1. i \in 1..m /\ 2 * i <= a
      BY <2>1, <2>2, <2>3
    <3> QED
      BY <3>1, <2>6
  <2>8. \E n \in 0..(k + 1) : Spine(w[m], n)
    <3>1. CASE 2 * m = a
      <4>1. m \in 1..m /\ 2 * m <= a /\ k + 1 \in 0..(k + 1)
        BY <3>1, <2>1, <2>3
      <4> QED
        BY <4>1, <2>6
    <3>2. CASE 2 * m = a + 1
      <4>1. m \in 1..m /\ 2 * m > a /\ 2 * m - 1 = a /\ j \in 0..(k + 1)
        BY <3>2, <2>1, <2>3
      <4>2. w[m] = u[a]
        BY <4>1, <2>2
      <4> QED
        BY <4>1, <4>2, <2>5
    <3> QED
      BY <2>2, <3>1, <3>2
  <2> QED
    BY <2>2, <2>7, <2>8 DEF Heights, m
<1> QED
  BY <1>3, <1>4

(* Of two levels of the same height under the same level neither is longer. *)
LEMMA BelowLength ==
    ASSUME NEW u, NEW v, NEW k \in Nat, Heights(u, k), Heights(v, k), Len(u) > 1, Len(v) > 1,
           Tree!Above(u) = Tree!Above(v)
    PROVE  Len(v) <= Len(u)
<1> DEFINE w == Tree!Above(u)
           a == Len(u)
           b == Len(v)
           m == Len(w)
<1>0. w = Tree!Above(u) /\ w = Tree!Above(v)
  OBVIOUS
<1> HIDE DEF w
<1>1. Level(u) /\ Level(v) /\ a \in Nat /\ b \in Nat /\ a > 1 /\ b > 1
  BY LevelFacts DEF Heights
<1>2. /\ Level(w) /\ (2 * m = a \/ 2 * m = a + 1)
      /\ \A i \in 1..m :
            /\ 2 * i <= a => w[i] = Tree!NodeHash(u[2 * i - 1], u[2 * i])
            /\ 2 * i > a => w[i] = u[2 * i - 1]
  BY <1>0, <1>1, AboveIs
<1>3. /\ 2 * m = b \/ 2 * m = b + 1
      /\ \A i \in 1..m :
            /\ 2 * i <= b => w[i] = Tree!NodeHash(v[2 * i - 1], v[2 * i])
            /\ 2 * i > b => w[i] = v[2 * i - 1]
  BY <1>0, <1>1, AboveIs
<1>4. m \in Nat /\ m >= 1
  BY <1>2, LevelFacts
<1>5. PICK j \in 0..k : Spine(u[a], j)
  BY DEF Heights
<1>6. \A i \in 1..(b - 1) : Spine(v[i], k)
  BY DEF Heights
<1> HIDE DEF a, b, m
<1>7. ASSUME a < b
      PROVE  FALSE
  <2>1. 2 * m = b /\ 2 * m = a + 1 /\ m \in 1..m /\ 2 * m - 1 = a /\ 2 * m - 1 \in 1..(b - 1)
    BY <1>1, <1>2, <1>3, <1>4, <1>7
  <2>2. w[m] = u[a]
    BY <2>1, <1>1, <1>2
  <2>3. w[m] = Tree!NodeHash(v[2 * m - 1], v[2 * m])
    BY <2>1, <1>1, <1>3
  <2>4. j \in Nat /\ Spine(Tree!NodeHash(v[2 * m - 1], v[2 * m]), j)
    BY <2>2, <2>3, <1>5
  <2>5. j >= 1 /\ Spine(v[2 * m - 1], j - 1)
    BY <2>4, SpineBelow
  <2>6. Spine(v[2 * m - 1], k)
    BY <2>1, <1>6
  <2>7. j - 1 \in Nat
    BY <2>4, <2>5
  <2>8. j - 1 = k
    BY <2>5, <2>6, <2>7, SpineOne
  <2> QED
    BY <2>8, <1>5
<1> QED
  BY <1>1, <1>7 DEF a, b

(* A node tells its children. *)
LEMMA NodeTells ==
    ASSUME NEW l, NEW r, NEW x, NEW y, Tree!NodeHash(l, r) = Tree!NodeHash(x, y)
    PROVE  l = x /\ r = y
BY DEF Tree!NodeHash

(* Two levels of the same height under the same level are the same. *)
LEMMA BelowSame ==
    ASSUME NEW u, NEW v, NEW k \in Nat, Heights(u, k), Heights(v, k), Len(u) > 1, Len(v) > 1,
           Tree!Above(u) = Tree!Above(v)
    PROVE  u = v
<1> DEFINE w == Tree!Above(u)
           a == Len(u)
           m == Len(w)
<1>0. w = Tree!Above(u) /\ w = Tree!Above(v)
  OBVIOUS
<1> HIDE DEF w
<1>1. /\ Level(u) /\ Level(v) /\ a \in Nat /\ Len(v) \in Nat /\ a > 1
      /\ DOMAIN u = 1..a /\ DOMAIN v = 1..Len(v)
  BY LevelFacts DEF Heights
<1>2. Len(v) = a
  <2>1. Len(v) <= Len(u)
    BY BelowLength
  <2>2. Len(u) <= Len(v)
    BY BelowLength
  <2> DEFINE b == Len(v)
  <2>3. a \in Nat /\ b \in Nat /\ b <= a /\ a <= b
    BY <1>1, <2>1, <2>2
  <2> HIDE DEF a, b
  <2>4. b = a
    BY <2>3
  <2> QED
    BY <2>4 DEF b
<1>3. /\ Level(w) /\ (2 * m = a \/ 2 * m = a + 1)
      /\ \A i \in 1..m :
            /\ 2 * i <= a => w[i] = Tree!NodeHash(u[2 * i - 1], u[2 * i])
            /\ 2 * i > a => w[i] = u[2 * i - 1]
  BY <1>0, <1>1, AboveIs
<1>4. /\ \A i \in 1..m :
            /\ 2 * i <= a => w[i] = Tree!NodeHash(v[2 * i - 1], v[2 * i])
            /\ 2 * i > a => w[i] = v[2 * i - 1]
  <2>1. /\ \A i \in 1..Len(w) :
            /\ 2 * i <= Len(v) => w[i] = Tree!NodeHash(v[2 * i - 1], v[2 * i])
            /\ 2 * i > Len(v) => w[i] = v[2 * i - 1]
    BY <1>0, <1>1, AboveIs
  <2> QED
    BY <2>1, <1>2
<1>5. m \in Nat
  BY <1>3, LevelFacts
<1> HIDE DEF a, m
<1>6. ASSUME NEW i \in 1..m, 2 * i <= a
      PROVE  u[2 * i - 1] = v[2 * i - 1] /\ u[2 * i] = v[2 * i]
  <2>1. Tree!NodeHash(u[2 * i - 1], u[2 * i]) = Tree!NodeHash(v[2 * i - 1], v[2 * i])
    BY <1>3, <1>4, <1>6
  <2> QED
    BY <2>1, NodeTells
<1>7. ASSUME NEW x \in 1..a
      PROVE  u[x] = v[x]
  <2>1. PICK i \in 1..m : x = 2 * i \/ x = 2 * i - 1
    <3> DEFINE i == (x + 1) \div 2
    <3>1. i \in Nat /\ (2 * i = x \/ 2 * i = x + 1)
      BY Halves
    <3> HIDE DEF i
    <3>2. i \in 1..m
      BY <3>1, <1>1, <1>3, <1>5
    <3> QED
      BY <3>1, <3>2
  <2>2. CASE 2 * i <= a
    BY <2>1, <2>2, <1>6
  <2>3. CASE 2 * i > a
    <3>1. x = 2 * i - 1
      BY <2>1, <2>3, <1>1
    <3> QED
      BY <3>1, <2>3, <1>3, <1>4
  <2> QED
    BY <2>2, <2>3, <1>1, <1>5
<1>8. DOMAIN u = 1..a /\ DOMAIN v = 1..a
  BY <1>1, <1>2
<1>9. u = [x \in 1..a |-> u[x]] /\ v = [x \in 1..a |-> v[x]]
  <2>1. PICK X : u \in Seq(X)
    BY <1>1 DEF Level
  <2>2. PICK Y : v \in Seq(Y)
    BY <1>1 DEF Level
  <2> QED
    BY <2>1, <2>2, <1>8
<1> QED
  BY <1>7, <1>9

(* The levels over s keep their heights and get shorter up to the root. *)
LEMMA LevelsHeights ==
    ASSUME NEW S, NEW s \in Seq(S), s # << >>, NEW u, u = Tree!Levels(s)
    PROVE  \A k \in Nat : /\ Heights(u[k], k) /\ Len(u[k]) \in Nat
                          /\ Len(u[k]) = 1 \/ Len(u[k]) + k <= Len(s)
<1>0. Len(s) \in Nat /\ Len(s) >= 1 /\ DOMAIN s = 1..Len(s)
  OBVIOUS
<1>1. /\ u[0] = [i \in DOMAIN s |-> Tree!LeafHash(s[i])]
      /\ \A k \in Nat : u[k + 1] = Tree!Above(u[k])
  BY LevelsAre
<1> DEFINE Good(k) == /\ Heights(u[k], k) /\ Len(u[k]) \in Nat
                      /\ Len(u[k]) = 1 \/ Len(u[k]) + k <= Len(s)
           n == Len(s)
<1>2. Good(0)
  <2> DEFINE x == u[0]
  <2>1. x = [i \in 1..n |-> x[i]] /\ \A i \in 1..n : x[i] = Tree!LeafHash(s[i])
    BY <1>0, <1>1
  <2>2. n \in Nat /\ n >= 1
    BY <1>0
  <2> HIDE DEF x, n
  <2>3. Level(x) /\ Len(x) = n
    BY <2>1, <2>2, FunctionIsLevel
  <2>4. \A i \in 1..n : Spine(x[i], 0)
    BY <2>1, SpineLeaf
  <2>5. n \in 1..n /\ 0 \in 0..0 /\ \A i \in 1..(n - 1) : i \in 1..n
    BY <2>2
  <2>6. Heights(x, 0)
    BY <2>3, <2>4, <2>5 DEF Heights
  <2>7. n + 0 <= n
    BY <2>2
  <2> QED
    BY <2>2, <2>3, <2>6, <2>7 DEF x, n
<1>3. ASSUME NEW k \in Nat, Good(k)
      PROVE  Good(k + 1)
  <2> DEFINE x == u[k]
             y == u[k + 1]
             a == Len(x)
             b == Len(y)
  <2>1. y = Tree!Above(x) /\ Heights(x, k)
    BY <1>1, <1>3
  <2>2. a \in Nat /\ (a = 1 \/ a + k <= n)
    BY <1>3
  <2> HIDE DEF x, y
  <2>3. Heights(y, k + 1)
    BY <2>1, HeightsAbove
  <2>4. b \in Nat /\ b >= 1 /\ a >= 1 /\ Level(x)
    BY <2>1, <2>3, LevelFacts DEF Heights
  <2>5. CASE a = 1
    <3>1. y = x
      BY <2>1, <2>5 DEF Tree!Above
    <3> QED
      BY <3>1, <2>3, <2>4, <2>5 DEF y
  <2>6. CASE a # 1
    <3>1. a > 1
      <4> HIDE DEF a
      <4> QED
        BY <2>2, <2>4, <2>6
    <3>2. 2 * b = a \/ 2 * b = a + 1
      BY <2>1, <2>4, <3>1, AboveIs
    <3>3. b + (k + 1) <= n
      <4>1. n \in Nat
        BY <1>0
      <4> HIDE DEF a, b, n
      <4> QED
        BY <2>2, <2>4, <3>1, <3>2, <4>1
    <3> QED
      BY <3>3, <2>3, <2>4 DEF y
  <2> QED
    BY <2>5, <2>6
<1> DEFINE T == {k \in Nat : ~Good(k)}
<1>4. T = {}
  <2> HIDE DEF Good
  <2> SUFFICES ASSUME T # {}
               PROVE  FALSE
    OBVIOUS
  <2>1. PICK k \in T : \A j \in T : k <= j
    <3>1. T \subseteq Nat
      OBVIOUS
    <3> HIDE DEF T
    <3> QED
      BY <3>1, LeastNatural
  <2>2. k \in Nat /\ k # 0 /\ ~Good(k)
    BY <1>2
  <2>3. k - 1 \in Nat /\ (k - 1) + 1 = k /\ ~(k <= k - 1)
    BY <2>2
  <2>4. Good(k - 1)
    BY <2>1, <2>3
  <2>5. Good((k - 1) + 1)
    BY <2>3, <2>4, <1>3
  <2> QED
    BY <2>2, <2>3, <2>5
<1> HIDE DEF Good
<1>5. \A k \in Nat : Good(k)
  BY <1>4
<1> QED
  BY <1>5 DEF Good

(* The first level of one node is the root. *)
LEMMA RootAt ==
    ASSUME NEW S, NEW s \in Seq(S), s # << >>, NEW u, u = Tree!Levels(s)
    PROVE  \E h \in Nat : /\ Len(u[h]) = 1 /\ u[h][1] = Tree!MerkleRoot(s)
                          /\ \A k \in 0..(h - 1) : Len(u[k]) > 1
                          /\ Spine(u[h][1], h)
<1> DEFINE n == Len(s)
           T == {k \in Nat : Len(u[k]) = 1}
<1>0. n \in Nat /\ n >= 1
  OBVIOUS
<1>1. \A k \in Nat : /\ Heights(u[k], k) /\ Len(u[k]) \in Nat /\ Len(u[k]) >= 1
                     /\ Len(u[k]) = 1 \/ Len(u[k]) + k <= n
  <2>1. \A k \in Nat : /\ Heights(u[k], k) /\ Len(u[k]) \in Nat
                       /\ Len(u[k]) = 1 \/ Len(u[k]) + k <= n
    BY LevelsHeights
  <2>2. \A k \in Nat : Level(u[k])
    BY <2>1 DEF Heights
  <2> QED
    BY <2>1, <2>2, LevelFacts
<1>2. \A k \in Nat : u[k + 1] = Tree!Above(u[k])
  BY LevelsAre
<1>3. u[0] = [i \in DOMAIN s |-> Tree!LeafHash(s[i])]
  BY LevelsAre
<1>4. n \in T
  <2> DEFINE a == Len(u[n])
  <2>1. a \in Nat /\ a >= 1 /\ (a = 1 \/ a + n <= n)
    BY <1>0, <1>1
  <2> HIDE DEF a, n
  <2>2. a = 1
    BY <1>0, <2>1
  <2> QED
    BY <1>0, <2>2 DEF a
<1>5. PICK h \in T : \A k \in T : h <= k
  <2>1. T \subseteq Nat /\ T # {}
    BY <1>4
  <2> HIDE DEF T
  <2> QED
    BY <2>1, LeastNatural
<1>6. h \in Nat /\ Len(u[h]) = 1 /\ h <= n
  BY <1>4, <1>5
<1>7. ASSUME NEW k \in 0..(h - 1)
      PROVE  Len(u[k]) > 1
  <2> DEFINE a == Len(u[k])
  <2>1. k \in Nat /\ ~(h <= k)
    BY <1>6
  <2>2. k \notin T
    <3> HIDE DEF T
    <3> QED
      BY <2>1, <1>5
  <2>3. a \in Nat /\ a >= 1 /\ a # 1
    BY <2>1, <2>2, <1>1
  <2> HIDE DEF a
  <2>4. a > 1
    BY <2>3
  <2> QED
    BY <2>4 DEF a
<1>8. ASSUME NEW k \in Nat
      PROVE  u[h + k] = u[h]
  <2> DEFINE B == {j \in Nat : u[h + j] # u[h]}
  <2> SUFFICES ASSUME B # {}
               PROVE  FALSE
    OBVIOUS
  <2>1. PICK j \in B : \A i \in B : j <= i
    <3>1. B \subseteq Nat
      OBVIOUS
    <3> HIDE DEF B
    <3> QED
      BY <3>1, LeastNatural
  <2>2. j \in Nat /\ u[h + j] # u[h]
    OBVIOUS
  <2>3. h + 0 = h
    BY <1>6
  <2>4. j # 0
    BY <2>2, <2>3
  <2>5. j - 1 \in Nat /\ ~(j <= j - 1) /\ h + (j - 1) \in Nat /\ (h + (j - 1)) + 1 = h + j
    BY <2>2, <2>4, <1>6
  <2>6. j - 1 \notin B
    <3> HIDE DEF B
    <3> QED
      BY <2>1, <2>5
  <2>7. u[h + (j - 1)] = u[h]
    BY <2>5, <2>6
  <2>8. u[h + j] = Tree!Above(u[h])
    BY <2>5, <2>7, <1>2
  <2>9. Tree!Above(u[h]) = u[h]
    BY <1>6 DEF Tree!Above
  <2> QED
    BY <2>2, <2>8, <2>9
<1>9. u[h][1] = Tree!MerkleRoot(s)
  <2>1. n - h \in Nat /\ h + (n - h) = n
    BY <1>0, <1>6
  <2>2. u[n] = u[h]
    <3>1. u[h + (n - h)] = u[h]
      BY <2>1, <1>8
    <3> QED
      BY <2>1, <3>1
  <2>3. Tree!MerkleRoot(s) = u[n][1]
    BY DEF Tree!MerkleRoot
  <2> QED
    BY <2>2, <2>3
<1>10. Spine(u[h][1], h)
  <2>1. CASE h = 0
    <3>1. PICK j \in 0..0 : Spine(u[0][Len(u[0])], j)
      BY <2>1, <1>1 DEF Heights
    <3> QED
      BY <2>1, <3>1, <1>6
  <2>2. CASE h # 0
    <3> DEFINE x == u[h - 1]
               y == u[h]
    <3>1. h - 1 \in Nat /\ (h - 1) + 1 = h /\ h - 1 \in 0..(h - 1)
      BY <2>2, <1>6
    <3>2. Heights(x, h - 1) /\ Len(x) > 1 /\ Len(x) \in Nat
      BY <3>1, <1>1, <1>7
    <3>3. y = Tree!Above(x)
      <4>1. u[(h - 1) + 1] = Tree!Above(u[h - 1])
        BY <3>1, <1>2
      <4> QED
        BY <3>1, <4>1
    <3>4. Len(y) = 1
      BY <1>6
    <3> HIDE DEF x, y
    <3>5. y[1] = Tree!NodeHash(x[1], x[2])
      <4>1. Level(x)
        BY <3>2 DEF Heights
      <4>2. \A i \in 1..Len(y) : 2 * i <= Len(x) => y[i] = Tree!NodeHash(x[2 * i - 1], x[2 * i])
        BY <3>2, <3>3, <4>1, AboveIs
      <4>3. 1 \in 1..1 /\ 2 * 1 = 2 /\ 2 * 1 - 1 = 1
        OBVIOUS
      <4> DEFINE a == Len(x)
      <4>4. a \in Nat /\ a > 1
        BY <3>2
      <4>5. 2 <= a
        <5> HIDE DEF a
        <5> QED
          BY <4>4
      <4> QED
        BY <4>2, <4>3, <4>5, <3>4
    <3>6. Spine(x[1], h - 1)
      <4> DEFINE a == Len(x)
      <4>1. a \in Nat /\ a > 1 /\ \A i \in 1..(a - 1) : Spine(x[i], h - 1)
        BY <3>2 DEF Heights
      <4>2. 1 \in 1..(a - 1)
        <5> HIDE DEF a
        <5> QED
          BY <4>1
      <4> QED
        BY <4>1, <4>2
    <3>7. Spine(y[1], h)
      <4>1. Spine(Tree!NodeHash(x[1], x[2]), (h - 1) + 1)
        BY <3>1, <3>6, SpineNode
      <4> QED
        BY <3>1, <3>5, <4>1
    <3> QED
      BY <3>7 DEF y
  <2> QED
    BY <2>1, <2>2
<1> QED
  BY <1>6, <1>7, <1>9, <1>10

(* Two segments that are not empty. *)
LEMMA RootsDiffer ==
    ASSUME NEW S, NEW s \in Seq(S), NEW t \in Seq(S), s # << >>, t # << >>,
           Tree!MerkleRoot(s) = Tree!MerkleRoot(t)
    PROVE  s = t
<1> DEFINE u == Tree!Levels(s)
           v == Tree!Levels(t)
<1>0. u = Tree!Levels(s) /\ v = Tree!Levels(t)
  OBVIOUS
<1> HIDE DEF u, v
<1>1. PICK h \in Nat : /\ Len(u[h]) = 1 /\ u[h][1] = Tree!MerkleRoot(s)
                       /\ \A k \in 0..(h - 1) : Len(u[k]) > 1
                       /\ Spine(u[h][1], h)
  BY <1>0, RootAt
<1>2. PICK g \in Nat : /\ Len(v[g]) = 1 /\ v[g][1] = Tree!MerkleRoot(t)
                       /\ \A k \in 0..(g - 1) : Len(v[k]) > 1
                       /\ Spine(v[g][1], g)
  BY <1>0, RootAt
<1>3. g = h
  <2>1. Spine(u[h][1], g)
    BY <1>1, <1>2
  <2> QED
    BY <2>1, <1>1, SpineOne
<1>4. \A k \in Nat : Heights(u[k], k) /\ Heights(v[k], k)
  BY <1>0, LevelsHeights
<1>5. /\ \A k \in Nat : u[k + 1] = Tree!Above(u[k])
      /\ u[0] = [i \in DOMAIN s |-> Tree!LeafHash(s[i])]
  BY <1>0, LevelsAre
<1>6. /\ \A k \in Nat : v[k + 1] = Tree!Above(v[k])
      /\ v[0] = [i \in DOMAIN t |-> Tree!LeafHash(t[i])]
  BY <1>0, LevelsAre
<1>7. u[h] = v[h]
  <2> DEFINE x == u[h]
             y == v[h]
  <2>1. Level(x) /\ Level(y) /\ Len(x) = 1 /\ Len(y) = 1 /\ x[1] = y[1]
    BY <1>1, <1>2, <1>3, <1>4 DEF Heights
  <2> HIDE DEF x, y
  <2>2. PICK X : x \in Seq(X)
    BY <2>1 DEF Level
  <2>3. PICK Y : y \in Seq(Y)
    BY <2>1 DEF Level
  <2>4. x = <<x[1]>> /\ y = <<y[1]>>
    BY <2>1, <2>2, <2>3
  <2>5. x = y
    BY <2>1, <2>4
  <2> QED
    BY <2>5 DEF x, y
<1>8. u[0] = v[0]
  <2> DEFINE T == {k \in 0..h : u[k] = v[k]}
  <2>1. T \subseteq Nat /\ h \in T
    BY <1>7
  <2>2. PICK k \in T : \A j \in T : k <= j
    <3> HIDE DEF T
    <3> QED
      BY <2>1, LeastNatural
  <2>3. CASE k = 0
    BY <2>3
  <2>4. CASE k # 0
    <3>1. /\ k - 1 \in Nat /\ (k - 1) + 1 = k /\ k - 1 \in 0..(h - 1) /\ k - 1 \in 0..h
          /\ ~(k <= k - 1)
      BY <2>4
    <3>2. Len(u[k - 1]) > 1 /\ Len(v[k - 1]) > 1
      BY <3>1, <1>1, <1>2, <1>3
    <3>3. Heights(u[k - 1], k - 1) /\ Heights(v[k - 1], k - 1)
      BY <3>1, <1>4
    <3>4. Tree!Above(u[k - 1]) = Tree!Above(v[k - 1])
      <4>1. u[(k - 1) + 1] = Tree!Above(u[k - 1]) /\ v[(k - 1) + 1] = Tree!Above(v[k - 1])
        BY <3>1, <1>5, <1>6
      <4>2. u[k] = v[k]
        OBVIOUS
      <4> QED
        BY <3>1, <4>1, <4>2
    <3>5. u[k - 1] = v[k - 1]
      BY <3>1, <3>2, <3>3, <3>4, BelowSame
    <3>6. k - 1 \in T
      BY <3>1, <3>5
    <3> QED
      <4> HIDE DEF T
      <4> QED
        BY <2>2, <3>1, <3>6
  <2> QED
    BY <2>3, <2>4
<1>9. DOMAIN s = DOMAIN t
  BY <1>5, <1>6, <1>8
<1>10. \A i \in DOMAIN s : s[i] = t[i]
  <2> SUFFICES ASSUME NEW i \in DOMAIN s
               PROVE  s[i] = t[i]
    OBVIOUS
  <2>1. u[0][i] = Tree!LeafHash(s[i])
    BY <1>5
  <2>2. v[0][i] = Tree!LeafHash(t[i])
    BY <1>6, <1>9
  <2>3. Tree!LeafHash(s[i]) = Tree!LeafHash(t[i])
    BY <1>8, <2>1, <2>2
  <2> QED
    BY <2>3 DEF Tree!LeafHash
<1> QED
  BY <1>9, <1>10

(* The root of no records is the root of no segment. *)
LEMMA EmptyDiffers ==
    ASSUME NEW t \in Seq(Payloads), t # << >>, Tree!MerkleRoot(<< >>) = Tree!MerkleRoot(t)
    PROVE  FALSE
<1> DEFINE v == Tree!Levels(t)
<1>0. v = Tree!Levels(t)
  OBVIOUS
<1> HIDE DEF v
<1>1. PICK g \in Nat : /\ Len(v[g]) = 1 /\ v[g][1] = Tree!MerkleRoot(t)
                       /\ \A k \in 0..(g - 1) : Len(v[k]) > 1
                       /\ Spine(v[g][1], g)
  BY <1>0, RootAt
<1>2. Tree!MerkleRoot(<< >>) = Tree!LeafHash(Empty)
  BY DEF Tree!MerkleRoot
<1>3. g = 0
  <2>1. Spine(v[g][1], 0)
    BY <1>1, <1>2, SpineLeaf
  <2> QED
    BY <2>1, <1>1, SpineOne
<1>4. v[0] = [i \in DOMAIN t |-> Tree!LeafHash(t[i])]
  BY <1>0, LevelsAre
<1>5. 1 \in DOMAIN t /\ t[1] \in Payloads
  OBVIOUS
<1>6. Tree!LeafHash(t[1]) = Tree!LeafHash(Empty)
  BY <1>1, <1>2, <1>3, <1>4, <1>5
<1>7. t[1] = Empty
  BY <1>6 DEF Tree!LeafHash
<1> QED
  BY <1>5, <1>7, MerkleAssumption

(* The tree the code builds is injective in its leaves, for segments of every *)
(* length: neither a promoted odd node nor an empty segment makes two         *)
(* segments share a root.  The leftmost path of a hash tells its height, so   *)
(* equal roots have equally many levels and a promoted node is never taken    *)
(* for a pair.                                                                *)
THEOREM MerkleInjective ==
    \A s, t \in Seq(Payloads) : Tree!MerkleRoot(s) = Tree!MerkleRoot(t) => s = t
<1> SUFFICES ASSUME NEW s \in Seq(Payloads), NEW t \in Seq(Payloads),
                    Tree!MerkleRoot(s) = Tree!MerkleRoot(t)
             PROVE  s = t
  OBVIOUS
<1>1. CASE s = << >> /\ t # << >>
  <2>1. Tree!MerkleRoot(<< >>) = Tree!MerkleRoot(t)
    BY <1>1
  <2> QED
    BY <1>1, <2>1, EmptyDiffers
<1>2. CASE s # << >> /\ t = << >>
  <2>1. Tree!MerkleRoot(<< >>) = Tree!MerkleRoot(s)
    BY <1>2
  <2> QED
    BY <1>2, <2>1, EmptyDiffers
<1>3. CASE s # << >> /\ t # << >>
  BY <1>3, RootsDiffer
<1> QED
  BY <1>1, <1>2, <1>3

(* The same for the segments the model checker looks at. *)
THEOREM RootsTellLeaves == AuditSpec => []RootDeterminesLeaves
<1>1. RootDeterminesLeaves
  <2>1. BoundedSeq(Payloads, MaxLeaves) \subseteq Seq(Payloads)
    <3> SUFFICES ASSUME NEW s \in BoundedSeq(Payloads, MaxLeaves)
                 PROVE  s \in Seq(Payloads)
      OBVIOUS
    <3>1. PICK m \in 0..MaxLeaves : s \in [1..m -> Payloads]
      BY DEF BoundedSeq, SeqOf
    <3>2. m \in Nat
      BY MerkleAssumption
    <3> QED
      BY <3>1, <3>2
  <2> QED
    BY <2>1, MerkleInjective DEF RootDeterminesLeaves
<1> QED
  BY <1>1, PTL
=============================================================================
