---------------------------- MODULE TransferProofs -----------------------------
(***************************************************************************)
(* The safety of file transfers for any users, files, chunks, windows and   *)
(* lifetimes, any wiring of the gateway, and any number of crashes.         *)
(***************************************************************************)
EXTENDS Transfer, SequenceTheorems, FiniteSetTheorems, TLAPS

FileType == [n : Keys, kind : {"none", "upload", "direct", "download"},
             proto : Protocols \cup {"sftp"}, user : Clients \cup {None}, size : Nat,
             broken : BOOLEAN]

UploadType == [user : Clients \cup Earlier \cup {None}, image : Sparse, resized : BOOLEAN,
               told : {None, "ok", "error"}, until : Nat]

AsmType == [exp : Nat, at : SUBSET Offsets, pending : [Offsets -> Seq(Bytes)], bytes : Int]

ChunkType == [off : Nat, data : Seq(Bytes)]

ReadType == [off : Offsets, data : Seq(Bytes), i : Nat]

PcType == {"idle", "open", "flushing", "closing", "asking", "waiting", "granted", "recorded"}

ScanType == {"idle", "head", "large", "scanned", "done"}

Words == {"accepted", "rejected", "requested", "granted", "refused", "released", "download",
          "filecmd"}

ApprovalType == [status : {"none", "pending", "approved", "denied"}, deadline : Nat]

(* The types of what a client moves, and of what the gateway keeps. *)
MovingOK ==
    /\ file \in FileType
    /\ pc \in PcType
    /\ asm \in AsmType
    /\ chunk \in ChunkType
    /\ reading \subseteq ReadType
    /\ chunks \in Nat
    /\ stream \in Seq(Bytes)
    /\ target \in Sparse

KeptOK ==
    /\ now \in Nat
    /\ scan \in ScanType
    /\ approval \in [Keys -> ApprovalType]
    /\ trail \in [Keys -> Seq(Words)]
    /\ uploads \in [Keys -> UploadType]

TypeOK == MovingOK /\ KeptOK

(* The steps of doClose after the verdict. *)
Settling == {"asking", "waiting", "granted", "recorded"}

(* A release is of an upload that has been through all of doClose: the id of   *)
(* the open file is not among them until it is recorded.                      *)
Shelf == releases \cup releaseFile

ReleasesKnown ==
    /\ \A r \in Shelf : /\ r.id \in 0..file.n /\ r.expires \in Nat
                        /\ r.id = file.n => pc \in {"recorded", "idle"}
    /\ \A n \in Keys : n > file.n => ~(uploads[n].told = "ok" /\ now < uploads[n].until)

(* Memory and file hold the same releases, up to the expired ones. *)
StoresAgree ==
    \A r \in Shelf : now < r.expires => r \in releases /\ r \in releaseFile

(* What the uploader is told, or is about to be, is in the file. *)
Promised(n) == uploads[n].told = "ok" \/ (n = file.n /\ pc = "recorded")

PromisesKept ==
    \A n \in Keys :
        Promised(n) /\ now < uploads[n].until =>
            \E r \in releaseFile : /\ r.id = n /\ r.user = uploads[n].user
                                   /\ r.expires = uploads[n].until

Earned(n, u) ==
    /\ uploads[n].user = u
    /\ n \in cleared /\ approval[n].status = "approved"
    /\ Event(n, "accepted") /\ Event(n, "granted")

ReleasesEarned == \A r \in Shelf : Earned(r.id, r.user)

(* doClose's steps, and what each has established. *)
ClosingSteps ==
    /\ pc \in {"closing"} \cup Settling => file.kind = "upload"
    /\ file.kind = "upload" => uploads[file.n].user = file.user
    /\ pc # "idle" => file.n # 0
    /\ pc \in Settling => file.n \in cleared /\ Event(file.n, "accepted")
    /\ pc \in {"granted", "recorded"} =>
          approval[file.n].status = "approved" /\ Event(file.n, "granted")

(* The gate lets content through only after the inspector cleared it. *)
GateCleared ==
    /\ scan # "idle" => file.kind = "upload" /\ pc \in {"open", "flushing", "closing"}
    /\ scan = "scanned" /\ verdict = "clean" => file.n \in cleared
    /\ decision.allow => scan # "idle" /\ file.n \in cleared

(* Between transfers nothing is left of the last one. *)
Clean ==
    (pc \notin {"open", "flushing", "closing"} \/ file.kind \notin {"upload", "download"}) =>
        stream = << >> /\ asm = Empty /\ reading = {}

(* What a download has hashed, keeps waiting or has just read, the target has  *)
(* returned where it says.                                                    *)
SeenAt(off, data) == \A i \in DOMAIN data : <<off + i - 1, data[i]>> \in seen

Observed ==
    file.kind = "download" =>
        /\ asm.exp = Len(stream)
        /\ SeenAt(0, stream)
        /\ \A o \in Offsets : SeenAt(o, asm.pending[o])
        /\ \A r \in reading : SeenAt(r.off, r.data)

(* The gate of an upload: what it has concluded, and when. *)
Refused == failed \/ (scan = "done" /\ ~decision.allow)

ScanOrder ==
    /\ quarantine \in [Keys -> Seq(Bytes) \cup {None}]
    /\ scan = "scanned" => pc = "closing"
    /\ scan = "done" => Refused \/ (pc = "closing" /\ quarantine[file.n] = stream)

(* An upload still open, or being closed, has no verdict on record; one to    *)
(* come has been written nothing.                                            *)
Receiving == file.kind = "upload" /\ pc \in {"open", "flushing", "closing"}

Unjudged ==
    \A n \in Keys :
        /\ n > file.n => uploads[n].image = NoBytes
        /\ n > file.n \/ (n = file.n /\ Receiving) => ~Event(n, "accepted")

(* The bytes pending holds, as the offset of their chunk and the place in it. *)
Cells(p) == {c \in Offsets \X (1..Size) : c[2] <= Len(p[c[1]])}

(* The waiting chunk at q covers offset o. *)
Covers(p, q, o) == o \in q..(q + Len(p[q]) - 1)

(* No chunk waits below expOff, nor overlaps another: otherwise one of them    *)
(* waits for ever, and Close finds the gap.                                  *)
Tidy(a) ==
    /\ \A q \in Offsets : a.pending[q] # << >> => q >= a.exp
    /\ \A p, q, o \in Offsets : Covers(a.pending, p, o) /\ Covers(a.pending, q, o) => p = q

(* What the client has written, the write in progress included. *)
Wrote(o) ==
    IF pc = "flushing" /\ o \in chunk.off..(chunk.off + Len(chunk.data) - 1)
    THEN chunk.data[o - chunk.off + 1] ELSE uploads[file.n].image[o]

(* ... is what went into the pipe, and then what waits. *)
Matches(a) ==
    \A o \in Offsets :
        /\ o < a.exp => Wrote(o) = stream[o + 1]
        /\ \A q \in Offsets : Covers(a.pending, q, o) => Wrote(o) = a.pending[q][o - q + 1]
        /\ o >= a.exp /\ (\A q \in Offsets : ~Covers(a.pending, q, o)) => Wrote(o) = None

Fits(a) == \A q \in Offsets : q + Len(a.pending[q]) <= Size

(* A chunk that is absent is empty; an empty one need not be absent. *)
Vacant(a) == \A q \in Offsets : q \notin a.at => a.pending[q] = << >>

Assembled ==
    Receiving /\ ~uploads[file.n].resized =>
        /\ asm.exp = Len(stream) /\ Fits(asm) /\ Vacant(asm)
        /\ Cardinality(Cells(asm.pending)) <= asm.bytes
        /\ Refused \/ ~Tidy(asm) \/ Matches(asm)

ShelfOK == ReleasesKnown /\ StoresAgree /\ PromisesKept /\ ReleasesEarned
CloseOK == ClosingSteps /\ GateCleared
TapOK == Clean /\ Observed /\ ManifestIsObserved

(* What was accepted is in quarantine. *)
InStore == \A n \in Keys : Event(n, "accepted") => quarantine[n] \in Seq(Bytes)

WholeOK == ScanOrder /\ Unjudged /\ Assembled /\ InStore /\ AcceptedIsWhole

IInv == TypeOK /\ ShelfOK /\ CloseOK /\ TapOK /\ WholeOK

-----------------------------------------------------------------------------
(* What the operators on a reassembly do to its fields. *)
LEMMA NextChunkType ==
    ASSUME NEW a \in AsmType
    PROVE  /\ NextChunk(a) \in Seq(Bytes)
           /\ Contiguous(a) => a.exp \in Offsets /\ NextChunk(a) = a.pending[a.exp]
  BY DEF AsmType, NextChunk, Contiguous

LEMMA CountedFields ==
    ASSUME NEW a \in AsmType, NEW off \in Offsets, NEW data \in Seq(Bytes)
    PROVE  /\ Counted(a, off, data) \in AsmType
           /\ Counted(a, off, data).exp = a.exp /\ Counted(a, off, data).pending = a.pending
           /\ Counted(a, off, data).at = a.at
           /\ Counted(a, off, data).bytes = IF off \in a.at THEN a.bytes ELSE a.bytes + Len(data)
<1>1. Len(data) \in Nat
  OBVIOUS
<1>2. a.bytes + Len(data) \in Int
  BY <1>1 DEF AsmType
<1> HIDE <1>1
<1> DEFINE b == a.bytes + Len(data)
<1>3. b \in Int
  BY <1>2
<1> HIDE DEF b
<1>4. /\ [a EXCEPT !.bytes = b] \in AsmType
      /\ [a EXCEPT !.bytes = b].exp = a.exp /\ [a EXCEPT !.bytes = b].pending = a.pending
      /\ [a EXCEPT !.bytes = b].bytes = b /\ [a EXCEPT !.bytes = b].at = a.at
  BY <1>3 DEF AsmType
<1>5. Counted(a, off, data) = IF off \in a.at THEN a ELSE [a EXCEPT !.bytes = b]
  BY DEF Counted, b
<1> QED
  BY <1>4, <1>5 DEF b

LEMMA StoredFields ==
    ASSUME NEW a \in AsmType, NEW off \in Offsets, NEW data \in Seq(Bytes)
    PROVE  /\ Stored(a, off, data) \in AsmType
           /\ Stored(a, off, data).exp = a.exp
           /\ Stored(a, off, data).pending = [a.pending EXCEPT ![off] = data]
           /\ Stored(a, off, data).at = a.at \cup {off}
           /\ Stored(a, off, data).bytes = Counted(a, off, data).bytes
<1> DEFINE c == Counted(a, off, data)
           k == c.at \cup {off}
<1>1. c \in AsmType /\ c.exp = a.exp /\ c.pending = a.pending /\ c.at = a.at
  BY CountedFields
<1>2. Stored(a, off, data) = [[c EXCEPT !.at = k] EXCEPT !.pending[off] = data]
  BY <1>1 DEF Stored, AsmType
<1> HIDE DEF c
<1>3. k \in SUBSET Offsets
  BY <1>1 DEF AsmType
<1> HIDE DEF k
<1> DEFINE d == [c EXCEPT !.at = k]
<1>4. d \in AsmType /\ d.exp = c.exp /\ d.pending = c.pending /\ d.at = k /\ d.bytes = c.bytes
  BY <1>1, <1>3 DEF AsmType
<1> HIDE DEF d
<1>5. /\ [d EXCEPT !.pending[off] = data] \in AsmType
      /\ [d EXCEPT !.pending[off] = data].exp = d.exp
      /\ [d EXCEPT !.pending[off] = data].at = d.at
      /\ [d EXCEPT !.pending[off] = data].pending = [d.pending EXCEPT ![off] = data]
      /\ [d EXCEPT !.pending[off] = data].bytes = d.bytes
  BY <1>4 DEF AsmType
<1>6. Stored(a, off, data) = [d EXCEPT !.pending[off] = data]
  BY <1>2 DEF d
<1> QED
  BY <1>1, <1>4, <1>5, <1>6 DEF c, k

LEMMA DroppedFields ==
    ASSUME NEW a \in AsmType, Contiguous(a)
    PROVE  /\ Dropped(a) \in AsmType
           /\ Dropped(a).exp = a.exp /\ Dropped(a).at = a.at \ {a.exp}
           /\ Dropped(a).pending = [a.pending EXCEPT ![a.exp] = << >>]
           /\ Dropped(a).bytes = a.bytes - Len(NextChunk(a))
<1>1. a.exp \in Offsets /\ NextChunk(a) \in Seq(Bytes)
  BY NextChunkType
<1> DEFINE k == a.at \ {a.exp}
           p == [a.pending EXCEPT ![a.exp] = << >>]
           b == a.bytes - Len(NextChunk(a))
<1>2. Len(NextChunk(a)) \in Nat /\ << >> \in Seq(Bytes)
  BY <1>1
<1>3. p \in [Offsets -> Seq(Bytes)] /\ b \in Int
  <2>1. a.pending \in [Offsets -> Seq(Bytes)] /\ a.bytes \in Int
    BY DEF AsmType
  <2>2. b \in Int
    BY <1>2, <2>1
  <2>3. p \in [Offsets -> Seq(Bytes)]
    BY <1>2, <2>1
  <2> QED
    BY <2>2, <2>3
<1>4. k \in SUBSET Offsets
  BY DEF AsmType
<1>5. Dropped(a) = [[[a EXCEPT !.at = k] EXCEPT !.pending = p] EXCEPT !.bytes = b]
  BY DEF Dropped, AsmType
<1> HIDE DEF k, p, b
<1> DEFINE c == [a EXCEPT !.at = k]
           d == [c EXCEPT !.pending = p]
           e == [d EXCEPT !.bytes = b]
<1>6. c \in AsmType /\ c.exp = a.exp /\ c.at = k
  BY <1>4 DEF AsmType
<1> HIDE DEF c
<1>7. d \in AsmType /\ d.exp = a.exp /\ d.at = k /\ d.pending = p
  BY <1>3, <1>6 DEF AsmType
<1> HIDE DEF d
<1>8. e \in AsmType /\ e.exp = a.exp /\ e.at = k /\ e.pending = p /\ e.bytes = b
  BY <1>3, <1>7 DEF AsmType
<1> HIDE DEF e
<1>9. Dropped(a) = e
  BY <1>5 DEF c, d, e
<1> QED
  BY <1>8, <1>9 DEF k, p, b

LEMMA HandedOnFields ==
    ASSUME NEW a \in AsmType, Contiguous(a)
    PROVE  /\ HandedOn(a) \in AsmType
           /\ HandedOn(a).exp = a.exp + Len(NextChunk(a)) /\ HandedOn(a).at = a.at \ {a.exp}
           /\ HandedOn(a).pending = [a.pending EXCEPT ![a.exp] = << >>]
           /\ HandedOn(a).bytes = a.bytes - Len(NextChunk(a))
<1> DEFINE d == Dropped(a)
           e == a.exp + Len(NextChunk(a))
<1>1. d \in AsmType /\ d.exp = a.exp
  BY DroppedFields
<1>2. NextChunk(a) \in Seq(Bytes) /\ a.exp \in Nat
  BY NextChunkType DEF AsmType
<1>3. e \in Nat
  BY <1>2
<1>4. HandedOn(a) = [d EXCEPT !.exp = e]
  BY <1>1 DEF HandedOn
<1> HIDE DEF d, e
<1>5. /\ [d EXCEPT !.exp = e] \in AsmType /\ [d EXCEPT !.exp = e].exp = e
      /\ [d EXCEPT !.exp = e].pending = d.pending /\ [d EXCEPT !.exp = e].bytes = d.bytes
      /\ [d EXCEPT !.exp = e].at = d.at
  BY <1>1, <1>3 DEF AsmType
<1> QED
  BY <1>4, <1>5, DroppedFields DEF d, e

LEMMA EmptyType == Empty \in AsmType /\ Empty.exp = 0 /\ Empty.bytes = 0 /\ Empty.at = {}
                   /\ \A o \in Offsets : Empty.pending[o] = << >>
<1>1. [o \in Offsets |-> << >>] \in [Offsets -> Seq(Bytes)]
  OBVIOUS
<1> QED
  BY <1>1 DEF Empty, AsmType

-----------------------------------------------------------------------------
(* Bytes of the chunks a client writes. *)
LEMMA ChunksType == Chunks \subseteq Seq(Bytes)
  BY ReassemblyAssumption DEF Chunks

LEMMA InitTypes == Init => TypeOK
<1> SUFFICES ASSUME Init PROVE TypeOK
  OBVIOUS
<1>1. 0 \in Keys /\ << >> \in Seq(Bytes) /\ << >> \in Seq(Words)
  BY TransferAssumption
<1>2. file \in FileType
  BY <1>1 DEF Init, NoFile, FileType
<1>3. NoBytes \in Sparse
  BY DEF NoBytes, Sparse
<1>4. Original \in [Offsets -> {CHOOSE b \in Bytes : TRUE}]
  BY DEF Original
<1>5. uploads \in [Keys -> UploadType]
  <2>1. NoUpload \in UploadType
    BY <1>3 DEF NoUpload, UploadType
  <2>2. ASSUME NEW u \in Earlier
        PROVE  [NoUpload EXCEPT !.user = u, !.told = "ok", !.until = ReleaseTTL] \in UploadType
    <3> DEFINE a == [NoUpload EXCEPT !.user = u]
               b == [a EXCEPT !.told = "ok"]
    <3>1. a \in UploadType
      BY <2>1 DEF UploadType
    <3> HIDE DEF a
    <3>2. b \in UploadType
      BY <3>1 DEF UploadType
    <3> HIDE DEF b
    <3>3. [b EXCEPT !.until = ReleaseTTL] \in UploadType
      BY <3>2, ReleaseAssumption DEF UploadType
    <3> QED
      BY <3>3 DEF a, b
  <2> QED
    BY <2>1, <2>2 DEF Init
<1>6. asm \in AsmType
  BY EmptyType DEF Init
<1>7. chunk \in ChunkType
  BY <1>1 DEF Init, NoChunk, ChunkType
<1>8. approval \in [Keys -> ApprovalType]
  BY DEF Init, ApprovalType
<1>9. trail \in [Keys -> Seq(Words)]
  <2>1. <<"accepted", "requested", "granted", "released">> \in Seq(Words)
    BY DEF Words
  <2> QED
    BY <1>1, <2>1 DEF Init
<1>10. target \in Sparse
  <2>1. (CHOOSE b \in Bytes : TRUE) \in Bytes
    BY ReassemblyAssumption, Zenon
  <2> QED
    BY <2>1 DEF Init, Original, Sparse
<1> QED
  BY <1>1, <1>2, <1>5, <1>6, <1>7, <1>8, <1>9, <1>10
     DEF Init, GateInit, TypeOK, MovingOK, KeptOK, PcType, ScanType

LEMMA EmitType ==
    ASSUME KeptOK, NEW n \in Keys, NEW e \in Words, Emit(n, e)
    PROVE  trail' \in [Keys -> Seq(Words)]
<1>1. Append(trail[n], e) \in Seq(Words)
  BY DEF KeptOK
<1> QED
  BY <1>1 DEF Emit, KeptOK

LEMMA TellType ==
    ASSUME TypeOK, NEW a \in {"ok", "error"}, Tell(a)
    PROVE  /\ uploads' \in [Keys -> UploadType]
           /\ \A n \in Keys : /\ uploads'[n].user = uploads[n].user
                              /\ uploads'[n].until = uploads[n].until
                              /\ n # file.n => uploads'[n] = uploads[n]
           /\ uploads'[file.n].told = a
<1>1. uploads \in [Keys -> UploadType] /\ file.n \in Keys
  BY DEF TypeOK, KeptOK, MovingOK, FileType
<1>2. /\ [uploads[file.n] EXCEPT !.told = a] \in UploadType
      /\ [uploads[file.n] EXCEPT !.told = a].user = uploads[file.n].user
      /\ [uploads[file.n] EXCEPT !.told = a].until = uploads[file.n].until
      /\ [uploads[file.n] EXCEPT !.told = a].told = a
  BY <1>1 DEF UploadType
<1>3. uploads' = [uploads EXCEPT ![file.n] = [uploads[file.n] EXCEPT !.told = a]]
  BY <1>1 DEF Tell
<1> QED
  BY <1>1, <1>2, <1>3

LEMMA FreedType ==
    ASSUME Freed
    PROVE  /\ asm' \in AsmType /\ chunk' \in ChunkType /\ reading' \subseteq ReadType
           /\ chunks' \in Nat /\ stream' \in Seq(Bytes) /\ scan' \in ScanType
<1>1. NoChunk \in ChunkType
  BY DEF NoChunk, ChunkType
<1> QED
  BY <1>1, EmptyType DEF Freed, ScanType

(* Every step of the gateway, and of the world around it. *)
LEMMA OpenTypes ==
    ASSUME TypeOK, NEW u \in Clients, NEW proto \in Protocols, NEW size \in 0..Size
    PROVE  /\ OpenUpload(u, proto, size) => TypeOK'
           /\ OpenDirect(u, proto) \/ OpenDownload(u, proto) => TypeOK'
<1> USE DEF TypeOK, MovingOK, KeptOK
<1>1. ASSUME NEW kind \in {"upload", "direct", "download"}, NEW s \in 0..Size, Opened(kind, proto, u, s)
      PROVE  file' \in FileType /\ pc' \in PcType /\ chunks' \in Nat /\ file.n + 1 \in Keys
  <2>1. file.n \in Keys
    BY DEF FileType
  <2>2. file.n + 1 \in Keys /\ s \in Nat
    BY <1>1, <2>1, TransferAssumption, ReassemblyAssumption DEF Opened
  <2> QED
    BY <1>1, <2>2 DEF Opened, FileType, PcType
<1>2. ASSUME OpenUpload(u, proto, size) PROVE TypeOK'
  <2>1. Opened("upload", proto, u, size)
    BY <1>2 DEF OpenUpload
  <2>2. file' \in FileType /\ pc' \in PcType /\ chunks' \in Nat /\ file.n + 1 \in Keys
    BY <1>1, <2>1
  <2>3. [uploads[file.n + 1] EXCEPT !.user = u] \in UploadType
    BY <2>2 DEF UploadType
  <2>4. uploads' = [uploads EXCEPT ![file.n + 1] = [uploads[file.n + 1] EXCEPT !.user = u]]
    BY <1>2, <2>2 DEF OpenUpload
  <2>5. uploads' \in [Keys -> UploadType]
    BY <2>2, <2>3, <2>4
  <2> QED
    BY <1>2, <2>2, <2>5 DEF OpenUpload, store, ScanType
<1>3. ASSUME OpenDirect(u, proto) PROVE TypeOK'
  <2>1. Opened("direct", proto, u, 0) /\ 0 \in 0..Size
    BY <1>3, ReassemblyAssumption DEF OpenDirect
  <2>2. file' \in FileType /\ pc' \in PcType /\ chunks' \in Nat
    BY <1>1, <2>1
  <2>3. target' \in Sparse
    BY <1>3 DEF OpenDirect, NoBytes, Sparse
  <2> QED
    BY <1>3, <2>2, <2>3 DEF OpenDirect, gate, store, history
<1>4. ASSUME OpenDownload(u, proto) PROVE TypeOK'
  <2>1. Opened("download", proto, u, 0) /\ 0 \in 0..Size
    BY <1>4, ReassemblyAssumption DEF OpenDownload
  <2>2. file' \in FileType /\ pc' \in PcType /\ chunks' \in Nat
    BY <1>1, <2>1
  <2> QED
    BY <1>4, <2>2 DEF OpenDownload, gate, store
<1> QED
  BY <1>2, <1>3, <1>4

LEMMA WriteTypes ==
    ASSUME TypeOK, NEW off \in Offsets, NEW data \in Chunks
    PROVE  WriteRefused(off, data) \/ WriteAt(off, data) \/ WriteDirect(off, data) => TypeOK'
<1> USE DEF TypeOK, MovingOK, KeptOK
<1>1. data \in Seq(Bytes) /\ off \in Nat
  BY ChunksType, ReassemblyAssumption DEF Offsets
<1>2. Counted(asm, off, data) \in AsmType /\ Stored(asm, off, data) \in AsmType
  BY <1>1, CountedFields, StoredFields
<1>3. ASSUME WriteRefused(off, data) PROVE TypeOK'
  <2>1. asm' \in AsmType
    BY <1>2, <1>3 DEF WriteRefused
  <2>2. file' \in FileType /\ pc' \in PcType
    BY <1>3 DEF WriteRefused, WriteFails, FileType, PcType
  <2> QED
    BY <1>3, <2>1, <2>2 DEF WriteRefused, gate, store, history
<1>4. ASSUME WriteAt(off, data) PROVE TypeOK'
  <2>1. chunk' \in ChunkType
    BY <1>1, <1>4 DEF WriteAt, ChunkType
  <2>2. file.n \in Keys
    BY DEF FileType
  <2>3. PICK r \in BOOLEAN : uploads' = [uploads EXCEPT ![file.n] = [uploads[file.n] EXCEPT !.resized = r]]
    <3>1. (uploads[file.n].resized \/ (off \in asm.at /\ Len(asm.pending[off]) # Len(data))) \in BOOLEAN
      OBVIOUS
    <3> QED
      BY <1>4, <2>2, <3>1, Zenon DEF WriteAt
  <2>4. [uploads[file.n] EXCEPT !.resized = r] \in UploadType
    BY <2>2 DEF UploadType
  <2>5. uploads' \in [Keys -> UploadType]
    BY <2>2, <2>3, <2>4
  <2> QED
    BY <1>2, <1>4, <2>1, <2>5 DEF WriteAt, PcType, gate, store
<1>5. ASSUME WriteDirect(off, data) PROVE TypeOK'
  <2>1. ASSUME NEW o \in off..(off + Len(data) - 1) PROVE data[o - off + 1] \in Bytes
    BY <1>1
  <2>2. target' \in Sparse
    BY <1>1, <1>5, <2>1 DEF WriteDirect, Sparse
  <2> QED
    BY <1>5, <2>2 DEF WriteDirect, gate, store, history
<1> QED
  BY <1>3, <1>4, <1>5

LEMMA FlushTypes ==
    ASSUME TypeOK, Flush \/ FlushFails \/ FlushEnds \/ CloseUpload
    PROVE  TypeOK'
<1> USE DEF TypeOK, MovingOK, KeptOK
<1>1. NextChunk(asm) \in Seq(Bytes) /\ file.n \in Keys
  BY NextChunkType DEF FileType
<1>2. CASE Flush
  <2>1. Contiguous(asm) /\ asm' = HandedOn(asm) /\ stream' = stream \o NextChunk(asm)
    BY <1>2 DEF Flush
  <2>2. asm' \in AsmType
    BY <2>1, HandedOnFields
  <2>3. stream' \in Seq(Bytes)
    BY <1>1, <2>1
  <2> QED
    BY <1>2, <2>2, <2>3 DEF Flush, store, history
<1>3. CASE FlushFails
  <2>1. asm' \in AsmType
    BY <1>3, DroppedFields DEF FlushFails
  <2>2. file' \in FileType /\ pc' \in PcType
    BY <1>3 DEF FlushFails, WriteFails, FileType, PcType
  <2> QED
    BY <1>3, <2>1, <2>2 DEF FlushFails, gate, store, history
<1>4. CASE FlushEnds
  <2>0. chunk.off \in Nat /\ chunk.data \in Seq(Bytes)
    BY DEF ChunkType
  <2>1. ASSUME NEW o \in chunk.off..(chunk.off + Len(chunk.data) - 1)
        PROVE  chunk.data[o - chunk.off + 1] \in Bytes
    BY <2>0
  <2> DEFINE image == [o \in Offsets |->
               IF o \in chunk.off..(chunk.off + Len(chunk.data) - 1)
               THEN chunk.data[o - chunk.off + 1] ELSE uploads[file.n].image[o]]
  <2>2. uploads[file.n] \in UploadType /\ uploads[file.n].image \in Sparse
    BY <1>1 DEF UploadType
  <2>3. image \in Sparse
    BY <2>1, <2>2 DEF Sparse
  <2>4. uploads' = [uploads EXCEPT ![file.n] = [uploads[file.n] EXCEPT !.image = image]]
    BY <1>1, <1>4, <2>2 DEF FlushEnds, UploadType
  <2> HIDE DEF image
  <2>5. [uploads[file.n] EXCEPT !.image = image] \in UploadType
    BY <2>2, <2>3 DEF UploadType
  <2>6. uploads' \in [Keys -> UploadType]
    BY <1>1, <2>4, <2>5
  <2>7. chunk' \in ChunkType
    BY <1>4 DEF FlushEnds, NoChunk, ChunkType
  <2> QED
    BY <1>4, <2>6, <2>7 DEF FlushEnds, gate, store, PcType
<1>5. CASE CloseUpload
  <2>1. file' \in FileType /\ pc' \in PcType
    BY <1>5 DEF CloseUpload, FileType, PcType
  <2> QED
    BY <1>5, <2>1 DEF CloseUpload, gate, store, history
<1> QED
  BY <1>2, <1>3, <1>4, <1>5

LEMMA CloseTypes ==
    ASSUME TypeOK,
           \/ CloseInspected \/ RequestFails \/ RequestRelease \/ WaitApproved \/ WaitRefused
           \/ RecordFails \/ RecordRelease \/ Released
    PROVE  TypeOK'
<1>0. file.n \in Keys /\ {"accepted", "rejected", "requested", "granted", "refused", "released"} \subseteq Words
  BY DEF TypeOK, MovingOK, FileType, Words
<1>1. CASE CloseInspected
  <2>1. trail' \in [Keys -> Seq(Words)]
    <3>1. PICK e \in {"accepted", "rejected"} : Emit(file.n, e)
      BY <1>1 DEF CloseInspected
    <3> QED
      BY <1>0, <3>1, EmitType DEF TypeOK
  <2>2. uploads' \in [Keys -> UploadType]
    BY <1>1, TellType DEF CloseInspected, TypeOK, KeptOK
  <2> QED
    BY <1>1, <2>1, <2>2, FreedType DEF CloseInspected, TypeOK, MovingOK, KeptOK, PcType, store
<1>2. CASE RequestFails
  <2>1. uploads' \in [Keys -> UploadType]
    BY <1>2, TellType DEF RequestFails
  <2> QED
    BY <1>2, <2>1 DEF RequestFails, TypeOK, MovingOK, KeptOK, PcType, gate, store
<1>3. CASE RequestRelease
  <2>1. trail' \in [Keys -> Seq(Words)]
    BY <1>0, <1>3, EmitType DEF RequestRelease, TypeOK
  <2>2. now + ApprovalTTL \in Nat
    BY TransferAssumption DEF TypeOK, KeptOK
  <2>3. [status |-> "pending", deadline |-> now + ApprovalTTL] \in ApprovalType
    BY <2>2 DEF ApprovalType
  <2>4. approval' \in [Keys -> ApprovalType]
    BY <1>0, <1>3, <2>3 DEF RequestRelease, TypeOK, KeptOK
  <2> QED
    BY <1>3, <2>1, <2>4 DEF RequestRelease, TypeOK, MovingOK, KeptOK, PcType, gate, store, history
<1>4. CASE WaitApproved
  <2>1. trail' \in [Keys -> Seq(Words)]
    BY <1>0, <1>4, EmitType DEF WaitApproved, TypeOK
  <2> QED
    BY <1>4, <2>1 DEF WaitApproved, TypeOK, MovingOK, KeptOK, PcType, gate, store, history
<1>5. CASE WaitRefused
  <2>1. trail' \in [Keys -> Seq(Words)] /\ uploads' \in [Keys -> UploadType]
    BY <1>0, <1>5, EmitType, TellType DEF WaitRefused, TypeOK
  <2> QED
    BY <1>5, <2>1 DEF WaitRefused, TypeOK, MovingOK, KeptOK, PcType, gate, store, history
<1>6. CASE RecordFails
  <2>1. uploads' \in [Keys -> UploadType]
    BY <1>6, TellType DEF RecordFails
  <2>2. UNCHANGED now
    BY <1>6 DEF RecordFails, CreateReleaseFails, store
  <2> QED
    BY <1>6, <2>1, <2>2 DEF RecordFails, TypeOK, MovingOK, KeptOK, PcType, gate
<1>7. CASE RecordRelease
  <2>1. now + ReleaseTTL \in Nat
    BY ReleaseAssumption DEF TypeOK, KeptOK
  <2>2. [uploads[file.n] EXCEPT !.until = now + ReleaseTTL] \in UploadType
    BY <1>0, <2>1 DEF TypeOK, KeptOK, UploadType
  <2>3. uploads' = [uploads EXCEPT ![file.n] = [uploads[file.n] EXCEPT !.until = now + ReleaseTTL]]
    BY <1>0, <1>7 DEF RecordRelease, TypeOK, KeptOK
  <2>4. uploads' \in [Keys -> UploadType]
    BY <1>0, <2>2, <2>3 DEF TypeOK, KeptOK
  <2> QED
    BY <1>7, <2>4 DEF RecordRelease, CreateRelease, TypeOK, MovingOK, KeptOK, PcType, gate
<1>8. CASE Released
  <2>1. trail' \in [Keys -> Seq(Words)] /\ uploads' \in [Keys -> UploadType]
    BY <1>0, <1>8, EmitType, TellType DEF Released, TypeOK
  <2> QED
    BY <1>8, <2>1 DEF Released, TypeOK, MovingOK, KeptOK, PcType, gate, store, history
<1> QED
  BY <1>1, <1>2, <1>3, <1>4, <1>5, <1>6, <1>7, <1>8

(* What a read returns is bytes of the file. *)
LEMMA ReadType1 ==
    ASSUME TypeOK, NEW off \in Offsets, NEW l \in Lengths, NEW k \in 1..l, ReadAt(off, l, k)
    PROVE  [i \in 1..k |-> target[off + i - 1]] \in Seq(Bytes)
<1>1. target \in [Offsets -> Bytes \union {None}] /\ k \in Nat /\ off \in Nat
  BY ReassemblyAssumption DEF TypeOK, MovingOK, Sparse, Offsets
<1>2. ASSUME NEW i \in 1..k PROVE target[off + i - 1] \in Bytes
  <2>1. off + i - 1 \in Offsets /\ target[off + i - 1] # None
    BY <1>1, ReassemblyAssumption DEF ReadAt, Offsets
  <2> QED
    BY <1>1, <2>1
<1> QED
  BY <1>1, <1>2

LEMMA ReadTypes ==
    ASSUME TypeOK, NEW off \in Offsets, NEW l \in Lengths, ReadTarget(off, l)
    PROVE  TypeOK'
<1>1. PICK k \in 1..l :
          /\ ReadAt(off, l, k)
          /\ reading' = reading \union {[off |-> off, data |-> [i \in 1..k |-> target[off + i - 1]], i |-> chunks]}
  BY DEF ReadTarget
<1> DEFINE data == [i \in 1..k |-> target[off + i - 1]]
<1>2. data \in Seq(Bytes)
  BY <1>1, ReadType1
<1>3. reading' = reading \union {[off |-> off, data |-> data, i |-> chunks]}
  BY <1>1
<1> HIDE DEF data
<1>4. reading' \subseteq ReadType
  BY <1>2, <1>3 DEF ReadType, TypeOK, MovingOK
<1>5. /\ chunks' = chunks + 1
      /\ UNCHANGED <<gate, store, file, pc, asm, chunk, approval, trail, uploads, target>>
  BY DEF ReadTarget
<1> QED
  BY <1>4, <1>5 DEF TypeOK, MovingOK, KeptOK, gate, store

LEMMA DownloadTypes ==
    ASSUME TypeOK, (\E r \in reading : Observe(r)) \/ Hash \/ CloseDownload \/ CloseDirect
    PROVE  TypeOK'
<1> USE DEF TypeOK, MovingOK, KeptOK
<1>1. ASSUME NEW r \in reading, Observe(r) PROVE TypeOK'
  <2>1. r.off \in Offsets /\ r.data \in Seq(Bytes)
    BY DEF ReadType
  <2>2. Counted(asm, r.off, r.data) \in AsmType /\ Stored(asm, r.off, r.data) \in AsmType
    BY <2>1, CountedFields, StoredFields
  <2>3. asm' \in AsmType /\ pc' \in PcType
    BY <1>1, <2>2 DEF Observe, PcType
  <2> QED
    BY <1>1, <2>3 DEF Observe, gate, store, history
<1>2. CASE Hash
  <2>1. CASE Contiguous(asm)
    <3>1. asm' \in AsmType
      BY <1>2, <2>1, HandedOnFields DEF Hash
    <3>2. stream' = stream \o NextChunk(asm) /\ NextChunk(asm) \in Seq(Bytes) /\ UNCHANGED pc
      BY <1>2, <2>1, NextChunkType DEF Hash
    <3>3. stream' \in Seq(Bytes)
      BY <3>2
    <3> QED
      BY <1>2, <3>1, <3>2, <3>3 DEF Hash, store, history
  <2>2. CASE ~Contiguous(asm)
    BY <1>2, <2>2 DEF Hash, PcType, store, history
  <2> QED
    BY <2>1, <2>2
<1>3. CASE CloseDownload
  <2>1. trail' \in [Keys -> Seq(Words)]
    BY <1>3, EmitType DEF CloseDownload, Words, FileType
  <2> QED
    BY <1>3, <2>1, FreedType DEF CloseDownload, PcType, store
<1>4. CASE CloseDirect
  BY <1>4 DEF CloseDirect, PcType, gate, store, history
<1> QED
  BY <1>1, <1>2, <1>3, <1>4

LEMMA OtherTypes ==
    ASSUME TypeOK, GateStep \/ Others
    PROVE  TypeOK'
<1> USE DEF TypeOK, MovingOK, KeptOK
<1>0. 0 \in Keys /\ Files \subseteq Keys
  BY TransferAssumption DEF Files
<1>1. CASE GateStep
  <2>1. UNCHANGED stream /\ scan' \in ScanType
    BY <1>1 DEF GateStep, Classify, HoldingFails, Scan, StoreFails, Store, ScanType
  <2> QED
    BY <1>1, <2>1 DEF GateStep, store, transfer, history
<1>2. ASSUME NEW n \in Files, NEW status \in {"approved", "denied"}, Decide(n, status) PROVE TypeOK'
  <2>1. [approval[n] EXCEPT !.status = status] \in ApprovalType
    BY <1>0 DEF ApprovalType
  <2>2. approval' = [approval EXCEPT ![n] = [approval[n] EXCEPT !.status = status]]
    BY <1>0, <1>2 DEF Decide
  <2>3. approval' \in [Keys -> ApprovalType]
    BY <1>0, <2>1, <2>2
  <2> QED
    BY <1>2, <2>3 DEF Decide, gate, store, transfer, history
<1>3. CASE TargetChanges
  <2>1. target' \in Sparse
    BY <1>3 DEF TargetChanges, NoBytes, Sparse
  <2>2. trail' \in [Keys -> Seq(Words)]
    BY <1>0, <1>3, EmitType DEF TargetChanges, Words
  <2> QED
    BY <1>3, <2>1, <2>2 DEF TargetChanges, gate, store, transfer, history
<1>4. CASE ClientGone
  BY <1>4 DEF ClientGone, gate, store, transfer, history
<1>5. CASE Clock
  BY <1>5 DEF Clock, Tick, gate, transfer, history
<1>6. CASE Crash
  BY <1>6, FreedType DEF Crash, LoadReleases, PcType, history
<1> QED
  BY <1>1, <1>2, <1>3, <1>4, <1>5, <1>6 DEF Others

LEMMA TypeStep ==
    ASSUME TypeOK, [Next]_vars
    PROVE  TypeOK'
<1>1. CASE UNCHANGED vars
  BY <1>1 DEF vars, gate, store, transfer, history, TypeOK, MovingOK, KeptOK
<1>2. CASE Upload
  BY <1>2, OpenTypes, WriteTypes, FlushTypes, CloseTypes DEF Upload
<1>3. CASE Download
  <2>1. 0 \in 0..Size
    BY ReassemblyAssumption
  <2> QED
    BY <1>3, <2>1, OpenTypes, ReadTypes, DownloadTypes DEF Download
<1>4. CASE Direct
  <2>1. 0 \in 0..Size
    BY ReassemblyAssumption
  <2> QED
    BY <1>4, <2>1, OpenTypes, WriteTypes, DownloadTypes DEF Direct
<1> QED
  BY <1>1, <1>2, <1>3, <1>4, OtherTypes DEF Next

-----------------------------------------------------------------------------
(* The evidence only grows. *)
LEMMA EventAdded ==
    ASSUME KeptOK, NEW n \in Keys, NEW e \in Words, Emit(n, e)
    PROVE  /\ Event(n, e)'
           /\ \A m \in Keys, f \in Words : Event(m, f) => Event(m, f)'
<1>1. trail \in [Keys -> Seq(Words)] /\ trail[n] \in Seq(Words)
  BY DEF KeptOK
<1>2. /\ trail' = [trail EXCEPT ![n] = Append(trail[n], e)]
      /\ Append(trail[n], e) \in Seq(Words)
      /\ Len(Append(trail[n], e)) = Len(trail[n]) + 1 /\ Len(trail[n]) \in Nat
      /\ Append(trail[n], e)[Len(trail[n]) + 1] = e
      /\ \A i \in 1..Len(trail[n]) : Append(trail[n], e)[i] = trail[n][i]
  BY <1>1 DEF Emit
<1>3. DOMAIN trail[n] = 1..Len(trail[n]) /\ DOMAIN Append(trail[n], e) = 1..(Len(trail[n]) + 1)
  BY <1>1, <1>2
<1>4. trail'[n] = Append(trail[n], e) /\ \A m \in Keys : m # n => trail'[m] = trail[m]
  BY <1>1, <1>2
<1>5. Event(n, e)'
  <2>1. Len(trail[n]) + 1 \in DOMAIN trail'[n]
    BY <1>2, <1>3, <1>4
  <2> QED
    BY <1>2, <1>4, <2>1 DEF Event
<1>6. ASSUME NEW m \in Keys, NEW f \in Words, Event(m, f) PROVE Event(m, f)'
  <2>1. PICK i \in DOMAIN trail[m] : trail[m][i] = f
    BY <1>6 DEF Event
  <2>2. i \in DOMAIN trail'[m] /\ trail'[m][i] = f
    BY <1>2, <1>3, <1>4, <2>1
  <2> QED
    BY <2>2 DEF Event
<1> QED
  BY <1>5, <1>6

(* A step that makes no promise, and breaks none: it leaves the releases as   *)
(* they are, and takes nothing back of what they rest on.                     *)
Quiet ==
    /\ UNCHANGED <<now, releases, releaseFile>>
    /\ file'.n = file.n
    /\ cleared \subseteq cleared'
    /\ pc \in {"recorded", "idle"} => pc' \in {"recorded", "idle"}
    /\ \A n \in Keys :
          /\ uploads'[n].user = uploads[n].user /\ uploads'[n].until = uploads[n].until
          /\ n # file.n /\ uploads'[n].told = "ok" => uploads[n].told = "ok"
          /\ Promised(n)' => Promised(n)
          /\ \A e \in Words : Event(n, e) => Event(n, e)'
    /\ \A r \in Shelf : approval[r.id].status = "approved" => approval'[r.id].status = "approved"

LEMMA KeysAreNaturals ==
    /\ Keys = 0..MaxFiles /\ MaxFiles \in Nat
    /\ \A n \in Keys : n \in Nat /\ 0..n \subseteq Keys
  BY TransferAssumption

LEMMA ShelfKeys ==
    ASSUME TypeOK, ReleasesKnown, NEW r \in Shelf
    PROVE  r.id \in Keys
<1>1. file.n \in Keys /\ r.id \in 0..file.n
  BY DEF TypeOK, MovingOK, FileType, ReleasesKnown
<1> QED
  BY <1>1, KeysAreNaturals

LEMMA UploadFields ==
    ASSUME KeptOK, NEW m \in Keys, NEW v,
           \/ uploads' = [uploads EXCEPT ![m].resized = v]
           \/ uploads' = [uploads EXCEPT ![m].image = v]
    PROVE  \A n \in Keys : /\ uploads'[n].user = uploads[n].user
                           /\ uploads'[n].until = uploads[n].until
                           /\ uploads'[n].told = uploads[n].told
<1>1. uploads \in [Keys -> UploadType] /\ uploads[m] \in UploadType
  BY DEF KeptOK
<1>2. \A n \in Keys : n # m => uploads'[n] = uploads[n]
  BY <1>1
<1>3. uploads'[m] = [uploads[m] EXCEPT !.resized = v] \/ uploads'[m] = [uploads[m] EXCEPT !.image = v]
  BY <1>1
<1>4. uploads'[m].user = uploads[m].user /\ uploads'[m].until = uploads[m].until
      /\ uploads'[m].told = uploads[m].told
  BY <1>1, <1>3 DEF UploadType
<1> QED
  BY <1>2, <1>4

LEMMA QuietKeeps ==
    ASSUME TypeOK, ShelfOK, Quiet
    PROVE  ShelfOK'
<1>0. file.n \in Keys /\ Shelf' = Shelf /\ \A r \in Shelf : r.id \in Keys
  BY ShelfKeys DEF TypeOK, MovingOK, FileType, Quiet, Shelf, ShelfOK
<1>1. ReleasesKnown'
  <2>1. \A r \in Shelf : /\ r.id \in 0..file.n /\ r.expires \in Nat
                         /\ r.id = file.n => pc' \in {"recorded", "idle"}
    BY DEF ShelfOK, ReleasesKnown, Quiet
  <2>2. \A n \in Keys : n > file.n => ~(uploads'[n].told = "ok" /\ now < uploads'[n].until)
    BY <1>0, KeysAreNaturals DEF ShelfOK, ReleasesKnown, Quiet
  <2> QED
    BY <1>0, <2>1, <2>2 DEF Quiet, ReleasesKnown
<1>2. StoresAgree'
  BY <1>0 DEF ShelfOK, StoresAgree, Quiet
<1>3. PromisesKept'
  BY DEF ShelfOK, PromisesKept, Quiet
<1>4. ReleasesEarned'
  <2>1. "accepted" \in Words /\ "granted" \in Words
    BY DEF Words
  <2>2. ASSUME NEW r \in Shelf PROVE Earned(r.id, r.user)'
    <3>1. Earned(r.id, r.user)
      BY DEF ShelfOK, ReleasesEarned
    <3>2. /\ uploads'[r.id].user = r.user /\ r.id \in cleared'
          /\ approval'[r.id].status = "approved"
          /\ Event(r.id, "accepted") /\ Event(r.id, "granted")
      BY <1>0, <3>1 DEF Quiet, Earned
    <3>3. Event(r.id, "accepted")' /\ Event(r.id, "granted")'
      BY <1>0, <2>1, <3>2 DEF Quiet
    <3> QED
      BY <3>2, <3>3 DEF Earned
  <2> QED
    BY <1>0, <2>2 DEF ReleasesEarned
<1> QED
  BY <1>1, <1>2, <1>3, <1>4 DEF ShelfOK

(* The steps that are quiet. *)
LEMMA WriteQuiet ==
    ASSUME TypeOK, NEW off \in Offsets, NEW data \in Chunks,
           WriteRefused(off, data) \/ WriteAt(off, data) \/ WriteDirect(off, data)
    PROVE  Quiet
<1>0. file.n \in Keys /\ file \in FileType /\ uploads \in [Keys -> UploadType]
  BY DEF TypeOK, MovingOK, KeptOK, FileType
<1>1. /\ UNCHANGED <<store, cleared, trail, approval>>
      /\ file'.n = file.n
      /\ pc = "open" /\ pc' \in {"open", "closing", "flushing"}
      /\ \/ UNCHANGED uploads
         \/ \E v : uploads' = [uploads EXCEPT ![file.n].resized = v]
  BY <1>0 DEF WriteRefused, WriteAt, WriteDirect, MayWrite, WriteFails, gate, history, FileType
<1>2. \A n \in Keys : /\ uploads'[n].user = uploads[n].user /\ uploads'[n].until = uploads[n].until
                      /\ uploads'[n].told = uploads[n].told
  BY <1>0, <1>1, UploadFields DEF TypeOK
<1> QED
  BY <1>1, <1>2 DEF Quiet, Promised, Event, store

LEMMA FlushQuiet ==
    ASSUME TypeOK, Flush \/ FlushFails \/ FlushEnds \/ CloseUpload
    PROVE  Quiet
<1>0. file.n \in Keys /\ file \in FileType /\ uploads \in [Keys -> UploadType]
  BY DEF TypeOK, MovingOK, KeptOK, FileType
<1>1. /\ UNCHANGED <<store, cleared, trail, approval>>
      /\ file'.n = file.n
      /\ pc \in {"open", "flushing"} /\ pc' \in {"open", "closing", "flushing"}
  BY <1>0 DEF Flush, FlushFails, FlushEnds, CloseUpload, WriteFails, gate, history, FileType
<1>2. \/ UNCHANGED uploads
      \/ \E v : uploads' = [uploads EXCEPT ![file.n].image = v]
  BY DEF Flush, FlushFails, FlushEnds, CloseUpload, gate, history
<1>3. \A n \in Keys : /\ uploads'[n].user = uploads[n].user /\ uploads'[n].until = uploads[n].until
                      /\ uploads'[n].told = uploads[n].told
  BY <1>0, <1>2, UploadFields DEF TypeOK
<1> QED
  BY <1>1, <1>3 DEF Quiet, Promised, Event, store

LEMMA CloseQuiet ==
    ASSUME TypeOK, ShelfOK,
           CloseInspected \/ RequestFails \/ RequestRelease \/ WaitApproved \/ WaitRefused \/ Released
    PROVE  Quiet
<1>0. /\ file.n \in Keys /\ uploads \in [Keys -> UploadType] /\ approval \in [Keys -> ApprovalType]
      /\ {"accepted", "rejected", "requested", "granted", "refused", "released"} \subseteq Words
  BY DEF TypeOK, MovingOK, KeptOK, FileType, Words
<1>1. /\ UNCHANGED <<store, cleared, file>>
      /\ pc \notin {"idle"}
      /\ pc' \in {"idle", "asking", "waiting", "granted"} /\ (pc = "recorded" => pc' = "idle")
  BY DEF CloseInspected, RequestFails, RequestRelease, WaitApproved, WaitRefused, Released, Freed, gate
<1>2. \A n \in Keys : /\ uploads'[n].user = uploads[n].user /\ uploads'[n].until = uploads[n].until
                      /\ n # file.n => uploads'[n].told = uploads[n].told
                      /\ uploads'[file.n].told = "ok" => uploads[file.n].told = "ok" \/ pc = "recorded"
  <2>1. \/ UNCHANGED uploads \/ Tell("error")
        \/ pc = "recorded" /\ Tell("ok")
    BY DEF CloseInspected, RequestFails, RequestRelease, WaitApproved, WaitRefused, Released, history
  <2> QED
    BY <2>1, TellType
<1>3. \A n \in Keys : \A e \in Words : Event(n, e) => Event(n, e)'
  <2>1. \/ UNCHANGED trail
        \/ \E e \in {"accepted", "rejected", "requested", "granted", "refused", "released"} : Emit(file.n, e)
    BY DEF CloseInspected, RequestFails, RequestRelease, WaitApproved, WaitRefused, Released
  <2>2. CASE UNCHANGED trail
    BY <2>2 DEF Event
  <2>3. CASE \E e \in {"accepted", "rejected", "requested", "granted", "refused", "released"} : Emit(file.n, e)
    BY <1>0, <2>3, EventAdded DEF TypeOK
  <2> QED
    BY <2>1, <2>2, <2>3
<1>4. \A r \in Shelf : approval[r.id].status = "approved" => approval'[r.id].status = "approved"
  <2>1. CASE UNCHANGED approval
    BY <2>1
  <2>2. CASE RequestRelease
    <3>1. \A r \in Shelf : r.id \in Keys /\ r.id # file.n
      BY <1>0, <2>2, ShelfKeys DEF RequestRelease, ShelfOK, ReleasesKnown
    <3>2. \A n \in Keys : n # file.n => approval'[n] = approval[n]
      BY <1>0, <2>2 DEF RequestRelease
    <3> QED
      BY <3>1, <3>2
  <2> QED
    BY <2>1, <2>2 DEF CloseInspected, RequestFails, WaitApproved, WaitRefused, Released
<1> QED
  BY <1>0, <1>1, <1>2, <1>3, <1>4 DEF Quiet, Promised, store

LEMMA RestQuiet ==
    ASSUME TypeOK, ShelfOK,
           \/ \E off \in Offsets, l \in Lengths : ReadTarget(off, l)
           \/ \E r \in reading : Observe(r)
           \/ Hash \/ CloseDownload \/ CloseDirect \/ GateStep \/ TargetChanges \/ ClientGone
           \/ \E n \in Files, status \in {"approved", "denied"} : Decide(n, status)
           \/ UNCHANGED vars
    PROVE  Quiet
<1>0. file.n \in Keys /\ approval \in [Keys -> ApprovalType] /\ 0 \in Keys
  BY KeysAreNaturals DEF TypeOK, MovingOK, KeptOK, FileType
<1>1. /\ UNCHANGED <<store, file, uploads>> /\ cleared \subseteq cleared'
      /\ pc' = pc \/ (pc \in {"open", "flushing"} /\ pc' \in {"open", "flushing", "idle"})
      /\ UNCHANGED trail \/ Emit(file.n, "download") \/ Emit(0, "filecmd")
  <2>1. CASE \E off \in Offsets, l \in Lengths : ReadTarget(off, l)
    BY <2>1 DEF ReadTarget, gate
  <2>2. CASE \E r \in reading : Observe(r)
    BY <2>2 DEF Observe, gate, history
  <2>3. CASE Hash \/ CloseDownload \/ CloseDirect
    BY <2>3 DEF Hash, CloseDownload, CloseDirect, Freed, gate, history
  <2>4. CASE GateStep
    BY <2>4 DEF GateStep, Classify, HoldingFails, Scan, StoreFails, Store, transfer, history
  <2>5. CASE TargetChanges \/ ClientGone \/ UNCHANGED vars
    BY <2>5 DEF TargetChanges, ClientGone, vars, gate, transfer, history
  <2>6. CASE \E n \in Files, status \in {"approved", "denied"} : Decide(n, status)
    BY <2>6 DEF Decide, gate, transfer, history
  <2> QED
    BY <2>1, <2>2, <2>3, <2>4, <2>5, <2>6
<1>2. \A n \in Keys : \A e \in Words : Event(n, e) => Event(n, e)'
  <2>1. CASE UNCHANGED trail
    BY <2>1 DEF Event
  <2>2. CASE Emit(file.n, "download") \/ Emit(0, "filecmd")
    BY <1>0, <2>2, EventAdded DEF TypeOK, Words
  <2> QED
    BY <1>1, <2>1, <2>2
<1>3. \A n \in Keys : approval[n].status = "approved" => approval'[n].status = "approved"
  <2>1. CASE UNCHANGED approval
    BY <2>1
  <2>2. CASE \E n \in Files, status \in {"approved", "denied"} : Decide(n, status)
    BY <1>0, <2>2 DEF Decide
  <2> QED
    BY <2>1, <2>2 DEF ReadTarget, Observe, Hash, CloseDownload, CloseDirect, GateStep, TargetChanges,
                      ClientGone, vars
<1>4. \A r \in Shelf : r.id \in Keys
  BY ShelfKeys DEF ShelfOK
<1> QED
  BY <1>1, <1>2, <1>3, <1>4 DEF Quiet, Promised, store

(* A new file has no release yet, nor a promise. *)
LEMMA OpenKeepsShelf ==
    ASSUME TypeOK, ShelfOK, NEW u \in Clients, NEW proto \in Protocols, NEW size \in 0..Size,
           OpenUpload(u, proto, size) \/ OpenDirect(u, proto) \/ OpenDownload(u, proto)
    PROVE  ShelfOK'
<1>0. /\ file.n \in Keys /\ file.n \in Nat /\ file.n + 1 \in Keys /\ file'.n = file.n + 1
      /\ pc = "idle" /\ pc' = "open"
      /\ UNCHANGED <<store, cleared, approval, trail>>
  <2>1. file.n \in Keys
    BY DEF TypeOK, MovingOK, FileType
  <2>2. pc = "idle" /\ pc' = "open" /\ file.n < MaxFiles /\ file'.n = file.n + 1
    BY DEF OpenUpload, OpenDirect, OpenDownload, Opened
  <2> QED
    BY <2>1, <2>2, KeysAreNaturals DEF OpenUpload, OpenDirect, OpenDownload, gate
<1>1. /\ Shelf' = Shelf /\ UNCHANGED <<now, releases, releaseFile>>
      /\ \A r \in Shelf : r.id \in Keys /\ r.id \in 0..file.n /\ r.expires \in Nat
  BY <1>0, ShelfKeys DEF Shelf, store, ShelfOK, ReleasesKnown
<1>2. \A n \in Keys : /\ n # file.n + 1 => uploads'[n] = uploads[n]
                      /\ uploads'[n].told = uploads[n].told /\ uploads'[n].until = uploads[n].until
  <2>1. UNCHANGED uploads \/ uploads' = [uploads EXCEPT ![file.n + 1].user = u]
    BY DEF OpenUpload, OpenDirect, OpenDownload, history
  <2>2. uploads \in [Keys -> UploadType] /\ uploads[file.n + 1] \in UploadType
    BY <1>0 DEF TypeOK, KeptOK
  <2>3. \/ UNCHANGED uploads
        \/ uploads' = [uploads EXCEPT ![file.n + 1] = [uploads[file.n + 1] EXCEPT !.user = u]]
    BY <1>0, <2>1, <2>2
  <2>4. LET w == [uploads[file.n + 1] EXCEPT !.user = u]
        IN  w.told = uploads[file.n + 1].told /\ w.until = uploads[file.n + 1].until
    BY <2>2 DEF UploadType
  <2> QED
    BY <1>0, <2>2, <2>3, <2>4
<1>3. ReleasesKnown'
  <2>1. \A n \in Keys : n > file.n + 1 => ~(uploads'[n].told = "ok" /\ now < uploads'[n].until)
    BY <1>0, <1>2, KeysAreNaturals DEF ShelfOK, ReleasesKnown
  <2>2. \A r \in Shelf : r.id \in 0..(file.n + 1) /\ r.id # file.n + 1
    BY <1>0, <1>1
  <2> QED
    BY <1>0, <1>1, <2>1, <2>2 DEF ReleasesKnown
<1>4. StoresAgree'
  BY <1>1 DEF ShelfOK, StoresAgree
<1>5. PromisesKept'
  <2>1. ASSUME NEW n \in Keys, Promised(n)', now < uploads'[n].until
        PROVE  n # file.n + 1 /\ Promised(n)
    BY <1>0, <1>2, <2>1 DEF ShelfOK, ReleasesKnown, Promised
  <2> QED
    BY <1>1, <1>2, <2>1 DEF ShelfOK, PromisesKept
<1>6. ReleasesEarned'
  <2>1. ASSUME NEW r \in Shelf PROVE Earned(r.id, r.user)'
    BY <1>0, <1>1, <1>2 DEF ShelfOK, ReleasesEarned, Earned, Event
  <2> QED
    BY <1>1, <2>1 DEF ReleasesEarned
<1> QED
  BY <1>3, <1>4, <1>5, <1>6 DEF ShelfOK

LEMMA ClockKeepsShelf ==
    ASSUME TypeOK, ShelfOK, Clock
    PROVE  ShelfOK'
<1>0. now \in Nat /\ now' = now + 1 /\ Shelf' = Shelf /\ uploads \in [Keys -> UploadType]
      /\ UNCHANGED <<releases, releaseFile, pc, file, uploads, cleared, approval, trail>>
  BY DEF Clock, Tick, TypeOK, KeptOK, Shelf, gate, transfer, history
<1>1. \A n \in Keys : uploads[n].until \in Nat
  BY <1>0 DEF UploadType
<1>2. ReleasesKnown' /\ PromisesKept'
  BY <1>0, <1>1 DEF ShelfOK, ReleasesKnown, PromisesKept, Promised
<1>3. StoresAgree'
  BY <1>0 DEF ShelfOK, ReleasesKnown, StoresAgree
<1>4. ReleasesEarned'
  BY <1>0 DEF ShelfOK, ReleasesEarned, Earned, Event
<1> QED
  BY <1>2, <1>3, <1>4 DEF ShelfOK

LEMMA CrashKeepsShelf ==
    ASSUME TypeOK, ShelfOK, Crash
    PROVE  ShelfOK'
<1>0. /\ Shelf' \subseteq Shelf /\ releases' = releaseFile /\ pc' = "idle"
      /\ UNCHANGED <<releaseFile, now, file, uploads, cleared, approval, trail>>
  BY DEF Crash, LoadReleases, Freed, Shelf, history
<1>1. ReleasesKnown' /\ PromisesKept'
  BY <1>0 DEF ShelfOK, ReleasesKnown, PromisesKept, Promised
<1>2. StoresAgree'
  BY <1>0 DEF ShelfOK, StoresAgree, Shelf
<1>3. ReleasesEarned'
  BY <1>0 DEF ShelfOK, ReleasesEarned, Earned, Event
<1> QED
  BY <1>1, <1>2, <1>3 DEF ShelfOK

(* Persisting fails: the map loses what has expired, and the new release.     *)
LEMMA RecordFailsKeepsShelf ==
    ASSUME TypeOK, ShelfOK, RecordFails
    PROVE  ShelfOK'
<1>0. /\ file.n \in Keys /\ now \in Nat
      /\ pc = "granted" /\ pc' = "idle" /\ UNCHANGED <<now, releaseFile, file, cleared, approval, trail>>
  BY DEF RecordFails, CreateReleaseFails, store, gate, TypeOK, MovingOK, KeptOK, FileType
<1>1. \A n \in Keys : /\ uploads'[n].user = uploads[n].user /\ uploads'[n].until = uploads[n].until
                      /\ uploads'[n].told = "ok" => uploads[n].told = "ok"
  BY TellType DEF RecordFails
<1>2. \A r \in Shelf : r.id \in Keys /\ r.id # file.n /\ r.expires \in Nat
  BY <1>0, ShelfKeys DEF ShelfOK, ReleasesKnown
<1>3. /\ releases' \subseteq releases
      /\ \A r \in releases : now < r.expires => r \in releases'
  <2>1. CASE UNCHANGED releases
    BY <2>1
  <2>2. CASE releases' = Pruned(releases \union {Release(file.n, file.user, now)})
                            \ {Release(file.n, file.user, now)}
    <3>1. \A r \in releases : r # Release(file.n, file.user, now)
      BY <1>2 DEF Shelf, Release
    <3>2. \A r \in releases : now < r.expires => now <= r.expires + Retention
      BY <1>0, <1>2, ReleaseAssumption DEF Shelf
    <3> QED
      BY <2>2, <3>1, <3>2 DEF Pruned
  <2> QED
    BY <2>1, <2>2 DEF RecordFails, CreateReleaseFails, store
<1>4. Shelf' \subseteq Shelf
  BY <1>0, <1>3 DEF Shelf
<1>5. ReleasesKnown' /\ PromisesKept'
  BY <1>0, <1>1, <1>4 DEF ShelfOK, ReleasesKnown, PromisesKept, Promised
<1>6. StoresAgree'
  BY <1>0, <1>3, <1>4 DEF ShelfOK, StoresAgree, Shelf
<1>7. ReleasesEarned'
  BY <1>0, <1>1, <1>2, <1>4 DEF ShelfOK, ReleasesEarned, Earned, Event
<1> QED
  BY <1>5, <1>6, <1>7 DEF ShelfOK

LEMMA RecordKeepsShelf ==
    ASSUME TypeOK, ShelfOK, ClosingSteps, RecordRelease
    PROVE  ShelfOK'
<1> DEFINE rel == Release(file.n, file.user, now)
<1>0. /\ file.n \in Keys /\ file.n \in Nat /\ now \in Nat
      /\ pc = "granted" /\ pc' = "recorded" /\ UNCHANGED <<now, file, cleared, approval, trail>>
      /\ releases' = Pruned(releases \union {rel}) /\ releaseFile' = releases'
  BY KeysAreNaturals DEF RecordRelease, CreateRelease, gate, TypeOK, MovingOK, KeptOK, FileType
<1>1. rel.id = file.n /\ rel.user = file.user /\ rel.expires = now + ReleaseTTL /\ now + ReleaseTTL \in Nat
  BY <1>0, ReleaseAssumption DEF Release
<1>2. /\ uploads'[file.n].until = now + ReleaseTTL
      /\ \A n \in Keys : /\ uploads'[n].user = uploads[n].user /\ uploads'[n].told = uploads[n].told
                         /\ n # file.n => uploads'[n].until = uploads[n].until
  <2>1. uploads \in [Keys -> UploadType] /\ uploads[file.n] \in UploadType
    BY <1>0 DEF TypeOK, KeptOK
  <2>2. uploads' = [uploads EXCEPT ![file.n] = [uploads[file.n] EXCEPT !.until = now + ReleaseTTL]]
    BY <1>0, <2>1 DEF RecordRelease
  <2>3. LET w == [uploads[file.n] EXCEPT !.until = now + ReleaseTTL]
        IN  w.told = uploads[file.n].told /\ w.user = uploads[file.n].user /\ w.until = now + ReleaseTTL
    BY <2>1 DEF UploadType
  <2> QED
    BY <1>0, <2>1, <2>2, <2>3
<1> HIDE DEF rel
<1>3. \A r \in Shelf : r.id \in Keys /\ r.id \in 0..file.n /\ r.id # file.n /\ r.expires \in Nat
  BY <1>0, ShelfKeys DEF ShelfOK, ReleasesKnown
<1>4. /\ Shelf' = releases' /\ releases' \subseteq Shelf \cup {rel}
      /\ rel \in releases'
      /\ \A r \in releaseFile : now < r.expires => r \in releases'
  <2>1. \A r \in releases \union {rel} : now < r.expires \/ r = rel => now <= r.expires + Retention
    BY <1>0, <1>1, <1>3, ReleaseAssumption DEF Shelf
  <2>2. \A r \in releaseFile : now < r.expires => r \in releases
    BY DEF ShelfOK, StoresAgree, Shelf
  <2> QED
    BY <1>0, <2>1, <2>2 DEF Shelf, Pruned
<1>5. ReleasesKnown'
  <2>0. rel.id \in 0..file.n /\ rel.expires \in Nat
    BY <1>0, <1>1
  <2>1. \A r \in Shelf' : r.id \in 0..file.n /\ r.expires \in Nat
    BY <1>3, <1>4, <2>0
  <2>2. \A n \in Keys : n > file.n => ~(uploads'[n].told = "ok" /\ now < uploads'[n].until)
    BY <1>0, <1>2 DEF ShelfOK, ReleasesKnown
  <2> QED
    BY <1>0, <2>1, <2>2 DEF ReleasesKnown
<1>6. StoresAgree'
  BY <1>0, <1>4 DEF StoresAgree
<1>7. uploads[file.n].user = file.user /\ Earned(file.n, file.user)
  BY <1>0 DEF ClosingSteps, Earned, Settling
<1>8. PromisesKept'
  <2>1. ASSUME NEW n \in Keys, n # file.n, Promised(n)', now < uploads'[n].until
        PROVE  \E r \in releases' : /\ r.id = n /\ r.user = uploads'[n].user
                                    /\ r.expires = uploads'[n].until
    <3>1. Promised(n)
      BY <1>0, <1>2, <2>1 DEF Promised
    <3> QED
      BY <1>2, <1>4, <2>1, <3>1 DEF ShelfOK, PromisesKept
  <2>2. \E r \in releases' : /\ r.id = file.n /\ r.user = uploads'[file.n].user
                             /\ r.expires = uploads'[file.n].until
    BY <1>0, <1>1, <1>2, <1>4, <1>7
  <2> QED
    BY <1>0, <2>1, <2>2 DEF PromisesKept
<1>9. ReleasesEarned'
  <2>1. ASSUME NEW r \in Shelf' PROVE Earned(r.id, r.user) /\ r.id \in Keys
    BY <1>0, <1>1, <1>3, <1>4, <1>7 DEF ShelfOK, ReleasesEarned
  <2>2. ASSUME NEW r \in Shelf' PROVE Earned(r.id, r.user)'
    BY <1>0, <1>2, <2>1 DEF Earned, Event
  <2> QED
    BY <2>2 DEF ReleasesEarned
<1> QED
  BY <1>5, <1>6, <1>8, <1>9 DEF ShelfOK

LEMMA ShelfStep ==
    ASSUME TypeOK, ShelfOK, ClosingSteps, [Next]_vars
    PROVE  ShelfOK'
<1>0. 0 \in 0..Size
  BY ReassemblyAssumption
<1>1. CASE Upload
  BY <1>1, OpenKeepsShelf, WriteQuiet, FlushQuiet, CloseQuiet, RecordFailsKeepsShelf, RecordKeepsShelf,
     QuietKeeps DEF Upload
<1>2. CASE Download \/ Direct
  BY <1>0, <1>2, OpenKeepsShelf, WriteQuiet, RestQuiet, QuietKeeps DEF Download, Direct
<1>3. CASE GateStep \/ Others \/ UNCHANGED vars
  BY <1>3, RestQuiet, ClockKeepsShelf, CrashKeepsShelf, QuietKeeps DEF Others
<1> QED
  BY <1>1, <1>2, <1>3 DEF Next

-----------------------------------------------------------------------------
(* doClose and the gate, step by step. *)
LEMMA OpenKeepsClose ==
    ASSUME TypeOK, CloseOK, NEW u \in Clients, NEW proto \in Protocols, NEW size \in 0..Size,
           OpenUpload(u, proto, size) \/ OpenDirect(u, proto) \/ OpenDownload(u, proto)
    PROVE  CloseOK'
<1>0. /\ file.n + 1 \in Keys /\ file.n + 1 # 0 /\ file'.n = file.n + 1 /\ file'.user = u
      /\ pc = "idle" /\ pc' = "open"
      /\ UNCHANGED <<cleared, verdict, decision>>
  <2>1. file.n \in Keys
    BY DEF TypeOK, MovingOK, FileType
  <2>2. pc = "idle" /\ pc' = "open" /\ file.n < MaxFiles /\ file'.n = file.n + 1 /\ file'.user = u
    BY DEF OpenUpload, OpenDirect, OpenDownload, Opened
  <2> QED
    BY <2>1, <2>2, KeysAreNaturals DEF OpenUpload, OpenDirect, OpenDownload, gate
<1>1. scan = "idle" /\ ~decision.allow
  BY <1>0 DEF CloseOK, GateCleared
<1>2. ClosingSteps'
  <2>1. file'.kind = "upload" => uploads'[file.n + 1].user = u
    <3>1. file'.kind = "upload" => OpenUpload(u, proto, size)
      BY DEF OpenDirect, OpenDownload, Opened
    <3>2. ASSUME OpenUpload(u, proto, size) PROVE uploads'[file.n + 1].user = u
      <4>1. uploads' = [uploads EXCEPT ![file.n + 1].user = u]
        BY <3>2 DEF OpenUpload
      <4>2. uploads \in [Keys -> UploadType]
        BY DEF TypeOK, KeptOK
      <4> QED
        BY <1>0, <4>1, <4>2 DEF UploadType
    <3> QED
      BY <3>1, <3>2
  <2> QED
    BY <1>0, <2>1 DEF ClosingSteps, Settling
<1>3. GateCleared'
  <2>1. scan' = "idle" \/ (scan' = "head" /\ file'.kind = "upload")
    BY <1>1 DEF OpenUpload, OpenDirect, OpenDownload, Opened, gate
  <2> QED
    BY <1>0, <1>1, <2>1 DEF GateCleared
<1> QED
  BY <1>2, <1>3 DEF CloseOK

LEMMA WriteKeepsClose ==
    ASSUME TypeOK, CloseOK, NEW off \in Offsets, NEW data \in Chunks,
           WriteRefused(off, data) \/ WriteAt(off, data) \/ WriteDirect(off, data)
    PROVE  CloseOK'
<1>0. Quiet
  BY WriteQuiet
<1>1. /\ UNCHANGED <<scan, verdict, decision, cleared>>
      /\ pc = "open" /\ pc' \in {"open", "closing", "flushing"}
      /\ pc' # "open" => file.kind = "upload"
      /\ file'.kind = file.kind /\ file'.user = file.user
  BY DEF WriteRefused, WriteAt, WriteDirect, MayWrite, WriteFails, gate, TypeOK, MovingOK, FileType
<1>2. file.n \in Keys
  BY DEF TypeOK, MovingOK, FileType
<1>3. ClosingSteps'
  BY <1>0, <1>1, <1>2 DEF CloseOK, ClosingSteps, Settling, Quiet
<1>4. GateCleared'
  BY <1>0, <1>1 DEF CloseOK, GateCleared, Quiet
<1> QED
  BY <1>3, <1>4 DEF CloseOK

LEMMA FlushKeepsClose ==
    ASSUME TypeOK, CloseOK, Flush \/ FlushFails \/ FlushEnds \/ CloseUpload
    PROVE  CloseOK'
<1>0. Quiet
  BY FlushQuiet
<1>1. /\ UNCHANGED <<scan, verdict, decision, cleared>>
      /\ pc \in {"open", "flushing"} /\ pc' \in {"open", "closing", "flushing"}
      /\ file.kind = "upload"
      /\ file'.kind = file.kind /\ file'.user = file.user
  BY DEF Flush, FlushFails, FlushEnds, CloseUpload, WriteFails, gate, TypeOK, MovingOK, FileType
<1>2. file.n \in Keys
  BY DEF TypeOK, MovingOK, FileType
<1>3. ClosingSteps'
  BY <1>0, <1>1, <1>2 DEF CloseOK, ClosingSteps, Settling, Quiet
<1>4. GateCleared'
  BY <1>0, <1>1 DEF CloseOK, GateCleared, Quiet
<1> QED
  BY <1>3, <1>4 DEF CloseOK

(* The verdict, and what follows it, of the file that is being closed. *)
LEMMA CloseKeepsClose ==
    ASSUME TypeOK, ShelfOK, CloseOK,
           CloseInspected \/ RequestFails \/ RequestRelease \/ WaitApproved \/ WaitRefused \/ Released
    PROVE  CloseOK'
<1>0. Quiet /\ file.n \in Keys /\ {"accepted", "granted"} \subseteq Words
  BY CloseQuiet DEF TypeOK, MovingOK, FileType, Words
<1>1. UNCHANGED <<file, cleared>>
  BY DEF CloseInspected, RequestFails, RequestRelease, WaitApproved, WaitRefused, Released, Freed, gate
<1>2. CASE CloseInspected
  <2>1. scan' = "idle" /\ ~decision'.allow /\ pc' \in {"asking", "idle"} /\ file.kind = "upload"
    BY <1>2 DEF CloseInspected, Freed, NoDecision, Refusal
  <2>2. pc' = "asking" => file.n \in cleared /\ Event(file.n, "accepted")'
    <3>1. ASSUME pc' = "asking" PROVE decision.allow /\ Emit(file.n, "accepted")
      BY <1>2, <3>1 DEF CloseInspected, Accepted
    <3>2. ASSUME Emit(file.n, "accepted") PROVE Event(file.n, "accepted")'
      BY <1>0, <1>1, <3>2, EventAdded DEF TypeOK, Event
    <3>3. ASSUME decision.allow PROVE file.n \in cleared
      BY <3>3 DEF CloseOK, GateCleared
    <3> QED
      BY <3>1, <3>2, <3>3
  <2>3. file.n # 0
    BY <1>2 DEF CloseInspected, CloseOK, ClosingSteps
  <2>4. ClosingSteps'
    BY <1>0, <1>1, <2>1, <2>2, <2>3 DEF CloseOK, ClosingSteps, Settling, Quiet
  <2>5. GateCleared'
    BY <1>0, <1>1, <2>1 DEF GateCleared
  <2> QED
    BY <2>4, <2>5 DEF CloseOK
<1>3. CASE RequestFails \/ RequestRelease \/ WaitApproved \/ WaitRefused \/ Released
  <2>1. /\ pc \in Settling /\ pc' \in {"idle", "waiting", "granted"}
        /\ UNCHANGED <<scan, verdict, decision>>
    BY <1>3 DEF RequestFails, RequestRelease, WaitApproved, WaitRefused, Released, gate, Settling
  <2>2. file.kind = "upload" /\ file.n # 0 /\ file.n \in cleared /\ Event(file.n, "accepted")
    BY <2>1 DEF CloseOK, ClosingSteps, Settling
  <2>3. Event(file.n, "accepted")'
    BY <1>0, <2>2 DEF Quiet
  <2>4. pc' = "granted" => approval'[file.n].status = "approved" /\ Event(file.n, "granted")'
    <3>1. ASSUME pc' = "granted" PROVE WaitApproved
      BY <1>3, <3>1 DEF RequestFails, RequestRelease, WaitRefused, Released
    <3> QED
      BY <1>0, <3>1, EventAdded DEF WaitApproved, TypeOK
  <2>5. ClosingSteps'
    BY <1>0, <1>1, <2>1, <2>2, <2>3, <2>4 DEF CloseOK, ClosingSteps, Settling, Quiet
  <2>6. GateCleared'
    BY <1>0, <1>1, <2>1, <2>2 DEF CloseOK, GateCleared, Settling
  <2> QED
    BY <2>5, <2>6 DEF CloseOK
<1> QED
  BY <1>2, <1>3

LEMMA RecordKeepsClose ==
    ASSUME TypeOK, CloseOK, RecordFails \/ RecordRelease
    PROVE  CloseOK'
<1>0. file.n \in Keys /\ pc = "granted"
  BY DEF TypeOK, MovingOK, FileType, RecordFails, RecordRelease
<1>1. /\ UNCHANGED <<file, scan, verdict, decision, cleared, approval, trail>>
      /\ pc' \in {"idle", "recorded"}
  BY DEF RecordFails, RecordRelease, gate
<1>2. uploads'[file.n].user = uploads[file.n].user
  <2>1. CASE RecordFails
    BY <1>0, <2>1, TellType DEF RecordFails
  <2>2. CASE RecordRelease
    <3>1. uploads \in [Keys -> UploadType]
      BY DEF TypeOK, KeptOK
    <3> QED
      BY <1>0, <2>2, <3>1 DEF RecordRelease, UploadType
  <2> QED
    BY <2>1, <2>2
<1>3. scan = "idle" /\ ~decision.allow
  BY <1>0 DEF CloseOK, GateCleared
<1>4. ClosingSteps'
  BY <1>0, <1>1, <1>2 DEF CloseOK, ClosingSteps, Settling, Event
<1>5. GateCleared'
  BY <1>1, <1>3 DEF GateCleared
<1> QED
  BY <1>4, <1>5 DEF CloseOK

LEMMA GateKeepsClose ==
    ASSUME TypeOK, ShelfOK, CloseOK, GateStep
    PROVE  CloseOK'
<1>0. Quiet /\ file.n \in Keys
  BY RestQuiet DEF TypeOK, MovingOK, FileType
<1>1. UNCHANGED <<file, pc, uploads, trail, approval>> /\ file.kind = "upload"
  BY DEF GateStep, transfer, history
<1>2. ClosingSteps'
  BY <1>0, <1>1 DEF CloseOK, ClosingSteps, Quiet, Event
<1>3. scan # "idle"
  BY DEF GateStep, Classify, HoldingFails, Scan, StoreFails, Store
<1>4. GateCleared'
  <2>1. pc \in {"open", "flushing", "closing"}
    BY <1>3 DEF CloseOK, GateCleared
  <2>2. scan' # "idle"
    BY DEF GateStep, Classify, HoldingFails, Scan, StoreFails, Store
  <2>3. scan' = "scanned" /\ verdict' = "clean" => file.n \in cleared'
    BY DEF GateStep, Classify, HoldingFails, Scan, StoreFails, Store
  <2>4. decision'.allow => file.n \in cleared'
    <3>1. CASE Classify(IF pc = "flushing" THEN NextChunk(asm) ELSE << >>) \/ HoldingFails \/ Scan(file.n)
      <4>1. UNCHANGED decision \/ ~decision'.allow
        BY <3>1 DEF Classify, HoldingFails, Scan, Refusal
      <4>2. cleared \subseteq cleared'
        BY <1>0 DEF Quiet
      <4> QED
        BY <4>1, <4>2 DEF CloseOK, GateCleared
    <3>2. CASE StoreFails
      BY <3>2 DEF StoreFails, Refusal
    <3>3. CASE Store(file.n)
      <4>1. decision'.allow = Allows(verdict) /\ UNCHANGED cleared /\ scan = "scanned"
        BY <3>3 DEF Store
      <4>2. CASE verdict = "clean"
        BY <4>1, <4>2 DEF CloseOK, GateCleared
      <4>3. CASE verdict # "clean"
        BY <4>1, <4>3 DEF Allows
      <4> QED
        BY <4>2, <4>3
    <3> QED
      BY <3>1, <3>2, <3>3 DEF GateStep
  <2> QED
    BY <1>1, <2>1, <2>2, <2>3, <2>4 DEF GateCleared
<1> QED
  BY <1>2, <1>4 DEF CloseOK

LEMMA DownloadKeepsClose ==
    ASSUME TypeOK, ShelfOK, CloseOK,
           \/ \E off \in Offsets, l \in Lengths : ReadTarget(off, l)
           \/ \E r \in reading : Observe(r)
           \/ Hash \/ CloseDownload \/ CloseDirect
    PROVE  CloseOK'
<1>0. Quiet /\ file.n \in Keys
  BY RestQuiet DEF TypeOK, MovingOK, FileType
<1>1. /\ file.kind # "upload" /\ UNCHANGED <<file, cleared>>
      /\ pc \in {"open", "flushing"} /\ pc' \in {"open", "flushing", "idle"}
  <2>1. CASE \E off \in Offsets, l \in Lengths : ReadTarget(off, l)
    BY <2>1 DEF ReadTarget, gate
  <2>2. CASE \E r \in reading : Observe(r)
    BY <2>2 DEF Observe, gate
  <2>3. CASE Hash \/ CloseDownload \/ CloseDirect
    BY <2>3 DEF Hash, CloseDownload, CloseDirect, Freed, gate
  <2> QED
    BY <2>1, <2>2, <2>3
<1>2. scan = "idle" /\ ~decision.allow
  BY <1>1 DEF CloseOK, GateCleared
<1>3. scan' = "idle" /\ ~decision'.allow
  <2>1. UNCHANGED <<scan, decision>> \/ (scan' = "idle" /\ decision' = NoDecision)
    BY DEF ReadTarget, Observe, Hash, CloseDownload, CloseDirect, Freed, gate
  <2>2. ~NoDecision.allow
    BY DEF NoDecision, Refusal
  <2> QED
    BY <1>2, <2>1, <2>2, Zenon
<1>4. ClosingSteps'
  BY <1>0, <1>1 DEF CloseOK, ClosingSteps, Settling, Quiet
<1>5. GateCleared'
  BY <1>3 DEF GateCleared
<1> QED
  BY <1>4, <1>5 DEF CloseOK

LEMMA OthersKeepClose ==
    ASSUME TypeOK, ShelfOK, CloseOK, Others \/ UNCHANGED vars
    PROVE  CloseOK'
<1>0. file.n \in Keys /\ approval \in [Keys -> ApprovalType]
  BY DEF TypeOK, MovingOK, KeptOK, FileType
<1>1. CASE \/ TargetChanges \/ ClientGone \/ UNCHANGED vars
           \/ \E n \in Files, status \in {"approved", "denied"} : Decide(n, status)
  <2>1. Quiet
    BY <1>1, RestQuiet
  <2>2. UNCHANGED <<file, pc, uploads, scan, verdict, decision, cleared>>
    BY <1>1 DEF TargetChanges, ClientGone, Decide, vars, gate, transfer, history
  <2>3. approval[file.n].status = "approved" => approval'[file.n].status = "approved"
    BY <1>0, <1>1 DEF TargetChanges, ClientGone, Decide, vars
  <2>4. {"accepted", "granted"} \subseteq Words
    BY DEF Words
  <2>5. ClosingSteps'
    BY <1>0, <2>1, <2>2, <2>3, <2>4 DEF CloseOK, ClosingSteps, Settling, Quiet
  <2>6. GateCleared'
    BY <2>2 DEF CloseOK, GateCleared
  <2> QED
    BY <2>5, <2>6 DEF CloseOK
<1>2. CASE Clock
  BY <1>2 DEF Clock, CloseOK, ClosingSteps, GateCleared, Event, gate, transfer, history
<1>3. CASE Crash
  <2>1. /\ scan' = "idle" /\ ~decision'.allow /\ pc' = "idle" /\ UNCHANGED <<file, uploads>>
    BY <1>3 DEF Crash, Freed, NoDecision, Refusal, history
  <2> QED
    BY <2>1 DEF CloseOK, ClosingSteps, GateCleared, Settling
<1> QED
  BY <1>1, <1>2, <1>3 DEF Others

LEMMA CloseStep ==
    ASSUME TypeOK, ShelfOK, CloseOK, [Next]_vars
    PROVE  CloseOK'
<1>0. 0 \in 0..Size
  BY ReassemblyAssumption
<1>1. CASE Upload
  BY <1>1, OpenKeepsClose, WriteKeepsClose, FlushKeepsClose, CloseKeepsClose, RecordKeepsClose DEF Upload
<1>2. CASE Download \/ Direct
  BY <1>0, <1>2, OpenKeepsClose, WriteKeepsClose, DownloadKeepsClose DEF Download, Direct
<1>3. CASE GateStep \/ Others \/ UNCHANGED vars
  BY <1>3, GateKeepsClose, OthersKeepClose
<1> QED
  BY <1>1, <1>2, <1>3 DEF Next

-----------------------------------------------------------------------------
(* Downloads. *)
LEMMA ConcatSeen ==
    ASSUME NEW s \in Seq(Bytes), NEW t \in Seq(Bytes), SeenAt(0, s), SeenAt(Len(s), t)
    PROVE  SeenAt(0, s \o t)
<1>0. Len(s) \in Nat /\ Len(t) \in Nat /\ DOMAIN s = 1..Len(s) /\ DOMAIN t = 1..Len(t)
  OBVIOUS
<1>1. /\ s \o t \in Seq(Bytes) /\ Len(s \o t) = Len(s) + Len(t)
      /\ \A i \in 1..(Len(s) + Len(t)) : (s \o t)[i] = IF i <= Len(s) THEN s[i] ELSE t[i - Len(s)]
  BY ConcatProperties
<1>2. DOMAIN (s \o t) = 1..(Len(s) + Len(t))
  BY <1>1
<1> SUFFICES ASSUME NEW i \in DOMAIN (s \o t)
             PROVE  <<0 + i - 1, (s \o t)[i]>> \in seen
  BY DEF SeenAt
<1>3. i \in 1..(Len(s) + Len(t))
  BY <1>2
<1>4. CASE i <= Len(s)
  <2>1. i \in DOMAIN s /\ (s \o t)[i] = s[i]
    BY <1>0, <1>1, <1>3, <1>4
  <2> QED
    BY <2>1 DEF SeenAt
<1>5. CASE ~(i <= Len(s))
  <2>1. i - Len(s) \in DOMAIN t /\ (s \o t)[i] = t[i - Len(s)] /\ Len(s) + (i - Len(s)) - 1 = 0 + i - 1
    BY <1>0, <1>1, <1>3, <1>5
  <2> QED
    BY <2>1 DEF SeenAt
<1> QED
  BY <1>4, <1>5

(* Between transfers, or at their start, the tap has nothing. *)
LEMMA NothingObserved ==
    ASSUME stream' = << >>, asm' = Empty, reading' = {}
    PROVE  Clean' /\ Observed'
<1>1. asm'.exp = Len(stream') /\ SeenAt(0, stream)'
  BY EmptyType DEF SeenAt
<1>2. \A o \in Offsets : SeenAt(o, asm.pending[o])'
  BY EmptyType DEF SeenAt
<1> QED
  BY <1>1, <1>2 DEF Clean, Observed

(* What a client has received it keeps having received. *)
LEMMA TapStill ==
    ASSUME TapOK, UNCHANGED <<stream, asm, reading, manifest>>, seen \subseteq seen',
           file'.kind = file.kind, pc' = pc
    PROVE  TapOK'
<1>1. \A o, d : SeenAt(o, d) => SeenAt(o, d)'
  BY DEF SeenAt
<1>2. Clean'
  BY DEF TapOK, Clean
<1>3. Observed'
  <2>1. SUFFICES ASSUME file.kind = "download" PROVE Observed'
    BY DEF Observed
  <2>2. /\ asm.exp = Len(stream) /\ SeenAt(0, stream)
        /\ \A o \in Offsets : SeenAt(o, asm.pending[o])
        /\ \A r \in reading : SeenAt(r.off, r.data)
    BY <2>1 DEF TapOK, Observed
  <2>3. SeenAt(0, stream)'
    BY <1>1, <2>2 DEF SeenAt
  <2>4. \A o \in Offsets : SeenAt(o, asm.pending[o])'
    BY <1>1, <2>2 DEF SeenAt
  <2>5. \A r \in reading' : SeenAt(r.off, r.data)'
    BY <1>1, <2>2 DEF SeenAt
  <2> QED
    BY <2>2, <2>3, <2>4, <2>5 DEF Observed
<1>4. ManifestIsObserved'
  BY DEF TapOK, ManifestIsObserved
<1> QED
  BY <1>2, <1>3, <1>4 DEF TapOK

LEMMA UploadKeepsTap ==
    ASSUME TypeOK, TypeOK', CloseOK, TapOK, Upload \/ Direct \/ GateStep
    PROVE  TapOK'
<1>1. CASE GateStep
  <2>1. UNCHANGED stream
    BY <1>1 DEF GateStep, Classify, HoldingFails, Scan, StoreFails, Store
  <2> QED
    BY <1>1, <2>1, TapStill DEF GateStep, transfer, history
<1>2. ASSUME NEW u \in Clients, NEW proto \in Protocols, NEW size \in 0..Size,
             OpenUpload(u, proto, size) \/ OpenDirect(u, proto)
      PROVE  TapOK'
  <2>1. stream' = << >> /\ asm' = Empty /\ reading' = {} /\ UNCHANGED <<seen, manifest>>
    BY <1>2 DEF OpenUpload, OpenDirect, Opened, TapOK, Clean, gate, history
  <2>2. Clean' /\ Observed'
    BY <2>1, NothingObserved
  <2> QED
    BY <2>1, <2>2 DEF TapOK, ManifestIsObserved
<1>3. ASSUME NEW off \in Offsets, NEW data \in Chunks, WriteDirect(off, data)
      PROVE  TapOK'
  BY <1>3, TapStill DEF WriteDirect, gate, history
<1>4. CASE CloseDirect
  <2>1. stream' = << >> /\ asm' = Empty /\ reading' = {} /\ UNCHANGED <<seen, manifest>>
    BY <1>4 DEF CloseDirect, TapOK, Clean, gate, history
  <2>2. Clean' /\ Observed'
    BY <2>1, NothingObserved
  <2> QED
    BY <2>1, <2>2 DEF TapOK, ManifestIsObserved
<1>5. CASE Flush \/ FlushFails \/ FlushEnds \/ CloseUpload
  <2>1. /\ file'.kind = "upload" /\ pc' \in {"open", "flushing", "closing"}
        /\ UNCHANGED <<seen, manifest>>
    BY <1>5 DEF Flush, FlushFails, FlushEnds, CloseUpload, WriteFails, history, TypeOK, MovingOK, FileType
  <2> QED
    BY <2>1 DEF TapOK, Clean, Observed, ManifestIsObserved
<1>6. ASSUME NEW off \in Offsets, NEW data \in Chunks, WriteRefused(off, data) \/ WriteAt(off, data)
      PROVE  TapOK'
  <2>1. /\ file'.kind = "upload" /\ pc' \in {"open", "flushing", "closing"}
        /\ UNCHANGED <<seen, manifest>>
    BY <1>6 DEF WriteRefused, WriteAt, WriteFails, history, TypeOK, MovingOK, FileType
  <2> QED
    BY <2>1 DEF TapOK, Clean, Observed, ManifestIsObserved
<1>7. CASE \/ CloseInspected \/ RequestFails \/ RequestRelease \/ WaitApproved \/ WaitRefused
           \/ RecordFails \/ RecordRelease \/ Released
  <2>1. stream' = << >> /\ asm' = Empty /\ reading' = {} /\ UNCHANGED <<seen, manifest>>
    BY <1>7 DEF CloseInspected, RequestFails, RequestRelease, WaitApproved, WaitRefused, RecordFails,
                RecordRelease, Released, Freed, gate, history, TapOK, Clean
  <2>2. Clean' /\ Observed'
    BY <2>1, NothingObserved
  <2> QED
    BY <2>1, <2>2 DEF TapOK, ManifestIsObserved
<1>8. 0 \in 0..Size
  BY ReassemblyAssumption
<1> QED
  BY <1>1, <1>2, <1>3, <1>4, <1>5, <1>6, <1>7, <1>8 DEF Upload, Direct

LEMMA OthersKeepTap ==
    ASSUME TypeOK', TapOK, Others \/ UNCHANGED vars
    PROVE  TapOK'
<1>1. CASE Crash
  <2>1. stream' = << >> /\ asm' = Empty /\ reading' = {} /\ UNCHANGED <<seen, manifest>>
    BY <1>1 DEF Crash, Freed, history
  <2>2. Clean' /\ Observed'
    BY <2>1, NothingObserved
  <2> QED
    BY <2>1, <2>2 DEF TapOK, ManifestIsObserved
<1>2. CASE ~Crash
  <2>1. UNCHANGED <<stream, asm, reading, manifest, seen, file, pc>>
    BY <1>2 DEF Others, Decide, TargetChanges, ClientGone, Clock, vars, gate, transfer, history
  <2> QED
    BY <2>1, TapStill
<1> QED
  BY <1>1, <1>2

LEMMA DownloadKeepsTap ==
    ASSUME TypeOK, TypeOK', TapOK, Download
    PROVE  TapOK'
<1>1. ASSUME NEW u \in Clients, NEW proto \in Protocols, OpenDownload(u, proto)
      PROVE  TapOK'
  <2>1. stream' = << >> /\ asm' = Empty /\ reading' = {} /\ manifest' = << >>
    BY <1>1 DEF OpenDownload, Opened, TapOK, Clean, gate
  <2>2. Clean' /\ Observed'
    BY <2>1, NothingObserved
  <2> QED
    BY <2>1, <2>2 DEF TapOK, ManifestIsObserved
<1>2. ASSUME NEW off \in Offsets, NEW l \in Lengths, ReadTarget(off, l)
      PROVE  TapOK'
  <2>1. PICK k \in 1..l :
          LET data == [i \in 1..k |-> target[off + i - 1]]
          IN  /\ ReadAt(off, l, k)
              /\ reading' = reading \union {[off |-> off, data |-> data, i |-> chunks]}
              /\ seen' = seen \union {<<off + i - 1, data[i]>> : i \in 1..k}
    BY <1>2 DEF ReadTarget
  <2> DEFINE data == [i \in 1..k |-> target[off + i - 1]]
             new == [off |-> off, data |-> data, i |-> chunks]
  <2>2. /\ reading' = reading \union {new} /\ new.off = off /\ new.data = data
        /\ seen \subseteq seen' /\ \A i \in 1..k : <<off + i - 1, data[i]>> \in seen'
        /\ DOMAIN data = 1..k
    BY <2>1
  <2>3. UNCHANGED <<file, pc, stream, asm, manifest>> /\ file.kind = "download" /\ pc \in {"open", "flushing"}
    BY <1>2 DEF ReadTarget, gate
  <2> HIDE DEF data, new
  <2>4. \A i \in DOMAIN new.data : <<new.off + i - 1, new.data[i]>> \in seen'
    BY <2>2
  <2>5. \A o, d : SeenAt(o, d) => (\A i \in DOMAIN d : <<o + i - 1, d[i]>> \in seen')
    BY <2>2 DEF SeenAt
  <2>6. /\ asm.exp = Len(stream) /\ SeenAt(0, stream)
        /\ \A o \in Offsets : SeenAt(o, asm.pending[o])
        /\ \A r \in reading : SeenAt(r.off, r.data)
    BY <2>3 DEF TapOK, Observed
  <2>7. \A r \in reading' : \A i \in DOMAIN r.data : <<r.off + i - 1, r.data[i]>> \in seen'
    BY <2>2, <2>4, <2>5, <2>6
  <2>8. Observed'
    BY <2>3, <2>5, <2>6, <2>7 DEF Observed, SeenAt
  <2>9. Clean' /\ ManifestIsObserved'
    BY <2>2, <2>3 DEF TapOK, Clean, ManifestIsObserved
  <2> QED
    BY <2>8, <2>9 DEF TapOK
<1>3. ASSUME NEW r \in reading, Observe(r)
      PROVE  TapOK'
  <2>1. r.off \in Offsets /\ r.data \in Seq(Bytes) /\ asm \in AsmType
    BY DEF TypeOK, MovingOK, ReadType
  <2>2. /\ UNCHANGED <<file, stream, manifest, seen>> /\ file.kind = "download"
        /\ pc' \in {"open", "flushing"} /\ reading' \subseteq reading
    BY <1>3 DEF Observe, gate, history
  <2>3. /\ asm.exp = Len(stream) /\ SeenAt(0, stream)
        /\ \A o \in Offsets : SeenAt(o, asm.pending[o])
        /\ \A s \in reading : SeenAt(s.off, s.data)
    BY <2>2 DEF TapOK, Observed
  <2>4. asm' \in {asm, Counted(asm, r.off, r.data), Stored(asm, r.off, r.data)}
    BY <1>3 DEF Observe
  <2>5. /\ asm'.exp = asm.exp
        /\ asm'.pending = asm.pending \/ asm'.pending = [asm.pending EXCEPT ![r.off] = r.data]
    BY <2>1, <2>4, CountedFields, StoredFields
  <2>6. \A o \in Offsets : SeenAt(o, asm'.pending[o])
    <3>1. asm.pending \in [Offsets -> Seq(Bytes)]
      BY <2>1 DEF AsmType
    <3> QED
      BY <2>1, <2>3, <2>5, <3>1
  <2>7. Observed'
    BY <2>2, <2>3, <2>5, <2>6 DEF Observed, SeenAt
  <2>8. Clean' /\ ManifestIsObserved'
    BY <2>2 DEF TapOK, Clean, ManifestIsObserved
  <2> QED
    BY <2>7, <2>8 DEF TapOK
<1>4. CASE Hash
  <2>1. /\ UNCHANGED <<file, manifest, seen, reading>> /\ file.kind = "download" /\ pc' \in {"open", "flushing"}
    BY <1>4 DEF Hash, history
  <2>2. /\ asm.exp = Len(stream) /\ SeenAt(0, stream)
        /\ \A o \in Offsets : SeenAt(o, asm.pending[o])
        /\ \A s \in reading : SeenAt(s.off, s.data)
    BY <2>1 DEF TapOK, Observed
  <2>3. Observed'
    <3>1. CASE ~Contiguous(asm)
      <4>1. UNCHANGED <<stream, asm>>
        BY <1>4, <3>1 DEF Hash
      <4> QED
        BY <2>1, <2>2, <4>1 DEF Observed, SeenAt
    <3>2. CASE Contiguous(asm)
      <4>1. stream' = stream \o NextChunk(asm) /\ asm' = HandedOn(asm)
        BY <1>4, <3>2 DEF Hash
      <4>2. /\ asm \in AsmType /\ stream \in Seq(Bytes) /\ NextChunk(asm) \in Seq(Bytes)
            /\ asm.exp \in Offsets /\ NextChunk(asm) = asm.pending[asm.exp]
        BY <3>2, NextChunkType DEF TypeOK, MovingOK
      <4>3. /\ asm'.exp = asm.exp + Len(NextChunk(asm))
            /\ asm'.pending = [asm.pending EXCEPT ![asm.exp] = << >>]
        BY <3>2, <4>1, <4>2, HandedOnFields
      <4>4. asm'.exp = Len(stream')
        BY <2>2, <4>1, <4>2, <4>3, ConcatProperties
      <4>5. SeenAt(0, stream \o NextChunk(asm))
        BY <2>2, <4>2, ConcatSeen
      <4>6. \A o \in Offsets : SeenAt(o, asm'.pending[o])
        <5>1. asm.pending \in [Offsets -> Seq(Bytes)] /\ SeenAt(asm.exp, << >>)
          BY <4>2 DEF AsmType, SeenAt
        <5> QED
          BY <2>2, <4>2, <4>3, <5>1
      <4> QED
        BY <2>1, <2>2, <4>1, <4>4, <4>5, <4>6 DEF Observed, SeenAt
    <3> QED
      BY <3>1, <3>2
  <2>4. Clean' /\ ManifestIsObserved'
    BY <2>1 DEF TapOK, Clean, ManifestIsObserved
  <2> QED
    BY <2>3, <2>4 DEF TapOK
<1>5. CASE CloseDownload
  <2>1. /\ stream' = << >> /\ asm' = Empty /\ reading' = {} /\ UNCHANGED seen
        /\ manifest' = SubSeq(stream, 1, asm.exp) /\ file.kind = "download"
    BY <1>5 DEF CloseDownload, Freed
  <2>2. Clean' /\ Observed'
    BY <2>1, NothingObserved
  <2>3. stream \in Seq(Bytes) /\ asm.exp = Len(stream) /\ SeenAt(0, stream)
    BY <2>1 DEF TypeOK, MovingOK, TapOK, Observed
  <2>4. manifest' = stream
    BY <2>1, <2>3
  <2>5. ManifestIsObserved'
    <3>1. \A i \in DOMAIN stream : i \in Nat /\ 0 + i - 1 = i - 1
      BY <2>3
    <3> QED
      BY <2>1, <2>3, <2>4, <3>1 DEF ManifestIsObserved, SeenAt
  <2> QED
    BY <2>2, <2>5 DEF TapOK
<1> QED
  BY <1>1, <1>2, <1>3, <1>4, <1>5 DEF Download

-----------------------------------------------------------------------------
(* Uploads.  The count of waiting bytes. *)
LEMMA CellsFinite ==
    ASSUME NEW p
    PROVE  IsFiniteSet(Cells(p)) /\ Cardinality(Cells(p)) \in Nat
<1>1. IsFiniteSet(Offsets) /\ IsFiniteSet(1..Size)
  BY ReassemblyAssumption, FS_Interval DEF Offsets
<1>2. IsFiniteSet(Offsets \X (1..Size))
  BY <1>1, FS_Product
<1>3. Cells(p) \in SUBSET (Offsets \X (1..Size))
  BY DEF Cells
<1> QED
  BY <1>2, <1>3, FS_Subset, FS_CardinalityType

LEMMA Column ==
    ASSUME NEW q, NEW l \in Nat
    PROVE  IsFiniteSet({q} \X (1..l)) /\ Cardinality({q} \X (1..l)) = l
<1>1. IsFiniteSet({q}) /\ Cardinality({q}) = 1
  BY FS_Singleton
<1>2. IsFiniteSet(1..l) /\ Cardinality(1..l) = l
  BY FS_Interval
<1> DEFINE S == {q}
           T == 1..l
<1>3. IsFiniteSet(S) /\ IsFiniteSet(T) /\ Cardinality(S) = 1 /\ Cardinality(T) = l
  BY <1>1, <1>2
<1>4. IsFiniteSet(S \X T) /\ Cardinality(S \X T) = Cardinality(S) * Cardinality(T)
  <2> HIDE DEF S, T
  <2> QED
    BY <1>3, FS_Product, Zenon
<1>5. Cardinality(S \X T) = 1 * l
  <2> HIDE DEF S, T
  <2> QED
    BY <1>3, <1>4, Zenon
<1>6. 1 * l = l
  OBVIOUS
<1> QED
  BY <1>4, <1>5, <1>6, Zenon

(* A chunk that is filed counts at most its bytes ... *)
LEMMA CellsStored ==
    ASSUME NEW p \in [Offsets -> Seq(Bytes)], NEW off \in Offsets, NEW data \in Seq(Bytes)
    PROVE  LET new == [p EXCEPT ![off] = data]
           IN  /\ Cardinality(Cells(new)) <= Cardinality(Cells(p)) + Len(data)
               /\ Len(p[off]) = Len(data) => Cells(new) = Cells(p)
<1> DEFINE new == [p EXCEPT ![off] = data]
           col == {off} \X (1..Len(data))
<1>1. \A q \in Offsets : new[q] = IF q = off THEN data ELSE p[q]
  OBVIOUS
<1>2. Len(data) \in Nat /\ IsFiniteSet(col) /\ Cardinality(col) = Len(data)
  <2>1. Len(data) \in Nat
    OBVIOUS
  <2> QED
    BY <2>1, Column
<1>3. Cells(new) \subseteq Cells(p) \cup col
  BY <1>1 DEF Cells
<1>4. /\ IsFiniteSet(Cells(p)) /\ Cardinality(Cells(p)) \in Nat /\ Cardinality(Cells(new)) \in Nat
  BY CellsFinite
<1>5. Len(p[off]) = Len(data) => Cells(new) = Cells(p)
  BY <1>1 DEF Cells
<1> HIDE DEF new, col
<1>6. /\ IsFiniteSet(Cells(p) \cup col)
      /\ Cardinality(Cells(p) \cup col) = Cardinality(Cells(p)) + Cardinality(col) - Cardinality(Cells(p) \cap col)
  BY <1>2, <1>4, FS_Union
<1>7. Cardinality(Cells(p) \cap col) \in Nat
  BY <1>2, <1>4, FS_Intersection, FS_CardinalityType
<1>8. Cardinality(Cells(new)) <= Cardinality(Cells(p) \cup col)
  BY <1>3, <1>6, FS_Subset
<1>9. Cardinality(Cells(new)) <= Cardinality(Cells(p)) + Len(data)
  BY <1>2, <1>4, <1>6, <1>7, <1>8
<1> QED
  BY <1>5, <1>9 DEF new

(* ... and one that leaves, all of them. *)
LEMMA CellsDropped ==
    ASSUME NEW p \in [Offsets -> Seq(Bytes)], NEW off \in Offsets, Len(p[off]) <= Size
    PROVE  Cardinality(Cells([p EXCEPT ![off] = << >>])) = Cardinality(Cells(p)) - Len(p[off])
<1> DEFINE new == [p EXCEPT ![off] = << >>]
           col == {off} \X (1..Len(p[off]))
<1>1. \A q \in Offsets : new[q] = IF q = off THEN << >> ELSE p[q]
  OBVIOUS
<1>2. Len(p[off]) \in Nat /\ IsFiniteSet(col) /\ Cardinality(col) = Len(p[off])
  <2>1. Len(p[off]) \in Nat
    OBVIOUS
  <2> QED
    BY <2>1, Column
<1>3. col \subseteq Cells(p)
  BY <1>2, ReassemblyAssumption DEF Cells
<1>4. Cells(new) = Cells(p) \ col
  <2>1. ASSUME NEW c \in Offsets \X (1..Size) PROVE c \in Cells(new) <=> c \in Cells(p) /\ c \notin col
    <3>1. PICK q \in Offsets, i \in 1..Size : c = <<q, i>>
      OBVIOUS
    <3>2. CASE q = off
      BY <1>1, <1>2, <3>1, <3>2 DEF Cells
    <3>3. CASE q # off
      BY <1>1, <3>1, <3>3 DEF Cells
    <3> QED
      BY <3>2, <3>3
  <2>2. Cells(new) \subseteq Offsets \X (1..Size) /\ Cells(p) \subseteq Offsets \X (1..Size)
    BY DEF Cells
  <2> QED
    BY <2>1, <2>2
<1>5. IsFiniteSet(Cells(p)) /\ Cells(p) \cap col = col
  BY <1>3, CellsFinite
<1> HIDE DEF col
<1>6. Cardinality(Cells(p) \ col) = Cardinality(Cells(p)) - Cardinality(Cells(p) \cap col)
  BY <1>5, FS_Difference
<1> QED
  BY <1>2, <1>4, <1>5, <1>6

(* With none left, no chunk waits. *)
LEMMA CellsNone ==
    ASSUME NEW a \in AsmType, Fits(a), Cardinality(Cells(a.pending)) <= 0, NEW q \in Offsets
    PROVE  a.pending[q] = << >>
<1>1. Cells(a.pending) = {}
  BY CellsFinite, FS_EmptySet
<1>2. a.pending[q] \in Seq(Bytes) /\ q \in Nat /\ q + Len(a.pending[q]) <= Size
  <2>1. a.pending[q] \in Seq(Bytes) /\ q + Len(a.pending[q]) <= Size
    BY DEF AsmType, Fits
  <2>2. q \in Nat
    BY ReassemblyAssumption DEF Offsets
  <2> QED
    BY <2>1, <2>2
<1>3. Len(a.pending[q]) \in Nat /\ Len(a.pending[q]) <= Size
  BY <1>2, ReassemblyAssumption
<1>4. ~(Len(a.pending[q]) >= 1)
  <2>1. SUFFICES ASSUME Len(a.pending[q]) >= 1 PROVE FALSE
    OBVIOUS
  <2>2. <<q, 1>> \in Cells(a.pending)
    BY <1>3, <2>1, ReassemblyAssumption DEF Cells
  <2> QED
    BY <1>1, <2>2
<1> QED
  BY <1>2, <1>3, <1>4, EmptySeq

(* Filing a chunk, or handing the next one on, never undoes a confusion. *)
LEMMA TidyStored ==
    ASSUME NEW a \in AsmType, NEW off \in Offsets, NEW data \in Seq(Bytes),
           Len(a.pending[off]) \in {0, Len(data)}
    PROVE  LET b == Stored(a, off, data)
           IN  /\ Tidy(b) => Tidy(a)
               /\ \A q, o \in Offsets : Covers(a.pending, q, o) => Covers(b.pending, q, o)
               /\ \A q, o \in Offsets : q # off /\ Covers(b.pending, q, o) => Covers(a.pending, q, o)
               /\ \A o \in Offsets : Covers(b.pending, off, o) <=> o \in off..(off + Len(data) - 1)
<1> DEFINE b == Stored(a, off, data)
<1>1. b.exp = a.exp /\ b.pending = [a.pending EXCEPT ![off] = data]
  BY StoredFields
<1>2. a.pending \in [Offsets -> Seq(Bytes)] /\ Len(data) \in Nat /\ a.pending[off] \in Seq(Bytes)
  BY DEF AsmType
<1>3. \A q \in Offsets : b.pending[q] = IF q = off THEN data ELSE a.pending[q]
  BY <1>1, <1>2
<1> HIDE DEF b
<1>4. \A q, o \in Offsets : Covers(a.pending, q, o) => Covers(b.pending, q, o)
  <2>1. SUFFICES ASSUME NEW o \in Offsets, Covers(a.pending, off, o) PROVE Covers(b.pending, off, o)
    BY <1>3 DEF Covers
  <2>2. off \in Nat /\ o \in Nat
    BY ReassemblyAssumption DEF Offsets
  <2>3. Len(a.pending[off]) # 0
    BY <2>1, <2>2 DEF Covers
  <2> QED
    BY <1>3, <2>1, <2>3 DEF Covers
<1>5. \A q, o \in Offsets : q # off /\ Covers(b.pending, q, o) => Covers(a.pending, q, o)
  BY <1>3 DEF Covers
<1>6. \A o \in Offsets : Covers(b.pending, off, o) <=> o \in off..(off + Len(data) - 1)
  BY <1>3 DEF Covers
<1>7. Tidy(b) => Tidy(a)
  <2> SUFFICES ASSUME Tidy(b) PROVE Tidy(a)
    OBVIOUS
  <2>1. \A q \in Offsets : a.pending[q] # << >> => b.pending[q] # << >>
    <3>1. SUFFICES ASSUME a.pending[off] # << >> PROVE data # << >>
      BY <1>3
    <3>2. Len(a.pending[off]) # 0
      BY <1>2, <3>1, EmptySeq
    <3> QED
      BY <3>2, EmptySeq
  <2> QED
    BY <1>1, <1>4, <2>1 DEF Tidy
<1> QED
  BY <1>4, <1>5, <1>6, <1>7 DEF b

LEMMA TidyHandedOn ==
    ASSUME NEW a \in AsmType, Contiguous(a)
    PROVE  LET b == HandedOn(a)
           IN  /\ Tidy(b) => Tidy(a)
               /\ \A q, o \in Offsets : Covers(b.pending, q, o) <=> q # a.exp /\ Covers(a.pending, q, o)
               /\ \A o \in Offsets : Covers(a.pending, a.exp, o) <=> o >= a.exp /\ o < b.exp
<1> DEFINE b == HandedOn(a)
<1>1. b.exp = a.exp + Len(NextChunk(a)) /\ b.pending = [a.pending EXCEPT ![a.exp] = << >>]
  BY HandedOnFields
<1>2. /\ a.pending \in [Offsets -> Seq(Bytes)] /\ a.exp \in Offsets /\ a.exp \in Nat
      /\ NextChunk(a) = a.pending[a.exp] /\ Len(a.pending[a.exp]) \in Nat
  <2>1. /\ a.pending \in [Offsets -> Seq(Bytes)] /\ a.exp \in Offsets /\ a.exp \in Nat
        /\ NextChunk(a) = a.pending[a.exp]
    BY NextChunkType DEF AsmType
  <2> QED
    BY <2>1
<1>3. \A q \in Offsets : b.pending[q] = IF q = a.exp THEN << >> ELSE a.pending[q]
  BY <1>1, <1>2
<1>4. \A q \in Offsets : q \in Nat
  BY ReassemblyAssumption DEF Offsets
<1> HIDE DEF b
<1>5. \A q, o \in Offsets : Covers(b.pending, q, o) <=> q # a.exp /\ Covers(a.pending, q, o)
  <2>1. \A o \in Offsets : ~Covers(b.pending, a.exp, o)
    BY <1>2, <1>3, <1>4 DEF Covers
  <2> QED
    BY <1>3, <2>1 DEF Covers
<1>6. \A o \in Offsets : Covers(a.pending, a.exp, o) <=> o >= a.exp /\ o < b.exp
  BY <1>1, <1>2, <1>4 DEF Covers
<1>7. Tidy(b) => Tidy(a)
  <2> SUFFICES ASSUME Tidy(b) PROVE Tidy(a)
    OBVIOUS
  <2>1. ASSUME NEW q \in Offsets, a.pending[q] # << >>, q # a.exp PROVE q >= b.exp /\ b.exp >= a.exp
    BY <1>1, <1>2, <1>3, <2>1 DEF Tidy
  <2>2. \A q \in Offsets : a.pending[q] # << >> => q >= a.exp
    BY <1>1, <1>2, <1>4, <2>1
  <2>3. ASSUME NEW q \in Offsets, NEW o \in Offsets, q # a.exp, Covers(a.pending, q, o)
        PROVE  a.pending[q] # << >> /\ o >= b.exp /\ ~Covers(a.pending, a.exp, o)
    <3>1. a.pending[q] # << >>
      <4>1. Len(a.pending[q]) # 0
        BY <1>4, <2>3 DEF Covers
      <4> QED
        BY <4>1, EmptySeq
    <3>2. q >= b.exp /\ o >= q /\ b.exp \in Nat
      BY <1>1, <1>2, <1>4, <2>1, <2>3, <3>1 DEF Covers
    <3> QED
      BY <1>2, <1>4, <1>6, <3>1, <3>2
  <2>4. ASSUME NEW p \in Offsets, NEW q \in Offsets, NEW o \in Offsets,
               Covers(a.pending, p, o), Covers(a.pending, q, o)
        PROVE  p = q
    <3>1. CASE p # a.exp /\ q # a.exp
      BY <1>5, <2>4, <3>1 DEF Tidy
    <3>2. CASE p = a.exp \/ q = a.exp
      BY <2>3, <2>4, <3>2
    <3> QED
      BY <3>1, <3>2
  <2> QED
    BY <2>2, <2>4 DEF Tidy
<1> QED
  BY <1>5, <1>6, <1>7 DEF b

LEMMA FitsStored ==
    ASSUME NEW a \in AsmType, Fits(a), NEW off \in Offsets, NEW data \in Seq(Bytes), off + Len(data) <= Size
    PROVE  Fits(Stored(a, off, data))
<1>1. Stored(a, off, data).pending = [a.pending EXCEPT ![off] = data] /\ a.pending \in [Offsets -> Seq(Bytes)]
  BY StoredFields DEF AsmType
<1> QED
  BY <1>1 DEF Fits

LEMMA FitsDropped ==
    ASSUME NEW a \in AsmType, Fits(a), Contiguous(a), NEW b \in {Dropped(a), HandedOn(a)}
    PROVE  Fits(b)
<1>1. /\ b.pending = [a.pending EXCEPT ![a.exp] = << >>]
      /\ a.pending \in [Offsets -> Seq(Bytes)] /\ a.exp \in Offsets
  BY DroppedFields, HandedOnFields, NextChunkType DEF AsmType
<1>2. \A q \in Offsets : q \in Nat /\ q <= Size
  BY ReassemblyAssumption DEF Offsets
<1> QED
  BY <1>1, <1>2 DEF Fits

LEMMA VacantStored ==
    ASSUME NEW a \in AsmType, Vacant(a), NEW off \in Offsets, NEW data \in Seq(Bytes)
    PROVE  /\ Vacant(Counted(a, off, data)) /\ Vacant(Stored(a, off, data))
           /\ (off \in a.at => Len(a.pending[off]) = Len(data)) => Len(a.pending[off]) \in {0, Len(data)}
<1>1. a.pending \in [Offsets -> Seq(Bytes)]
  BY DEF AsmType
<1>2. Vacant(Stored(a, off, data))
  <2>1. /\ Stored(a, off, data).pending = [a.pending EXCEPT ![off] = data]
        /\ Stored(a, off, data).at = a.at \cup {off}
    BY StoredFields
  <2> QED
    BY <1>1, <2>1 DEF Vacant
<1>3. Vacant(Counted(a, off, data))
  BY CountedFields DEF Vacant
<1>4. off \notin a.at => Len(a.pending[off]) = 0
  BY DEF Vacant
<1> QED
  BY <1>2, <1>3, <1>4

LEMMA VacantDropped ==
    ASSUME NEW a \in AsmType, Vacant(a), Contiguous(a), NEW b \in {Dropped(a), HandedOn(a)}
    PROVE  Vacant(b)
<1>1. /\ b.pending = [a.pending EXCEPT ![a.exp] = << >>] /\ b.at = a.at \ {a.exp}
      /\ a.pending \in [Offsets -> Seq(Bytes)] /\ a.exp \in Offsets
  BY DroppedFields, HandedOnFields, NextChunkType DEF AsmType
<1> QED
  BY <1>1 DEF Vacant

(* The count never falls below what waits, as long as no chunk is replaced by  *)
(* one of another length.                                                     *)
LEMMA CountStored ==
    ASSUME NEW a \in AsmType, NEW off \in Offsets, NEW data \in Seq(Bytes),
           Cardinality(Cells(a.pending)) <= a.bytes,
           off \in a.at => Len(a.pending[off]) = Len(data)
    PROVE  /\ Cardinality(Cells(a.pending)) <= Counted(a, off, data).bytes
           /\ Cardinality(Cells(Stored(a, off, data).pending)) <= Stored(a, off, data).bytes
<1> DEFINE new == [a.pending EXCEPT ![off] = data]
<1>1. /\ Stored(a, off, data).pending = new
      /\ Stored(a, off, data).bytes = Counted(a, off, data).bytes
      /\ Counted(a, off, data).bytes = IF off \in a.at THEN a.bytes ELSE a.bytes + Len(data)
  BY StoredFields, CountedFields
<1>2. a.pending \in [Offsets -> Seq(Bytes)] /\ a.bytes \in Int /\ Len(data) \in Nat
  BY DEF AsmType
<1>3. /\ Cardinality(Cells(new)) <= Cardinality(Cells(a.pending)) + Len(data)
      /\ Len(a.pending[off]) = Len(data) => Cells(new) = Cells(a.pending)
  BY <1>2, CellsStored
<1>4. Cardinality(Cells(new)) \in Nat /\ Cardinality(Cells(a.pending)) \in Nat
  BY CellsFinite
<1> HIDE DEF new
<1>5. CASE off \notin a.at
  BY <1>1, <1>2, <1>3, <1>4, <1>5
<1>6. CASE off \in a.at
  BY <1>1, <1>3, <1>6
<1> QED
  BY <1>5, <1>6

LEMMA CountDropped ==
    ASSUME NEW a \in AsmType, Fits(a), Contiguous(a), Cardinality(Cells(a.pending)) <= a.bytes,
           NEW b \in {Dropped(a), HandedOn(a)}
    PROVE  Cardinality(Cells(b.pending)) <= b.bytes
<1>1. /\ b.pending = [a.pending EXCEPT ![a.exp] = << >>] /\ b.bytes = a.bytes - Len(a.pending[a.exp])
      /\ a.pending \in [Offsets -> Seq(Bytes)] /\ a.exp \in Offsets /\ a.bytes \in Int
  BY DroppedFields, HandedOnFields, NextChunkType DEF AsmType
<1>2. Len(a.pending[a.exp]) \in Nat /\ Len(a.pending[a.exp]) <= Size
  <2>1. a.exp + Len(a.pending[a.exp]) <= Size /\ a.exp \in Nat /\ Len(a.pending[a.exp]) \in Nat
    BY <1>1, ReassemblyAssumption DEF Fits, Offsets
  <2> QED
    BY <2>1, ReassemblyAssumption
<1>3. Cardinality(Cells([a.pending EXCEPT ![a.exp] = << >>])) =
         Cardinality(Cells(a.pending)) - Len(a.pending[a.exp])
  BY <1>1, <1>2, CellsDropped
<1>4. Cardinality(Cells(a.pending)) \in Nat
  BY CellsFinite
<1> QED
  BY <1>1, <1>2, <1>3, <1>4

(* An event of another kind, or of another file, adds no verdict. *)
LEMMA EventOnly ==
    ASSUME KeptOK, NEW n \in Keys, NEW e \in Words, Emit(n, e), NEW m \in Keys, NEW f \in Words,
           f # e \/ m # n, Event(m, f)'
    PROVE  Event(m, f)
<1>1. trail \in [Keys -> Seq(Words)] /\ trail[n] \in Seq(Words)
  BY DEF KeptOK
<1>2. PICK i \in DOMAIN trail'[m] : trail'[m][i] = f
  BY DEF Event
<1>3. CASE m # n
  <2>1. trail'[m] = trail[m]
    BY <1>1, <1>3 DEF Emit
  <2> QED
    BY <1>2, <2>1 DEF Event
<1>4. CASE m = n
  <2>1. trail'[n] = Append(trail[n], e)
    BY <1>1 DEF Emit
  <2>2. Len(trail[n]) \in Nat /\ DOMAIN trail[n] = 1..Len(trail[n])
        /\ DOMAIN Append(trail[n], e) = 1..(Len(trail[n]) + 1)
        /\ Append(trail[n], e)[Len(trail[n]) + 1] = e
        /\ \A j \in 1..Len(trail[n]) : Append(trail[n], e)[j] = trail[n][j]
    BY <1>1
  <2>3. i \in 1..(Len(trail[n]) + 1) /\ i # Len(trail[n]) + 1
    BY <1>2, <1>4, <2>1, <2>2
  <2>4. i \in DOMAIN trail[n] /\ trail[n][i] = f
    BY <1>2, <1>4, <2>1, <2>2, <2>3
  <2> QED
    BY <1>4, <2>4 DEF Event
<1> QED
  BY <1>3, <1>4

Settled(n) ==
    /\ uploads'[n].image = uploads[n].image
    /\ uploads'[n].resized <=> uploads[n].resized
    /\ quarantine'[n] = quarantine[n]

(* A step that judges no upload, and changes none that is judged. *)
Kept ==
    /\ file'.n = file.n
    /\ Receiving' => Receiving
    /\ \A n \in Keys : Event(n, "accepted")' => Event(n, "accepted")
    /\ \A n \in Keys : n # file.n \/ ~Receiving => Settled(n)

LEMMA KeptKeeps ==
    ASSUME TypeOK, Unjudged, InStore, AcceptedIsWhole, Kept
    PROVE  Unjudged' /\ InStore' /\ AcceptedIsWhole'
<1>0. file.n \in Keys /\ Files \subseteq Keys /\ \A n \in Keys : n \in Nat
  BY KeysAreNaturals DEF TypeOK, MovingOK, FileType, Files
<1>1. Unjudged'
  <2>1. ASSUME NEW n \in Keys, n > file.n PROVE uploads'[n].image = NoBytes /\ ~Event(n, "accepted")'
    BY <1>0, <2>1 DEF Unjudged, Kept, Settled
  <2>2. ASSUME Receiving' PROVE ~Event(file.n, "accepted")
    BY <1>0, <2>2 DEF Unjudged, Kept
  <2>3. ASSUME NEW n \in Keys, n = file.n, Receiving' PROVE ~Event(n, "accepted")'
    BY <1>0, <2>2, <2>3 DEF Kept
  <2> QED
    BY <2>1, <2>3 DEF Unjudged, Kept
<1>2. AcceptedIsWhole'
  <2>1. SUFFICES ASSUME NEW n \in Files, Event(n, "accepted")', ~uploads'[n].resized
                 PROVE  Holds(uploads'[n].image, quarantine'[n])
    BY DEF AcceptedIsWhole, Holds
  <2>2. Event(n, "accepted")
    BY <1>0, <2>1 DEF Kept
  <2>3. ~(n = file.n /\ Receiving)
    BY <1>0, <2>2 DEF Unjudged
  <2>4. Settled(n)
    BY <1>0, <2>3 DEF Kept
  <2>5. ~uploads[n].resized /\ uploads'[n].image = uploads[n].image /\ quarantine'[n] = quarantine[n]
    BY <2>1, <2>4 DEF Settled
  <2> QED
    BY <2>2, <2>5 DEF AcceptedIsWhole
<1>3. InStore'
  <2>1. SUFFICES ASSUME NEW n \in Keys, Event(n, "accepted")' PROVE quarantine'[n] \in Seq(Bytes)
    BY DEF InStore
  <2>2. Event(n, "accepted") /\ ~(n = file.n /\ Receiving)
    BY <2>1 DEF Kept, Unjudged
  <2> QED
    BY <2>2 DEF Kept, Settled, InStore
<1> QED
  BY <1>1, <1>2, <1>3

(* Without an upload under way there is nothing to say of its reassembly. *)
LEMMA NothingReceived ==
    ASSUME CloseOK', ~Receiving', quarantine' \in [Keys -> Seq(Bytes) \cup {None}]
    PROVE  ScanOrder' /\ Assembled'
<1>1. scan' = "idle"
  BY DEF CloseOK, GateCleared, Receiving
<1> QED
  BY <1>1 DEF ScanOrder, Assembled

LEMMA SameUploads ==
    ASSUME UNCHANGED <<uploads, quarantine>>, NEW n \in Keys
    PROVE  Settled(n)
  BY DEF Settled

LEMMA ToldUploads ==
    ASSUME TypeOK, UNCHANGED quarantine, NEW a \in {"ok", "error"}, Tell(a), NEW n \in Keys
    PROVE  Settled(n)
<1>1. uploads \in [Keys -> UploadType] /\ file.n \in Keys
  BY DEF TypeOK, KeptOK, MovingOK, FileType
<1>2. /\ [uploads[file.n] EXCEPT !.told = a].image = uploads[file.n].image
      /\ [uploads[file.n] EXCEPT !.told = a].resized <=> uploads[file.n].resized
  BY <1>1 DEF UploadType
<1>3. uploads' = [uploads EXCEPT ![file.n] = [uploads[file.n] EXCEPT !.told = a]]
  BY <1>1 DEF Tell
<1>4. uploads'[n] = IF n = file.n THEN [uploads[file.n] EXCEPT !.told = a] ELSE uploads[n]
  BY <1>1, <1>3
<1> QED
  BY <1>2, <1>4 DEF Settled

(* Steps that end or follow an upload, or have nothing to do with one. *)
LEMMA OutsideKeepsWhole ==
    ASSUME TypeOK, CloseOK, CloseOK', WholeOK,
           \/ RequestFails \/ RequestRelease \/ WaitApproved \/ WaitRefused
           \/ RecordFails \/ RecordRelease \/ Released
           \/ CloseInspected /\ ~Accepted
           \/ \E off \in Offsets, data \in Chunks : WriteDirect(off, data)
           \/ CloseDirect
           \/ \E off \in Offsets, l \in Lengths : ReadTarget(off, l)
           \/ \E r \in reading : Observe(r)
           \/ Hash \/ CloseDownload \/ Crash
    PROVE  WholeOK'
<1>0. /\ file.n \in Keys /\ "accepted" \in Words
      /\ {"rejected", "requested", "granted", "refused", "released", "download"} \subseteq Words
  BY DEF TypeOK, MovingOK, FileType, Words
<1>1. UNCHANGED <<file, quarantine>> /\ ~Receiving'
      /\ \/ UNCHANGED trail
         \/ \E e \in {"rejected", "requested", "granted", "refused", "released", "download"} : Emit(file.n, e)
  <2>1. CASE \E off \in Offsets, l \in Lengths : ReadTarget(off, l)
    BY <2>1 DEF ReadTarget, gate, Receiving
  <2>2. CASE \E r \in reading : Observe(r)
    BY <2>2 DEF Observe, gate, Receiving
  <2>3. CASE Hash \/ CloseDownload \/ Crash
    BY <2>3 DEF Hash, CloseDownload, Crash, Freed, gate, Receiving
  <2>4. CASE CloseDirect \/ \E off \in Offsets, data \in Chunks : WriteDirect(off, data)
    BY <2>4 DEF WriteDirect, CloseDirect, gate, Receiving
  <2>5. CASE CloseInspected /\ ~Accepted
    BY <2>5 DEF CloseInspected, Freed, Receiving
  <2>6. CASE \/ RequestFails \/ RequestRelease \/ WaitApproved \/ WaitRefused
             \/ RecordFails \/ RecordRelease \/ Released
    BY <2>6 DEF RequestFails, RequestRelease, WaitApproved, WaitRefused, RecordFails, RecordRelease,
                Released, gate, Receiving
  <2> QED
    BY <2>1, <2>2, <2>3, <2>4, <2>5, <2>6
<1>2. \A n \in Keys : Event(n, "accepted")' => Event(n, "accepted")
  <2>1. CASE UNCHANGED trail
    BY <2>1 DEF Event
  <2>2. CASE \E e \in {"rejected", "requested", "granted", "refused", "released", "download"} : Emit(file.n, e)
    BY <1>0, <2>2, EventOnly DEF TypeOK
  <2> QED
    BY <1>1, <2>1, <2>2
<1>3. \A n \in Keys : Settled(n)
  <2>1. CASE UNCHANGED uploads
    BY <1>1, <2>1, SameUploads
  <2>2. CASE Tell("error") \/ Tell("ok")
    BY <1>1, <2>2, ToldUploads
  <2>3. CASE RecordRelease
    <3>1. uploads \in [Keys -> UploadType]
      BY DEF TypeOK, KeptOK
    <3>2. /\ [uploads[file.n] EXCEPT !.until = now + ReleaseTTL].image = uploads[file.n].image
          /\ [uploads[file.n] EXCEPT !.until = now + ReleaseTTL].resized <=> uploads[file.n].resized
      BY <1>0, <3>1 DEF UploadType
    <3>3. uploads' = [uploads EXCEPT ![file.n] = [uploads[file.n] EXCEPT !.until = now + ReleaseTTL]]
      BY <1>0, <2>3, <3>1 DEF RecordRelease
    <3>4. \A n \in Keys : uploads'[n] = IF n = file.n THEN [uploads[file.n] EXCEPT !.until = now + ReleaseTTL]
                                        ELSE uploads[n]
      BY <3>1, <3>3
    <3> QED
      BY <1>1, <3>2, <3>4 DEF Settled
  <2>4. RecordRelease \/ UNCHANGED uploads \/ Tell("error") \/ Tell("ok")
    BY DEF RequestFails, RequestRelease, WaitApproved, WaitRefused, RecordFails, Released, CloseInspected,
           WriteDirect, CloseDirect, ReadTarget, Observe, Hash, CloseDownload, Crash, history
  <2> QED
    BY <2>1, <2>2, <2>3, <2>4
<1>4. Kept
  BY <1>1, <1>2, <1>3 DEF Kept
<1>5. ScanOrder' /\ Assembled'
  BY <1>1, NothingReceived DEF WholeOK, ScanOrder
<1> QED
  BY <1>4, <1>5, KeptKeeps DEF WholeOK

LEMMA OthersKeepWhole ==
    ASSUME TypeOK, WholeOK,
           \/ TargetChanges \/ ClientGone \/ Clock \/ UNCHANGED vars
           \/ \E n \in Files, status \in {"approved", "denied"} : Decide(n, status)
    PROVE  WholeOK'
<1>0. 0 \in Keys /\ "accepted" \in Words /\ "filecmd" \in Words
  BY KeysAreNaturals DEF Words
<1>1. /\ UNCHANGED <<file, quarantine, uploads, pc, scan, failed, decision, stream, asm, chunk>>
      /\ UNCHANGED trail \/ Emit(0, "filecmd")
  BY DEF TargetChanges, ClientGone, Clock, vars, Decide, gate, transfer, history
<1>2. \A n \in Keys : Event(n, "accepted")' => Event(n, "accepted")
  <2>1. CASE UNCHANGED trail
    BY <2>1 DEF Event
  <2>2. CASE Emit(0, "filecmd")
    BY <1>0, <2>2, EventOnly DEF TypeOK
  <2> QED
    BY <1>1, <2>1, <2>2
<1>3. Kept
  BY <1>1, <1>2, SameUploads DEF Kept, Receiving
<1>4. ScanOrder'
  BY <1>1 DEF WholeOK, ScanOrder, Refused
<1>5. Assembled'
  BY <1>1 DEF WholeOK, Assembled, Receiving, Refused, Matches, Wrote
<1> QED
  BY <1>3, <1>4, <1>5, KeptKeeps DEF WholeOK

(* A new upload starts with nothing. *)
LEMMA OpenKeepsWhole ==
    ASSUME TypeOK, CloseOK, CloseOK', TapOK, WholeOK, NEW u \in Clients, NEW proto \in Protocols,
           NEW size \in 0..Size,
           OpenUpload(u, proto, size) \/ OpenDirect(u, proto) \/ OpenDownload(u, proto)
    PROVE  WholeOK'
<1>0. /\ file.n \in Keys /\ file.n \in Nat /\ file.n + 1 \in Keys /\ file'.n = file.n + 1
      /\ pc = "idle" /\ pc' = "open"
      /\ UNCHANGED <<quarantine, trail, asm, stream, failed, decision>>
  <2>1. file.n \in Keys
    BY DEF TypeOK, MovingOK, FileType
  <2>2. pc = "idle" /\ pc' = "open" /\ file.n < MaxFiles /\ file'.n = file.n + 1
    BY DEF OpenUpload, OpenDirect, OpenDownload, Opened
  <2> QED
    BY <2>1, <2>2, KeysAreNaturals DEF OpenUpload, OpenDirect, OpenDownload, gate
<1>1. \A n \in Keys : Settled(n)
  <2>1. CASE UNCHANGED uploads
    BY <1>0, <2>1, SameUploads
  <2>2. CASE OpenUpload(u, proto, size)
    <3>1. uploads \in [Keys -> UploadType]
      BY DEF TypeOK, KeptOK
    <3>2. /\ [uploads[file.n + 1] EXCEPT !.user = u].image = uploads[file.n + 1].image
          /\ [uploads[file.n + 1] EXCEPT !.user = u].resized <=> uploads[file.n + 1].resized
      BY <1>0, <3>1 DEF UploadType
    <3>3. uploads' = [uploads EXCEPT ![file.n + 1] = [uploads[file.n + 1] EXCEPT !.user = u]]
      BY <1>0, <2>2, <3>1 DEF OpenUpload
    <3>4. \A n \in Keys : uploads'[n] = IF n = file.n + 1 THEN [uploads[file.n + 1] EXCEPT !.user = u]
                                        ELSE uploads[n]
      BY <3>1, <3>3
    <3> QED
      BY <1>0, <3>2, <3>4 DEF Settled
  <2> QED
    BY <2>1, <2>2 DEF OpenDirect, OpenDownload, history
<1>2. \A n \in Keys : Event(n, "accepted")' <=> Event(n, "accepted")
  BY <1>0 DEF Event
<1>3. Unjudged'
  <2>1. \A n \in Keys : n \in Nat
    BY KeysAreNaturals
  <2>2. \A n \in Keys : n >= file.n + 1 => uploads'[n].image = NoBytes /\ ~Event(n, "accepted")'
    BY <1>0, <1>1, <1>2, <2>1 DEF WholeOK, Unjudged, Settled
  <2> QED
    BY <1>0, <2>1, <2>2 DEF Unjudged
<1>4. AcceptedIsWhole'
  <2>1. SUFFICES ASSUME NEW n \in Files, Event(n, "accepted")', ~uploads'[n].resized
                 PROVE  Holds(uploads'[n].image, quarantine'[n])
    BY DEF AcceptedIsWhole, Holds
  <2>2. n \in Keys
    BY KeysAreNaturals DEF Files
  <2>3. Event(n, "accepted") /\ Settled(n)
    BY <1>1, <1>2, <2>1, <2>2
  <2>4. ~uploads[n].resized /\ uploads'[n].image = uploads[n].image /\ quarantine'[n] = quarantine[n]
    BY <2>1, <2>3 DEF Settled
  <2> QED
    BY <2>3, <2>4 DEF WholeOK, AcceptedIsWhole
<1>6. InStore'
  BY <1>1, <1>2 DEF WholeOK, InStore, Settled
<1>5. ScanOrder' /\ Assembled'
  <2>1. CASE ~Receiving'
    BY <1>0, <2>1, NothingReceived DEF WholeOK, ScanOrder
  <2>2. CASE Receiving'
    <3>1. scan' = "head" /\ asm' = Empty /\ stream' = << >>
      BY <1>0, <2>2 DEF Receiving, OpenUpload, OpenDirect, OpenDownload, Opened, TapOK, Clean
    <3>2. ScanOrder'
      BY <1>0, <3>1 DEF WholeOK, ScanOrder
    <3>3. \A q \in Offsets : q \in Nat /\ q <= Size /\ Empty.pending[q] = << >>
      BY EmptyType, ReassemblyAssumption DEF Offsets
    <3>4. Fits(Empty) /\ Vacant(Empty) /\ Empty.exp = Len(<< >>)
      BY <3>3, EmptyType DEF Fits, Vacant
    <3>5. Cells(Empty.pending) = {}
      BY <3>3, EmptyType DEF Cells
    <3>6. Cardinality(Cells(Empty.pending)) <= Empty.bytes
      BY <3>5, EmptyType, FS_EmptySet
    <3>7. Matches(asm)'
      <4>1. \A o \in Offsets : Wrote(o)' = None
        <5>1. uploads'[file'.n].image = NoBytes
          BY <1>0, <1>1, KeysAreNaturals DEF WholeOK, Unjudged, Settled
        <5> QED
          BY <1>0, <5>1 DEF Wrote, NoBytes
      <4>2. \A q, o \in Offsets : ~Covers(Empty.pending, q, o)
        BY <3>3 DEF Covers
      <4>3. \A o \in Offsets : ~(o < Empty.exp)
        BY <3>3, EmptyType
      <4> QED
        BY <3>1, <4>1, <4>2, <4>3 DEF Matches
    <3> QED
      BY <3>1, <3>2, <3>4, <3>6, <3>7 DEF Assembled
  <2> QED
    BY <2>1, <2>2
<1> QED
  BY <1>3, <1>4, <1>5, <1>6 DEF WholeOK

(* The writes of an upload, each with the turn of the loop it starts. *)
LEMMA WriteKeepsWhole ==
    ASSUME TypeOK, WholeOK, NEW off \in Offsets, NEW data \in Chunks,
           WriteRefused(off, data) \/ WriteAt(off, data)
    PROVE  WholeOK'
<1>0. /\ file.n \in Keys /\ file \in FileType /\ asm \in AsmType /\ uploads \in [Keys -> UploadType]
      /\ data \in Seq(Bytes) /\ off \in Nat
  BY ChunksType, ReassemblyAssumption DEF TypeOK, MovingOK, KeptOK, FileType, Offsets
<1>1. /\ UNCHANGED <<quarantine, scan, failed, decision, stream, trail>>
      /\ file'.n = file.n /\ file.kind = "upload" /\ file'.kind = "upload"
      /\ pc = "open" /\ pc' \in {"open", "flushing", "closing"} /\ off + Len(data) <= Size
  BY <1>0 DEF WriteRefused, WriteAt, MayWrite, WriteFails, gate, FileType
<1>2. Receiving /\ Receiving'
  BY <1>1 DEF Receiving
<1>3. PICK v \in BOOLEAN :
          /\ uploads' = [uploads EXCEPT ![file.n] = [uploads[file.n] EXCEPT !.resized = v]]
          /\ uploads[file.n].resized => v
          /\ ~v /\ WriteAt(off, data) => (off \in asm.at => Len(asm.pending[off]) = Len(data))
  <2>1. CASE WriteAt(off, data)
    <3> DEFINE v == uploads[file.n].resized \/ (off \in asm.at /\ Len(asm.pending[off]) # Len(data))
    <3>1. uploads' = [uploads EXCEPT ![file.n] = [uploads[file.n] EXCEPT !.resized = v]]
      BY <1>0, <2>1, Zenon DEF WriteAt
    <3>2. v \in BOOLEAN /\ (uploads[file.n].resized => v) /\ (~v => (off \in asm.at => Len(asm.pending[off]) = Len(data)))
      OBVIOUS
    <3> QED
      BY <3>1, <3>2
  <2>2. CASE ~WriteAt(off, data)
    <3>1. UNCHANGED uploads
      BY <2>2 DEF WriteRefused, history
    <3>2. uploads[file.n].resized \in BOOLEAN
          /\ uploads[file.n] = [uploads[file.n] EXCEPT !.resized = uploads[file.n].resized]
      BY <1>0 DEF UploadType
    <3>3. uploads = [uploads EXCEPT ![file.n] = uploads[file.n]]
      BY <1>0
    <3> QED
      BY <2>2, <3>1, <3>2, <3>3
  <2> QED
    BY <2>1, <2>2
<1>4. /\ uploads'[file.n].image = uploads[file.n].image
      /\ uploads'[file.n].resized <=> v
      /\ \A n \in Keys : n # file.n => uploads'[n] = uploads[n]
  <2>1. /\ [uploads[file.n] EXCEPT !.resized = v].image = uploads[file.n].image
        /\ [uploads[file.n] EXCEPT !.resized = v].resized = v
    BY <1>0 DEF UploadType
  <2>2. /\ uploads'[file.n] = [uploads[file.n] EXCEPT !.resized = v]
        /\ \A n \in Keys : n # file.n => uploads'[n] = uploads[n]
    BY <1>0, <1>3
  <2> QED
    BY <2>1, <2>2
<1>5. Kept
  BY <1>1, <1>2, <1>4 DEF Kept, Settled, Event
<1>6. ScanOrder'
  <2>1. scan' # "scanned"
    BY <1>1 DEF WholeOK, ScanOrder
  <2>2. scan = "done" => Refused
    BY <1>1 DEF WholeOK, ScanOrder
  <2> QED
    BY <1>1, <2>1, <2>2 DEF WholeOK, ScanOrder, Refused
<1>7. Assembled'
  <2>1. SUFFICES ASSUME ~uploads'[file.n].resized
                 PROVE  /\ asm'.exp = Len(stream') /\ Fits(asm') /\ Vacant(asm')
                        /\ Cardinality(Cells(asm'.pending)) <= asm'.bytes
                        /\ Refused' \/ ~Tidy(asm') \/ Matches(asm)'
    BY <1>1 DEF Assembled
  <2>2. ~v /\ ~uploads[file.n].resized
    BY <1>3, <1>4, <2>1
  <2>3. /\ asm.exp = Len(stream) /\ Fits(asm) /\ Vacant(asm)
        /\ Cardinality(Cells(asm.pending)) <= asm.bytes
        /\ Refused \/ ~Tidy(asm) \/ Matches(asm)
    BY <1>2, <2>2 DEF WholeOK, Assembled
  <2>4. Refused => Refused'
    BY <1>1 DEF Refused
  <2>5. \A o \in Offsets : Wrote(o) = uploads[file.n].image[o]
    BY <1>1 DEF Wrote
  <2>6. CASE WriteRefused(off, data)
    <3>1. asm' = asm \/ asm' = Counted(asm, off, data)
      BY <2>6 DEF WriteRefused
    <3>2. asm'.exp = asm.exp /\ asm'.pending = asm.pending /\ asm'.bytes >= asm.bytes
      <4>1. asm.bytes \in Int /\ Len(data) \in Nat
        BY <1>0 DEF AsmType
      <4>2. CASE asm' = asm
        BY <4>1, <4>2
      <4>3. CASE asm' = Counted(asm, off, data)
        <5>1. /\ asm'.exp = asm.exp /\ asm'.pending = asm.pending
              /\ asm'.bytes \in {asm.bytes, asm.bytes + Len(data)}
          BY <1>0, <4>3, CountedFields
        <5> QED
          BY <4>1, <5>1
      <4> QED
        BY <3>1, <4>2, <4>3
    <3>3. Cardinality(Cells(asm'.pending)) <= asm'.bytes
      <4>1. Cardinality(Cells(asm.pending)) \in Nat /\ asm.bytes \in Int /\ asm'.bytes \in Int
        BY <1>0, <3>1, CellsFinite, CountedFields DEF AsmType
      <4> QED
        BY <2>3, <3>2, <4>1
    <3>4. Fits(asm') /\ Vacant(asm') /\ (Tidy(asm') => Tidy(asm))
      <4>1. Vacant(asm')
        BY <1>0, <2>3, <3>1, VacantStored
      <4> QED
        BY <2>3, <3>2, <4>1 DEF Fits, Tidy
    <3>5. \A o \in Offsets : Wrote(o)' = Wrote(o)
      <4>1. pc' # "flushing"
        BY <2>6 DEF WriteRefused, WriteFails
      <4> QED
        BY <1>1, <1>4, <2>5, <4>1 DEF Wrote
    <3>6. Matches(asm) => Matches(asm)'
      BY <1>1, <3>2, <3>5 DEF Matches
    <3> QED
      BY <1>1, <2>3, <2>4, <3>2, <3>3, <3>4, <3>6
  <2>7. CASE WriteAt(off, data)
    <3>1. /\ asm' = Stored(asm, off, data) /\ off >= asm.exp
          /\ pc' = "flushing" /\ chunk' = [off |-> off, data |-> data]
      BY <2>7 DEF WriteAt
    <3>2. /\ off \in asm.at => Len(asm.pending[off]) = Len(data)
          /\ Len(asm.pending[off]) \in {0, Len(data)}
      BY <1>0, <1>3, <2>2, <2>3, <2>7, VacantStored
    <3>3. asm'.exp = asm.exp /\ asm'.pending = [asm.pending EXCEPT ![off] = data]
      BY <1>0, <3>1, StoredFields
    <3>4. Fits(asm') /\ Vacant(asm') /\ Cardinality(Cells(asm'.pending)) <= asm'.bytes
      <4>1. Fits(asm')
        BY <1>0, <1>1, <2>3, <3>1, FitsStored
      <4>2. Vacant(asm')
        BY <1>0, <2>3, <3>1, VacantStored
      <4>3. Cardinality(Cells(asm'.pending)) <= asm'.bytes
        BY <1>0, <2>3, <3>1, <3>2, CountStored
      <4> QED
        BY <4>1, <4>2, <4>3
    <3>5. /\ Tidy(asm') => Tidy(asm)
          /\ \A q, o \in Offsets : Covers(asm.pending, q, o) => Covers(asm'.pending, q, o)
          /\ \A q, o \in Offsets : q # off /\ Covers(asm'.pending, q, o) => Covers(asm.pending, q, o)
          /\ \A o \in Offsets : Covers(asm'.pending, off, o) <=> o \in off..(off + Len(data) - 1)
      BY <1>0, <3>1, <3>2, TidyStored
    <3>6. \A o \in Offsets : Wrote(o)' = IF Covers(asm'.pending, off, o) THEN data[o - off + 1] ELSE Wrote(o)
      <4>1. chunk'.off = off /\ chunk'.data = data
        BY <3>1
      <4> QED
        BY <1>1, <1>4, <2>5, <3>1, <3>5, <4>1 DEF Wrote
    <3>7. ASSUME Tidy(asm'), Matches(asm) PROVE Matches(asm)'
      <4>1. asm.pending \in [Offsets -> Seq(Bytes)] /\ asm.exp \in Nat /\ \A o \in Offsets : o \in Nat
        BY <1>0, ReassemblyAssumption DEF AsmType, Offsets
      <4>2. ASSUME NEW o \in Offsets, o < asm'.exp PROVE Wrote(o)' = stream'[o + 1]
        <5>1. ~Covers(asm'.pending, off, o)
          BY <1>0, <3>1, <3>3, <3>5, <4>1, <4>2
        <5> QED
          BY <1>1, <3>3, <3>6, <3>7, <4>2, <5>1 DEF Matches
      <4>3. ASSUME NEW o \in Offsets, NEW q \in Offsets, Covers(asm'.pending, q, o)
            PROVE  Wrote(o)' = asm'.pending[q][o - q + 1]
        <5>1. CASE q = off
          BY <3>3, <3>6, <4>1, <4>3, <5>1
        <5>2. CASE q # off
          <6>1. ~Covers(asm'.pending, off, o)
            BY <3>7, <4>3, <5>2 DEF Tidy
          <6>2. Covers(asm.pending, q, o) /\ asm'.pending[q] = asm.pending[q]
            BY <3>3, <3>5, <4>1, <4>3, <5>2
          <6> QED
            BY <3>6, <3>7, <6>1, <6>2 DEF Matches
        <5> QED
          BY <5>1, <5>2
      <4>4. ASSUME NEW o \in Offsets, o >= asm'.exp, \A q \in Offsets : ~Covers(asm'.pending, q, o)
            PROVE  Wrote(o)' = None
        BY <3>3, <3>5, <3>6, <3>7, <4>4 DEF Matches
      <4> QED
        BY <4>2, <4>3, <4>4 DEF Matches
    <3> QED
      BY <1>1, <2>3, <2>4, <3>3, <3>4, <3>5, <3>7
  <2> QED
    BY <2>6, <2>7
<1> QED
  BY <1>5, <1>6, <1>7, KeptKeeps DEF WholeOK

LEMMA ConcatTail ==
    ASSUME NEW s \in Seq(Bytes), NEW t \in Seq(Bytes), NEW i \in 1..(Len(s) + Len(t)), ~(i <= Len(s))
    PROVE  (s \o t)[i] = t[i - Len(s)]
  BY ConcatProperties

LEMMA FlushKeepsWhole ==
    ASSUME TypeOK, WholeOK, Flush
    PROVE  WholeOK'
<1>0. file.n \in Keys /\ asm \in AsmType /\ stream \in Seq(Bytes) /\ NextChunk(asm) \in Seq(Bytes)
  BY NextChunkType DEF TypeOK, MovingOK, FileType
<1>1. /\ UNCHANGED <<quarantine, scan, failed, decision, trail, uploads, file, pc, chunk>>
      /\ file.kind = "upload" /\ pc = "flushing" /\ scan \in {"head", "large"}
      /\ Contiguous(asm) /\ stream' = stream \o NextChunk(asm) /\ asm' = HandedOn(asm)
  BY DEF Flush, Takes, history
<1>2. Receiving /\ (Receiving' <=> Receiving)
  BY <1>1 DEF Receiving
<1>3. Kept
  BY <1>1, <1>2, SameUploads DEF Kept, Event
<1>4. ScanOrder'
  BY <1>1 DEF WholeOK, ScanOrder
<1>5. Assembled'
  <2>1. SUFFICES ASSUME ~uploads[file.n].resized
                 PROVE  /\ asm'.exp = Len(stream') /\ Fits(asm') /\ Vacant(asm')
                        /\ Cardinality(Cells(asm'.pending)) <= asm'.bytes
                        /\ Refused' \/ ~Tidy(asm') \/ Matches(asm)'
    BY <1>1 DEF Assembled
  <2>2. /\ asm.exp = Len(stream) /\ Fits(asm) /\ Vacant(asm)
        /\ Cardinality(Cells(asm.pending)) <= asm.bytes
        /\ Refused \/ ~Tidy(asm) \/ Matches(asm)
    BY <1>2, <2>1 DEF WholeOK, Assembled
  <2>3. Refused => Refused'
    BY <1>1 DEF Refused
  <2>4. /\ asm'.exp = asm.exp + Len(NextChunk(asm))
        /\ asm'.pending = [asm.pending EXCEPT ![asm.exp] = << >>]
        /\ asm.exp \in Offsets /\ NextChunk(asm) = asm.pending[asm.exp]
        /\ asm.pending \in [Offsets -> Seq(Bytes)]
    BY <1>0, <1>1, HandedOnFields, NextChunkType DEF AsmType
  <2>5. /\ Len(stream') = Len(stream) + Len(NextChunk(asm))
        /\ \A i \in 1..(Len(stream) + Len(NextChunk(asm))) :
              stream'[i] = IF i <= Len(stream) THEN stream[i] ELSE NextChunk(asm)[i - Len(stream)]
    BY <1>0, <1>1, ConcatProperties
  <2>6. Fits(asm') /\ Vacant(asm') /\ Cardinality(Cells(asm'.pending)) <= asm'.bytes
    BY <1>0, <1>1, <2>2, FitsDropped, VacantDropped, CountDropped
  <2>7. /\ Tidy(asm') => Tidy(asm)
        /\ \A q, o \in Offsets : Covers(asm'.pending, q, o) <=> q # asm.exp /\ Covers(asm.pending, q, o)
        /\ \A o \in Offsets : Covers(asm.pending, asm.exp, o) <=> o >= asm.exp /\ o < asm'.exp
    BY <1>0, <1>1, TidyHandedOn
  <2>8. \A o \in Offsets : Wrote(o)' = Wrote(o)
    BY <1>1 DEF Wrote
  <2>9. ASSUME Matches(asm) PROVE Matches(asm)'
    <3>1. Len(stream) \in Nat /\ Len(NextChunk(asm)) \in Nat /\ \A o \in Offsets : o \in Nat
      BY <1>0, ReassemblyAssumption DEF Offsets
    <3>2. ASSUME NEW o \in Offsets, o < asm'.exp PROVE Wrote(o)' = stream'[o + 1]
      <4>1. o + 1 \in 1..(Len(stream) + Len(NextChunk(asm)))
        BY <2>2, <2>4, <3>1, <3>2
      <4>2. CASE o < asm.exp
        <5>1. Wrote(o) = stream[o + 1]
          BY <2>9, <4>2 DEF Matches
        <5>2. stream'[o + 1] = stream[o + 1]
          BY <2>2, <2>5, <3>1, <4>1, <4>2
        <5> QED
          BY <2>8, <5>1, <5>2
      <4>3. CASE o >= asm.exp
        <5>1. Wrote(o) = asm.pending[asm.exp][o - asm.exp + 1]
          BY <2>4, <2>7, <2>9, <3>2, <4>3 DEF Matches
        <5>2. (o + 1) - Len(stream) = (o - asm.exp) + 1 /\ ~(o + 1 <= Len(stream))
          BY <2>2, <3>1, <4>3
        <5>3. stream'[o + 1] = NextChunk(asm)[(o + 1) - Len(stream)]
          BY <1>0, <1>1, <4>1, <5>2, ConcatTail
        <5>4. stream'[o + 1] = NextChunk(asm)[o - asm.exp + 1]
          BY <5>2, <5>3, Zenon
        <5> QED
          BY <2>4, <2>8, <5>1, <5>4
      <4> QED
        BY <2>2, <3>1, <4>2, <4>3
    <3>3. ASSUME NEW o \in Offsets, NEW q \in Offsets, Covers(asm'.pending, q, o)
          PROVE  Wrote(o)' = asm'.pending[q][o - q + 1]
      <4>1. q # asm.exp /\ Covers(asm.pending, q, o)
        BY <2>7, <3>3
      <4>2. asm'.pending[q] = asm.pending[q]
        BY <2>4, <4>1
      <4> QED
        BY <2>8, <2>9, <4>1, <4>2 DEF Matches
    <3>4. ASSUME NEW o \in Offsets, o >= asm'.exp, \A q \in Offsets : ~Covers(asm'.pending, q, o)
          PROVE  Wrote(o)' = None
      <4>1. o >= asm.exp /\ ~(o < asm'.exp)
        BY <2>2, <2>4, <3>1, <3>4
      <4>2. \A q \in Offsets : ~Covers(asm.pending, q, o)
        BY <2>7, <3>4, <4>1
      <4> QED
        BY <2>8, <2>9, <4>1, <4>2 DEF Matches
    <3> QED
      BY <3>2, <3>3, <3>4 DEF Matches
  <2>10. asm'.exp = Len(stream')
    BY <2>2, <2>4, <2>5
  <2> QED
    BY <2>2, <2>3, <2>6, <2>7, <2>9, <2>10
<1> QED
  BY <1>3, <1>4, <1>5, KeptKeeps DEF WholeOK

LEMMA FlushEndsKeepsWhole ==
    ASSUME TypeOK, WholeOK, FlushFails \/ FlushEnds \/ CloseUpload
    PROVE  WholeOK'
<1>0. /\ file.n \in Keys /\ file \in FileType /\ asm \in AsmType /\ uploads \in [Keys -> UploadType]
      /\ chunk.off \in Nat /\ chunk.data \in Seq(Bytes)
  BY DEF TypeOK, MovingOK, KeptOK, FileType, ChunkType
<1>1. /\ UNCHANGED <<quarantine, scan, failed, decision, stream, trail>>
      /\ file'.n = file.n /\ file.kind = "upload" /\ file'.kind = "upload"
      /\ pc \in {"open", "flushing"} /\ pc' \in {"open", "closing"}
  BY <1>0 DEF FlushFails, FlushEnds, CloseUpload, WriteFails, gate, FileType
<1>2. Receiving /\ Receiving'
  BY <1>1 DEF Receiving
<1>3. /\ \A n \in Keys : n # file.n => uploads'[n] = uploads[n]
      /\ uploads'[file.n].resized <=> uploads[file.n].resized
  <2>1. \/ UNCHANGED uploads
        \/ \E f : uploads' = [uploads EXCEPT ![file.n].image = f]
    BY DEF FlushFails, FlushEnds, CloseUpload, history
  <2>2. ASSUME NEW f, uploads' = [uploads EXCEPT ![file.n].image = f]
        PROVE  /\ \A n \in Keys : n # file.n => uploads'[n] = uploads[n]
               /\ uploads'[file.n].resized <=> uploads[file.n].resized
    <3>1. [uploads[file.n] EXCEPT !.image = f].resized = uploads[file.n].resized
      BY <1>0 DEF UploadType
    <3>2. uploads'[file.n] = [uploads[file.n] EXCEPT !.image = f]
      BY <1>0, <2>2
    <3>3. \A n \in Keys : n # file.n => uploads'[n] = uploads[n]
      BY <1>0, <2>2
    <3> QED
      BY <3>1, <3>2, <3>3
  <2> QED
    BY <2>1, <2>2
<1>4. Kept
  BY <1>1, <1>2, <1>3 DEF Kept, Settled, Event
<1>5. scan # "scanned" /\ (scan = "done" => Refused) /\ (Refused => Refused')
  BY <1>1 DEF WholeOK, ScanOrder, Refused
<1>6. ScanOrder'
  BY <1>1, <1>5 DEF WholeOK, ScanOrder, Refused
<1>7. Assembled'
  <2>1. SUFFICES ASSUME ~uploads[file.n].resized
                 PROVE  /\ asm'.exp = Len(stream') /\ Fits(asm') /\ Vacant(asm')
                        /\ Cardinality(Cells(asm'.pending)) <= asm'.bytes
                        /\ Refused' \/ ~Tidy(asm') \/ Matches(asm)'
    BY <1>1, <1>3 DEF Assembled
  <2>2. /\ asm.exp = Len(stream) /\ Fits(asm) /\ Vacant(asm)
        /\ Cardinality(Cells(asm.pending)) <= asm.bytes
        /\ Refused \/ ~Tidy(asm) \/ Matches(asm)
    BY <1>2, <2>1 DEF WholeOK, Assembled
  <2>3. CASE FlushFails
    <3>1. asm' = Dropped(asm) /\ Contiguous(asm) /\ Refused
      BY <1>5, <2>3 DEF FlushFails, PipeBroken
    <3>2. asm'.exp = asm.exp
      BY <1>0, <3>1, DroppedFields
    <3> QED
      BY <1>0, <1>1, <1>5, <2>2, <3>1, <3>2, FitsDropped, VacantDropped, CountDropped
  <2>4. CASE FlushEnds \/ CloseUpload
    <3>1. UNCHANGED asm
      BY <2>4 DEF FlushEnds, CloseUpload
    <3>2. \A o \in Offsets : Wrote(o)' = Wrote(o)
      <4>1. CASE FlushEnds
        <5> DEFINE image == [o \in Offsets |->
                     IF o \in chunk.off..(chunk.off + Len(chunk.data) - 1)
                     THEN chunk.data[o - chunk.off + 1] ELSE uploads[file.n].image[o]]
        <5>1. uploads' = [uploads EXCEPT ![file.n] = [uploads[file.n] EXCEPT !.image = image]]
          BY <1>0, <4>1 DEF FlushEnds, UploadType
        <5>2. \A o \in Offsets : Wrote(o) = image[o]
          BY <4>1 DEF FlushEnds, Wrote
        <5> HIDE DEF image
        <5>3. uploads'[file.n].image = image
          <6>1. [uploads[file.n] EXCEPT !.image = image].image = image
            BY <1>0 DEF UploadType
          <6> QED
            BY <1>0, <5>1, <6>1
        <5> QED
          BY <1>1, <5>2, <5>3 DEF Wrote
      <4>2. CASE CloseUpload
        BY <1>1, <4>2 DEF CloseUpload, Wrote, history
      <4> QED
        BY <2>4, <4>1, <4>2
    <3>3. Matches(asm) => Matches(asm)'
      BY <1>1, <3>1, <3>2 DEF Matches
    <3> QED
      BY <1>1, <1>5, <2>2, <3>1, <3>3
  <2> QED
    BY <2>3, <2>4
<1> QED
  BY <1>4, <1>6, <1>7, KeptKeeps DEF WholeOK

(* The gate's steps judge what has been piped, and change none of it. *)
LEMMA GateKeepsWhole ==
    ASSUME TypeOK, CloseOK, WholeOK, GateStep
    PROVE  WholeOK'
<1>0. file.n \in Keys /\ stream \in Seq(Bytes) /\ quarantine \in [Keys -> Seq(Bytes) \cup {None}]
  BY DEF TypeOK, MovingOK, FileType, WholeOK, ScanOrder
<1>1. /\ UNCHANGED <<trail, uploads, file, pc, chunk, asm, stream>>
      /\ scan # "idle" /\ scan # "done"
      /\ failed => failed'
      /\ scan' = "scanned" => pc = "closing"
  BY DEF GateStep, Classify, HoldingFails, Scan, StoreFails, Store, transfer, history
<1>2. Receiving /\ (Receiving' <=> Receiving)
  BY <1>1 DEF CloseOK, GateCleared, Receiving
<1>3. \/ UNCHANGED quarantine /\ (scan' = "done" => Refused')
      \/ Store(file.n)
  <2>1. CASE Classify(IF pc = "flushing" THEN NextChunk(asm) ELSE << >>)
    <3>1. UNCHANGED quarantine /\ (scan' = "done" => decision' = Refusal("error", None))
      BY <2>1 DEF Classify
    <3>2. ~Refusal("error", None).allow
      BY DEF Refusal
    <3> QED
      BY <3>1, <3>2 DEF Refused
  <2>2. CASE HoldingFails \/ StoreFails
    BY <2>2 DEF HoldingFails, StoreFails, Refused
  <2>3. CASE Scan(file.n)
    BY <2>3 DEF Scan
  <2> QED
    BY <2>1, <2>2, <2>3 DEF GateStep
<1>4. ASSUME Store(file.n)
      PROVE  /\ pc = "closing" /\ quarantine' = [quarantine EXCEPT ![file.n] = stream]
             /\ scan' = "done"
  BY <1>4 DEF Store, WholeOK, ScanOrder
<1>5. /\ quarantine' \in [Keys -> Seq(Bytes) \cup {None}]
      /\ \A n \in Keys : n # file.n => quarantine'[n] = quarantine[n]
  BY <1>0, <1>3, <1>4
<1>6. ScanOrder'
  <2>1. CASE Store(file.n)
    <3>1. quarantine'[file.n] = stream
      BY <1>0, <1>4, <2>1
    <3> QED
      BY <1>1, <1>4, <1>5, <2>1, <3>1 DEF ScanOrder
  <2>2. CASE ~Store(file.n)
    BY <1>1, <1>3, <1>5, <2>2 DEF ScanOrder
  <2> QED
    BY <2>1, <2>2
<1>7. Kept
  BY <1>1, <1>2, <1>5 DEF Kept, Settled, Event
<1>8. Assembled'
  <2>1. Refused => Refused'
    BY <1>1 DEF Refused
  <2>2. Matches(asm) => Matches(asm)'
    BY <1>1 DEF Matches, Wrote
  <2> QED
    BY <1>1, <1>2, <2>1, <2>2 DEF WholeOK, Assembled
<1> QED
  BY <1>6, <1>7, <1>8, KeptKeeps DEF WholeOK

(* The verdict: nothing waits, so all that was written was inspected. *)
LEMMA AcceptKeepsWhole ==
    ASSUME TypeOK, CloseOK, CloseOK', WholeOK, CloseInspected, Accepted
    PROVE  WholeOK'
<1>0. /\ file.n \in Keys /\ "accepted" \in Words /\ asm \in AsmType /\ stream \in Seq(Bytes)
      /\ Files \subseteq Keys /\ \A n \in Keys : n \in Nat
  BY KeysAreNaturals DEF TypeOK, MovingOK, FileType, Words, Files
<1>1. /\ UNCHANGED <<uploads, quarantine, file>> /\ Emit(file.n, "accepted")
      /\ file.kind = "upload" /\ pc = "closing" /\ pc' = "asking" /\ scan = "done"
      /\ ~(asm.bytes > 0) /\ ~failed /\ decision.allow
  BY DEF CloseInspected, Accepted, Gapped, Freed
<1>2. Receiving /\ ~Receiving'
  BY <1>1 DEF Receiving
<1>3. ~Refused /\ quarantine[file.n] = stream
  BY <1>1 DEF WholeOK, ScanOrder, Refused
<1>4. ASSUME ~uploads[file.n].resized PROVE Holds(uploads[file.n].image, stream)
  <2>1. /\ asm.exp = Len(stream) /\ Fits(asm) /\ Vacant(asm)
        /\ Cardinality(Cells(asm.pending)) <= asm.bytes
        /\ Refused \/ ~Tidy(asm) \/ Matches(asm)
    BY <1>2, <1>4 DEF WholeOK, Assembled
  <2>2. Cardinality(Cells(asm.pending)) <= 0
    <3>1. asm.bytes \in Int /\ Cardinality(Cells(asm.pending)) \in Nat
      BY <1>0, CellsFinite DEF AsmType
    <3> QED
      BY <1>1, <2>1, <3>1
  <2>3. \A q \in Offsets : asm.pending[q] = << >>
    BY <1>0, <2>1, <2>2, CellsNone
  <2>4. \A q, o \in Offsets : ~Covers(asm.pending, q, o)
    <3>1. \A q \in Offsets : q \in Nat
      BY ReassemblyAssumption DEF Offsets
    <3> QED
      BY <2>3, <3>1 DEF Covers
  <2>5. Tidy(asm)
    BY <2>3, <2>4 DEF Tidy
  <2>6. Matches(asm)
    BY <1>3, <2>1, <2>5
  <2>7. \A o \in Offsets : o \in Nat /\ Wrote(o) = uploads[file.n].image[o]
    BY <1>1, ReassemblyAssumption DEF Wrote, Offsets
  <2>8. ASSUME NEW o \in Offsets
        PROVE  uploads[file.n].image[o] = IF o < Len(stream) THEN stream[o + 1] ELSE None
    BY <1>0, <2>1, <2>4, <2>6, <2>7 DEF Matches
  <2> QED
    BY <2>8 DEF Holds
<1>5. AcceptedIsWhole'
  <2>1. SUFFICES ASSUME NEW n \in Files, Event(n, "accepted")', ~uploads[n].resized
                 PROVE  Holds(uploads[n].image, quarantine[n])
    BY <1>1 DEF AcceptedIsWhole, Holds
  <2>2. CASE n = file.n
    BY <1>3, <1>4, <2>1, <2>2
  <2>3. CASE n # file.n
    <3>1. Event(n, "accepted")
      BY <1>0, <1>1, <2>1, <2>3, EventOnly DEF TypeOK
    <3> QED
      BY <2>1, <3>1 DEF WholeOK, AcceptedIsWhole
  <2> QED
    BY <2>2, <2>3
<1>6. Unjudged'
  <2>1. ASSUME NEW n \in Keys, n > file.n PROVE uploads[n].image = NoBytes /\ ~Event(n, "accepted")'
    <3>1. uploads[n].image = NoBytes /\ ~Event(n, "accepted") /\ n # file.n
      BY <1>0, <2>1 DEF WholeOK, Unjudged
    <3>2. ASSUME Event(n, "accepted")' PROVE FALSE
      BY <1>0, <1>1, <3>1, <3>2, EventOnly DEF TypeOK
    <3> QED
      BY <3>1, <3>2
  <2> QED
    BY <1>1, <1>2, <2>1 DEF Unjudged
<1>7. ScanOrder' /\ Assembled'
  BY <1>1, <1>2, NothingReceived DEF WholeOK, ScanOrder
<1>8. InStore'
  <2>1. SUFFICES ASSUME NEW n \in Keys, Event(n, "accepted")', n # file.n PROVE quarantine[n] \in Seq(Bytes)
    BY <1>0, <1>1, <1>3 DEF InStore
  <2>2. Event(n, "accepted")
    BY <1>0, <1>1, <2>1, EventOnly DEF TypeOK
  <2> QED
    BY <2>2 DEF WholeOK, InStore
<1> QED
  BY <1>5, <1>6, <1>7, <1>8 DEF WholeOK

LEMMA WholeStep ==
    ASSUME IInv, CloseOK', [Next]_vars
    PROVE  WholeOK'
<1>0. TypeOK /\ CloseOK /\ TapOK /\ WholeOK /\ 0 \in 0..Size
  BY ReassemblyAssumption DEF IInv
<1>1. CASE Upload
  BY <1>0, <1>1, OpenKeepsWhole, WriteKeepsWhole, FlushKeepsWhole, FlushEndsKeepsWhole,
     AcceptKeepsWhole, OutsideKeepsWhole DEF Upload
<1>2. CASE Download \/ Direct
  BY <1>0, <1>2, OpenKeepsWhole, OutsideKeepsWhole DEF Download, Direct
<1>3. CASE GateStep \/ Others \/ UNCHANGED vars
  BY <1>0, <1>3, GateKeepsWhole, OutsideKeepsWhole, OthersKeepWhole DEF Others
<1> QED
  BY <1>1, <1>2, <1>3 DEF Next

-----------------------------------------------------------------------------
LEMMA InitEstablishes == Init => IInv
<1> SUFFICES ASSUME Init PROVE IInv
  OBVIOUS
<1>1. TypeOK
  BY InitTypes
<1>2. PICK u \in Earlier :
          /\ releaseFile = IF u = None THEN {} ELSE {Release(0, u, 0)}
          /\ releases = releaseFile
          /\ uploads = [n \in Keys |->
                 IF n > 0 \/ u = None THEN NoUpload
                 ELSE [NoUpload EXCEPT !.user = u, !.told = "ok", !.until = ReleaseTTL]]
  BY DEF Init
<1>3. 0 \in Keys /\ ReleaseTTL \in Nat /\ now = 0 /\ file.n = 0 /\ pc = "idle" /\ file.kind = "none"
  BY KeysAreNaturals, ReleaseAssumption DEF Init, NoFile
<1>4. NoUpload.told # "ok" \/ NoUpload.until = 0
  BY DEF NoUpload
<1>5. ASSUME u # None PROVE uploads[0].user = u /\ uploads[0].told = "ok" /\ uploads[0].until = ReleaseTTL
  <2> DEFINE a == [NoUpload EXCEPT !.user = u]
             b == [a EXCEPT !.told = "ok"]
             c == [b EXCEPT !.until = ReleaseTTL]
  <2>1. uploads[0] = c
    BY <1>2, <1>3, <1>5
  <2>2. DOMAIN NoUpload = {"user", "image", "resized", "told", "until"}
    BY DEF NoUpload
  <2>3. a.user = u /\ DOMAIN a = {"user", "image", "resized", "told", "until"}
    BY <2>2
  <2> HIDE DEF a
  <2>4. b.user = u /\ b.told = "ok" /\ DOMAIN b = {"user", "image", "resized", "told", "until"}
    BY <2>3
  <2> HIDE DEF b
  <2>5. c.user = u /\ c.told = "ok" /\ c.until = ReleaseTTL
    BY <2>4
  <2> QED
    BY <2>1, <2>5
<1>6. \A n \in Keys : n > 0 \/ u = None => uploads[n].until = 0
  BY <1>2 DEF NoUpload
<1>7. Shelf = IF u = None THEN {} ELSE {Release(0, u, 0)}
  BY <1>2 DEF Shelf
<1>8. Release(0, u, 0).id = 0 /\ Release(0, u, 0).user = u /\ Release(0, u, 0).expires = ReleaseTTL
  BY <1>3 DEF Release
<1>9. ReleasesKnown /\ StoresAgree /\ PromisesKept
  <2>1. ReleasesKnown
    BY <1>3, <1>6, <1>7, <1>8 DEF ReleasesKnown
  <2>2. StoresAgree
    BY <1>2 DEF StoresAgree, Shelf
  <2>3. ASSUME NEW n \in Keys, now < uploads[n].until PROVE n = 0 /\ u # None
    BY <1>3, <1>6, <2>3, KeysAreNaturals
  <2>4. PromisesKept
    BY <1>2, <1>5, <1>8, <2>3 DEF PromisesKept
  <2> QED
    BY <2>1, <2>2, <2>4
<1>10. ReleasesEarned
  <2>1. SUFFICES ASSUME u # None PROVE Earned(0, u)
    BY <1>7, <1>8 DEF ReleasesEarned
  <2>2. 0 \in cleared /\ approval[0].status = "approved"
    BY <1>3 DEF Init
  <2>3. trail[0] = <<"accepted", "requested", "granted", "released">>
    BY <1>3 DEF Init
  <2>4. Event(0, "accepted") /\ Event(0, "granted")
    <3>1. 1 \in DOMAIN trail[0] /\ 3 \in DOMAIN trail[0] /\ trail[0][1] = "accepted" /\ trail[0][3] = "granted"
      BY <2>3
    <3> QED
      BY <3>1 DEF Event
  <2> QED
    BY <1>5, <2>1, <2>2, <2>4 DEF Earned
<1>11. CloseOK
  <2>1. scan = "idle" /\ ~decision.allow
    BY DEF Init, GateInit, NoDecision, Refusal
  <2> QED
    BY <1>3, <2>1 DEF CloseOK, ClosingSteps, GateCleared, Settling
<1>12. TapOK
  BY <1>3 DEF Init, GateInit, TapOK, Clean, Observed, ManifestIsObserved
<1>13. \A n \in Files : ~Event(n, "accepted")
  <2>1. SUFFICES ASSUME NEW n \in Files PROVE trail[n] = << >>
    BY DEF Event
  <2> QED
    BY KeysAreNaturals DEF Init, Files
<1>14. Unjudged
  <2>1. ASSUME NEW n \in Keys, n > 0 PROVE n \in Files /\ uploads[n].image = NoBytes
    BY <1>2, <2>1, KeysAreNaturals DEF Files, NoUpload
  <2> QED
    BY <1>3, <1>13, <2>1 DEF Unjudged, Receiving
<1>15. ScanOrder
  <2>1. scan = "idle" /\ quarantine \in [Keys -> Seq(Bytes) \cup {None}]
    BY DEF Init, GateInit
  <2> QED
    BY <2>1 DEF ScanOrder
<1>16. InStore
  <2>1. quarantine[0] = << >> /\ \A n \in Keys : n # 0 => n \in Files
    BY <1>3, KeysAreNaturals DEF Init, Files
  <2> QED
    BY <1>13, <2>1, EmptySeq DEF InStore
<1>17. WholeOK
  BY <1>3, <1>13, <1>14, <1>15, <1>16 DEF WholeOK, Assembled, Receiving, AcceptedIsWhole
<1> QED
  BY <1>1, <1>9, <1>10, <1>11, <1>12, <1>17 DEF IInv, ShelfOK

LEMMA StepPreserves == IInv /\ [Next]_vars => IInv'
<1> SUFFICES ASSUME IInv, [Next]_vars PROVE IInv'
  OBVIOUS
<1>1. TypeOK' /\ ShelfOK' /\ CloseOK'
  BY TypeStep, ShelfStep, CloseStep DEF IInv, CloseOK
<1>2. TapOK'
  BY <1>1, UploadKeepsTap, OthersKeepTap, DownloadKeepsTap DEF IInv, Next
<1>3. WholeOK'
  BY <1>1, WholeStep
<1> QED
  BY <1>1, <1>2, <1>3 DEF IInv

(* What the invariant says to a reader of /releases and to an uploader. *)
LEMMA ShelfIsEarned == IInv => ServedIsEarned /\ ReleasedIsReadable
<1> SUFFICES ASSUME IInv PROVE ServedIsEarned /\ ReleasedIsReadable
  OBVIOUS
<1>1. ServedIsEarned
  <2>1. SUFFICES ASSUME NEW u \in Users, NEW n \in Readable(u) PROVE Earned(n, u)
    BY DEF ServedIsEarned, Earned
  <2>2. PICK r \in ListFor(u) : r.id = n
    BY DEF Readable
  <2> QED
    BY <2>2 DEF ListFor, Shelf, IInv, ShelfOK, ReleasesEarned
<1>2. ReleasedIsReadable
  <2>1. SUFFICES ASSUME NEW n \in Keys, uploads[n].told = "ok", now < uploads[n].until
                 PROVE  /\ \E r \in ListFor(uploads[n].user) : r.id = n
                        /\ config.gate /\ config.releases =>
                              (n \in Readable(uploads[n].user) <=> Len(quarantine[n]) <= ReadLimit)
    BY DEF ReleasedIsReadable
  <2>2. PICK r \in releaseFile : r.id = n /\ r.user = uploads[n].user /\ r.expires = uploads[n].until
    BY <2>1 DEF IInv, ShelfOK, PromisesKept, Promised
  <2>3. r \in releases
    BY <2>1, <2>2 DEF IInv, ShelfOK, StoresAgree, Shelf
  <2>4. r \in ListFor(uploads[n].user)
    BY <2>1, <2>2, <2>3 DEF ListFor
  <2>5. quarantine[n] # None
    <3>1. Earned(n, uploads[n].user)
      BY <2>2, <2>3 DEF IInv, ShelfOK, ReleasesEarned, Shelf
    <3>2. quarantine[n] \in Seq(Bytes)
      BY <3>1 DEF IInv, WholeOK, InStore, Earned
    <3> QED
      BY <3>2, TransferAssumption
  <2> QED
    BY <2>2, <2>4, <2>5 DEF Readable
<1> QED
  BY <1>1, <1>2

(* The inductive invariant holds in every state of the gateway's transfers. *)
THEOREM Invariance == Spec => []IInv
  BY InitEstablishes, StepPreserves, PTL DEF Spec

(* The open file, its reassembly, the reads in flight and everything that      *)
(* survives a crash keep their types (sftp.go, inspectgate, release).         *)
THEOREM TypeCorrect == Spec => []TypeOK
  BY Invariance, PTL DEF IInv

(* Whatever readRelease serves to a user is that user's own upload, cleared by *)
(* the inspector and released by a decision, with both on the record.         *)
THEOREM ReleasesAreEarned == Spec => []ServedIsEarned
  BY Invariance, ShelfIsEarned, PTL

(* What an uploader was told is released stays listed for it until it expires, *)
(* and where /releases is served readRelease serves it, unless it is longer    *)
(* than maxReleaseReadBytes: FileStore's map and file agree on every release   *)
(* that has not expired, whatever creations fail and however often the gateway *)
(* restarts, and what was accepted is in quarantine.                          *)
THEOREM ReleasesAreReadable == Spec => []ReleasedIsReadable
  BY Invariance, ShelfIsEarned, PTL

(* downloadTap's manifest covers only what ReadAt returned, at the offsets it  *)
(* returned it for, for any reordering and repetition of the reads.           *)
THEOREM ManifestsAreObserved == Spec => []ManifestIsObserved
  BY Invariance, PTL DEF IInv, TapOK

(* An upload doClose accepts, and later offers to be picked up, was inspected   *)
(* whole: in quarantine is exactly what its client wrote, every acknowledged   *)
(* chunk at its offset, for any order, size (none included) and repetition of *)
(* the chunks, as long as no waiting chunk is replaced by one of another       *)
(* length: there sftp.go:794 lets Close accept a gap.                         *)
THEOREM AcceptedAreWhole == Spec => []AcceptedIsWhole
  BY Invariance, PTL DEF IInv, WholeOK
=============================================================================
