-------------------------------- MODULE Transfer -------------------------------
(***************************************************************************)
(* File transfers through the gateway (internal/session/sftp.go, scp.go):   *)
(* uploads are reassembled, inspected (InspectGate), quarantined, held for  *)
(* a release decision and then offered to their uploader under /releases    *)
(* (ReleaseStore); downloads are read from the target past a tap.           *)
(*                                                                          *)
(* Clients open one file after the other; what is concurrent is the writes  *)
(* and reads of the open file, the gate's goroutine, the approver, readers  *)
(* of /releases, the client that disappears, the clock and a crash of the   *)
(* gateway.  The approval store is the one FourEyes specifies.              *)
(***************************************************************************)
EXTENDS Reassembly, InspectGate, ReleaseStore, FiniteSets

CONSTANTS Users,
          Clients,       \* the users whose transfers are followed
          Earlier,       \* whose release an earlier run has left, None for no release
          Configs,       \* what the deployment wires up
          Kinds,         \* "upload", "download"
          Protocols,     \* "sftp", "scp"
          ApprovalTTL,
          ReadLimit,     \* maxReleaseReadBytes
          MaxTime, MaxFiles, MaxWrites, MaxReads, MaxCrashes   \* bounds

Files == 1..MaxFiles

ASSUME TransferAssumption ==
    /\ Keys = 0..MaxFiles
    /\ None \notin Seq(Bytes)
    /\ {ApprovalTTL, ReadLimit, MaxTime, MaxFiles, MaxWrites, MaxReads, MaxCrashes} \subseteq Nat

VARIABLES file,       \* the open file: its number, direction, protocol, owner, size
          pc,         \* its step
          asm,        \* the reassembly of its chunks
          chunk,      \* the chunk being written or observed, and its offset
          reading,    \* chunks read from the target and not observed yet
          chunks,     \* how many chunks were written or read
          connected,  \* is the client's connection up?
          approval,   \* release requests: status and expiry
          trail,      \* the evidence of each file
          uploads,    \* history: what each upload's client wrote and was told
          seen,       \* history: what ReadAt has returned of a download
          manifest,   \* what the download's record covers
          target,     \* the file on the target
          crashes

gate     == <<scan, stream, verdict, cleared, quarantine, decision, failed>>
store    == <<now, releases, releaseFile>>
transfer == <<file, pc, asm, chunk, reading, chunks>>
history  == <<uploads, seen, manifest>>
vars     == <<config, gate, store, transfer, connected, approval, trail, target,
              history, crashes>>

NoBytes == [o \in Offsets |-> None]
Sparse  == [Offsets -> Bytes \union {None}]
NoFile  == [n |-> 0, kind |-> "none", proto |-> "sftp", user |-> None, size |-> 0,
            broken |-> FALSE]
NoUpload == [user |-> None, image |-> NoBytes, resized |-> FALSE, told |-> None, until |-> 0]
Original == [o \in Offsets |-> CHOOSE b \in Bytes : TRUE]
NoChunk == [off |-> 0, data |-> << >>]

(* An earlier run of the gateway may have left a release, numbered 0. *)
Init ==
    /\ config \in Configs
    /\ GateInit
    /\ now = 0
    /\ \E u \in Earlier :
           /\ releaseFile = IF u = None THEN {} ELSE {Release(0, u, 0)}
           /\ releases = releaseFile
           /\ uploads = [n \in Keys |->
                  IF n > 0 \/ u = None THEN NoUpload
                  ELSE [NoUpload EXCEPT !.user = u, !.told = "ok", !.until = ReleaseTTL]]
    /\ cleared = {0}
    /\ quarantine = [n \in Keys |-> IF n = 0 THEN << >> ELSE None]
    /\ file = NoFile /\ pc = "idle" /\ asm = Empty /\ chunk = NoChunk
    /\ reading = {} /\ chunks = 0
    /\ connected = FALSE
    /\ approval = [n \in Keys |->
           [status |-> IF n = 0 THEN "approved" ELSE "none", deadline |-> 0]]
    /\ trail = [n \in Keys |-> IF n = 0 THEN <<"accepted", "requested", "granted", "released">>
                               ELSE << >>]
    /\ seen = {} /\ manifest = << >>
    /\ target = Original
    /\ crashes = 0

Emit(n, event) == trail' = [trail EXCEPT ![n] = Append(@, event)]

(* What the client of the upload is told, by the status of its close. *)
Tell(answer) == uploads' = [uploads EXCEPT ![file.n].told = answer]

(* The handle, its gate and its reassembly are gone. *)
Freed ==
    /\ scan' = "idle" /\ stream' = << >> /\ verdict' = None
    /\ decision' = NoDecision /\ failed' = FALSE
    /\ asm' = Empty /\ chunk' = NoChunk /\ reading' = {} /\ chunks' = 0
    /\ UNCHANGED <<cleared, quarantine>>

-----------------------------------------------------------------------------
(* Opening. *)

Opened(kind, proto, u, size) ==
    /\ pc = "idle" /\ file.n < MaxFiles
    /\ pc' = "open" /\ connected' = TRUE /\ chunks' = 0
    /\ file' = [n |-> file.n + 1, kind |-> kind, proto |-> proto, user |-> u,
                size |-> size, broken |-> FALSE]

(* Filewrite with a gate: a handle over a fresh inspectUpload.  The gate's   *)
(* goroutine starts with the first write, or with Close.                     *)
OpenUpload(u, proto, size) ==
    /\ config.gate
    /\ Opened("upload", proto, u, size)
    /\ scan' = "head"
    /\ uploads' = [uploads EXCEPT ![file.n + 1].user = u]
    /\ UNCHANGED <<config, stream, verdict, cleared, quarantine, decision, failed, store, asm,
                   chunk, reading, approval, trail, seen, manifest, target, crashes>>

(* Without a gate the upload goes straight to the target, and no record is   *)
(* made of it.                                                               *)
OpenDirect(u, proto) ==
    /\ ~ config.gate
    /\ Opened("direct", proto, u, 0)
    /\ target' = NoBytes
    /\ UNCHANGED <<config, gate, store, asm, chunk, reading, approval, trail, history,
                   crashes>>

(* Fileread of a file on the target. *)
OpenDownload(u, proto) ==
    /\ Opened("download", proto, u, 0)
    /\ seen' = {} /\ manifest' = << >>
    /\ UNCHANGED <<config, gate, store, asm, chunk, reading, approval, trail, uploads,
                   target, crashes>>

-----------------------------------------------------------------------------
(* WriteAt.  pkg/sftp calls it from several workers, in any order and with   *)
(* empty data too; the mutex makes one of them wait for the other            *)
(* ("flushing").  scp writes in order, and something.                        *)

Chunks == UNION {[1..l -> Bytes] : l \in Lengths}

(* The chunks a client may write: scp sends its declared size, in order. *)
MayWrite(off, data) ==
    /\ pc = "open" /\ connected /\ chunks < MaxWrites
    /\ off + Len(data) <= Size
    /\ file.proto = "scp" => off = asm.exp /\ data # << >> /\ off + Len(data) <= file.size

(* The client gets an error.  An sftp client may go on; scpUpload gives up,   *)
(* which closes the handle like any other.                                   *)
WriteFails ==
    IF file.proto = "scp" THEN pc' = "closing" /\ file' = [file EXCEPT !.broken = TRUE]
    ELSE pc' = "open" /\ UNCHANGED file

WriteRefused(off, data) ==
    /\ file.kind = "upload" /\ MayWrite(off, data)
    /\ chunks' = chunks + 1
    /\ \/ off < asm.exp /\ UNCHANGED asm
       \/ /\ off >= asm.exp /\ Overflows(asm, off, data)
          /\ asm' = Counted(asm, off, data)
    /\ WriteFails
    /\ UNCHANGED <<config, gate, store, chunk, reading, connected, approval,
                   trail, target, history, crashes>>

WriteAt(off, data) ==
    /\ file.kind = "upload" /\ MayWrite(off, data)
    /\ chunks' = chunks + 1
    /\ off >= asm.exp /\ ~ Overflows(asm, off, data)
    /\ asm' = Stored(asm, off, data)
    /\ chunk' = [off |-> off, data |-> data]
    /\ pc' = "flushing"
    /\ uploads' = [uploads EXCEPT ![file.n].resized =
                      @ \/ (off \in asm.at /\ Len(asm.pending[off]) # Len(data))]
    /\ UNCHANGED <<config, gate, store, file, reading, connected, approval, trail,
                   target, seen, manifest, crashes>>

(* One turn of the loop: a chunk goes into the pipe. *)
Flush ==
    /\ file.kind = "upload" /\ pc = "flushing"
    /\ Contiguous(asm) /\ Takes(NextChunk(asm))
    /\ stream' = stream \o NextChunk(asm)
    /\ asm' = HandedOn(asm)
    /\ UNCHANGED <<config, scan, verdict, cleared, quarantine, decision, failed, store,
                   file, pc, chunk, reading, chunks, connected, approval, trail, target,
                   history, crashes>>

(* The gate has ended and closed the pipe. *)
FlushFails ==
    /\ file.kind = "upload" /\ pc = "flushing"
    /\ Contiguous(asm) /\ PipeBroken
    /\ asm' = Dropped(asm)
    /\ WriteFails
    /\ UNCHANGED <<config, gate, store, chunk, reading, chunks, connected,
                   approval, trail, target, history, crashes>>

(* The loop ends and the write is acknowledged. *)
FlushEnds ==
    /\ file.kind = "upload" /\ pc = "flushing" /\ ~ Contiguous(asm)
    /\ pc' = "open"
    /\ uploads' = [uploads EXCEPT ![file.n].image =
           [o \in Offsets |->
               IF o \in chunk.off..(chunk.off + Len(chunk.data) - 1)
               THEN chunk.data[o - chunk.off + 1] ELSE @[o]]]
    /\ chunk' = NoChunk
    /\ UNCHANGED <<config, gate, store, file, asm, reading, chunks, connected,
                   approval, trail, target, seen, manifest, crashes>>

(* A write past the gate: the target's file itself. *)
WriteDirect(off, data) ==
    /\ file.kind = "direct" /\ pc = "open" /\ connected /\ chunks < MaxWrites
    /\ off + Len(data) <= Size
    /\ chunks' = chunks + 1
    /\ target' = [o \in Offsets |->
           IF o \in off..(off + Len(data) - 1) THEN data[o - off + 1] ELSE target[o]]
    /\ UNCHANGED <<config, gate, store, file, pc, asm, chunk, reading, connected,
                   approval, trail, history, crashes>>

-----------------------------------------------------------------------------
(* The gate's goroutine. *)

GateStep ==
    /\ file.kind = "upload"
    /\ \/ Classify(IF pc = "flushing" THEN NextChunk(asm) ELSE << >>)
       \/ HoldingFails
       \/ pc = "closing" /\ Scan(file.n)
       \/ StoreFails
       \/ Store(file.n)
    /\ UNCHANGED <<store, transfer, connected, approval, trail, target, history, crashes>>

-----------------------------------------------------------------------------
(* Close of an upload: doClose, step by step.  A client that is gone has its *)
(* handles closed for it.                                                    *)

CloseUpload ==
    /\ file.kind = "upload" /\ pc = "open"
    /\ pc' = "closing"
    /\ IF file.proto = "sftp" THEN UNCHANGED file
       ELSE \/ asm.exp = file.size /\ connected /\ UNCHANGED file
            \/ file' = [file EXCEPT !.broken = TRUE]   \* short body, no trailer
    /\ UNCHANGED <<config, gate, store, asm, chunk, reading, chunks, connected,
                   approval, trail, target, history, crashes>>

(* mutant: a gap is noticed only if nothing could be inspected. *)
GappedEmpty == asm.bytes > 0 /\ stream = << >>

(* Bytes past a gap were never presented to the inspector. *)
Gapped == asm.bytes > 0

Accepted == ~ Gapped /\ ~ failed /\ decision.allow

(* iu.Close returns and the verdict is recorded, whatever it is. *)
CloseInspected ==
    /\ file.kind = "upload" /\ pc = "closing" /\ scan = "done"
    /\ Emit(file.n, IF Accepted THEN "accepted" ELSE "rejected")
    /\ IF Accepted THEN pc' = "asking" /\ UNCHANGED uploads
       ELSE pc' = "idle" /\ Tell("error")
    /\ Freed
    /\ UNCHANGED <<config, store, file, connected, approval, target, seen, manifest,
                   crashes>>

(* No approval store, or it cannot record the request. *)
RequestFails ==
    /\ pc = "asking"
    /\ pc' = "idle" /\ Tell("error")
    /\ UNCHANGED <<config, gate, store, file, asm, chunk, reading, chunks, connected,
                   approval, trail, target, seen, manifest, crashes>>

RequestRelease ==
    /\ pc = "asking" /\ config.approvals
    /\ approval' = [approval EXCEPT ![file.n] =
                       [status |-> "pending", deadline |-> now + ApprovalTTL]]
    /\ Emit(file.n, "requested")
    /\ pc' = "waiting"
    /\ UNCHANGED <<config, gate, store, file, asm, chunk, reading, chunks, connected,
                   target, history, crashes>>

WaitApproved ==
    /\ pc = "waiting" /\ approval[file.n].status = "approved"
    /\ Emit(file.n, "granted")
    /\ pc' = "granted"
    /\ UNCHANGED <<config, gate, store, file, asm, chunk, reading, chunks, connected,
                   approval, target, history, crashes>>

(* mutant: the wait is not bound to the connection nor to the expiry. *)
WaitRefusedOnlyDenied ==
    /\ pc = "waiting" /\ approval[file.n].status = "denied"
    /\ Emit(file.n, "refused")
    /\ pc' = "idle" /\ Tell("error")
    /\ UNCHANGED <<config, gate, store, file, asm, chunk, reading, chunks, connected,
                   approval, target, seen, manifest, crashes>>

(* Denied, expired, or the connection went away: the wait ends unapproved. *)
WaitRefused ==
    /\ pc = "waiting"
    /\ \/ approval[file.n].status = "denied"
       \/ approval[file.n].status = "pending" /\ now > approval[file.n].deadline
       \/ ~ connected
    /\ Emit(file.n, "refused")
    /\ pc' = "idle" /\ Tell("error")
    /\ UNCHANGED <<config, gate, store, file, asm, chunk, reading, chunks, connected,
                   approval, target, seen, manifest, crashes>>

(* No release store, or its file cannot be written: nothing is released and, *)
(* after "granted", nothing more is recorded.                                *)
RecordFails ==
    /\ pc = "granted"
    /\ pc' = "idle" /\ Tell("error")
    /\ IF config.releases THEN CreateReleaseFails(Release(file.n, file.user, now))
       ELSE UNCHANGED store
    /\ UNCHANGED <<config, gate, file, asm, chunk, reading, chunks, connected,
                   approval, trail, target, seen, manifest, crashes>>

RecordRelease ==
    /\ pc = "granted" /\ config.releases
    /\ CreateRelease(Release(file.n, file.user, now))
    /\ pc' = "recorded"
    /\ uploads' = [uploads EXCEPT ![file.n].until = now + ReleaseTTL]
    /\ UNCHANGED <<config, gate, file, asm, chunk, reading, chunks, connected, approval,
                   trail, target, seen, manifest, crashes>>

(* The client is told, if scp has not already given up on the body. *)
Released ==
    /\ pc = "recorded"
    /\ Emit(file.n, "released")
    /\ pc' = "idle"
    /\ Tell(IF file.broken \/ ~ connected THEN "error" ELSE "ok")
    /\ UNCHANGED <<config, gate, store, file, asm, chunk, reading, chunks, connected,
                   approval, target, seen, manifest, crashes>>

-----------------------------------------------------------------------------
(* Downloads.  Workers read the target concurrently, each then passes what   *)
(* it got to observe; the client may read any part, more than once.          *)

(* ReadAt of l bytes at off returns k: the file may end before. *)
ReadAt(off, l, k) ==
    /\ off + k <= Size /\ \A i \in 1..k : target[off + i - 1] # None
    /\ k < l /\ off + k < Size => target[off + k] = None

ReadTarget(off, l) ==
    /\ file.kind = "download" /\ pc \in {"open", "flushing"} /\ connected
    /\ chunks < MaxReads
    /\ file.proto = "scp" => reading = {} /\ pc = "open" /\ off = Cardinality(seen)
    /\ \E k \in 1..l :
          LET data == [i \in 1..k |-> target[off + i - 1]]
          IN  /\ ReadAt(off, l, k)
              /\ reading' = reading \union {[off |-> off, data |-> data, i |-> chunks]}
              /\ seen' = seen \union {<<off + i - 1, data[i]>> : i \in 1..k}
    /\ chunks' = chunks + 1
    /\ UNCHANGED <<config, gate, store, file, pc, asm, chunk, connected, approval,
                   trail, uploads, manifest, target, crashes>>

(* mutant: chunks are hashed as they pass, in whatever order. *)
ObserveUnordered(r) ==
    /\ file.kind = "download" /\ pc = "open"
    /\ reading' = reading \ {r}
    /\ stream' = stream \o r.data /\ asm' = [asm EXCEPT !.exp = @ + Len(r.data)]
    /\ UNCHANGED <<config, scan, verdict, cleared, quarantine, decision, failed, store, file, pc,
                   chunk, chunks, connected, approval, trail, target, history, crashes>>

(* observe: a chunk from before expOff is nothing new; one that exceeds the  *)
(* window is left out, though it has been counted.                           *)
Observe(r) ==
    /\ file.kind = "download" /\ pc = "open"
    /\ reading' = reading \ {r}
    /\ \/ r.off < asm.exp /\ UNCHANGED <<asm, pc>>
       \/ /\ r.off >= asm.exp /\ Overflows(asm, r.off, r.data)
          /\ asm' = Counted(asm, r.off, r.data) /\ UNCHANGED pc
       \/ /\ r.off >= asm.exp /\ ~ Overflows(asm, r.off, r.data)
          /\ asm' = Stored(asm, r.off, r.data) /\ pc' = "flushing"
    /\ UNCHANGED <<config, gate, store, file, chunk, chunks, connected, approval, trail,
                   target, history, crashes>>

(* The loop of observe: what is contiguous goes into the hash. *)
Hash ==
    /\ file.kind = "download" /\ pc = "flushing"
    /\ IF Contiguous(asm)
       THEN stream' = stream \o NextChunk(asm) /\ asm' = HandedOn(asm) /\ UNCHANGED pc
       ELSE pc' = "open" /\ UNCHANGED <<stream, asm>>
    /\ UNCHANGED <<config, scan, verdict, cleared, quarantine, decision, failed, store, file,
                   chunk, reading, chunks, connected, approval, trail, target, history,
                   crashes>>

(* Close, once no read is outstanding: the manifest is recorded. *)
CloseDownload ==
    /\ file.kind = "download" /\ pc = "open" /\ reading = {}
    /\ manifest' = SubSeq(stream, 1, asm.exp)
    /\ Emit(file.n, "download")
    /\ pc' = "idle" /\ Freed
    /\ UNCHANGED <<config, store, file, connected, approval, uploads, seen, target,
                   crashes>>

CloseDirect ==
    /\ file.kind = "direct" /\ pc = "open"
    /\ pc' = "idle"
    /\ UNCHANGED <<config, gate, store, file, asm, chunk, reading, chunks, connected,
                   approval, trail, target, history, crashes>>

-----------------------------------------------------------------------------
(* Everyone else. *)

(* readRelease changes nothing: the release must be the reader's own and      *)
(* unexpired, its object in quarantine and no longer than what is buffered.  *)
Readable(u) ==
    {r.id : r \in {r \in ListFor(u) :
        /\ config.releases /\ config.gate
        /\ quarantine[r.id] # None /\ Len(quarantine[r.id]) <= ReadLimit}}

(* Approve and Deny, of a request still pending: FourEyes.  Nothing makes    *)
(* the uploader wait for it still.                                           *)
Decide(n, status) ==
    /\ approval[n].status = "pending" /\ now <= approval[n].deadline
    /\ approval' = [approval EXCEPT ![n].status = status]
    /\ UNCHANGED <<config, gate, store, transfer, connected, trail, target, history,
                   crashes>>

(* The file changes on the target, once per download: by another user of it, *)
(* or by Filecmd's Remove or Rename, which are recorded.                     *)
TargetChanges ==
    /\ file.kind = "download" /\ pc # "idle" /\ target = Original
    /\ \/ \E b \in Bytes : target' = [o \in Offsets |-> b] /\ UNCHANGED trail
       \/ target' = NoBytes /\ Emit(0, "filecmd")
    /\ target' # target
    /\ UNCHANGED <<config, gate, store, transfer, connected, approval, history, crashes>>

ClientGone ==
    /\ connected /\ pc # "idle"
    /\ connected' = FALSE
    /\ UNCHANGED <<config, gate, store, transfer, approval, trail, target, history, crashes>>

(* The clock stops at MaxTime, unless a request can still expire, and during  *)
(* a download, which does not look at it.                                    *)
Clock ==
    /\ file.kind # "download" \/ pc = "idle"
    /\ now < MaxTime \/ \E n \in Files : approval[n].status = "pending" /\ now <= approval[n].deadline
    /\ Tick
    /\ UNCHANGED <<config, gate, transfer, connected, approval, trail, target, history,
                   crashes>>

(* The gateway dies and is started again: the files, the quarantine, the     *)
(* approvals and the evidence stay.                                          *)
Crash ==
    /\ crashes < MaxCrashes /\ (pc # "idle" \/ releases # {})
    /\ crashes' = crashes + 1
    /\ LoadReleases
    /\ Freed
    /\ pc' = "idle" /\ connected' = FALSE
    /\ UNCHANGED <<config, file, approval, trail, target, history>>

-----------------------------------------------------------------------------
Upload ==
    \/ \E u \in Clients, proto \in Protocols, size \in 0..Size :
           /\ "upload" \in Kinds /\ (proto = "sftp" => size = 0)
           /\ OpenUpload(u, proto, size)
    \/ \E off \in Offsets, data \in Chunks : WriteRefused(off, data) \/ WriteAt(off, data)
    \/ Flush \/ FlushFails \/ FlushEnds \/ CloseUpload
    \/ CloseInspected \/ RequestFails \/ RequestRelease \/ WaitApproved \/ WaitRefused
    \/ RecordFails \/ RecordRelease \/ Released

Download ==
    \/ \E u \in Clients, proto \in Protocols : "download" \in Kinds /\ OpenDownload(u, proto)
    \/ \E off \in Offsets, l \in Lengths : ReadTarget(off, l)
    \/ \E r \in reading : Observe(r)
    \/ Hash \/ CloseDownload

Direct ==
    \/ \E u \in Clients, proto \in Protocols : "upload" \in Kinds /\ OpenDirect(u, proto)
    \/ \E off \in Offsets, data \in Chunks : WriteDirect(off, data)
    \/ CloseDirect

Others ==
    \/ \E n \in Files, status \in {"approved", "denied"} : Decide(n, status)
    \/ TargetChanges \/ ClientGone \/ Clock \/ Crash

Next == Upload \/ Download \/ Direct \/ GateStep \/ Others

(* The gateway's goroutines run, inspector and stores answer, time passes,   *)
(* and a client that is gone has its handles closed by pkg/sftp.  Nothing    *)
(* makes a client write or close, nor an approver decide.                    *)
Fairness ==
    /\ WF_vars(Flush) /\ WF_vars(FlushFails) /\ WF_vars(FlushEnds)
    /\ WF_vars(GateStep)
    /\ WF_vars(~ connected /\ CloseUpload)
    /\ WF_vars(CloseInspected)
    /\ WF_vars(RequestFails \/ RequestRelease)
    /\ WF_vars(WaitApproved \/ WaitRefused)
    /\ WF_vars(RecordFails \/ RecordRelease) /\ WF_vars(Released)
    /\ WF_vars(Clock)

Spec == Init /\ [][Next]_vars
FairSpec == Spec /\ Fairness

-----------------------------------------------------------------------------
(* Properties. *)

Holds(image, s) == \A o \in Offsets : image[o] = IF o < Len(s) THEN s[o + 1] ELSE None

Event(n, event) == \E i \in DOMAIN trail[n] : trail[n][i] = event

(* An upload the gateway accepted was presented to the inspector whole: every *)
(* write its client had acknowledged, in the order of the offsets, the last   *)
(* one where several went to one offset, and nothing else (WriteAt, Close).   *)
(* It is not so, against Close's "refuse instead" (sftp.go:827-830), when a   *)
(* chunk that waited, an empty one included, was replaced by one of another   *)
(* length: WriteAt counts neither (sftp.go:794), and Close sees no gap.       *)
AcceptedIsWhole ==
    \A n \in Files :
        Event(n, "accepted") /\ ~ uploads[n].resized => Holds(uploads[n].image, quarantine[n])

(* Whatever /releases serves is the reader's own upload, accepted by the       *)
(* inspection and released by a decision, as the evidence records it: through *)
(* crashes, retries, failing stores and the releases of others.               *)
ServedIsEarned ==
    \A u \in Users : \A n \in Readable(u) :
        /\ uploads[n].user = u
        /\ n \in cleared /\ approval[n].status = "approved"
        /\ Event(n, "accepted") /\ Event(n, "granted")

(* A release the uploader was told of is listed until it expires, and can be  *)
(* read back wherever /releases is served, also after a restart and whatever  *)
(* other releases come and go: unless it is longer than maxReleaseReadBytes.  *)
(* Such a one is told of and listed too, and every read of it is refused.     *)
ReleasedIsReadable ==
    \A n \in Keys :
        LET u == uploads[n].user
        IN  uploads[n].told = "ok" /\ now < uploads[n].until =>
                /\ \E r \in ListFor(u) : r.id = n
                /\ config.gate /\ config.releases =>
                      (n \in Readable(u) <=> Len(quarantine[n]) <= ReadLimit)

(* The manifest of a download covers only bytes that ReadAt returned, at the  *)
(* offsets it returned them for, however the reads were reordered, repeated,  *)
(* or met a file that changed or disappeared (downloadTap: "whatever was      *)
(* actually observed via ReadAt", which need not have reached the client).    *)
ManifestIsObserved ==
    \A i \in DOMAIN manifest : <<i - 1, manifest[i]>> \in seen

(* An upload that was closed, by its client or because the client is gone, is *)
(* decided: it does not wait for ever for an approver (runSFTP's comment).    *)
UploadSettles == pc \in {"closing", "waiting"} ~> pc = "idle"
=============================================================================
