------------------------------ MODULE EvidenceBus ------------------------------
(***************************************************************************)
(* The evidence pipeline (internal/evidence/bus.go): concurrent callers of  *)
(* Emit, one writer goroutine that fsyncs, chains, seals and uploads, Close,*)
(* and the files that survive a crash, a power loss and a restart.          *)
(*                                                                          *)
(* The writer handles a submission in one action: nothing else reads its    *)
(* private state.  What a crash can expose of a half-done handler are its   *)
(* files, and CrashWriting and CrashSealing leave those.                    *)
(***************************************************************************)
EXTENDS EvidenceFormat

CONSTANTS Callers,      \* goroutines that call Emit
          Emitters,     \* emitter ids ("dialer", "session")
          SegmentSize,  \* records per segment
          ChCap,        \* capacity of the submission channel (256 in the code)
          WithWORM,     \* is a WORM uploader configured?
          Faults,       \* the failures that may happen
          MaxEvents,    \* bound on the events ever submitted
          MaxSegments,  \* bound on the segments of an epoch
          MaxEpoch      \* bound on the process starts

AllFaults == {"epoch", "open", "encode", "write", "sync", "close", "ckpt",
              "wormSeg", "wormCkpt", "crash", "power"}

ASSUME BusAssumption ==
    /\ SegmentSize \in Nat \ {0}
    /\ ChCap \in Nat \ {0}
    /\ MaxEvents \in Nat
    /\ MaxSegments \in Nat
    /\ MaxEpoch \in Nat
    /\ WithWORM \in BOOLEAN
    /\ Faults \subseteq AllFaults
    /\ NoFile # Torn
    /\ Emitters # {}

VARIABLES
    (* the data directory and the WORM bucket *)
    epochFile, segs, synced, ckpts, wormSegs, wormCkpts,
    (* Bus: its life cycle and its channel *)
    bus, queue,
    (* Bus: the writer goroutine's private state *)
    epoch, perEmitterSeq, globalSeq, chainHead, segmentIndex, prevCkptHash,
    segRecords, segFile, wErr, sealErr,
    (* the callers of Emit *)
    caller, sub,
    (* history: events numbered so far, events whose Emit returned nil, the  *)
    (* result of the last Close and the Head() logged after it               *)
    nextEvent, acked, closeResult, loggedHead

disk    == <<epochFile, segs, synced, ckpts, wormSegs, wormCkpts>>
chain   == <<perEmitterSeq, globalSeq, chainHead>>
segment == <<segmentIndex, prevCkptHash, segRecords, segFile, wErr>>
callers == <<caller, sub>>
closing == <<closeResult, loggedHead>>
vars == <<disk, bus, queue, epoch, chain, segment, sealErr, callers,
          nextEvent, acked, closing>>

(* Names of segment and checkpoint files. *)
Names == (1..MaxEpoch) \X (0..MaxSegments)

(* segmentBaseName, checkpointBaseName. *)
Current == <<epoch, segmentIndex>>

NoSub == [emitter |-> CHOOSE x \in Emitters : TRUE, event |-> 0]

-----------------------------------------------------------------------------
(* The process is not running: its memory is gone. *)
MemoryGone ==
    /\ bus' = "down"
    /\ queue' = << >>
    /\ epoch' = 0
    /\ perEmitterSeq' = [x \in Emitters |-> 0]
    /\ globalSeq' = 0
    /\ chainHead' = Genesis
    /\ segmentIndex' = 0
    /\ prevCkptHash' = Genesis
    /\ segRecords' = << >>
    /\ segFile' = "nil"
    /\ wErr' = FALSE
    /\ sealErr' = FALSE
    /\ caller' = [c \in Callers |-> "idle"]
    /\ sub' = [c \in Callers |-> NoSub]

Init ==
    /\ epochFile = 0
    /\ segs = [n \in Names |-> NoFile]
    /\ synced = [n \in Names |-> 0]
    /\ ckpts = [n \in Names |-> NoFile]
    /\ wormSegs = [n \in Names |-> NoFile]
    /\ wormCkpts = [n \in Names |-> NoFile]
    /\ bus = "down"
    /\ queue = << >>
    /\ epoch = 0
    /\ perEmitterSeq = [x \in Emitters |-> 0]
    /\ globalSeq = 0
    /\ chainHead = Genesis
    /\ segmentIndex = 0
    /\ prevCkptHash = Genesis
    /\ segRecords = << >>
    /\ segFile = "nil"
    /\ wErr = FALSE
    /\ sealErr = FALSE
    /\ caller = [c \in Callers |-> "idle"]
    /\ sub = [c \in Callers |-> NoSub]
    /\ nextEvent = 1
    /\ acked = {}
    /\ closeResult = "none"
    /\ loggedHead = Genesis

(* advanceEpoch: the next epoch is durable before it is used. *)
AdvanceEpoch == epochFile' = epochFile + 1

(* NewBus: advance the epoch, link to the last checkpoint on disk, start the *)
(* writer.                                                                   *)
NewBus ==
    /\ bus = "down"
    /\ epochFile < MaxEpoch
    /\ \A n \in Names : ckpts[n] # Torn
    /\ AdvanceEpoch
    /\ epoch' = epochFile'
    /\ prevCkptHash' = LastCheckpointHash(ckpts)
    /\ bus' = "open"
    /\ closeResult' = "none"
    /\ UNCHANGED <<segs, synced, ckpts, wormSegs, wormCkpts, queue, chain,
                   segmentIndex, segRecords, segFile, wErr, sealErr, callers,
                   nextEvent, acked, loggedHead>>

(* NewBus returns an error: loadCheckpoints meets a file that does not parse *)
(* (the epoch is already advanced), or the epoch file cannot be written.     *)
NewBusFails ==
    /\ bus = "down"
    /\ epochFile < MaxEpoch
    /\ \/ /\ \E n \in Names : ckpts[n] = Torn
          /\ AdvanceEpoch
       \/ /\ "epoch" \in Faults
          /\ AdvanceEpoch \/ UNCHANGED epochFile
    /\ closeResult' = "none"
    /\ UNCHANGED <<segs, synced, ckpts, wormSegs, wormCkpts, bus, queue, epoch,
                   chain, segment, sealErr, callers, nextEvent, acked,
                   loggedHead>>

-----------------------------------------------------------------------------
(* emit, first half: the closed flag is read under mu, and mu is released.   *)
(* A closed bus returns an error and changes nothing.                        *)
EmitCheck(c) ==
    /\ bus = "open"
    /\ caller[c] = "idle"
    /\ nextEvent <= MaxEvents
    /\ \E x \in Emitters : sub' = [sub EXCEPT ![c] = [emitter |-> x, event |-> nextEvent]]
    /\ caller' = [caller EXCEPT ![c] = "checked"]
    /\ nextEvent' = nextEvent + 1
    /\ UNCHANGED <<disk, bus, queue, epoch, chain, segment, sealErr, acked, closing>>

(* emit, second half: send the submission, blocking while the channel is     *)
(* full.                                                                     *)
EmitSend(c) ==
    /\ caller[c] = "checked"
    /\ bus \in {"open", "flagged"}
    /\ Len(queue) < ChCap
    /\ queue' = Append(queue, c)
    /\ caller' = [caller EXCEPT ![c] = "queued"]
    /\ UNCHANGED <<disk, bus, epoch, chain, segment, sealErr, sub, nextEvent,
                   acked, closing>>

(* emit, second half, when Close closed the channel in between: the send     *)
(* panics.  A channel handler recovers and the goroutine ends without its    *)
(* record; any other goroutine takes the process down.                       *)
EmitSendPanics(c) ==
    /\ caller[c] = "checked"
    /\ bus \in {"closed", "done"}
    /\ \/ /\ caller' = [caller EXCEPT ![c] = "panicked"]
          /\ UNCHANGED <<bus, queue, epoch, chain, segment, sealErr, sub>>
       \/ MemoryGone
    /\ UNCHANGED <<disk, nextEvent, acked, closing>>

-----------------------------------------------------------------------------
(* sealSegment over the records recs, returning nil iff ok.  It flushes and  *)
(* closes the segment file, writes the signed checkpoint, uploads both, and  *)
(* only then links the chain to it and rolls to the next segment.            *)

(* Flush repeats bufio's sticky error; Close fails on a closed file.         *)
SealFlushFails(recs) ==
    /\ wErr
    /\ segRecords' = recs
    /\ UNCHANGED <<ckpts, wormSegs, wormCkpts, segmentIndex, prevCkptHash, segFile, wErr>>

(* mutant: the error of closing a closed file is dropped. *)
FileUsableAlways == TRUE

FileUsable == segFile # "closed"

SealCloseFails(recs) ==
    /\ ~wErr
    /\ ~FileUsable \/ "close" \in Faults
    /\ segFile' = "closed"
    /\ segRecords' = recs
    /\ UNCHANGED <<ckpts, wormSegs, wormCkpts, segmentIndex, prevCkptHash, wErr>>

(* os.WriteFile of the checkpoint fails, before or after creating the file. *)
SealCheckpointFails(recs) ==
    /\ ~wErr
    /\ FileUsable
    /\ "ckpt" \in Faults
    /\ ckpts' = [ckpts EXCEPT ![Current] = Torn] \/ UNCHANGED ckpts
    /\ segFile' = "closed"
    /\ segRecords' = recs
    /\ UNCHANGED <<wormSegs, wormCkpts, segmentIndex, prevCkptHash, wErr>>

(* PutSegment or PutCheckpoint fails: the local checkpoint is written. *)
SealUploadFails(recs, lines) ==
    /\ ~wErr
    /\ FileUsable
    /\ WithWORM
    /\ \/ "wormSeg" \in Faults /\ UNCHANGED wormSegs
       \/ "wormCkpt" \in Faults /\ wormSegs' = [wormSegs EXCEPT ![Current] = lines]
    /\ ckpts' = [ckpts EXCEPT ![Current] = NewCheckpoint(Current, recs, prevCkptHash)]
    /\ segFile' = "closed"
    /\ segRecords' = recs
    /\ UNCHANGED <<wormCkpts, segmentIndex, prevCkptHash, wErr>>

SealOK(recs, lines) ==
    LET c == NewCheckpoint(Current, recs, prevCkptHash)
    IN  /\ ~wErr
        /\ FileUsable
        /\ ckpts' = [ckpts EXCEPT ![Current] = c]
        /\ wormSegs' = IF WithWORM THEN [wormSegs EXCEPT ![Current] = lines] ELSE wormSegs
        /\ wormCkpts' = IF WithWORM THEN [wormCkpts EXCEPT ![Current] = c] ELSE wormCkpts
        /\ prevCkptHash' = HashHex(c)
        /\ segmentIndex' = segmentIndex + 1
        /\ segFile' = "nil"
        /\ segRecords' = << >>
        /\ UNCHANGED wErr

SealSegment(recs, lines, ok) ==
    \/ ok /\ SealOK(recs, lines)
    \/ ~ok /\ (\/ SealFlushFails(recs)
               \/ SealCloseFails(recs)
               \/ SealCheckpointFails(recs)
               \/ SealUploadFails(recs, lines))

-----------------------------------------------------------------------------
(* process: the writer's handling of the submission at the head of the       *)
(* channel, up to the reply.                                                 *)

Submission == sub[Head(queue)]

(* mutant: openSegment truncates, and runs for every record. *)
OpenedTruncated == << >>

(* The lines of the current segment once openSegment has run. *)
Opened == IF segFile = "nil" THEN << >> ELSE segs[Current]

NextRecord ==
    Seal(Submission.emitter, epoch, perEmitterSeq[Submission.emitter] + 1,
         globalSeq + 1, Submission.event, chainHead)

(* mutant: the writer stops when the channel is closed, before draining it. *)
WriterReadyUntilClosed ==
    /\ bus \in {"open", "flagged"}
    /\ queue # << >>
    /\ segmentIndex < MaxSegments

WriterReady ==
    /\ bus \in {"open", "flagged", "closed"}
    /\ queue # << >>
    /\ segmentIndex < MaxSegments

(* The reply unblocks the caller; Emit returned nil iff ok. *)
Reply(ok) ==
    /\ queue' = Tail(queue)
    /\ caller' = [caller EXCEPT ![Head(queue)] = "idle"]
    /\ acked' = IF ok THEN acked \cup {Submission.event} ELSE acked
    /\ UNCHANGED <<bus, epoch, sealErr, sub, nextEvent, closing>>

(* openSegment: O_EXCL refuses an existing segment. *)
OpenRefused == segFile = "nil" /\ ("open" \in Faults \/ segs[Current] # NoFile)
OpenAllowed == segFile # "nil" \/ segs[Current] = NoFile

ProcessOpenFails ==
    /\ WriterReady
    /\ OpenRefused
    /\ Reply(FALSE)
    /\ UNCHANGED <<disk, chain, segment>>

(* seal or json.Marshal fails; the segment file was opened already. *)
ProcessEncodeFails ==
    /\ WriterReady
    /\ OpenAllowed
    /\ "encode" \in Faults
    /\ segs' = [segs EXCEPT ![Current] = Opened]
    /\ segFile' = IF segFile = "nil" THEN "open" ELSE segFile
    /\ Reply(FALSE)
    /\ UNCHANGED <<epochFile, synced, ckpts, wormSegs, wormCkpts, chain,
                   segmentIndex, prevCkptHash, segRecords, wErr>>

(* Write or Flush fails: nothing, a part of the line, or the line but for its *)
(* newline has reached the file, and bufio keeps the error.  A closed file   *)
(* and a writer holding an error always fail, and write nothing.             *)
ProcessWriteFails ==
    /\ WriterReady
    /\ OpenAllowed
    /\ \/ /\ wErr \/ ~FileUsable
          /\ UNCHANGED segs
       \/ /\ ~wErr /\ FileUsable
          /\ "write" \in Faults
          /\ \E written \in {<< >>, <<Torn>>, <<NextRecord>>} :
                segs' = [segs EXCEPT ![Current] = Opened \o written]
    /\ segFile' = IF segFile = "nil" THEN "open" ELSE segFile
    /\ wErr' = TRUE
    /\ Reply(FALSE)
    /\ UNCHANGED <<epochFile, synced, ckpts, wormSegs, wormCkpts, chain,
                   segmentIndex, prevCkptHash, segRecords>>

(* Sync fails: globalSeq is rolled back, the line stays in the file. *)
ProcessSyncFails ==
    /\ WriterReady
    /\ OpenAllowed
    /\ ~wErr /\ FileUsable
    /\ "sync" \in Faults
    /\ segs' = [segs EXCEPT ![Current] = Append(Opened, NextRecord)]
    /\ segFile' = IF segFile = "nil" THEN "open" ELSE segFile
    /\ Reply(FALSE)
    /\ UNCHANGED <<epochFile, synced, ckpts, wormSegs, wormCkpts, chain,
                   segmentIndex, prevCkptHash, segRecords, wErr>>

(* mutant: no fsync. *)
CommitUnsynced ==
    LET rec == NextRecord
    IN  /\ segs' = [segs EXCEPT ![Current] = Append(Opened, rec)]
        /\ UNCHANGED synced
        /\ perEmitterSeq' = [perEmitterSeq EXCEPT ![rec.emitter] = rec.seq]
        /\ globalSeq' = rec.gseq
        /\ chainHead' = rec.hash

(* mutant: the chain head is not advanced. *)
CommitUnchained ==
    LET rec == NextRecord
        lines == Append(Opened, rec)
    IN  /\ segs' = [segs EXCEPT ![Current] = lines]
        /\ synced' = [synced EXCEPT ![Current] = Len(lines)]
        /\ perEmitterSeq' = [perEmitterSeq EXCEPT ![rec.emitter] = rec.seq]
        /\ globalSeq' = rec.gseq
        /\ UNCHANGED chainHead

(* The record is written and synced, and only then committed to memory. *)
Commit ==
    LET rec == NextRecord
        lines == Append(Opened, rec)
    IN  /\ segs' = [segs EXCEPT ![Current] = lines]
        /\ synced' = [synced EXCEPT ![Current] = Len(lines)]
        /\ perEmitterSeq' = [perEmitterSeq EXCEPT ![rec.emitter] = rec.seq]
        /\ globalSeq' = rec.gseq
        /\ chainHead' = rec.hash

ProcessRecord ==
    /\ WriterReady
    /\ OpenAllowed
    /\ ~wErr /\ FileUsable
    /\ Len(segRecords) + 1 < SegmentSize
    /\ Commit
    /\ segRecords' = Append(segRecords, NextRecord)
    /\ segFile' = "open"
    /\ Reply(TRUE)
    /\ UNCHANGED <<epochFile, ckpts, wormSegs, wormCkpts, segmentIndex, prevCkptHash, wErr>>

(* The record that fills the segment: sealed inline, and a failed seal is    *)
(* the error of this Emit although its record is durable.                    *)
ProcessRecordAndSeal ==
    /\ WriterReady
    /\ OpenAllowed
    /\ ~wErr /\ FileUsable
    /\ Len(segRecords) + 1 >= SegmentSize
    /\ Commit
    /\ \E ok \in BOOLEAN :
          /\ SealSegment(Append(segRecords, NextRecord), Append(Opened, NextRecord), ok)
          /\ Reply(ok)
    /\ UNCHANGED epochFile

Process ==
    \/ ProcessOpenFails
    \/ ProcessEncodeFails
    \/ ProcessWriteFails
    \/ ProcessSyncFails
    \/ ProcessRecord
    \/ ProcessRecordAndSeal

-----------------------------------------------------------------------------
(* Close: set the closed flag under mu ... *)
CloseFlag ==
    /\ bus = "open"
    /\ bus' = "flagged"
    /\ UNCHANGED <<disk, queue, epoch, chain, segment, sealErr, callers,
                   nextEvent, acked, closing>>

(* ... close the channel ... *)
CloseChannel ==
    /\ bus = "flagged"
    /\ bus' = "closed"
    /\ UNCHANGED <<disk, queue, epoch, chain, segment, sealErr, callers,
                   nextEvent, acked, closing>>

(* mutant: the error of the final seal is dropped. *)
FinalSealUnreported ==
    /\ bus = "closed"
    /\ queue = << >>
    /\ bus' = "done"
    /\ \/ /\ segRecords = << >>
          /\ UNCHANGED <<ckpts, wormSegs, wormCkpts, segment>>
       \/ /\ segRecords # << >>
          /\ \E ok \in BOOLEAN : SealSegment(segRecords, segs[Current], ok)
    /\ UNCHANGED <<epochFile, segs, synced, queue, epoch, chain, callers,
                   nextEvent, acked, closing, sealErr>>

(* ... the writer, its channel closed and drained, seals what remains and    *)
(* keeps the error ...                                                       *)
FinalSeal ==
    /\ bus = "closed"
    /\ queue = << >>
    /\ bus' = "done"
    /\ \/ /\ segRecords = << >>
          /\ UNCHANGED <<ckpts, wormSegs, wormCkpts, segment, sealErr>>
       \/ /\ segRecords # << >>
          /\ \E ok \in BOOLEAN : /\ SealSegment(segRecords, segs[Current], ok)
                                 /\ sealErr' = ~ok
    /\ UNCHANGED <<epochFile, segs, synced, queue, epoch, chain, callers,
                   nextEvent, acked, closing>>

(* ... and Close returns it; run's deferred close logs Head() and the        *)
(* process exits.                                                            *)
CloseReturns ==
    /\ bus = "done"
    /\ closeResult' = IF sealErr THEN "error" ELSE "nil"
    /\ loggedHead' = prevCkptHash
    /\ MemoryGone
    /\ UNCHANGED <<disk, nextEvent, acked>>

-----------------------------------------------------------------------------
(* The process dies with no handler half done. *)
Crash ==
    /\ "crash" \in Faults
    /\ bus \in {"open", "flagged", "closed", "done"}
    /\ MemoryGone
    /\ UNCHANGED <<disk, nextEvent, acked, closing>>

(* ... or between opening the segment and the fsync of the line. *)
CrashWriting ==
    /\ "crash" \in Faults
    /\ WriterReady
    /\ OpenAllowed
    /\ ~wErr /\ FileUsable
    /\ \E written \in {<< >>, <<Torn>>, <<NextRecord>>} :
          segs' = [segs EXCEPT ![Current] = Opened \o written]
    /\ MemoryGone
    /\ UNCHANGED <<epochFile, synced, ckpts, wormSegs, wormCkpts, nextEvent, acked, closing>>

(* ... or inside sealSegment, with the segment complete and any prefix of    *)
(* the checkpoint file, the segment upload and the checkpoint upload done.   *)
CrashSealing(recs) ==
    LET c == NewCheckpoint(Current, recs, prevCkptHash)
    IN  /\ \E content \in {NoFile, Torn, c} :
              ckpts' = [ckpts EXCEPT ![Current] = content]
        /\ \/ UNCHANGED <<wormSegs, wormCkpts>>
           \/ /\ WithWORM
              /\ ckpts'[Current] = c
              /\ wormSegs' = [wormSegs EXCEPT ![Current] = segs'[Current]]
              /\ \/ UNCHANGED wormCkpts
                 \/ wormCkpts' = [wormCkpts EXCEPT ![Current] = c]
        /\ MemoryGone

CrashInlineSeal ==
    /\ "crash" \in Faults
    /\ WriterReady
    /\ OpenAllowed
    /\ ~wErr /\ FileUsable
    /\ Len(segRecords) + 1 >= SegmentSize
    /\ segs' = [segs EXCEPT ![Current] = Append(Opened, NextRecord)]
    /\ synced' = [synced EXCEPT ![Current] = Len(Opened) + 1]
    /\ CrashSealing(Append(segRecords, NextRecord))
    /\ UNCHANGED <<epochFile, nextEvent, acked, closing>>

CrashFinalSeal ==
    /\ "crash" \in Faults
    /\ bus = "closed"
    /\ queue = << >>
    /\ segRecords # << >>
    /\ ~wErr /\ FileUsable
    /\ UNCHANGED <<segs, synced>>
    /\ CrashSealing(segRecords)
    /\ UNCHANGED <<epochFile, nextEvent, acked, closing>>

(* The machine loses power: lines that were not synced may be lost, and so   *)
(* may this run's checkpoints, which os.WriteFile does not sync.             *)
PowerLoss ==
    /\ "power" \in Faults
    /\ bus \in {"open", "flagged", "closed", "done"}
    /\ \/ UNCHANGED segs
       \/ /\ segFile # "nil"
          /\ segs' = [segs EXCEPT ![Current] = SubSeq(@, 1, synced[Current])]
    /\ \E content \in {NoFile, Torn} :
       \E lost \in SUBSET {n \in Present(ckpts) : n[1] = epoch} :
          ckpts' = [n \in Names |-> IF n \in lost THEN content ELSE ckpts[n]]
    /\ MemoryGone
    /\ UNCHANGED <<epochFile, synced, wormSegs, wormCkpts, nextEvent, acked, closing>>

Next ==
    \/ NewBus
    \/ NewBusFails
    \/ \E c \in Callers : EmitCheck(c) \/ EmitSend(c) \/ EmitSendPanics(c)
    \/ Process
    \/ CloseFlag
    \/ CloseChannel
    \/ FinalSeal
    \/ CloseReturns
    \/ Crash
    \/ CrashWriting
    \/ CrashInlineSeal
    \/ CrashFinalSeal
    \/ PowerLoss

(* The Go scheduler runs every goroutine that is not blocked.  Nothing makes *)
(* anyone call Emit or Close, start the process, or crash it.                *)
Fairness ==
    /\ \A c \in Callers : WF_vars(EmitSend(c)) /\ WF_vars(EmitSendPanics(c))
    /\ WF_vars(Process)
    /\ WF_vars(CloseChannel)
    /\ WF_vars(FinalSeal)
    /\ WF_vars(CloseReturns)

Spec == Init /\ [][Next]_vars
FairSpec == Spec /\ Fairness

-----------------------------------------------------------------------------
(* Properties. *)

Stamp == [emitter : Emitters, epoch : Nat, seq : Nat, gseq : Nat, event : Nat]
Record == [emitter : Emitters, epoch : Nat, seq : Nat, gseq : Nat, event : Nat,
           prev : Seq(Stamp), hash : Seq(Stamp)]
Link == [epoch : Nat, index : Nat, count : Nat, root : Seq(Seq(Stamp) \X Stamp),
         head : Seq(Stamp), signed : BOOLEAN]
Checkpoint == [epoch : Nat, index : Nat, count : Nat,
               root : Seq(Seq(Stamp) \X Stamp), head : Seq(Stamp),
               prev : Seq(Link), signed : BOOLEAN]
SegFiles  == [Names -> Seq(Record \cup {Torn}) \cup {NoFile}]
CkptFiles == [Names -> Checkpoint \cup {Torn, NoFile}]

(* Neither mark is a line, the lines of a file or a checkpoint. *)
ASSUME MarkAssumption ==
    /\ NoFile \notin Seq(Record \cup {Torn})
    /\ Torn \notin Record
    /\ NoFile \notin Checkpoint /\ Torn \notin Checkpoint

(* Every variable has the type its Go field or file format gives it, and     *)
(* neither the channel nor the segment outgrows its limit, a segment whose   *)
(* seal has failed included.                                                 *)
TypeOK ==
    /\ epochFile \in 0..MaxEpoch
    /\ segs \in SegFiles
    /\ synced \in [Names -> Nat]
    /\ ckpts \in CkptFiles
    /\ wormSegs \in SegFiles
    /\ wormCkpts \in CkptFiles
    /\ bus \in {"down", "open", "flagged", "closed", "done"}
    /\ queue \in Seq(Callers) /\ Len(queue) <= ChCap
    /\ epoch \in 0..epochFile
    /\ perEmitterSeq \in [Emitters -> Nat]
    /\ globalSeq \in Nat
    /\ chainHead \in Seq(Stamp)
    /\ segmentIndex \in 0..MaxSegments
    /\ prevCkptHash \in Seq(Link)
    /\ segRecords \in Seq(Record) /\ Len(segRecords) <= SegmentSize
    /\ segFile \in {"nil", "open", "closed"}
    /\ wErr \in BOOLEAN
    /\ sealErr \in BOOLEAN
    /\ caller \in [Callers -> {"idle", "checked", "queued", "panicked"}]
    /\ sub \in [Callers -> [emitter : Emitters, event : Nat]]
    /\ nextEvent \in Nat
    /\ acked \subseteq Nat
    /\ closeResult \in {"none", "nil", "error"}
    /\ loggedHead \in Seq(Link)

(* The places of the bundle that hold the record of event e. *)
PlacesOf(e) ==
    {p \in Places(segs) : At(segs, p) # Torn /\ At(segs, p).event = e}

(* An event whose Emit returned nil is in the bundle, exactly once, whatever *)
(* crashes, power losses, restarts and later failures follow: process        *)
(* answers only after the line is synced, and no start or failure path       *)
(* removes or repeats a line.                                                *)
AckedIsDurable == \A e \in acked : Cardinality(PlacesOf(e)) = 1

(* The lines t are the lines s with zero or more lines added at the end. *)
Grown(s, t) == Len(s) <= Len(t) /\ \A i \in 1..Len(s) : t[i] = s[i]

(* Written lines are never rewritten: a segment file only grows at its end,  *)
(* across restarts too (the epoch is never reused and openSegment is         *)
(* O_EXCL).  A power loss may cut lines that were never synced.              *)
SegmentsAppendOnly ==
    [][\A n \in Names :
          segs[n] # NoFile =>
             /\ segs'[n] # NoFile
             /\ \/ Grown(segs[n], segs'[n])
                \/ /\ "power" \in Faults
                   /\ synced[n] <= Len(segs'[n])
                   /\ Grown(segs'[n], segs[n])]_vars

(* All checkpoints on disk are one linked list from genesis over all epochs, *)
(* through failed seals, crashes and restarts: NewBus continues from the     *)
(* last checkpoint on disk, a local-only one included.  And whenever every   *)
(* segment has its checkpoint the offline verifier accepts the bundle: no    *)
(* fully sealed bundle raises a false alarm.                                 *)
SealedBundleVerifies ==
    (\A n \in Names : ckpts[n] # Torn) =>
        /\ CheckpointChainOK(ckpts)
        /\ Present(segs) # {} /\ AllCovered(segs, ckpts)
               => VerifyBundle(segs, ckpts, Genesis)

(* The places of acknowledged events of the last epoch. *)
AckedPlaces ==
    {p \in Places(segs) : /\ p[1][1] = epochFile
                          /\ At(segs, p) # Torn
                          /\ At(segs, p).event \in acked}

(* When Close returns nil every acknowledged event of the run is under a     *)
(* signed checkpoint, on disk and in the WORM bucket if there is one, and    *)
(* the logged head is the head the verifier computes.                        *)
CleanCloseIsSealed ==
    closeResult = "nil" =>
       /\ \A p \in AckedPlaces :
             /\ ckpts[p[1]] \notin {NoFile, Torn}
             /\ CheckpointMatchesSegment(segs, ckpts[p[1]])
             /\ WithWORM => /\ wormSegs[p[1]] = segs[p[1]]
                            /\ wormCkpts[p[1]] = ckpts[p[1]]
       /\ loggedHead = LastCheckpointHash(ckpts)

(* Fail closed: once a write or a seal has failed, no later Emit of this run *)
(* returns nil: callers keep seeing the error until the gateway restarts.    *)
NoAckAfterFailure ==
    [][wErr \/ segFile = "closed" => acked' = acked]_vars

(* Emit always comes back: a caller that passed the closed check is answered, *)
(* or panics, or the process ends.  So does Close: the writer drains the      *)
(* channel and stops even while such callers still race with it.              *)
CallsReturn ==
    /\ \A c \in Callers :
          caller[c] \in {"checked", "queued"} ~> caller[c] \in {"idle", "panicked"}
    /\ bus = "flagged" ~> bus = "down"

-----------------------------------------------------------------------------
(* What comments and documents say of the bus and the code does not keep.    *)

(* bus.go: globalSeq is rolled back on every error "so ordering stays        *)
(* contiguous".  A failed fsync leaves the line in the file.                 *)
OrderingContiguous ==
    (\A p \in Places(segs) : At(segs, p) # Torn) => PerEpochChainsOK(segs)
=============================================================================
