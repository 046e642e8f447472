------------------------------ MODULE InspectGate ------------------------------
(***************************************************************************)
(* The inspection gate (internal/inspectgate/gate.go) on one upload: the    *)
(* goroutine inspectUpload.start runs, fed through a pipe.  Small content   *)
(* is buffered, large content goes through the holding store; both end in   *)
(* the quarantine.  The inspector and the blob stores are external: they    *)
(* answer anything, and a Put that fails leaves no object behind.           *)
(***************************************************************************)
EXTENDS Naturals, Sequences

CONSTANTS Threshold,   \* content longer than this is large
          Keys,        \* one key per upload: a timestamp and the file's name
          None

ASSUME GateAssumption == Threshold \in Nat

VARIABLES config,      \* what is wired up: gate, holding, approvals, releases
          scan,        \* the goroutine's step
          stream,      \* the bytes it has taken off the pipe
          verdict,     \* what the inspector answered
          cleared,     \* history: the uploads it answered "clean" for
          quarantine,  \* the WORM store
          decision,    \* Gate.Inspect's result
          failed       \* ... and whether it came with an error

Verdicts == {"clean", "blocked", "modified", "unrecognized", "error"}

Refusal(v, key) == [allow |-> FALSE, verdict |-> v, key |-> key]
NoDecision == Refusal("", None)

Reported(v) == IF v = "unrecognized" THEN "error" ELSE v

GateInit ==
    /\ scan = "idle" /\ stream = << >> /\ verdict = None
    /\ decision = NoDecision /\ failed = FALSE

(* The writer may hand over a chunk that still fits the head's buffer, or    *)
(* any chunk once the content is known to be large.  A full buffer takes not *)
(* even an empty chunk: nobody reads the pipe.                               *)
Takes(chunk) ==
    \/ /\ scan = "head" /\ Len(stream) <= Threshold
       /\ Len(stream) + Len(chunk) <= Threshold + 1
    \/ scan = "large"

PipeBroken == scan = "done"

(* More than Threshold bytes have arrived, or are offered to the pipe. *)
Exceeds(offered) ==
    Len(stream) > Threshold \/ Len(stream) + Len(offered) > Threshold + 1

(* Without a holding store large content is refused, and not quarantined. *)
Classify(offered) ==
    /\ scan = "head" /\ Exceeds(offered)
    /\ IF config.holding
       THEN scan' = "large" /\ UNCHANGED decision
       ELSE scan' = "done" /\ decision' = Refusal("error", None)
    /\ UNCHANGED <<config, stream, verdict, cleared, quarantine, failed>>

(* holding.Put fails: the tee fails with it and the upload is refused. *)
HoldingFails ==
    /\ scan = "large"
    /\ scan' = "done" /\ failed' = TRUE
    /\ UNCHANGED <<config, stream, verdict, cleared, quarantine, decision>>

(* The writer has closed the pipe and the inspector answers. *)
Scan(key) ==
    /\ scan = "large" \/ (scan = "head" /\ ~ Exceeds(<< >>))
    /\ scan' = "scanned"
    /\ verdict' \in Verdicts
    /\ cleared' = IF verdict' = "clean" THEN cleared \union {key} ELSE cleared
    /\ UNCHANGED <<config, stream, quarantine, decision, failed>>

(* mutant: content is refused when the inspector says so. *)
AllowsUnlessBlocked(v) == v # "blocked"

(* Only an explicit clean verdict lets content through. *)
Allows(v) == v = "clean"

(* quarantineBytes, or promote, fails: whatever the verdict, an error. *)
StoreFails ==
    /\ scan = "scanned"
    /\ scan' = "done" /\ failed' = TRUE
    /\ decision' = Refusal(IF Allows(verdict) THEN "error" ELSE Reported(verdict), None)
    /\ UNCHANGED <<config, stream, verdict, cleared, quarantine>>

(* quarantineBytes, or promote, which then deletes the copy in the holding   *)
(* store: nobody else reads that copy, and an error of the delete is ignored. *)
Store(key) ==
    /\ scan = "scanned"
    /\ scan' = "done"
    /\ quarantine' = [quarantine EXCEPT ![key] = stream]
    /\ decision' = [allow |-> Allows(verdict), verdict |-> Reported(verdict), key |-> key]
    /\ UNCHANGED <<config, stream, verdict, cleared, failed>>
=============================================================================
