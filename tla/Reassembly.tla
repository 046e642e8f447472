------------------------------ MODULE Reassembly -------------------------------
(***************************************************************************)
(* Chunks of a file that arrive in any order, put back in offset order      *)
(* (internal/session/sftp.go).  inspectUpload.WriteAt feeds the inspection  *)
(* pipe with it, downloadTap.observe the hash of a download's manifest; the *)
(* two differ in what they do with a chunk they cannot use.                 *)
(***************************************************************************)
EXTENDS Naturals, Integers, Sequences

CONSTANTS Size,      \* bytes of the longest file
          Lengths,   \* lengths of a chunk
          Bytes,     \* values of a byte
          Window     \* maxReorderBytes

ASSUME ReassemblyAssumption ==
    /\ {Size, Window} \subseteq Nat
    /\ Lengths \subseteq Nat
    /\ Bytes # {}

Offsets == 0..(Size - 1)

(* exp: expOff.  at: the offsets at which a chunk waits, the keys of the map  *)
(* pending.  pending: those chunks; one may be empty, and one that is absent  *)
(* is empty too.  bytes: pendingBytes, what the code believes they hold.      *)
Empty == [exp |-> 0, at |-> {}, pending |-> [o \in Offsets |-> << >>], bytes |-> 0]

(* A chunk is accounted for before its size is held against the window, and  *)
(* only if no chunk waits at its offset, be that one empty.                  *)
Counted(asm, off, chunk) ==
    IF off \in asm.at THEN asm ELSE [asm EXCEPT !.bytes = @ + Len(chunk)]

Overflows(asm, off, chunk) == Counted(asm, off, chunk).bytes > Window

Stored(asm, off, chunk) ==
    [Counted(asm, off, chunk) EXCEPT !.at = @ \union {off}, !.pending[off] = chunk]

(* The chunk at the expected offset, which is the one to hand on. *)
NextChunk(asm) ==
    IF asm.exp \in Offsets THEN asm.pending[asm.exp] ELSE << >>

Contiguous(asm) == asm.exp \in asm.at

(* The chunk leaves pending before it is handed on, and the expected offset  *)
(* moves once it has been.                                                   *)
Dropped(asm) ==
    [asm EXCEPT !.at = @ \ {asm.exp}, !.pending[asm.exp] = << >>,
                !.bytes = @ - Len(NextChunk(asm))]

HandedOn(asm) ==
    [Dropped(asm) EXCEPT !.exp = @ + Len(NextChunk(asm))]
=============================================================================
