----------------------------- MODULE ReleaseStore ------------------------------
(***************************************************************************)
(* The store of approved releases (internal/release/filestore.go): a map in *)
(* memory and the JSON file it is rewritten to.                             *)
(***************************************************************************)
EXTENDS Naturals

CONSTANTS ReleaseTTL,   \* how long a release may be picked up
          Retention     \* terminalRetention

ASSUME ReleaseAssumption == {ReleaseTTL, Retention} \subseteq Nat

VARIABLES now,          \* the clock
          releases,     \* FileStore.releases
          releaseFile   \* the store's file

Release(id, user, created) ==
    [id |-> id, user |-> user, expires |-> created + ReleaseTTL]

Tick == now' = now + 1 /\ UNCHANGED <<releases, releaseFile>>

Pruned(set) == {r \in set : now <= r.expires + Retention}

(* mutant: the map is changed, the file is not. *)
CreateReleaseInMemory(rel) ==
    /\ releases' = Pruned(releases \union {rel})
    /\ UNCHANGED <<now, releaseFile>>

CreateRelease(rel) ==
    /\ releases' = Pruned(releases \union {rel})
    /\ releaseFile' = releases'
    /\ UNCHANGED now

(* persist fails after it has pruned the map: the new release is taken back. *)
CreateReleaseFails(rel) ==
    /\ releases' = Pruned(releases \union {rel}) \ {rel}
    /\ UNCHANGED <<now, releaseFile>>

(* newFileStore after a restart. *)
LoadReleases == releases' = releaseFile /\ UNCHANGED <<now, releaseFile>>

(* ListFor; Get is the one of them with a given id. *)
ListFor(user) == {r \in releases : r.user = user /\ now < r.expires}
=============================================================================
