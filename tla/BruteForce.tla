------------------------------ MODULE BruteForce -------------------------------
(***************************************************************************)
(* The per-source throttle of the login path (internal/ratelimit/           *)
(* bruteforce.go) under the password callback and the target leg that use   *)
(* it (internal/session/session.go, target.go): Allow is asked before the   *)
(* authenticator, the result is recorded after it, the refusal of a target  *)
(* later still, and any number of attempts from any number of sources are   *)
(* in between at the same time.                                             *)
(*                                                                          *)
(* Times are kept relative to now and stop where the code no longer tells   *)
(* them apart: ages just above Window, levels where the backoff is maximal. *)
(***************************************************************************)
EXTENDS Naturals, FiniteSets, Sequences

CONSTANTS Keys,         \* source IPs
          Attempts,     \* login attempts in flight
          MaxFailures, Window, BaseBackoff, MaxBackoff, MaxEntries,  \* Config
          Untracked     \* no entry for the key

(* New fills in the defaults, so every field is positive. *)
ASSUME LimiterAssumption ==
    /\ MaxFailures \in Nat \ {0}
    /\ Window \in Nat \ {0}
    /\ BaseBackoff \in Nat \ {0}
    /\ MaxBackoff \in Nat
    /\ BaseBackoff <= MaxBackoff
    /\ MaxEntries \in Nat \ {0}

(* entry, with its times relative to now. *)
Entry == [failures : 0..(MaxFailures - 1), winAge : 0..(Window + 1),
          lockLeft : 0..MaxBackoff, level : Nat, idle : 0..(Window + 1)]

ASSUME UntrackedAssumption == Untracked \notin Entry

VARIABLES entries,  \* Limiter.entries
          attempt,  \* an attempt's step, "login" or "in", and its source
          recent    \* history: ages of each source's failures that were
                    \* recorded since its last success or lockout

limiterVars == <<entries, attempt, recent>>

Idle == <<"idle", Untracked>>
Tracked == {k \in Keys : entries[k] # Untracked}
Locked(k) == entries[k] # Untracked /\ entries[k].lockLeft > 0

Older(age) == IF age > Window THEN age ELSE age + 1

(* A source's failures a tick later.  They are listed oldest first, so those  *)
(* that fall out of the window are a prefix.                                 *)
Recent(ages) ==
    LET older == [i \in 1..Len(ages) |-> Older(ages[i])]
        gone == {i \in 1..Len(ages) : older[i] > Window}
    IN  SubSeq(older, Cardinality(gone) + 1, Len(ages))

(* backoffFor: doubles per level, capped at MaxBackoff. *)
BackoffFor[level \in Nat] ==
    IF level <= 1 THEN BaseBackoff
    ELSE IF 2 * BackoffFor[level - 1] >= MaxBackoff THEN MaxBackoff
    ELSE 2 * BackoffFor[level - 1]

NextLevel(level) ==
    IF level > 0 /\ BackoffFor[level] = MaxBackoff THEN level ELSE level + 1

Fresh == [failures |-> 0, winAge |-> 0, lockLeft |-> 0, level |-> 0, idle |-> 0]

(* mutant: a full map drops locked entries too. *)
ReclaimIdle(es) ==
    [k \in Keys |-> IF es[k] # Untracked /\ es[k].idle > 0
                    THEN Untracked ELSE es[k]]

(* reclaimStaleLocked: entries that are unlocked and idle for over a window. *)
Reclaim(es) ==
    [k \in Keys |-> IF /\ es[k] # Untracked
                       /\ es[k].lockLeft = 0
                       /\ es[k].idle > Window
                    THEN Untracked ELSE es[k]]

(* mutant: the capacity is not checked. *)
InsertedUnbounded(k) == [entries EXCEPT ![k] = Fresh]

(* insertLocked: the map with k tracked, unless it is full of live entries. *)
Inserted(k) ==
    IF entries[k] # Untracked THEN entries
    ELSE LET es == IF Cardinality(Tracked) >= MaxEntries THEN Reclaim(entries) ELSE entries
         IN  IF Cardinality({j \in Keys : es[j] # Untracked}) >= MaxEntries
             THEN es ELSE [es EXCEPT ![k] = Fresh]

(* RecordFailure on a tracked entry: nothing during a lockout; otherwise a   *)
(* window that is over restarts, the failure counts, and the last one locks. *)
Failed(e) ==
    LET stale == e.winAge > Window
        n == IF stale THEN 1 ELSE e.failures + 1
    IN  IF e.lockLeft > 0 THEN [e EXCEPT !.idle = 0]
        ELSE IF n >= MaxFailures
             THEN [failures |-> 0, winAge |-> 0, level |-> NextLevel(e.level), idle |-> 0,
                   lockLeft |-> BackoffFor[NextLevel(e.level)]]
             ELSE [e EXCEPT !.failures = n, !.idle = 0,
                            !.winAge = IF stale THEN 0 ELSE @]

(* RecordFailure. *)
RecordFailure(k) ==
    LET es == Inserted(k)
    IN  /\ entries' = IF es[k] = Untracked THEN es ELSE [es EXCEPT ![k] = Failed(@)]
        /\ recent' = [recent EXCEPT ![k] =
                        IF es[k] = Untracked \/ es[k].lockLeft > 0 THEN @
                        ELSE IF entries'[k].lockLeft > 0 THEN << >>
                        ELSE Append(@, 0)]

(* RecordSuccess. *)
RecordSuccess(k) ==
    /\ entries' = [entries EXCEPT ![k] = Untracked]
    /\ recent' = [recent EXCEPT ![k] = << >>]

-----------------------------------------------------------------------------
LimiterInit ==
    /\ entries = [k \in Keys |-> Untracked]
    /\ attempt = [a \in Attempts |-> Idle]
    /\ recent = [k \in Keys |-> << >>]

(* mutant: a refused attempt renews the lockout. *)
BeginRenewing(a, k) ==
    /\ attempt[a] = Idle
    /\ entries' = [entries EXCEPT ![k] = IF Locked(k) THEN [@ EXCEPT !.lockLeft = BackoffFor[entries[k].level]] ELSE @]
    /\ attempt' = [attempt EXCEPT ![a] = IF Locked(k) THEN Idle ELSE <<"login", k>>]
    /\ UNCHANGED recent

(* passwordCallback asks Allow, which also marks a tracked source as seen.   *)
Begin(a, k) ==
    /\ attempt[a] = Idle
    /\ entries' = [entries EXCEPT ![k] = IF @ = Untracked THEN @ ELSE [@ EXCEPT !.idle = 0]]
    /\ attempt' = [attempt EXCEPT ![a] = IF Locked(k) THEN Idle ELSE <<"login", k>>]
    /\ UNCHANGED recent

(* A malformed target, a wrong password or a refused second factor. *)
Refused(a, k) ==
    /\ attempt[a] = <<"login", k>>
    /\ RecordFailure(k)
    /\ attempt' = [attempt EXCEPT ![a] = Idle]

Authenticated(a, k) ==
    /\ attempt[a] = <<"login", k>>
    /\ RecordSuccess(k)
    /\ attempt' = [attempt EXCEPT ![a] = <<"in", k>>]

(* The account asked for on the target is denied, or the target refuses the  *)
(* handshake of the second leg: a failure after the success.                 *)
TargetRefused(a, k) ==
    /\ attempt[a] = <<"in", k>>
    /\ RecordFailure(k)
    /\ attempt' = [attempt EXCEPT ![a] = Idle]

Ends(a, k) ==
    /\ attempt[a] = <<"in", k>>
    /\ attempt' = [attempt EXCEPT ![a] = Idle]
    /\ UNCHANGED <<entries, recent>>

LimiterTick ==
    /\ entries' = [k \in Keys |->
          IF entries[k] = Untracked THEN Untracked
          ELSE [entries[k] EXCEPT !.winAge = Older(@), !.idle = Older(@),
                                  !.lockLeft = IF @ = 0 THEN 0 ELSE @ - 1]]
    /\ recent' = [k \in Keys |-> Recent(recent[k])]
    /\ UNCHANGED attempt

LimiterNext ==
    \/ \E a \in Attempts, k \in Keys :
          \/ Begin(a, k) \/ Refused(a, k) \/ Authenticated(a, k)
          \/ TargetRefused(a, k) \/ Ends(a, k)
    \/ LimiterTick

LimiterSpec == LimiterInit /\ [][LimiterNext]_limiterVars
LimiterFairSpec == LimiterSpec /\ WF_limiterVars(LimiterTick)

-----------------------------------------------------------------------------
(* Properties. *)

(* The ranges, and the two limits of the code in them: no lockout, whatever  *)
(* its level, is longer than MaxBackoff, and no flood of sources makes the   *)
(* map larger than MaxEntries.                                               *)
LimiterTypeOK ==
    /\ entries \in [Keys -> Entry \cup {Untracked}]
    /\ Cardinality(Tracked) <= MaxEntries
    /\ attempt \in [Attempts -> ({"login", "in"} \X Keys) \cup {Idle}]
    /\ \A k \in Keys : Len(recent[k]) <= 2 * MaxFailures

(* A lockout begins only on the MaxFailures-th failure of that source within *)
(* one window: late or foreign failures lock nobody out.  It ends by time or *)
(* by a successful login from the source, never by other sources competing   *)
(* for the map, and hammering never extends it.                              *)
LockoutsAreFair ==
    [][\A k \in Keys :
          /\ ~Locked(k) /\ entries'[k] # Untracked /\ entries'[k].lockLeft > 0
                => Len(recent[k]) + 1 >= MaxFailures
          /\ Locked(k) =>
                \/ /\ entries'[k] # Untracked
                   /\ entries[k].lockLeft - 1 <= entries'[k].lockLeft
                   /\ entries'[k].lockLeft <= entries[k].lockLeft
                \/ \E a \in Attempts :
                      attempt[a] = <<"login", k>> /\ attempt'[a] = <<"in", k>>]_limiterVars

(* No source is locked out for ever, even under a sustained attack. *)
LockoutEnds == \A k \in Keys : Locked(k) ~> ~Locked(k)
=============================================================================
