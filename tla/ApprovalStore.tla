----------------------------- MODULE ApprovalStore -----------------------------
(***************************************************************************)
(* The durable four-eyes approval store (internal/approval/filestore.go):   *)
(* sessions that Create a request and Wait for it, approvers that decide it *)
(* through the API, the JSON file, time, crashes and restarts.              *)
(*                                                                          *)
(* Every critical section under s.mu is one action.  decide drops the mutex *)
(* for the LDAP lookup, and Wait blocks and re-reads without it: those are  *)
(* steps of their own.                                                      *)
(***************************************************************************)
EXTENDS Naturals, FiniteSets

CONSTANTS Ids,         \* request ids (uuids: fresh for every Create)
          Names,       \* spellings of identities, as the API and SSH give them
          Canon,       \* canonicalID: the identity a spelling stands for
          Requesters,  \* SSH principals, among Names
          Approvers,   \* API subjects, among Names; NoOne when it sends none
          Kinds,       \* kinds of request: see RequestKinds
          NoOne,       \* the empty identity, and "no approver yet"
          WithLookup,  \* is a GroupLookup configured?
          TTL,         \* time a request may stay pending
          Retention,   \* terminalRetention
          Faults,      \* subset of {"persist", "crash", "cancel"}
          MaxTime,     \* bound on the clock
          Absent       \* not in the map, not in the file

(* "release": KindQuarantineRelease with a RequesterGroups snapshot.         *)
(* "session": every other request, on which plain four-eyes applies.         *)
RequestKinds == {"session", "release"}

(* approval.Request, as far as the store looks at it. *)
Request == [kind : RequestKinds, requester : Requesters,
            status : {"pending", "approved", "denied", "expired"},
            approver : Approvers \cup {NoOne}, expires : Nat, decidedAt : Nat]

ASSUME StoreAssumption ==
    /\ TTL \in Nat
    /\ Retention \in Nat
    /\ MaxTime \in Nat
    /\ WithLookup \in BOOLEAN
    /\ Faults \subseteq {"persist", "crash", "cancel"}
    /\ Canon \in [Names -> Names]
    /\ NoOne \notin Names
    /\ Requesters \subseteq Names
    /\ Approvers \subseteq Names \cup {NoOne}
    /\ Kinds \subseteq RequestKinds
    /\ Absent \notin Request

VARIABLES clock,
          file,      \* the JSON file: what a restart reads
          up,        \* is the process running?
          requests,  \* s.requests
          decided,   \* s.decided: "none", "open" or "closed" channel per id
          calls,     \* decide calls between their two critical sections
          waiter,    \* progress of the session that created each request
          result,    \* what its Wait returned
          used,      \* history: ids of requests that were recorded
          answered,  \* history: decisions whose call returned nil
          vouched    \* history: <<approver, id>> pairs a lookup accepted

store == <<file, requests, decided>>
hist  == <<used, answered, vouched>>
vars  == <<clock, store, up, calls, waiter, result, hist>>

Idle  == [pc |-> "idle", id |-> Absent]
Nothing == [status |-> "none", approver |-> NoOne, err |-> FALSE]

-----------------------------------------------------------------------------
(* Request.EffectiveStatus: a pending request past its expiry is expired. *)
Effective(r) ==
    IF r.status = "pending" /\ clock > r.expires THEN "expired" ELSE r.status

(* mutant: a decided request can be decided again. *)
PendingEver(i) == requests[i] # Absent

Pending(i) == requests[i] # Absent /\ Effective(requests[i]) = "pending"

(* pruneLocked: requests that are over and past their retention. *)
Outlived(r) == Effective(r) # "pending" /\ clock > r.expires + Retention

Prune(reqs) ==
    [i \in Ids |-> IF reqs[i] # Absent /\ Outlived(reqs[i]) THEN Absent ELSE reqs[i]]

PruneChannels(reqs, chans) ==
    [i \in Ids |-> IF reqs[i] # Absent /\ Outlived(reqs[i]) THEN "none" ELSE chans[i]]

(* persist: prune, then replace the file atomically.  It can fail only       *)
(* before the rename, so a failure leaves the file as it was.                *)
PersistOK(reqs) == file' = Prune(reqs)

PersistFails == "persist" \in Faults /\ UNCHANGED file

Init ==
    /\ clock = 0
    /\ file = [i \in Ids |-> Absent]
    /\ up = TRUE
    /\ requests = [i \in Ids |-> Absent]
    /\ decided = [i \in Ids |-> "none"]
    /\ calls = [a \in Approvers |-> Idle]
    /\ waiter = [i \in Ids |-> "none"]
    /\ result = [i \in Ids |-> Nothing]
    /\ used = {}
    /\ answered = {}
    /\ vouched = {}

-----------------------------------------------------------------------------
(* Create: a pending request, durable before it is returned; taken back if   *)
(* it cannot be persisted.                                                   *)
NewRequest(q, kind) ==
    [kind |-> kind, requester |-> q, status |-> "pending",
     approver |-> NoOne, expires |-> clock + TTL, decidedAt |-> 0]

Create(i) ==
    /\ up
    /\ i \notin used
    /\ clock + TTL <= MaxTime
    /\ \E q \in Requesters, kind \in Kinds :
          LET reqs == [requests EXCEPT ![i] = NewRequest(q, kind)]
          IN  /\ PersistOK(reqs)
              /\ requests' = Prune(reqs)
              /\ decided' = PruneChannels(reqs, [decided EXCEPT ![i] = "open"])
    /\ used' = used \cup {i}
    /\ waiter' = [waiter EXCEPT ![i] = "created"]
    /\ UNCHANGED <<clock, up, calls, result, answered, vouched>>

CreateFails(i) ==
    /\ up
    /\ i \notin used
    /\ PersistFails
    /\ requests' = Prune(requests)
    /\ decided' = PruneChannels(requests, decided)
    /\ UNCHANGED <<clock, up, calls, waiter, result, hist>>

-----------------------------------------------------------------------------
(* mutant: the identities are compared as they are spelled. *)
MayDecideSpelled(i, a) ==
    /\ Pending(i)
    /\ a # NoOne
    /\ a # requests[i].requester

(* decide: the checks of its first critical section. *)
MayDecide(i, a) ==
    /\ Pending(i)
    /\ a # NoOne
    /\ Canon[a] # Canon[requests[i].requester]

NeedsLookup(i, v) ==
    /\ v = "approved"
    /\ requests[i].kind = "release"
    /\ WithLookup

Verdict(i, a, v) ==
    [requests EXCEPT ![i] = [@ EXCEPT !.status = v, !.approver = a, !.decidedAt = clock]]

(* mutant: the error of persist is dropped. *)
RecordDecisionUnchecked(i, a, v) ==
    /\ PersistOK(Verdict(i, a, v)) \/ PersistFails
    /\ requests' = Prune(Verdict(i, a, v))
    /\ decided' = [PruneChannels(Verdict(i, a, v), decided) EXCEPT ![i] = "closed"]
    /\ answered' = answered \cup {<<i, v>>}

(* decide: record the decision, wake the waiter; rolled back in memory when  *)
(* it cannot be persisted.                                                   *)
RecordDecision(i, a, v) ==
    /\ PersistOK(Verdict(i, a, v))
    /\ requests' = Prune(Verdict(i, a, v))
    /\ decided' = [PruneChannels(Verdict(i, a, v), decided) EXCEPT ![i] = "closed"]
    /\ answered' = answered \cup {<<i, v>>}

RollBackDecision(i) ==
    /\ PersistFails
    /\ requests' = Prune(requests)
    /\ decided' = PruneChannels(requests, decided)
    /\ UNCHANGED answered

DecideAtOnce(a, i, v) ==
    /\ up
    /\ calls[a] = Idle
    /\ MayDecide(i, a)
    /\ ~NeedsLookup(i, v)
    /\ RecordDecision(i, a, v) \/ RollBackDecision(i)
    /\ UNCHANGED <<clock, up, calls, waiter, result, used, vouched>>

(* The mutex is released for the group lookup ... *)
DecideLookup(a, i) ==
    /\ up
    /\ calls[a] = Idle
    /\ MayDecide(i, a)
    /\ NeedsLookup(i, "approved")
    /\ calls' = [calls EXCEPT ![a] = [pc |-> "lookup", id |-> i]]
    /\ UNCHANGED <<clock, store, up, waiter, result, hist>>

(* ... which fails or finds no common group ... *)
LookupRefuses(a) ==
    /\ calls[a].pc = "lookup"
    /\ calls' = [calls EXCEPT ![a] = Idle]
    /\ UNCHANGED <<clock, store, up, waiter, result, hist>>

(* ... or finds one ... *)
LookupAccepts(a) ==
    /\ calls[a].pc = "lookup"
    /\ calls' = [calls EXCEPT ![a].pc = "relock"]
    /\ vouched' = vouched \cup {<<a, calls[a].id>>}
    /\ UNCHANGED <<clock, store, up, waiter, result, used, answered>>

(* ... and the request, which others could decide or time out meanwhile, is  *)
(* checked again under the mutex.                                            *)
StillPending(i) == Pending(i)

DecideRelocked(a) ==
    LET i == calls[a].id
    IN  /\ calls[a].pc = "relock"
        /\ StillPending(i)
        /\ RecordDecision(i, a, "approved") \/ RollBackDecision(i)
        /\ calls' = [calls EXCEPT ![a] = Idle]
        /\ UNCHANGED <<clock, up, waiter, result, used, vouched>>

DecideTooLate(a) ==
    /\ calls[a].pc = "relock"
    /\ ~StillPending(calls[a].id)
    /\ calls' = [calls EXCEPT ![a] = Idle]
    /\ UNCHANGED <<clock, store, up, waiter, result, hist>>

-----------------------------------------------------------------------------
(* Wait: take the channel and the expiry, and return at once if decided. *)
WaitStarts(i) ==
    /\ waiter[i] = "created"
    /\ \/ /\ requests[i] = Absent      \* ErrNotFound
          /\ waiter' = [waiter EXCEPT ![i] = "returned"]
          /\ result' = [result EXCEPT ![i] = [Nothing EXCEPT !.err = TRUE]]
       \/ /\ requests[i] # Absent
          /\ waiter' = [waiter EXCEPT ![i] =
                          IF decided[i] = "closed" THEN "woken" ELSE "waiting"]
          /\ UNCHANGED result
    /\ UNCHANGED <<clock, store, up, calls, hist>>

(* The channel of this waiter is closed.  A pruned entry keeps its channel   *)
(* only in the waiter's hands, and was closed before it was pruned.          *)
WaitDecided(i) ==
    /\ waiter[i] = "waiting"
    /\ decided[i] = "closed"
    /\ waiter' = [waiter EXCEPT ![i] = "woken"]
    /\ UNCHANGED <<clock, store, up, calls, result, hist>>

(* The timer fires: a request still pending is marked expired, durably if    *)
(* possible.                                                                 *)
Lapsed(i) == [requests EXCEPT ![i] = [@ EXCEPT !.status = "expired", !.decidedAt = clock]]

TimerExpires(i) == requests[i] # Absent /\ requests[i].status = "pending"

(* mutant: the timer is not armed. *)
WaitTimerUnarmed(i) ==
    /\ waiter[i] = "waiting"
    /\ decided[i] = "closed"
    /\ waiter' = [waiter EXCEPT ![i] = "woken"]
    /\ UNCHANGED <<clock, store, up, calls, result, hist>>

WaitTimer(i) ==
    /\ waiter[i] = "waiting"
    /\ requests[i] # Absent => clock >= requests[i].expires
    /\ IF TimerExpires(i)
       THEN /\ PersistOK(Lapsed(i)) \/ PersistFails
            /\ requests' = Prune(Lapsed(i))
            /\ decided' = PruneChannels(Lapsed(i), [decided EXCEPT ![i] = "closed"])
       ELSE UNCHANGED store
    /\ waiter' = [waiter EXCEPT ![i] = "woken"]
    /\ UNCHANGED <<clock, up, calls, result, hist>>

(* The session's context ends first. *)
WaitCancelled(i) ==
    /\ waiter[i] = "waiting"
    /\ "cancel" \in Faults
    /\ waiter' = [waiter EXCEPT ![i] = "cancelled"]
    /\ UNCHANGED <<clock, store, up, calls, result, hist>>

(* Get, with the mutex taken anew, is what Wait returns. *)
WaitReturns(i) ==
    /\ waiter[i] \in {"woken", "cancelled"}
    /\ waiter' = [waiter EXCEPT ![i] = "returned"]
    /\ result' = [result EXCEPT ![i] =
                    IF requests[i] = Absent
                    THEN [Nothing EXCEPT !.err = (waiter[i] = "cancelled")]
                    ELSE [status |-> Effective(requests[i]),
                          approver |-> requests[i].approver,
                          err |-> waiter[i] = "cancelled"]]
    /\ UNCHANGED <<clock, store, up, calls, hist>>

(* gateApproval and doClose go ahead only on a nil error and an approval. *)
Granted(i) ==
    /\ waiter[i] = "returned"
    /\ ~result[i].err
    /\ result[i].status = "approved"

-----------------------------------------------------------------------------
Tick ==
    /\ clock < MaxTime
    /\ clock' = clock + 1
    /\ UNCHANGED <<store, up, calls, waiter, result, hist>>

(* The process dies: memory, calls and waiting sessions are gone. *)
MemoryGone ==
    /\ up' = FALSE
    /\ requests' = [i \in Ids |-> Absent]
    /\ decided' = [i \in Ids |-> "none"]
    /\ calls' = [a \in Approvers |-> Idle]
    /\ waiter' = [i \in Ids |-> IF waiter[i] \in {"none", "returned"}
                                THEN waiter[i] ELSE "lost"]

Crash ==
    /\ "crash" \in Faults
    /\ up
    /\ MemoryGone
    /\ UNCHANGED <<clock, file, result, hist>>

(* ... or it dies in a handler that has renamed the file into place and not  *)
(* answered yet: a Create, a decision, or a timer marking the expiry.        *)
CrashAfterRename ==
    /\ "crash" \in Faults
    /\ up
    /\ \/ \E i \in Ids \ used, q \in Requesters, kind \in Kinds :
             /\ clock + TTL <= MaxTime
             /\ PersistOK([requests EXCEPT ![i] = NewRequest(q, kind)])
       \/ \E i \in Ids, a \in Approvers, v \in {"approved", "denied"} :
             /\ calls[a] = Idle
             /\ MayDecide(i, a)
             /\ ~NeedsLookup(i, v)
             /\ PersistOK(Verdict(i, a, v))
       \/ \E a \in Approvers :
             /\ calls[a].pc = "relock"
             /\ StillPending(calls[a].id)
             /\ PersistOK(Verdict(calls[a].id, a, "approved"))
       \/ \E i \in Ids :
             /\ waiter[i] = "waiting"
             /\ TimerExpires(i)
             /\ clock >= requests[i].expires
             /\ PersistOK(Lapsed(i))
    /\ used' = used \cup {i \in Ids : file'[i] # Absent}
    /\ MemoryGone
    /\ UNCHANGED <<clock, result, answered, vouched>>

(* newFileStore: load the file; requests decided before are closed. *)
Restart ==
    /\ ~up
    /\ up' = TRUE
    /\ requests' = file
    /\ decided' = [i \in Ids |-> IF file[i] = Absent THEN "none"
                                 ELSE IF file[i].status = "pending" THEN "open"
                                 ELSE "closed"]
    /\ UNCHANGED <<clock, file, calls, waiter, result, hist>>

Next ==
    \/ \E i \in Ids :
          \/ Create(i) \/ CreateFails(i)
          \/ WaitStarts(i) \/ WaitDecided(i) \/ WaitTimer(i)
          \/ WaitCancelled(i) \/ WaitReturns(i)
    \/ \E a \in Approvers :
          \/ LookupRefuses(a) \/ LookupAccepts(a)
          \/ DecideRelocked(a) \/ DecideTooLate(a)
          \/ \E i \in Ids :
                \/ DecideLookup(a, i)
                \/ \E v \in {"approved", "denied"} : DecideAtOnce(a, i, v)
    \/ Tick
    \/ Crash
    \/ CrashAfterRename
    \/ Restart

(* Time passes, and goroutines that can run do.  Nobody has to decide. *)
Fairness ==
    /\ WF_vars(Tick)
    /\ \A i \in Ids : /\ WF_vars(WaitStarts(i))
                      /\ WF_vars(WaitDecided(i))
                      /\ WF_vars(WaitTimer(i))
                      /\ WF_vars(WaitReturns(i))

Spec == Init /\ [][Next]_vars
FairSpec == Spec /\ Fairness

-----------------------------------------------------------------------------
(* Properties. *)

(* Every variable has the type its Go field or file format gives it. *)
TypeOK ==
    /\ clock \in Nat
    /\ file \in [Ids -> Request \cup {Absent}]
    /\ up \in BOOLEAN
    /\ requests \in [Ids -> Request \cup {Absent}]
    /\ decided \in [Ids -> {"none", "open", "closed"}]
    /\ calls \in [Approvers -> [pc : {"idle", "lookup", "relock"}, id : Ids \cup {Absent}]]
    /\ waiter \in [Ids -> {"none", "created", "waiting", "woken", "cancelled",
                           "returned", "lost"}]
    /\ result \in [Ids -> [status : {"none", "pending", "approved", "denied", "expired"},
                           approver : Approvers \cup {NoOne}, err : BOOLEAN]]
    /\ used \subseteq Ids
    /\ answered \subseteq (Ids \X {"approved", "denied"})
    /\ vouched \subseteq (Approvers \X Ids)

(* A decision in the file was taken before the request expired, by a person  *)
(* who is not the requester under any spelling, and for a group-scoped       *)
(* release by one the group lookup accepted: the window without the mutex    *)
(* lets no late, second or unvouched decision through.                       *)
ProperDecision(i, r) ==
    r.status \in {"approved", "denied"} =>
       /\ r.approver \in Names
       /\ Canon[r.approver] # Canon[r.requester]
       /\ r.decidedAt <= r.expires
       /\ (/\ r.status = "approved"
           /\ r.kind = "release"
           /\ WithLookup) => <<r.approver, i>> \in vouched

FourEyesEnforced == \A i \in Ids : file[i] # Absent => ProperDecision(i, file[i])

(* A session goes ahead only on an approval that is in the durable file, so  *)
(* no crash can make it forget that it was granted, or by whom.  A decision  *)
(* the API answered with success is in the file until it is pruned, and no   *)
(* two racing approvers are both told they decided differently.              *)
DecisionsAreDurable ==
    /\ \A i \in Ids :
          Granted(i) /\ file[i] # Absent =>
              file[i].status = "approved" /\ file[i].approver = result[i].approver
    /\ \A d \in answered :
          /\ file[d[1]] # Absent => file[d[1]].status = d[2]
          /\ \A e \in answered : e[1] = d[1] => e = d

(* Decisions are terminal: in the file they never change, and disappear only *)
(* after their retention.                                                    *)
DecisionsStick ==
    [][\A i \in Ids :
          file[i] # Absent /\ file[i].status \in {"approved", "denied"} =>
             \/ file'[i] = file[i]
             \/ file'[i] = Absent /\ clock > file[i].expires + Retention]_vars

(* The map in memory and the file agree, through every rollback: they differ *)
(* only by an expiry that could not be persisted and by pruned entries.      *)
MemoryMatchesFile ==
    up => \A i \in Ids :
             \/ requests[i] = file[i]
             \/ /\ file[i] # Absent
                /\ requests[i] = Absent
                /\ Outlived(file[i])
             \/ /\ file[i] # Absent /\ requests[i] # Absent
                /\ file[i].status = "pending"
                /\ clock >= file[i].expires
                /\ requests[i] = [file[i] EXCEPT !.status = "expired",
                                                 !.decidedAt = requests[i].decidedAt]

(* A session that waits is answered, by a decision or at the latest when its *)
(* request expires, unless the process dies.                                 *)
WaitEnds ==
    \A i \in Ids :
        waiter[i] \in {"created", "waiting", "woken"} ~> waiter[i] \in {"returned", "lost"}

(* The store implements the life cycle FourEyes promises, read off the file. *)
Abstract == INSTANCE FourEyes WITH
    People <- {Canon[n] : n \in Names},
    NoPerson <- NoOne,
    status <- [i \in Ids |-> IF file[i] # Absent THEN file[i].status
                             ELSE IF i \in used THEN "forgotten" ELSE "none"],
    requester <- [i \in Ids |-> IF file[i] # Absent THEN Canon[file[i].requester] ELSE NoOne],
    approver <- [i \in Ids |-> IF file[i] # Absent /\ file[i].approver # NoOne
                               THEN Canon[file[i].approver] ELSE NoOne]

(* Every behaviour of the file store is one the four-eyes life cycle allows. *)
ImplementsFourEyes == Abstract!Spec
=============================================================================
