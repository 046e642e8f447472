-------------------------- MODULE ApprovalStoreProofs --------------------------
(***************************************************************************)
(* The safety of the approval store for any number of requests, approvers   *)
(* and spellings, any TTL and retention, and any of the modelled faults.    *)
(***************************************************************************)
EXTENDS ApprovalStore, TLAPS

(* A process that is down holds nothing in memory. *)
DownIsEmpty ==
    ~up => /\ \A i \in Ids : requests[i] = Absent
           /\ \A a \in Approvers : calls[a] = Idle

(* Every request in memory or in the file was created. *)
KnownIsUsed == \A i \in Ids : file[i] # Absent \/ requests[i] # Absent => i \in used

(* A decide call that has released the mutex has passed the checks on the    *)
(* approver, and past the lookup it is vouched for.                          *)
CallsChecked ==
    \A a \in Approvers :
        calls[a].pc # "idle" =>
           /\ a \in Names
           /\ calls[a].id \in used
           /\ requests[calls[a].id] # Absent =>
                 Canon[a] # Canon[requests[calls[a].id].requester]
           /\ calls[a].pc = "relock" => <<a, calls[a].id>> \in vouched

(* A request that was not decided names no approver. *)
Undecided(r) == r.status \in {"pending", "expired"} => r.approver = NoOne

UndecidedInFile == \A i \in Ids : file[i] # Absent => Undecided(file[i])

IInv ==
    /\ TypeOK
    /\ DownIsEmpty
    /\ KnownIsUsed
    /\ MemoryMatchesFile
    /\ FourEyesEnforced
    /\ UndecidedInFile
    /\ CallsChecked

-----------------------------------------------------------------------------
(* What pruning does to an entry. *)
LEMMA PruneEntry ==
    ASSUME NEW reqs, NEW i \in Ids
    PROVE  \/ Prune(reqs)[i] = reqs[i]
           \/ reqs[i] # Absent /\ Outlived(reqs[i]) /\ Prune(reqs)[i] = Absent
  BY DEF Prune

(* Pruning keeps the type. *)
LEMMA PruneType ==
    ASSUME NEW reqs \in [Ids -> Request \cup {Absent}]
    PROVE  Prune(reqs) \in [Ids -> Request \cup {Absent}]
  BY DEF Prune

LEMMA PruneChannelsType ==
    ASSUME NEW reqs, NEW chans \in [Ids -> {"none", "open", "closed"}]
    PROVE  PruneChannels(reqs, chans) \in [Ids -> {"none", "open", "closed"}]
  BY DEF PruneChannels

(* The maps the operations persist are well typed. *)
LEMMA VerdictType ==
    ASSUME TypeOK, NEW i \in Ids, NEW a \in Approvers, NEW v \in {"approved", "denied"},
           requests[i] # Absent
    PROVE  Verdict(i, a, v) \in [Ids -> Request \cup {Absent}]
<1>1. requests[i] \in Request
  BY DEF TypeOK
<1>2. [requests[i] EXCEPT !.status = v, !.approver = a, !.decidedAt = clock] \in Request
  BY <1>1 DEF TypeOK, Request
<1> QED
  BY <1>2 DEF TypeOK, Verdict

LEMMA LapsedType ==
    ASSUME TypeOK, NEW i \in Ids, requests[i] # Absent
    PROVE  Lapsed(i) \in [Ids -> Request \cup {Absent}]
<1>1. requests[i] \in Request
  BY DEF TypeOK
<1>2. [requests[i] EXCEPT !.status = "expired", !.decidedAt = clock] \in Request
  BY <1>1 DEF TypeOK, Request
<1> QED
  BY <1>2 DEF TypeOK, Lapsed

LEMMA CreatedType ==
    ASSUME TypeOK, NEW i \in Ids, NEW q \in Requesters, NEW kind \in Kinds
    PROVE  [requests EXCEPT ![i] = NewRequest(q, kind)] \in [Ids -> Request \cup {Absent}]
  BY StoreAssumption DEF StoreAssumption, TypeOK, NewRequest, Request, RequestKinds

-----------------------------------------------------------------------------
LEMMA InitEstablishes == Init => IInv
<1> SUFFICES ASSUME Init PROVE IInv
  OBVIOUS
<1>1. TypeOK
  BY DEF Init, TypeOK, Idle, Nothing
<1>2. /\ DownIsEmpty /\ KnownIsUsed /\ FourEyesEnforced /\ CallsChecked
      /\ MemoryMatchesFile /\ UndecidedInFile
  BY DEF Init, UndecidedInFile, DownIsEmpty, KnownIsUsed, FourEyesEnforced, CallsChecked,
         MemoryMatchesFile, Idle
<1> QED
  BY <1>1, <1>2 DEF IInv

-----------------------------------------------------------------------------
(* Type correctness, one step per action. *)
LEMMA TypeStep == IInv /\ [Next]_vars => TypeOK'
<1> SUFFICES ASSUME TypeOK, CallsChecked, [Next]_vars PROVE TypeOK'
  BY DEF IInv
<1>1. ASSUME NEW i \in Ids, Create(i) PROVE TypeOK'
  <2>1. PICK q \in Requesters, kind \in Kinds :
           LET reqs == [requests EXCEPT ![i] = NewRequest(q, kind)]
           IN  /\ PersistOK(reqs)
               /\ requests' = Prune(reqs)
               /\ decided' = PruneChannels(reqs, [decided EXCEPT ![i] = "open"])
    BY <1>1 DEF Create
  <2> DEFINE reqs == [requests EXCEPT ![i] = NewRequest(q, kind)]
  <2>2. reqs \in [Ids -> Request \cup {Absent}]
    BY CreatedType
  <2> HIDE DEF reqs
  <2>3. file' \in [Ids -> Request \cup {Absent}] /\ requests' \in [Ids -> Request \cup {Absent}]
    BY <2>1, <2>2, PruneType DEF PersistOK, reqs
  <2>4. [decided EXCEPT ![i] = "open"] \in [Ids -> {"none", "open", "closed"}]
    BY DEF TypeOK
  <2>5. decided' \in [Ids -> {"none", "open", "closed"}]
    BY <2>1, <2>4, PruneChannelsType DEF reqs
  <2>6. waiter' \in [Ids -> {"none", "created", "waiting", "woken", "cancelled",
                              "returned", "lost"}]
    BY <1>1 DEF TypeOK, Create
  <2> QED
    BY <1>1, <2>3, <2>5, <2>6 DEF TypeOK, Create
<1>2. ASSUME NEW i \in Ids, CreateFails(i) PROVE TypeOK'
  BY <1>2, PruneType, PruneChannelsType DEF TypeOK, CreateFails, PersistFails, hist
<1>3. ASSUME NEW a \in Approvers, NEW i \in Ids, NEW v \in {"approved", "denied"},
             RecordDecision(i, a, v), requests[i] # Absent
      PROVE  /\ file' \in [Ids -> Request \cup {Absent}]
             /\ requests' \in [Ids -> Request \cup {Absent}]
             /\ decided' \in [Ids -> {"none", "open", "closed"}]
             /\ answered' \subseteq (Ids \X {"approved", "denied"})
  <2>1. file' \in [Ids -> Request \cup {Absent}] /\ requests' \in [Ids -> Request \cup {Absent}]
    BY <1>3, VerdictType, PruneType DEF RecordDecision, PersistOK
  <2>2. PruneChannels(Verdict(i, a, v), decided) \in [Ids -> {"none", "open", "closed"}]
    BY PruneChannelsType DEF TypeOK
  <2>3. decided' \in [Ids -> {"none", "open", "closed"}]
    BY <1>3, <2>2 DEF RecordDecision
  <2>4. answered' \subseteq (Ids \X {"approved", "denied"})
    BY <1>3 DEF RecordDecision, TypeOK
  <2> QED
    BY <2>1, <2>3, <2>4
<1>4. ASSUME NEW i \in Ids, RollBackDecision(i)
      PROVE  /\ file' \in [Ids -> Request \cup {Absent}]
             /\ requests' \in [Ids -> Request \cup {Absent}]
             /\ decided' \in [Ids -> {"none", "open", "closed"}]
             /\ answered' \subseteq (Ids \X {"approved", "denied"})
  BY <1>4, PruneType, PruneChannelsType DEF TypeOK, RollBackDecision, PersistFails
<1>5. ASSUME NEW a \in Approvers, NEW i \in Ids, NEW v \in {"approved", "denied"},
             DecideAtOnce(a, i, v)
      PROVE  TypeOK'
  BY <1>3, <1>4, <1>5 DEF TypeOK, DecideAtOnce, MayDecide, Pending
<1>6. ASSUME NEW a \in Approvers, NEW i \in Ids, DecideLookup(a, i) PROVE TypeOK'
  BY <1>6 DEF TypeOK, DecideLookup, store, hist
<1>7. ASSUME NEW a \in Approvers, LookupRefuses(a) PROVE TypeOK'
  BY <1>7 DEF TypeOK, LookupRefuses, store, hist, Idle
<1>8. ASSUME NEW a \in Approvers, LookupAccepts(a) PROVE TypeOK'
  <2>1. calls[a].id \in Ids
    BY <1>8 DEF TypeOK, CallsChecked, LookupAccepts
  <2> QED
    BY <1>8, <2>1 DEF TypeOK, LookupAccepts, store
<1>9. ASSUME NEW a \in Approvers, DecideRelocked(a) PROVE TypeOK'
  <2>1. calls[a].id \in Ids
    BY <1>9 DEF TypeOK, CallsChecked, DecideRelocked
  <2>2. requests[calls[a].id] # Absent
    BY <1>9 DEF DecideRelocked, StillPending, Pending
  <2> QED
    BY <1>3, <1>4, <1>9, <2>1, <2>2 DEF TypeOK, DecideRelocked, Idle
<1>10. ASSUME NEW a \in Approvers, DecideTooLate(a) PROVE TypeOK'
  BY <1>10 DEF TypeOK, DecideTooLate, store, hist, Idle
<1>11. ASSUME NEW i \in Ids, WaitStarts(i) PROVE TypeOK'
  <2>1. Nothing \in [status : {"none", "pending", "approved", "denied", "expired"},
                     approver : Approvers \cup {NoOne}, err : BOOLEAN]
    BY DEF Nothing
  <2>2. [Nothing EXCEPT !.err = TRUE] \in
           [status : {"none", "pending", "approved", "denied", "expired"},
            approver : Approvers \cup {NoOne}, err : BOOLEAN]
    BY <2>1
  <2>3. /\ waiter' \in [Ids -> {"none", "created", "waiting", "woken", "cancelled",
                                "returned", "lost"}]
        /\ result' \in [Ids -> [status : {"none", "pending", "approved", "denied", "expired"},
                                approver : Approvers \cup {NoOne}, err : BOOLEAN]]
    <3>1. CASE requests[i] = Absent
      <4>1. result' = [result EXCEPT ![i] = [Nothing EXCEPT !.err = TRUE]]
        BY <1>11, <3>1 DEF WaitStarts
      <4>2. waiter' = [waiter EXCEPT ![i] = "returned"]
        BY <1>11, <3>1 DEF WaitStarts
      <4> QED
        BY <2>2, <4>1, <4>2 DEF TypeOK
    <3>2. CASE requests[i] # Absent
      <4>1. result' = result
        BY <1>11, <3>2 DEF WaitStarts
      <4>2. waiter' = [waiter EXCEPT ![i] = IF decided[i] = "closed" THEN "woken" ELSE "waiting"]
        BY <1>11, <3>2 DEF WaitStarts
      <4> QED
        BY <4>1, <4>2 DEF TypeOK
    <3> QED
      BY <3>1, <3>2
  <2> QED
    BY <1>11, <2>3 DEF TypeOK, WaitStarts, store, hist
<1>12. ASSUME NEW i \in Ids, WaitDecided(i) PROVE TypeOK'
  BY <1>12 DEF TypeOK, WaitDecided, store, hist
<1>13. ASSUME NEW i \in Ids, WaitTimer(i) PROVE TypeOK'
  <2>1. CASE TimerExpires(i)
    <3>1. Lapsed(i) \in [Ids -> Request \cup {Absent}]
      BY <2>1, LapsedType DEF TimerExpires
    <3>2. file' \in [Ids -> Request \cup {Absent}] /\ requests' \in [Ids -> Request \cup {Absent}]
      BY <1>13, <2>1, <3>1, PruneType DEF TypeOK, WaitTimer, PersistOK, PersistFails
    <3>3. [decided EXCEPT ![i] = "closed"] \in [Ids -> {"none", "open", "closed"}]
      BY DEF TypeOK
    <3>4. decided' = PruneChannels(Lapsed(i), [decided EXCEPT ![i] = "closed"])
      BY <1>13, <2>1 DEF WaitTimer
    <3>5. decided' \in [Ids -> {"none", "open", "closed"}]
      BY <3>3, <3>4, PruneChannelsType
    <3> QED
      BY <1>13, <3>2, <3>5 DEF TypeOK, WaitTimer, hist
  <2>2. CASE ~TimerExpires(i)
    BY <1>13, <2>2 DEF TypeOK, WaitTimer, store, hist
  <2> QED
    BY <2>1, <2>2
<1>14. ASSUME NEW i \in Ids, WaitCancelled(i) PROVE TypeOK'
  BY <1>14 DEF TypeOK, WaitCancelled, store, hist
<1>15. ASSUME NEW i \in Ids, WaitReturns(i) PROVE TypeOK'
  <2> DEFINE Result == [status : {"none", "pending", "approved", "denied", "expired"},
                        approver : Approvers \cup {NoOne}, err : BOOLEAN]
  <2>1. [Nothing EXCEPT !.err = (waiter[i] = "cancelled")] \in Result
    BY DEF Nothing
  <2>2. ASSUME requests[i] # Absent
        PROVE  [status |-> Effective(requests[i]), approver |-> requests[i].approver,
                err |-> waiter[i] = "cancelled"] \in Result
    <3>1. requests[i] \in Request
      BY <2>2 DEF TypeOK
    <3> QED
      BY <3>1 DEF Effective, Request
  <2>3. result' \in [Ids -> Result]
    BY <1>15, <2>1, <2>2 DEF TypeOK, WaitReturns
  <2>4. waiter' \in [Ids -> {"none", "created", "waiting", "woken", "cancelled",
                              "returned", "lost"}]
    BY <1>15 DEF TypeOK, WaitReturns
  <2> QED
    BY <1>15, <2>3, <2>4 DEF TypeOK, WaitReturns, store, hist
<1>16. CASE Tick
  BY <1>16 DEF TypeOK, Tick, store, hist
<1>17. ASSUME MemoryGone
       PROVE  /\ requests' \in [Ids -> Request \cup {Absent}]
              /\ decided' \in [Ids -> {"none", "open", "closed"}]
              /\ up' \in BOOLEAN
              /\ calls' \in [Approvers -> [pc : {"idle", "lookup", "relock"}, id : Ids \cup {Absent}]]
              /\ waiter' \in [Ids -> {"none", "created", "waiting", "woken", "cancelled",
                                      "returned", "lost"}]
  BY <1>17 DEF TypeOK, MemoryGone, Idle
<1>18. CASE Crash
  BY <1>17, <1>18 DEF TypeOK, Crash, hist
<1>19. CASE CrashAfterRename
  <2>1. file' \in [Ids -> Request \cup {Absent}]
    <3>1. ASSUME NEW i \in Ids, NEW q \in Requesters, NEW kind \in Kinds,
                 PersistOK([requests EXCEPT ![i] = NewRequest(q, kind)])
          PROVE  file' \in [Ids -> Request \cup {Absent}]
      BY <3>1, CreatedType, PruneType DEF PersistOK
    <3>2. ASSUME NEW i \in Ids, NEW a \in Approvers, NEW v \in {"approved", "denied"},
                 requests[i] # Absent, PersistOK(Verdict(i, a, v))
          PROVE  file' \in [Ids -> Request \cup {Absent}]
      BY <3>2, VerdictType, PruneType DEF PersistOK
    <3>3. ASSUME NEW i \in Ids, requests[i] # Absent, PersistOK(Lapsed(i))
          PROVE  file' \in [Ids -> Request \cup {Absent}]
      BY <3>3, LapsedType, PruneType DEF PersistOK
    <3>4. ASSUME NEW a \in Approvers, calls[a].pc = "relock" PROVE calls[a].id \in Ids
      BY <3>4 DEF TypeOK, CallsChecked
    <3> QED
      BY <1>19, <3>1, <3>2, <3>3, <3>4
         DEF CrashAfterRename, MayDecide, StillPending, Pending, TimerExpires
  <2>2. used' \subseteq Ids
    BY <1>19 DEF TypeOK, CrashAfterRename
  <2> QED
    BY <1>17, <1>19, <2>1, <2>2 DEF TypeOK, CrashAfterRename
<1>20. CASE Restart
  BY <1>20 DEF TypeOK, Restart, Request, hist
<1>21. CASE UNCHANGED vars
  BY <1>21 DEF TypeOK, vars, store, hist
<1> QED
  BY <1>1, <1>2, <1>5, <1>6, <1>7, <1>8, <1>9, <1>10, <1>11, <1>12, <1>13, <1>14,
     <1>15, <1>16, <1>18, <1>19, <1>20, <1>21 DEF Next

-----------------------------------------------------------------------------
(* Time only makes entries older. *)
LEMMA OutlivedStays ==
    ASSUME TypeOK, NEW r \in Request, Outlived(r), Tick PROVE Outlived(r)'
  BY StoreAssumption DEF StoreAssumption, TypeOK, Request, Outlived, Effective, Tick

(* What a critical section may make of the entry of request i before it      *)
(* prunes: leave it, open it, expire it or decide it.                        *)
Opens(i, g) ==
    /\ i \notin used
    /\ g # Absent /\ g.status = "pending" /\ g.approver = NoOne /\ g.expires >= clock

Expires(i, g) ==
    /\ requests[i] # Absent /\ requests[i].status = "pending"
    /\ clock >= requests[i].expires
    /\ g = [requests[i] EXCEPT !.status = "expired", !.decidedAt = clock]

Decides(i, g) ==
    /\ requests[i] # Absent /\ requests[i].status = "pending"
    /\ \E a \in Approvers, v \in {"approved", "denied"} :
          g = [requests[i] EXCEPT !.status = v, !.approver = a, !.decidedAt = clock]
    /\ ProperDecision(i, g)

Moves(i, g) == g = requests[i] \/ Opens(i, g) \/ Expires(i, g) \/ Decides(i, g)

Good(M) ==
    /\ M \in [Ids -> Request \cup {Absent}]
    /\ \A i \in Ids : Moves(i, M[i])

LEMMA RequestsGood == IInv => Good(requests)
  BY DEF IInv, TypeOK, Good, Moves

LEMMA CreatedGood ==
    ASSUME IInv, NEW i \in Ids, NEW q \in Requesters, NEW kind \in Kinds, i \notin used
    PROVE  Good([requests EXCEPT ![i] = NewRequest(q, kind)])
<1> DEFINE M == [requests EXCEPT ![i] = NewRequest(q, kind)]
<1>1. M \in [Ids -> Request \cup {Absent}]
  BY CreatedType DEF IInv
<1>2. NewRequest(q, kind) # Absent
  BY StoreAssumption DEF StoreAssumption, IInv, TypeOK, NewRequest, Request, RequestKinds
<1>3. Opens(i, M[i])
  BY <1>2, StoreAssumption DEF StoreAssumption, IInv, TypeOK, Opens, NewRequest
<1>4. \A j \in Ids : j # i => M[j] = requests[j]
  BY DEF IInv, TypeOK
<1> QED
  BY <1>1, <1>3, <1>4 DEF Good, Moves

LEMMA LapsedGood ==
    ASSUME IInv, NEW i \in Ids, TimerExpires(i), clock >= requests[i].expires
    PROVE  Good(Lapsed(i))
<1>1. Lapsed(i) \in [Ids -> Request \cup {Absent}]
  BY LapsedType DEF IInv, TimerExpires
<1>2. Expires(i, Lapsed(i)[i])
  BY DEF IInv, TypeOK, Lapsed, Expires, TimerExpires
<1>3. \A j \in Ids : j # i => Lapsed(i)[j] = requests[j]
  BY DEF IInv, TypeOK, Lapsed
<1> QED
  BY <1>1, <1>2, <1>3 DEF Good, Moves

(* The checks of decide, under the mutex, make its verdict a proper one. *)
LEMMA VerdictGood ==
    ASSUME IInv, NEW i \in Ids, NEW a \in Approvers, NEW v \in {"approved", "denied"},
           Pending(i), a \in Names, Canon[a] # Canon[requests[i].requester],
           NeedsLookup(i, v) => <<a, i>> \in vouched
    PROVE  Good(Verdict(i, a, v))
<1> DEFINE g == [requests[i] EXCEPT !.status = v, !.approver = a, !.decidedAt = clock]
<1>1. requests[i] # Absent /\ requests[i] \in Request
  BY DEF IInv, TypeOK, Pending
<1>2. Verdict(i, a, v) \in [Ids -> Request \cup {Absent}]
  BY <1>1, VerdictType DEF IInv
<1>3. requests[i].status = "pending" /\ clock <= requests[i].expires
  BY <1>1 DEF Pending, Effective, IInv, TypeOK, Request
<1>4. /\ g.status = v /\ g.approver = a /\ g.decidedAt = clock
      /\ g.kind = requests[i].kind /\ g.requester = requests[i].requester
      /\ g.expires = requests[i].expires
  BY <1>1 DEF Request
<1>5. ProperDecision(i, g)
  BY <1>1, <1>3, <1>4 DEF ProperDecision, NeedsLookup
<1>6. Verdict(i, a, v)[i] = g
  BY DEF IInv, TypeOK, Verdict
<1>7. Decides(i, Verdict(i, a, v)[i])
  BY <1>1, <1>3, <1>5, <1>6 DEF Decides
<1>8. \A j \in Ids : j # i => Verdict(i, a, v)[j] = requests[j]
  BY DEF IInv, TypeOK, Verdict
<1> QED
  BY <1>2, <1>7, <1>8 DEF Good, Moves

(* Entries in memory are proper decisions too, for they are the file's. *)
LEMMA GoodProper ==
    ASSUME IInv, NEW M, Good(M), NEW i \in Ids, M[i] # Absent
    PROVE  ProperDecision(i, M[i])
<1>1. ASSUME requests[i] # Absent PROVE ProperDecision(i, requests[i])
  <2>1. up
    BY <1>1 DEF IInv, DownIsEmpty
  <2>2. CASE requests[i] = file[i]
    BY <1>1, <2>2 DEF IInv, FourEyesEnforced
  <2>3. CASE /\ file[i] # Absent /\ requests[i] # Absent
             /\ requests[i] = [file[i] EXCEPT !.status = "expired",
                                              !.decidedAt = requests[i].decidedAt]
    <3>1. file[i] \in Request
      BY <2>3 DEF IInv, TypeOK
    <3>2. \A d : [file[i] EXCEPT !.status = "expired", !.decidedAt = d].status = "expired"
      BY <3>1 DEF Request
    <3>3. requests[i].status = "expired"
      BY <2>3, <3>2
    <3> QED
      BY <3>3 DEF ProperDecision
  <2> QED
    BY <1>1, <2>1, <2>2, <2>3 DEF IInv, MemoryMatchesFile
<1>2. ASSUME Expires(i, M[i]) PROVE M[i].status = "expired"
  BY <1>2 DEF Expires, IInv, TypeOK, Request
<1> QED
  BY <1>1, <1>2 DEF Good, Moves, Opens, Decides, ProperDecision

(* A decided entry of the file is the one in memory, or has outlived its     *)
(* retention.                                                                *)
LEMMA GoodSticks ==
    ASSUME IInv, up, NEW M, Good(M), NEW i \in Ids,
           file[i] # Absent, file[i].status \in {"approved", "denied"}
    PROVE  M[i] = file[i] \/ (M[i] = Absent /\ Outlived(file[i]))
<1>1. requests[i] = file[i] \/ (requests[i] = Absent /\ Outlived(file[i]))
  BY DEF IInv, MemoryMatchesFile
<1>2. M[i] = requests[i]
  BY <1>1 DEF Good, Moves, Opens, Expires, Decides, IInv, KnownIsUsed
<1> QED
  BY <1>1, <1>2

(* No critical section changes who asked. *)
LEMMA GoodRequester ==
    ASSUME IInv, NEW M, Good(M), NEW i \in Ids, i \in used, M[i] # Absent
    PROVE  requests[i] # Absent /\ M[i].requester = requests[i].requester
<1>1. CASE M[i] = requests[i]
  BY <1>1
<1>2. CASE Expires(i, M[i])
  BY <1>2 DEF Expires, IInv, TypeOK, Request
<1>3. CASE Decides(i, M[i])
  BY <1>3 DEF Decides, IInv, TypeOK, Request
<1> QED
  BY <1>1, <1>2, <1>3 DEF Good, Moves, Opens

LEMMA GoodUndecided ==
    ASSUME IInv, NEW M, Good(M), NEW i \in Ids, M[i] # Absent
    PROVE  Undecided(M[i])
<1>1. ASSUME requests[i] # Absent PROVE Undecided(requests[i])
  <2>1. up
    BY <1>1 DEF IInv, DownIsEmpty
  <2>2. CASE requests[i] = file[i]
    BY <1>1, <2>2 DEF IInv, UndecidedInFile
  <2>3. CASE /\ file[i] # Absent /\ file[i].status = "pending"
             /\ requests[i] = [file[i] EXCEPT !.status = "expired",
                                              !.decidedAt = requests[i].decidedAt]
    <3>1. file[i] \in Request
      BY <2>3 DEF IInv, TypeOK
    <3>2. \A d : [file[i] EXCEPT !.status = "expired", !.decidedAt = d].approver = file[i].approver
      BY <3>1 DEF Request
    <3>3. requests[i].approver = file[i].approver
      BY <2>3, <3>2
    <3> QED
      BY <2>3, <3>3 DEF IInv, UndecidedInFile, Undecided
  <2> QED
    BY <1>1, <2>1, <2>2, <2>3 DEF IInv, MemoryMatchesFile
<1>2. ASSUME Expires(i, M[i]) PROVE Undecided(M[i])
  <2>1. requests[i] \in Request /\ requests[i].approver = NoOne
    BY <1>1, <1>2 DEF Expires, IInv, TypeOK, Undecided
  <2>2. M[i].approver = NoOne
    BY <1>2, <2>1 DEF Expires, Request
  <2> QED
    BY <2>2 DEF Undecided
<1>3. ASSUME Decides(i, M[i]) PROVE Undecided(M[i])
  <2>1. requests[i] \in Request
    BY <1>3 DEF Decides, IInv, TypeOK
  <2>2. M[i].status \in {"approved", "denied"}
    BY <1>3, <2>1 DEF Decides, Request
  <2> QED
    BY <2>2 DEF Undecided
<1> QED
  BY <1>1, <1>2, <1>3 DEF Good, Moves, Opens, Undecided

-----------------------------------------------------------------------------
(* A critical section that persists the map M. *)
LEMMA PersistedStep ==
    ASSUME IInv, up, up', NEW M, Good(M),
           file' = Prune(M), requests' = Prune(M),
           clock' = clock, vouched' = vouched, used \subseteq used',
           \A i \in Ids : M[i] # Absent => i \in used',
           \A a \in Approvers : calls'[a] = calls[a] \/ calls'[a] = Idle
    PROVE  /\ DownIsEmpty' /\ KnownIsUsed' /\ MemoryMatchesFile'
           /\ FourEyesEnforced' /\ UndecidedInFile' /\ CallsChecked'
<1>1. \A i \in Ids : Prune(M)[i] # Absent => Prune(M)[i] = M[i] /\ M[i] # Absent
  BY PruneEntry
<1>2. DownIsEmpty' /\ KnownIsUsed' /\ MemoryMatchesFile'
  BY <1>1 DEF DownIsEmpty, KnownIsUsed, MemoryMatchesFile
<1>3. FourEyesEnforced' /\ UndecidedInFile'
  BY <1>1, GoodProper, GoodUndecided DEF FourEyesEnforced, UndecidedInFile, ProperDecision
<1>4. CallsChecked'
  <2> SUFFICES ASSUME NEW a \in Approvers, calls'[a].pc # "idle"
               PROVE  /\ a \in Names
                      /\ calls'[a].id \in used'
                      /\ requests'[calls'[a].id] # Absent =>
                            Canon[a] # Canon[requests'[calls'[a].id].requester]
                      /\ calls'[a].pc = "relock" => <<a, calls'[a].id>> \in vouched'
    BY DEF CallsChecked
  <2>1. calls'[a] = calls[a] /\ calls[a].pc # "idle"
    BY DEF Idle
  <2>2. calls[a].id \in Ids /\ calls[a].id \in used
    BY <2>1 DEF IInv, TypeOK, CallsChecked
  <2> QED
    BY <1>1, <2>1, <2>2, GoodRequester DEF IInv, CallsChecked
<1> QED
  BY <1>2, <1>3, <1>4

(* A critical section whose write fails, after pruning the map in memory. *)
LEMMA UnpersistedStep ==
    ASSUME IInv, up, up', NEW M, M \in [Ids -> Request \cup {Absent}],
           \A i \in Ids : M[i] = requests[i] \/ Expires(i, M[i]),
           file' = file, requests' = Prune(M),
           clock' = clock, vouched' = vouched, used' = used,
           \A a \in Approvers : calls'[a] = calls[a] \/ calls'[a] = Idle
    PROVE  /\ DownIsEmpty' /\ KnownIsUsed' /\ MemoryMatchesFile'
           /\ FourEyesEnforced' /\ UndecidedInFile' /\ CallsChecked'
<1>1. Good(M)
  BY DEF Good, Moves
<1>2. \A i \in Ids : Prune(M)[i] # Absent => Prune(M)[i] = M[i] /\ M[i] # Absent
  BY PruneEntry
<1>3. \A i \in Ids : M[i] # Absent => requests[i] # Absent
  BY DEF Expires
<1>4. DownIsEmpty' /\ KnownIsUsed' /\ FourEyesEnforced' /\ UndecidedInFile'
  BY <1>2, <1>3 DEF IInv, DownIsEmpty, KnownIsUsed, FourEyesEnforced, UndecidedInFile, ProperDecision
<1>5. CallsChecked'
  <2> SUFFICES ASSUME NEW a \in Approvers, calls'[a].pc # "idle"
               PROVE  /\ a \in Names
                      /\ calls'[a].id \in used'
                      /\ requests'[calls'[a].id] # Absent =>
                            Canon[a] # Canon[requests'[calls'[a].id].requester]
                      /\ calls'[a].pc = "relock" => <<a, calls'[a].id>> \in vouched'
    BY DEF CallsChecked
  <2>1. calls'[a] = calls[a] /\ calls[a].pc # "idle"
    BY DEF Idle
  <2>2. calls[a].id \in Ids /\ calls[a].id \in used
    BY <2>1 DEF IInv, TypeOK, CallsChecked
  <2> QED
    BY <1>1, <1>2, <2>1, <2>2, GoodRequester DEF IInv, CallsChecked
<1>6. MemoryMatchesFile'
  <2> DEFINE Agree(i, r) ==
               \/ r = file[i]
               \/ file[i] # Absent /\ r = Absent /\ Outlived(file[i])
               \/ /\ file[i] # Absent /\ r # Absent
                  /\ file[i].status = "pending" /\ clock >= file[i].expires
                  /\ r = [file[i] EXCEPT !.status = "expired", !.decidedAt = r.decidedAt]
  <2>1. ASSUME NEW i \in Ids PROVE Agree(i, requests[i])
    BY DEF IInv, MemoryMatchesFile
  <2>2. ASSUME NEW i \in Ids PROVE Agree(i, M[i])
    <3>1. CASE M[i] = requests[i]
      BY <2>1, <3>1
    <3>2. CASE Expires(i, M[i])
      <4>1. requests[i] = file[i]
        <5>1. ASSUME file[i] # Absent, NEW d,
                     requests[i] = [file[i] EXCEPT !.status = "expired", !.decidedAt = d]
              PROVE  requests[i].status = "expired"
          BY <5>1 DEF IInv, TypeOK, Request
        <5> QED
          BY <2>1, <3>2, <5>1 DEF Expires
      <4>2. file[i] # Absent /\ file[i] \in Request /\ M[i] # Absent
        <5>1. file[i] # Absent
          BY <3>2, <4>1 DEF Expires
        <5>2. file[i] \in Request /\ clock \in Nat
          BY <5>1 DEF IInv, TypeOK
        <5>3. [file[i] EXCEPT !.status = "expired", !.decidedAt = clock] \in Request
          BY <5>2 DEF Request
        <5>4. M[i] \in Request
          BY <3>2, <4>1, <5>3 DEF Expires
        <5> QED
          BY <5>1, <5>2, <5>4, StoreAssumption DEF StoreAssumption
      <4>3. M[i] = [file[i] EXCEPT !.status = "expired", !.decidedAt = clock]
        BY <3>2, <4>1 DEF Expires
      <4>4. [file[i] EXCEPT !.status = "expired", !.decidedAt = clock].decidedAt = clock
        BY <4>2 DEF Request
      <4>5. M[i] = [file[i] EXCEPT !.status = "expired", !.decidedAt = M[i].decidedAt]
        BY <4>3, <4>4
      <4>6. file[i].status = "pending" /\ clock >= file[i].expires
        BY <3>2, <4>1 DEF Expires
      <4> QED
        BY <4>2, <4>5, <4>6
    <3> QED
      BY <3>1, <3>2
  <2>3. ASSUME NEW i \in Ids PROVE Agree(i, Prune(M)[i])
    <3>1. CASE Prune(M)[i] = M[i]
      BY <2>2, <3>1
    <3>2. CASE M[i] # Absent /\ Outlived(M[i]) /\ Prune(M)[i] = Absent
      <4>1. CASE M[i] = file[i]
        BY <3>2, <4>1
      <4>2. ASSUME file[i] # Absent, file[i].status = "pending", NEW d,
                   M[i] = [file[i] EXCEPT !.status = "expired", !.decidedAt = d]
            PROVE  Outlived(file[i])
        <5>1. file[i] \in Request
          BY <4>2 DEF IInv, TypeOK
        <5>2. M[i].expires = file[i].expires
          BY <4>2, <5>1 DEF Request
        <5>3. clock > file[i].expires + Retention
          BY <3>2, <5>2 DEF Outlived
        <5>4. clock > file[i].expires
          BY <5>1, <5>3, StoreAssumption DEF StoreAssumption, IInv, TypeOK, Request
        <5> QED
          BY <4>2, <5>3, <5>4 DEF Outlived, Effective
      <4> QED
        BY <2>2, <3>2, <4>1, <4>2
    <3> QED
      BY <3>1, <3>2, PruneEntry
  <2> QED
    BY <2>3 DEF MemoryMatchesFile, Outlived, Effective
<1> QED
  BY <1>4, <1>5, <1>6

(* A step that leaves the store alone: a lookup, or a step of Wait. *)
LEMMA QuietStep ==
    ASSUME IInv, file' = file, requests' = requests, clock' = clock, up' = up, used' = used,
           vouched \subseteq vouched',
           \A a \in Approvers :
              \/ calls'[a] = calls[a]
              \/ calls'[a] = Idle
              \/ /\ up /\ a \in Names /\ calls'[a].id \in used
                 /\ requests[calls'[a].id] # Absent =>
                       Canon[a] # Canon[requests[calls'[a].id].requester]
                 /\ calls'[a].pc = "relock" => <<a, calls'[a].id>> \in vouched'
    PROVE  /\ DownIsEmpty' /\ KnownIsUsed' /\ MemoryMatchesFile'
           /\ FourEyesEnforced' /\ UndecidedInFile' /\ CallsChecked'
<1>1. DownIsEmpty' /\ KnownIsUsed' /\ UndecidedInFile'
  BY DEF IInv, DownIsEmpty, KnownIsUsed, UndecidedInFile
<1>2. MemoryMatchesFile'
  BY DEF IInv, MemoryMatchesFile, Outlived, Effective
<1>3. FourEyesEnforced'
  BY DEF IInv, FourEyesEnforced, ProperDecision
<1>4. CallsChecked'
  BY DEF IInv, CallsChecked, Idle
<1> QED
  BY <1>1, <1>2, <1>3, <1>4

LEMMA TickStep ==
    ASSUME IInv, Tick
    PROVE  /\ DownIsEmpty' /\ KnownIsUsed' /\ MemoryMatchesFile'
           /\ FourEyesEnforced' /\ UndecidedInFile' /\ CallsChecked'
<1> USE DEF store, hist
<1>1. DownIsEmpty' /\ KnownIsUsed' /\ FourEyesEnforced' /\ UndecidedInFile' /\ CallsChecked'
  BY DEF IInv, Tick, DownIsEmpty, KnownIsUsed, FourEyesEnforced, ProperDecision,
         UndecidedInFile, CallsChecked
<1>2. \A i \in Ids : file[i] # Absent /\ Outlived(file[i]) => Outlived(file[i])'
  BY OutlivedStays DEF IInv, TypeOK, Tick
<1>3. \A i \in Ids : file[i] # Absent /\ clock >= file[i].expires => clock' >= file[i].expires
  BY DEF IInv, TypeOK, Tick, Request
<1>4. MemoryMatchesFile'
  BY <1>2, <1>3 DEF IInv, MemoryMatchesFile, Tick
<1> QED
  BY <1>1, <1>4

(* The process dies, with what it has written in place. *)
LEMMA CrashStep ==
    ASSUME IInv, MemoryGone, clock' = clock, vouched' = vouched, used \subseteq used',
           \/ file' = file
           \/ /\ used' = used \cup {i \in Ids : file'[i] # Absent}
              /\ \E M : Good(M) /\ file' = Prune(M)
    PROVE  /\ DownIsEmpty' /\ KnownIsUsed' /\ MemoryMatchesFile'
           /\ FourEyesEnforced' /\ UndecidedInFile' /\ CallsChecked'
<1>1. DownIsEmpty' /\ MemoryMatchesFile' /\ CallsChecked'
  BY DEF DownIsEmpty, MemoryMatchesFile, CallsChecked, MemoryGone, Idle
<1>2. KnownIsUsed'
  BY DEF IInv, KnownIsUsed, MemoryGone
<1>3. FourEyesEnforced' /\ UndecidedInFile'
  <2>1. CASE file' = file
    BY <2>1 DEF IInv, FourEyesEnforced, UndecidedInFile, ProperDecision
  <2>2. CASE \E M : Good(M) /\ file' = Prune(M)
    <3>1. PICK M : Good(M) /\ file' = Prune(M)
      BY <2>2
    <3>2. \A i \in Ids : file'[i] # Absent => file'[i] = M[i] /\ M[i] # Absent
      BY <3>1, PruneEntry
    <3> QED
      BY <3>1, <3>2, GoodProper, GoodUndecided
         DEF FourEyesEnforced, UndecidedInFile, ProperDecision
  <2> QED
    BY <2>1, <2>2
<1> QED
  BY <1>1, <1>2, <1>3

(* The file a handler leaves behind when it dies after the rename. *)
LEMMA RenamedGood ==
    ASSUME IInv, CrashAfterRename
    PROVE  \E M : Good(M) /\ file' = Prune(M)
<1>1. ASSUME NEW i \in Ids \ used, NEW q \in Requesters, NEW kind \in Kinds,
             PersistOK([requests EXCEPT ![i] = NewRequest(q, kind)])
      PROVE  \E M : Good(M) /\ file' = Prune(M)
  BY <1>1, CreatedGood DEF PersistOK
<1>2. ASSUME NEW i \in Ids, NEW a \in Approvers, NEW v \in {"approved", "denied"},
             MayDecide(i, a), ~NeedsLookup(i, v), PersistOK(Verdict(i, a, v))
      PROVE  \E M : Good(M) /\ file' = Prune(M)
  <2>1. a \in Names
    BY <1>2, StoreAssumption DEF MayDecide, StoreAssumption
  <2> QED
    BY <1>2, <2>1, VerdictGood DEF PersistOK, MayDecide
<1>3. ASSUME NEW a \in Approvers, calls[a].pc = "relock", StillPending(calls[a].id),
             PersistOK(Verdict(calls[a].id, a, "approved"))
      PROVE  \E M : Good(M) /\ file' = Prune(M)
  <2>1. calls[a].id \in Ids
    BY <1>3 DEF IInv, TypeOK, CallsChecked
  <2>2. /\ Pending(calls[a].id) /\ a \in Names
        /\ Canon[a] # Canon[requests[calls[a].id].requester]
        /\ <<a, calls[a].id>> \in vouched
    BY <1>3 DEF IInv, CallsChecked, StillPending, Pending
  <2> QED
    BY <1>3, <2>1, <2>2, VerdictGood DEF PersistOK
<1>4. ASSUME NEW i \in Ids, TimerExpires(i), clock >= requests[i].expires, PersistOK(Lapsed(i))
      PROVE  \E M : Good(M) /\ file' = Prune(M)
  BY <1>4, LapsedGood DEF PersistOK
<1> QED
  BY <1>1, <1>2, <1>3, <1>4 DEF CrashAfterRename

-----------------------------------------------------------------------------
(* The invariant survives every step. *)
LEMMA StepPreserves == IInv /\ [Next]_vars => IInv'
<1> SUFFICES ASSUME IInv, [Next]_vars
             PROVE  /\ DownIsEmpty' /\ KnownIsUsed' /\ MemoryMatchesFile'
                    /\ FourEyesEnforced' /\ UndecidedInFile' /\ CallsChecked'
  BY TypeStep DEF IInv
<1> DEFINE Rest == /\ DownIsEmpty /\ KnownIsUsed /\ MemoryMatchesFile
                   /\ FourEyesEnforced /\ UndecidedInFile /\ CallsChecked
<1>0. calls \in [Approvers -> [pc : {"idle", "lookup", "relock"}, id : Ids \cup {Absent}]]
  BY DEF IInv, TypeOK
<1>1. ASSUME NEW i \in Ids, Create(i) PROVE Rest'
  <2>1. PICK q \in Requesters, kind \in Kinds :
           LET reqs == [requests EXCEPT ![i] = NewRequest(q, kind)]
           IN  PersistOK(reqs) /\ requests' = Prune(reqs)
    BY <1>1 DEF Create
  <2> DEFINE M == [requests EXCEPT ![i] = NewRequest(q, kind)]
  <2>2. Good(M)
    BY <1>1, CreatedGood DEF Create
  <2>3. \A j \in Ids : M[j] # Absent => j \in used'
    BY <1>1 DEF Create, IInv, TypeOK, KnownIsUsed
  <2>4. file' = Prune(M) /\ requests' = Prune(M)
    BY <2>1 DEF PersistOK
  <2> HIDE DEF M
  <2> QED
    BY <1>1, <2>2, <2>3, <2>4, PersistedStep DEF Create
<1>2. ASSUME NEW i \in Ids, CreateFails(i) PROVE Rest'
  BY <1>2, UnpersistedStep DEF CreateFails, PersistFails, hist, IInv, TypeOK
<1>3. ASSUME NEW a \in Approvers, NEW i \in Ids, NEW v \in {"approved", "denied"},
             RecordDecision(i, a, v), Good(Verdict(i, a, v)), requests[i] # Absent, up, up',
             clock' = clock, vouched' = vouched, used' = used,
             \A b \in Approvers : calls'[b] = calls[b] \/ calls'[b] = Idle
      PROVE  Rest'
  <2>1. \A j \in Ids : Verdict(i, a, v)[j] # Absent => j \in used'
    BY <1>3 DEF Verdict, IInv, TypeOK, KnownIsUsed
  <2> QED
    BY <1>3, <2>1, PersistedStep DEF RecordDecision, PersistOK
<1>4. ASSUME NEW i \in Ids, RollBackDecision(i), up, up',
             clock' = clock, vouched' = vouched, used' = used,
             \A b \in Approvers : calls'[b] = calls[b] \/ calls'[b] = Idle
      PROVE  Rest'
  BY <1>4, UnpersistedStep DEF RollBackDecision, PersistFails, IInv, TypeOK
<1>5. ASSUME NEW a \in Approvers, NEW i \in Ids, NEW v \in {"approved", "denied"},
             DecideAtOnce(a, i, v)
      PROVE  Rest'
  <2>1. a \in Names /\ Pending(i) /\ requests[i] # Absent
    BY <1>5, StoreAssumption DEF DecideAtOnce, MayDecide, Pending, StoreAssumption
  <2>2. Good(Verdict(i, a, v))
    BY <1>5, <2>1, VerdictGood DEF DecideAtOnce, MayDecide
  <2>3. /\ up /\ up' /\ clock' = clock /\ vouched' = vouched /\ used' = used
        /\ \A b \in Approvers : calls'[b] = calls[b] \/ calls'[b] = Idle
    BY <1>5 DEF DecideAtOnce
  <2> QED
    BY <1>3, <1>4, <1>5, <2>1, <2>2, <2>3 DEF DecideAtOnce
<1>6. ASSUME NEW a \in Approvers, NEW i \in Ids, DecideLookup(a, i) PROVE Rest'
  <2>1. a \in Names /\ requests[i] # Absent /\ Canon[a] # Canon[requests[i].requester]
    BY <1>6, StoreAssumption DEF DecideLookup, MayDecide, Pending, StoreAssumption
  <2>2. i \in used
    BY <2>1 DEF IInv, KnownIsUsed
  <2>3. calls'[a] = [pc |-> "lookup", id |-> i] /\ \A b \in Approvers : b # a => calls'[b] = calls[b]
    BY <1>0, <1>6 DEF DecideLookup
  <2> QED
    BY <1>6, <2>1, <2>2, <2>3, QuietStep DEF DecideLookup, store, hist
<1>7. ASSUME NEW a \in Approvers, LookupRefuses(a) \/ DecideTooLate(a) PROVE Rest'
  <2>1. \A b \in Approvers : calls'[b] = calls[b] \/ calls'[b] = Idle
    BY <1>0, <1>7 DEF LookupRefuses, DecideTooLate
  <2> QED
    BY <1>7, <2>1, QuietStep DEF LookupRefuses, DecideTooLate, store, hist
<1>8. ASSUME NEW a \in Approvers, LookupAccepts(a) PROVE Rest'
  <2>1. /\ calls'[a] = [calls[a] EXCEPT !.pc = "relock"]
        /\ calls'[a].id = calls[a].id
        /\ \A b \in Approvers : b # a => calls'[b] = calls[b]
    BY <1>0, <1>8 DEF LookupAccepts
  <2>2. /\ up /\ a \in Names /\ calls[a].id \in used
        /\ requests[calls[a].id] # Absent => Canon[a] # Canon[requests[calls[a].id].requester]
    <3>1. calls[a].pc = "lookup" /\ calls[a] # Idle
      BY <1>8 DEF LookupAccepts, Idle
    <3>2. up
      BY <3>1 DEF IInv, DownIsEmpty
    <3> QED
      BY <3>1, <3>2 DEF IInv, CallsChecked
  <2>3. <<a, calls[a].id>> \in vouched' /\ vouched \subseteq vouched'
    BY <1>8 DEF LookupAccepts
  <2> QED
    BY <1>8, <2>1, <2>2, <2>3, QuietStep DEF LookupAccepts, store
<1>9. ASSUME NEW a \in Approvers, DecideRelocked(a) PROVE Rest'
  <2>1. /\ calls[a].id \in Ids /\ a \in Names /\ <<a, calls[a].id>> \in vouched
        /\ Pending(calls[a].id) /\ requests[calls[a].id] # Absent
        /\ Canon[a] # Canon[requests[calls[a].id].requester]
    BY <1>9 DEF DecideRelocked, StillPending, Pending, IInv, TypeOK, CallsChecked
  <2>2. Good(Verdict(calls[a].id, a, "approved"))
    BY <2>1, VerdictGood
  <2>3. /\ up /\ up' /\ clock' = clock /\ vouched' = vouched /\ used' = used
        /\ \A b \in Approvers : calls'[b] = calls[b] \/ calls'[b] = Idle
    BY <1>0, <1>9 DEF DecideRelocked, IInv, DownIsEmpty, Idle
  <2> QED
    BY <1>3, <1>4, <1>9, <2>1, <2>2, <2>3 DEF DecideRelocked
<1>10. ASSUME NEW i \in Ids, WaitStarts(i) \/ WaitDecided(i) \/ WaitCancelled(i) \/ WaitReturns(i)
       PROVE  Rest'
  BY <1>10, QuietStep DEF WaitStarts, WaitDecided, WaitCancelled, WaitReturns, store, hist
<1>11. ASSUME NEW i \in Ids, WaitTimer(i) PROVE Rest'
  <2>1. CASE ~TimerExpires(i)
    BY <1>11, <2>1, QuietStep DEF WaitTimer, store, hist
  <2>2. CASE TimerExpires(i)
    <3>1. requests[i] # Absent /\ clock >= requests[i].expires /\ up
      BY <1>11, <2>2 DEF WaitTimer, TimerExpires, IInv, DownIsEmpty
    <3>2. Good(Lapsed(i))
      BY <2>2, <3>1, LapsedGood
    <3>3. \A j \in Ids : Lapsed(i)[j] = requests[j] \/ Expires(j, Lapsed(i)[j])
      BY <2>2, <3>1 DEF IInv, TypeOK, Lapsed, Expires, TimerExpires
    <3>4. \A j \in Ids : Lapsed(i)[j] # Absent => j \in used
      BY <3>3 DEF Expires, IInv, KnownIsUsed
    <3>5. /\ requests' = Prune(Lapsed(i)) /\ up' /\ clock' = clock /\ vouched' = vouched
          /\ used' = used /\ calls' = calls
          /\ file' = Prune(Lapsed(i)) \/ file' = file
      BY <1>11, <2>2, <3>1 DEF WaitTimer, PersistOK, PersistFails, hist
    <3>6. CASE file' = Prune(Lapsed(i))
      BY <3>1, <3>2, <3>4, <3>5, <3>6, PersistedStep
    <3>7. CASE file' = file
      BY <3>1, <3>2, <3>3, <3>5, <3>7, UnpersistedStep DEF Good
    <3> QED
      BY <3>5, <3>6, <3>7
  <2> QED
    BY <2>1, <2>2
<1>12. CASE Tick
  BY <1>12, TickStep
<1>13. CASE Crash
  BY <1>13, CrashStep DEF Crash, hist
<1>14. CASE CrashAfterRename
  <2>1. \E M : Good(M) /\ file' = Prune(M)
    BY <1>14, RenamedGood
  <2>2. /\ MemoryGone /\ clock' = clock /\ vouched' = vouched
        /\ used' = used \cup {i \in Ids : file'[i] # Absent}
    BY <1>14 DEF CrashAfterRename
  <2> QED
    BY <2>1, <2>2, CrashStep
<1>15. CASE Restart
  <2>1. DownIsEmpty' /\ KnownIsUsed' /\ MemoryMatchesFile'
    BY <1>15 DEF Restart, IInv, DownIsEmpty, KnownIsUsed, MemoryMatchesFile, hist
  <2>2. FourEyesEnforced' /\ UndecidedInFile'
    BY <1>15 DEF Restart, IInv, FourEyesEnforced, UndecidedInFile, ProperDecision, hist
  <2>3. CallsChecked'
    BY <1>15 DEF Restart, IInv, DownIsEmpty, CallsChecked, Idle
  <2> QED
    BY <2>1, <2>2, <2>3
<1>16. CASE UNCHANGED vars
  BY <1>16, QuietStep DEF vars, store, hist
<1> QED
  BY <1>1, <1>2, <1>5, <1>6, <1>7, <1>8, <1>9, <1>10, <1>11, <1>12, <1>13, <1>14,
     <1>15, <1>16 DEF Next

-----------------------------------------------------------------------------
(* The inductive invariant holds throughout. *)
THEOREM Invariance == Spec => []IInv
  BY InitEstablishes, StepPreserves, PTL DEF Spec

(* Every variable keeps its type, whatever races, fails or dies. *)
THEOREM TypeCorrect == Spec => []TypeOK
<1>1. IInv => TypeOK
  BY DEF IInv
<1> QED
  BY Invariance, <1>1, PTL

(* Every decision in the file was taken in time, by someone who is not the   *)
(* requester under any spelling, and where the requester's groups bind, by   *)
(* someone the directory vouched for: the window in which decide has dropped *)
(* the mutex for the lookup lets nothing else through.                       *)
THEOREM FourEyesHolds == Spec => []FourEyesEnforced
<1>1. IInv => FourEyesEnforced
  BY DEF IInv
<1> QED
  BY Invariance, <1>1, PTL

(* The map in memory and the file differ only by an expiry that could not be *)
(* written and by entries that outlived their retention.                     *)
THEOREM MemoryAgrees == Spec => []MemoryMatchesFile
<1>1. IInv => MemoryMatchesFile
  BY DEF IInv
<1> QED
  BY Invariance, <1>1, PTL

(* The file after a step, entry by entry: what a step of the running store   *)
(* may make of it.                                                           *)
LEMMA FileMoves ==
    ASSUME IInv, [Next]_vars
    PROVE  file' = file \/ (up /\ \E M : Good(M) /\ file' = Prune(M))
<1>1. ASSUME NEW i \in Ids, Create(i) PROVE up /\ \E M : Good(M) /\ file' = Prune(M)
  BY <1>1, CreatedGood DEF Create, PersistOK
<1>2. ASSUME NEW a \in Approvers, NEW i \in Ids, NEW v \in {"approved", "denied"},
             DecideAtOnce(a, i, v)
      PROVE  file' = file \/ (up /\ \E M : Good(M) /\ file' = Prune(M))
  <2>1. a \in Names
    BY <1>2, StoreAssumption DEF DecideAtOnce, MayDecide, StoreAssumption
  <2>2. up /\ Good(Verdict(i, a, v))
    BY <1>2, <2>1, VerdictGood DEF DecideAtOnce, MayDecide
  <2> QED
    BY <1>2, <2>2 DEF DecideAtOnce, RecordDecision, RollBackDecision, PersistOK, PersistFails
<1>3. ASSUME NEW a \in Approvers, DecideRelocked(a)
      PROVE  file' = file \/ (up /\ \E M : Good(M) /\ file' = Prune(M))
  <2>1. /\ calls[a].id \in Ids /\ a \in Names /\ <<a, calls[a].id>> \in vouched
        /\ Pending(calls[a].id)
        /\ Canon[a] # Canon[requests[calls[a].id].requester]
    BY <1>3 DEF DecideRelocked, StillPending, Pending, IInv, TypeOK, CallsChecked
  <2>2. Good(Verdict(calls[a].id, a, "approved"))
    BY <2>1, VerdictGood
  <2>3. up
    BY <1>3 DEF DecideRelocked, IInv, DownIsEmpty, Idle
  <2> QED
    BY <1>3, <2>2, <2>3 DEF DecideRelocked, RecordDecision, RollBackDecision, PersistOK, PersistFails
<1>4. ASSUME NEW i \in Ids, WaitTimer(i)
      PROVE  file' = file \/ (up /\ \E M : Good(M) /\ file' = Prune(M))
  <2>1. CASE ~TimerExpires(i)
    BY <1>4, <2>1 DEF WaitTimer, store
  <2>2. CASE TimerExpires(i)
    <3>1. up /\ clock >= requests[i].expires
      BY <1>4, <2>2 DEF WaitTimer, TimerExpires, IInv, DownIsEmpty
    <3> QED
      BY <1>4, <2>2, <3>1, LapsedGood DEF WaitTimer, PersistOK, PersistFails
  <2> QED
    BY <2>1, <2>2
<1>5. CASE CrashAfterRename
  BY <1>5, RenamedGood DEF CrashAfterRename
<1>6. CASE Crash \/ Tick \/ Restart \/ UNCHANGED vars
  BY <1>6 DEF Crash, Tick, Restart, vars, store
<1>7. ASSUME NEW i \in Ids, \/ CreateFails(i) \/ WaitStarts(i) \/ WaitDecided(i)
                            \/ WaitCancelled(i) \/ WaitReturns(i)
      PROVE  file' = file
  BY <1>7 DEF CreateFails, PersistFails, WaitStarts, WaitDecided, WaitCancelled, WaitReturns, store
<1>8. ASSUME NEW a \in Approvers, \/ LookupRefuses(a) \/ LookupAccepts(a) \/ DecideTooLate(a)
                                  \/ \E i \in Ids : DecideLookup(a, i)
      PROVE  file' = file
  BY <1>8 DEF LookupRefuses, LookupAccepts, DecideTooLate, DecideLookup, store
<1> QED
  BY <1>1, <1>2, <1>3, <1>4, <1>5, <1>6, <1>7, <1>8 DEF Next

(* A decision in the file never changes, and leaves it only after its        *)
(* retention.                                                                *)
THEOREM DecisionsAreFinal == Spec => DecisionsStick
<1>1. ASSUME IInv, [Next]_vars
      PROVE  [\A i \in Ids :
                 file[i] # Absent /\ file[i].status \in {"approved", "denied"} =>
                    \/ file'[i] = file[i]
                    \/ file'[i] = Absent /\ clock > file[i].expires + Retention]_vars
  <2> SUFFICES ASSUME NEW i \in Ids, file[i] # Absent, file[i].status \in {"approved", "denied"}
               PROVE  \/ file'[i] = file[i]
                      \/ file'[i] = Absent /\ clock > file[i].expires + Retention
    OBVIOUS
  <2>1. CASE file' = file
    BY <2>1
  <2>2. CASE up /\ \E M : Good(M) /\ file' = Prune(M)
    <3>1. PICK M : Good(M) /\ file' = Prune(M)
      BY <2>2
    <3>2. M[i] = file[i] \/ (M[i] = Absent /\ Outlived(file[i]))
      <4>1. up /\ IInv /\ Good(M)
        BY <1>1, <2>2, <3>1
      <4> QED
        BY <4>1, GoodSticks
    <3>3. file'[i] = M[i] \/ (M[i] # Absent /\ Outlived(M[i]) /\ file'[i] = Absent)
      BY <3>1, PruneEntry
    <3> QED
      BY <3>2, <3>3 DEF Outlived
  <2> QED
    BY <1>1, <2>1, <2>2, FileMoves
<1> QED
  BY Invariance, <1>1, PTL DEF Spec, DecisionsStick

-----------------------------------------------------------------------------
(* The history variable grows with the file. *)
LEMMA UsedGrows ==
    ASSUME IInv, [Next]_vars
    PROVE  used \subseteq used' /\ \A i \in Ids : i \in used' /\ i \notin used => file'[i] # Absent
<1>1. ASSUME NEW i \in Ids, Create(i)
      PROVE  used \subseteq used' /\ \A j \in Ids : j \in used' /\ j \notin used => file'[j] # Absent
  <2>1. PICK q \in Requesters, kind \in Kinds :
           PersistOK([requests EXCEPT ![i] = NewRequest(q, kind)])
    BY <1>1 DEF Create
  <2> DEFINE g == NewRequest(q, kind)
  <2>2. g # Absent /\ Effective(g) = "pending"
    <3>1. g \in Request
      BY StoreAssumption DEF StoreAssumption, IInv, TypeOK, NewRequest, Request, RequestKinds
    <3>2. g.status = "pending" /\ g.expires = clock + TTL
      BY DEF NewRequest
    <3> QED
      BY <3>1, <3>2, StoreAssumption DEF StoreAssumption, IInv, TypeOK, Effective
  <2>3. file'[i] = g
    <3>1. [requests EXCEPT ![i] = g][i] = g
      BY DEF IInv, TypeOK
    <3>2. ~Outlived(g)
      BY <2>2 DEF Outlived
    <3>3. file'[i] = Prune([requests EXCEPT ![i] = g])[i]
      BY <2>1 DEF PersistOK
    <3> QED
      BY <3>1, <3>2, <3>3, PruneEntry
  <2> QED
    BY <1>1, <2>2, <2>3 DEF Create
<1>2. CASE CrashAfterRename
  BY <1>2 DEF CrashAfterRename
<1>3. CASE Crash \/ Tick \/ Restart \/ UNCHANGED vars
  BY <1>3 DEF Crash, Tick, Restart, vars, hist
<1>4. ASSUME NEW i \in Ids, \/ CreateFails(i) \/ WaitStarts(i) \/ WaitDecided(i)
                            \/ WaitTimer(i) \/ WaitCancelled(i) \/ WaitReturns(i)
      PROVE  used' = used
  BY <1>4 DEF CreateFails, WaitStarts, WaitDecided, WaitTimer, WaitCancelled, WaitReturns, hist
<1>5. ASSUME NEW a \in Approvers,
             \/ LookupRefuses(a) \/ LookupAccepts(a) \/ DecideRelocked(a) \/ DecideTooLate(a)
             \/ \E i \in Ids : DecideLookup(a, i)
             \/ \E i \in Ids, v \in {"approved", "denied"} : DecideAtOnce(a, i, v)
      PROVE  used' = used
  BY <1>5 DEF LookupRefuses, LookupAccepts, DecideRelocked, DecideTooLate, DecideLookup,
              DecideAtOnce, hist
<1> QED
  BY <1>1, <1>2, <1>3, <1>4, <1>5 DEF Next

(* The five things a step can do to an entry of the file. *)
Kept(i) == file'[i] = file[i] /\ (i \in used' <=> i \in used)

Forgotten(i) == file[i] # Absent /\ file'[i] = Absent /\ i \in used'

Opened(i) ==
    /\ file[i] = Absent /\ i \notin used /\ file'[i] # Absent
    /\ file'[i].status = "pending" /\ file'[i].approver = NoOne /\ file'[i].requester \in Names

Expired(i) ==
    /\ file[i] # Absent /\ file'[i] # Absent
    /\ file[i].status = "pending" /\ file'[i].status = "expired"
    /\ file'[i].approver = NoOne /\ file'[i].requester = file[i].requester

Decided(i) ==
    /\ file[i] # Absent /\ file'[i] # Absent
    /\ file[i].status = "pending" /\ file'[i].status \in {"approved", "denied"}
    /\ file'[i].approver \in Names /\ file'[i].requester = file[i].requester
    /\ Canon[file'[i].approver] # Canon[file[i].requester]

LEMMA EntryMoves ==
    ASSUME IInv, [Next]_vars, NEW i \in Ids
    PROVE  Kept(i) \/ Forgotten(i) \/ Opened(i) \/ Expired(i) \/ Decided(i)
<1>1. IInv'
  BY StepPreserves
<1>2. used \subseteq used' /\ (i \in used' /\ i \notin used => file'[i] # Absent)
  BY UsedGrows
<1>3. (file[i] # Absent => i \in used) /\ (file'[i] # Absent => i \in used')
  BY <1>1 DEF IInv, KnownIsUsed
<1>4. CASE file'[i] = file[i]
  BY <1>2, <1>3, <1>4 DEF Kept
<1>5. CASE file'[i] = Absent /\ file[i] # Absent
  BY <1>2, <1>3, <1>5 DEF Forgotten
<1>6. CASE file'[i] # file[i] /\ file'[i] # Absent
  <2>1. up /\ \E M : Good(M) /\ file' = Prune(M)
    BY <1>6, FileMoves
  <2>2. PICK M : Good(M) /\ file' = Prune(M)
    BY <2>1
  <2>3. file'[i] = M[i] /\ M[i] # Absent
    BY <1>6, <2>2, PruneEntry
  <2>4. /\ file'[i] \in Request
        /\ file'[i].status \in {"pending", "expired"} => file'[i].approver = NoOne
        /\ file'[i].status \in {"approved", "denied"} =>
              file'[i].approver \in Names /\ Canon[file'[i].approver] # Canon[file'[i].requester]
    <3>1. file'[i] \in Request
      BY <1>1, <1>6 DEF IInv, TypeOK
    <3>2. Undecided(file'[i])
      BY <1>1, <1>6 DEF IInv, UndecidedInFile
    <3>3. ProperDecision(i, file[i])'
      BY <1>1, <1>6 DEF IInv, FourEyesEnforced
    <3> QED
      BY <3>1, <3>2, <3>3 DEF Undecided, ProperDecision
  <2>5. /\ up
        /\ \/ requests[i] = file[i]
           \/ requests[i] = Absent
           \/ /\ file[i] # Absent /\ file[i].status = "pending"
              /\ requests[i] = [file[i] EXCEPT !.status = "expired",
                                               !.decidedAt = requests[i].decidedAt]
    BY <2>1 DEF IInv, MemoryMatchesFile
  <2>6. ASSUME file[i] # Absent, NEW d
        PROVE  LET r == [file[i] EXCEPT !.status = "expired", !.decidedAt = d]
               IN  r.status = "expired" /\ r.requester = file[i].requester
    BY <2>6 DEF IInv, TypeOK, Request
  <2>7. CASE M[i] = requests[i]
    <3>1. /\ file[i] # Absent /\ file[i].status = "pending"
          /\ requests[i] = [file[i] EXCEPT !.status = "expired", !.decidedAt = requests[i].decidedAt]
      BY <1>6, <2>3, <2>5, <2>7
    <3>2. requests[i].status = "expired" /\ requests[i].requester = file[i].requester
      BY <2>6, <3>1
    <3> QED
      BY <1>6, <2>3, <2>4, <2>7, <3>1, <3>2 DEF Expired
  <2>8. CASE Opens(i, M[i])
    <3>1. file'[i].requester \in Names
      BY <2>4, StoreAssumption DEF Request, StoreAssumption
    <3> QED
      BY <1>3, <1>6, <2>3, <2>8, <3>1 DEF Opens, Opened
  <2>9. ASSUME requests[i] # Absent, requests[i].status = "pending"
        PROVE  requests[i] = file[i] /\ file[i] # Absent /\ file[i] \in Request
    <3>1. requests[i] = file[i]
      BY <2>5, <2>6, <2>9
    <3> QED
      BY <2>9, <3>1 DEF IInv, TypeOK
  <2>10. CASE Expires(i, M[i])
    <3>1. requests[i] = file[i] /\ file[i] # Absent /\ file[i].status = "pending"
      BY <2>9, <2>10 DEF Expires
    <3>2. M[i].status = "expired" /\ M[i].requester = file[i].requester
      BY <2>6, <2>10, <3>1 DEF Expires
    <3> QED
      BY <1>6, <2>3, <2>4, <3>1, <3>2 DEF Expired
  <2>11. CASE Decides(i, M[i])
    <3>1. /\ requests[i] = file[i] /\ file[i] # Absent /\ file[i] \in Request
          /\ file[i].status = "pending"
      BY <2>9, <2>11 DEF Decides
    <3>2. M[i].status \in {"approved", "denied"} /\ M[i].requester = file[i].requester
      BY <2>11, <3>1 DEF Decides, Request
    <3> QED
      BY <1>6, <2>3, <2>4, <3>1, <3>2 DEF Decided
  <2> QED
    BY <2>2, <2>7, <2>8, <2>10, <2>11 DEF Good, Moves
<1> QED
  BY <1>4, <1>5, <1>6

(* The store implements the four-eyes life cycle: each request opens once,   *)
(* is decided at most once and by a second person, or expires, and once      *)
(* forgotten never comes back, whatever fails or dies between the writes.    *)
THEOREM Refinement == Spec => ImplementsFourEyes
<1> USE DEF Abstract!Move, Abstract!Open, Abstract!Decide, Abstract!Expire, Abstract!Forget,
            Abstract!Keep
<1>1. Init => Abstract!Init
  BY DEF Init, Abstract!Init
<1>2. ASSUME IInv, [Next]_vars, NEW i \in Ids PROVE Abstract!Move(i)
  <2>1. CASE Kept(i)
    BY <2>1 DEF Kept
  <2>2. CASE Forgotten(i)
    <3>1. file[i] \in Request
      BY <1>2, <2>2 DEF Forgotten, IInv, TypeOK
    <3>2. file[i].status # "none"
      BY <3>1 DEF Request
    <3> QED
      BY <2>2, <3>2 DEF Forgotten
  <2>3. CASE Opened(i)
    BY <2>3 DEF Opened
  <2>4. CASE Expired(i)
    BY <2>4 DEF Expired
  <2>5. CASE Decided(i)
    BY <2>5, StoreAssumption DEF Decided, StoreAssumption
  <2> QED
    BY <1>2, <2>1, <2>2, <2>3, <2>4, <2>5, EntryMoves
<1>3. IInv /\ [Next]_vars => Abstract!Next
  BY <1>2 DEF Abstract!Next
<1> QED
  BY Invariance, <1>1, <1>3, PTL DEF Spec, ImplementsFourEyes, Abstract!Spec

-----------------------------------------------------------------------------
(* A session that was granted, and a decision that was answered, belong to a  *)
(* request that was created: its id is never given out again.                *)
OutcomesUsed ==
    /\ \A i \in Ids : Granted(i) => i \in used
    /\ \A d \in answered : d[1] \in used

(* A decision of the file outlives every step, or is pruned for good. *)
LEMMA DecidedStays ==
    ASSUME IInv, [Next]_vars, NEW i \in Ids, i \in used, NEW s \in {"approved", "denied"}, NEW a,
           file[i] # Absent => file[i].status = s /\ file[i].approver = a
    PROVE  /\ i \in used'
           /\ file'[i] # Absent => file'[i].status = s /\ file'[i].approver = a
<1>1. i \in used'
  BY UsedGrows
<1>2. Kept(i) \/ Forgotten(i) \/ Opened(i) \/ Expired(i) \/ Decided(i)
  BY EntryMoves
<1> QED
  BY <1>1, <1>2 DEF Kept, Forgotten, Opened, Expired, Decided

(* An approved entry in memory is the one of the file. *)
LEMMA ApprovedIsFiled ==
    ASSUME IInv, NEW i \in Ids, requests[i] # Absent, requests[i].status # "expired"
    PROVE  up /\ requests[i] = file[i] /\ i \in used
<1>1. up /\ i \in used
  BY DEF IInv, DownIsEmpty, KnownIsUsed
<1>2. ASSUME file[i] # Absent, NEW d
      PROVE  [file[i] EXCEPT !.status = "expired", !.decidedAt = d].status = "expired"
  BY <1>2 DEF IInv, TypeOK, Request
<1> QED
  BY <1>1, <1>2 DEF IInv, MemoryMatchesFile

(* Wait returns an approval only if memory, and so the file, holds it. *)
GrantStands(i) == Granted(i) /\ result'[i] = result[i]

GrantRead(i) ==
    /\ file' = file /\ used' = used /\ answered' = answered
    /\ requests[i] # Absent /\ requests[i].status = "approved"
    /\ result'[i].approver = requests[i].approver

LEMMA GrantedMoves ==
    ASSUME IInv, [Next]_vars, NEW i \in Ids, Granted(i)'
    PROVE  GrantStands(i) \/ GrantRead(i)
<1> DEFINE Unmoved == waiter'[i] = "returned" => waiter[i] = "returned" /\ result'[i] = result[i]
<1>0. /\ waiter'[i] = "returned" /\ ~result'[i].err /\ result'[i].status = "approved"
      /\ waiter \in [Ids -> {"none", "created", "waiting", "woken", "cancelled", "returned", "lost"}]
      /\ result \in [Ids -> [status : {"none", "pending", "approved", "denied", "expired"},
                             approver : Approvers \cup {NoOne}, err : BOOLEAN]]
  BY DEF Granted, IInv, TypeOK
<1>1. Unmoved => GrantStands(i)
  BY <1>0 DEF Granted, GrantStands
<1>2. ASSUME NEW j \in Ids, WaitReturns(j) PROVE Unmoved \/ GrantRead(i)
  <2>1. CASE j # i
    BY <1>0, <1>2, <2>1 DEF WaitReturns
  <2>2. CASE j = i /\ requests[i] = Absent
    <3>1. PICK e \in BOOLEAN : result' = [result EXCEPT ![i] = [Nothing EXCEPT !.err = e]]
      BY <1>2, <2>2 DEF WaitReturns
    <3>2. result'[i].status = "none"
      BY <1>0, <3>1 DEF Nothing
    <3> QED
      BY <1>0, <3>2
  <2>3. CASE j = i /\ requests[i] # Absent
    <3>1. /\ result'[i].status = Effective(requests[i])
          /\ result'[i].approver = requests[i].approver
      BY <1>0, <1>2, <2>3 DEF WaitReturns
    <3>2. requests[i].status = "approved"
      BY <1>0, <3>1 DEF Effective
    <3> QED
      BY <1>2, <2>3, <3>1, <3>2 DEF WaitReturns, GrantRead, store, hist
  <2> QED
    BY <2>1, <2>2, <2>3
<1>3. ASSUME NEW j \in Ids, WaitStarts(j) PROVE Unmoved
  <2>1. CASE j # i
    BY <1>0, <1>3, <2>1 DEF WaitStarts
  <2>2. CASE j = i
    <3>1. [Nothing EXCEPT !.err = TRUE].err
      BY DEF Nothing
    <3>2. CASE result' = [result EXCEPT ![i] = [Nothing EXCEPT !.err = TRUE]]
      <4>1. result'[i] = [Nothing EXCEPT !.err = TRUE]
        BY <1>0, <3>2
      <4> QED
        BY <1>0, <3>1, <4>1
    <3>3. CASE waiter' = [waiter EXCEPT ![i] = IF decided[i] = "closed" THEN "woken" ELSE "waiting"]
      BY <1>0, <3>3
    <3> QED
      BY <1>3, <2>2, <3>2, <3>3 DEF WaitStarts
  <2> QED
    BY <2>1, <2>2
<1>4. ASSUME NEW j \in Ids, \/ Create(j) \/ CreateFails(j) \/ WaitDecided(j) \/ WaitTimer(j)
                            \/ WaitCancelled(j)
      PROVE  Unmoved
  BY <1>0, <1>4 DEF Create, CreateFails, WaitDecided, WaitTimer, WaitCancelled
<1>5. ASSUME NEW a \in Approvers,
             \/ LookupRefuses(a) \/ LookupAccepts(a) \/ DecideRelocked(a) \/ DecideTooLate(a)
             \/ \E j \in Ids : DecideLookup(a, j)
             \/ \E j \in Ids, v \in {"approved", "denied"} : DecideAtOnce(a, j, v)
      PROVE  Unmoved
  BY <1>0, <1>5 DEF LookupRefuses, LookupAccepts, DecideRelocked, DecideTooLate, DecideLookup,
                    DecideAtOnce
<1>6. ASSUME Crash \/ CrashAfterRename PROVE Unmoved
  BY <1>0, <1>6 DEF Crash, CrashAfterRename, MemoryGone
<1>7. ASSUME Tick \/ Restart \/ UNCHANGED vars PROVE Unmoved
  BY <1>0, <1>7 DEF Tick, Restart, vars
<1> QED
  BY <1>1, <1>2, <1>3, <1>4, <1>5, <1>6, <1>7 DEF Next

(* The API answers only for a decision it has written. *)
AnswerAdded(i, v) ==
    /\ Pending(i)
    /\ answered' = answered \cup {<<i, v>>} /\ used' = used
    /\ file'[i] # Absent => file'[i].status = v

LEMMA VerdictFiled ==
    ASSUME IInv, NEW i \in Ids, NEW a, NEW v, Pending(i), RecordDecision(i, a, v), file'[i] # Absent
    PROVE  file'[i].status = v
<1>1. Verdict(i, a, v)[i] = [requests[i] EXCEPT !.status = v, !.approver = a, !.decidedAt = clock]
  BY DEF IInv, TypeOK, Verdict
<1>2. file'[i] = Verdict(i, a, v)[i]
  BY PruneEntry DEF RecordDecision, PersistOK
<1>3. requests[i] \in Request
  BY DEF Pending, IInv, TypeOK
<1>4. [requests[i] EXCEPT !.status = v, !.approver = a, !.decidedAt = clock].status = v
  BY <1>3 DEF Request
<1> QED
  BY <1>1, <1>2, <1>4

LEMMA AnsweredMoves ==
    ASSUME IInv, [Next]_vars
    PROVE  \/ answered' = answered
           \/ \E i \in Ids, v \in {"approved", "denied"} : AnswerAdded(i, v)
<1>1. ASSUME NEW a \in Approvers, NEW i \in Ids, NEW v \in {"approved", "denied"},
             DecideAtOnce(a, i, v)
      PROVE  answered' = answered \/ AnswerAdded(i, v)
  <2>1. Pending(i) /\ used' = used
    BY <1>1 DEF DecideAtOnce, MayDecide
  <2>2. CASE RecordDecision(i, a, v)
    BY <2>1, <2>2, VerdictFiled DEF RecordDecision, AnswerAdded
  <2>3. CASE RollBackDecision(i)
    BY <2>3 DEF RollBackDecision
  <2> QED
    BY <1>1, <2>2, <2>3 DEF DecideAtOnce
<1>2. ASSUME NEW a \in Approvers, DecideRelocked(a)
      PROVE  answered' = answered \/ \E i \in Ids : AnswerAdded(i, "approved")
  <2> DEFINE i == calls[a].id
  <2>1. /\ i \in Ids /\ Pending(i) /\ used' = used
        /\ RecordDecision(i, a, "approved") \/ RollBackDecision(i)
    BY <1>2 DEF DecideRelocked, StillPending, IInv, TypeOK, CallsChecked
  <2>2. CASE RecordDecision(i, a, "approved")
    <3>1. file'[i] # Absent => file'[i].status = "approved"
      BY <2>1, <2>2, VerdictFiled
    <3>2. answered' = answered \cup {<<i, "approved">>}
      BY <2>2 DEF RecordDecision
    <3> HIDE DEF i
    <3> QED
      BY <2>1, <3>1, <3>2 DEF AnswerAdded
  <2>3. CASE RollBackDecision(i)
    BY <2>3 DEF RollBackDecision
  <2> QED
    BY <2>1, <2>2, <2>3
<1>3. ASSUME NEW i \in Ids, \/ Create(i) \/ CreateFails(i) \/ WaitStarts(i) \/ WaitDecided(i)
                            \/ WaitTimer(i) \/ WaitCancelled(i) \/ WaitReturns(i)
      PROVE  answered' = answered
  BY <1>3 DEF Create, CreateFails, WaitStarts, WaitDecided, WaitTimer, WaitCancelled, WaitReturns, hist
<1>4. ASSUME NEW a \in Approvers,
             \/ LookupRefuses(a) \/ LookupAccepts(a) \/ DecideTooLate(a)
             \/ \E i \in Ids : DecideLookup(a, i)
      PROVE  answered' = answered
  BY <1>4 DEF LookupRefuses, LookupAccepts, DecideTooLate, DecideLookup, hist
<1>5. CASE Crash \/ CrashAfterRename \/ Tick \/ Restart \/ UNCHANGED vars
  BY <1>5 DEF Crash, CrashAfterRename, Tick, Restart, vars, hist
<1> QED
  BY <1>1, <1>2, <1>3, <1>4, <1>5 DEF Next

LEMMA DurableStep ==
    IInv /\ OutcomesUsed /\ DecisionsAreDurable /\ [Next]_vars =>
        OutcomesUsed' /\ DecisionsAreDurable'
<1> SUFFICES ASSUME IInv, OutcomesUsed, DecisionsAreDurable, [Next]_vars
             PROVE  OutcomesUsed' /\ DecisionsAreDurable'
  OBVIOUS
<1>1. ASSUME NEW i \in Ids, Granted(i)'
      PROVE  /\ i \in used'
             /\ file'[i] # Absent =>
                   file'[i].status = "approved" /\ file'[i].approver = result'[i].approver
  <2>1. CASE GrantStands(i)
    <3>1. /\ i \in used
          /\ file[i] # Absent => file[i].status = "approved" /\ file[i].approver = result[i].approver
      BY <2>1 DEF GrantStands, OutcomesUsed, DecisionsAreDurable
    <3>2. /\ i \in used'
          /\ file'[i] # Absent => file'[i].status = "approved" /\ file'[i].approver = result[i].approver
      BY <3>1, DecidedStays
    <3> QED
      BY <2>1, <3>2 DEF GrantStands
  <2>2. CASE GrantRead(i)
    BY <2>2, ApprovedIsFiled DEF GrantRead
  <2> QED
    BY <1>1, <2>1, <2>2, GrantedMoves
<1>2. \A d \in answered : d[1] \in Ids /\ d[2] \in {"approved", "denied"} /\ d = <<d[1], d[2]>>
  BY DEF IInv, TypeOK
<1>3. ASSUME NEW d \in answered
      PROVE  /\ d[1] \in used'
             /\ file'[d[1]] # Absent => file'[d[1]].status = d[2]
  <2>1. /\ d[1] \in Ids /\ d[1] \in used /\ d[2] \in {"approved", "denied"}
        /\ file[d[1]] # Absent => file[d[1]].status = d[2]
    BY <1>2 DEF OutcomesUsed, DecisionsAreDurable
  <2> QED
    BY <2>1, DecidedStays
<1>4. CASE answered' = answered
  BY <1>1, <1>3, <1>4 DEF OutcomesUsed, DecisionsAreDurable
<1>5. ASSUME NEW i \in Ids, NEW v \in {"approved", "denied"}, AnswerAdded(i, v)
      PROVE  OutcomesUsed' /\ DecisionsAreDurable'
  <2>1. requests[i] # Absent /\ requests[i].status = "pending"
    BY <1>5 DEF AnswerAdded, Pending, Effective
  <2>2. i \in used /\ file[i] # Absent /\ file[i].status = "pending"
    BY <2>1, ApprovedIsFiled
  <2>3. \A d \in answered : d[1] # i
    BY <1>2, <2>2 DEF DecisionsAreDurable
  <2>4. /\ answered' = answered \cup {<<i, v>>} /\ used' = used
        /\ file'[i] # Absent => file'[i].status = v
    BY <1>5 DEF AnswerAdded
  <2>5. ASSUME NEW d \in answered'
        PROVE  /\ d[1] \in used'
               /\ file'[d[1]] # Absent => file'[d[1]].status = d[2]
               /\ \A e \in answered' : e[1] = d[1] => e = d
    <3>1. CASE d \in answered
      BY <1>3, <2>3, <2>4, <3>1 DEF DecisionsAreDurable
    <3>2. CASE d = <<i, v>>
      BY <2>2, <2>3, <2>4, <3>2
    <3> QED
      BY <2>4, <3>1, <3>2
  <2> QED
    BY <1>1, <2>5 DEF OutcomesUsed, DecisionsAreDurable
<1> QED
  BY <1>4, <1>5, AnsweredMoves

(* An approval a session went ahead on, and a decision the API confirmed, are *)
(* in the file as they were given for as long as the file keeps them; of two  *)
(* approvers who race for one request at most one is told it decided.         *)
THEOREM OutcomesAreDurable == Spec => []DecisionsAreDurable
<1>1. Init => OutcomesUsed /\ DecisionsAreDurable
  BY DEF Init, OutcomesUsed, DecisionsAreDurable, Granted
<1> QED
  BY <1>1, DurableStep, Invariance, PTL DEF Spec
=============================================================================
