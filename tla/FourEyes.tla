------------------------------- MODULE FourEyes --------------------------------
(***************************************************************************)
(* What an approval store promises, request by request: a request is        *)
(* decided at most once, by a person who is not the one who asked, and a    *)
(* request that was forgotten never comes back.                             *)
(***************************************************************************)
CONSTANTS Ids,      \* request ids
          People    \* persons, whatever spelling of their name they use

VARIABLES status,     \* life-cycle state of each request
          requester,  \* who asked, NoPerson before
          approver    \* who decided, NoPerson before

CONSTANT NoPerson

Init ==
    /\ status = [i \in Ids |-> "none"]
    /\ requester = [i \in Ids |-> NoPerson]
    /\ approver = [i \in Ids |-> NoPerson]

Open(i) ==
    /\ status[i] = "none"
    /\ status'[i] = "pending"
    /\ requester'[i] \in People
    /\ approver'[i] = NoPerson

(* Approval and denial need a second person. *)
Decide(i) ==
    /\ status[i] = "pending"
    /\ status'[i] \in {"approved", "denied"}
    /\ approver'[i] \in People \ {requester[i]}
    /\ requester'[i] = requester[i]

Expire(i) ==
    /\ status[i] = "pending"
    /\ status'[i] = "expired"
    /\ approver'[i] = NoPerson
    /\ requester'[i] = requester[i]

Forget(i) ==
    /\ status[i] # "none"
    /\ status'[i] = "forgotten"
    /\ requester'[i] = NoPerson
    /\ approver'[i] = NoPerson

Keep(i) ==
    /\ status'[i] = status[i]
    /\ requester'[i] = requester[i]
    /\ approver'[i] = approver[i]

Move(i) == Open(i) \/ Decide(i) \/ Expire(i) \/ Forget(i) \/ Keep(i)

(* One write of the store may move several requests: the one it is about and *)
(* those that have outlived their retention.                                 *)
Next ==
    /\ DOMAIN status' = Ids /\ DOMAIN requester' = Ids /\ DOMAIN approver' = Ids
    /\ \A i \in Ids : Move(i)

Spec == Init /\ [][Next]_<<status, requester, approver>>
=============================================================================
