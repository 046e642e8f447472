-------------------------------- MODULE Breaker --------------------------------
(***************************************************************************)
(* The circuit breaker in front of CyberArk (internal/credential/breaker.go)*)
(* and the inject calls that go through it (credential.go).  A call asks    *)
(* Allow, fetches without holding any lock, and reports Success or Fail     *)
(* later, when the breaker may have changed under it.                       *)
(*                                                                          *)
(* Time is kept relative: coolDown is how far away openUntil is.  Of the    *)
(* failure counter only its comparison with the threshold matters, so it    *)
(* stops there.                                                             *)
(***************************************************************************)
EXTENDS Naturals, FiniteSets

CONSTANTS Calls,      \* sessions that resolve an inject credential
          Threshold,  \* failures that open the breaker
          Cooldown    \* time it stays open

ASSUME BreakerAssumption ==
    /\ Threshold \in Nat \ {0}
    /\ Cooldown \in Nat \ {0}

VARIABLES failures,  \* Breaker.failures
          open,      \* is openUntil set?
          coolDown,  \* time left until openUntil
          halfOpen,  \* Breaker.halfOpen
          call,      \* progress of each call: "idle", "fetching", "ok", "refused"
          trial,     \* history: the call was admitted by half-opening the breaker
          failed     \* history: failures reported since the last success

breaker == <<failures, open, coolDown, halfOpen>>
vars == <<breaker, call, trial, failed>>

Init ==
    /\ failures = 0
    /\ open = FALSE
    /\ coolDown = 0
    /\ halfOpen = FALSE
    /\ call = [c \in Calls |-> "idle"]
    /\ trial = [c \in Calls |-> FALSE]
    /\ failed = 0

CooledDown == coolDown = 0

Counted(n) == IF n < Threshold THEN n + 1 ELSE n

(* Allow admits the call on a closed breaker ... *)
AllowClosed(c) ==
    /\ call[c] = "idle"
    /\ ~open
    /\ call' = [call EXCEPT ![c] = "fetching"]
    /\ UNCHANGED <<breaker, trial, failed>>

(* ... as the trial, once the cooldown has elapsed ... *)
AllowTrial(c) ==
    /\ call[c] = "idle"
    /\ open
    /\ ~halfOpen
    /\ CooledDown
    /\ halfOpen' = TRUE
    /\ call' = [call EXCEPT ![c] = "fetching"]
    /\ trial' = [trial EXCEPT ![c] = TRUE]
    /\ UNCHANGED <<failures, open, coolDown, failed>>

(* ... and refuses it otherwise: inject fails closed, without fetching. *)
AllowRefuses(c) ==
    /\ call[c] = "idle"
    /\ open
    /\ halfOpen \/ ~CooledDown
    /\ call' = [call EXCEPT ![c] = "refused"]
    /\ UNCHANGED <<breaker, trial, failed>>

(* The fetch returned a secret. *)
Success(c) ==
    /\ call[c] = "fetching"
    /\ failures' = 0
    /\ open' = FALSE
    /\ coolDown' = 0
    /\ halfOpen' = FALSE
    /\ call' = [call EXCEPT ![c] = "ok"]
    /\ trial' = [trial EXCEPT ![c] = FALSE]
    /\ failed' = 0

(* mutant: a failed trial leaves the breaker half-open. *)
FailKeepsTrial(c) ==
    /\ call[c] = "fetching"
    /\ IF halfOpen
       THEN /\ open' = TRUE
            /\ coolDown' = Cooldown
            /\ UNCHANGED <<failures, halfOpen>>
       ELSE /\ failures' = Counted(failures)
            /\ IF failures + 1 >= Threshold THEN open' = TRUE /\ coolDown' = Cooldown
               ELSE UNCHANGED <<open, coolDown>>
            /\ UNCHANGED halfOpen
    /\ call' = [call EXCEPT ![c] = "refused"]
    /\ trial' = [trial EXCEPT ![c] = FALSE]
    /\ failed' = Counted(failed)

(* mutant: off by one in the threshold. *)
FailLate(c) ==
    /\ call[c] = "fetching"
    /\ IF halfOpen
       THEN /\ halfOpen' = FALSE
            /\ open' = TRUE
            /\ coolDown' = Cooldown
            /\ UNCHANGED failures
       ELSE /\ failures' = Counted(failures)
            /\ IF failures + 1 > Threshold THEN open' = TRUE /\ coolDown' = Cooldown
               ELSE UNCHANGED <<open, coolDown>>
            /\ UNCHANGED halfOpen
    /\ call' = [call EXCEPT ![c] = "refused"]
    /\ trial' = [trial EXCEPT ![c] = FALSE]
    /\ failed' = Counted(failed)

(* The fetch failed or returned an empty secret: any failure while half-open *)
(* counts as the trial's.                                                    *)
Fail(c) ==
    /\ call[c] = "fetching"
    /\ IF halfOpen
       THEN /\ halfOpen' = FALSE
            /\ open' = TRUE
            /\ coolDown' = Cooldown
            /\ UNCHANGED failures
       ELSE /\ failures' = Counted(failures)
            /\ IF failures + 1 >= Threshold THEN open' = TRUE /\ coolDown' = Cooldown
               ELSE UNCHANGED <<open, coolDown>>
            /\ UNCHANGED halfOpen
    /\ call' = [call EXCEPT ![c] = "refused"]
    /\ trial' = [trial EXCEPT ![c] = FALSE]
    /\ failed' = Counted(failed)

(* A session asks again. *)
Retry(c) ==
    /\ call[c] \in {"ok", "refused"}
    /\ call' = [call EXCEPT ![c] = "idle"]
    /\ UNCHANGED <<breaker, trial, failed>>

Tick ==
    /\ coolDown > 0
    /\ coolDown' = coolDown - 1
    /\ UNCHANGED <<failures, open, halfOpen, call, trial, failed>>

Next ==
    \/ \E c \in Calls : \/ AllowClosed(c) \/ AllowTrial(c) \/ AllowRefuses(c)
                        \/ Success(c) \/ Fail(c) \/ Retry(c)
    \/ Tick

(* Fetches end (the CCP client has a timeout), sessions that want the        *)
(* credential keep asking, and time passes.                                  *)
Fairness ==
    /\ WF_vars(Tick)
    /\ \A c \in Calls : /\ WF_vars(Success(c) \/ Fail(c))
                        /\ WF_vars(Retry(c))
                        /\ WF_vars(AllowClosed(c) \/ AllowTrial(c) \/ AllowRefuses(c))

Spec == Init /\ [][Next]_vars
FairSpec == Spec /\ Fairness

-----------------------------------------------------------------------------
(* Properties. *)

(* Every variable has the type its Go field gives it. *)
TypeOK ==
    /\ failures \in 0..Threshold
    /\ open \in BOOLEAN
    /\ coolDown \in 0..Cooldown
    /\ halfOpen \in BOOLEAN
    /\ call \in [Calls -> {"idle", "fetching", "ok", "refused"}]
    /\ trial \in [Calls -> BOOLEAN]
    /\ failed \in 0..Threshold

(* The breaker never jams half-open: while it refuses everyone because a     *)
(* trial is in flight, an admitted trial really is, whatever the late        *)
(* answers of calls admitted earlier did to it in between.                   *)
HalfOpenHasTrial ==
    halfOpen => /\ open
                /\ \E c \in Calls : call[c] = "fetching" /\ trial[c]

(* Failures without a success in between open the breaker: a CCP that is     *)
(* down is not asked again before a cooldown has passed.                     *)
DownOpens ==
    failed >= Threshold => open

(* No call starts fetching while the breaker is open and cooling down, and a *)
(* call that starts on an open breaker is marked as its trial.               *)
OpenAdmitsNoFetch ==
    [][\A c \in Calls :
          /\ call[c] = "idle" /\ call'[c] = "fetching"
          /\ open
          => coolDown = 0 /\ ~halfOpen /\ halfOpen']_vars

(* An open breaker does not stay open for ever on its own: some later call   *)
(* is admitted.                                                              *)
EventuallyAdmits == open ~> \E c \in Calls : call[c] = "fetching"
=============================================================================
