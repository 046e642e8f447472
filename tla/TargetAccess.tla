----------------------------- MODULE TargetAccess ------------------------------
(***************************************************************************)
(* One request for a target, from the decision to the socket: a tunnel      *)
(* (dialer.go DialTarget, session.go handleDirectTCPIP, tunnelinspect.go)   *)
(* or the second SSH leg (passwordCallback, runRecordedShell, target.go     *)
(* dialTarget), against the watcher of the policy file (policysource), the  *)
(* operator who edits that file and a DNS that changes its answers.         *)
(*                                                                          *)
(* Requests share only the policy and the resolver, which they read, so     *)
(* one request at a time shows what any number of them can meet.            *)
(***************************************************************************)
EXTENDS Policy

CONSTANTS Policies,     \* compiled policies
          Edits,        \* contents the operator may write to the file
          Broken,       \* content that does not compile
          Unread,       \* no content has been hashed yet
          Requests,     \* kind, host, port and principal of a request
          Answers,      \* what the resolver may answer
          Blocked,      \* addresses blockedIP refuses
          Protocols,    \* protocols protoident knows
          Unknown,      \* its answer for anything else
          WithStore,    \* an approval store is configured
          Inspect,      \* tunnel inspection is on
          Enforce,      \* ... in enforce mode
          UnknownDeny,  \* ... where an unknown protocol is refused
          MaxEdits, MaxRebinds  \* bounds

ASSUME AccessAssumption ==
    /\ {Broken, Unread} \intersect Policies = {}
    /\ Edits \subseteq Policies \union {Broken}
    /\ Answers \subseteq SUBSET Addresses
    /\ {Unknown, None} \intersect Protocols = {}
    /\ {WithStore, Inspect, Enforce, UnknownDeny} \subseteq BOOLEAN
    /\ {MaxEdits, MaxRebinds} \subseteq Nat
    /\ \A r \in Requests : r.kind \in {"tunnel", "leg"} /\ r.host \in Names \union Addresses
    /\ \A p \in Policies : \A i \in DOMAIN p :
          /\ i \in Nat /\ DOMAIN p[i].allow \subseteq Nat
          /\ \A j \in DOMAIN p[i].allow :
                /\ p[i].allow[j].approval \in BOOLEAN
                /\ p[i].allow[j].ports \in Seq(Nat)

VARIABLES file,      \* content of the policy file
          baseline,  \* Watch: the content hashed last
          policy,    \* Dialer.policy
          edits,     \* how often the file was edited
          dns,       \* what the resolver answers
          rebinds,   \* how often that has changed
          req,       \* the request
          pc,        \* its step
          snapshot,  \* the policy currentPolicy returned to it
          decision,  \* the decision it acts on
          peeked,    \* the decision inspection looked up
          since,     \* history: policies in force since it last began to decide
          prompted,  \* the account whose password was asked for
          account,   \* the account of the second leg
          addr,      \* the address connected
          protocol,  \* the protocol identified
          trail      \* the evidence emitted for it

source == <<file, baseline, policy, edits>>
names  == <<dns, rebinds>>
look   == <<snapshot, decision, peeked, since>>
leg    == <<prompted, account>>
socket == <<addr, protocol>>
vars   == <<source, names, req, pc, look, leg, socket, trail>>

Settled == {"refused", "spliced", "closed"}

Steps ==
    Settled \union
    {"asked", "deciding", "gate", "waiting", "credential", "dialing", "connected",
     "peeking", "holding", "login", "prompting", "loggedIn", "opening",
     "authenticating", "legDialing", "leg"}

(* What is read, decided and connected is of its kind; in particular only a   *)
(* policy that compiled is ever in force.                                     *)
TypeOK ==
    /\ file \in Policies \union {Broken}
    /\ baseline \in Policies \union {Broken, Unread}
    /\ policy \in Policies /\ since \subseteq Policies
    /\ snapshot \in Policies \union {<< >>}
    /\ edits \in 0..MaxEdits /\ rebinds \in 0..MaxRebinds
    /\ dns \in [Names -> Answers]
    /\ req \in Requests /\ pc \in Steps
    /\ DOMAIN decision = DOMAIN Denied /\ DOMAIN peeked = DOMAIN Denied
    /\ addr \in Addresses \union {None}
    /\ protocol \in Protocols \union {Unknown, None}
    /\ trail \in Seq([type : {"decision", "approval", "credential", "protocol"},
                      outcome : {"allow", "deny", "requested", "granted", "refused"}])

(* main compiles the policy of the file and starts a watcher that has loaded  *)
(* nothing itself; the file may have been edited in between.                  *)
Init ==
    /\ policy \in Policies /\ file \in Edits \union {policy}
    /\ baseline = Unread /\ edits = 0
    /\ dns \in [Names -> Answers] /\ rebinds = 0
    /\ req \in Requests /\ pc = "asked"
    /\ snapshot = << >> /\ decision = Denied /\ peeked = Denied /\ since = {policy}
    /\ prompted = None /\ account = None
    /\ addr = None /\ protocol = None
    /\ trail = << >>

(* Evidence is emitted before the code goes on; that Emit may fail, which is  *)
(* logged and not acted on, is the subject of EvidenceBus.                    *)
Emit(type, outcome) == trail' = Append(trail, [type |-> type, outcome |-> outcome])

-----------------------------------------------------------------------------
(* The policy source and the DNS. *)

EditFile ==
    /\ edits < MaxEdits
    /\ \E p \in Edits \ {file} : file' = p
    /\ edits' = edits + 1
    /\ UNCHANGED <<baseline, policy, names, req, pc, look, leg, socket, trail>>

(* mutant: the watcher ends at content that does not compile. *)
WatchEnding ==
    /\ file # baseline
    /\ baseline # Broken
    /\ baseline' = file
    /\ policy' = IF file = Broken THEN policy ELSE file
    /\ since' = since \union {policy'}
    /\ UNCHANGED <<file, edits, names, req, pc, snapshot, decision, peeked, leg,
                   socket, trail>>

(* One tick of Watch that finds new content: SetPolicy if it compiles. *)
Watch ==
    /\ file # baseline
    /\ baseline' = file
    /\ policy' = IF file = Broken THEN policy ELSE file
    /\ since' = since \union {policy'}
    /\ UNCHANGED <<file, edits, names, req, pc, snapshot, decision, peeked, leg,
                   socket, trail>>

Rebind ==
    /\ rebinds < MaxRebinds
    /\ \E n \in Names : \E a \in Answers \ {dns[n]} : dns' = [dns EXCEPT ![n] = a]
    /\ rebinds' = rebinds + 1
    /\ UNCHANGED <<source, req, pc, look, leg, socket, trail>>

-----------------------------------------------------------------------------
(* Tunnels.  A decision reads the policy first and resolves the name after.   *)

OpenTunnel ==
    /\ pc = "asked" /\ req.kind = "tunnel"
    /\ pc' = "deciding"
    /\ snapshot' = policy /\ since' = {policy}
    /\ UNCHANGED <<source, names, req, decision, peeked, leg, socket, trail>>

Authorize ==
    /\ pc = "deciding"
    /\ LET d  == Decide(snapshot, req.pr, req.host, req.port, dns)
           ok == d.allow /\ ForwardingAllowed(d)
       IN  /\ decision' = d
           /\ Emit("decision", IF ok THEN "allow" ELSE "deny")
           /\ pc' = IF ~ok THEN "refused" ELSE IF d.approval THEN "gate" ELSE "credential"
    /\ UNCHANGED <<source, names, req, snapshot, peeked, since, leg, socket>>

(* gateApproval: the request is stored and evidenced, or it cannot be stored. *)
RequestApproval ==
    /\ pc = "gate" /\ WithStore
    /\ pc' = "waiting"
    /\ Emit("approval", "requested")
    /\ UNCHANGED <<source, names, req, look, leg, socket>>

RequestApprovalFails ==
    /\ pc = "gate"
    /\ pc' = "refused"
    /\ UNCHANGED <<source, names, req, look, leg, socket, trail>>

ApprovalGranted ==
    /\ pc = "waiting"
    /\ pc' = "credential"
    /\ Emit("approval", "granted")
    /\ UNCHANGED <<source, names, req, look, leg, socket>>

(* mutant: the wait that fails is not evidenced. *)
ApprovalRefusedSilently ==
    /\ pc = "waiting"
    /\ pc' = "refused"
    /\ UNCHANGED <<source, names, req, look, leg, socket, trail>>

(* Denied, expired, or the wait failed. *)
ApprovalRefused ==
    /\ pc = "waiting"
    /\ pc' = "refused"
    /\ Emit("approval", "refused")
    /\ UNCHANGED <<source, names, req, look, leg, socket>>

(* resolveCredential: passthrough resolves and records nothing. *)
ResolvePassthrough ==
    /\ pc = "credential"
    /\ NormalMode(decision.credential) = "passthrough"
    /\ pc' = "dialing"
    /\ UNCHANGED <<source, names, req, look, leg, socket, trail>>

(* Provider.Resolve may serve prompt and, if CyberArk does, inject. *)
ResolveServes ==
    /\ pc = "credential"
    /\ NormalMode(decision.credential) \in {"prompt", "inject"}
    /\ pc' = "dialing"
    /\ Emit("credential", "allow")
    /\ UNCHANGED <<source, names, req, look, leg, socket>>

(* deny, an unknown mode, and every failure of inject. *)
ResolveRefuses ==
    /\ pc = "credential"
    /\ NormalMode(decision.credential) \notin {"passthrough", "prompt"}
    /\ pc' = "refused"
    /\ Emit("credential", "deny")
    /\ UNCHANGED <<source, names, req, look, leg, socket>>

(* mutant: the address is not held against the matched range again. *)
GuardStatic(a) == a \notin Blocked

(* The guard on the address about to be connected: never a blocked one, and   *)
(* inside the range the decision matched.                                     *)
Guard(a) ==
    /\ a \notin Blocked
    /\ decision.range # None => a \in Covers[decision.range]

(* netDial resolves the name again and tries its addresses. *)
Dial ==
    /\ pc = "dialing"
    /\ \E a \in TargetIPs(req.host, dns) : Guard(a) /\ addr' = a
    /\ pc' = "connected"
    /\ UNCHANGED <<source, names, req, look, leg, protocol, trail>>

DialFails ==
    /\ pc \in {"dialing", "legDialing"}
    /\ pc' = "refused"
    /\ UNCHANGED <<source, names, req, look, leg, socket, trail>>

Accept ==
    /\ pc = "connected"
    /\ IF Inspect
       THEN pc' = "peeking" /\ snapshot' = policy
       ELSE pc' = "spliced" /\ UNCHANGED snapshot
    /\ UNCHANGED <<source, names, req, decision, peeked, since, leg, socket, trail>>

AcceptFails ==
    /\ pc = "connected"
    /\ pc' = "refused"
    /\ UNCHANGED <<source, names, req, look, leg, socket, trail>>

(* Inspection looks the rule up again, under the policy and the DNS of now. *)
PeekTunnel ==
    /\ pc = "peeking"
    /\ peeked' = Decide(snapshot, req.pr, req.host, req.port, dns)
    /\ pc' = IF Enforce /\ peeked'.expect # {} THEN "holding" ELSE "spliced"
    /\ UNCHANGED <<source, names, req, snapshot, decision, since, leg, socket, trail>>

DecideEnforce(p, expect) ==
    \/ expect = {}
    \/ p = Unknown /\ ~UnknownDeny
    \/ p \in expect

(* holdAndClassify returned p: replay and splice, or close both ends. *)
Classified(p) ==
    /\ protocol' = p
    /\ LET ok == DecideEnforce(p, peeked.expect)
       IN  /\ pc' = IF ok THEN "spliced" ELSE "closed"
           /\ Emit("protocol", IF ok THEN "allow" ELSE "deny")
    /\ UNCHANGED <<source, names, req, look, leg, addr>>

Identify == pc = "holding" /\ \E p \in Protocols : Classified(p)

(* mutant: the hold ends only when a side has spoken. *)
ClassifyDeadlineNever ==
    /\ FALSE
    /\ UNCHANGED vars

(* The deadline, the budget, or both sides done. *)
ClassifyDeadline == pc = "holding" /\ Classified(Unknown)

(* classifyAndEmit beside the splice, once, perhaps after its end: it         *)
(* observes and never gates.                                                  *)
Observe ==
    /\ pc \in {"spliced", "closed"} /\ req.kind = "tunnel"
    /\ Inspect /\ protocol = None
    /\ \E p \in Protocols \union {Unknown} :
          /\ protocol' = p
          /\ Emit("protocol", IF DecideEnforce(p, peeked.expect) THEN "allow" ELSE "deny")
    /\ UNCHANGED <<source, names, req, pc, look, leg, addr>>

-----------------------------------------------------------------------------
(* The second leg: a look at the policy at login, another when a channel is   *)
(* opened, and the dial.                                                      *)

Login ==
    /\ pc = "asked" /\ req.kind = "leg"
    /\ pc' = "login"
    /\ snapshot' = policy /\ since' = {policy}
    /\ UNCHANGED <<source, names, req, decision, peeked, leg, socket, trail>>

(* passwordCallback: the account is resolved, and its password asked for in   *)
(* prompt mode.                                                               *)
PeekLogin ==
    /\ pc = "login"
    /\ LET d == DecideHost(snapshot, req.pr, req.host, dns)
           u == ResolveTargetUser(req.pr.requested, d, req.pr.user)
       IN  \/ /\ u = None
              /\ pc' = "refused"
              /\ Emit("credential", "deny")
              /\ UNCHANGED prompted
           \/ /\ u # None /\ NormalMode(d.credential) = "prompt"
              /\ pc' = "prompting" /\ prompted' = u
              /\ UNCHANGED trail
           \/ /\ u # None /\ NormalMode(d.credential) # "prompt"
              /\ pc' = "loggedIn"
              /\ UNCHANGED <<prompted, trail>>
    /\ UNCHANGED <<source, names, req, look, account, socket>>

Prompted ==
    /\ pc = "prompting"
    /\ pc' \in {"loggedIn", "refused"}
    /\ UNCHANGED <<source, names, req, look, leg, socket, trail>>

OpenSession ==
    /\ pc = "loggedIn"
    /\ pc' = "opening"
    /\ snapshot' = policy /\ since' = {policy}
    /\ UNCHANGED <<source, names, req, decision, peeked, leg, socket, trail>>

(* runRecordedShell, runSFTP, runSCPTransfer: a refused channel leaves the    *)
(* connection, and the client may open another.                               *)
PeekSession ==
    /\ pc = "opening"
    /\ decision' = DecideHost(snapshot, req.pr, req.host, dns)
    /\ pc' = IF decision'.allow THEN "authenticating" ELSE "loggedIn"
    /\ UNCHANGED <<source, names, req, snapshot, peeked, since, leg, socket, trail>>

(* Which modes can give a credential; a failure of inject or of the client's  *)
(* agent comes on top.                                                        *)
ModeServes(mode) ==
    \/ mode \in {"inject", "passthrough"}
    \/ mode = "prompt" /\ prompted # None

(* dialTarget: no leg for an account the rule does not give. *)
LegUserDenied ==
    /\ pc = "authenticating"
    /\ ResolveTargetUser(req.pr.requested, decision, req.pr.user) = None
    /\ pc' = "refused"
    /\ Emit("credential", "deny")
    /\ UNCHANGED <<source, names, req, look, leg, socket>>

(* No host-key callback is configured, which refuses without evidence. *)
LegNoHostKeys ==
    /\ pc = "authenticating"
    /\ ResolveTargetUser(req.pr.requested, decision, req.pr.user) # None
    /\ pc' = "refused"
    /\ UNCHANGED <<source, names, req, look, leg, socket, trail>>

LegCredential ==
    /\ pc = "authenticating"
    /\ LET u == ResolveTargetUser(req.pr.requested, decision, req.pr.user)
       IN  u # None /\ account' = u
    /\ ModeServes(NormalMode(decision.credential))
    /\ pc' = "legDialing"
    /\ Emit("credential", "allow")
    /\ UNCHANGED <<source, names, req, look, prompted, socket>>

(* A refusal is cached with the connection: there is no second try. *)
LegCredentialFails ==
    /\ pc = "authenticating"
    /\ ResolveTargetUser(req.pr.requested, decision, req.pr.user) # None
    /\ ~(NormalMode(decision.credential) = "prompt" /\ prompted # None)
    /\ pc' = "refused"
    /\ Emit("credential", "deny")
    /\ UNCHANGED <<source, names, req, look, leg, socket>>

(* DialGuarded with the decision's range, and the handshake. *)
LegDial ==
    /\ pc = "legDialing"
    /\ \E a \in TargetIPs(req.host, dns) : Guard(a) /\ addr' = a
    /\ pc' = "leg"
    /\ UNCHANGED <<source, names, req, look, leg, protocol, trail>>

LegHandshakeFails ==
    /\ pc = "legDialing"
    /\ \E a \in TargetIPs(req.host, dns) : Guard(a) /\ addr' = a
    /\ pc' = "closed"
    /\ UNCHANGED <<source, names, req, look, leg, protocol, trail>>

Ends ==
    /\ pc \in {"spliced", "leg"}
    /\ pc' = "closed"
    /\ UNCHANGED <<source, names, req, look, leg, socket, trail>>

-----------------------------------------------------------------------------
Environment == EditFile \/ Rebind

Tunnel ==
    \/ OpenTunnel \/ Authorize
    \/ RequestApproval \/ RequestApprovalFails \/ ApprovalGranted \/ ApprovalRefused
    \/ ResolvePassthrough \/ ResolveServes \/ ResolveRefuses
    \/ Dial \/ Accept \/ AcceptFails
    \/ PeekTunnel \/ Identify \/ ClassifyDeadline \/ Observe

Leg ==
    \/ Login \/ PeekLogin \/ Prompted \/ OpenSession \/ PeekSession
    \/ LegUserDenied \/ LegNoHostKeys \/ LegCredential \/ LegCredentialFails
    \/ LegDial \/ LegHandshakeFails

Next == Environment \/ Watch \/ Tunnel \/ Leg \/ DialFails \/ Ends

Spec == Init /\ [][Next]_vars

(* The ticker, and what the goroutine of a request does by itself: a wait for *)
(* approval ends at its expiry, a dial at its timeout, a hold at its deadline.*)
(* Nobody need approve, speak, or open another channel.                       *)
FairSpec ==
    /\ Spec
    /\ WF_vars(Watch)
    /\ WF_vars(OpenTunnel \/ Authorize \/ RequestApproval \/ RequestApprovalFails)
    /\ WF_vars(ApprovalRefused)
    /\ WF_vars(ResolvePassthrough \/ ResolveServes \/ ResolveRefuses)
    /\ WF_vars(DialFails)
    /\ WF_vars(Accept \/ AcceptFails \/ PeekTunnel)
    /\ WF_vars(ClassifyDeadline)

-----------------------------------------------------------------------------
Recorded(type, outcome) ==
    \E k \in DOMAIN trail : trail[k] = [type |-> type, outcome |-> outcome]

(* What a rule asks of a connection, written down without Decide. *)
Permits(rule, port) ==
    /\ MatchesPort(rule, port)
    /\ \/ MatchesHost(rule, req.host)
       \/ rule.host \in Ranges /\ addr \in Covers[rule.host]

(* The gates of a tunnel: recording, decision, approval and credential. *)
TunnelGatesPassed(rule) ==
    /\ NormalRecord(rule.record) # "full"
    /\ Recorded("decision", "allow")
    /\ rule.approval => Recorded("approval", "granted")
    /\ NormalMode(rule.credential) # "deny"
    /\ NormalMode(rule.credential) # "passthrough" => Recorded("credential", "allow")

(* The gates a shell, SFTP or scp leg goes through.  The four-eyes approval is *)
(* not among them: nothing on the way to a leg looks at RequireApproval, so a  *)
(* rule with it ("the session blocks until a second human approves it",        *)
(* policy.go:99-101) holds up tunnels only.                                   *)
LegGatesPassed(rule) ==
    /\ Recorded("credential", "allow")
    /\ NormalMode(rule.credential) # "deny"
    /\ NormalMode(rule.credential) = "prompt" => prompted # None
    /\ rule.targetUser # None => account = rule.targetUser

(* A socket is open only on the authority of ONE rule of ONE policy that was  *)
(* in force while the request was decided: a rule of a role the principal     *)
(* holds (and selected) that permits the address and port actually connected, *)
(* whatever was reloaded or rebound in between.  A tunnel passed every gate   *)
(* of that rule, its approval included; a leg passed the gates of its account *)
(* and credential, and no approval, whatever the rule requires.  All of it is *)
(* on record, and no blocked address is ever connected.                       *)
ConnectionAuthorized ==
    addr # None =>
        /\ addr \notin Blocked
        /\ \E p \in since : \E i \in DOMAIN p : \E j \in DOMAIN p[i].allow :
              /\ p[i].groups \intersect req.pr.groups # {}
              /\ req.pr.role # None => p[i].name = req.pr.role
              /\ IF req.kind = "tunnel"
                 THEN /\ Permits(p[i].allow[j], req.port)
                      /\ TunnelGatesPassed(p[i].allow[j])
                 ELSE /\ Permits(p[i].allow[j], decision.port)
                      /\ LegGatesPassed(p[i].allow[j])

(* The evidence of a request does not end in the middle: once a tunnel that   *)
(* asked for approval is settled, the outcome is in the trail, and a socket   *)
(* is never open behind a recorded refusal.                                   *)
TrailIsComplete ==
    /\ Recorded("approval", "requested") /\ pc # "waiting" =>
          Recorded("approval", "granted") \/ Recorded("approval", "refused")
    /\ addr # None =>
          ~ (\/ Recorded("decision", "deny") \/ Recorded("approval", "refused")
             \/ Recorded("credential", "deny"))

(* The host-only decision of the real-target flow is the decision the tunnel  *)
(* path gives for the port it names: same role, account, mode, range.         *)
HostDecisionAgrees ==
    LET d == DecideHostOnly(policy, req.pr, req.host, dns)
        e == Decide(policy, req.pr, req.host, d.port, dns)
    IN  d.allow => [e EXCEPT !.expect = {}] = [d EXCEPT !.port = 0]

(* A good edit that stays is in force in the end, also after a broken one.    *)
EditsTakeEffect == \A p \in Edits \ {Broken} : <>[](file = p) => <>[](policy = p)

(* A tunnel is spliced, closed or refused in the end, though nobody approves  *)
(* and neither side speaks.                                                   *)
TunnelSettles == pc = "deciding" ~> pc \in Settled

(* policy.go on ExpectProtocol: "threaded through so tunnel protocol          *)
(* identification enforce mode can check it without re-matching policy".      *)
AdmittingRuleEnforced ==
    /\ pc = "spliced" /\ Inspect /\ Enforce /\ decision.expect # {}
    => DecideEnforce(protocol, decision.expect)
=============================================================================
