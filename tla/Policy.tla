------------------------------- MODULE Policy ---------------------------------
(***************************************************************************)
(* Authorization decisions (internal/policy): pure functions of a compiled  *)
(* policy, a principal, a target and what the resolver answered.  Names of  *)
(* hosts, groups and roles stand for their case-folded form, as the code    *)
(* compares all three without case; accounts on a target are compared as    *)
(* they are.                                                                *)
(***************************************************************************)
EXTENDS Naturals, Sequences

CONSTANTS Names,       \* host names
          Addresses,   \* IP addresses; a literal address is also a host
          Ranges,      \* CIDR ranges
          Covers,      \* the addresses of each range
          Any,         \* "*"
          None         \* no role selected, no account, no range

ASSUME PolicyAssumption ==
    /\ Covers \in [Ranges -> SUBSET Addresses]
    /\ Any \notin Names \union Addresses \union Ranges
    /\ None \notin Ranges \union Addresses
    /\ Ranges \intersect (Names \union Addresses) = {}

NormalRecord(m) == IF m \in {"full", "metadata-only"} THEN m ELSE "none"
NormalMode(m) == IF m = "" THEN "passthrough" ELSE m

Denied ==
    [allow |-> FALSE, role |-> None, record |-> "none", credential |-> "",
     approval |-> FALSE, targetUser |-> None, allowUsers |-> {}, groups |-> {},
     port |-> 0, range |-> None, expect |-> {}]

(* The decision a rule of a role gives. *)
Granted(pr, role, rule, port, range) ==
    [allow |-> TRUE, role |-> role.name, record |-> NormalRecord(rule.record),
     credential |-> rule.credential, approval |-> rule.approval,
     targetUser |-> rule.targetUser, allowUsers |-> rule.allowUsers,
     groups |-> pr.groups \intersect role.groups, port |-> port, range |-> range,
     expect |-> rule.expect]

ForwardingAllowed(d) == d.record # "full"

(* The roles a decision looks at, as positions in the policy: all that the    *)
(* principal holds, or the first of them with the selected name.              *)
RolesFor(p, pr) == {i \in DOMAIN p : p[i].groups \intersect pr.groups # {}}

SelectRoles(p, pr) ==
    LET held  == RolesFor(p, pr)
        named == {i \in held : p[i].name = pr.role}
    IN  IF pr.role = None THEN held
        ELSE {i \in named : \A o \in named : i <= o}

MatchesPort(rule, port) ==
    rule.ports = << >> \/ \E k \in DOMAIN rule.ports : rule.ports[k] = port

MatchesHost(rule, host) == rule.host \in {Any, host}

(* What CIDR rules are matched with: the literal, or the resolver's answer,   *)
(* empty when there is none.                                                  *)
TargetIPs(host, dns) == IF host \in Addresses THEN {host} ELSE dns[host]

AllIn(ips, range) == ips # {} /\ ips \subseteq Covers[range]

(* Positions of the rules of those roles, and the first in policy order.      *)
Positions(p, pr) == UNION {{i} \X DOMAIN p[i].allow : i \in SelectRoles(p, pr)}

RuleAt(p, q) == p[q[1]].allow[q[2]]

First(S) ==
    CHOOSE q \in S : \A o \in S : q[1] < o[1] \/ (q[1] = o[1] /\ q[2] <= o[2])

ByName(p, pr, host) == {q \in Positions(p, pr) : MatchesHost(RuleAt(p, q), host)}

ByRange(p, pr, host, dns) ==
    {q \in Positions(p, pr) :
        /\ RuleAt(p, q).host \in Ranges
        /\ AllIn(TargetIPs(host, dns), RuleAt(p, q).host)}

(* Rules that name the host or anything come before every CIDR rule.          *)
Decide(p, pr, host, port, dns) ==
    LET Fit(S) == {q \in S : MatchesPort(RuleAt(p, q), port)}
        named  == Fit(ByName(p, pr, host))
        ranged == Fit(ByRange(p, pr, host, dns))
        Of(q, range) == Granted(pr, p[q[1]], RuleAt(p, q), 0, range)
    IN  IF named # {} THEN Of(First(named), None)
        ELSE IF ranged # {} THEN Of(First(ranged), RuleAt(p, First(ranged)).host)
        ELSE Denied

(* mutant: an ambiguous host takes the first rule that matches. *)
DecideHostOnlyFirst(p, pr, host, dns) ==
    LET named   == {q \in ByName(p, pr, host) : Len(RuleAt(p, q).ports) > 0}
        matches == IF named # {} THEN named ELSE ByRange(p, pr, host, dns)
        rule    == RuleAt(p, First(matches))
    IN  IF matches # {} /\ Len(rule.ports) > 0
        THEN [Granted(pr, p[First(matches)[1]], rule, rule.ports[1],
                      IF named # {} THEN None ELSE rule.host) EXCEPT !.expect = {}]
        ELSE Denied

(* The decision of the real-target flow when the client names no port: one    *)
(* rule must match the host, and name one port.                               *)
DecideHostOnly(p, pr, host, dns) ==
    LET named   == ByName(p, pr, host)
        matches == IF named # {} THEN named ELSE ByRange(p, pr, host, dns)
        q       == First(matches)
        rule    == RuleAt(p, q)
    IN  IF (\E m \in matches : matches = {m}) /\ Len(rule.ports) = 1
        THEN [Granted(pr, p[q[1]], rule, rule.ports[1],
                      IF named # {} THEN None ELSE rule.host) EXCEPT !.expect = {}]
        ELSE Denied

DecideHost(p, pr, host, dns) ==
    IF pr.port > 0
    THEN LET d == Decide(p, pr, host, pr.port, dns)
         IN  IF d.allow THEN [d EXCEPT !.port = pr.port] ELSE d
    ELSE DecideHostOnly(p, pr, host, dns)

(* The account on the target: pinned by the rule, asked for and allowed, or   *)
(* the login user; None when what was asked for is denied.                    *)
ResolveTargetUser(requested, d, login) ==
    IF requested = None THEN IF d.targetUser # None THEN d.targetUser ELSE login
    ELSE IF d.targetUser # None
         THEN IF requested = d.targetUser THEN requested ELSE None
         ELSE IF /\ NormalMode(d.credential) \in {"prompt", "passthrough"}
                 /\ d.allowUsers \intersect {Any, requested} # {}
              THEN requested ELSE None
=============================================================================
