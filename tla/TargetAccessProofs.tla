-------------------------- MODULE TargetAccessProofs ---------------------------
(***************************************************************************)
(* TLAPS proofs about the way from a policy decision to a socket.           *)
(***************************************************************************)
EXTENDS TargetAccess, WellFoundedInduction, TLAPS

-----------------------------------------------------------------------------
(* The invariant. *)

Event == [type : {"decision", "approval", "credential", "protocol"},
          outcome : {"allow", "deny", "requested", "granted", "refused"}]

(* Role i of p is one the principal holds, and has selected if it selects.    *)
Held(p, i, pr) ==
    /\ p[i].groups \intersect pr.groups # {}
    /\ pr.role # None => p[i].name = pr.role

(* Decision d has its gates and its range from the rule. *)
Copies(d, rule, host) ==
    /\ d.record = NormalRecord(rule.record)
    /\ d.credential = rule.credential
    /\ d.approval = rule.approval
    /\ d.targetUser = rule.targetUser
    /\ \/ d.range = None /\ MatchesHost(rule, host)
       \/ d.range = rule.host /\ rule.host \in Ranges

(* Decision d is the decision of one rule of p that permits the port. *)
Backs(p, d, pr, host, port) ==
    \E i \in DOMAIN p : \E j \in DOMAIN p[i].allow :
        /\ Held(p, i, pr)
        /\ MatchesPort(p[i].allow[j], port)
        /\ Copies(d, p[i].allow[j], host)

(* ... of a policy in force since the request began to be decided. *)
TunnelBacked == \E p \in since : Backs(p, decision, req.pr, req.host, req.port)
LegBacked == \E p \in since : Backs(p, decision, req.pr, req.host, decision.port)

(* A tunnel and a second leg go through steps of their own, and none of them  *)
(* has a socket before it has dialed.                                         *)
TunnelSteps ==
    {"deciding", "gate", "waiting", "credential", "dialing", "connected", "peeking",
     "holding", "spliced"}

LegSteps ==
    {"login", "prompting", "loggedIn", "opening", "authenticating", "legDialing", "leg"}

BeforeDial ==
    {"asked", "deciding", "gate", "waiting", "credential", "dialing", "login",
     "prompting", "loggedIn", "opening", "authenticating", "legDialing"}

StepsApart ==
    /\ pc \in TunnelSteps => req.kind = "tunnel"
    /\ pc \in LegSteps => req.kind = "leg"
    /\ pc \in BeforeDial => addr = None

(* The policy in force, and the one being decided by, are among since. *)
Current ==
    /\ policy \in since
    /\ pc \in {"deciding", "login", "opening"} => snapshot \in since
    /\ pc = "peeking" => snapshot \in Policies

Past(steps, kind) == req.kind = kind /\ (pc \in steps \/ addr # None)

(* What a tunnel has behind it at each step. *)
TunnelGates ==
    /\ Past({"gate", "waiting", "credential", "dialing"}, "tunnel") =>
          /\ TunnelBacked
          /\ decision.record # "full" /\ Recorded("decision", "allow")
    /\ Past({"credential", "dialing"}, "tunnel") =>
          (decision.approval => Recorded("approval", "granted"))
    /\ Past({"dialing"}, "tunnel") =>
          /\ NormalMode(decision.credential) # "deny"
          /\ NormalMode(decision.credential) # "passthrough" => Recorded("credential", "allow")

(* What a second leg has behind it. *)
LegGates ==
    /\ Past({"authenticating", "legDialing"}, "leg") => LegBacked
    /\ Past({"legDialing"}, "leg") =>
          /\ Recorded("credential", "allow")
          /\ NormalMode(decision.credential) # "deny"
          /\ NormalMode(decision.credential) = "prompt" => prompted # None
          /\ decision.targetUser # None => account = decision.targetUser

(* The address connected passed the guard under the decision that still is.  *)
Guarded == addr # None => Guard(addr)

(* No refusal was recorded for a request that goes on or has a socket. *)
NotRefused ==
    pc # "refused" \/ addr # None =>
        /\ ~Recorded("decision", "deny") /\ ~Recorded("approval", "refused")
        /\ ~Recorded("credential", "deny")

(* A request for approval has its outcome once the wait is over. *)
Outcome ==
    Recorded("approval", "requested") /\ pc # "waiting" =>
        Recorded("approval", "granted") \/ Recorded("approval", "refused")

IInv ==
    /\ TypeOK /\ StepsApart /\ Current
    /\ TunnelGates /\ LegGates /\ Guarded
    /\ NotRefused /\ Outcome

-----------------------------------------------------------------------------
(* Decisions. *)

(* A set of naturals that is not empty has a least element. *)
LEMMA LeastNatural ==
    ASSUME NEW T, T \subseteq Nat, T # {}
    PROVE  \E m \in T : \A n \in T : m <= n
<1> DEFINE R == OpToRel(<, Nat)
<1>1. R = {ss \in Nat \X Nat : ss[1] < ss[2]}
  BY Zenon DEF OpToRel
<1>2. IsWellFoundedOn(R, Nat)
  BY NatLessThanWellFounded
<1> HIDE DEF R
<1>3. PICK m \in T : \A n \in T : ~(<<n, m>> \in R)
  BY <1>2, WFMin
<1>4. ASSUME NEW n \in T
      PROVE  m <= n
  <2>1. m \in Nat /\ n \in Nat /\ <<n, m>> \in Nat \X Nat
    OBVIOUS
  <2>2. <<n, m>> \notin R
    BY <1>3
  <2>3. ~(n < m)
    BY <2>1, <2>2, <1>1
  <2> QED
    BY <2>1, <2>3
<1> QED
  BY <1>4

(* A set of positions that is not empty has a first one. *)
LEMMA FirstIsMember ==
    ASSUME NEW S, S \subseteq Nat \X Nat, S # {}
    PROVE  First(S) \in S
<1> DEFINE T == {q[1] : q \in S}
<1>1. T \subseteq Nat /\ T # {}
  OBVIOUS
<1>3. PICK m \in T : \A n \in T : m <= n
  <2> HIDE DEF T
  <2> QED
    BY <1>1, LeastNatural
<1> DEFINE U == {q[2] : q \in {r \in S : r[1] = m}}
<1>4. U \subseteq Nat /\ U # {}
  BY <1>3
<1>6. PICK k \in U : \A n \in U : k <= n
  <2> HIDE DEF U
  <2> QED
    BY <1>4, LeastNatural
<1>7. PICK q \in S : q[1] = m /\ q[2] = k
  BY <1>6
<1>8. \A o \in S : q[1] < o[1] \/ (q[1] = o[1] /\ q[2] <= o[2])
  <2> TAKE o \in S
  <2>1. o[1] \in T /\ (o[1] = m => o[2] \in U)
    OBVIOUS
  <2>2. m <= o[1] /\ (o[1] = m => k <= o[2])
    BY <2>1, <1>3, <1>6
  <2>3. o[1] \in Nat /\ o[2] \in Nat /\ m \in Nat /\ k \in Nat
    BY <1>1, <1>4
  <2> QED
    BY <2>2, <2>3, <1>7
<1>9. \E x \in S : \A o \in S : x[1] < o[1] \/ (x[1] = o[1] /\ x[2] <= o[2])
  BY <1>8
<1> QED
  BY <1>9 DEF First

LEMMA FirstOfOne ==
    ASSUME NEW q \in Nat \X Nat
    PROVE  First({q}) = q
BY FirstIsMember

(* Positions are of rules of roles the principal may use. *)
LEMMA PositionsHeld ==
    ASSUME NEW p \in Policies, NEW pr, NEW q \in Positions(p, pr)
    PROVE  /\ q = <<q[1], q[2]>> /\ q \in Nat \X Nat
           /\ q[1] \in DOMAIN p /\ q[2] \in DOMAIN p[q[1]].allow
           /\ Held(p, q[1], pr)
<1>1. PICK i \in SelectRoles(p, pr) : q \in {i} \X DOMAIN p[i].allow
  BY DEF Positions
<1>2. /\ i \in DOMAIN p /\ p[i].groups \intersect pr.groups # {}
      /\ pr.role # None => p[i].name = pr.role
  BY DEF SelectRoles, RolesFor
<1>3. q = <<q[1], q[2]>> /\ q[1] = i /\ q[2] \in DOMAIN p[i].allow
  BY <1>1
<1>4. i \in Nat /\ DOMAIN p[i].allow \subseteq Nat
  BY <1>2, AccessAssumption
<1> QED
  BY <1>2, <1>3, <1>4 DEF Held

LEMMA RulesTyped ==
    ASSUME NEW p \in Policies, NEW pr, NEW q \in Positions(p, pr)
    PROVE  RuleAt(p, q).approval \in BOOLEAN /\ RuleAt(p, q).ports \in Seq(Nat)
<1>1. q[1] \in DOMAIN p /\ q[2] \in DOMAIN p[q[1]].allow
  BY PositionsHeld
<1> QED
  BY <1>1, AccessAssumption DEF RuleAt

LEMMA SubsetFirst ==
    ASSUME NEW p \in Policies, NEW pr, NEW S, S \subseteq Positions(p, pr), S # {}
    PROVE  First(S) \in S
<1>1. S \subseteq Nat \X Nat
  BY PositionsHeld
<1> QED
  BY <1>1, FirstIsMember

LEMMA GrantedFields ==
    ASSUME NEW pr, NEW role, NEW rule, NEW port, NEW range
    PROVE  LET d == Granted(pr, role, rule, port, range)
           IN  /\ d.record = NormalRecord(rule.record)
               /\ d.credential = rule.credential
               /\ d.approval = rule.approval
               /\ d.targetUser = rule.targetUser
               /\ d.range = range
               /\ d.port = port
               /\ d.expect = rule.expect
               /\ DOMAIN d = DOMAIN Denied
BY DEF Granted, Denied

(* What a rule at a position gives is backed by the policy. *)
LEMMA GrantBacked ==
    ASSUME NEW p \in Policies, NEW pr, NEW q \in Positions(p, pr), NEW host, NEW port,
           NEW d, NEW range,
           d.record = NormalRecord(RuleAt(p, q).record),
           d.credential = RuleAt(p, q).credential,
           d.approval = RuleAt(p, q).approval,
           d.targetUser = RuleAt(p, q).targetUser,
           d.range = range,
           MatchesPort(RuleAt(p, q), port),
           \/ range = None /\ MatchesHost(RuleAt(p, q), host)
           \/ range = RuleAt(p, q).host /\ RuleAt(p, q).host \in Ranges
    PROVE  Backs(p, d, pr, host, port)
<1>1. /\ q[1] \in DOMAIN p /\ q[2] \in DOMAIN p[q[1]].allow
      /\ Held(p, q[1], pr)
  BY PositionsHeld
<1>2. Copies(d, p[q[1]].allow[q[2]], host)
  BY DEF Copies, RuleAt
<1>3. MatchesPort(p[q[1]].allow[q[2]], port)
  BY DEF RuleAt
<1> QED
  BY <1>1, <1>2, <1>3 DEF Backs

(* A decision that allows is backed by the policy it was taken from. *)
LEMMA DecideBacked ==
    ASSUME NEW p \in Policies, NEW pr, NEW host, NEW port, NEW ans
    PROVE  LET d == Decide(p, pr, host, port, ans)
           IN  /\ DOMAIN d = DOMAIN Denied
               /\ d.approval \in BOOLEAN
               /\ d.allow => Backs(p, d, pr, host, port)
<1> DEFINE d == Decide(p, pr, host, port, ans)
           named == {q \in ByName(p, pr, host) : MatchesPort(RuleAt(p, q), port)}
           ranged == {q \in ByRange(p, pr, host, ans) : MatchesPort(RuleAt(p, q), port)}
           n == First(named)
           r == First(ranged)
<1>1. named \subseteq Positions(p, pr) /\ ranged \subseteq Positions(p, pr)
  BY DEF ByName, ByRange
<1>2. CASE named # {}
  <2> DEFINE rule == RuleAt(p, n)
             g == Granted(pr, p[n[1]], rule, 0, None)
  <2>1. n \in named
    BY <1>1, <1>2, SubsetFirst
  <2>2. d = g
    BY <1>2 DEF Decide
  <2>3. n \in Positions(p, pr) /\ MatchesPort(rule, port) /\ MatchesHost(rule, host)
    BY <2>1, <1>1 DEF ByName
  <2>4. /\ g.record = NormalRecord(rule.record) /\ g.credential = rule.credential
        /\ g.approval = rule.approval /\ g.targetUser = rule.targetUser
        /\ g.range = None /\ DOMAIN g = DOMAIN Denied
    BY GrantedFields
  <2>5. rule.approval \in BOOLEAN
    BY <2>3, RulesTyped
  <2> HIDE DEF n, g, rule
  <2>6. Backs(p, g, pr, host, port)
    BY <2>3, <2>4, GrantBacked DEF rule
  <2> QED
    BY <2>2, <2>4, <2>5, <2>6
<1>3. CASE named = {} /\ ranged # {}
  <2> DEFINE rule == RuleAt(p, r)
             g == Granted(pr, p[r[1]], rule, 0, rule.host)
  <2>1. r \in ranged
    BY <1>1, <1>3, SubsetFirst
  <2>2. d = g
    BY <1>3 DEF Decide
  <2>3. r \in Positions(p, pr) /\ MatchesPort(rule, port) /\ rule.host \in Ranges
    BY <2>1, <1>1 DEF ByRange
  <2>4. /\ g.record = NormalRecord(rule.record) /\ g.credential = rule.credential
        /\ g.approval = rule.approval /\ g.targetUser = rule.targetUser
        /\ g.range = rule.host /\ DOMAIN g = DOMAIN Denied
    BY GrantedFields
  <2>5. rule.approval \in BOOLEAN
    BY <2>3, RulesTyped
  <2> HIDE DEF r, g, rule
  <2>6. Backs(p, g, pr, host, port)
    BY <2>3, <2>4, GrantBacked DEF rule
  <2> QED
    BY <2>2, <2>4, <2>5, <2>6
<1>4. CASE named = {} /\ ranged = {}
  <2>1. d = Denied
    BY <1>4 DEF Decide
  <2>2. Denied.approval = FALSE /\ Denied.allow = FALSE
    BY DEF Denied
  <2>3. DOMAIN d = DOMAIN Denied /\ d.approval \in BOOLEAN
    BY <2>1, <2>2
  <2>4. ~d.allow
    BY <2>1, <2>2
  <2> QED
    BY <2>3, <2>4
<1> QED
  BY <1>2, <1>3, <1>4

(* Changing where a decision leads leaves its gates and its range. *)
LEMMA BackedExcept ==
    ASSUME NEW p, NEW d, NEW e, NEW pr, NEW host, NEW port, Backs(p, d, pr, host, port),
           e.record = d.record, e.credential = d.credential, e.approval = d.approval,
           e.targetUser = d.targetUser, e.range = d.range
    PROVE  Backs(p, e, pr, host, port)
<1>1. ASSUME NEW rule, Copies(d, rule, host)
      PROVE  Copies(e, rule, host)
  BY <1>1 DEF Copies
<1> QED
  BY <1>1 DEF Backs

(* The one rule that matches a host and names one port is the rule that       *)
(* decides for that port.                                                     *)
LEMMA HostOnlyIsDecide ==
    ASSUME NEW p \in Policies, NEW pr, NEW host, NEW ans,
           NEW d, d = DecideHostOnly(p, pr, host, ans), d.allow,
           NEW e, e = Decide(p, pr, host, d.port, ans)
    PROVE  \E q \in Positions(p, pr) : \E range :
              /\ d = [Granted(pr, p[q[1]], RuleAt(p, q), d.port, range) EXCEPT !.expect = {}]
              /\ e = Granted(pr, p[q[1]], RuleAt(p, q), 0, range)
              /\ MatchesPort(RuleAt(p, q), d.port)
              /\ \/ range = None /\ MatchesHost(RuleAt(p, q), host)
                 \/ range = RuleAt(p, q).host /\ RuleAt(p, q).host \in Ranges
<1> DEFINE name == ByName(p, pr, host)
           span == ByRange(p, pr, host, ans)
           matches == IF name # {} THEN name ELSE span
           q == First(matches)
           rule == RuleAt(p, q)
           range == IF name # {} THEN None ELSE rule.host
           g == Granted(pr, p[q[1]], rule, rule.ports[1], range)
<1>1. (\E m \in matches : matches = {m}) /\ Len(rule.ports) = 1
  <2>1. Denied.allow = FALSE
    BY DEF Denied
  <2> QED
    BY <2>1 DEF DecideHostOnly
<1>2. d = [g EXCEPT !.expect = {}]
  BY <1>1 DEF DecideHostOnly
<1>3. name \subseteq Positions(p, pr) /\ span \subseteq Positions(p, pr)
  BY DEF ByName, ByRange
<1>4. PICK m \in matches : matches = {m}
  BY <1>1
<1>5. q = m /\ q \in Positions(p, pr)
  <2>1. m \in Nat \X Nat /\ m \in Positions(p, pr)
    BY <1>3, PositionsHeld
  <2> QED
    BY <1>4, <2>1, FirstOfOne
<1>6. d.port = rule.ports[1]
  <2>1. g.port = rule.ports[1] /\ "port" \in DOMAIN g
    BY DEF Granted
  <2> HIDE DEF g
  <2>2. d.port = g.port
    BY <1>2
  <2> QED
    BY <2>1, <2>2
<1>7. MatchesPort(rule, d.port)
  <2>1. rule.ports \in Seq(Nat)
    BY <1>5, RulesTyped
  <2>2. 1 \in DOMAIN rule.ports
    BY <2>1, <1>1
  <2> QED
    BY <1>6, <2>2 DEF MatchesPort
<1> DEFINE named == {r \in name : MatchesPort(RuleAt(p, r), d.port)}
           ranged == {r \in span : MatchesPort(RuleAt(p, r), d.port)}
<1>8. CASE name # {}
  <2>1. name = {q} /\ range = None
    BY <1>8, <1>4, <1>5
  <2>2. MatchesHost(rule, host)
    <3> HIDE DEF q
    <3> QED
      BY <2>1 DEF ByName
  <2>3. named = {q}
    <3> HIDE DEF name, q
    <3> QED
      BY <2>1, <1>7
  <2>4. First(named) = q
    <3> HIDE DEF named, q
    <3>1. q \in Nat \X Nat
      BY <1>5, PositionsHeld
    <3> QED
      BY <2>3, <3>1, FirstOfOne
  <2>5. e = Granted(pr, p[First(named)[1]], RuleAt(p, First(named)), 0, None)
    <3>1. named # {}
      <4> HIDE DEF named, q
      <4> QED
        BY <2>3
    <3> QED
      BY <3>1 DEF Decide
  <2>6. e = Granted(pr, p[q[1]], rule, 0, range)
    <3> HIDE DEF named, q, range
    <3> QED
      BY <2>1, <2>4, <2>5
  <2> HIDE DEF q, range
  <2> QED
    BY <1>2, <1>5, <1>6, <1>7, <2>1, <2>2, <2>6
<1>9. CASE name = {}
  <2>1. span = {q} /\ range = rule.host
    BY <1>9, <1>4, <1>5
  <2>2. rule.host \in Ranges
    <3> HIDE DEF q
    <3> QED
      BY <2>1 DEF ByRange
  <2>3. ranged = {q}
    <3> HIDE DEF span, q
    <3> QED
      BY <2>1, <1>7
  <2>4. First(ranged) = q
    <3> HIDE DEF ranged, q
    <3>1. q \in Nat \X Nat
      BY <1>5, PositionsHeld
    <3> QED
      BY <2>3, <3>1, FirstOfOne
  <2>5. e = Granted(pr, p[First(ranged)[1]], RuleAt(p, First(ranged)), 0,
                    RuleAt(p, First(ranged)).host)
    <3>1. ranged # {} /\ named = {}
      <4> HIDE DEF ranged, q
      <4> QED
        BY <2>3, <1>9
    <3> QED
      BY <3>1 DEF Decide
  <2>6. e = Granted(pr, p[q[1]], rule, 0, range)
    <3> HIDE DEF ranged, q, range
    <3> QED
      BY <2>1, <2>4, <2>5
  <2> HIDE DEF q, range
  <2> QED
    BY <1>2, <1>5, <1>6, <1>7, <2>1, <2>2, <2>6
<1> QED
  BY <1>8, <1>9

(* A decision for a host is backed for the port it leads to. *)
LEMMA DecideHostBacked ==
    ASSUME NEW p \in Policies, NEW pr, NEW host, NEW ans
    PROVE  LET d == DecideHost(p, pr, host, ans)
           IN  /\ DOMAIN d = DOMAIN Denied
               /\ d.allow => Backs(p, d, pr, host, d.port)
<1> DEFINE d == DecideHost(p, pr, host, ans)
<1> SUFFICES DOMAIN d = DOMAIN Denied /\ (d.allow => Backs(p, d, pr, host, d.port))
  OBVIOUS
<1>1. CASE pr.port > 0
  <2> DEFINE e == Decide(p, pr, host, pr.port, ans)
  <2>1. DOMAIN e = DOMAIN Denied /\ (e.allow => Backs(p, e, pr, host, pr.port))
    BY DecideBacked
  <2>2. d = IF e.allow THEN [e EXCEPT !.port = pr.port] ELSE e
    BY <1>1 DEF DecideHost
  <2>3. "port" \in DOMAIN e
    BY <2>1 DEF Denied
  <2> HIDE DEF d, e
  <2>4. CASE e.allow
    <3>1. d = [e EXCEPT !.port = pr.port]
      BY <2>2, <2>4
    <3>2. DOMAIN d = DOMAIN e /\ d.port = pr.port
      BY <3>1, <2>3
    <3>3. /\ d.record = e.record /\ d.credential = e.credential /\ d.approval = e.approval
          /\ d.targetUser = e.targetUser /\ d.range = e.range
      <4>1. {"record", "credential", "approval", "targetUser", "range"} \subseteq DOMAIN e
        BY <2>1 DEF Denied
      <4> QED
        BY <3>1, <4>1
    <3>4. Backs(p, d, pr, host, pr.port)
      BY <2>1, <2>4, <3>3, BackedExcept
    <3> QED
      BY <3>2, <3>4, <2>1
  <2>5. CASE ~e.allow
    <3>1. d = e
      BY <2>2, <2>5
    <3> QED
      BY <3>1, <2>1, <2>5
  <2> QED
    BY <2>4, <2>5
<1>2. CASE ~(pr.port > 0)
  <2> DEFINE e == DecideHostOnly(p, pr, host, ans)
  <2>1. d = e
    BY <1>2 DEF DecideHost
  <2>2. DOMAIN e = DOMAIN Denied
    BY DEF DecideHostOnly, Granted, Denied
  <2>3. ASSUME e.allow PROVE Backs(p, e, pr, host, e.port)
    <3>0. PICK q \in Positions(p, pr) : \E range :
              /\ e = [Granted(pr, p[q[1]], RuleAt(p, q), e.port, range) EXCEPT !.expect = {}]
              /\ MatchesPort(RuleAt(p, q), e.port)
              /\ \/ range = None /\ MatchesHost(RuleAt(p, q), host)
                 \/ range = RuleAt(p, q).host /\ RuleAt(p, q).host \in Ranges
      BY <2>3, HostOnlyIsDecide
    <3>1. PICK range :
              /\ e = [Granted(pr, p[q[1]], RuleAt(p, q), e.port, range) EXCEPT !.expect = {}]
              /\ MatchesPort(RuleAt(p, q), e.port)
              /\ \/ range = None /\ MatchesHost(RuleAt(p, q), host)
                 \/ range = RuleAt(p, q).host /\ RuleAt(p, q).host \in Ranges
      BY <3>0
    <3> DEFINE rule == RuleAt(p, q)
               g == Granted(pr, p[q[1]], rule, e.port, range)
    <3> HIDE DEF e
    <3>2. /\ g.record = NormalRecord(rule.record) /\ g.credential = rule.credential
          /\ g.approval = rule.approval /\ g.targetUser = rule.targetUser
          /\ g.range = range /\ DOMAIN g = DOMAIN Denied
      BY GrantedFields
    <3>3. {"record", "credential", "approval", "targetUser", "range"} \subseteq DOMAIN g
      BY <3>2 DEF Denied
    <3> HIDE DEF g, rule
    <3>4. /\ e.record = g.record /\ e.credential = g.credential /\ e.approval = g.approval
          /\ e.targetUser = g.targetUser /\ e.range = g.range
      BY <3>1, <3>3 DEF g, rule
    <3> QED
      BY <3>1, <3>2, <3>4, GrantBacked DEF rule
  <2> HIDE DEF d, e
  <2> QED
    BY <2>1, <2>2, <2>3
<1> QED
  BY <1>1, <1>2

(* A decision by its fields, and what putting two of them does. *)
DecisionOf(allow, role, record, credential, approval, user, users, groups, port, range, expect) ==
    [allow |-> allow, role |-> role, record |-> record, credential |-> credential,
     approval |-> approval, targetUser |-> user, allowUsers |-> users, groups |-> groups,
     port |-> port, range |-> range, expect |-> expect]

LEMMA PutExpect ==
    ASSUME NEW a, NEW b, NEW c, NEW d, NEW e, NEW f, NEW g, NEW h, NEW i, NEW j, NEW k, NEW x
    PROVE  [DecisionOf(a, b, c, d, e, f, g, h, i, j, k) EXCEPT !.expect = x]
              = DecisionOf(a, b, c, d, e, f, g, h, i, j, x)
BY DEF DecisionOf

LEMMA PutPort ==
    ASSUME NEW a, NEW b, NEW c, NEW d, NEW e, NEW f, NEW g, NEW h, NEW i, NEW j, NEW k, NEW x
    PROVE  [DecisionOf(a, b, c, d, e, f, g, h, i, j, k) EXCEPT !.port = x]
              = DecisionOf(a, b, c, d, e, f, g, h, x, j, k)
BY DEF DecisionOf

(* The two decision functions agree on the port the host-only one names. *)
LEMMA HostOnlyAgrees ==
    ASSUME NEW p \in Policies, NEW pr, NEW host, NEW ans,
           NEW d, d = DecideHostOnly(p, pr, host, ans), d.allow,
           NEW e, e = Decide(p, pr, host, d.port, ans)
    PROVE  [e EXCEPT !.expect = {}] = [d EXCEPT !.port = 0]
<1>0. PICK q \in Positions(p, pr) : \E range :
          /\ d = [Granted(pr, p[q[1]], RuleAt(p, q), d.port, range) EXCEPT !.expect = {}]
          /\ e = Granted(pr, p[q[1]], RuleAt(p, q), 0, range)
  BY HostOnlyIsDecide
<1>1. PICK range :
          /\ d = [Granted(pr, p[q[1]], RuleAt(p, q), d.port, range) EXCEPT !.expect = {}]
          /\ e = Granted(pr, p[q[1]], RuleAt(p, q), 0, range)
  BY <1>0
<1> DEFINE role == p[q[1]]
           rule == RuleAt(p, q)
           held == pr.groups \intersect role.groups
           n == d.port
           yes == TRUE
           none == {}
           record == NormalRecord(rule.record)
           Of(port, expect) ==
              DecisionOf(yes, role.name, record, rule.credential, rule.approval,
                         rule.targetUser, rule.allowUsers, held, port,
                         range, expect)
<1>2. Granted(pr, role, rule, n, range) = Of(n, rule.expect)
  BY DEF Granted, DecisionOf
<1>3. e = Of(0, rule.expect)
  BY <1>1 DEF Granted, DecisionOf
<1> HIDE DEF n, role, rule, held, yes, none, record
<1>4. d = [Of(n, rule.expect) EXCEPT !.expect = {}]
  <2> HIDE DEF Of
  <2> QED
    BY <1>1, <1>2 DEF n, role, rule
<1>5. [Of(n, rule.expect) EXCEPT !.expect = none] = Of(n, none)
  BY PutExpect
<1>6. [Of(n, none) EXCEPT !.port = 0] = Of(0, none)
  BY PutPort
<1>7. [Of(0, rule.expect) EXCEPT !.expect = none] = Of(0, none)
  BY PutExpect
<1> HIDE DEF Of
<1> QED
  BY <1>3, <1>4, <1>5, <1>6, <1>7 DEF none

LEMMA HostAgrees ==
    policy \in Policies => HostDecisionAgrees
<1> DEFINE d == DecideHostOnly(policy, req.pr, req.host, dns)
           e == Decide(policy, req.pr, req.host, d.port, dns)
<1> SUFFICES ASSUME policy \in Policies, d.allow
             PROVE  [e EXCEPT !.expect = {}] = [d EXCEPT !.port = 0]
  BY DEF HostDecisionAgrees
<1>1. d = DecideHostOnly(policy, req.pr, req.host, dns)
  OBVIOUS
<1>2. e = Decide(policy, req.pr, req.host, d.port, dns)
  OBVIOUS
<1> HIDE DEF d, e
<1> QED
  BY <1>1, <1>2, HostOnlyAgrees

-----------------------------------------------------------------------------
(* Evidence. *)

(* What is in the trail stays, and an event emitted is the only new one. *)
LEMMA EmitRecords ==
    ASSUME NEW type, NEW outcome, trail \in Seq(Event),
           [type |-> type, outcome |-> outcome] \in Event, Emit(type, outcome)
    PROVE  /\ trail' \in Seq(Event)
           /\ Recorded(type, outcome)'
           /\ \A t, o : Recorded(t, o) => Recorded(t, o)'
           /\ \A t, o : Recorded(t, o)' => Recorded(t, o) \/ (t = type /\ o = outcome)
<1> DEFINE x == [type |-> type, outcome |-> outcome]
<1>1. trail' = Append(trail, x)
  BY DEF Emit
<1>2. x \in Event
  OBVIOUS
<1> HIDE DEF x
<1>3. /\ trail' \in Seq(Event) /\ Len(trail) \in Nat
      /\ DOMAIN trail = 1..Len(trail) /\ DOMAIN trail' = 1..(Len(trail) + 1)
      /\ \A k \in 1..Len(trail) : trail'[k] = trail[k]
      /\ trail'[Len(trail) + 1] = x
  BY <1>1, <1>2
<1>4. Recorded(type, outcome)'
  BY <1>3 DEF Recorded, x
<1>5. ASSUME NEW t, NEW o, Recorded(t, o) PROVE Recorded(t, o)'
  BY <1>3, <1>5 DEF Recorded
<1>6. ASSUME NEW t, NEW o, Recorded(t, o)' PROVE Recorded(t, o) \/ (t = type /\ o = outcome)
  <2>1. PICK k \in DOMAIN trail' : trail'[k] = [type |-> t, outcome |-> o]
    BY <1>6 DEF Recorded
  <2>2. CASE k \in 1..Len(trail)
    BY <2>1, <2>2, <1>3 DEF Recorded
  <2>3. CASE k = Len(trail) + 1
    <3>1. x = [type |-> t, outcome |-> o]
      BY <2>1, <2>3, <1>3
    <3> QED
      BY <3>1 DEF x
  <2> QED
    BY <2>2, <2>3, <1>3
<1> QED
  BY <1>3, <1>4, <1>5, <1>6

LEMMA KeepRecords ==
    ASSUME trail' = trail
    PROVE  \A t, o : Recorded(t, o)' <=> Recorded(t, o)
BY DEF Recorded

-----------------------------------------------------------------------------
(* Steps that leave the decision, the account and the socket as they are. *)

Quiet == UNCHANGED <<file, baseline, policy, edits, dns, rebinds, req, snapshot, decision,
                     peeked, since, prompted, account, addr>>

(* The parts of the invariant that name steps and evidence. *)
Progress == StepsApart /\ Current /\ TunnelGates /\ LegGates /\ NotRefused /\ Outcome

LEMMA BackedKept ==
    ASSUME UNCHANGED <<req, decision>>, since \subseteq since'
    PROVE  (TunnelBacked => TunnelBacked') /\ (LegBacked => LegBacked')
BY DEF TunnelBacked, LegBacked

LEMMA QuietStep ==
    ASSUME IInv, Quiet, pc' \in Steps, protocol' \in Protocols \union {Unknown, None},
           trail' \in Seq(Event)
    PROVE  /\ TypeOK' /\ Guarded'
           /\ TunnelBacked => TunnelBacked'
           /\ LegBacked => LegBacked'
<1>1. TypeOK'
  BY DEF IInv, Quiet, TypeOK, Event
<1>2. Guarded'
  BY DEF IInv, Quiet, Guarded, Guard
<1> QED
  BY <1>1, <1>2, BackedKept DEF Quiet

(* The approval gate. *)
LEMMA ApprovalSteps ==
    ASSUME IInv, RequestApproval \/ RequestApprovalFails \/ ApprovalGranted \/ ApprovalRefused
    PROVE  IInv'
<1>1. TypeOK /\ Progress /\ Guarded /\ trail \in Seq(Event)
  BY DEF IInv, Progress, TypeOK, Event
<1>2. CASE RequestApproval
  <2>1. /\ Quiet /\ UNCHANGED protocol /\ pc = "gate" /\ pc' = "waiting"
        /\ Emit("approval", "requested")
    BY <1>2 DEF RequestApproval, Quiet, source, names, look, leg, socket
  <2>2. /\ trail' \in Seq(Event)
        /\ Recorded("approval", "requested")'
        /\ \A t, o : Recorded(t, o) => Recorded(t, o)'
        /\ \A t, o : Recorded(t, o)' => Recorded(t, o) \/ (t = "approval" /\ o = "requested")
    BY <1>1, <2>1, EmitRecords DEF Event
  <2>3. pc' \in Steps /\ protocol' \in Protocols \union {Unknown, None}
    BY <1>1, <2>1 DEF Steps, Settled, TypeOK
  <2>4. TypeOK' /\ Guarded' /\ (TunnelBacked => TunnelBacked') /\ (LegBacked => LegBacked')
    BY <2>1, <2>2, <2>3, QuietStep
  <2>5. Progress'
    BY <1>1, <2>1, <2>2, <2>4
       DEF Progress, Quiet, TunnelGates, LegGates, NotRefused, Outcome, StepsApart,
           Current, Past, TunnelSteps, LegSteps, BeforeDial
  <2> QED
    BY <2>4, <2>5 DEF IInv, Progress
<1>3. CASE RequestApprovalFails
  <2>1. /\ Quiet /\ UNCHANGED protocol /\ pc = "gate" /\ pc' = "refused"
        /\ trail' = trail
    BY <1>3 DEF RequestApprovalFails, Quiet, source, names, look, leg, socket
  <2>2. trail' \in Seq(Event) /\ (\A t, o : Recorded(t, o)' <=> Recorded(t, o))
    BY <1>1, <2>1, KeepRecords
  <2>3. pc' \in Steps /\ protocol' \in Protocols \union {Unknown, None}
    BY <1>1, <2>1 DEF Steps, Settled, TypeOK
  <2>4. TypeOK' /\ Guarded' /\ (TunnelBacked => TunnelBacked') /\ (LegBacked => LegBacked')
    BY <2>1, <2>2, <2>3, QuietStep
  <2>5. Progress'
    BY <1>1, <2>1, <2>2, <2>4
       DEF Progress, Quiet, TunnelGates, LegGates, NotRefused, Outcome, StepsApart,
           Current, Past, TunnelSteps, LegSteps, BeforeDial
  <2> QED
    BY <2>4, <2>5 DEF IInv, Progress
<1>4. CASE ApprovalGranted
  <2>1. /\ Quiet /\ UNCHANGED protocol /\ pc = "waiting" /\ pc' = "credential"
        /\ Emit("approval", "granted")
    BY <1>4 DEF ApprovalGranted, Quiet, source, names, look, leg, socket
  <2>2. /\ trail' \in Seq(Event)
        /\ Recorded("approval", "granted")'
        /\ \A t, o : Recorded(t, o) => Recorded(t, o)'
        /\ \A t, o : Recorded(t, o)' => Recorded(t, o) \/ (t = "approval" /\ o = "granted")
    BY <1>1, <2>1, EmitRecords DEF Event
  <2>3. pc' \in Steps /\ protocol' \in Protocols \union {Unknown, None}
    BY <1>1, <2>1 DEF Steps, Settled, TypeOK
  <2>4. TypeOK' /\ Guarded' /\ (TunnelBacked => TunnelBacked') /\ (LegBacked => LegBacked')
    BY <2>1, <2>2, <2>3, QuietStep
  <2>5. Progress'
    BY <1>1, <2>1, <2>2, <2>4
       DEF Progress, Quiet, TunnelGates, LegGates, NotRefused, Outcome, StepsApart,
           Current, Past, TunnelSteps, LegSteps, BeforeDial
  <2> QED
    BY <2>4, <2>5 DEF IInv, Progress
<1>5. CASE ApprovalRefused
  <2>1. /\ Quiet /\ UNCHANGED protocol /\ pc = "waiting" /\ pc' = "refused"
        /\ Emit("approval", "refused")
    BY <1>5 DEF ApprovalRefused, Quiet, source, names, look, leg, socket
  <2>2. /\ trail' \in Seq(Event)
        /\ Recorded("approval", "refused")'
        /\ \A t, o : Recorded(t, o) => Recorded(t, o)'
        /\ \A t, o : Recorded(t, o)' => Recorded(t, o) \/ (t = "approval" /\ o = "refused")
    BY <1>1, <2>1, EmitRecords DEF Event
  <2>3. pc' \in Steps /\ protocol' \in Protocols \union {Unknown, None}
    BY <1>1, <2>1 DEF Steps, Settled, TypeOK
  <2>4. TypeOK' /\ Guarded' /\ (TunnelBacked => TunnelBacked') /\ (LegBacked => LegBacked')
    BY <2>1, <2>2, <2>3, QuietStep
  <2>5. Progress'
    BY <1>1, <2>1, <2>2, <2>4
       DEF Progress, Quiet, TunnelGates, LegGates, NotRefused, Outcome, StepsApart,
           Current, Past, TunnelSteps, LegSteps, BeforeDial
  <2> QED
    BY <2>4, <2>5 DEF IInv, Progress
<1> QED
  BY <1>2, <1>3, <1>4, <1>5

(* The credential of a tunnel. *)
LEMMA CredentialSteps ==
    ASSUME IInv, ResolvePassthrough \/ ResolveServes \/ ResolveRefuses
    PROVE  IInv'
<1>1. TypeOK /\ Progress /\ Guarded /\ trail \in Seq(Event)
  BY DEF IInv, Progress, TypeOK, Event
<1>2. CASE ResolvePassthrough
  <2>1. /\ Quiet /\ UNCHANGED protocol /\ pc = "credential" /\ pc' = "dialing"
        /\ NormalMode(decision.credential) = "passthrough"
        /\ trail' = trail
    BY <1>2 DEF ResolvePassthrough, Quiet, source, names, look, leg, socket
  <2>2. trail' \in Seq(Event) /\ (\A t, o : Recorded(t, o)' <=> Recorded(t, o))
    BY <1>1, <2>1, KeepRecords
  <2>3. pc' \in Steps /\ protocol' \in Protocols \union {Unknown, None}
    BY <1>1, <2>1 DEF Steps, Settled, TypeOK
  <2>4. TypeOK' /\ Guarded' /\ (TunnelBacked => TunnelBacked') /\ (LegBacked => LegBacked')
    BY <2>1, <2>2, <2>3, QuietStep
  <2>5. Progress'
    BY <1>1, <2>1, <2>2, <2>4
       DEF Progress, Quiet, TunnelGates, LegGates, NotRefused, Outcome, StepsApart,
           Current, Past, TunnelSteps, LegSteps, BeforeDial
  <2> QED
    BY <2>4, <2>5 DEF IInv, Progress
<1>3. CASE ResolveServes
  <2>1. /\ Quiet /\ UNCHANGED protocol /\ pc = "credential" /\ pc' = "dialing"
        /\ NormalMode(decision.credential) \in {"prompt", "inject"}
        /\ Emit("credential", "allow")
    BY <1>3 DEF ResolveServes, Quiet, source, names, look, leg, socket
  <2>2. /\ trail' \in Seq(Event)
        /\ Recorded("credential", "allow")'
        /\ \A t, o : Recorded(t, o) => Recorded(t, o)'
        /\ \A t, o : Recorded(t, o)' => Recorded(t, o) \/ (t = "credential" /\ o = "allow")
    BY <1>1, <2>1, EmitRecords DEF Event
  <2>3. pc' \in Steps /\ protocol' \in Protocols \union {Unknown, None}
    BY <1>1, <2>1 DEF Steps, Settled, TypeOK
  <2>4. TypeOK' /\ Guarded' /\ (TunnelBacked => TunnelBacked') /\ (LegBacked => LegBacked')
    BY <2>1, <2>2, <2>3, QuietStep
  <2>5. Progress'
    BY <1>1, <2>1, <2>2, <2>4
       DEF Progress, Quiet, TunnelGates, LegGates, NotRefused, Outcome, StepsApart,
           Current, Past, TunnelSteps, LegSteps, BeforeDial
  <2> QED
    BY <2>4, <2>5 DEF IInv, Progress
<1>4. CASE ResolveRefuses
  <2>1. /\ Quiet /\ UNCHANGED protocol /\ pc = "credential" /\ pc' = "refused"
        /\ Emit("credential", "deny")
    BY <1>4 DEF ResolveRefuses, Quiet, source, names, look, leg, socket
  <2>2. /\ trail' \in Seq(Event)
        /\ Recorded("credential", "deny")'
        /\ \A t, o : Recorded(t, o) => Recorded(t, o)'
        /\ \A t, o : Recorded(t, o)' => Recorded(t, o) \/ (t = "credential" /\ o = "deny")
    BY <1>1, <2>1, EmitRecords DEF Event
  <2>3. pc' \in Steps /\ protocol' \in Protocols \union {Unknown, None}
    BY <1>1, <2>1 DEF Steps, Settled, TypeOK
  <2>4. TypeOK' /\ Guarded' /\ (TunnelBacked => TunnelBacked') /\ (LegBacked => LegBacked')
    BY <2>1, <2>2, <2>3, QuietStep
  <2>5. Progress'
    BY <1>1, <2>1, <2>2, <2>4
       DEF Progress, Quiet, TunnelGates, LegGates, NotRefused, Outcome, StepsApart,
           Current, Past, TunnelSteps, LegSteps, BeforeDial
  <2> QED
    BY <2>4, <2>5 DEF IInv, Progress
<1> QED
  BY <1>2, <1>3, <1>4

(* Steps that end a request, and the prompt of a login. *)
LEMMA EndingSteps ==
    ASSUME IInv, DialFails \/ AcceptFails \/ Prompted \/ Ends
    PROVE  IInv'
<1>1. TypeOK /\ Progress /\ Guarded /\ trail \in Seq(Event)
  BY DEF IInv, Progress, TypeOK, Event
<1>2. CASE DialFails
  <2>1. /\ Quiet /\ UNCHANGED protocol /\ pc \in {"dialing", "legDialing"} /\ pc' = "refused"
        /\ trail' = trail
    BY <1>2 DEF DialFails, Quiet, source, names, look, leg, socket
  <2>2. trail' \in Seq(Event) /\ (\A t, o : Recorded(t, o)' <=> Recorded(t, o))
    BY <1>1, <2>1, KeepRecords
  <2>3. pc' \in Steps /\ protocol' \in Protocols \union {Unknown, None}
    BY <1>1, <2>1 DEF Steps, Settled, TypeOK
  <2>4. TypeOK' /\ Guarded' /\ (TunnelBacked => TunnelBacked') /\ (LegBacked => LegBacked')
    BY <2>1, <2>2, <2>3, QuietStep
  <2>5. Progress'
    BY <1>1, <2>1, <2>2, <2>4
       DEF Progress, Quiet, TunnelGates, LegGates, NotRefused, Outcome, StepsApart,
           Current, Past, TunnelSteps, LegSteps, BeforeDial
  <2> QED
    BY <2>4, <2>5 DEF IInv, Progress
<1>3. CASE AcceptFails
  <2>1. /\ Quiet /\ UNCHANGED protocol /\ pc = "connected" /\ pc' = "refused"
        /\ trail' = trail
    BY <1>3 DEF AcceptFails, Quiet, source, names, look, leg, socket
  <2>2. trail' \in Seq(Event) /\ (\A t, o : Recorded(t, o)' <=> Recorded(t, o))
    BY <1>1, <2>1, KeepRecords
  <2>3. pc' \in Steps /\ protocol' \in Protocols \union {Unknown, None}
    BY <1>1, <2>1 DEF Steps, Settled, TypeOK
  <2>4. TypeOK' /\ Guarded' /\ (TunnelBacked => TunnelBacked') /\ (LegBacked => LegBacked')
    BY <2>1, <2>2, <2>3, QuietStep
  <2>5. Progress'
    BY <1>1, <2>1, <2>2, <2>4
       DEF Progress, Quiet, TunnelGates, LegGates, NotRefused, Outcome, StepsApart,
           Current, Past, TunnelSteps, LegSteps, BeforeDial
  <2> QED
    BY <2>4, <2>5 DEF IInv, Progress
<1>4. CASE Prompted
  <2>1. /\ Quiet /\ UNCHANGED protocol /\ pc = "prompting" /\ pc' \in {"loggedIn", "refused"}
        /\ trail' = trail
    BY <1>4 DEF Prompted, Quiet, source, names, look, leg, socket
  <2>2. trail' \in Seq(Event) /\ (\A t, o : Recorded(t, o)' <=> Recorded(t, o))
    BY <1>1, <2>1, KeepRecords
  <2>3. pc' \in Steps /\ protocol' \in Protocols \union {Unknown, None}
    BY <1>1, <2>1 DEF Steps, Settled, TypeOK
  <2>4. TypeOK' /\ Guarded' /\ (TunnelBacked => TunnelBacked') /\ (LegBacked => LegBacked')
    BY <2>1, <2>2, <2>3, QuietStep
  <2>5. Progress'
    BY <1>1, <2>1, <2>2, <2>4
       DEF Progress, Quiet, TunnelGates, LegGates, NotRefused, Outcome, StepsApart,
           Current, Past, TunnelSteps, LegSteps, BeforeDial
  <2> QED
    BY <2>4, <2>5 DEF IInv, Progress
<1>5. CASE Ends
  <2>1. /\ Quiet /\ UNCHANGED protocol /\ pc \in {"spliced", "leg"} /\ pc' = "closed"
        /\ trail' = trail
    BY <1>5 DEF Ends, Quiet, source, names, look, leg, socket
  <2>2. trail' \in Seq(Event) /\ (\A t, o : Recorded(t, o)' <=> Recorded(t, o))
    BY <1>1, <2>1, KeepRecords
  <2>3. pc' \in Steps /\ protocol' \in Protocols \union {Unknown, None}
    BY <1>1, <2>1 DEF Steps, Settled, TypeOK
  <2>4. TypeOK' /\ Guarded' /\ (TunnelBacked => TunnelBacked') /\ (LegBacked => LegBacked')
    BY <2>1, <2>2, <2>3, QuietStep
  <2>5. Progress'
    BY <1>1, <2>1, <2>2, <2>4
       DEF Progress, Quiet, TunnelGates, LegGates, NotRefused, Outcome, StepsApart,
           Current, Past, TunnelSteps, LegSteps, BeforeDial
  <2> QED
    BY <2>4, <2>5 DEF IInv, Progress
<1> QED
  BY <1>2, <1>3, <1>4, <1>5

(* Refusals of the second leg. *)
LEMMA LegRefusals ==
    ASSUME IInv, LegUserDenied \/ LegNoHostKeys \/ LegCredentialFails
    PROVE  IInv'
<1>1. TypeOK /\ Progress /\ Guarded /\ trail \in Seq(Event)
  BY DEF IInv, Progress, TypeOK, Event
<1>2. CASE LegUserDenied
  <2>1. /\ Quiet /\ UNCHANGED protocol /\ pc = "authenticating" /\ pc' = "refused"
        /\ Emit("credential", "deny")
    BY <1>2 DEF LegUserDenied, Quiet, source, names, look, leg, socket
  <2>2. /\ trail' \in Seq(Event)
        /\ Recorded("credential", "deny")'
        /\ \A t, o : Recorded(t, o) => Recorded(t, o)'
        /\ \A t, o : Recorded(t, o)' => Recorded(t, o) \/ (t = "credential" /\ o = "deny")
    BY <1>1, <2>1, EmitRecords DEF Event
  <2>3. pc' \in Steps /\ protocol' \in Protocols \union {Unknown, None}
    BY <1>1, <2>1 DEF Steps, Settled, TypeOK
  <2>4. TypeOK' /\ Guarded' /\ (TunnelBacked => TunnelBacked') /\ (LegBacked => LegBacked')
    BY <2>1, <2>2, <2>3, QuietStep
  <2>5. Progress'
    BY <1>1, <2>1, <2>2, <2>4
       DEF Progress, Quiet, TunnelGates, LegGates, NotRefused, Outcome, StepsApart,
           Current, Past, TunnelSteps, LegSteps, BeforeDial
  <2> QED
    BY <2>4, <2>5 DEF IInv, Progress
<1>3. CASE LegNoHostKeys
  <2>1. /\ Quiet /\ UNCHANGED protocol /\ pc = "authenticating" /\ pc' = "refused"
        /\ trail' = trail
    BY <1>3 DEF LegNoHostKeys, Quiet, source, names, look, leg, socket
  <2>2. trail' \in Seq(Event) /\ (\A t, o : Recorded(t, o)' <=> Recorded(t, o))
    BY <1>1, <2>1, KeepRecords
  <2>3. pc' \in Steps /\ protocol' \in Protocols \union {Unknown, None}
    BY <1>1, <2>1 DEF Steps, Settled, TypeOK
  <2>4. TypeOK' /\ Guarded' /\ (TunnelBacked => TunnelBacked') /\ (LegBacked => LegBacked')
    BY <2>1, <2>2, <2>3, QuietStep
  <2>5. Progress'
    BY <1>1, <2>1, <2>2, <2>4
       DEF Progress, Quiet, TunnelGates, LegGates, NotRefused, Outcome, StepsApart,
           Current, Past, TunnelSteps, LegSteps, BeforeDial
  <2> QED
    BY <2>4, <2>5 DEF IInv, Progress
<1>4. CASE LegCredentialFails
  <2>1. /\ Quiet /\ UNCHANGED protocol /\ pc = "authenticating" /\ pc' = "refused"
        /\ Emit("credential", "deny")
    BY <1>4 DEF LegCredentialFails, Quiet, source, names, look, leg, socket
  <2>2. /\ trail' \in Seq(Event)
        /\ Recorded("credential", "deny")'
        /\ \A t, o : Recorded(t, o) => Recorded(t, o)'
        /\ \A t, o : Recorded(t, o)' => Recorded(t, o) \/ (t = "credential" /\ o = "deny")
    BY <1>1, <2>1, EmitRecords DEF Event
  <2>3. pc' \in Steps /\ protocol' \in Protocols \union {Unknown, None}
    BY <1>1, <2>1 DEF Steps, Settled, TypeOK
  <2>4. TypeOK' /\ Guarded' /\ (TunnelBacked => TunnelBacked') /\ (LegBacked => LegBacked')
    BY <2>1, <2>2, <2>3, QuietStep
  <2>5. Progress'
    BY <1>1, <2>1, <2>2, <2>4
       DEF Progress, Quiet, TunnelGates, LegGates, NotRefused, Outcome, StepsApart,
           Current, Past, TunnelSteps, LegSteps, BeforeDial
  <2> QED
    BY <2>4, <2>5 DEF IInv, Progress
<1> QED
  BY <1>2, <1>3, <1>4

(* Identification changes nothing that was decided. *)
LEMMA Identified ==
    ASSUME IInv, Quiet, NEW p \in Protocols \union {Unknown}, protocol' = p,
           NEW outcome \in {"allow", "deny"}, Emit("protocol", outcome),
           pc' \in Steps,
           \/ pc = "holding" /\ pc' \in {"spliced", "closed"}
           \/ pc \in {"spliced", "closed"} /\ pc' = pc
    PROVE  IInv'
<1>1. TypeOK /\ Progress /\ Guarded /\ trail \in Seq(Event)
  BY DEF IInv, Progress, TypeOK, Event
<1>2. /\ trail' \in Seq(Event)
      /\ \A t, o : Recorded(t, o) => Recorded(t, o)'
      /\ \A t, o : Recorded(t, o)' => Recorded(t, o) \/ (t = "protocol" /\ o = outcome)
  BY <1>1, EmitRecords DEF Event
<1>3. TypeOK' /\ Guarded' /\ (TunnelBacked => TunnelBacked') /\ (LegBacked => LegBacked')
  BY <1>2, QuietStep
<1>4. Progress'
  BY <1>1, <1>2, <1>3
     DEF Progress, Quiet, TunnelGates, LegGates, NotRefused, Outcome, StepsApart,
         Current, Past, TunnelSteps, LegSteps, BeforeDial
<1> QED
  BY <1>3, <1>4 DEF IInv, Progress

LEMMA InspectionSteps ==
    ASSUME IInv, Identify \/ ClassifyDeadline \/ Observe
    PROVE  IInv'
<1>1. ASSUME pc = "holding", NEW p \in Protocols \union {Unknown}, Classified(p)
      PROVE  IInv'
  <2> DEFINE ok == DecideEnforce(p, peeked.expect)
  <2>1. /\ Quiet /\ protocol' = p /\ pc' = (IF ok THEN "spliced" ELSE "closed")
        /\ Emit("protocol", IF ok THEN "allow" ELSE "deny")
    BY <1>1 DEF Classified, Quiet, source, names, look, leg
  <2> HIDE DEF ok
  <2>2. pc' \in {"spliced", "closed"} /\ pc' \in Steps
    BY <2>1 DEF Steps, Settled
  <2>3. (IF ok THEN "allow" ELSE "deny") \in {"allow", "deny"}
    OBVIOUS
  <2> QED
    BY <1>1, <2>1, <2>2, <2>3, Identified
<1>2. CASE Identify
  BY <1>1, <1>2 DEF Identify
<1>3. CASE ClassifyDeadline
  BY <1>1, <1>3 DEF ClassifyDeadline
<1>4. CASE Observe
  <2>1. PICK p \in Protocols \union {Unknown} :
            /\ protocol' = p
            /\ Emit("protocol", IF DecideEnforce(p, peeked.expect) THEN "allow" ELSE "deny")
    BY <1>4 DEF Observe
  <2>2. Quiet /\ pc \in {"spliced", "closed"} /\ pc' = pc
    BY <1>4 DEF Observe, Quiet, source, names, look, leg
  <2> DEFINE out == IF DecideEnforce(p, peeked.expect) THEN "allow" ELSE "deny"
  <2>3. out \in {"allow", "deny"}
    OBVIOUS
  <2>4. pc' \in Steps
    BY <2>2 DEF Steps, Settled
  <2>5. Emit("protocol", out)
    BY <2>1
  <2> HIDE DEF out
  <2> QED
    BY <2>1, <2>2, <2>3, <2>4, <2>5, Identified
<1> QED
  BY <1>2, <1>3, <1>4

-----------------------------------------------------------------------------
(* The policy source and the DNS, which change under a request. *)

LEMMA EnvironmentSteps ==
    ASSUME IInv, EditFile \/ Rebind \/ Watch
    PROVE  IInv'
<1>1. TypeOK /\ Progress /\ Guarded
  BY DEF IInv, Progress
<1>2. ASSUME UNCHANGED <<req, pc, decision, prompted, account, addr, trail>>,
             TypeOK', Current', since \subseteq since'
      PROVE  IInv'
  <2>1. \A t, o : Recorded(t, o)' <=> Recorded(t, o)
    BY <1>2, KeepRecords
  <2>2. (TunnelBacked => TunnelBacked') /\ (LegBacked => LegBacked')
    BY <1>2, BackedKept
  <2>3. Guarded'
    BY <1>1, <1>2 DEF Guarded, Guard
  <2>4. Progress'
    BY <1>1, <1>2, <2>1, <2>2
       DEF Progress, TunnelGates, LegGates, NotRefused, Outcome, StepsApart, Past
  <2> QED
    BY <1>2, <2>3, <2>4 DEF IInv, Progress
<1>3. CASE EditFile
  <2>1. /\ UNCHANGED <<baseline, policy, dns, rebinds, req, pc, snapshot, decision, peeked,
                       since, prompted, account, addr, protocol, trail>>
        /\ edits < MaxEdits /\ edits' = edits + 1 /\ file' \in Edits
    BY <1>3 DEF EditFile, names, look, leg, socket
  <2>2. TypeOK'
    BY <1>1, <2>1, AccessAssumption DEF TypeOK
  <2>3. Current' /\ since \subseteq since'
    BY <1>1, <2>1 DEF Progress, Current
  <2> QED
    BY <1>2, <2>1, <2>2, <2>3
<1>4. CASE Rebind
  <2>1. /\ UNCHANGED <<file, baseline, policy, edits, req, pc, snapshot, decision, peeked,
                       since, prompted, account, addr, protocol, trail>>
        /\ rebinds < MaxRebinds /\ rebinds' = rebinds + 1
    BY <1>4 DEF Rebind, source, look, leg, socket
  <2>2. dns' \in [Names -> Answers]
    BY <1>1, <1>4 DEF Rebind, TypeOK
  <2>3. TypeOK'
    BY <1>1, <2>1, <2>2, AccessAssumption DEF TypeOK
  <2>4. Current' /\ since \subseteq since'
    BY <1>1, <2>1 DEF Progress, Current
  <2> QED
    BY <1>2, <2>1, <2>3, <2>4
<1>5. CASE Watch
  <2>1. /\ UNCHANGED <<file, edits, dns, rebinds, req, pc, snapshot, decision, peeked,
                       prompted, account, addr, protocol, trail>>
        /\ baseline' = file /\ policy' = (IF file = Broken THEN policy ELSE file)
        /\ since' = since \union {policy'}
    BY <1>5 DEF Watch, names, leg, socket
  <2>2. policy' \in Policies
    BY <1>1, <2>1 DEF TypeOK
  <2>3. TypeOK'
    BY <1>1, <2>1, <2>2 DEF TypeOK
  <2>4. Current' /\ since \subseteq since'
    BY <1>1, <2>1 DEF Progress, Current
  <2> QED
    BY <1>2, <2>1, <2>3, <2>4
<1> QED
  BY <1>3, <1>4, <1>5

-----------------------------------------------------------------------------
(* Decisions. *)

(* A request begins, or begins again, to be decided by the policy in force.   *)
LEMMA LookSteps ==
    ASSUME IInv, OpenTunnel \/ Login \/ OpenSession
    PROVE  IInv'
<1>1. TypeOK /\ Progress /\ Guarded
  BY DEF IInv, Progress
<1>2. /\ UNCHANGED <<file, baseline, policy, edits, dns, rebinds, req, decision, peeked,
                     prompted, account, addr, protocol, trail>>
      /\ snapshot' = policy /\ since' = {policy}
      /\ \/ pc = "asked" /\ req.kind = "tunnel" /\ pc' = "deciding"
         \/ pc = "asked" /\ req.kind = "leg" /\ pc' = "login"
         \/ pc = "loggedIn" /\ pc' = "opening"
  BY DEF OpenTunnel, Login, OpenSession, source, names, leg, socket
<1>3. \A t, o : Recorded(t, o)' <=> Recorded(t, o)
  BY <1>2, KeepRecords
<1>4. TypeOK'
  BY <1>1, <1>2 DEF TypeOK, Steps, Settled
<1>5. Guarded'
  BY <1>1, <1>2 DEF Guarded, Guard
<1>6. Progress'
  BY <1>1, <1>2, <1>3
     DEF Progress, TunnelGates, LegGates, NotRefused, Outcome, StepsApart,
         Current, Past, TunnelSteps, LegSteps, BeforeDial
<1> QED
  BY <1>4, <1>5, <1>6 DEF IInv, Progress

LEMMA AuthorizeStep ==
    ASSUME IInv, Authorize
    PROVE  IInv'
<1>1. TypeOK /\ Progress /\ Guarded /\ trail \in Seq(Event)
  BY DEF IInv, Progress, TypeOK, Event
<1> DEFINE d == Decide(snapshot, req.pr, req.host, req.port, dns)
           ok == d.allow /\ ForwardingAllowed(d)
           out == IF ok THEN "allow" ELSE "deny"
<1>2. /\ UNCHANGED <<file, baseline, policy, edits, dns, rebinds, req, snapshot, peeked,
                     since, prompted, account, addr, protocol>>
      /\ pc = "deciding" /\ decision' = d /\ Emit("decision", out)
      /\ pc' = (IF ~ok THEN "refused" ELSE IF d.approval THEN "gate" ELSE "credential")
  BY DEF Authorize, source, names, leg, socket
<1>3. snapshot \in since /\ snapshot \in Policies
  BY <1>1, <1>2 DEF Progress, Current, TypeOK
<1>4. /\ DOMAIN d = DOMAIN Denied /\ d.approval \in BOOLEAN
      /\ d.allow => Backs(snapshot, d, req.pr, req.host, req.port)
  BY <1>3, DecideBacked
<1>5. ok => d.record # "full" /\ d.allow
  BY DEF ForwardingAllowed
<1> HIDE DEF d, ok
<1>8. addr = None /\ addr' = None /\ req.kind = "tunnel"
  BY <1>1, <1>2 DEF Progress, StepsApart, TunnelSteps, BeforeDial
<1>9. Guarded'
  BY <1>8 DEF Guarded
<1>10. ok => TunnelBacked'
  BY <1>2, <1>3, <1>4, <1>5 DEF TunnelBacked
<1>11. CASE ok
  <2>1. /\ Emit("decision", "allow")
        /\ pc' = (IF d.approval THEN "gate" ELSE "credential")
    BY <1>2, <1>11
  <2>2. /\ trail' \in Seq(Event)
        /\ Recorded("decision", "allow")'
        /\ \A t, o : Recorded(t, o) => Recorded(t, o)'
        /\ \A t, o : Recorded(t, o)' => Recorded(t, o) \/ (t = "decision" /\ o = "allow")
    BY <1>1, <2>1, EmitRecords DEF Event
  <2>3. pc' \in Steps
    BY <2>1 DEF Steps, Settled
  <2>4. TypeOK'
    BY <1>1, <1>2, <1>4, <2>2, <2>3 DEF TypeOK, Event
  <2>5. Progress'
    BY <1>1, <1>2, <1>4, <1>8, <1>5, <1>10, <1>11, <2>1, <2>2
       DEF Progress, TunnelGates, LegGates, NotRefused, Outcome, StepsApart,
           Current, Past, TunnelSteps, LegSteps, BeforeDial
  <2> QED
    BY <1>9, <2>4, <2>5 DEF IInv, Progress
<1>12. CASE ~ok
  <2>1. /\ Emit("decision", "deny")
        /\ pc' = "refused"
    BY <1>2, <1>12
  <2>2. /\ trail' \in Seq(Event)
        /\ Recorded("decision", "deny")'
        /\ \A t, o : Recorded(t, o) => Recorded(t, o)'
        /\ \A t, o : Recorded(t, o)' => Recorded(t, o) \/ (t = "decision" /\ o = "deny")
    BY <1>1, <2>1, EmitRecords DEF Event
  <2>3. pc' \in Steps
    BY <2>1 DEF Steps, Settled
  <2>4. TypeOK'
    BY <1>1, <1>2, <1>4, <2>2, <2>3 DEF TypeOK, Event
  <2>5. Progress'
    BY <1>1, <1>2, <1>4, <1>8, <1>12, <2>1, <2>2
       DEF Progress, TunnelGates, LegGates, NotRefused, Outcome, StepsApart,
           Current, Past, TunnelSteps, LegSteps, BeforeDial
  <2> QED
    BY <1>9, <2>4, <2>5 DEF IInv, Progress
<1> QED
  BY <1>11, <1>12

-----------------------------------------------------------------------------
(* Sockets. *)

LEMMA TargetIPsTyped ==
    ASSUME TypeOK
    PROVE  TargetIPs(req.host, dns) \subseteq Addresses
BY AccessAssumption DEF TypeOK, TargetIPs

LEMMA DialSteps ==
    ASSUME IInv, Dial \/ LegDial \/ LegHandshakeFails
    PROVE  IInv'
<1>1. TypeOK /\ Progress
  BY DEF IInv, Progress
<1>2. /\ UNCHANGED <<file, baseline, policy, edits, dns, rebinds, req, snapshot, decision,
                     peeked, since, prompted, account, protocol, trail>>
      /\ \E a \in TargetIPs(req.host, dns) : Guard(a) /\ addr' = a
      /\ \/ pc = "dialing" /\ pc' = "connected"
         \/ pc = "legDialing" /\ pc' \in {"leg", "closed"}
  BY DEF Dial, LegDial, LegHandshakeFails, source, names, look, leg
<1>3. addr' \in Addresses /\ Guard(addr')
  BY <1>1, <1>2, TargetIPsTyped
<1>4. \A t, o : Recorded(t, o)' <=> Recorded(t, o)
  BY <1>2, KeepRecords
<1>5. TypeOK'
  BY <1>1, <1>2, <1>3 DEF TypeOK, Steps, Settled
<1>6. Guarded'
  BY <1>2, <1>3 DEF Guarded, Guard
<1>7. (TunnelBacked => TunnelBacked') /\ (LegBacked => LegBacked')
  BY <1>2, BackedKept
<1>8. addr' # None /\ (pc = "dialing" => req.kind = "tunnel") /\ (pc = "legDialing" => req.kind = "leg")
  BY <1>1, <1>3, PolicyAssumption DEF Progress, StepsApart, TunnelSteps, LegSteps
<1>9. Progress'
  BY <1>1, <1>2, <1>4, <1>7, <1>8
     DEF Progress, TunnelGates, LegGates, NotRefused, Outcome, StepsApart,
         Current, Past, TunnelSteps, LegSteps, BeforeDial
<1> QED
  BY <1>5, <1>6, <1>9 DEF IInv, Progress

(* Inspection looks a rule up again and acts on no part of it but the         *)
(* protocols it expects.                                                      *)
LEMMA AcceptSteps ==
    ASSUME IInv, Accept \/ PeekTunnel
    PROVE  IInv'
<1>1. TypeOK /\ Progress /\ Guarded
  BY DEF IInv, Progress
<1>2. ASSUME UNCHANGED <<policy, req, decision, since, prompted, account, addr, trail>>,
             TypeOK', pc \in {"connected", "peeking"},
             pc' \in {"spliced", "holding"} \/ (pc' = "peeking" /\ snapshot' \in Policies)
      PROVE  IInv'
  <2>1. \A t, o : Recorded(t, o)' <=> Recorded(t, o)
    BY <1>2, KeepRecords
  <2>2. (TunnelBacked => TunnelBacked') /\ (LegBacked => LegBacked')
    BY <1>2, BackedKept
  <2>3. Guarded'
    BY <1>1, <1>2 DEF Guarded, Guard
  <2>4. req.kind = "tunnel"
    BY <1>1, <1>2 DEF Progress, StepsApart, TunnelSteps
  <2>5. Progress'
    BY <1>1, <1>2, <2>1, <2>2, <2>4
       DEF Progress, TunnelGates, LegGates, NotRefused, Outcome, StepsApart, Past,
           Current, TunnelSteps, LegSteps, BeforeDial
  <2> QED
    BY <1>2, <2>3, <2>5 DEF IInv, Progress
<1>3. CASE Accept
  <2>1. /\ UNCHANGED <<file, baseline, policy, edits, dns, rebinds, req, decision, peeked,
                       since, prompted, account, addr, protocol, trail>>
        /\ pc = "connected"
        /\ \/ pc' = "peeking" /\ snapshot' = policy
           \/ pc' = "spliced" /\ snapshot' = snapshot
    BY <1>3 DEF Accept, source, names, leg, socket
  <2>2. TypeOK'
    BY <1>1, <2>1 DEF TypeOK, Steps, Settled
  <2>3. policy \in Policies
    BY <1>1 DEF TypeOK
  <2> QED
    BY <1>2, <2>1, <2>2, <2>3
<1>4. CASE PeekTunnel
  <2> DEFINE d == Decide(snapshot, req.pr, req.host, req.port, dns)
  <2>1. /\ UNCHANGED <<file, baseline, policy, edits, dns, rebinds, req, snapshot,
                       decision, since, prompted, account, addr, protocol, trail>>
        /\ pc = "peeking" /\ peeked' = d /\ pc' \in {"spliced", "holding"}
    BY <1>4 DEF PeekTunnel, source, names, leg, socket
  <2>2. snapshot \in Policies
    BY <1>1, <2>1 DEF Progress, Current
  <2>3. DOMAIN d = DOMAIN Denied
    BY <2>2, DecideBacked
  <2> HIDE DEF d
  <2>4. TypeOK'
    BY <1>1, <2>1, <2>3 DEF TypeOK, Steps, Settled
  <2> QED
    BY <1>2, <2>1, <2>4
<1> QED
  BY <1>3, <1>4

-----------------------------------------------------------------------------
(* The second leg. *)

LEMMA PeekLoginStep ==
    ASSUME IInv, PeekLogin
    PROVE  IInv'
<1>1. TypeOK /\ Progress /\ Guarded /\ trail \in Seq(Event)
  BY DEF IInv, Progress, TypeOK, Event
<1>2. /\ UNCHANGED <<file, baseline, policy, edits, dns, rebinds, req, snapshot, decision,
                     peeked, since, account, addr, protocol>>
      /\ pc = "login"
      /\ \/ pc' = "refused" /\ Emit("credential", "deny")
         \/ pc' \in {"prompting", "loggedIn"} /\ trail' = trail
  BY DEF PeekLogin, source, names, look, socket
<1>3. addr = None /\ addr' = None /\ req.kind = "leg"
  BY <1>1, <1>2 DEF Progress, StepsApart, LegSteps, BeforeDial
<1>4. Guarded'
  BY <1>3 DEF Guarded
<1>5. CASE pc' = "refused" /\ Emit("credential", "deny")
  <2>1. /\ trail' \in Seq(Event)
        /\ \A t, o : Recorded(t, o) => Recorded(t, o)'
        /\ \A t, o : Recorded(t, o)' => Recorded(t, o) \/ (t = "credential" /\ o = "deny")
    BY <1>1, <1>5, EmitRecords DEF Event
  <2>2. TypeOK'
    BY <1>1, <1>2, <1>5, <2>1 DEF TypeOK, Steps, Settled, Event
  <2>3. Progress'
    BY <1>1, <1>2, <1>3, <1>5, <2>1
       DEF Progress, TunnelGates, LegGates, NotRefused, Outcome, StepsApart, Past,
           Current, TunnelSteps, LegSteps, BeforeDial
  <2> QED
    BY <1>4, <2>2, <2>3 DEF IInv, Progress
<1>6. CASE pc' \in {"prompting", "loggedIn"} /\ trail' = trail
  <2>1. \A t, o : Recorded(t, o)' <=> Recorded(t, o)
    BY <1>6, KeepRecords
  <2>2. TypeOK'
    BY <1>1, <1>2, <1>6 DEF TypeOK, Steps, Settled
  <2>3. Progress'
    BY <1>1, <1>2, <1>3, <1>6, <2>1
       DEF Progress, TunnelGates, LegGates, NotRefused, Outcome, StepsApart, Past,
           Current, TunnelSteps, LegSteps, BeforeDial
  <2> QED
    BY <1>4, <2>2, <2>3 DEF IInv, Progress
<1> QED
  BY <1>2, <1>5, <1>6

LEMMA PeekSessionStep ==
    ASSUME IInv, PeekSession
    PROVE  IInv'
<1>1. TypeOK /\ Progress /\ Guarded
  BY DEF IInv, Progress
<1> DEFINE d == DecideHost(snapshot, req.pr, req.host, dns)
<1>2. /\ UNCHANGED <<file, baseline, policy, edits, dns, rebinds, req, snapshot, peeked,
                     since, prompted, account, addr, protocol, trail>>
      /\ pc = "opening" /\ decision' = d
      /\ pc' = (IF d.allow THEN "authenticating" ELSE "loggedIn")
  BY DEF PeekSession, source, names, leg, socket
<1>3. snapshot \in since /\ snapshot \in Policies
  BY <1>1, <1>2 DEF Progress, Current, TypeOK
<1>4. DOMAIN d = DOMAIN Denied /\ (d.allow => Backs(snapshot, d, req.pr, req.host, d.port))
  BY <1>3, DecideHostBacked
<1> HIDE DEF d
<1>5. addr = None /\ addr' = None /\ req.kind = "leg"
  BY <1>1, <1>2 DEF Progress, StepsApart, LegSteps, BeforeDial
<1>6. Guarded'
  BY <1>5 DEF Guarded
<1>7. pc' = "authenticating" => LegBacked'
  BY <1>2, <1>3, <1>4 DEF LegBacked
<1>8. pc' \in {"authenticating", "loggedIn"}
  BY <1>2
<1>9. \A t, o : Recorded(t, o)' <=> Recorded(t, o)
  BY <1>2, KeepRecords
<1>10. TypeOK'
  BY <1>1, <1>2, <1>4, <1>8 DEF TypeOK, Steps, Settled
<1>11. UNCHANGED <<policy, req, snapshot, since, addr>> /\ pc = "opening"
  BY <1>2
<1>12. Progress'
  BY <1>1, <1>5, <1>7, <1>8, <1>9, <1>11
     DEF Progress, TunnelGates, LegGates, NotRefused, Outcome, StepsApart, Past,
         Current, TunnelSteps, LegSteps, BeforeDial
<1> QED
  BY <1>6, <1>10, <1>12 DEF IInv, Progress

(* The account a leg logs in with is the one the rule pins, if it pins one. *)
LEMMA PinnedAccount ==
    ASSUME NEW requested, NEW d, NEW login, d.targetUser # None,
           ResolveTargetUser(requested, d, login) # None
    PROVE  ResolveTargetUser(requested, d, login) = d.targetUser
BY DEF ResolveTargetUser

LEMMA LegCredentialStep ==
    ASSUME IInv, LegCredential
    PROVE  IInv'
<1>1. TypeOK /\ Progress /\ Guarded /\ trail \in Seq(Event)
  BY DEF IInv, Progress, TypeOK, Event
<1> DEFINE u == ResolveTargetUser(req.pr.requested, decision, req.pr.user)
<1>2. /\ UNCHANGED <<file, baseline, policy, edits, dns, rebinds, req, snapshot, decision,
                     peeked, since, prompted, addr, protocol>>
      /\ pc = "authenticating" /\ pc' = "legDialing"
      /\ u # None /\ account' = u
      /\ ModeServes(NormalMode(decision.credential))
      /\ Emit("credential", "allow")
  BY DEF LegCredential, source, names, look, socket
<1>3. decision.targetUser # None => account' = decision.targetUser
  BY <1>2, PinnedAccount
<1>4. /\ NormalMode(decision.credential) # "deny"
      /\ NormalMode(decision.credential) = "prompt" => prompted # None
  BY <1>2 DEF ModeServes
<1> HIDE DEF u
<1>5. /\ trail' \in Seq(Event)
      /\ Recorded("credential", "allow")'
      /\ \A t, o : Recorded(t, o) => Recorded(t, o)'
      /\ \A t, o : Recorded(t, o)' => Recorded(t, o) \/ (t = "credential" /\ o = "allow")
  BY <1>1, <1>2, EmitRecords DEF Event
<1>6. TypeOK'
  BY <1>1, <1>2, <1>5 DEF TypeOK, Steps, Settled, Event
<1>7. addr = None /\ addr' = None /\ req.kind = "leg"
  BY <1>1, <1>2 DEF Progress, StepsApart, LegSteps, BeforeDial
<1>8. Guarded'
  BY <1>7 DEF Guarded
<1>9. LegBacked => LegBacked'
  BY <1>2, BackedKept
<1>10. Progress'
  BY <1>1, <1>2, <1>3, <1>4, <1>5, <1>7, <1>9
     DEF Progress, TunnelGates, LegGates, NotRefused, Outcome, StepsApart, Past,
         Current, TunnelSteps, LegSteps, BeforeDial
<1> QED
  BY <1>6, <1>8, <1>10 DEF IInv, Progress

-----------------------------------------------------------------------------
(* The theorems. *)

LEMMA InitInvariant == Init => IInv
<1> SUFFICES ASSUME Init PROVE IInv
  OBVIOUS
<1>1. TypeOK
  BY AccessAssumption DEF Init, TypeOK, Steps
<1>2. \A t, o : ~Recorded(t, o)
  BY DEF Init, Recorded
<1>3. addr = None /\ pc = "asked" /\ policy \in since
  BY DEF Init
<1> QED
  BY <1>1, <1>2, <1>3
     DEF IInv, Guarded, TunnelGates, LegGates, NotRefused, Outcome, StepsApart,
         Past, Current, TunnelSteps, LegSteps, BeforeDial

LEMMA StutterStep ==
    ASSUME IInv, UNCHANGED vars
    PROVE  IInv'
<1>1. UNCHANGED <<file, baseline, policy, edits, dns, rebinds, req, pc, snapshot, decision,
                  peeked, since, prompted, account, addr, protocol, trail>>
  BY DEF vars, source, names, look, leg, socket
<1>2. trail \in Seq(Event) /\ TypeOK /\ Progress
  BY DEF IInv, Progress, TypeOK, Event
<1>3. TypeOK'
  BY <1>1, <1>2 DEF TypeOK
<1>4. Guarded' /\ (TunnelBacked => TunnelBacked') /\ (LegBacked => LegBacked')
  BY <1>1, BackedKept DEF IInv, Guarded, Guard
<1>5. \A t, o : Recorded(t, o)' <=> Recorded(t, o)
  BY <1>1, KeepRecords
<1>6. Progress'
  BY <1>1, <1>2, <1>4, <1>5
     DEF Progress, TunnelGates, LegGates, NotRefused, Outcome, StepsApart, Past, Current
<1> QED
  BY <1>3, <1>4, <1>6 DEF IInv, Progress

LEMMA NextInvariant == IInv /\ [Next]_vars => IInv'
<1> SUFFICES ASSUME IInv, [Next]_vars PROVE IInv'
  OBVIOUS
<1>1. CASE Environment \/ Watch
  BY <1>1, EnvironmentSteps DEF Environment
<1>2. CASE Tunnel
  BY <1>2, LookSteps, AuthorizeStep, ApprovalSteps, CredentialSteps, DialSteps,
     AcceptSteps, EndingSteps, InspectionSteps DEF Tunnel
<1>3. CASE Leg
  BY <1>3, LookSteps, PeekLoginStep, EndingSteps, PeekSessionStep, LegRefusals,
     LegCredentialStep, DialSteps DEF Leg
<1>4. CASE DialFails \/ Ends
  BY <1>4, EndingSteps
<1>5. CASE UNCHANGED vars
  BY <1>5, StutterStep
<1> QED
  BY <1>1, <1>2, <1>3, <1>4, <1>5 DEF Next

(* IInv holds in every reachable state: what a request has behind it at each  *)
(* step of DialTarget, passwordCallback and dialTarget, under every reload of *)
(* the policy and every change of the DNS.                                    *)
THEOREM Invariance == Spec => []IInv
BY InitInvariant, NextInvariant, PTL DEF Spec

(* What is read, decided and connected is of its kind; only a policy that     *)
(* compiled is ever in force (Watch).                                         *)
THEOREM TypeCorrect == Spec => []TypeOK
<1>1. IInv => TypeOK
  BY DEF IInv
<1> QED
  BY <1>1, Invariance, PTL

(* One rule of one policy in force authorizes the socket and had all its      *)
(* gates passed: the guard of the connect holds the address against the range *)
(* of the decision that opened the gates.                                     *)
LEMMA InvariantAuthorizes == IInv => ConnectionAuthorized
<1> SUFFICES ASSUME IInv, addr # None
             PROVE  ConnectionAuthorized
  BY DEF ConnectionAuthorized
<1>1. addr \notin Blocked /\ (decision.range # None => addr \in Covers[decision.range])
  BY DEF IInv, Guarded, Guard
<1>2. ASSUME NEW p \in since, NEW port, Backs(p, decision, req.pr, req.host, port)
      PROVE  \E i \in DOMAIN p : \E j \in DOMAIN p[i].allow :
                /\ Held(p, i, req.pr)
                /\ Permits(p[i].allow[j], port)
                /\ Copies(decision, p[i].allow[j], req.host)
  <2>1. PICK i \in DOMAIN p :
            \E j \in DOMAIN p[i].allow :
                /\ Held(p, i, req.pr)
                /\ MatchesPort(p[i].allow[j], port)
                /\ Copies(decision, p[i].allow[j], req.host)
    BY <1>2 DEF Backs
  <2>rule. PICK j \in DOMAIN p[i].allow :
            /\ Held(p, i, req.pr)
            /\ MatchesPort(p[i].allow[j], port)
            /\ Copies(decision, p[i].allow[j], req.host)
    BY <2>1
  <2>2. Permits(p[i].allow[j], port)
    BY <1>1, <2>rule, PolicyAssumption DEF Permits, Copies
  <2> QED
    BY <2>rule, <2>2
<1>3. CASE req.kind = "tunnel"
  <2>1. /\ TunnelBacked
        /\ decision.record # "full" /\ Recorded("decision", "allow")
        /\ decision.approval => Recorded("approval", "granted")
        /\ NormalMode(decision.credential) # "deny"
        /\ NormalMode(decision.credential) # "passthrough" => Recorded("credential", "allow")
    BY <1>3 DEF IInv, TunnelGates, Past
  <2>2. PICK p \in since : Backs(p, decision, req.pr, req.host, req.port)
    BY <2>1 DEF TunnelBacked
  <2>3. PICK i \in DOMAIN p :
            \E j \in DOMAIN p[i].allow :
                /\ Held(p, i, req.pr)
                /\ Permits(p[i].allow[j], req.port)
                /\ Copies(decision, p[i].allow[j], req.host)
    BY <1>2, <2>2
  <2>rule. PICK j \in DOMAIN p[i].allow :
            /\ Held(p, i, req.pr)
            /\ Permits(p[i].allow[j], req.port)
            /\ Copies(decision, p[i].allow[j], req.host)
    BY <2>3
  <2>4. TunnelGatesPassed(p[i].allow[j])
    BY <2>1, <2>rule DEF TunnelGatesPassed, Copies
  <2> QED
    BY <1>1, <1>3, <2>rule, <2>4 DEF ConnectionAuthorized, Held
<1>4. CASE req.kind = "leg"
  <2>1. /\ LegBacked /\ Recorded("credential", "allow")
        /\ NormalMode(decision.credential) # "deny"
        /\ NormalMode(decision.credential) = "prompt" => prompted # None
        /\ decision.targetUser # None => account = decision.targetUser
    BY <1>4 DEF IInv, LegGates, Past
  <2>2. PICK p \in since : Backs(p, decision, req.pr, req.host, decision.port)
    BY <2>1 DEF LegBacked
  <2>3. PICK i \in DOMAIN p :
            \E j \in DOMAIN p[i].allow :
                /\ Held(p, i, req.pr)
                /\ Permits(p[i].allow[j], decision.port)
                /\ Copies(decision, p[i].allow[j], req.host)
    BY <1>2, <2>2
  <2>rule. PICK j \in DOMAIN p[i].allow :
            /\ Held(p, i, req.pr)
            /\ Permits(p[i].allow[j], decision.port)
            /\ Copies(decision, p[i].allow[j], req.host)
    BY <2>3
  <2>4. LegGatesPassed(p[i].allow[j])
    BY <2>1, <2>rule DEF LegGatesPassed, Copies
  <2> QED
    BY <1>1, <1>4, <2>rule, <2>4 DEF ConnectionAuthorized, Held
<1>5. req.kind \in {"tunnel", "leg"}
  BY AccessAssumption DEF IInv, TypeOK
<1> QED
  BY <1>3, <1>4, <1>5

(* A socket is open only on the authority of one rule of one policy that was  *)
(* in force while the request was decided (Decide, gateApproval,              *)
(* resolveCredential, guardResolvedAddr), for policies of any number of roles *)
(* and rules and any number of reloads and answers of the DNS: a tunnel past   *)
(* every gate of the rule, a leg past those of its account and credential,     *)
(* since no leg is asked for an approval.                                     *)
THEOREM ConnectionsAreAuthorized == Spec => []ConnectionAuthorized
BY Invariance, InvariantAuthorizes, PTL

(* The evidence of a request does not end in the middle, and no socket is     *)
(* open behind a recorded refusal (gateApproval, resolveCredential).          *)
THEOREM TrailsAreComplete == Spec => []TrailIsComplete
<1>1. IInv => TrailIsComplete
  BY DEF IInv, Outcome, NotRefused, TrailIsComplete
<1> QED
  BY <1>1, Invariance, PTL

(* DecideHost without a port gives what Decide gives for the port it names,   *)
(* for every policy and principal and all answers of the DNS.                 *)
THEOREM HostDecisionsAgree == Spec => []HostDecisionAgrees
<1>1. IInv => HostDecisionAgrees
  BY HostAgrees DEF IInv, TypeOK
<1> QED
  BY <1>1, Invariance, PTL
=============================================================================
