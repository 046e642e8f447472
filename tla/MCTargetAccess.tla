---------------------------- MODULE MCTargetAccess -----------------------------
(* Policies of up to two roles over rules that differ in kind of host, ports, *)
(* recording, credential mode, approval, account and expected protocol.       *)
EXTENDS TargetAccess

CONSTANTS db, inside, outside, meta, net, wide, ops, dev, alice, root

RangeAddresses ==
    [r \in {net, wide} |-> IF r = net THEN {inside} ELSE {inside, outside, meta}]

Plain == [host |-> db, ports |-> <<22>>, record |-> "", credential |-> "",
          approval |-> FALSE, targetUser |-> None, allowUsers |-> {}, expect |-> {}]

PromptAny   == [Plain EXCEPT !.credential = "prompt", !.allowUsers = {Any}]
PromptRoot  == [Plain EXCEPT !.credential = "prompt", !.targetUser = root]
GatedRange  == [Plain EXCEPT !.host = net, !.approval = TRUE, !.expect = {"postgres"}]
InjectRange == [Plain EXCEPT !.host = wide, !.ports = <<22, 5432>>, !.credential = "inject"]
FullAny     == [Plain EXCEPT !.host = Any, !.ports = << >>, !.record = "full",
                             !.credential = "deny"]

Role(name, rules) == [name |-> name, groups |-> {name}, allow |-> rules]

SomeRules == {PromptAny, PromptRoot, GatedRange, InjectRange, FullAny}

(* Every policy with one rule for each of two roles, and the edits. *)
SomePolicies ==
    {<<Role(ops, <<x>>), Role(dev, <<y>>)>> : x \in SomeRules, y \in SomeRules \ {FullAny}}

SomeEdits == {<<Role(ops, <<PromptRoot>>)>>, <<Role(ops, <<InjectRange>>)>>, Broken}

AllPolicies == SomePolicies \union (SomeEdits \ {Broken})

SomeAnswers == {{}, {inside}, {inside, outside, meta}}

Ask(kind, host, groups, role, port, user) ==
    [kind |-> kind, host |-> host, port |-> 22,
     pr |-> [user |-> alice, groups |-> groups, role |-> role, port |-> port,
             requested |-> user]]

SomeRequests ==
    {Ask("tunnel", db, {ops, dev}, None, 0, None),
     Ask("tunnel", db, {ops}, dev, 0, None),
     Ask("tunnel", inside, {ops, dev}, dev, 0, None),
     Ask("leg", db, {ops, dev}, None, 0, None),
     Ask("leg", db, {ops, dev}, None, 22, root)}
=============================================================================
