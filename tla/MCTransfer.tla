------------------------------- MODULE MCTransfer ------------------------------
EXTENDS Transfer
CONSTANTS alice, bob

Config(g, h, a, r) == [gate |-> g, holding |-> h, approvals |-> a, releases |-> r]
SomeConfigs == {Config(TRUE, TRUE, TRUE, TRUE), Config(TRUE, FALSE, TRUE, FALSE),
                Config(FALSE, FALSE, TRUE, TRUE)}
=============================================================================
