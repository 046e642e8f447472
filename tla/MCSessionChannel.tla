--------------------------- MODULE MCSessionChannel ----------------------------
EXTENDS SessionChannel

Config(t, n, f, r, a) ==
    [target |-> t, tunnels |-> n, shells |-> TRUE, files |-> f, recordings |-> r, api |-> a]

(* A recorded shell or files, a keeper, a shell with the API and without a   *)
(* recording, and a shell without a target.                                  *)
SomeConfigs == {Config(TRUE, FALSE, TRUE, TRUE, FALSE), Config(FALSE, TRUE, FALSE, TRUE, TRUE),
                Config(TRUE, FALSE, FALSE, FALSE, TRUE), Config(FALSE, FALSE, TRUE, TRUE, TRUE)}
=============================================================================
