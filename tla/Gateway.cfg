\* A listener each for SSH and SSH over TLS, two connections competing for one slot,
\* the channels of one of them for its target leg.
CONSTANTS
    c1 = c1
    c2 = c2
    h1 = h1
    h2 = h2
    ssh = ssh
    tls = tls
    Port <- OnePortEach
    Listeners = {ssh, tls}
    MainListener = ssh
    Conns <- AllConns
    Handlers <- AllHandlers
    Openable <- FirstOnly
    MaxHandshakes = 1
    MaxChannels = 2
    None = None
SPECIFICATION FairSpec
INVARIANTS
    
    DrainAccountsForEverySession
PROPERTIES
    OneTargetLeg
    ShutdownEnds
    ConnectionEnds
CHECK_DEADLOCK FALSE
