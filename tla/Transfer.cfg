\* One file of up to three bytes, in chunks of up to two; a release of an earlier run.
CONSTANTS
    alice = alice
    bob = bob
    None = None
    Users = {alice, bob}
    Clients = {alice}
    Earlier = {bob}
    Configs <- SomeConfigs
    Kinds = {"upload", "download"}
    Protocols = {"sftp", "scp"}
    Size = 3
    Lengths = {0, 1, 2}
    Bytes = {x, y}
    Window = 3
    Threshold = 1
    Keys = {0, 1}
    ReleaseTTL = 1
    Retention = 0
    MaxTime = 1
    ApprovalTTL = 1
    ReadLimit = 2
    MaxFiles = 1
    MaxWrites = 4
    MaxReads = 3
    MaxCrashes = 1
SPECIFICATION FairSpec
INVARIANTS
    AcceptedIsWhole
    ServedIsEarned
    ReleasedIsReadable
    ManifestIsObserved
PROPERTIES
    UploadSettles
CHECK_DEADLOCK FALSE
