\* One channel with everything that runs on it, and a supervisor.
CONSTANTS
    Chans = {c1}
    Supervisors = {s1}
    SubCap = 2
    Configs <- SomeConfigs
    ResizeCap = 1
    NoticeCap = 1
    MaxChunks = 1
SPECIFICATION FairSpec
INVARIANTS
    NoSendOnClosed
    EvidenceCoversSession
PROPERTIES
    ChannelsEnd
    StreamsEnd
CHECK_DEADLOCK FALSE
