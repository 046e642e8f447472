\* Every fault but a failing fsync: crashes, restarts, failed writes, seals and uploads.
CONSTANTS
    NoFile = NoFile
    Torn = Torn
    Callers = {c1, c2}
    Emitters = {dialer, session}
    SegmentSize = 2
    ChCap = 1
    WithWORM = TRUE
    Faults = {"open", "encode", "write", "close", "ckpt", "wormSeg", "wormCkpt", "crash", "epoch"}
    MaxEvents = 3
    MaxSegments = 3
    MaxEpoch = 2
SPECIFICATION Spec
SYMMETRY Symmetry
INVARIANTS
    SealedBundleVerifies
    CleanCloseIsSealed
PROPERTIES
    SegmentsAppendOnly
    NoAckAfterFailure
CHECK_DEADLOCK FALSE
