\* Power losses and failing fsyncs; a bundle closed cleanly is then damaged; the
\* trees of all segments of up to five records over three payloads.
CONSTANTS
    NoFile = NoFile
    Torn = Torn
    Callers = {c1, c2}
    Emitters = {dialer, session}
    SegmentSize = 2
    ChCap = 1
    WithWORM = FALSE
    Faults = {"power", "sync", "write", "ckpt"}
    MaxEvents = 3
    MaxSegments = 3
    MaxEpoch = 2
    Payloads = {a, b, c}
    Empty = Empty
    MaxLeaves = 5
SPECIFICATION AuditSpec
INVARIANTS
    DamageDetected
    AckedSurvivesFaults
    RootDeterminesLeaves
PROPERTIES
    CallsReturn
CHECK_DEADLOCK FALSE
