\* A failing fsync, and what it leaves in the segment.
CONSTANTS
    NoFile = NoFile
    Torn = Torn
    Callers = {c1, c2}
    Emitters = {dialer, session}
    SegmentSize = 2
    ChCap = 1
    WithWORM = FALSE
    Faults = {"sync"}
    MaxEvents = 3
    MaxSegments = 3
    MaxEpoch = 1
SPECIFICATION Spec
SYMMETRY Symmetry
INVARIANTS
    OrderingContiguous
CHECK_DEADLOCK FALSE
