\* Three sources compete for a map of two entries; lockouts double from 1 to 3.
CONSTANTS
    Keys = {k1, k2, k3}
    Attempts = {a1, a2}
    MaxFailures = 2
    Window = 2
    BaseBackoff = 1
    MaxBackoff = 3
    MaxEntries = 2
    Untracked = Untracked
SPECIFICATION LimiterFairSpec
INVARIANTS
    LimiterTypeOK
PROPERTIES
    LockoutsAreFair
    LockoutEnds
