\* Four sessions, late answers from before the breaker opened.
CONSTANTS
    Calls = {s1, s2, s3, s4}
    Threshold = 2
    Cooldown = 2
SPECIFICATION FairSpec
INVARIANTS
    HalfOpenHasTrial
    DownOpens
PROPERTIES
    EventuallyAdmits
