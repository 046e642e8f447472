\* One request, approvers racing each other, the clock, the lookup and crashes.
CONSTANTS
    alice = alice
    ALICE = ALICE
    bob = bob
    carol = carol
    Ids = {r1}
    Names <- Spellings
    Canon <- CanonOf
    Requesters = {alice, bob}
    Approvers = {ALICE, bob, carol, NoOne}
    Kinds = {"session", "release"}
    NoOne = NoOne
    Absent = Absent
    WithLookup = TRUE
    TTL = 1
    Retention = 1
    Faults = {"persist", "crash", "cancel"}
    MaxTime = 3
SPECIFICATION FairSpec
INVARIANTS
    FourEyesEnforced
    DecisionsAreDurable
PROPERTIES
    WaitEnds
    ImplementsFourEyes
CHECK_DEADLOCK FALSE
