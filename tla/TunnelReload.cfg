\* Does the rule that admitted a tunnel decide what may pass it?
CONSTANTS
    db = db
    inside = inside
    outside = outside
    meta = meta
    net = net
    wide = wide
    ops = ops
    dev = dev
    alice = alice
    root = root
    Names = {db}
    Addresses = {inside, outside, meta}
    Ranges = {net, wide}
    Covers <- RangeAddresses
    Any = Any
    None = None
    Policies <- AllPolicies
    Edits <- SomeEdits
    Broken = Broken
    Unread = Unread
    Requests <- SomeRequests
    Answers <- SomeAnswers
    Blocked = {meta}
    Protocols = {"postgres", "ssh"}
    Unknown = Unknown
    WithStore = TRUE
    Inspect = TRUE
    Enforce = TRUE
    UnknownDeny = TRUE
    MaxEdits = 1
    MaxRebinds = 1
SPECIFICATION Spec
INVARIANT
    AdmittingRuleEnforced
CHECK_DEADLOCK FALSE
