CONSTANTS
    Docs = {d1}
    Consumers = {c1, c2}
    Sweepers = {s1}
    Faults = {"crash"}
    MaxRetries = 1
    MaxAge = 1
    MaxTime = 1
    MaxPushes = 2
    None = None
SPECIFICATION Spec
CHECK_DEADLOCK FALSE
SYMMETRY ConsumerSymmetry
INVARIANTS QueueTypeOK PlainJobsBeingEnriched
PROPERTY LedgerSpec
