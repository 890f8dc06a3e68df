CONSTANTS
    Docs = {d1}
    Consumers = {c1}
    Sweepers = {}
    Faults = {"crash"}
    MaxRetries = 1
    MaxAge = 1
    MaxTime = 0
    MaxPushes = 1
    None = None
SPECIFICATION Spec
CHECK_DEADLOCK FALSE
INVARIANT JobsConserved
