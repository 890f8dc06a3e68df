CONSTANTS
    Docs = {d1}
    Names = {n1}
    Uploads = {u1}
    Ingests = {i1}
    Workers = {w1}
    MaxRetries = 1
    Faults = {}
    OperatorRetry = FALSE
    MaxChunks = 2
    ChunkCount <- ChunkCounts
    None = None
    Torn = Torn
    w1 = w1
    w2 = w2
    u1 = u1
    u2 = u2
    i1 = i1
    i2 = i2
SPECIFICATION Spec
CHECK_DEADLOCK FALSE
INVARIANT AcceptedUploadIndexed
