CONSTANTS
    Docs = {d1}
    Names = {n1}
    Uploads = {u1, u2}
    Ingests = {i1}
    Workers = {w1, w2}
    MaxRetries = 1
    Faults = {"crash", "db"}
    OperatorRetry = FALSE
    MaxChunks = 1
    ChunkCount <- ChunkCounts
    QueueMaxLength = 1
    MaxConcurrent = 2
    None = None
    Torn = Torn
    w1 = w1
    w2 = w2
    u1 = u1
    u2 = u2
    i1 = i1
SPECIFICATION EngineSpec
CHECK_DEADLOCK FALSE
INVARIANTS AcknowledgedIsFinal RestExplained
PROPERTIES BackpressureSpec ComesToRest
