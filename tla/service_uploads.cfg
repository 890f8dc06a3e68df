CONSTANTS
    Docs = {d1}
    Names = {n1, n2}
    Uploads = {u1, u2}
    Ingests = {i1}
    Workers = {w1, w2}
    MaxRetries = 1
    Faults = {"redis", "qdrant"}
    OperatorRetry = FALSE
    MaxChunks = 2
    ChunkCount <- ChunkCounts
    None = None
    Torn = Torn
    w1 = w1
    w2 = w2
    u1 = u1
    u2 = u2
    i1 = i1
    i2 = i2
SPECIFICATION Spec
CHECK_DEADLOCK FALSE
SYMMETRY WorkerSymmetry
INVARIANTS ClaimExclusive PendingFileOnDisk DoneIndexIsOneText TornNeedsSameName FileHasOwner
PROPERTIES DoneMeansIndexed DoneIndexStays
