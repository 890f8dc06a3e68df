CONSTANTS
    ChunkSize = 5
    Overlap = 2
    MaxLength = 60
SPECIFICATION Spec
CHECK_DEADLOCK FALSE
INVARIANTS TypeOK PassagesKept ChunksWellFormed
PROPERTY Terminates
