SPECIFICATION InstanceSpec
CONSTANTS
    BlockSize = 2
    MaxSize = 5
    MaxEdits = 3
    MaxVersion = 2
    MaxCrashes = 1
    None = None
    Payloads <- AllPayloads
INVARIANTS
    ReadsAgree
    SyncedMeansUploaded
    NoOrphanChunk
PROPERTIES
    BehavesAsByteArray
CHECK_DEADLOCK FALSE
