SPECIFICATION OnlineSpec
CONSTANTS
    BlockSize = 2
    MaxSize = 5
    MaxEdits = 4
    MaxVersion = 2
    MaxCrashes = 0
    None = None
    Payloads <- FewPayloads
INVARIANT UploadedDataExists
CHECK_DEADLOCK FALSE
