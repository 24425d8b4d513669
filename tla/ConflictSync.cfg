SPECIFICATION InstanceSpec
CONSTANTS
    NoEntry = NoEntry
    d1 = d1
    d2 = d2
    d3 = d3
    Devices <- MCDevices
    Folders = {p, q}
    Home = p
    Other = Other
    Operations = {"edit", "move", "remove", "create"}
    MaxEdits = 4
    MaxCopies = 1
    MaxVersion = 3
INVARIANTS SyncedMeansSame
PROPERTIES ConflictsRetainBoth DataIsKept
CHECK_DEADLOCK FALSE
