SPECIFICATION InstanceSpec
CONSTANTS
    NoEntry = NoEntry
    Callers = {t1, t2}
    Root = "root"
    Names = {"a", "b"}
    NewIds = {"N", "O"}
    InitialTree <- SmallTree
    Calls <- AllCalls
    MaxCalls = 3
SYMMETRY TaskSymmetry
INVARIANTS SnapshotsAreCurrent NoEntryTwice
PROPERTIES BehavesAsTree
CHECK_DEADLOCK FALSE
