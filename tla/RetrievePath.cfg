SPECIFICATION InstanceSpec
CONSTANTS
    a = a
    b = b
    c = c
    Entries <- MCEntries
    Root = root
    NoEntry = NoEntry
INVARIANTS RetrievalIsRight
PROPERTIES EndsWhenParentsExist
