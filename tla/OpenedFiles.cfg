SPECIFICATION InstanceSpec
CONSTANTS
    t1 = t1
    t2 = t2
    t3 = t3
    Tasks <- MCTasks
    Modes = {"read", "write", "truncate"}
    Operations = {"move", "sync", "stop"}
    MaxOpens = 2
    MaxChanges = 2
INVARIANTS
    LockHasOneHolder
    DescriptorsAreOpened
    WrittenDataSurvives

    
CHECK_DEADLOCK FALSE
