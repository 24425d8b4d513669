SPECIFICATION FairSpec
CONSTANTS
    t1 = t1
    t2 = t2
    t3 = t3
    Tasks <- MCTasks
    Topics <- MCTopics
    Plans <- MCPlans
INVARIANTS
    WriteIsExclusive
    BooksMatchHolders
    NoLostWakeup
PROPERTY
    EveryTaskEnds
