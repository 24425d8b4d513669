SPECIFICATION MCServerSpec
CONSTANTS
    alice = alice
    bob = bob
    carol = carol
    aliceDev = aliceDev
    bobDev = bobDev
    carolDev = carolDev
    realm1 = realm1
    realm2 = realm2
    v1 = v1
    t1 = t1
    t2 = t2
    t3 = t3
    Users = {alice, bob, carol}
    Devices = {aliceDev, bobDev, carolDev}
    Realms = {realm1, realm2}
    Vlobs = {v1}
    Root = Root
    MaxTs = 6
    MaxKey = 2
    ActiveUsersLimit = 3
    MaxVersions = 2
    Timestamps <- MCTimestamps
    KeyIndexes <- MCKeyIndexes
    HumanHandle <- OwnHandle
    Tasks <- MCTasks
    Topics <- MCTopics
    Requests <- SomeRequests
INVARIANTS
    SeenIsCurrent
PROPERTIES
    StepsAreAtomic
    EveryRequestEnds
