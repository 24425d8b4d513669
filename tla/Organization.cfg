SPECIFICATION OrganizationSpec
CONSTANTS
    Users = {u1, u2}
    Devices = {d1, d2}
    Realms = {r1}
    Vlobs = {v1}
    Root = Root
    MaxTs = 6
    MaxKey = 2
    ActiveUsersLimit = 2
    MaxVersions = 2
    Timestamps <- MCTimestamps
    KeyIndexes <- MCKeyIndexes
    Twins = {}
    HumanHandle <- TwinHandle
SYMMETRY Symmetry
INVARIANTS
    RealmCertsAcceptable
    VlobsAcceptable
    RevocationIsCausal
    RealmHasOwner
    KeysFollowRoles
    PollIsComplete
CHECK_DEADLOCK FALSE
