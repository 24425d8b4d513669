SPECIFICATION AdminsSpec
CONSTANTS
    Users = {u1, u2, u3, u4, u5}
    Devices = {d1, d2, d3, d4}
    Realms = {}
    Vlobs = {}
    Root = Root
    MaxTs = 5
    MaxKey = 0
    ActiveUsersLimit = 3
    MaxVersions = 0
    Timestamps <- MCTimestamps
    KeyIndexes <- MCKeyIndexes
    Twins = {u1, u2}
    HumanHandle <- TwinHandle
SYMMETRY Symmetry
INVARIANTS
    ActiveAdminExists
    CommonCertsAcceptable
    EnrollmentIsLimited
CHECK_DEADLOCK FALSE
