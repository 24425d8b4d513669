SPECIFICATION CacheSpec
CONSTANTS
    Accesses = {t1, t2, t3}
    NoTask = NoTask
    NoManifest = NoManifest
    MaxVersion = 2
    MaxEdits = 2
INVARIANTS CacheIsLatest UpdatersAreCurrent NoEditIsLost
SYMMETRY TaskSymmetry
