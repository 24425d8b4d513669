SPECIFICATION InstanceSpec
CONSTANTS
    NoEntry = NoEntry
    Devices = {d1, d2}
    Creator = d1
    Names = {"a", "tmp"}
    Self = f
    Parents = {p, q}
    Patterns <- TmpPattern
    Operations = {"create", "remove", "rename", "lose", "repattern"}
    MaxEdits = 2
    MaxVersion = 5
    MaxRestarts = 1
INVARIANTS ManifestsAreSound NoSynchronizationPanics
PROPERTIES  EntriesSurviveSync Converges
CHECK_DEADLOCK FALSE
