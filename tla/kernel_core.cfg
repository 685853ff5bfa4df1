CONSTANTS
    PluginId = {1, 2}
    ResourceId = {0}
    Right = {r1, r2}
    MaxCapId = 2
    None = None
    RawInputs = "checked"
    Paths = {"fast"}
    Key = {k1, k2}
    MaxEpoch = 2
    MaxTime = 1
    Level = {0}
    MaxApproved = 1
SPECIFICATION CoreSpec
SYMMETRY Symm
CHECK_DEADLOCK FALSE
INVARIANTS
    UsableEntitled
    OrphansOvertaken
PROPERTIES
    UsabilityFinal
