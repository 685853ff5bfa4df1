CONSTANTS
    PluginId = {1, 2}
    ResourceId = {10}
    Right = {r1, r2}
    MaxCapId = 2
    None = None
    RawInputs = "roots"
    Paths = {"fast"}
SPECIFICATION CapSpec
SYMMETRY Symm
CHECK_DEADLOCK FALSE
INVARIANTS
    IndexConsistent
    AuthorityConfined
    HandlesSound
PROPERTIES
    RevocationPermanent
