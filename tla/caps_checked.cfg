CONSTANTS
    PluginId = {1}
    ResourceId = {10, 11}
    Right = {r1, r2}
    MaxCapId = 3
    None = None
    RawInputs = "checked"
    Paths = {"pure", "fast"}
SPECIFICATION CapSpec
SYMMETRY Symm
CHECK_DEADLOCK FALSE
INVARIANTS
    CapTypeOK
    ParentLt
    RevocationPathsAgree
    AuthorityConfined
