CONSTANTS
    PluginId = {1}
    ResourceId = {0}
    Right = {"Read"}
    MaxCapId = 1
    None = None
    RawInputs = "checked"
    Paths = {"pure", "fast"}
    MaxResources = 1
    MaxTokens = 0
    Level = {2}
    Arg = {0}
    Quota = 1
    MaxWord = 1
    HostFn = {"CapCall"}
    Policy = "DenyAll"
    Freed = Freed
SPECIFICATION KernelSpec
CHECK_DEADLOCK FALSE
INVARIANTS
    FreePathsAgree
