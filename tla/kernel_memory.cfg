CONSTANTS
    PluginId = {1}
    ResourceId = {0, 1}
    Right = {"Delete", "Revoke"}
    MaxCapId = 2
    None = None
    RawInputs = "checked"
    Paths = {"pure", "fast"}
    MaxResources = 2
    MaxTokens = 1
    Level = {0}
    Arg = {0, 1}
    Quota = 1
    MaxWord = 1
    HostFn = {"MemFree", "CapRevoke"}
    Policy = "PermitAll"
    Freed = Freed
SPECIFICATION KernelSpec
CHECK_DEADLOCK FALSE
INVARIANTS
    KernelTypeOK
    NoDangling
    TokensFresh
    HostFreeRefused
PROPERTIES
    ResourceLifecycle
