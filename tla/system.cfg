CONSTANTS
    PluginId = {1, 2}
    ResourceId = {0}
    Right = {"Read", "Create", "Declassify", "Send", "Revoke"}
    MaxCapId = 2
    None = None
    RawInputs = "roots"
    Paths = {"fast"}
    MaxResources = 3
    MaxTokens = 1
    Level = {0, 2}
    Arg = {0, 2}
    Quota = 3
    MaxWord = 3
    HostFn = {"CapCall", "CapSend", "KernelAlloc", "CapRevoke", "Declassify", "ThreadCreate"}
    Policy = "PermitAll"
    Freed = Freed
    Actor = {2}
    Msg = {1, 2}
    Registered = {2}
    Capacity = {1}
    NoActor = NoActor
    MaxMsgs = 2
    BootLevel <- BootLevels
    BootOwner = 2
    BootRights <- AllOrSend
    MemBounds = 2
    Region <- SomeRegions
SPECIFICATION SystemSpec
CHECK_DEADLOCK FALSE
INVARIANTS
    StepConfinement
    ExecutorsAgree
    QuotaSound
PROPERTIES
    MailMediated
    EffectsMediated
    ResourceLifecycle
