CONSTANTS
    Actor = {a1, a2}
    Msg = {m1, m2}
    Registered = {a1}
    Capacity = {0, 1, 2}
    NoActor = NoActor
    MaxMsgs = 3
    NumRights = 4
    WordBits = 6
    MaxSlice = 2
    PageSize = 2
    MaxAddr = 5
    Byte = {0, 1}
    MaxData = 4
    Key = {k1, k2}
    ParentId = {0, 1}
    None = None
    MaxEpoch = 4
    MaxMinted = 3
SPECIFICATION PartsSpec
INVARIANTS
    ActorsTypeOK
    MailboxBounded
    WordRepresentsSet
    QueriesMatchSets
    PagesRepresentBytes
    RangeReadsMatchBytes
    GraceWindow
    SealBindsPayload
    MissingAnswersDecideNothing
PROPERTIES
    RefinesMessageQueue
    EventuallyConsumed
    ExpiryIsFinal
