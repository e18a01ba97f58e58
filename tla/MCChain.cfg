SPECIFICATION MCSpec
CONSTANTS
    Keys <- MCKeys
    Instance = "inst"
    KeyClass <- MCKeyClass
    Values = {v1, v2}
    NoValue = NoValue
    NoNet = NoNet
    Home = Home
    Other = Other
    Nets = {Home}
    MaxEntries = 1
    MAX_LEDGER_KEYS = 3
    EXPIRING_SOON_LEDGERS = 2
    DEFAULT_SUGGESTED_LEDGERS = 3
    RestoreTtl = 2
    U32Max = 20
    Lifetimes <- MCLifetimes
    MaxLedger = 4
    MaxCommands = 4
    h1 = h1
    h2 = h2
    Hashes = {h1, h2}
    NoHash = NoHash
    BadFile = BadFile
    Executables <- MCExecutables
    Settings = {"compute", "size"}
    MaxU32 = 9
    EventWindow = 1
    PageLimit = 1
    Unset = Unset
    MaxSeq = 3
    MaxReads = 2
INVARIANTS
    ReportsTellTheChain
    PlanRescues
    AnswersAreGrounded
CHECK_DEADLOCK FALSE
