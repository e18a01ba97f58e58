SPECIFICATION MCSpec
CONSTANTS
    ProfileNames = {"prod", "a/b"}
    Profiles <- MCProfiles
    DotFiles <- MCDotFiles
    Flags <- MCFlags
    TestnetUrl <- TestUrl
    FuturenetUrl <- FutureUrl
    NoVal = NoVal
    MaxProtocol = 2
    BuildRequests <- MCBuildRequests
    InvokeRequests <- MCInvokeRequests
    SignRequests <- MCSignRequests
    TxBuilders <- MCTxBuilders
    Keys = {"A", "B"}
    Identities <- MCIdentities
    LowerOf <- MCLowerOf
    ResourceFee = 7
    Rivals <- MCRivals
    MaxSigned = 1
    MaxApplied = 2
    WordBits = 2
    TypedArgs <- MCTypedArgs
    JsonTexts <- MCJsonTexts
    ArgLists <- MCArgLists
    DecodeConfigs <- MCDecodeConfigs
    KeyRequests <- MCKeyRequests
    FootprintLists <- MCFootprintLists
    LedgerEntries <- MCLedgerEntries
    FeeRequests <- MCFeeRequests
INVARIANTS
    ProbesAreTrue
    NamedBeforeMainnet
    EnvelopesAreHonest
    ReadBackIsWritten
    FootprintIsAsked
CHECK_DEADLOCK FALSE
