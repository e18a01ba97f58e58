SPECIFICATION MCSpec
CONSTANTS
    Sources <- MCSources
    Ids <- MCIds
    NoId = NoId
    Keys <- MCKeys
    NoKey = NoKey
    Builds <- MCBuilds
    Circumstances <- MCCircumstances
    Procs <- MCProcs
    MaxCommands = 3
    HostAbi = 1
    None = None
    Torn = Torn
    NoBundle = NoBundle
    Toml = Toml
    Trees <- MCTrees
    Installed <- MCInstalled
    Requests <- MCRequests
    Features <- MCBuilds
    Files <- MCFiles
    ReleaseRequests <- MCReleaseRequests
    CompoundArgs <- MCCompoundArgs
    NotDeployed = NotDeployed
    NoFile = NoFile
    NoVal = NoVal
    MaxMoves = 2
INVARIANTS
    StoreIsSound
    FindingsAreOfTheSource
    GateSeesEveryFinding
    OldCallersWork
    ReleaseVerdictHolds
CHECK_DEADLOCK FALSE
