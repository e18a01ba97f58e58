SPECIFICATION Spec
CONSTANTS
    r1 = r1
    r2 = r2
    testnet = testnet
    mainnet = mainnet
    None = None
    Corrupt = Corrupt
    Runs = {r1, r2}
    Networks = {testnet}
    Aliases <- MCAliases
    DependsOn <- MCDependsOn
    Order <- MCOrder
    Deployments <- MCDeployments
    ContractId <- MCFreshIds
    FromHash = {}
    NetworkOf <- MCOneNetwork
    Skip = {r2}
    Sequential = TRUE
INVARIANTS
    RecordsAreKept
    DependenciesComeFirst
PROPERTIES
    ReadableStaysReadable
    ResumeDeploysOnlyMissing
    RunsComplete
CHECK_DEADLOCK FALSE
