SPECIFICATION Spec
CONSTANTS
    r1 = r1
    r2 = r2
    testnet = testnet
    mainnet = mainnet
    None = None
    Corrupt = Corrupt
    Runs = {r1, r2}
    Networks = {testnet, mainnet}
    Aliases <- MCAliases
    DependsOn <- MCDependsOn
    Order <- MCOrder
    Deployments <- MCDeployments
    ContractId <- MCFreshIds
    FromHash = {}
    NetworkOf <- MCTwoNetworks
    Skip = {r2}
    Sequential = FALSE
INVARIANT ReportedIsRecorded
CHECK_DEADLOCK FALSE
