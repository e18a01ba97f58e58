SPECIFICATION DeploySpec
CONSTANTS
    p1 = p1
    p2 = p2
    acct = acct
    Procs = {p1, p2}
    FromHash = {p2}
    Sequential = TRUE
    ContractId <- MCContractId
    Tx <- MCTx
    Accounts = {acct}
    Source <- MCSource
    Waiting <- MCTx
    Timeout = 1
    Interval = 1
    MaxSeq = 0
INVARIANTS
    PartialKeepsUpload
    NoSelfInflictedBadSeq
PROPERTIES
    KeepsPromise
CHECK_DEADLOCK FALSE
