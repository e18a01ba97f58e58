SPECIFICATION Spec
CONSTANTS
    t1 = t1
    t2 = t2
    acct = acct
    Tx <- MCTx
    Accounts = {acct}
    Source <- MCSource
    Waiting <- MCWaiting
    Timeout = 2
    Interval = 1
    MaxSeq = 2
INVARIANTS
    SettledAnswersAreTrue
    SettledStaysSettled
PROPERTY AlwaysAnswered
CHECK_DEADLOCK FALSE
