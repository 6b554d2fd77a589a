SPECIFICATION FairSpec
CONSTANTS
    Last = 2
    Root <- MCRoot
    Txs <- MCTxs
    Exec <- MCExec
    Chain <- MCChain
    TxHash = {"t1", "t2"}
    DataHash = {"d0", "d1", "d2"}
    ZeroHash = "d0"
    Tasks <- FedTasks
    LogGroup <- MCLogGroup
    None = None
    Failed = Failed
    Missing = Missing
    Threads = 2
    Retries = 3
    MaxReorgs = 2
INVARIANTS
    TypeOK
    SignedExecuted
    ReportOfServedChains
    BatchOfOneChain
    TaskIsLogged
PROPERTY CallReturns
CHECK_DEADLOCK FALSE
