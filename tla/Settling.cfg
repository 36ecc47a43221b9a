CONSTANTS
    e1 = e1
    w = w
    a1 = a1
    a2 = a2
    None = None
    Exec = {e1}
    Proc = {w, a1}
    Worker = w
    Events = {"broadcast", "crash", "rpcerror", "evict"}
    MaxHead = 1
    MaxForks = 0
    MaxNow = 2
    MaxPendingAge = 0
    FaultyProvider = FALSE
    RetryMax = 1
    RpcMaxRetries = 0
    HashProbe = FALSE
    MaxSends = 2
    ConfirmationDepth = 1
SPECIFICATION FairSpec
CHECK_DEADLOCK FALSE
PROPERTY WaitingRowsSettle
