CONSTANTS
    e1 = e1
    w = w
    a1 = a1
    a2 = a2
    None = None
    Exec = {e1}
    Proc = {w, a1}
    Worker = w
    Events = {"recheck", "finalize", "recover", "reorg"}
    MaxHead = 3
    MaxForks = 2
    MaxNow = 0
    MaxPendingAge = 0
    FaultyProvider = TRUE
    RetryMax = 1
    RpcMaxRetries = 0
    HashProbe = FALSE
    MaxSends = 2
    ConfirmationDepth = 1
SPECIFICATION SpecSubmitted
CHECK_DEADLOCK FALSE
INVARIANT ReceiptNamesInclusion
PROPERTY ConfirmedWasBuried
