CONSTANTS
    e1 = e1
    w = w
    a1 = a1
    a2 = a2
    None = None
    Exec = {e1}
    Proc = {w, a1, a2}
    Worker = w
    Events = {"broadcast", "resend", "rpcerror"}
    MaxHead = 0
    MaxForks = 0
    MaxNow = 1
    MaxPendingAge = 0
    FaultyProvider = TRUE
    RetryMax = 1
    RpcMaxRetries = 1
    HashProbe = FALSE
    MaxSends = 2
    ConfirmationDepth = 1
SPECIFICATION Spec
CHECK_DEADLOCK FALSE
SYMMETRY Requesters
INVARIANTS AttemptsAreHandOffs
