SPECIFICATION Spec
CHECK_DEADLOCK FALSE
CONSTANTS
    None = None
    Txs = {t1}
    Requests = {r1, r2}
    Kinds = {"index", "reconcile", "confirm"}
    MaxHead = 2
    MaxForks = 1
    BatchSize = 2
    MaxBlockRange = 2
    Required = 1
    MaxRequests = 3
    MaxActive = 2
    MaxFaults = 1
INVARIANT OneMatchPerIntent
INVARIANT ConfirmedIsAccounted
INVARIANT VolumeCountedOnce
PROPERTY BatchIsExact
SYMMETRY Alike
