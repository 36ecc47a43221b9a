CONSTANTS
    e1 = e1
    e2 = e2
    d1 = d1
    d2 = d2
    k1 = k1
    k2 = k2
    r1 = r1
    s1 = s1
    None = None
    Exec = {e1, e2}
    Drives = {d1, d2}
    Recoverers = {}
    Rebuilders = {}
    Reconcilers = {}
    Events = {"resume", "cancel", "hangup", "dberror"}
    MaxNonce = 2
    MaxEpoch = 0
    MaxAttempts = 2
    MaxOnchain = 1
    MaxNow = 3
SPECIFICATION Spec
CHECK_DEADLOCK FALSE
SYMMETRY Alike
INVARIANTS NonceIsOwned SignedAtMostOnce CancelledIsUnsigned PreparedIsSigned
PROPERTY ArtifactsAreWrittenOnce
