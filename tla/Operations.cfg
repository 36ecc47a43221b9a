CONSTANTS
    e1 = e1
    e2 = e2
    d1 = d1
    d2 = d2
    k1 = k1
    k2 = k2
    r1 = r1
    s1 = s1
    None = None
    Exec = {e1, e2}
    Drives = {d1, d2}
    Recoverers = {r1}
    Rebuilders = {k1}
    Reconcilers = {s1}
    Events = {"crash", "same_ms"}
    MaxNonce = 0
    MaxEpoch = 1
    MaxAttempts = 1
    MaxOnchain = 0
    MaxNow = 4
SPECIFICATION Spec
CHECK_DEADLOCK FALSE
SYMMETRY Alike
CONSTRAINTS TwoAtATime BeforeSimulation
INVARIANTS LiveDriveHoldsLock ReconciliationKeepsLock
