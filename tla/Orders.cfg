SPECIFICATION Spec
CHECK_DEADLOCK FALSE
CONSTANTS
    Callers = {s1, s2}
    Accounts <- MCAccounts
    SignedOrders <- MCSignedOrders
    Batches <- MCBatches
    Quotes <- MCQuotes
    NoOrder = NoOrder
    NoAccount = NoAccount
    MaxOpen = 2
    MaxMessages = 3
    MaxFaults = 1
INVARIANT BookNotCrossed
INVARIANT LevelsAndLocationsAgree
INVARIANT FillsAreConserved
INVARIANT StoredRowsNeverAhead
INVARIANT DisconnectCancels
INVARIANT SignedOrderOnce
PROPERTY PriceTimePriority
SYMMETRY SessionSymmetry
