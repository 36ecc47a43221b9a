SPECIFICATION Spec
CONSTANTS
    s1 = s1
    s2 = s2
    s3 = s3
    b1 = b1
    b2 = b2
    b3 = b3
    self = self
    other = other
    third = third
    Accounts <- MCAccounts
    IsCall = FALSE
    Underlying = Underlying
    SettlementAsset = SettlementAsset
    Orders <- MCOrders
    Terms <- MCTerms
    None = None
    MaxSubmissions = 3
    MaxFaults = 2
CHECK_DEADLOCK FALSE
INVARIANT FillsConserved
INVARIANT CrossedOnlyByOverlap
PROPERTY PriorityKept
INVARIANT LedgerFollowsBook
