SPECIFICATION Spec
CONSTANTS
    trade = trade
    quote = quote
    c1 = c1
    c2 = c2
    Intents <- MCIntents
    Correlated <- MCCorrelated
    None = None
    Calls <- MCCalls
    Finality = 1
    MaxHead = 2
    MaxFaults = 1
    MaxSignings = 2
    MaxByHand = 1
SYMMETRY CallSymmetry
CHECK_DEADLOCK FALSE
INVARIANT HandedIsBound
INVARIANT FinalIsPermanent
INVARIANT ConfirmedSucceeded
