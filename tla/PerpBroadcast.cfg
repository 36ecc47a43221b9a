SPECIFICATION Spec
CHECK_DEADLOCK FALSE
CONSTANTS
    Intents = {i1, i2}
    Cosigned = {i1}
    None = None
    MaxAttempts = 1
    BatchSize = 2
    MaxFaults = 1
    MaxCalls = 1
    MaxStarts = 2
INVARIANT HandedIsRecorded
INVARIANT NoRivalEnvelopes
INVARIANT RetryIsBounded
INVARIANT ConfirmedWasSettled
PROPERTY RowsNeverRegress
