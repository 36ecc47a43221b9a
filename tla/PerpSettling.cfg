SPECIFICATION FairSpec
CHECK_DEADLOCK FALSE
CONSTANTS
    Intents = {i1, i2}
    Cosigned = {i1, i2}
    None = None
    MaxAttempts = 0
    BatchSize = 1
    MaxFaults = 0
    MaxCalls = 1
    MaxStarts = 2
PROPERTY MinedIsFinalized
