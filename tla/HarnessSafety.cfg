SPECIFICATION Spec
CONSTANTS
    ch1 = ch1
    ch2 = ch2
    Channels = {ch1, ch2}
    Heartbeat = Heartbeat
    NumEvents = 3
    ChannelOf <- MCChannelOf
    CreatedAt <- MCCreatedAt
    NumSlots = 2
    Configs <- SafetyConfigs
    MaxPending = 1
    MaxBatch = 1
    MaxRetries = 1
    CrashThreshold = 2
INVARIANTS TypeOK ExactlyOneHome TurnsMatchMarks SlotExclusive SessionsStripped SleepStrandsNothing
