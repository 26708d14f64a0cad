SPECIFICATION FairSpec
CONSTANTS
    ch1 = ch1
    ch2 = ch2
    Channels = {ch1}
    Heartbeat = Heartbeat
    NumEvents = 2
    ChannelOf <- OneChannel
    CreatedAt <- MCCreatedAt
    NumSlots = 1
    Configs <- LivenessConfigs
    MaxPending = 2
    MaxBatch = 2
    MaxRetries = 1
    CrashThreshold = 2
PROPERTIES NothingStuck SlotRecovers
