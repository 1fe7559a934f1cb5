SPECIFICATION MCSpec
CONSTANTS
    READY_WAIT_MS = 2
    COMMAND_TIMEOUT_MS = 3
    SETTLE_MS = 2
    TOKEN_SETTLE_MS = 1
    MaxFrames = 2
    MaxNoise = 1
INVARIANTS
    BringUpRight
    SetupExact
    NoneForgotten
    FlowCoherent
    LegacyChannelsKept
    
    BootHonest
    FilesAccounted
    
    
    
PROPERTY RebuildsSpaced
