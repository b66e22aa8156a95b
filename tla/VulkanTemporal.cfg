SPECIFICATION Spec
CONSTANTS
    FRAME_QUEUE_SIZE = 3
    MaxFrameId = 4
    Scale = 2
    TemporalDevice = TRUE
    FastForwardToggles = "never"
    MayLackSurface = TRUE
    ResyncThreads = {"presenter"}
INVARIANTS
    NoCandidatePinned
    NoTornFrame
PROPERTIES
    ImplementsFrameQueue
    NoFrameShownAcrossResync
