SPECIFICATION Spec
CONSTANTS
    FRAME_QUEUE_SIZE = 4
    MaxFrameId = 3
    Scale = 2
    TemporalDevice = FALSE
    FastForwardToggles = "never"
    MayLackSurface = FALSE
    ResyncThreads = {"other"}
PROPERTIES
    NoFrameShownAcrossResync
