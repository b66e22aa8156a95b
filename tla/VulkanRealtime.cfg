SPECIFICATION FairSpec
CONSTANTS
    FRAME_QUEUE_SIZE = 3
    MaxFrameId = 4
    Scale = 2
    TemporalDevice = FALSE
    FastForwardToggles = "between frames"
    MayLackSurface = FALSE
    ResyncThreads = {"presenter"}
INVARIANTS
    TypeOK
    StealingRendererIsServed
PROPERTIES
    NeverShowsOlderFrame
    CandidateIsShown
