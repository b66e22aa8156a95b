SPECIFICATION Spec
CONSTANTS
    FRAME_QUEUE_SIZE = 5
    MaxFrameId = 6
    Policies <- VulkanPolicies
INVARIANTS
    NoFrameShared
    NoFrameLost
    BacklogBounded
    VulkanRendererNeverStarves
    NoReuseAfterResync
PROPERTY ImplementsOwnership
