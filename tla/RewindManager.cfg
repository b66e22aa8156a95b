SPECIFICATION Spec
CONSTANTS
    Intervals = {2, 3}
    WindowSizes = {0, 2, 3}
    MaxSize = 3
    MaxFrames = 8
    MayFail = TRUE
INVARIANTS
    WindowIsThePast
    WindowHasNoGap
    BuffersAreOwned
    ListStaysTrue
