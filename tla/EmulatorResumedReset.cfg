SPECIFICATION Spec
CONSTANTS
    Workers = {w1}
    MainCalls = {"pause", "resume"}
    WorkerCalls = {"reset"}
    IoCalls = {"start"}
INVARIANTS ResetOnlyWhilePaused
