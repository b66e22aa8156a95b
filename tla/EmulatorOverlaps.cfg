SPECIFICATION Spec
CONSTANTS
    Workers = {w1, w2}
    MainCalls = {"pause", "resume", "rewind", "stop"}
    WorkerCalls = {"reset", "step", "state"}
    IoCalls = {"start"}
SYMMETRY WorkerSymmetry
INVARIANTS
    CoreHasOneUser
    RunningIsAudible
    StopWins
    ReallyPausedMeansWaiting
    EveryWaitIsAnswered
PROPERTY RewindRestoresPause
CHECK_DEADLOCK FALSE
