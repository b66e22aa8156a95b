SPECIFICATION Spec
CONSTANTS
    Leaderboards = {lb1}
    Tokens = {t1, t2}
    MaxAttempts = 2
    MaxSubmissions = 2
    MaxOutages = 2
    MaxSessions = 2
    MaxResets = 1
    MaxRefreshes = 1
    MaxLag = 0
INVARIANTS
    MirrorIsTrue
    IndicatorsAreTrue
    LeavesNothingUntold
PROPERTIES
    NothingFromBeforeReset
    RetryKeepsAttempt
    PendingIsSettled
CHECK_DEADLOCK FALSE
