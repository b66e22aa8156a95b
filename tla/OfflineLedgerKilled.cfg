SPECIFICATION Spec
CONSTANTS
    Achievements = {a1, a2}
    LegacyHardcore = legacy
    launch = launch
    details = details
    gone = gone
    SessionIds = {1, 2}
    MaxAttempts = 2
    Faults = {"killed", "killed while replacing"}
PROPERTY NoUnlockLost
