SPECIFICATION Spec
CONSTANTS
    MaxEvents = 3
    MayFail = TRUE
INVARIANTS
    TypeOK
    NoForgottenSurface
    LastPresentationWins
    ViewIsAttached
CHECK_DEADLOCK FALSE
