\* Two broadcasts against a limit of one alert per day of one tick.
CONSTANTS
    Broadcasts = {b1, b2}
    Limit = 1
    Day = 1
    MaxTime = 2
SPECIFICATION Spec
SYMMETRY BroadcastSymmetry
CONSTRAINT Uncaused
INVARIANTS
    TypeOK
    BreachHasCause
\* Every broadcast happens once and the clock stops.
CHECK_DEADLOCK FALSE
