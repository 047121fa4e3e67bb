\* The limit of two, three broadcasts within one day.
CONSTANTS
    Broadcasts = {b1, b2, b3}
    Limit = 2
    Day = 1
    MaxTime = 0
SPECIFICATION Spec
SYMMETRY BroadcastSymmetry
CONSTRAINT OnlyReceipts
INVARIANT LimitSurvivesReceipts
CHECK_DEADLOCK FALSE
