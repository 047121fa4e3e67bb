\* One broadcast and one lost execution.
CONSTANTS
    Broadcasts = {b1}
    Customers = {c1}
    Waitlist = {c1}
    Cancels = {}
    NoCustomer = NoCustomer
    QueueWorkers = 2
    RedisUp = TRUE
    ByAlertOnly = FALSE
    MaxCrashes = 1
SPECIFICATION FairSpec
PROPERTIES
    BroadcastEnds
\* Calls, tasks and jobs come to an end: the system may stop.
CHECK_DEADLOCK FALSE
